------------------------------ MODULE SchedTorn ------------------------------
(* Inside the struct copy of triad_sched_spawn.  TriadThread holds `state`  *)
(* in its first 16 bytes and the saved context after them, and the copy     *)
(* runs upwards with interrupts on: the slot is READY before the frame that *)
(* triad_thread_create built has reached it.  A context once complete stays *)
(* so (the switch-out saves over it) until the slot is spawned into again.  *)
EXTENDS Sched

VARIABLE framed      \* framed[t]: ctx of slot t is that of its own thread

tVars == <<vars, framed>>

TInit == Init /\ framed = [t \in Threads |-> t = Main]

CopyLow  == SpawnCopy /\ framed' = [framed EXCEPT ![slot] = FALSE]

CopyHigh ==
    /\ AtPlace(Main, "ident")
    /\ ~framed[slot]
    /\ framed' = [framed EXCEPT ![slot] = TRUE]
    /\ UNCHANGED vars

\* The copy is over before the fields are written again.
Otherwise ==
    /\ Next
    /\ ~SpawnCopy
    /\ SpawnIdent => framed[slot]
    /\ UNCHANGED framed

\* What the processor does once it has resumed a slot without its frame (the
\* zero or the stale ctx.rsp of an earlier thread) is outside the model.
TNext == framed[current] /\ (CopyLow \/ CopyHigh \/ Otherwise)

TSpec == TInit /\ [][TNext]_tVars

\* A thread is given the processor only with the context triad_thread_create
\* built for it, so that it runs at all (kernel_main announces that the two it
\* has just created "will run concurrently via preemptive scheduling").  Does
\* not hold: the timer may fall inside the copy, at the end of Main's slice.
StartsAtItsEntry == framed[current]
=============================================================================
