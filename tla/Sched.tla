-------------------------------- MODULE Sched --------------------------------
(***************************************************************************)
(* The thread scheduler of the bare-metal kernel (triad_sched.c) and the   *)
(* timer path of its interrupt handler (triad_isr.c).                      *)
(*                                                                         *)
(* One processor.  Code of the current thread runs with interrupts on, so  *)
(* the timer may fall between any two stores it makes; interrupt handlers  *)
(* and system calls run behind interrupt gates and are atomic.  A thread   *)
(* switch happens only at the end of a timer interrupt: yield, block and   *)
(* exit merely ask for one by setting needs_context_switch.                *)
(*                                                                         *)
(* pc[t] is what the saved context of slot t will resume: the thread's own *)
(* code, or a place inside triad_sched_spawn (thread 0, the only caller of *)
(* triad_thread_create) or triad_sched_exit (called by the entry wrapper). *)
(***************************************************************************)
EXTENDS Integers, FiniteSets

CONSTANTS
    MaxThreads,     \* MAX_THREADS
    Quantum,        \* TIMER_HZ / 10, the ticks of one time slice
    CountBound      \* bound: no spawn once n_threads has reached it

ASSUME MaxThreadsAssumption == MaxThreads \in Nat \ {0}
ASSUME QuantumAssumption    == Quantum \in Nat \ {0}
ASSUME CountBoundAssumption == CountBound \in Nat

Threads == 0 .. MaxThreads - 1
Main    == 0                      \* kernel_main and the shell
NoThread == -1                    \* an id outside 0 .. MAX_THREADS - 1
States  == {"ready", "running", "blocked", "dead"}
Places  == {"code",                            \* the thread's own code
            "scan", "ident", "fix", "reload", "count",
                                               \* inside triad_sched_spawn
            "drop", "flag", "halt"}            \* inside triad_sched_exit

VARIABLES
    state,          \* threads[].state
    id,             \* threads[].id
    quantum,        \* threads[].quantum_ticks
    current,        \* current_tid
    nThreads,       \* n_threads
    needsSwitch,    \* needs_context_switch
    pc,             \* what each thread's context resumes
    slot            \* the slot Main is filling, while pc[Main] is in a spawn

vars == <<state, id, quantum, current, nThreads, needsSwitch, pc, slot>>

TypeOK ==
    /\ state \in [Threads -> States]
    /\ id \in [Threads -> Threads \cup {NoThread}]
    /\ quantum \in [Threads -> 0 .. Quantum]
    /\ current \in Threads
    /\ nThreads \in Nat
    /\ needsSwitch \in BOOLEAN
    /\ pc \in [Threads -> Places]
    /\ slot \in Threads

\* triad_sched_init: every slot dead but the running boot thread's; the ids
\* are those of a static array.
Init ==
    /\ state = [t \in Threads |-> IF t = Main THEN "running" ELSE "dead"]
    /\ id = [t \in Threads |-> 0]
    /\ quantum = [t \in Threads |-> IF t = Main THEN Quantum ELSE 0]
    /\ current = Main
    /\ nThreads = 1
    /\ needsSwitch = FALSE
    /\ pc = [t \in Threads |-> "code"]
    /\ slot = Main

-----------------------------------------------------------------------------
(* find_next_thread scans the slots after the current one and wraps round, *)
(* coming to the current thread last.                                      *)

Dist(from, to) == IF to > from THEN to - from ELSE to - from + MaxThreads

\* The ready threads other than c: the scan returns -1 or c when there is none.
Others(st, c) == {t \in Threads \ {c} : st[t] = "ready"}

\* Mutant: the scan starts at slot 0 instead of after the current thread.
IsNextFromZero(st, c, t) ==
    /\ t \in Others(st, c)
    /\ \A u \in Others(st, c) : t <= u

\* Mutant: the scan runs downwards.
IsNextBackwards(st, c, t) ==
    /\ t \in Others(st, c)
    /\ \A u \in Others(st, c) : Dist(c, t) >= Dist(c, u)

IsNext(st, c, t) ==
    /\ t \in Others(st, c)
    /\ \A u \in Others(st, c) : Dist(c, t) <= Dist(c, u)

\* triad_sched_do_switch, from the states st that the tick has just written.
\* A current thread that is dead or blocked keeps the processor, unlabelled,
\* when no other thread is ready.
DoSwitch(st, asked) ==
    /\ needsSwitch' = FALSE
    /\ \/ /\ asked
          /\ \E next \in Threads :
                /\ IsNext(st, current, next)
                /\ current' = next
                /\ state' = [t \in Threads |->
                       IF t = next THEN "running"
                       ELSE IF t = current /\ st[t] = "running" THEN "ready"
                       ELSE st[t]]
       \/ /\ asked
          /\ Others(st, current) = {}
          /\ state' = [st EXCEPT ![current] =
                            IF @ \in {"dead", "blocked"} THEN @ ELSE "running"]
          /\ UNCHANGED current
       \/ /\ ~asked
          /\ state' = st
          /\ UNCHANGED current

-----------------------------------------------------------------------------
(* The timer interrupt: triad_sched_tick, then the switch if one is asked. *)

TickNotRunning ==
    /\ state[current] # "running"
    /\ DoSwitch(state, TRUE)
    /\ UNCHANGED <<id, quantum, nThreads, pc, slot>>

TickWithinSlice ==
    /\ state[current] = "running"
    /\ quantum[current] > 1
    /\ quantum' = [quantum EXCEPT ![current] = @ - 1]
    /\ DoSwitch(state, needsSwitch)
    /\ UNCHANGED <<id, nThreads, pc, slot>>

\* Mutant: the turn is given up only to a slot further on (next > current_tid).
TickEndOfSliceUpwards ==
    /\ state[current] = "running"
    /\ quantum[current] = 1
    /\ quantum' = [quantum EXCEPT ![current] = Quantum]
    /\ IF \E u \in Others(state, current) : u > current
         THEN DoSwitch([state EXCEPT ![current] = "ready"], TRUE)
         ELSE DoSwitch(state, needsSwitch)
    /\ UNCHANGED <<id, nThreads, pc, slot>>

TickEndOfSlice ==
    /\ state[current] = "running"
    /\ quantum[current] = 1
    /\ quantum' = [quantum EXCEPT ![current] = Quantum]
    /\ IF Others(state, current) # {}
         THEN DoSwitch([state EXCEPT ![current] = "ready"], TRUE)
         ELSE DoSwitch(state, needsSwitch)
    /\ UNCHANGED <<id, nThreads, pc, slot>>

TimerIrq == TickNotRunning \/ TickWithinSlice \/ TickEndOfSlice

-----------------------------------------------------------------------------
(* triad_thread_create, from the main thread.  The caller's descriptor is  *)
(* already marked READY, so copying it into the slot publishes the thread; *)
(* the fields are then written again, and last the count goes up.  Here    *)
(* the copy is one step; SchedTorn looks inside it.  The descriptor is an  *)
(* uninitialised variable of the caller, and triad_thread_create does not  *)
(* write its id: until the store after the copy, the slot's id is any.     *)

AtPlace(t, place) == current = t /\ pc[t] = place

\* The loop looks at one slot after the other; threads may exit meanwhile.
SpawnStart ==
    /\ AtPlace(Main, "code")
    /\ nThreads < CountBound
    /\ pc' = [pc EXCEPT ![Main] = "scan"]
    /\ slot' = 0
    /\ UNCHANGED <<state, id, quantum, current, nThreads, needsSwitch>>

ScanOn ==
    /\ AtPlace(Main, "scan")
    /\ state[slot] # "dead"
    /\ IF slot + 1 \in Threads
         THEN slot' = slot + 1 /\ UNCHANGED pc
         ELSE pc' = [pc EXCEPT ![Main] = "code"] /\ UNCHANGED slot
    /\ UNCHANGED <<state, id, quantum, current, nThreads, needsSwitch>>

SpawnCopy ==
    /\ AtPlace(Main, "scan")
    /\ state[slot] = "dead"
    /\ state' = [state EXCEPT ![slot] = "ready"]
    /\ \E any \in Threads \cup {NoThread} : id' = [id EXCEPT ![slot] = any]
    /\ quantum' = [quantum EXCEPT ![slot] = Quantum]
    /\ pc' = [pc EXCEPT ![Main] = "ident", ![slot] = "code"]
    /\ UNCHANGED <<current, nThreads, needsSwitch, slot>>

SpawnIdent ==
    /\ AtPlace(Main, "ident")
    /\ id' = [id EXCEPT ![slot] = slot]
    /\ pc' = [pc EXCEPT ![Main] = "fix"]
    /\ UNCHANGED <<state, quantum, current, nThreads, needsSwitch, slot>>

SpawnFix ==
    /\ AtPlace(Main, "fix")
    /\ state' = [state EXCEPT ![slot] = "ready"]
    /\ pc' = [pc EXCEPT ![Main] = "reload"]
    /\ UNCHANGED <<id, quantum, current, nThreads, needsSwitch, slot>>

SpawnReload ==
    /\ AtPlace(Main, "reload")
    /\ quantum' = [quantum EXCEPT ![slot] = Quantum]
    /\ pc' = [pc EXCEPT ![Main] = "count"]
    /\ UNCHANGED <<state, id, current, nThreads, needsSwitch, slot>>

SpawnCount ==
    /\ AtPlace(Main, "count")
    /\ nThreads' = nThreads + 1
    /\ pc' = [pc EXCEPT ![Main] = "code"]
    /\ UNCHANGED <<state, id, quantum, current, needsSwitch, slot>>

-----------------------------------------------------------------------------
(* thread_entry_wrapper, when the thread's function has returned: the      *)
(* three stores of triad_sched_exit(current_tid), then a halt loop.        *)

\* Mutant: the count is lowered without looking whether it is zero.
DroppedBlindly == nThreads - 1

Dropped == IF nThreads > 0 THEN nThreads - 1 ELSE 0

ExitMark(t) ==
    /\ t # Main
    /\ AtPlace(t, "code")
    /\ state' = [state EXCEPT ![t] = "dead"]
    /\ pc' = [pc EXCEPT ![t] = "drop"]
    /\ UNCHANGED <<id, quantum, current, nThreads, needsSwitch, slot>>

ExitDrop(t) ==
    /\ AtPlace(t, "drop")
    /\ nThreads' = Dropped
    /\ pc' = [pc EXCEPT ![t] = "flag"]
    /\ UNCHANGED <<state, id, quantum, current, needsSwitch, slot>>

ExitFlag(t) ==
    /\ AtPlace(t, "flag")
    /\ needsSwitch' = TRUE
    /\ pc' = [pc EXCEPT ![t] = "halt"]
    /\ UNCHANGED <<state, id, quantum, current, nThreads, slot>>

-----------------------------------------------------------------------------
(* System calls of a thread other than the main one; the gate makes each   *)
(* atomic.  SYS_EXIT and SYS_SLEEP act on the slot that the id of the      *)
(* current thread names, whatever state that slot is in, and on none when  *)
(* the id is out of range.  They return to their caller, which runs on     *)
(* until the next tick and may call again: nothing looks at its state.     *)

SysExit(t) ==
    /\ t # Main
    /\ AtPlace(t, "code")
    /\ id[t] \in Threads
    /\ state' = [state EXCEPT ![id[t]] = "dead"]
    /\ nThreads' = Dropped
    /\ needsSwitch' = (needsSwitch \/ id[t] = t)
    /\ UNCHANGED <<id, quantum, current, pc, slot>>

SysSleep(t) ==
    /\ t # Main
    /\ AtPlace(t, "code")
    /\ id[t] \in Threads
    /\ state' = [state EXCEPT ![id[t]] = "blocked"]
    /\ needsSwitch' = (needsSwitch \/ id[t] = t)
    /\ UNCHANGED <<id, quantum, current, nThreads, pc, slot>>

\* Mutant: yield gives the turn up and forgets to ask for the switch.
SysYieldSilent(t) ==
    /\ t # Main
    /\ AtPlace(t, "code")
    /\ Others(state, t) # {}
    /\ state' = [state EXCEPT ![t] = IF @ = "running" THEN "ready" ELSE @]
    /\ UNCHANGED <<id, quantum, current, nThreads, needsSwitch, pc, slot>>

SysYield(t) ==
    /\ t # Main
    /\ AtPlace(t, "code")
    /\ Others(state, t) # {}
    /\ state' = [state EXCEPT ![t] = IF @ = "running" THEN "ready" ELSE @]
    /\ needsSwitch' = TRUE
    /\ UNCHANGED <<id, quantum, current, nThreads, pc, slot>>

\* triad_sched_unblock: no code of the kernel calls it; offered to the main
\* thread, for a thread whose number triad_thread_create has returned to it
\* (by then the slot's id is that number).
Unblock(t) ==
    /\ AtPlace(Main, "code")
    /\ id[t] = t
    /\ state[t] = "blocked"
    /\ state' = [state EXCEPT ![t] = "ready"]
    /\ UNCHANGED <<id, quantum, current, nThreads, needsSwitch, pc, slot>>

-----------------------------------------------------------------------------
Spawn ==
    \/ SpawnStart \/ ScanOn \/ SpawnCopy
    \/ SpawnIdent \/ SpawnFix \/ SpawnReload \/ SpawnCount

ThreadStep(t) ==
    \/ ExitMark(t) \/ ExitDrop(t) \/ ExitFlag(t)
    \/ SysExit(t) \/ SysSleep(t) \/ SysYield(t)
    \/ Unblock(t)

Next ==
    \/ TimerIrq
    \/ Spawn
    \/ \E t \in Threads : ThreadStep(t)

Spec == Init /\ [][Next]_vars

-----------------------------------------------------------------------------
(* Properties.                                                             *)

\* A thread labelled RUNNING is the one whose stack the processor is on, and
\* a current thread that has given its turn up (READY) has a switch pending:
\* so a thread is never lost between the two halves (the request and the
\* later tick) of a switch, whichever store of whom the tick falls after.
RunningIsCurrent == \A t \in Threads : state[t] = "running" => t = current
TurnGivenUp      == state[current] = "ready" => needsSwitch
OneOwner         == RunningIsCurrent /\ TurnGivenUp

\* Round robin (find_next_thread, do_switch): the processor never passes over
\* a waiting thread.  A thread ready before a switch gets it, or comes nearer.
NoOvertaking ==
    [][current' # current =>
          \A t \in Threads \ {current} : state[t] = "ready" =>
             t = current' \/ Dist(current', t) < Dist(current, t)]_vars

\* The one way to lose one's place in the queue: a new thread that the timer
\* started between the copy of its descriptor and the store of its id has made
\* SYS_EXIT or SYS_SLEEP, and the id it had by chance was t's.
Struck(t) ==
    /\ state[t] \in {"blocked", "dead"}
    /\ current = slot /\ pc[Main] = "ident"
    /\ id[current] = t /\ t # current

\* A waiting thread is given the processor in the end (tick, do_switch), or is
\* struck, though nobody but the timer is fair: the others may compute forever,
\* sleep, yield back and forth, or halt after exit, and new ones may keep being
\* spawned.
NoStarvation ==
    \A t \in Threads :
        (t # current /\ state[t] = "ready") ~> (t = current \/ Struck(t))
=============================================================================
