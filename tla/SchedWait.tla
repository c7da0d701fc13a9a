------------------------------ MODULE SchedWait ------------------------------
(* Sched with a ghost clock: for how many timer interrupts in a row each   *)
(* thread has been ready without being given the processor (the clock      *)
(* stops once it is past the bound).                                       *)
EXTENDS Sched

VARIABLE waited

wVars == <<vars, waited>>

WInit == Init /\ waited = [t \in Threads |-> 0]

\* One slice for every other slot.
MaxWait == (MaxThreads - 1) * Quantum

StaysReady(t) == state[t] = "ready" /\ state'[t] = "ready"

WNext ==
    /\ Next
    /\ waited' = [t \in Threads |->
           IF ~StaysReady(t) THEN 0
           ELSE IF TimerIrq /\ waited[t] <= MaxWait THEN waited[t] + 1
           ELSE waited[t]]

WSpec == WInit /\ [][WNext]_wVars

\* The PIT fires whatever the code does, and the handler never masks it; no
\* thread is promised any step of its own.
WFairSpec == WSpec /\ WF_vars(TimerIrq)

\* Bounded waiting: a ready thread has the processor by the time every other
\* slot has had one whole slice.  Tick reloads a slice only when it is used
\* up, and find_next_thread goes round; a thread that yielded waits one tick
\* more, the one that ends its own turn.
BoundedWait ==
    \A t \in Threads : waited[t] <= MaxWait
=============================================================================
