----------------------------- MODULE SchedProofs -----------------------------
(* For every number of slots and every slice: the scheduler's types, the    *)
(* agreement of labels and processor, round-robin order, bounded waiting,   *)
(* and what may go wrong inside the struct copy of a spawn.                 *)
EXTENDS SchedWait, SchedTorn, TLAPS

-----------------------------------------------------------------------------
(* Arithmetic of the circular scan.                                         *)

LEMMA DistRange ==
    ASSUME NEW a \in Threads, NEW b \in Threads
    PROVE  /\ Dist(a, b) \in 1 .. MaxThreads
           /\ a # b => Dist(a, b) \in 1 .. MaxThreads - 1
  BY MaxThreadsAssumption DEF Dist, Threads

\* A slot the scan meets later than the one it stops at comes nearer to the
\* new start of the scan.
LEMMA DistAdvance ==
    ASSUME NEW c \in Threads, NEW n \in Threads \ {c}, NEW t \in Threads \ {c},
           t # n, Dist(c, n) <= Dist(c, t)
    PROVE  Dist(n, t) < Dist(c, t)
  BY MaxThreadsAssumption DEF Dist, Threads

-----------------------------------------------------------------------------
(* The inductive invariant: while Main is inside a spawn, the slot it fills *)
(* is not its own, so republishing the slot cannot disturb the current      *)
(* thread; an id is wrong only in a slot that nobody has been put into, or  *)
(* before the store in the slot being filled; every other slot has ticks    *)
(* left in its slice; and Main, which alone wakes others, neither sleeps    *)
(* nor exits while it has the processor (off the processor a new thread     *)
(* with a wrong id may put it to sleep, or end it, for ever).               *)

SlotIsOther ==
    /\ pc[Main] \in {"ident", "fix", "reload"} => slot # Main
    /\ pc[Main] = "fix" => id[slot] = slot

InSpawn(t)  == t = slot /\ pc[Main] = "ident"

IdsAreOwn ==
    \A t \in Threads :
        \/ id[t] = t
        \/ InSpawn(t)
        \/ state[t] \in {"dead", "blocked"} /\ t # current

SliceNotOver ==
    \A t \in Threads : id[t] = t \/ InSpawn(t) => quantum[t] > 0

MainRuns == current = Main => state[Main] \notin {"blocked", "dead"}

SchedInv ==
    /\ TypeOK /\ OneOwner
    /\ SlotIsOther /\ IdsAreOwn /\ SliceNotOver /\ MainRuns

LEMMA InitInv == Init => SchedInv
  <1> SUFFICES ASSUME Init PROVE SchedInv
    OBVIOUS
  <1>1. Main \in Threads
    BY MaxThreadsAssumption DEF Main, Threads
  <1>2. TypeOK
    <2>1. state \in [Threads -> States] /\ pc \in [Threads -> Places]
      BY DEF Init, States, Places
    <2>2. /\ quantum \in [Threads -> 0 .. Quantum]
          /\ id \in [Threads -> Threads \cup {NoThread}]
      BY <1>1, QuantumAssumption DEF Init, Main
    <2>3. QED
      BY <1>1, <2>1, <2>2 DEF Init, TypeOK
  <1>3. OneOwner /\ SlotIsOther /\ IdsAreOwn /\ SliceNotOver /\ MainRuns
    BY <1>1, QuantumAssumption
    DEF Init, OneOwner, RunningIsCurrent, TurnGivenUp, SlotIsOther, InSpawn,
        IdsAreOwn, SliceNotOver, MainRuns, Main
  <1>4. QED
    BY <1>2, <1>3 DEF SchedInv

\* Whoever may run has ticks left in its slice.
LEMMA SliceLeft ==
    ASSUME SchedInv, NEW t \in Threads,
           t = current \/ state[t] \in {"ready", "running"}
    PROVE  quantum[t] > 0
  BY DEF SchedInv, OneOwner, RunningIsCurrent, IdsAreOwn, SliceNotOver

\* What one call of do_switch does, whatever the tick has written before.
LEMMA SwitchFacts ==
    ASSUME SchedInv,
           NEW st \in [Threads -> States], NEW asked \in BOOLEAN,
           \A t \in Threads \ {current} : st[t] # "running",
           st[current] = "ready" => asked,
           DoSwitch(st, asked)
    PROVE  /\ state' \in [Threads -> States]
           /\ current' \in Threads
           /\ needsSwitch' = FALSE
           /\ RunningIsCurrent'
           /\ state'[current'] # "ready"
           /\ \A t \in Threads :
                 /\ state'[t] = "dead" <=> st[t] = "dead"
                 /\ state'[t] = "blocked" <=> st[t] = "blocked"
           /\ current' # current =>
                 /\ st[current'] = "ready"
                 /\ \A u \in Others(st, current) :
                        Dist(current, current') <= Dist(current, u)
  <1>1. CASE asked /\ \E next \in Threads :
                /\ IsNext(st, current, next)
                /\ current' = next
                /\ state' = [t \in Threads |->
                       IF t = next THEN "running"
                       ELSE IF t = current /\ st[t] = "running" THEN "ready"
                       ELSE st[t]]
    BY <1>1 DEF SchedInv, TypeOK, DoSwitch, IsNext, Others, States, RunningIsCurrent
  <1>2. CASE /\ asked
             /\ Others(st, current) = {}
             /\ state' = [st EXCEPT ![current] =
                            IF @ \in {"dead", "blocked"} THEN @ ELSE "running"]
             /\ UNCHANGED current
    BY <1>2 DEF SchedInv, TypeOK, DoSwitch, States, RunningIsCurrent
  <1>3. CASE ~asked /\ state' = st /\ UNCHANGED current
    BY <1>3 DEF SchedInv, TypeOK, DoSwitch, States, RunningIsCurrent
  <1>4. QED
    BY <1>1, <1>2, <1>3 DEF DoSwitch

\* What a timer interrupt does to the labels, the slices and the turn.
LEMMA TimerFacts ==
    ASSUME SchedInv, TimerIrq
    PROVE  /\ state' \in [Threads -> States]
           /\ quantum' \in [Threads -> 0 .. Quantum]
           /\ current' \in Threads
           /\ needsSwitch' = FALSE
           /\ UNCHANGED <<id, nThreads, pc, slot>>
           /\ RunningIsCurrent'
           /\ state'[current'] # "ready"
           /\ \A t \in Threads :
                 /\ state'[t] = "dead" <=> state[t] = "dead"
                 /\ state'[t] = "blocked" <=> state[t] = "blocked"
                 /\ quantum[t] > 0 => quantum'[t] > 0
           /\ current' # current => state[current'] = "ready"
  <1> USE DEF SchedInv, TypeOK
  <1>0. \A t \in Threads \ {current} : state[t] # "running"
    BY DEF OneOwner, RunningIsCurrent
  <1>1. CASE TickNotRunning
    <2>1. DoSwitch(state, TRUE)
      BY <1>1 DEF TickNotRunning
    <2>2. QED
      BY <1>0, <1>1, <2>1, SwitchFacts DEF TickNotRunning
  <1>2. CASE TickWithinSlice
    <2>1. DoSwitch(state, needsSwitch) /\ (state[current] = "ready" => needsSwitch)
      BY <1>2 DEF TickWithinSlice
    <2>2. /\ quantum' \in [Threads -> 0 .. Quantum]
          /\ \A t \in Threads : quantum[t] > 0 => quantum'[t] > 0
      BY <1>2, QuantumAssumption DEF TickWithinSlice
    <2>3. QED
      BY <1>0, <1>2, <2>1, <2>2, SwitchFacts DEF TickWithinSlice
  <1>3. CASE TickEndOfSlice
    <2> DEFINE st == [state EXCEPT ![current] = "ready"]
    <2>1. \A t \in Threads \ {current} : st[t] # "running" /\ st[t] = state[t]
      BY <1>0
    <2>2. st \in [Threads -> States] /\ \A t \in Threads :
                   /\ state[t] = "dead" <=> st[t] = "dead"
                   /\ state[t] = "blocked" <=> st[t] = "blocked"
      BY <1>3 DEF States, TickEndOfSlice
    <2>3. /\ quantum' \in [Threads -> 0 .. Quantum]
          /\ \A t \in Threads : quantum[t] > 0 => quantum'[t] > 0
      BY <1>3, QuantumAssumption DEF TickEndOfSlice
    <2>4. CASE DoSwitch(st, TRUE)
      <3> HIDE DEF st
      <3>1. QED
        BY <1>3, <2>1, <2>2, <2>3, <2>4, SwitchFacts DEF TickEndOfSlice
    <2>5. CASE DoSwitch(state, needsSwitch)
      <3>1. state[current] = "ready" => needsSwitch
        BY <1>3 DEF TickEndOfSlice
      <3>2. QED
        BY <1>0, <1>3, <2>3, <2>5, <3>1, SwitchFacts DEF TickEndOfSlice
    <2>6. QED
      BY <1>3, <2>4, <2>5 DEF TickEndOfSlice
  <1>4. QED
    BY <1>1, <1>2, <1>3 DEF TimerIrq

LEMMA MainIsAThread == Main \in Threads
  BY MaxThreadsAssumption DEF Main, Threads

LEMMA TimerKeepsInv == SchedInv /\ TimerIrq => SchedInv'
  <1> SUFFICES ASSUME SchedInv, TimerIrq PROVE SchedInv'
    OBVIOUS
  <1> USE DEF SchedInv
  <1>1. TypeOK'
    BY TimerFacts DEF TypeOK
  <1>2. OneOwner'
    BY TimerFacts DEF OneOwner, TurnGivenUp
  <1>3. SlotIsOther' /\ SliceNotOver'
    BY TimerFacts DEF SlotIsOther, SliceNotOver, InSpawn
  <1>4. IdsAreOwn'
    BY TimerFacts DEF IdsAreOwn, InSpawn
  <1>5. MainRuns'
    BY TimerFacts, MainIsAThread DEF MainRuns
  <1>6. QED
    BY <1>1, <1>2, <1>3, <1>4, <1>5

LEMMA CodeKeepsInv ==
    ASSUME SchedInv,
           \/ Spawn
           \/ \E t \in Threads : ThreadStep(t)
    PROVE  SchedInv'
  <1> USE QuantumAssumption, MaxThreadsAssumption
      DEF SchedInv, TypeOK, OneOwner, RunningIsCurrent, TurnGivenUp,
          SlotIsOther, InSpawn, IdsAreOwn, SliceNotOver, MainRuns, AtPlace,
          States, Places
  <1>0. Main \in Threads
    BY DEF Main, Threads
  <1>1. CASE SpawnCopy
    BY <1>0, <1>1 DEF SpawnCopy
  <1>2. CASE SpawnFix
    BY <1>0, <1>2 DEF SpawnFix
  <1>3. CASE SpawnCount
    BY <1>0, <1>3 DEF SpawnCount
  <1>4. ASSUME NEW t \in Threads, ThreadStep(t)
        PROVE  SchedInv'
    <2>1. CASE ExitMark(t)
      BY <2>1 DEF ExitMark
    <2>2. CASE ExitDrop(t)
      BY <2>2 DEF ExitDrop, Dropped
    <2>3. CASE ExitFlag(t)
      BY <2>3 DEF ExitFlag
    <2>4. CASE SysExit(t)
      BY <2>4 DEF SysExit, Dropped
    <2>5. CASE SysSleep(t)
      BY <2>5 DEF SysSleep
    <2>6. CASE SysYield(t)
      BY <2>6 DEF SysYield
    <2>7. CASE Unblock(t)
      BY <1>0, <2>7 DEF Unblock
    <2>8. QED
      BY <1>4, <2>1, <2>2, <2>3, <2>4, <2>5, <2>6, <2>7 DEF ThreadStep
  <1>5. CASE SpawnStart
    BY <1>0, <1>5 DEF SpawnStart, Threads
  <1>6. CASE ScanOn
    BY <1>0, <1>6 DEF ScanOn, Threads
  <1>7. CASE SpawnIdent
    BY <1>0, <1>7 DEF SpawnIdent
  <1>8. CASE SpawnReload
    BY <1>0, <1>8 DEF SpawnReload
  <1>9. QED
    BY <1>1, <1>2, <1>3, <1>4, <1>5, <1>6, <1>7, <1>8 DEF Spawn

LEMMA StepKeepsInv == SchedInv /\ [Next]_vars => SchedInv'
  <1> SUFFICES ASSUME SchedInv, [Next]_vars PROVE SchedInv'
    OBVIOUS
  <1>1. CASE UNCHANGED vars
    BY <1>1 DEF vars, SchedInv, TypeOK, OneOwner, RunningIsCurrent,
                TurnGivenUp, SlotIsOther, InSpawn, IdsAreOwn, SliceNotOver,
                MainRuns
  <1>2. CASE Next
    BY <1>2, TimerKeepsInv, CodeKeepsInv DEF Next
  <1>3. QED
    BY <1>1, <1>2

LEMMA InvHolds == Spec => []SchedInv
  BY InitInv, StepKeepsInv, PTL DEF Spec

\* Every variable of the scheduler keeps its type: in particular current_tid
\* always names a slot, and a slice never underflows.
THEOREM TypesHold == Spec => []TypeOK
  <1>1. SchedInv => TypeOK
    BY DEF SchedInv
  <1>2. QED
    BY <1>1, InvHolds, PTL

\* Labels and processor agree, at any number of threads, wherever in the code
\* the timer falls.
THEOREM OwnerUnique == Spec => []OneOwner
  <1>1. SchedInv => OneOwner
    BY DEF SchedInv
  <1>2. QED
    BY <1>1, InvHolds, PTL

-----------------------------------------------------------------------------
(* The id of a slot and the system calls that use it.                       *)

\* A system call of the current thread can act on another slot in one case
\* only: the timer has started a new thread between the copy of its descriptor
\* and the store of its id in triad_sched_spawn.
NewcomerOnly == id[current] # current => InSpawn(current)

THEOREM OnlyNewcomersMisfire == Spec => []NewcomerOnly
  <1>1. SchedInv => NewcomerOnly
    BY DEF SchedInv, TypeOK, IdsAreOwn, NewcomerOnly
  <1>2. QED
    BY <1>1, InvHolds, PTL

LEMMA OnlyTimerSwitches ==
    ASSUME \/ Spawn
           \/ \E t \in Threads : ThreadStep(t)
    PROVE  current' = current
  BY DEF Spawn, SpawnStart, ScanOn, SpawnCopy, SpawnIdent, SpawnFix, SpawnReload,
         SpawnCount,
         ThreadStep, ExitMark, ExitDrop, ExitFlag,
         SysExit, SysSleep, SysYield, Unblock

\* A waiting thread stays ready until it is given the processor, unless the
\* system call of such a newcomer strikes it: no other thread, no spawn and no
\* exit, wherever the timer falls in it, takes a thread out of the queue.
PlaceKept ==
    [][\A t \in Threads \ {current} : state[t] = "ready" =>
          state'[t] = "ready" \/ t = current' \/ Struck(t)']_vars

THEOREM QueueKeepsItsThreads == Spec => PlaceKept
  <1> DEFINE Kept(t) == state'[t] = "ready" \/ t = current' \/ Struck(t)'
  <1>1. ASSUME SchedInv, SchedInv', Next,
               NEW t \in Threads \ {current}, state[t] = "ready"
        PROVE  Kept(t)
    <2> USE DEF SchedInv, TypeOK
    <2>1. CASE TimerIrq
      BY <1>1, <2>1, TimerFacts DEF RunningIsCurrent, States
    <2>2. CASE Spawn
      BY <1>1, <2>2 DEF Spawn, SpawnStart, ScanOn, SpawnCopy, SpawnIdent,
                        SpawnFix, SpawnReload, SpawnCount
    <2>3. ASSUME NEW u \in Threads, SysExit(u) \/ SysSleep(u)
          PROVE  Kept(t)
      <3>1. /\ u = current /\ current' = current
            /\ id' = id /\ pc' = pc /\ slot' = slot
            /\ id[u] # t => state'[t] = state[t]
            /\ id[u] = t => state'[t] \in {"dead", "blocked"}
        BY <1>1, <2>3 DEF SysExit, SysSleep, AtPlace
      <3>2. id[u] = t => InSpawn(u)
        BY <1>1, <3>1 DEF IdsAreOwn
      <3>3. QED
        BY <1>1, <3>1, <3>2 DEF Struck, InSpawn
    <2>4. ASSUME NEW u \in Threads, ThreadStep(u), ~SysExit(u), ~SysSleep(u)
          PROVE  Kept(t)
      BY <1>1, <2>4 DEF ThreadStep, ExitMark, ExitDrop, ExitFlag, SysYield,
                        Unblock, AtPlace
    <2>5. QED
      BY <1>1, <2>1, <2>2, <2>3, <2>4 DEF Next
  <1>2. SchedInv /\ [Next]_vars =>
            [\A t \in Threads \ {current} : state[t] = "ready" => Kept(t)]_vars
    BY <1>1, StepKeepsInv
  <1>3. QED
    BY <1>2, InvHolds, PTL DEF Spec, PlaceKept

\* Masking the timer from the copy to the store of the id (a cli before the
\* one, a sti after the other) makes every system call act on its caller's slot.
IdentMasked == [][pc[Main] = "ident" => current' = current]_vars
OwnId       == id[current] = current

THEOREM MaskingTheIdIsEnough == Spec /\ IdentMasked => []OwnId
  <1> DEFINE Own == OwnId /\ (pc[Main] = "ident" => current = Main)
  <1>1. Init => Own
    BY MainIsAThread DEF Init, OwnId, Main
  <1>2. ASSUME SchedInv, SchedInv', Own, [Next]_vars,
               [pc[Main] = "ident" => current' = current]_vars
        PROVE  Own'
    <2> USE MainIsAThread DEF SchedInv, TypeOK
    <2>1. CASE UNCHANGED vars
      BY <1>2, <2>1 DEF vars, OwnId
    <2>2. CASE TimerIrq
      <3>1. /\ id' = id /\ pc' = pc /\ slot' = slot
            /\ pc[Main] = "ident" => current' = current
        BY <1>2, <2>2, TimerFacts DEF vars
      <3>2. QED
        BY <1>2, <3>1, <2>2, TimerFacts
        DEF OwnId, IdsAreOwn, InSpawn
    <2>3. CASE Spawn
      BY <1>2, <2>3 DEF Spawn, SpawnStart, ScanOn, SpawnCopy, SpawnIdent, SpawnFix,
         SpawnReload, SpawnCount, AtPlace, OwnId, SlotIsOther
    <2>4. ASSUME NEW u \in Threads, ThreadStep(u) PROVE Own'
      BY <1>2, <2>4 DEF ThreadStep, ExitMark, ExitDrop, ExitFlag, SysExit,
         SysSleep, SysYield, Unblock, AtPlace, OwnId
    <2>5. QED
      BY <1>2, <2>1, <2>2, <2>3, <2>4 DEF Next
  <1>3. Own => OwnId
    OBVIOUS
  <1>4. SchedInv /\ [Next]_vars => SchedInv'
    BY StepKeepsInv
  <1>5. QED
    BY <1>1, <1>2, <1>3, <1>4, InvHolds, PTL DEF Spec, IdentMasked

-----------------------------------------------------------------------------
(* Round robin, as an action property.                                      *)

\* A timer interrupt that changes threads stops at the first waiting thread.
LEMMA TimerSwitch ==
    ASSUME SchedInv, TimerIrq
    PROVE  /\ current' \in Threads
           /\ current' # current =>
                 /\ current' \in Others(state, current)
                 /\ \A u \in Others(state, current) :
                        Dist(current, current') <= Dist(current, u)
  <1> USE DEF SchedInv, TypeOK
  <1>0. \A t \in Threads \ {current} : state[t] # "running"
    BY DEF OneOwner, RunningIsCurrent
  <1>1. CASE TickNotRunning
    <2>1. DoSwitch(state, TRUE)
      BY <1>1 DEF TickNotRunning
    <2>2. QED
      BY <1>0, <2>1, SwitchFacts DEF Others
  <1>2. CASE TickWithinSlice
    <2>1. DoSwitch(state, needsSwitch) /\ state[current] # "ready"
      BY <1>2 DEF TickWithinSlice
    <2>2. QED
      BY <1>0, <2>1, SwitchFacts DEF Others
  <1>3. CASE TickEndOfSlice
    <2> DEFINE st == [state EXCEPT ![current] = "ready"]
    <2>1. /\ st \in [Threads -> States]
          /\ \A t \in Threads \ {current} : st[t] = state[t]
          /\ state[current] = "running"
      BY <1>3 DEF TickEndOfSlice, States
    <2>2. DoSwitch(st, TRUE) \/ DoSwitch(state, needsSwitch)
      BY <1>3 DEF TickEndOfSlice
    <2>3. Others(st, current) = Others(state, current)
      BY <2>1 DEF Others
    <2> HIDE DEF st
    <2>4. CASE DoSwitch(st, TRUE)
      <3>1. \A t \in Threads \ {current} : st[t] # "running"
        BY <1>0, <2>1
      <3>2. QED
        BY <2>1, <2>3, <2>4, <3>1, SwitchFacts DEF Others
    <2>5. CASE DoSwitch(state, needsSwitch)
      BY <1>0, <2>1, <2>5, SwitchFacts DEF Others
    <2>6. QED
      BY <2>2, <2>4, <2>5
  <1>4. QED
    BY <1>1, <1>2, <1>3 DEF TimerIrq

\* After a timer interrupt the current thread's label is not READY.
LEMMA TimerOwner ==
    ASSUME SchedInv, SchedInv', TimerIrq
    PROVE  state'[current'] # "ready"
  BY DEF SchedInv, OneOwner, TurnGivenUp, TimerIrq, TickNotRunning,
         TickWithinSlice, TickEndOfSlice, DoSwitch

\* A tick that leaves the turn where it is while others wait is one within
\* the slice.
LEMMA TimerStays ==
    ASSUME SchedInv, TimerIrq, current' = current,
           NEW t \in Threads \ {current}, state[t] = "ready"
    PROVE  quantum'[current] = quantum[current] - 1
  <1> USE DEF SchedInv, TypeOK
  <1>1. t \in Others(state, current)
    BY DEF Others
  <1>2. ~TickNotRunning
    BY <1>1 DEF TickNotRunning, DoSwitch, IsNext, Others
  <1>3. ~TickEndOfSlice
    <2> DEFINE st == [state EXCEPT ![current] = "ready"]
    <2>1. t \in Others(st, current)
      BY DEF Others
    <2> HIDE DEF st
    <2>2. ~DoSwitch(st, TRUE)
      BY <2>1 DEF DoSwitch, IsNext, Others
    <2>3. QED
      BY <1>1, <2>2 DEF TickEndOfSlice, st
  <1>4. QED
    BY <1>2, <1>3 DEF TimerIrq, TickWithinSlice

\* No switch passes over a waiting thread.
THEOREM RoundRobin == Spec => NoOvertaking
  <1> DEFINE Nearer ==
        current' # current =>
          \A t \in Threads \ {current} : state[t] = "ready" =>
             t = current' \/ Dist(current', t) < Dist(current, t)
  <1>1. SchedInv /\ [Next]_vars => [Nearer]_vars
    <2> SUFFICES ASSUME SchedInv, Next, current' # current,
                        NEW t \in Threads \ {current}, state[t] = "ready",
                        t # current'
                 PROVE  Dist(current', t) < Dist(current, t)
      OBVIOUS
    <2>1. TimerIrq
      BY OnlyTimerSwitches DEF Next
    <2>2. /\ current \in Threads
          /\ current' \in Threads \ {current}
          /\ t \in Others(state, current)
          /\ Dist(current, current') <= Dist(current, t)
      BY <2>1, TimerSwitch DEF Others, SchedInv, TypeOK
    <2>3. QED
      BY <2>2, DistAdvance
  <1>2. QED
    BY <1>1, InvHolds, PTL DEF Spec, NoOvertaking

-----------------------------------------------------------------------------
(* Bounded waiting.  A thread that waits Dist slots away from the current   *)
(* one has at most the rest of the current slice and a slice of every slot  *)
(* in between ahead of it: what it has waited and what is still ahead never *)
(* exceeds one round.                                                       *)

Slices(n) == n * Quantum
Round     == Slices(MaxThreads - 1) + 1
Ahead(t)  == quantum[current] + Slices(Dist(current, t) - 1)

WaitInv ==
    /\ waited \in [Threads -> Nat]
    /\ \A t \in Threads :
          /\ t = current \/ state[t] # "ready" => waited[t] = 0
          /\ t # current /\ state[t] = "ready" => waited[t] + Ahead(t) <= Round

LEMMA SlicesGrow ==
    ASSUME NEW a \in Nat, NEW b \in Nat, a <= b
    PROVE  /\ Slices(a) \in Nat
           /\ Slices(a) <= Slices(b)
           /\ a < b => Slices(a) + Quantum <= Slices(b)
  <1>1. PICK d \in Nat : b = a + d
    BY DEF Slices
  <1>2. b * Quantum = a * Quantum + d * Quantum
    BY <1>1, QuantumAssumption
  <1>3. d * Quantum \in Nat /\ (d > 0 => d * Quantum >= Quantum)
    BY QuantumAssumption
  <1>4. a * Quantum \in Nat /\ b * Quantum \in Nat
    BY QuantumAssumption
  <1>5. QED
    BY <1>1, <1>2, <1>3, <1>4, QuantumAssumption DEF Slices

\* A thread that has just begun to wait is within the bound, and with a tick
\* to spare.
LEMMA FreshWait ==
    ASSUME NEW c \in Threads, NEW t \in Threads \ {c}, NEW q \in 0 .. Quantum
    PROVE  1 + q + Slices(Dist(c, t) - 1) <= Round
  <1>1. /\ Dist(c, t) - 1 \in Nat
        /\ MaxThreads - 1 \in Nat
        /\ Dist(c, t) - 1 < MaxThreads - 1
    BY DistRange, MaxThreadsAssumption
  <1>2. /\ Slices(Dist(c, t) - 1) + Quantum <= Slices(MaxThreads - 1)
        /\ Slices(Dist(c, t) - 1) \in Nat
        /\ Slices(MaxThreads - 1) \in Nat
    BY <1>1, SlicesGrow
  <1>3. QED
    BY <1>2, QuantumAssumption DEF Round

LEMMA WInitInv == WInit => WaitInv
  BY MaxThreadsAssumption DEF WInit, WaitInv, Init, Main, Threads

\* What has been waited is within the bound, a tick of the current slice being
\* still ahead.
LEMMA WaitBounded == SchedInv /\ WaitInv => BoundedWait
  <1> SUFFICES ASSUME SchedInv, WaitInv, NEW t \in Threads
               PROVE  waited[t] <= Slices(MaxThreads - 1)
    BY DEF BoundedWait, MaxWait, Slices
  <1>1. Slices(MaxThreads - 1) \in Nat
    BY SlicesGrow, MaxThreadsAssumption
  <1>2. CASE t = current \/ state[t] # "ready"
    BY <1>1, <1>2 DEF WaitInv
  <1>3. CASE t # current /\ state[t] = "ready"
    <2>1. /\ quantum[current] \in 1 .. Quantum
          /\ Slices(Dist(current, t) - 1) \in Nat
      BY <1>3, SliceLeft, DistRange, SlicesGrow, MaxThreadsAssumption,
         QuantumAssumption
      DEF SchedInv, TypeOK
    <2>2. QED
      BY <1>1, <1>3, <2>1, QuantumAssumption DEF WaitInv, Ahead, Round
  <1>4. QED
    BY <1>2, <1>3

\* Between two ticks nobody's turn moves; a thread that becomes ready starts
\* its wait with at most a round ahead of it.
LEMMA CodeKeepsWait ==
    ASSUME SchedInv, SchedInv', WaitInv, WNext, ~TimerIrq
    PROVE  WaitInv'
  <1> USE DEF SchedInv, TypeOK
  <1>1. \/ Spawn
        \/ \E t \in Threads : ThreadStep(t)
    BY DEF WNext, Next
  <1>2. current' = current /\ quantum'[current] = quantum[current]
    BY <1>1
    DEF Spawn, SpawnStart, ScanOn, SpawnCopy, SpawnIdent, SpawnFix, SpawnReload,
         SpawnCount,
        ThreadStep, ExitMark, ExitDrop, ExitFlag,
        SysExit, SysSleep, SysYield, Unblock, AtPlace,
        SlotIsOther, MainRuns
  <1>3. waited' = [t \in Threads |-> IF StaysReady(t) THEN waited[t] ELSE 0]
    BY DEF WNext, WaitInv
  <1>4. waited' \in [Threads -> Nat]
    BY <1>3 DEF WaitInv
  <1>5. ASSUME NEW t \in Threads, t = current' \/ state'[t] # "ready"
        PROVE  waited'[t] = 0
    BY <1>2, <1>3, <1>5 DEF WaitInv, StaysReady
  <1>6. ASSUME NEW t \in Threads, t # current', state'[t] = "ready"
        PROVE  waited'[t] + Ahead(t)' <= Round
    <2>1. Ahead(t)' = Ahead(t)
      BY <1>2 DEF Ahead, Slices, Dist
    <2>2. CASE StaysReady(t)
      BY <1>2, <1>3, <1>6, <2>1, <2>2 DEF WaitInv, StaysReady
    <2>3. CASE ~StaysReady(t)
      <3>1. waited'[t] = 0 /\ t \in Threads \ {current}
        BY <1>2, <1>3, <1>6, <2>3
      <3>2. 1 + quantum[current] + Slices(Dist(current, t) - 1) <= Round
        BY <3>1, FreshWait
      <3>3. Slices(Dist(current, t) - 1) \in Nat
        BY <3>1, DistRange, SlicesGrow, MaxThreadsAssumption
      <3>4. Round \in Int
        BY SlicesGrow, MaxThreadsAssumption DEF Round
      <3>5. QED
        BY <2>1, <3>1, <3>2, <3>3, <3>4, QuantumAssumption DEF Ahead
    <2>4. QED
      BY <2>2, <2>3
  <1>7. QED
    BY <1>4, <1>5, <1>6 DEF WaitInv, Round, Slices

\* A tick costs the waiting threads one tick: of the current slice, or, when
\* the turn passes on, of what the slots skipped or done with had in store.
LEMMA TimerKeepsWait ==
    ASSUME SchedInv, SchedInv', WaitInv, WNext, TimerIrq
    PROVE  WaitInv'
  <1> USE DEF SchedInv, TypeOK
  <1>1. waited' = [t \in Threads |-> IF StaysReady(t) THEN waited[t] + 1 ELSE 0]
    <2>1. \A t \in Threads : waited[t] <= MaxWait
      BY WaitBounded DEF BoundedWait
    <2>2. QED
      BY <2>1 DEF WNext
  <1>2. waited' \in [Threads -> Nat]
    BY <1>1 DEF WaitInv
  <1>3. state'[current'] # "ready"
    BY TimerOwner
  <1>4. ASSUME NEW t \in Threads, t = current' \/ state'[t] # "ready"
        PROVE  waited'[t] = 0
    BY <1>1, <1>3, <1>4 DEF StaysReady
  <1>5. ASSUME NEW t \in Threads, t # current', state'[t] = "ready"
        PROVE  waited'[t] + Ahead(t)' <= Round
    <2> USE DEF WaitInv
    <2>0. /\ current \in Threads /\ current' \in Threads
          /\ quantum'[current'] \in 0 .. Quantum
          /\ quantum[current] \in 1 .. Quantum
          /\ Round \in Int
      BY SliceLeft, SlicesGrow, MaxThreadsAssumption, QuantumAssumption DEF Round
    <2>1. Ahead(t)' = quantum'[current'] + Slices(Dist(current', t) - 1)
      BY DEF Ahead, Slices, Dist
    <2>2. Slices(Dist(current', t) - 1) \in Nat
      BY <1>5, <2>0, DistRange, SlicesGrow, MaxThreadsAssumption
    <2>3. 1 + quantum'[current'] + Slices(Dist(current', t) - 1) <= Round
      BY <1>5, <2>0, FreshWait
    <2>4. CASE ~StaysReady(t) \/ t = current
      <3>1. waited'[t] \in {0, 1}
        BY <1>1, <2>4
      <3>2. QED
        BY <2>0, <2>1, <2>2, <2>3, <3>1, QuantumAssumption
    <2>5. CASE StaysReady(t) /\ t # current
      <3>1. waited'[t] = waited[t] + 1 /\ waited[t] \in Nat
        BY <1>1, <2>5
      <3>2. waited[t] + (quantum[current] + Slices(Dist(current, t) - 1)) <= Round
        BY <2>5 DEF Ahead, StaysReady
      <3>3. Slices(Dist(current, t) - 1) \in Nat
        BY <2>0, <2>5, DistRange, SlicesGrow, MaxThreadsAssumption
      <3>4. CASE current' = current
        <4>1. quantum'[current] = quantum[current] - 1
          BY <2>5, <3>4, TimerStays DEF StaysReady
        <4>2. QED
          BY <2>0, <2>1, <3>1, <3>2, <3>3, <3>4, <4>1
      <3>5. CASE current' # current
        <4>1. Dist(current', t) < Dist(current, t)
          BY <1>5, <2>0, <2>5, <3>5, TimerSwitch, DistAdvance DEF StaysReady, Others
        <4>2. Slices(Dist(current', t) - 1) + Quantum <= Slices(Dist(current, t) - 1)
          <5>1. /\ Dist(current', t) \in 1 .. MaxThreads
                /\ Dist(current, t) \in 1 .. MaxThreads
            BY <2>0, DistRange
          <5>2. QED
            BY <4>1, <5>1, SlicesGrow, MaxThreadsAssumption
        <4>3. QED
          BY <2>0, <2>1, <2>2, <3>1, <3>2, <3>3, <4>2, QuantumAssumption
      <3>6. QED
        BY <3>4, <3>5
    <2>6. QED
      BY <2>4, <2>5
  <1>6. QED
    BY <1>2, <1>4, <1>5 DEF WaitInv, Round, Slices

\* At any number of threads, and whatever they do, a ready thread has the
\* processor within one round of slices.
THEOREM WaitIsBounded == WSpec => []BoundedWait
  <1>1. WInit => SchedInv /\ WaitInv
    BY InitInv, WInitInv DEF WInit
  <1>2. SchedInv /\ WaitInv /\ [WNext]_wVars => (SchedInv /\ WaitInv)'
    <2> SUFFICES ASSUME SchedInv, WaitInv, [WNext]_wVars
                 PROVE  (SchedInv /\ WaitInv)'
      OBVIOUS
    <2>1. SchedInv'
      BY StepKeepsInv DEF WNext, wVars
    <2>2. CASE UNCHANGED wVars
      BY <2>1, <2>2 DEF wVars, vars, WaitInv, Ahead, Round, Slices, Dist
    <2>3. CASE WNext
      BY <2>1, <2>3, CodeKeepsWait, TimerKeepsWait
    <2>4. QED
      BY <2>1, <2>2, <2>3
  <1>3. SchedInv /\ WaitInv => BoundedWait
    BY WaitBounded
  <1>4. QED
    BY <1>1, <1>2, <1>3, PTL DEF WSpec
-----------------------------------------------------------------------------
(* Inside the struct copy (SchedTorn).  A slot whose frame is missing is    *)
(* either dead and off the processor, so that only a spawn can bring it     *)
(* back, or the very slot that the copy is filling at this moment.          *)

InCopy == pc[Main] = "ident" /\ ~framed[slot]

Unused(t) == state[t] \in {"dead", "blocked"} /\ t # current /\ id[t] # t

OnlyTheSlotInCopy ==
    \A t \in Threads : ~framed[t] =>
        \/ Unused(t)
        \/ t = slot /\ InCopy

\* The timer is masked while the struct copy runs (a cli/sti around it).
CopyMasked == [][InCopy => current' = current]_tVars

TornInv ==
    /\ SchedInv
    /\ framed \in [Threads -> BOOLEAN]
    /\ OnlyTheSlotInCopy

LEMMA TornInit == TInit => TornInv /\ StartsAtItsEntry
  <1> SUFFICES ASSUME TInit PROVE TornInv /\ StartsAtItsEntry
    OBVIOUS
  <1>1. SchedInv
    BY InitInv DEF TInit
  <1>2. QED
    BY <1>1, MainIsAThread
    DEF TInit, Init, Main, Unused, TornInv, OnlyTheSlotInCopy, StartsAtItsEntry

\* Main is between the copy and the store of the id until it makes the store.
LEMMA IdentLasts ==
    ASSUME SchedInv, Next, ~SpawnIdent, pc[Main] = "ident"
    PROVE  pc'[Main] = "ident" /\ slot' = slot
  <1> USE MainIsAThread DEF SchedInv, TypeOK
  <1>1. CASE TimerIrq
    BY <1>1, TimerFacts
  <1>2. CASE Spawn
    BY <1>2 DEF Spawn, SpawnStart, ScanOn, SpawnCopy, SpawnFix, SpawnReload,
                SpawnCount, AtPlace
  <1>3. ASSUME NEW t \in Threads, ThreadStep(t)
        PROVE  pc'[Main] = "ident" /\ slot' = slot
    BY <1>3 DEF ThreadStep, ExitMark, ExitDrop, ExitFlag, SysExit, SysSleep,
                SysYield, Unblock, AtPlace
  <1>4. QED
    BY <1>1, <1>2, <1>3 DEF Next

\* An unused slot stays so until a spawn copies into it: a system call of a
\* newcomer may move it between dead and blocked, but nobody wakes it.
LEMMA UnusedStays ==
    ASSUME SchedInv, Next, ~SpawnCopy,
           NEW t \in Threads, Unused(t), ~InSpawn(t)
    PROVE  Unused(t)'
  <1> USE DEF Unused, InSpawn, SchedInv, TypeOK
  <1>1. CASE TimerIrq
    BY <1>1, TimerFacts
  <1>2. CASE Spawn
    BY <1>2 DEF Spawn, SpawnStart, ScanOn, SpawnIdent, SpawnFix, SpawnReload,
                SpawnCount, AtPlace, SlotIsOther
  <1>3. ASSUME NEW u \in Threads, ThreadStep(u)
        PROVE  Unused(t)'
    BY <1>3 DEF ThreadStep, ExitMark, ExitDrop, ExitFlag, SysExit, SysSleep,
                SysYield, Unblock, AtPlace
  <1>4. QED
    BY <1>1, <1>2, <1>3 DEF Next

LEMMA TornStep ==
    ASSUME TornInv, [TNext]_tVars
    PROVE  /\ TornInv'
           /\ (InCopy => current' = current) /\ StartsAtItsEntry
                => StartsAtItsEntry'
  <1> USE DEF TornInv, OnlyTheSlotInCopy, StartsAtItsEntry
  <1>1. SchedInv'
    <2>1. [Next]_vars
      BY DEF TNext, CopyLow, CopyHigh, Otherwise, tVars, Next, Spawn
    <2>2. QED
      BY <2>1, StepKeepsInv
  <1> USE MainIsAThread
  <1>2. CASE UNCHANGED tVars
    BY <1>1, <1>2 DEF tVars, vars, Unused, InCopy
  <1>3. CASE CopyLow
    BY <1>1, <1>3 DEF CopyLow, SpawnCopy, AtPlace, Unused, InCopy, SchedInv, TypeOK,
                      SlotIsOther
  <1>4. CASE CopyHigh
    BY <1>1, <1>4 DEF CopyHigh, vars, Unused, InCopy, SchedInv, TypeOK
  <1>5. CASE Otherwise
    <2>1. /\ framed' = framed
          /\ Next /\ ~SpawnCopy
          /\ SpawnIdent => framed[slot]
      BY <1>5 DEF Otherwise
    <2>2. InCopy => InCopy' /\ slot' = slot
      BY <2>1, IdentLasts DEF InCopy
    <2>3. ASSUME NEW t \in Threads, ~framed[t]
          PROVE  Unused(t)' \/ (t = slot' /\ InCopy')
      <3>1. CASE InSpawn(t)
        BY <2>2, <2>3, <3>1 DEF InSpawn, InCopy
      <3>2. CASE ~InSpawn(t)
        BY <2>1, <2>2, <2>3, <3>2, UnusedStays
      <3>3. QED
        BY <3>1, <3>2
    <2>4. TornInv'
      BY <1>1, <2>1, <2>3
    <2>5. ASSUME InCopy => current' = current, StartsAtItsEntry
          PROVE  StartsAtItsEntry'
      <3>1. CASE InCopy
        BY <2>1, <2>5, <3>1
      <3>2. CASE ~InCopy
        <4>1. current' \in Threads
          BY <1>1 DEF SchedInv, TypeOK
        <4>2. SUFFICES ASSUME ~framed[current'] PROVE FALSE
          BY <2>1
        <4>3. Unused(current') /\ ~InSpawn(current')
          BY <3>2, <4>1, <4>2 DEF InCopy, InSpawn
        <4>4. \A t \in Threads : Unused(t) /\ ~InSpawn(t) => t # current'
          BY <2>1, UnusedStays DEF Unused
        <4>5. QED
          BY <4>1, <4>3, <4>4
      <3>3. QED
        BY <3>1, <3>2
    <2>6. QED
      BY <2>4, <2>5
  <1>6. QED
    BY <1>2, <1>3, <1>4, <1>5 DEF TNext

\* triad_sched_spawn's copy is the only window: whenever a slot is without its
\* frame, either no timer can give it the processor or the copy is filling it.
THEOREM OnlyTheCopyTears == TSpec => []OnlyTheSlotInCopy
  <1>1. TornInv => OnlyTheSlotInCopy
    BY DEF TornInv
  <1>2. QED
    BY <1>1, TornInit, TornStep, PTL DEF TSpec

\* Masking the timer for the length of that copy is enough for every thread
\* to start with the context triad_thread_create has built for it, whatever
\* else of the spawn and the exits the timer falls into.
THEOREM MaskingTheCopyIsEnough ==
    TSpec /\ CopyMasked => []StartsAtItsEntry
  <1>1. TInit => TornInv /\ StartsAtItsEntry
    BY TornInit
  <1>2. /\ TornInv /\ StartsAtItsEntry /\ [TNext]_tVars
        /\ [InCopy => current' = current]_tVars
        => (TornInv /\ StartsAtItsEntry)'
    <2> SUFFICES ASSUME TornInv, StartsAtItsEntry, [TNext]_tVars,
                        [InCopy => current' = current]_tVars
                 PROVE  (TornInv /\ StartsAtItsEntry)'
      OBVIOUS
    <2>1. InCopy => current' = current
      BY DEF tVars, vars
    <2>2. QED
      BY <2>1, TornStep
  <1>3. QED
    BY <1>1, <1>2, PTL DEF TSpec, CopyMasked
=============================================================================
