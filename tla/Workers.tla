------------------------------ MODULE Workers ------------------------------
(* What the routes of the REST API do with the event loop's default        *)
(* executor: jobs wait in one queue for a few threads; programs run with   *)
(* sys.stdout, which the whole process has once, set to a buffer of their  *)
(* own; a stream hands checkpoints from its thread to its client through a *)
(* bounded queue; and a request that has waited too long is answered while *)
(* its thread goes on.                                                     *)
EXTENDS Naturals, FiniteSets, Sequences

CONSTANTS
    Programs,       \* requests of /lang/run and /adapter/run
    Tasks,          \* requests that end without output: check, solve, plot
    Timed,          \* the ones of them that wait_for guards
    Streams,        \* requests of /solver/run/adaptive
    Workers,        \* threads of the executor
    QueueSize,      \* maxsize of a stream's asyncio.Queue
    Console,        \* the sys.stdout the server started with
    MaxLines,       \* bound: lines a program prints into one place
    MaxSteps        \* bound: checkpoints of one integration

Jobs == Programs \cup Tasks \cup Streams
Sinks == Programs \cup {Console}
Checkpoints == 1 .. MaxSteps
Sentinel == 0

ASSUME JobAssumption ==
    /\ Programs \cap Tasks = {} /\ Programs \cap Streams = {} /\ Tasks \cap Streams = {}
    /\ Timed \subseteq Tasks
    /\ Console \notin Programs
    /\ IsFiniteSet(Programs) /\ IsFiniteSet(Tasks) /\ IsFiniteSet(Streams)
ASSUME SizeAssumption ==
    Workers \in Nat \ {0} /\ QueueSize \in Nat \ {0} /\ MaxLines \in Nat /\ MaxSteps \in Nat

VARIABLES
    queue,          \* jobs no thread has taken yet
    at,             \* where each job is
    reply,          \* what the client has: nothing, an answer, 504; or it left
    out,            \* sys.stdout
    saved,          \* what each redirect_stdout found there
    written,        \* lines in each place, by the program that printed them
    text,           \* the output each program's result carries
    fifo,           \* each stream's asyncio.Queue
    made,           \* checkpoints its integration has come to
    got,            \* checkpoints its client has received
    met,            \* history: programs whose capture overlapped another's
    outer, spoilt   \* history: which capture began among no other; whether
                    \*   one such has ended before all that overlapped it

pool == <<queue, at, reply>>
capture == <<out, saved, written, text, met, outer, spoilt>>
stream == <<fifo, made, got>>
vars == <<pool, capture, stream>>

NoLines == [p \in Programs |-> 0]
Idle == {"before", "queued", "done"}
Busy == {j \in Jobs : at[j] \notin Idle}
Capturing == {p \in Programs : at[p] \in {"found", "inside"}}

Init ==
    /\ queue = <<>>
    /\ at = [j \in Jobs |-> "before"]
    /\ reply = [j \in Jobs |-> "none"]
    /\ out = Console
    /\ saved = [p \in Programs |-> Console]
    /\ written = [x \in Sinks |-> NoLines]
    /\ text = [p \in Programs |-> NoLines]
    /\ fifo = [s \in Streams |-> <<>>]
    /\ made = [s \in Streams |-> 0]
    /\ got = [s \in Streams |-> <<>>]
    /\ met = {}
    /\ outer = Console
    /\ spoilt = FALSE

Go(j, from, to) == at[j] = from /\ at' = [at EXCEPT ![j] = to]

\* An answer nobody waits for any more is dropped.
Answer(j, what) ==
    reply' = IF reply[j] = "none" THEN [reply EXCEPT ![j] = what] ELSE reply

-----------------------------------------------------------------------------
(* The pool                                                                *)

\* A handler runs up to run_in_executor.
Request(j) ==
    /\ Go(j, "before", "queued")
    /\ queue' = Append(queue, j)
    /\ UNCHANGED <<reply, capture, stream>>

FirstStage(j) ==
    CASE j \in Programs -> "entering"
      [] j \in Tasks    -> "working"
      [] j \in Streams  -> "solving"

\* A thread that has nothing to do takes the job that waits longest, and drops
\* it if it has been cancelled.
Start(j) ==
    /\ queue # <<>> /\ j = Head(queue)
    /\ Cardinality(Busy) < Workers
    /\ Go(j, "queued", IF reply[j] = "504" THEN "done" ELSE FirstStage(j))
    /\ queue' = Tail(queue)
    /\ UNCHANGED <<reply, capture, stream>>

\* wait_for gives up and cancels the future, which stops a job that has not
\* begun (Start) and no other.
Timeout(j) ==
    /\ at[j] # "before" /\ reply[j] = "none"
    /\ reply' = [reply EXCEPT ![j] = "504"]
    /\ UNCHANGED <<queue, at, capture, stream>>

\* _check_sync, _run_1d_sync and the others that share nothing.
EndTask(j) ==
    /\ Go(j, "working", "done")
    /\ Answer(j, "ok")
    /\ UNCHANGED <<queue, capture, stream>>

-----------------------------------------------------------------------------
(* A program: _run_source_sync, _run_adapter_sync.  sys.stderr goes the    *)
(* same way as sys.stdout.                                                 *)

\* redirect_stdout.__enter__ reads sys.stdout ...
Find(p) ==
    /\ Go(p, "entering", "found")
    /\ saved' = [saved EXCEPT ![p] = out]
    /\ met' = IF Capturing = {} THEN met ELSE met \cup Capturing \cup {p}
    /\ outer' = IF Capturing = {} THEN p ELSE outer
    /\ UNCHANGED <<queue, reply, out, written, text, spoilt, stream>>

\* ... and sets it.
Redirect(p) ==
    /\ Go(p, "found", "inside")
    /\ out' = p
    /\ UNCHANGED <<queue, reply, saved, written, text, met, outer, spoilt, stream>>

\* Mutant: print keeps the sys.stdout it was first given.
PrintAsBefore(p) ==
    /\ at[p] = "inside"
    /\ \A x \in Sinks : written[x][p] < MaxLines
    /\ written' = [written EXCEPT ![Console][p] = @ + 1]
    /\ UNCHANGED <<pool, out, saved, text, met, outer, spoilt, stream>>

\* The program prints a line: print looks sys.stdout up each time.
PrintLine(p) ==
    /\ at[p] = "inside"
    /\ \A x \in Sinks : written[x][p] < MaxLines
    /\ written' = [written EXCEPT ![out][p] = @ + 1]
    /\ UNCHANGED <<pool, out, saved, text, met, outer, spoilt, stream>>

\* Mutant: sys.stdout stays as it is.
LeaveAsIs(p) ==
    /\ Go(p, "inside", "left")
    /\ spoilt' = (spoilt \/ (p = outer /\ Capturing # {p}))
    /\ UNCHANGED <<queue, reply, out, saved, written, text, met, outer, stream>>

\* The program ends or raises: __exit__ sets what __enter__ found.
Leave(p) ==
    /\ Go(p, "inside", "left")
    /\ out' = saved[p]
    /\ spoilt' = (spoilt \/ (p = outer /\ Capturing # {p}))
    /\ UNCHANGED <<queue, reply, saved, written, text, met, outer, stream>>

\* The result takes what the buffer holds by then; if there was an error before
\* the program, nothing.
Return(p) ==
    /\ Go(p, "left", "done") \/ Go(p, "entering", "done")
    /\ text' = [text EXCEPT ![p] = written[p]]
    /\ Answer(p, "ok")
    /\ UNCHANGED <<queue, out, saved, written, met, outer, spoilt, stream>>

-----------------------------------------------------------------------------
(* A stream: _thread against event_stream                                  *)

\* The integration comes to its next checkpoint.
Checkpoint(s) ==
    /\ made[s] < MaxSteps
    /\ Go(s, "solving", "putting")
    /\ made' = [made EXCEPT ![s] = @ + 1]
    /\ UNCHANGED <<queue, reply, capture, fifo, got>>

\* Mutant: a solver that raises ends its thread, without the sentinel.
FinishInSilence(s) ==
    /\ \/ Go(s, "solving", "closing")
       \/ Go(s, "solving", "done")
    /\ UNCHANGED <<queue, reply, capture, stream>>

\* It is over, or raises: either way the sentinel is next.
Finish(s) ==
    /\ Go(s, "solving", "closing")
    /\ UNCHANGED <<queue, reply, capture, stream>>

Room(s) == Len(fifo[s]) < QueueSize

\* Mutant: a checkpoint the queue has no room for is dropped.
PutOrDrop(s) ==
    /\ Go(s, "putting", "solving")
    /\ fifo' = IF Room(s) THEN [fifo EXCEPT ![s] = Append(@, made[s])] ELSE fifo
    /\ UNCHANGED <<queue, reply, capture, made, got>>

\* The thread waits until the loop has put its checkpoint.
Put(s) ==
    /\ Room(s)
    /\ Go(s, "putting", "solving")
    /\ fifo' = [fifo EXCEPT ![s] = Append(@, made[s])]
    /\ UNCHANGED <<queue, reply, capture, made, got>>

\* The sentinel waits for room like the rest; then the thread is free.
PutSentinel(s) ==
    /\ Room(s)
    /\ Go(s, "closing", "done")
    /\ fifo' = [fifo EXCEPT ![s] = Append(@, Sentinel)]
    /\ UNCHANGED <<queue, reply, capture, made, got>>

\* event_stream sends what it gets, and ends at the sentinel.
Receive(s) ==
    /\ reply[s] = "none" /\ fifo[s] # <<>>
    /\ fifo' = [fifo EXCEPT ![s] = Tail(@)]
    /\ IF Head(fifo[s]) = Sentinel
       THEN reply' = [reply EXCEPT ![s] = "ok"] /\ UNCHANGED got
       ELSE got' = [got EXCEPT ![s] = Append(@, Head(fifo[s]))] /\ UNCHANGED reply
    /\ UNCHANGED <<queue, at, capture, made>>

\* The client goes away, and with it the generator that reads the queue.
HangUp(s) ==
    /\ at[s] # "before" /\ reply[s] = "none"
    /\ reply' = [reply EXCEPT ![s] = "gone"]
    /\ UNCHANGED <<queue, at, capture, stream>>

-----------------------------------------------------------------------------

Pool(j) == Request(j) \/ Start(j)
Program(p) == Find(p) \/ Redirect(p) \/ PrintLine(p) \/ Leave(p) \/ Return(p)
Solver(s) == Checkpoint(s) \/ Finish(s) \/ Put(s) \/ PutSentinel(s)

Next ==
    \/ \E j \in Jobs : Pool(j)
    \/ \E j \in Programs \cup Timed : Timeout(j)
    \/ \E j \in Tasks : EndTask(j)
    \/ \E p \in Programs : Program(p)
    \/ \E s \in Streams : Solver(s) \/ Receive(s) \/ HangUp(s)

Spec == Init /\ [][Next]_vars

\* Threads run, the loop serves its queues, solvers come to an end.  A program
\* need not: nothing is assumed of it.
Fair ==
    /\ WF_vars(\E j \in Jobs : Start(j))
    /\ \A j \in Tasks : WF_vars(EndTask(j))
    /\ \A s \in Streams : WF_vars(Solver(s)) /\ WF_vars(Receive(s))

FairSpec == Spec /\ Fair

-----------------------------------------------------------------------------
(* Properties                                                              *)

Stages == Idle \cup {"working", "entering", "found", "inside", "left",
                     "solving", "putting", "closing"}

TypeOK ==
    /\ queue \in Seq(Jobs)
    /\ at \in [Jobs -> Stages]
    /\ reply \in [Jobs -> {"none", "ok", "504", "gone"}]
    /\ out \in Sinks /\ outer \in Sinks /\ met \subseteq Programs /\ spoilt \in BOOLEAN
    /\ saved \in [Programs -> Sinks]
    /\ written \in [Sinks -> [Programs -> 0 .. MaxLines]]
    /\ text \in [Programs -> [Programs -> 0 .. MaxLines]]
    /\ fifo \in [Streams -> Seq(Checkpoints \cup {Sentinel})]
    /\ made \in [Streams -> 0 .. MaxSteps]
    /\ got \in [Streams -> Seq(Checkpoints)]

\* A program that ran while no other did is answered with what it printed, all
\* of it and nothing else, whatever overlaps there were before and after it.
OwnOutput ==
    \A p \in Programs :
        reply[p] = "ok" /\ p \notin met =>
            /\ text[p] = [q \in Programs |-> IF q = p THEN written[p][p] ELSE 0]
            /\ \A x \in Sinks \ {p} : written[x][p] = 0

\* As long as whoever began among no others has always outlasted those that
\* overlapped it, the server has its own output back when no program runs.
ConsoleBack == Capturing = {} /\ ~spoilt => out = Console

\* A client has the first checkpoints, in order, each once; when its stream has
\* ended, all the integration came to; and the queue never outgrows its size.
StreamWhole ==
    \A s \in Streams :
        /\ got[s] = [n \in 1 .. Len(got[s]) |-> n]
        /\ reply[s] = "ok" => Len(got[s]) = made[s]
        /\ Len(fifo[s]) <= QueueSize

\* Programs may hold a thread for good, and so may streams whose client left;
\* as long as these are fewer than the threads, every request that no timeout
\* answers is answered by its job.
SomeWorkerFree ==
    Cardinality(Programs) + Cardinality({s \in Streams : reply[s] = "gone"}) < Workers

Served ==
    []SomeWorkerFree =>
        \A j \in Streams \cup (Tasks \ Timed) : at[j] = "queued" ~> reply[j] # "none"
=============================================================================
