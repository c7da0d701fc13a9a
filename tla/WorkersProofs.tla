--------------------------- MODULE WorkersProofs ---------------------------
(* Proofs about the pool, for any numbers of requests, threads, lines and  *)
(* checkpoints.  A program that meets no other is alone between finding    *)
(* sys.stdout and leaving, so nothing but its own lines can be in its      *)
(* buffer; the outermost capture holds the server's own output as long as  *)
(* it lasts; and what a stream's client has, its queue and what its thread *)
(* still holds are together the checkpoints made, in order.                *)
EXTENDS Workers, SequenceTheorems, TLAPS

\* A program that has met no other.
Undisturbed ==
    \A p \in Programs \ met :
        /\ out = p <=> at[p] = "inside"
        /\ p \in Capturing => Capturing = {p}
        /\ \A q \in Programs : saved[q] # p
        /\ \A q \in Programs \ {p} : written[p][q] = 0
        /\ \A x \in Sinks \ {p} : written[x][p] = 0
        /\ reply[p] = "ok" =>
               /\ at[p] = "done"
               /\ text[p] = [q \in Programs |-> IF q = p THEN written[p][p] ELSE 0]

\* The capture that began among no others keeps the server's own output.
Outermost ==
    ~spoilt => IF Capturing = {} THEN out = Console
               ELSE outer \in Capturing /\ saved[outer] = Console

IInv == TypeOK /\ Undisturbed /\ Outermost

-----------------------------------------------------------------------------
\* The four kinds of request are apart, and so are their threads' first steps.
LEMMA StageFacts ==
    /\ Programs \subseteq Jobs /\ Tasks \subseteq Jobs /\ Streams \subseteq Jobs
    /\ Programs \subseteq Sinks /\ Console \in Sinks /\ Console \notin Programs
    /\ Programs \cap Tasks = {} /\ Programs \cap Streams = {} /\ Programs \cap Timed = {}
    /\ \A j \in Jobs : FirstStage(j) \in {"entering", "working", "solving"}
<1>1. Programs \cap Tasks = {} /\ Programs \cap Streams = {} /\ Timed \subseteq Tasks
      /\ Console \notin Programs /\ Tasks \cap Streams = {}
  BY JobAssumption
<1>2. ASSUME NEW j \in Jobs PROVE FirstStage(j) \in {"entering", "working", "solving"}
  BY <1>1 DEF FirstStage, Jobs
<1> QED BY <1>1, <1>2 DEF Jobs, Sinks

\* The pool starts with nothing asked for and the server's own output in place.
LEMMA InitHolds == Init => IInv
<1> SUFFICES ASSUME Init PROVE IInv
  OBVIOUS
<1> USE StageFacts DEF Init
<1>1. TypeOK
  <2>1. NoLines \in [Programs -> 0 .. MaxLines]
    BY SizeAssumption DEF NoLines
  <2>2. written \in [Sinks -> [Programs -> 0 .. MaxLines]]
        /\ text \in [Programs -> [Programs -> 0 .. MaxLines]]
    BY <2>1
  <2>3. queue \in Seq(Jobs) /\ at \in [Jobs -> Stages]
        /\ reply \in [Jobs -> {"none", "ok", "504", "gone"}]
    BY DEF Stages, Idle
  <2>4. fifo \in [Streams -> Seq(Checkpoints \cup {Sentinel})]
        /\ made \in [Streams -> 0 .. MaxSteps] /\ got \in [Streams -> Seq(Checkpoints)]
    BY SizeAssumption
  <2> QED BY <2>2, <2>3, <2>4 DEF TypeOK
<1>2. Capturing = {}
  BY DEF Capturing
<1>3. Undisturbed
  BY <1>2 DEF Undisturbed, NoLines
<1>4. Outermost
  BY <1>2 DEF Outermost
<1> QED BY <1>1, <1>3, <1>4 DEF IInv

-----------------------------------------------------------------------------
\* The types hold after each step.
LEMMA TypesKept == ASSUME TypeOK, [Next]_vars PROVE TypeOK'
<1> USE StageFacts, SizeAssumption DEF TypeOK, Stages, Idle, Go, pool, capture, stream
<1>1. ASSUME NEW j \in Jobs, Request(j) PROVE TypeOK'
  BY <1>1 DEF Request
<1>2. ASSUME NEW j \in Jobs, Start(j) PROVE TypeOK'
  <2>1. queue' \in Seq(Jobs)
    BY <1>2 DEF Start
  <2>2. at' \in [Jobs -> Stages]
    BY <1>2 DEF Start
  <2> QED BY <1>2, <2>1, <2>2 DEF Start
<1>3. ASSUME NEW j \in Programs \cup Timed, Timeout(j) PROVE TypeOK'
  BY <1>3 DEF Timeout
<1>4. ASSUME NEW j \in Tasks, EndTask(j) PROVE TypeOK'
  BY <1>4 DEF EndTask, Answer
<1>5. ASSUME NEW p \in Programs, Find(p) PROVE TypeOK'
  <2>1. met' \subseteq Programs
    BY <1>5 DEF Find, Capturing
  <2> QED BY <1>5, <2>1 DEF Find
<1>6. ASSUME NEW p \in Programs, Redirect(p) PROVE TypeOK'
  BY <1>6 DEF Redirect
<1>7. ASSUME NEW p \in Programs, PrintLine(p) PROVE TypeOK'
  <2>1. written[out][p] \in 0 .. MaxLines /\ written[out][p] < MaxLines
    BY <1>7 DEF PrintLine
  <2>2. written[out][p] + 1 \in 0 .. MaxLines
    BY <2>1
  <2>3. written' \in [Sinks -> [Programs -> 0 .. MaxLines]]
    BY <1>7, <2>2 DEF PrintLine
  <2> QED BY <1>7, <2>3 DEF PrintLine
<1>8. ASSUME NEW p \in Programs, Leave(p) PROVE TypeOK'
  <2>1. spoilt' \in BOOLEAN
    BY <1>8 DEF Leave
  <2> QED BY <1>8, <2>1 DEF Leave
<1>9. ASSUME NEW p \in Programs, Return(p) PROVE TypeOK'
  BY <1>9 DEF Return, Answer
<1>10. ASSUME NEW s \in Streams, Checkpoint(s) PROVE TypeOK'
  BY <1>10 DEF Checkpoint
<1>11. ASSUME NEW s \in Streams, Finish(s) PROVE TypeOK'
  BY <1>11 DEF Finish
<1>12. ASSUME NEW s \in Streams, Put(s) PROVE TypeOK'
  <2>1. made[s] \in Checkpoints \cup {Sentinel}
    BY DEF Checkpoints, Sentinel
  <2>2. fifo' \in [Streams -> Seq(Checkpoints \cup {Sentinel})]
    BY <1>12, <2>1 DEF Put
  <2> QED BY <1>12, <2>2 DEF Put
<1>13. ASSUME NEW s \in Streams, PutSentinel(s) PROVE TypeOK'
  <2>1. fifo' \in [Streams -> Seq(Checkpoints \cup {Sentinel})]
    BY <1>13 DEF PutSentinel
  <2> QED BY <1>13, <2>1 DEF PutSentinel
<1>14. ASSUME NEW s \in Streams, Receive(s) PROVE TypeOK'
  <2>1. fifo[s] \in Seq(Checkpoints \cup {Sentinel}) /\ fifo[s] # <<>>
    BY <1>14 DEF Receive
  <2>2. Head(fifo[s]) \in Checkpoints \cup {Sentinel}
        /\ Tail(fifo[s]) \in Seq(Checkpoints \cup {Sentinel})
    BY <2>1
  <2>3. fifo' \in [Streams -> Seq(Checkpoints \cup {Sentinel})]
    BY <1>14, <2>2 DEF Receive
  <2>4. reply' \in [Jobs -> {"none", "ok", "504", "gone"}]
    BY <1>14 DEF Receive
  <2>5. got' \in [Streams -> Seq(Checkpoints)]
    <3>1. CASE Head(fifo[s]) = Sentinel
      BY <1>14, <3>1 DEF Receive
    <3>2. CASE Head(fifo[s]) # Sentinel
      <4>1. Head(fifo[s]) \in Checkpoints
        BY <2>2, <3>2
      <4>2. got' = [got EXCEPT ![s] = Append(got[s], Head(fifo[s]))]
        BY <1>14, <3>2 DEF Receive
      <4> QED BY <4>1, <4>2
    <3> QED BY <3>1, <3>2
  <2> QED BY <1>14, <2>3, <2>4, <2>5 DEF Receive
<1>15. ASSUME NEW s \in Streams, HangUp(s) PROVE TypeOK'
  BY <1>15 DEF HangUp
<1>16. CASE UNCHANGED vars
  BY <1>16 DEF vars
<1> QED BY <1>1, <1>2, <1>3, <1>4, <1>5, <1>6, <1>7, <1>8, <1>9, <1>10, <1>11,
           <1>12, <1>13, <1>14, <1>15, <1>16
        DEF Next, Pool, Program, Solver

-----------------------------------------------------------------------------
\* While another captures, one that has met none is not inside.
LEMMA Apart ==
    ASSUME Undisturbed, NEW p \in Capturing, NEW q \in Programs \ met, q # p
    PROVE  at[q] # "inside" /\ out # q
<1>1. out = q <=> at[q] = "inside"
  BY DEF Undisturbed
<1>2. q \notin Capturing
  <2>1. q \in Capturing => Capturing = {q}
    BY DEF Undisturbed
  <2> QED BY <2>1
<1>3. at[q] # "inside"
  BY <1>2 DEF Capturing
<1> QED BY <1>1, <1>3

\* Where stdout goes and who is answered change only with the programs' steps.
LEMMA OthersKeep ==
    ASSUME IInv,
           \/ \E j \in Jobs : Request(j) \/ Start(j)
           \/ \E j \in Programs \cup Timed : Timeout(j)
           \/ \E j \in Tasks : EndTask(j)
           \/ \E s \in Streams : Solver(s) \/ Receive(s) \/ HangUp(s)
           \/ UNCHANGED vars
    PROVE  Undisturbed' /\ Outermost'
<1> USE StageFacts DEF IInv, TypeOK, Go, pool, capture, stream
<1>1. UNCHANGED capture
  BY DEF Request, Start, Timeout, EndTask, Solver, Checkpoint, Finish, Put, PutSentinel,
         Receive, HangUp, vars
<1>2. \A p \in Programs : /\ at'[p] = at[p] \/ at[p] \in Idle
                          /\ at'[p] \in {"found", "inside"} => at'[p] = at[p]
                          /\ at[p] = "done" => at'[p] = "done"
                          /\ reply'[p] = "ok" => reply[p] = "ok"
  <2>1. ASSUME NEW j \in Jobs, Request(j) \/ Start(j)
        PROVE  \A p \in Programs : /\ at'[p] = at[p] \/ at[p] \in Idle
                                   /\ at'[p] \in {"found", "inside"} => at'[p] = at[p]
                                   /\ at[p] = "done" => at'[p] = "done"
                                   /\ reply'[p] = reply[p]
    BY <2>1 DEF Request, Start, Idle
  <2>2. ASSUME NEW j \in Programs \cup Timed, Timeout(j)
        PROVE  \A p \in Programs : at'[p] = at[p] /\ (reply'[p] = "ok" => reply[p] = "ok")
    BY <2>2 DEF Timeout
  <2>3. ASSUME NEW j \in Tasks, EndTask(j)
        PROVE  \A p \in Programs : at'[p] = at[p] /\ reply'[p] = reply[p]
    BY <2>3 DEF EndTask, Answer
  <2>4. ASSUME NEW s \in Streams, Solver(s) \/ Receive(s) \/ HangUp(s)
        PROVE  \A p \in Programs : at'[p] = at[p] /\ reply'[p] = reply[p]
    BY <2>4 DEF Solver, Checkpoint, Finish, Put, PutSentinel, Receive, HangUp
  <2> QED BY <2>1, <2>2, <2>3, <2>4 DEF vars
<1>3. Capturing' = Capturing
  BY <1>2 DEF Capturing, Idle
<1>4. \A p \in Programs : at'[p] = "inside" <=> at[p] = "inside"
  BY <1>2 DEF Idle
<1>5. Undisturbed'
  BY <1>1, <1>2, <1>3, <1>4 DEF Undisturbed
<1>6. Outermost'
  BY <1>1, <1>3 DEF Outermost
<1> QED BY <1>5, <1>6

\* A capture begins.
LEMMA FindKeeps ==
    ASSUME IInv, NEW p \in Programs, Find(p) PROVE Undisturbed' /\ Outermost'
<1> USE StageFacts DEF IInv, Find, Go, stream
<1>1. p \notin Capturing /\ Capturing' = Capturing \cup {p}
  BY DEF Capturing, TypeOK
<1>2. ASSUME NEW q \in Programs \ met' PROVE
        /\ (out = q <=> at[q] = "inside")' /\ (q \in Capturing => Capturing = {q})'
        /\ \A r \in Programs : saved'[r] # q
  <2>1. q \notin met /\ q \notin Capturing
    BY <1>2
  <2>2. at[q] # "inside" /\ out # q
    BY <2>1, <1>2 DEF Undisturbed, Capturing
  <2>3. at'[q] # "inside" /\ out' # q
    BY <2>2 DEF TypeOK
  <2>4. \A r \in Programs : saved'[r] # q
    BY <1>2, <2>1, <2>2 DEF Undisturbed, TypeOK
  <2>5. q \in Capturing' => Capturing' = {q}
    BY <1>1, <1>2, <2>1
  <2> QED BY <2>3, <2>4, <2>5
<1>3. \A q \in Programs : at[q] = "done" => at'[q] = "done"
  BY DEF TypeOK
<1>4. met \subseteq met'
  OBVIOUS
<1>5. Undisturbed'
  BY <1>2, <1>3, <1>4 DEF Undisturbed
<1>6. Outermost'
  <2>1. CASE Capturing = {}
    BY <1>1, <2>1 DEF Outermost, TypeOK
  <2>2. CASE Capturing # {}
    BY <1>1, <2>2 DEF Outermost, TypeOK
  <2> QED BY <2>1, <2>2
<1> QED BY <1>5, <1>6

\* sys.stdout is set to the program's buffer.
LEMMA RedirectKeeps ==
    ASSUME IInv, NEW p \in Programs, Redirect(p) PROVE Undisturbed' /\ Outermost'
<1> USE StageFacts DEF IInv, Redirect, Go, stream
<1>1. p \in Capturing /\ Capturing' = Capturing
  BY DEF Capturing, TypeOK
<1>2. \A q \in Programs \ met : q # p => at[q] # "inside"
  BY <1>1, Apart
<1>3. \A q \in Programs : /\ q # p => at'[q] = at[q]
                          /\ at[q] = "done" => at'[q] = "done"
  BY DEF TypeOK
<1>4. at'[p] = "inside" /\ out' = p
  BY DEF TypeOK
<1>5. Undisturbed'
  BY <1>1, <1>2, <1>3, <1>4 DEF Undisturbed
<1>6. Outermost'
  BY <1>1 DEF Outermost
<1> QED BY <1>5, <1>6

\* A line goes where sys.stdout points.
LEMMA PrintLineKeeps ==
    ASSUME IInv, NEW p \in Programs, PrintLine(p) PROVE Undisturbed' /\ Outermost'
<1> USE StageFacts DEF IInv, PrintLine, pool, stream
<1>1. p \in Capturing /\ Capturing' = Capturing
  BY DEF Capturing
<1>2. \A x \in Sinks, q \in Programs : written'[x][q] # written[x][q] => x = out /\ q = p
  BY DEF TypeOK
<1>3. ASSUME NEW q \in Programs \ met PROVE
        /\ \A r \in Programs \ {q} : written'[q][r] = 0
        /\ \A x \in Sinks \ {q} : written'[x][q] = 0
        /\ reply[q] = "ok" => written'[q][q] = written[q][q]
  <2>1. /\ \A r \in Programs \ {q} : written[q][r] = 0
        /\ \A x \in Sinks \ {q} : written[x][q] = 0
        /\ reply[q] = "ok" => at[q] = "done"
        /\ out = q <=> at[q] = "inside"
    BY <1>3 DEF Undisturbed
  <2>2. CASE q = p
    <3>1. out = q /\ reply[q] # "ok"
      BY <2>1, <2>2
    <3>2. \A r \in Programs \ {q} : written'[q][r] = written[q][r]
      BY <1>2, <2>2
    <3>3. \A x \in Sinks \ {q} : written'[x][q] = written[x][q]
      BY <1>2, <3>1
    <3> QED BY <2>1, <3>1, <3>2, <3>3
  <2>3. CASE q # p
    <3>1. out # q
      BY <1>1, <1>3, <2>3, Apart
    <3>2. \A r \in Programs : written'[q][r] = written[q][r]
      BY <1>2, <3>1
    <3>3. \A x \in Sinks : written'[x][q] = written[x][q]
      BY <1>2, <2>3
    <3> QED BY <2>1, <3>2, <3>3
  <2> QED BY <2>2, <2>3
<1>4. Undisturbed'
  <2> SUFFICES ASSUME NEW q \in Programs \ met' PROVE
        /\ (out = q <=> at[q] = "inside")'
        /\ (q \in Capturing => Capturing = {q})'
        /\ \A r \in Programs : saved'[r] # q
        /\ \A r \in Programs \ {q} : written'[q][r] = 0
        /\ \A x \in Sinks \ {q} : written'[x][q] = 0
        /\ reply'[q] = "ok" =>
               /\ at'[q] = "done"
               /\ text'[q] = [r \in Programs |-> IF r = q THEN written'[q][q] ELSE 0]
    BY DEF Undisturbed
  <2>1. q \in Programs \ met
    OBVIOUS
  <2>2. /\ (out = q <=> at[q] = "inside")
        /\ (q \in Capturing => Capturing = {q})
        /\ \A r \in Programs : saved[r] # q
        /\ reply[q] = "ok" =>
               /\ at[q] = "done"
               /\ text[q] = [r \in Programs |-> IF r = q THEN written[q][q] ELSE 0]
    BY <2>1 DEF Undisturbed
  <2>3. at' = at /\ out' = out /\ saved' = saved /\ reply' = reply /\ text' = text
    OBVIOUS
  <2> QED BY <1>1, <1>3, <2>1, <2>2, <2>3
<1>5. Outermost'
  BY <1>1 DEF Outermost
<1> QED BY <1>4, <1>5

\* A capture ends: sys.stdout is what its beginning found.
LEMMA LeaveKeeps ==
    ASSUME IInv, NEW p \in Programs, Leave(p) PROVE Undisturbed' /\ Outermost'
<1> USE StageFacts DEF IInv, Leave, Go, stream
<1>1. p \in Capturing /\ Capturing' = Capturing \ {p}
  BY DEF Capturing, TypeOK
<1>2. \A q \in Programs : /\ q # p => at'[q] = at[q]
                          /\ at[q] = "done" => at'[q] = "done"
  BY DEF TypeOK
<1>3. at'[p] = "left" /\ out' = saved[p]
  BY DEF TypeOK
<1>4. ASSUME NEW q \in Programs \ met PROVE at'[q] # "inside" /\ out' # q
  <2>1. out' # q
    <3>1. \A r \in Programs : saved[r] # q
      BY <1>4 DEF Undisturbed
    <3> QED BY <1>3, <3>1
  <2>2. at'[q] # "inside"
    BY <1>1, <1>2, <1>3, <1>4, Apart
  <2> QED BY <2>1, <2>2
<1>5. Undisturbed'
  BY <1>1, <1>2, <1>4 DEF Undisturbed
<1>6. Outermost'
  <2>1. CASE p = outer
    BY <1>1, <1>3, <2>1 DEF Outermost
  <2>2. CASE p # outer
    BY <1>1, <2>2 DEF Outermost
  <2> QED BY <2>1, <2>2
<1> QED BY <1>5, <1>6

\* The result is taken from the buffer.
LEMMA ReturnKeeps ==
    ASSUME IInv, NEW p \in Programs, Return(p) PROVE Undisturbed' /\ Outermost'
<1> USE StageFacts DEF IInv, Return, Go, stream
<1>1. Capturing' = Capturing /\ at[p] \in {"left", "entering"}
  BY DEF Capturing, TypeOK
<1>2. /\ at'[p] = "done" /\ \A q \in Programs : q # p => at'[q] = at[q]
      /\ \A q \in Programs : at'[q] = "inside" <=> at[q] = "inside"
  BY <1>1 DEF TypeOK
<1>3. \A q \in Programs : q # p => reply'[q] = reply[q] /\ text'[q] = text[q]
  BY DEF Answer, TypeOK
<1>4. text'[p] = written[p] /\ written[p] \in [Programs -> 0 .. MaxLines]
  BY DEF TypeOK
<1>5. p \notin met => text'[p] = [q \in Programs |-> IF q = p THEN written[p][p] ELSE 0]
  <2> SUFFICES ASSUME p \notin met PROVE
        written[p] = [q \in Programs |-> IF q = p THEN written[p][p] ELSE 0]
    BY <1>4
  <2>1. \A q \in Programs : written[p][q] = IF q = p THEN written[p][p] ELSE 0
    BY DEF Undisturbed
  <2> QED BY <1>4, <2>1
<1>6. Undisturbed'
  BY <1>1, <1>2, <1>3, <1>5 DEF Undisturbed
<1>7. Outermost'
  BY <1>1 DEF Outermost
<1> QED BY <1>6, <1>7

\* The invariant is inductive.
LEMMA StepHolds == IInv /\ [Next]_vars => IInv'
<1> SUFFICES ASSUME IInv, [Next]_vars PROVE Undisturbed' /\ Outermost'
  BY TypesKept DEF IInv
<1> QED BY OthersKeep, FindKeeps, RedirectKeeps, PrintLineKeeps, LeaveKeeps, ReturnKeeps
        DEF Next, Pool, Program

-----------------------------------------------------------------------------
(* Streams                                                                 *)

Early == {"before", "queued", "solving", "putting", "closing"}

Past == {"done"}

\* What a client got, the queue, the checkpoints made, the thread's stage and
\* the reply: until the sentinel is put, what came and what waits are all the
\* checkpoints made but one in the thread's hands; then it is the last to wait.
Whole(g, f, m, stage, r) ==
    /\ r # "504" /\ stage \in Early \cup Past
    /\ Len(f) <= QueueSize
    /\ \A n \in 1 .. Len(g) : g[n] = n
    /\ stage \in Early =>
           /\ r # "ok"
           /\ \A n \in 1 .. Len(f) : f[n] = Len(g) + n
           /\ m = Len(g) + Len(f) + (IF stage = "putting" THEN 1 ELSE 0)
    /\ stage \in Past /\ r = "ok" => m = Len(g)
    /\ stage \in Past /\ r # "ok" =>
           /\ Len(f) > 0 /\ f[Len(f)] = Sentinel
           /\ \A n \in 1 .. Len(f) - 1 : f[n] = Len(g) + n
           /\ m = Len(g) + Len(f) - 1

WholeSoFar(s) == Whole(got[s], fifo[s], made[s], at[s], reply[s])

StreamInv == \A s \in Streams : WholeSoFar(s)

\* A checkpoint, or the sentinel, joins the queue.
LEMMA PutIsWhole ==
    ASSUME NEW g \in Seq(Nat), NEW f \in Seq(Nat), NEW m \in Nat, NEW r, Len(f) < QueueSize
    PROVE  /\ Whole(g, f, m, "putting", r) => Whole(g, Append(f, m), m, "solving", r)
           /\ Whole(g, f, m, "closing", r) => Whole(g, Append(f, Sentinel), m, "done", r)
<1> USE SizeAssumption DEF Whole, Early, Past, Sentinel
<1>1. ASSUME NEW x \in Nat
      PROVE  /\ Len(Append(f, x)) = Len(f) + 1 /\ Append(f, x)[Len(f) + 1] = x
             /\ \A n \in 1 .. Len(f) : Append(f, x)[n] = f[n]
  OBVIOUS
<1>2. ASSUME Whole(g, f, m, "putting", r) PROVE Whole(g, Append(f, m), m, "solving", r)
  <2>1. /\ m = Len(g) + Len(f) + 1
        /\ \A n \in 1 .. Len(f) : f[n] = Len(g) + n
    BY <1>2
  <2>2. \A n \in 1 .. Len(f) + 1 : Append(f, m)[n] = Len(g) + n
    <3> SUFFICES ASSUME NEW n \in 1 .. Len(f) + 1 PROVE Append(f, m)[n] = Len(g) + n
      OBVIOUS
    <3>1. CASE n = Len(f) + 1
      BY <1>1, <2>1, <3>1
    <3>2. CASE n \in 1 .. Len(f)
      BY <1>1, <2>1, <3>2
    <3> QED BY <3>1, <3>2
  <2> QED BY <1>1, <1>2, <2>1, <2>2
<1>3. ASSUME Whole(g, f, m, "closing", r) PROVE Whole(g, Append(f, Sentinel), m, "done", r)
  <2>1. \A n \in 1 .. Len(f) : Append(f, 0)[n] = Len(g) + n
    BY <1>1, <1>3
  <2> QED BY <1>1, <1>3, <2>1
<1> QED BY <1>2, <1>3

\* A checkpoint, or the sentinel, comes to the client.
LEMMA ReceiveIsWhole ==
    ASSUME NEW g \in Seq(Nat), NEW f \in Seq(Nat), NEW m \in Nat, NEW stage, NEW r,
           r # "ok", f # <<>>, Whole(g, f, m, stage, r)
    PROVE  /\ Head(f) = Sentinel => Whole(g, Tail(f), m, stage, "ok")
           /\ Head(f) # Sentinel => Whole(Append(g, Head(f)), Tail(f), m, stage, r)
<1> USE SizeAssumption DEF Whole, Past, Sentinel
<1> DEFINE l == Len(f)
           k == Len(g)
<1>1. /\ l \in Nat \ {0} /\ k \in Nat /\ Head(f) = f[1] /\ Head(f) \in Nat
      /\ Tail(f) \in Seq(Nat) /\ Len(Tail(f)) = l - 1
      /\ \A n \in 1 .. l - 1 : Tail(f)[n] = f[n + 1]
  OBVIOUS
<1>2. ASSUME Head(f) = Sentinel PROVE Whole(g, Tail(f), m, stage, "ok")
  <2>1. f[1] = 0
    BY <1>1, <1>2
  <2>2. stage \notin Early
    <3> SUFFICES ASSUME stage \in Early PROVE FALSE
      OBVIOUS
    <3>1. f[1] = k + 1
      BY <1>1
    <3> QED BY <1>1, <2>1, <3>1
  <2>3. stage \in Past /\ m = k + l - 1 /\ \A n \in 1 .. l - 1 : f[n] = k + n
    BY <2>2
  <2>4. l = 1
    <3> SUFFICES ASSUME l > 1 PROVE FALSE
      BY <1>1
    <3>1. f[1] = k + 1
      BY <1>1, <2>3
    <3> QED BY <1>1, <2>1, <3>1
  <2>5. Len(Tail(f)) = 0 /\ m = Len(g)
    BY <1>1, <2>3, <2>4
  <2> QED BY <2>2, <2>3, <2>5
<1>3. ASSUME Head(f) # Sentinel PROVE Whole(Append(g, Head(f)), Tail(f), m, stage, r)
  <2> DEFINE h == Append(g, Head(f))
  <2>1. Head(f) = k + 1 /\ (stage \in Past => l > 1)
    BY <1>1, <1>3
  <2>2. Len(h) = k + 1 /\ h[k + 1] = k + 1 /\ \A n \in 1 .. k : h[n] = g[n]
    BY <1>1, <2>1
  <2>3. \A n \in 1 .. Len(h) : h[n] = n
    BY <1>1, <2>2
  <2>4. ASSUME stage \in Early PROVE \A n \in 1 .. Len(Tail(f)) : Tail(f)[n] = Len(h) + n
    BY <1>1, <2>2, <2>4
  <2>5. ASSUME stage \in Past
        PROVE  /\ Len(Tail(f)) > 0 /\ Tail(f)[Len(Tail(f))] = Sentinel
               /\ \A n \in 1 .. Len(Tail(f)) - 1 : Tail(f)[n] = Len(h) + n
    BY <1>1, <2>1, <2>2, <2>5
  <2>6. stage \in Early => m = Len(h) + Len(Tail(f)) + (IF stage = "putting" THEN 1 ELSE 0)
    BY <1>1, <2>2
  <2>7. stage \in Past => m = Len(h) + Len(Tail(f)) - 1
    <3>1. stage \in Past => m = k + l - 1
      OBVIOUS
    <3>2. k \in Nat /\ l \in Nat /\ Len(h) = k + 1 /\ Len(Tail(f)) = l - 1
      BY <1>1, <2>2
    <3> HIDE DEF h, k, l
    <3> QED BY <3>1, <3>2
  <2>8. Len(Tail(f)) <= QueueSize
    BY <1>1
  <2> SUFFICES Whole(h, Tail(f), m, stage, r)
    OBVIOUS
  <2> HIDE DEF h
  <2> QED BY <2>3, <2>4, <2>5, <2>6, <2>7, <2>8
<1> QED BY <1>2, <1>3

\* A stream none of whose parts a step touches stays whole.
LEMMA WholeKept ==
    ASSUME NEW s \in Streams, WholeSoFar(s),
           UNCHANGED <<at[s], reply[s], fifo[s], made[s], got[s]>>
    PROVE  WholeSoFar(s)'
BY DEF WholeSoFar, Whole, Early, Past

\* Nothing is lost, doubled or overtaken between a solver and its client.
LEMMA StreamsKept == ASSUME TypeOK, StreamInv, [Next]_vars PROVE StreamInv'
<1> USE StageFacts, SizeAssumption DEF pool, capture, stream, Go
<1>1. ASSUME NEW t \in Streams,
             \/ \E j \in Jobs \ {t} : Request(j) \/ Start(j)
             \/ \E j \in Programs \cup Timed : Timeout(j)
             \/ \E j \in Tasks : EndTask(j)
             \/ \E p \in Programs : Program(p)
             \/ \E s \in Streams \ {t} : Solver(s) \/ Receive(s) \/ HangUp(s)
             \/ UNCHANGED vars
      PROVE  WholeSoFar(t)'
  <2>1. t \notin Programs \cup Tasks /\ t \notin Timed /\ t \in Jobs
    BY JobAssumption
  <2>2. UNCHANGED <<fifo[t], made[t], got[t]>>
    BY <1>1, <2>1 DEF Request, Start, Timeout, EndTask, Program, Find, Redirect, PrintLine, Leave,
                 Return, Solver, Checkpoint, Finish, Put, PutSentinel, Receive, HangUp, vars, TypeOK
  <2>3. UNCHANGED at[t]
    BY <1>1, <2>1 DEF Request, Start, Timeout, EndTask, Program, Find, Redirect, PrintLine, Leave,
                 Return, Solver, Checkpoint, Finish, Put, PutSentinel, Receive, HangUp, vars, TypeOK
  <2>4. UNCHANGED reply[t]
    BY <1>1, <2>1 DEF Request, Start, Timeout, EndTask, Program, Find, Redirect, PrintLine, Leave,
                 Return, Solver, Checkpoint, Finish, Put, PutSentinel, Receive, HangUp, vars,
                 TypeOK, Answer
  <2> QED BY <2>2, <2>3, <2>4, WholeKept DEF StreamInv
<1>2. ASSUME NEW t \in Streams
      PROVE  /\ t \in Jobs /\ WholeSoFar(t) /\ FirstStage(t) = "solving"
             /\ got[t] \in Seq(Nat) /\ fifo[t] \in Seq(Nat) /\ made[t] \in Nat
  <2>1. Checkpoints \cup {Sentinel} \subseteq Nat
    BY DEF Checkpoints, Sentinel
  <2>2. got[t] \in Seq(Checkpoints) /\ fifo[t] \in Seq(Checkpoints \cup {Sentinel})
        /\ made[t] \in Nat
    BY DEF TypeOK
  <2>3. FirstStage(t) = "solving"
    BY JobAssumption DEF FirstStage
  <2>4. WholeSoFar(t)
    BY DEF StreamInv
  <2>5. got[t] \in Seq(Nat) /\ fifo[t] \in Seq(Nat)
    <3>1. Checkpoints \subseteq Nat
      BY <2>1
    <3> QED BY <2>1, <2>2, <3>1, SeqMonotonic
  <2> QED BY <2>2, <2>3, <2>4, <2>5
<1>3. ASSUME NEW t \in Streams, Request(t) \/ Start(t) PROVE WholeSoFar(t)'
  <2>1. UNCHANGED <<reply[t], fifo[t], made[t], got[t]>>
    BY <1>3 DEF Request, Start
  <2>2. reply[t] # "504"
    BY <1>2 DEF WholeSoFar, Whole
  <2>3. at[t] \in {"before", "queued"} /\ at'[t] \in {"queued", "solving"}
    BY <1>2, <1>3, <2>2 DEF Request, Start, TypeOK
  <2> QED BY <1>2, <2>1, <2>3 DEF WholeSoFar, Whole, Early, Past
<1>4. ASSUME NEW t \in Streams, Checkpoint(t) \/ Finish(t) PROVE WholeSoFar(t)'
  <2>1. UNCHANGED <<reply[t], fifo[t], got[t]>> /\ at[t] = "solving"
    BY <1>4 DEF Checkpoint, Finish
  <2>2. \/ at'[t] = "putting" /\ made'[t] = made[t] + 1
        \/ at'[t] = "closing" /\ made'[t] = made[t]
    BY <1>2, <1>4 DEF Checkpoint, Finish, TypeOK
  <2>3. ASSUME NEW g \in Seq(Nat), NEW f \in Seq(Nat), NEW m \in Nat, NEW r,
               Whole(g, f, m, "solving", r)
        PROVE  Whole(g, f, m + 1, "putting", r) /\ Whole(g, f, m, "closing", r)
    BY <2>3 DEF Whole, Early, Past
  <2>4. WholeSoFar(t)' <=> Whole(got[t], fifo[t], made'[t], at'[t], reply[t])
    BY <2>1 DEF WholeSoFar
  <2> QED BY <1>2, <2>1, <2>2, <2>3, <2>4 DEF WholeSoFar
<1>5. ASSUME NEW t \in Streams, Put(t) \/ PutSentinel(t) PROVE WholeSoFar(t)'
  <2>1. UNCHANGED <<reply[t], made[t], got[t]>> /\ Len(fifo[t]) < QueueSize
    BY <1>5 DEF Put, PutSentinel, Room
  <2>2. \/ at[t] = "putting" /\ at'[t] = "solving" /\ fifo'[t] = Append(fifo[t], made[t])
        \/ at[t] = "closing" /\ at'[t] = "done" /\ fifo'[t] = Append(fifo[t], Sentinel)
    BY <1>2, <1>5 DEF Put, PutSentinel, TypeOK
  <2>3. WholeSoFar(t)' <=> Whole(got[t], fifo'[t], made[t], at'[t], reply[t])
    BY <2>1 DEF WholeSoFar
  <2> DEFINE g == got[t]
             f == fifo[t]
             m == made[t]
             a == reply[t]
  <2>4. /\ Whole(g, f, m, "putting", a) => Whole(g, Append(f, m), m, "solving", a)
        /\ Whole(g, f, m, "closing", a) => Whole(g, Append(f, Sentinel), m, "done", a)
    <3>1. g \in Seq(Nat) /\ f \in Seq(Nat) /\ m \in Nat /\ Len(f) < QueueSize
      BY <1>2, <2>1
    <3> HIDE DEF g, f, m, a
    <3> QED BY <3>1, PutIsWhole
  <2>5. Whole(g, f, m, at[t], a)
    BY <1>2 DEF WholeSoFar
  <2>6. Whole(g, fifo'[t], m, at'[t], a)
    <3> HIDE DEF g, a
    <3> QED BY <2>2, <2>4, <2>5
  <2> QED BY <2>3, <2>6
<1>6. ASSUME NEW t \in Streams, Receive(t) PROVE WholeSoFar(t)'
  <2>1. UNCHANGED <<at[t], made[t]>> /\ fifo'[t] = Tail(fifo[t]) /\ fifo[t] # <<>>
        /\ reply[t] = "none"
    BY <1>6 DEF Receive, TypeOK
  <2>2. IF Head(fifo[t]) = Sentinel THEN reply'[t] = "ok" /\ got'[t] = got[t]
        ELSE reply'[t] = reply[t] /\ got'[t] = Append(got[t], Head(fifo[t]))
    BY <1>2, <1>6 DEF Receive, TypeOK
  <2>3. WholeSoFar(t)' <=> Whole(got'[t], Tail(fifo[t]), made[t], at[t], reply'[t])
    BY <2>1 DEF WholeSoFar
  <2> DEFINE g == got[t]
             f == fifo[t]
             m == made[t]
             a == reply[t]
             stage == at[t]
  <2>4. /\ Head(f) = Sentinel => Whole(g, Tail(f), m, stage, "ok")
        /\ Head(f) # Sentinel => Whole(Append(g, Head(f)), Tail(f), m, stage, a)
    <3>1. /\ g \in Seq(Nat) /\ f \in Seq(Nat) /\ m \in Nat
          /\ a # "ok" /\ f # <<>> /\ Whole(g, f, m, stage, a)
      BY <1>2, <2>1 DEF WholeSoFar
    <3> HIDE DEF g, f, m, a, stage
    <3> QED BY <3>1, ReceiveIsWhole
  <2>5. Whole(got'[t], Tail(f), m, stage, reply'[t])
    BY <2>2, <2>4
  <2> QED BY <2>3, <2>5
<1>7. ASSUME NEW t \in Streams, HangUp(t) PROVE WholeSoFar(t)'
  <2>1. UNCHANGED <<at[t], fifo[t], made[t], got[t]>> /\ reply[t] = "none" /\ reply'[t] = "gone"
    BY <1>2, <1>7 DEF HangUp, TypeOK
  <2> QED BY <1>2, <2>1 DEF WholeSoFar, Whole
<1> SUFFICES ASSUME NEW t \in Streams PROVE WholeSoFar(t)'
  BY DEF StreamInv
<1> QED BY <1>1, <1>3, <1>4, <1>5, <1>6, <1>7 DEF Next, Pool, Solver

-----------------------------------------------------------------------------
\* The pool's variables have their types, and so each client one answer.
THEOREM WorkersTypes == Spec => []TypeOK
<1>1. IInv => TypeOK
  BY DEF IInv
<1> QED BY <1>1, InitHolds, StepHolds, PTL DEF Spec

\* A program that met no other is answered with its own output and no other.
THEOREM AloneMeansOwn == Spec => []OwnOutput
<1>1. IInv => OwnOutput
  BY StageFacts DEF IInv, Undisturbed, OwnOutput
<1> QED BY <1>1, InitHolds, StepHolds, PTL DEF Spec

\* If the first capture is always the last to end, the server's own output is
\* back whenever no program runs.
THEOREM OutputComesBack == Spec => []ConsoleBack
<1>1. IInv => ConsoleBack
  BY DEF IInv, Outermost, ConsoleBack
<1> QED BY <1>1, InitHolds, StepHolds, PTL DEF Spec

\* A client has the first checkpoints in order, and at the end all of them.
THEOREM StreamsComeWhole == Spec => []StreamWhole
<1>1. Init => StreamInv
  <2> SUFFICES ASSUME Init, NEW s \in Streams PROVE WholeSoFar(s)
    BY DEF StreamInv
  <2> QED BY StageFacts, SizeAssumption DEF Init, WholeSoFar, Whole, Early, Past
<1>2. IInv /\ StreamInv /\ [Next]_vars => IInv' /\ StreamInv'
  BY StepHolds, StreamsKept DEF IInv
<1>3. IInv /\ StreamInv => StreamWhole
  <2> SUFFICES ASSUME IInv, StreamInv, NEW s \in Streams PROVE
        /\ got[s] = [n \in 1 .. Len(got[s]) |-> n]
        /\ reply[s] = "ok" => Len(got[s]) = made[s]
        /\ Len(fifo[s]) <= QueueSize
    BY DEF StreamWhole
  <2>1. WholeSoFar(s)
    BY DEF StreamInv
  <2>2. got[s] = [n \in 1 .. Len(got[s]) |-> got[s][n]]
    BY DEF IInv, TypeOK
  <2>3. got[s] = [n \in 1 .. Len(got[s]) |-> n]
    BY <2>1, <2>2 DEF WholeSoFar, Whole
  <2> QED BY <2>1, <2>3 DEF WholeSoFar, Whole, Past
<1> QED BY <1>1, <1>2, <1>3, InitHolds, PTL DEF Spec
=============================================================================
