--------------------------- MODULE DebuggerProofs ---------------------------
(* Proofs about the debugger, for every set of lines and every length of    *)
(* run.  The heart is a balance: what the client has sent, what the loop    *)
(* has taken and the Event together hold exactly the resumes that are       *)
(* pending, and a stop holds exactly one of: an event not read, a client    *)
(* that knows, a resume pending.                                            *)
EXTENDS Debugger, TLAPS

AtStop == {"waiting", "woken"}
InHook == {"hook", "read"}
Stacked == {"pushed", "waiting", "woken", "cleared"}
Framed == Stacked \cup {"framed"}

\* Where the thread is, and what it has left on the shared object.
Placed ==
    /\ at = "unborn" \/ phase = "launched"
    /\ request.cmd = "launch" => at = "unborn"
    /\ _call_stack = IF at \in Stacked THEN <<line>> ELSE <<>>
    /\ at \in Framed => _current_frame.x = hits
    /\ at \in Framed \cup InHook => line \in Lines /\ hits > 0
    /\ at = "woken" => _stopped = "set"
    /\ loop = "stored" => request.cmd = "setBreakpoints" /\ _breakpoints = request.lines

One(p) == IF p THEN 1 ELSE 0

\* The balance of resumes.
Counted ==
    Patient =>
        /\ pending = One(request.cmd \in Resumes) + One(loop \in Resumes \cup {"wake"})
                        + One(_stopped = "set")
        /\ pending + One(view = "stopped") + unread = One(at \in AtStop)

\* What has been answered is in force.
InForce ==
    Patient =>
        /\ acked \subseteq _breakpoints
        /\ request.cmd \in Resumes => stepping = (request.cmd = "next")
        /\ loop \in Resumes => stepping = (loop = "next")
        /\ stepping /\ request.cmd \notin Resumes /\ loop \notin Resumes => _step_mode
        /\ at \in InHook /\ "step" \in due => _step_mode
        /\ at = "hook" /\ "breakpoint" \in due => line \in _breakpoints
        /\ at = "read" /\ "breakpoint" \in due => line \in bp_lines

IInv == TypeOK /\ Placed /\ Counted /\ InForce

-----------------------------------------------------------------------------
\* What the components of a request can be.
LEMMA RequestFacts ==
    /\ NoRequest.cmd = "none" /\ NoRequest.lines = {}
    /\ \A r \in Requests : /\ r.cmd # "none"
                           /\ r.lines \in SUBSET Lines
BY DEF NoRequest, Requests, Commands, Resumes

\* A client's write changes a frame's contents and leaves it that frame.
LEMMA FrameFacts ==
    /\ Absent \in Frames
    /\ \A n \in 0..MaxHits : Frame(n) \in Frames /\ Frame(n).x = n
    /\ \A f \in Frames : /\ Edited(f) \in Frames
                         /\ Edited(f).x = f.x
                         /\ f.x \in 0..MaxHits
<1>1. \A n \in 0..MaxHits : Frame(n) \in Frames /\ Frame(n).x = n
  BY DEF Frame, Frames
<1>2. Absent \in Frames
  BY <1>1, HitsAssumption DEF Absent
<1>3. ASSUME NEW f \in Frames
      PROVE  /\ Edited(f) \in Frames
             /\ Edited(f).x = f.x
             /\ f.x \in 0..MaxHits
  BY DEF Edited, Frames
<1> QED BY <1>1, <1>2, <1>3

-----------------------------------------------------------------------------
\* The debugger starts with nothing pending and nothing promised.
LEMMA InitHolds == Init => IInv
<1> SUFFICES ASSUME Init PROVE IInv
  OBVIOUS
<1> USE LinesAssumption, HitsAssumption, RequestFacts, FrameFacts DEF Init, Patient, Resumes
<1>1. LoopOK
  BY DEF LoopOK
<1>2. SharedOK
  BY DEF SharedOK, Stacks
<1>3. ThreadOK
  BY DEF ThreadOK
<1>4. ClientOK
  BY DEF ClientOK
<1>8. DuesOK
  BY DEF DuesOK
<1>5. Placed
  BY DEF Placed, InHook, Stacked, Framed, Absent, Frame
<1>6. Counted
  BY DEF Counted, One, AtStop
<1>7. InForce
  BY DEF InForce, InHook
<1> QED BY <1>1, <1>2, <1>3, <1>4, <1>5, <1>6, <1>7, <1>8 DEF IInv, TypeOK

\* A client that sends what it likes, or reads an event, keeps the balance or
\* becomes hasty.
LEMMA ClientHolds ==
    ASSUME IInv, (\E r \in Requests : Send(r)) \/ ReadStopped PROVE IInv'
<1> USE LinesAssumption, HitsAssumption, RequestFacts
        DEF IInv, TypeOK, Patient, Resumes, shared, thread, client, counts, dues
<1>1. ASSUME NEW r \in Requests, Send(r) PROVE IInv'
  <2> USE <1>1 DEF Send
  <2>1. LoopOK'
    BY DEF LoopOK
  <2>2. SharedOK'
    BY DEF SharedOK, Stacks
  <2>3. ThreadOK'
    BY DEF ThreadOK
  <2>4. ClientOK'
    BY DEF ClientOK
  <2>8. DuesOK'
    BY DEF DuesOK
  <2>5. Placed'
    BY DEF Placed, InHook, Stacked, Framed
  <2>6. Counted'
    BY DEF Counted, Placed, LoopOK, ThreadOK, ClientOK, SharedOK, One, AtStop
  <2>7. InForce'
    BY DEF InForce, Placed, Counted, LoopOK, ThreadOK, ClientOK, SharedOK, InHook, One, AtStop
  <2> QED BY <2>1, <2>2, <2>3, <2>4, <2>5, <2>6, <2>7, <2>8
<1>2. ASSUME ReadStopped PROVE IInv'
  <2> USE <1>2 DEF ReadStopped
  <2>1. LoopOK' /\ SharedOK' /\ ThreadOK'
    BY DEF LoopOK, SharedOK, ThreadOK, Stacks
  <2>2. ClientOK'
    BY DEF ClientOK
  <2>8. DuesOK'
    BY DEF DuesOK
  <2>5. Placed'
    BY DEF Placed
  <2>6. Counted'
    BY DEF Counted, ClientOK, One, AtStop
  <2>7. InForce'
    BY DEF InForce
  <2> QED BY <2>1, <2>2, <2>5, <2>6, <2>7, <2>8
<1> QED BY <1>1, <1>2

\* Each step of the request loop keeps the balance and what was answered.
LEMMA LoopHolds == ASSUME IInv, DapLoop PROVE IInv'
<1> USE LinesAssumption, HitsAssumption, RequestFacts, FrameFacts
        DEF IInv, TypeOK, Patient, Resumes, Answered, Reads, Accepts, Goes, Returns,
            shared, thread, client, counts, dues
<1>1. ASSUME Reject PROVE IInv'
  <2> USE <1>1 DEF Reject
  <2>1. LoopOK' /\ ThreadOK'
    BY DEF LoopOK, ThreadOK
  <2>2. SharedOK'
    BY DEF SharedOK, ThreadOK, Stacks, Placed, Stacked, Framed, InHook, LoopOK
  <2>3. ClientOK' /\ DuesOK'
    BY DEF ClientOK, DuesOK, LoopOK, SharedOK, ThreadOK
  <2>4. Placed'
    BY DEF Placed, LoopOK, ThreadOK, SharedOK, Stacked, Framed, InHook, Absent, Frame, Edited
  <2>5. Counted'
    BY DEF Counted, Placed, LoopOK, ThreadOK, SharedOK, ClientOK, One, AtStop
  <2>6. InForce'
    BY DEF InForce, Counted, Placed, LoopOK, ThreadOK, SharedOK, ClientOK, DuesOK, One,
           AtStop, InHook
  <2> QED BY <2>1, <2>2, <2>3, <2>4, <2>5, <2>6
<1>2. ASSUME Initialize PROVE IInv'
  <2> USE <1>2 DEF Initialize
  <2>1. LoopOK' /\ ThreadOK'
    BY DEF LoopOK, ThreadOK
  <2>2. SharedOK'
    BY DEF SharedOK, ThreadOK, Stacks, Placed, Stacked, Framed, InHook, LoopOK
  <2>3. ClientOK' /\ DuesOK'
    BY DEF ClientOK, DuesOK, LoopOK, SharedOK, ThreadOK
  <2>4. Placed'
    BY DEF Placed, LoopOK, ThreadOK, SharedOK, Stacked, Framed, InHook, Absent, Frame, Edited
  <2>5. Counted'
    BY DEF Counted, Placed, LoopOK, ThreadOK, SharedOK, ClientOK, One, AtStop
  <2>6. InForce'
    BY DEF InForce, Counted, Placed, LoopOK, ThreadOK, SharedOK, ClientOK, DuesOK, One,
           AtStop, InHook
  <2> QED BY <2>1, <2>2, <2>3, <2>4, <2>5, <2>6
<1>3. ASSUME Launch PROVE IInv'
  <2> USE <1>3 DEF Launch
  <2>1. LoopOK' /\ ThreadOK'
    BY DEF LoopOK, ThreadOK
  <2>2. SharedOK'
    BY DEF SharedOK, ThreadOK, Stacks, Placed, Stacked, Framed, InHook, LoopOK
  <2>3. ClientOK' /\ DuesOK'
    BY DEF ClientOK, DuesOK, LoopOK, SharedOK, ThreadOK
  <2>4. Placed'
    BY DEF Placed, LoopOK, ThreadOK, SharedOK, Stacked, Framed, InHook, Absent, Frame, Edited
  <2>5. Counted'
    BY DEF Counted, Placed, LoopOK, ThreadOK, SharedOK, ClientOK, One, AtStop
  <2>6. InForce'
    BY DEF InForce, Counted, Placed, LoopOK, ThreadOK, SharedOK, ClientOK, DuesOK, One,
           AtStop, InHook
  <2> QED BY <2>1, <2>2, <2>3, <2>4, <2>5, <2>6
<1>4. ASSUME StoreBreakpoints PROVE IInv'
  <2> USE <1>4 DEF StoreBreakpoints
  <2>1. LoopOK' /\ ThreadOK'
    BY DEF LoopOK, ThreadOK
  <2>2. SharedOK'
    BY DEF SharedOK, ThreadOK, Stacks, Placed, Stacked, Framed, InHook, LoopOK
  <2>3. ClientOK' /\ DuesOK'
    BY DEF ClientOK, DuesOK, LoopOK, SharedOK, ThreadOK
  <2>4. Placed'
    BY DEF Placed, LoopOK, ThreadOK, SharedOK, Stacked, Framed, InHook, Absent, Frame, Edited
  <2>5. Counted'
    BY DEF Counted, Placed, LoopOK, ThreadOK, SharedOK, ClientOK, One, AtStop
  <2>6. InForce'
    BY DEF InForce, Counted, Placed, LoopOK, ThreadOK, SharedOK, ClientOK, DuesOK, One,
           AtStop, InHook
  <2> QED BY <2>1, <2>2, <2>3, <2>4, <2>5, <2>6
<1>5. ASSUME AnswerBreakpoints PROVE IInv'
  <2> USE <1>5 DEF AnswerBreakpoints
  <2>1. LoopOK' /\ ThreadOK'
    BY DEF LoopOK, ThreadOK
  <2>2. SharedOK'
    BY DEF SharedOK, ThreadOK, Stacks, Placed, Stacked, Framed, InHook, LoopOK
  <2>3. ClientOK' /\ DuesOK'
    BY DEF ClientOK, DuesOK, LoopOK, SharedOK, ThreadOK
  <2>4. Placed'
    BY DEF Placed, LoopOK, ThreadOK, SharedOK, Stacked, Framed, InHook, Absent, Frame, Edited
  <2>5. Counted'
    BY DEF Counted, Placed, LoopOK, ThreadOK, SharedOK, ClientOK, One, AtStop
  <2>6. InForce'
    BY DEF InForce, Counted, Placed, LoopOK, ThreadOK, SharedOK, ClientOK, DuesOK, One,
           AtStop, InHook
  <2> QED BY <2>1, <2>2, <2>3, <2>4, <2>5, <2>6
<1>6. ASSUME AnswerResume PROVE IInv'
  <2> USE <1>6 DEF AnswerResume
  <2>1. LoopOK' /\ ThreadOK'
    BY DEF LoopOK, ThreadOK
  <2>2. SharedOK'
    BY DEF SharedOK, ThreadOK, Stacks, Placed, Stacked, Framed, InHook, LoopOK
  <2>3. ClientOK' /\ DuesOK'
    BY DEF ClientOK, DuesOK, LoopOK, SharedOK, ThreadOK
  <2>4. Placed'
    BY DEF Placed, LoopOK, ThreadOK, SharedOK, Stacked, Framed, InHook, Absent, Frame, Edited
  <2>5. Counted'
    BY DEF Counted, Placed, LoopOK, ThreadOK, SharedOK, ClientOK, One, AtStop
  <2>6. InForce'
    BY DEF InForce, Counted, Placed, LoopOK, ThreadOK, SharedOK, ClientOK, DuesOK, One,
           AtStop, InHook
  <2> QED BY <2>1, <2>2, <2>3, <2>4, <2>5, <2>6
<1>7. ASSUME SetMode PROVE IInv'
  <2> USE <1>7 DEF SetMode
  <2>1. LoopOK' /\ ThreadOK'
    BY DEF LoopOK, ThreadOK
  <2>2. SharedOK'
    BY DEF SharedOK, ThreadOK, Stacks, Placed, Stacked, Framed, InHook, LoopOK
  <2>3. ClientOK' /\ DuesOK'
    BY DEF ClientOK, DuesOK, LoopOK, SharedOK, ThreadOK
  <2>4. Placed'
    BY DEF Placed, LoopOK, ThreadOK, SharedOK, Stacked, Framed, InHook, Absent, Frame, Edited
  <2>5. Counted'
    BY DEF Counted, Placed, LoopOK, ThreadOK, SharedOK, ClientOK, One, AtStop
  <2>6. InForce'
    BY DEF InForce, Counted, Placed, LoopOK, ThreadOK, SharedOK, ClientOK, DuesOK, One,
           AtStop, InHook
  <2> QED BY <2>1, <2>2, <2>3, <2>4, <2>5, <2>6
<1>8. ASSUME Wake PROVE IInv'
  <2> USE <1>8 DEF Wake
  <2>1. LoopOK' /\ ThreadOK'
    BY DEF LoopOK, ThreadOK
  <2>2. SharedOK'
    BY DEF SharedOK, ThreadOK, Stacks, Placed, Stacked, Framed, InHook, LoopOK
  <2>3. ClientOK' /\ DuesOK'
    BY DEF ClientOK, DuesOK, LoopOK, SharedOK, ThreadOK
  <2>4. Placed'
    BY DEF Placed, LoopOK, ThreadOK, SharedOK, Stacked, Framed, InHook, Absent, Frame, Edited
  <2>5. Counted'
    BY DEF Counted, Placed, LoopOK, ThreadOK, SharedOK, ClientOK, One, AtStop
  <2>6. InForce'
    BY DEF InForce, Counted, Placed, LoopOK, ThreadOK, SharedOK, ClientOK, DuesOK, One,
           AtStop, InHook
  <2> QED BY <2>1, <2>2, <2>3, <2>4, <2>5, <2>6
<1>9. ASSUME Pause PROVE IInv'
  <2> USE <1>9 DEF Pause
  <2>1. LoopOK' /\ ThreadOK'
    BY DEF LoopOK, ThreadOK
  <2>2. SharedOK'
    BY DEF SharedOK, ThreadOK, Stacks, Placed, Stacked, Framed, InHook, LoopOK
  <2>3. ClientOK' /\ DuesOK'
    BY DEF ClientOK, DuesOK, LoopOK, SharedOK, ThreadOK
  <2>4. Placed'
    BY DEF Placed, LoopOK, ThreadOK, SharedOK, Stacked, Framed, InHook, Absent, Frame, Edited
  <2>5. Counted'
    BY DEF Counted, Placed, LoopOK, ThreadOK, SharedOK, ClientOK, One, AtStop
  <2>6. InForce'
    BY DEF InForce, Counted, Placed, LoopOK, ThreadOK, SharedOK, ClientOK, DuesOK, One,
           AtStop, InHook
  <2> QED BY <2>1, <2>2, <2>3, <2>4, <2>5, <2>6
<1>10. ASSUME Look PROVE IInv'
  <2> USE <1>10 DEF Look
  <2>1. LoopOK' /\ ThreadOK'
    BY DEF LoopOK, ThreadOK
  <2>2. SharedOK'
    BY DEF SharedOK, ThreadOK, Stacks, Placed, Stacked, Framed, InHook, LoopOK
  <2>3. ClientOK' /\ DuesOK'
    BY DEF ClientOK, DuesOK, LoopOK, SharedOK, ThreadOK
  <2>4. Placed'
    BY DEF Placed, LoopOK, ThreadOK, SharedOK, Stacked, Framed, InHook, Absent, Frame, Edited
  <2>5. Counted'
    BY DEF Counted, Placed, LoopOK, ThreadOK, SharedOK, ClientOK, One, AtStop
  <2>6. InForce'
    BY DEF InForce, Counted, Placed, LoopOK, ThreadOK, SharedOK, ClientOK, DuesOK, One,
           AtStop, InHook
  <2> QED BY <2>1, <2>2, <2>3, <2>4, <2>5, <2>6
<1>11. ASSUME SetVariable PROVE IInv'
  <2> USE <1>11 DEF SetVariable
  <2>1. LoopOK' /\ ThreadOK'
    BY DEF LoopOK, ThreadOK
  <2>2. SharedOK'
    BY DEF SharedOK, ThreadOK, Stacks, Placed, Stacked, Framed, InHook, LoopOK
  <2>3. ClientOK' /\ DuesOK'
    BY DEF ClientOK, DuesOK, LoopOK, SharedOK, ThreadOK
  <2>4. Placed'
    BY DEF Placed, LoopOK, ThreadOK, SharedOK, Stacked, Framed, InHook, Absent, Frame, Edited
  <2>5. Counted'
    BY DEF Counted, Placed, LoopOK, ThreadOK, SharedOK, ClientOK, One, AtStop
  <2>6. InForce'
    BY DEF InForce, Counted, Placed, LoopOK, ThreadOK, SharedOK, ClientOK, DuesOK, One,
           AtStop, InHook
  <2> QED BY <2>1, <2>2, <2>3, <2>4, <2>5, <2>6
<1>12. ASSUME Disconnect PROVE IInv'
  <2> USE <1>12 DEF Disconnect
  <2>1. LoopOK' /\ ThreadOK'
    BY DEF LoopOK, ThreadOK
  <2>2. SharedOK'
    BY DEF SharedOK, ThreadOK, Stacks, Placed, Stacked, Framed, InHook, LoopOK
  <2>3. ClientOK' /\ DuesOK'
    BY DEF ClientOK, DuesOK, LoopOK, SharedOK, ThreadOK
  <2>4. Placed'
    BY DEF Placed, LoopOK, ThreadOK, SharedOK, Stacked, Framed, InHook, Absent, Frame, Edited
  <2>5. Counted'
    BY DEF Counted, Placed, LoopOK, ThreadOK, SharedOK, ClientOK, One, AtStop
  <2>6. InForce'
    BY DEF InForce, Counted, Placed, LoopOK, ThreadOK, SharedOK, ClientOK, DuesOK, One,
           AtStop, InHook
  <2> QED BY <2>1, <2>2, <2>3, <2>4, <2>5, <2>6
<1> QED BY <1>1, <1>2, <1>3, <1>4, <1>5, <1>6, <1>7, <1>8, <1>9, <1>10, <1>11, <1>12 DEF DapLoop

\* Each step of the program's thread keeps them.
LEMMA ProgramHolds == ASSUME IInv, Program PROVE IInv'
<1> USE LinesAssumption, HitsAssumption, RequestFacts, FrameFacts
        DEF IInv, TypeOK, Patient, Resumes, Answered, Reads, Accepts, Goes, Returns,
            shared, thread, client, counts, dues
<1>1. ASSUME NEW l \in Lines, Hook(l) PROVE IInv'
  <2> USE <1>1 DEF Hook
  <2>1. LoopOK' /\ ThreadOK'
    BY DEF LoopOK, ThreadOK
  <2>2. SharedOK'
    BY DEF SharedOK, ThreadOK, Stacks, Placed, Stacked, Framed, InHook, LoopOK
  <2>3. ClientOK' /\ DuesOK'
    BY DEF ClientOK, DuesOK, LoopOK, SharedOK, ThreadOK
  <2>4. Placed'
    BY DEF Placed, LoopOK, ThreadOK, SharedOK, Stacked, Framed, InHook, Absent, Frame, Edited
  <2>5. Counted'
    BY DEF Counted, Placed, LoopOK, ThreadOK, SharedOK, ClientOK, One, AtStop
  <2>6. InForce'
    BY DEF InForce, Counted, Placed, LoopOK, ThreadOK, SharedOK, ClientOK, DuesOK, One,
           AtStop, InHook
  <2> QED BY <2>1, <2>2, <2>3, <2>4, <2>5, <2>6
<1>2. ASSUME ReadBreakpoints PROVE IInv'
  <2> USE <1>2 DEF ReadBreakpoints
  <2>1. LoopOK' /\ ThreadOK'
    BY DEF LoopOK, ThreadOK, SharedOK
  <2>2. SharedOK'
    BY DEF SharedOK, ThreadOK, Stacks, Placed, Stacked, Framed, InHook, LoopOK
  <2>3. ClientOK' /\ DuesOK'
    BY DEF ClientOK, DuesOK, LoopOK, SharedOK, ThreadOK
  <2>4. Placed'
    BY DEF Placed, LoopOK, ThreadOK, SharedOK, Stacked, Framed, InHook, Absent, Frame, Edited
  <2>5. Counted'
    BY DEF Counted, Placed, LoopOK, ThreadOK, SharedOK, ClientOK, One, AtStop
  <2>6. InForce'
    BY DEF InForce, Counted, Placed, LoopOK, ThreadOK, SharedOK, ClientOK, DuesOK, One,
           AtStop, InHook
  <2> QED BY <2>1, <2>2, <2>3, <2>4, <2>5, <2>6
<1>3. ASSUME PassBy PROVE IInv'
  <2> USE <1>3 DEF PassBy
  <2>1. LoopOK' /\ ThreadOK'
    BY DEF LoopOK, ThreadOK
  <2>2. SharedOK'
    BY DEF SharedOK, ThreadOK, Stacks, Placed, Stacked, Framed, InHook, LoopOK
  <2>3. ClientOK' /\ DuesOK'
    BY DEF ClientOK, DuesOK, LoopOK, SharedOK, ThreadOK
  <2>4. Placed'
    BY DEF Placed, LoopOK, ThreadOK, SharedOK, Stacked, Framed, InHook, Absent, Frame, Edited
  <2>5. Counted'
    BY DEF Counted, Placed, LoopOK, ThreadOK, SharedOK, ClientOK, One, AtStop
  <2>6. InForce'
    BY DEF InForce, Counted, Placed, LoopOK, ThreadOK, SharedOK, ClientOK, DuesOK, One,
           AtStop, InHook
  <2> QED BY <2>1, <2>2, <2>3, <2>4, <2>5, <2>6
<1>4. ASSUME Break PROVE IInv'
  <2> USE <1>4 DEF Break
  <2>1. LoopOK' /\ ThreadOK'
    BY DEF LoopOK, ThreadOK
  <2>2. SharedOK'
    BY DEF SharedOK, ThreadOK, Stacks, Placed, Stacked, Framed, InHook, LoopOK
  <2>3. ClientOK' /\ DuesOK'
    BY DEF ClientOK, DuesOK, LoopOK, SharedOK, ThreadOK
  <2>4. Placed'
    BY DEF Placed, LoopOK, ThreadOK, SharedOK, Stacked, Framed, InHook, Absent, Frame, Edited
  <2>5. Counted'
    BY DEF Counted, Placed, LoopOK, ThreadOK, SharedOK, ClientOK, One, AtStop
  <2>6. InForce'
    BY DEF InForce, Counted, Placed, LoopOK, ThreadOK, SharedOK, ClientOK, DuesOK, One,
           AtStop, InHook
  <2> QED BY <2>1, <2>2, <2>3, <2>4, <2>5, <2>6
<1>5. ASSUME Push PROVE IInv'
  <2> USE <1>5 DEF Push
  <2>1. LoopOK' /\ ThreadOK'
    BY DEF LoopOK, ThreadOK
  <2>2. SharedOK'
    BY DEF SharedOK, ThreadOK, Stacks, Placed, Stacked, Framed, InHook, LoopOK
  <2>3. ClientOK' /\ DuesOK'
    BY DEF ClientOK, DuesOK, LoopOK, SharedOK, ThreadOK
  <2>4. Placed'
    BY DEF Placed, LoopOK, ThreadOK, SharedOK, Stacked, Framed, InHook, Absent, Frame, Edited
  <2>5. Counted'
    BY DEF Counted, Placed, LoopOK, ThreadOK, SharedOK, ClientOK, One, AtStop
  <2>6. InForce'
    BY DEF InForce, Counted, Placed, LoopOK, ThreadOK, SharedOK, ClientOK, DuesOK, One,
           AtStop, InHook
  <2> QED BY <2>1, <2>2, <2>3, <2>4, <2>5, <2>6
<1>6. ASSUME Announce PROVE IInv'
  <2> USE <1>6 DEF Announce
  <2>1. LoopOK' /\ ThreadOK'
    BY DEF LoopOK, ThreadOK
  <2>2. SharedOK'
    BY DEF SharedOK, ThreadOK, Stacks, Placed, Stacked, Framed, InHook, LoopOK
  <2>3. ClientOK' /\ DuesOK'
    BY DEF ClientOK, DuesOK, LoopOK, SharedOK, ThreadOK
  <2>4. Placed'
    BY DEF Placed, LoopOK, ThreadOK, SharedOK, Stacked, Framed, InHook, Absent, Frame, Edited
  <2>5. Counted'
    BY DEF Counted, Placed, LoopOK, ThreadOK, SharedOK, ClientOK, One, AtStop
  <2>6. InForce'
    BY DEF InForce, Counted, Placed, LoopOK, ThreadOK, SharedOK, ClientOK, DuesOK, One,
           AtStop, InHook
  <2> QED BY <2>1, <2>2, <2>3, <2>4, <2>5, <2>6
<1>7. ASSUME WaitReturns PROVE IInv'
  <2> USE <1>7 DEF WaitReturns
  <2>1. LoopOK' /\ ThreadOK'
    BY DEF LoopOK, ThreadOK
  <2>2. SharedOK'
    BY DEF SharedOK, ThreadOK, Stacks, Placed, Stacked, Framed, InHook, LoopOK
  <2>3. ClientOK' /\ DuesOK'
    BY DEF ClientOK, DuesOK, LoopOK, SharedOK, ThreadOK
  <2>4. Placed'
    BY DEF Placed, LoopOK, ThreadOK, SharedOK, Stacked, Framed, InHook, Absent, Frame, Edited
  <2>5. Counted'
    BY DEF Counted, Placed, LoopOK, ThreadOK, SharedOK, ClientOK, One, AtStop
  <2>6. InForce'
    BY DEF InForce, Counted, Placed, LoopOK, ThreadOK, SharedOK, ClientOK, DuesOK, One,
           AtStop, InHook
  <2> QED BY <2>1, <2>2, <2>3, <2>4, <2>5, <2>6
<1>8. ASSUME Clear PROVE IInv'
  <2> USE <1>8 DEF Clear
  <2>1. LoopOK' /\ ThreadOK'
    BY DEF LoopOK, ThreadOK
  <2>2. SharedOK'
    BY DEF SharedOK, ThreadOK, Stacks, Placed, Stacked, Framed, InHook, LoopOK
  <2>3. ClientOK' /\ DuesOK'
    BY DEF ClientOK, DuesOK, LoopOK, SharedOK, ThreadOK
  <2>4. Placed'
    BY DEF Placed, LoopOK, ThreadOK, SharedOK, Stacked, Framed, InHook, Absent, Frame, Edited
  <2>5. Counted'
    BY DEF Counted, Placed, LoopOK, ThreadOK, SharedOK, ClientOK, One, AtStop
  <2>6. InForce'
    BY DEF InForce, Counted, Placed, LoopOK, ThreadOK, SharedOK, ClientOK, DuesOK, One,
           AtStop, InHook
  <2> QED BY <2>1, <2>2, <2>3, <2>4, <2>5, <2>6
<1>9. ASSUME Pop PROVE IInv'
  <2> USE <1>9 DEF Pop
  <2>1. LoopOK' /\ ThreadOK'
    BY DEF LoopOK, ThreadOK
  <2>2. SharedOK'
    BY DEF SharedOK, ThreadOK, Stacks, Placed, Stacked, Framed, InHook, LoopOK
  <2>3. ClientOK' /\ DuesOK'
    BY DEF ClientOK, DuesOK, LoopOK, SharedOK, ThreadOK
  <2>4. Placed'
    BY DEF Placed, LoopOK, ThreadOK, SharedOK, Stacked, Framed, InHook, Absent, Frame, Edited
  <2>5. Counted'
    BY DEF Counted, Placed, LoopOK, ThreadOK, SharedOK, ClientOK, One, AtStop
  <2>6. InForce'
    BY DEF InForce, Counted, Placed, LoopOK, ThreadOK, SharedOK, ClientOK, DuesOK, One,
           AtStop, InHook
  <2> QED BY <2>1, <2>2, <2>3, <2>4, <2>5, <2>6
<1>10. ASSUME Terminate PROVE IInv'
  <2> USE <1>10 DEF Terminate
  <2>1. LoopOK' /\ ThreadOK'
    BY DEF LoopOK, ThreadOK
  <2>2. SharedOK'
    BY DEF SharedOK, ThreadOK, Stacks, Placed, Stacked, Framed, InHook, LoopOK
  <2>3. ClientOK' /\ DuesOK'
    BY DEF ClientOK, DuesOK, LoopOK, SharedOK, ThreadOK
  <2>4. Placed'
    BY DEF Placed, LoopOK, ThreadOK, SharedOK, Stacked, Framed, InHook, Absent, Frame, Edited
  <2>5. Counted'
    BY DEF Counted, Placed, LoopOK, ThreadOK, SharedOK, ClientOK, One, AtStop
  <2>6. InForce'
    BY DEF InForce, Counted, Placed, LoopOK, ThreadOK, SharedOK, ClientOK, DuesOK, One,
           AtStop, InHook
  <2> QED BY <2>1, <2>2, <2>3, <2>4, <2>5, <2>6
<1> QED BY <1>1, <1>2, <1>3, <1>4, <1>5, <1>6, <1>7, <1>8, <1>9, <1>10 DEF Program

\* The end of the input, and a process that is over, change nothing else.
LEMMA RestHolds == ASSUME IInv, EndOfInput \/ UNCHANGED vars PROVE IInv'
<1> USE LinesAssumption, HitsAssumption, RequestFacts, FrameFacts
        DEF IInv, TypeOK, Patient, Resumes, shared, thread, client, counts, dues
<1>1. ASSUME EndOfInput PROVE IInv'
  <2> USE <1>1 DEF EndOfInput
  <2>1. LoopOK' /\ ThreadOK' /\ SharedOK'
    BY DEF LoopOK, ThreadOK, SharedOK, Stacks
  <2>2. ClientOK' /\ DuesOK'
    BY DEF ClientOK, DuesOK
  <2>3. Placed'
    BY DEF Placed, Stacked, Framed, InHook
  <2>4. Counted'
    BY DEF Counted, One, AtStop
  <2>5. InForce'
    BY DEF InForce, InHook
  <2> QED BY <2>1, <2>2, <2>3, <2>4, <2>5
<1>2. ASSUME UNCHANGED vars PROVE IInv'
  <2> USE <1>2 DEF vars
  <2>1. LoopOK' /\ ThreadOK' /\ SharedOK'
    BY DEF LoopOK, ThreadOK, SharedOK, Stacks
  <2>2. ClientOK' /\ DuesOK'
    BY DEF ClientOK, DuesOK
  <2>3. Placed'
    BY DEF Placed, Stacked, Framed, InHook
  <2>4. Counted'
    BY DEF Counted, One, AtStop
  <2>5. InForce'
    BY DEF InForce, InHook
  <2> QED BY <2>1, <2>2, <2>3, <2>4, <2>5
<1> QED BY <1>1, <1>2

\* Every step keeps the invariant.
LEMMA StepHolds == ASSUME IInv, [Next]_vars PROVE IInv'
BY ClientHolds, LoopHolds, ProgramHolds, RestHolds DEF Next, Over

\* The balance and what was answered hold throughout.
THEOREM Balance == Spec => []IInv
BY InitHolds, StepHolds, PTL DEF Spec

-----------------------------------------------------------------------------
\* The loop, the shared object, the thread and the client stay in their types;
\* in particular the call stack never holds more than the line being shown.
THEOREM DebuggerTypes == Spec => []TypeOK
<1>1. IInv => TypeOK
  BY DEF IInv
<1> QED BY Balance, <1>1, PTL

\* A stop takes exactly one resume, and none waits for the next stop, whatever
\* a client that only resumes stops it was told of sends.
THEOREM StopsTakeOneResume == Spec => []OneResumeEach
<1>1. ASSUME IInv PROVE OneResumeEach
  <2>1. SUFFICES ASSUME Patient
                 PROVE  /\ pending \in {0, 1}
                        /\ at \notin AtStop => pending = 0 /\ _stopped = "clear"
    BY DEF OneResumeEach, AtStop
  <2>2. unread \in Nat /\ pending \in Int /\ _stopped \in {"clear", "set"}
    BY <1>1 DEF IInv, TypeOK, ClientOK, SharedOK
  <2>3. /\ pending = One(request.cmd \in Resumes) + One(loop \in Resumes \cup {"wake"})
                        + One(_stopped = "set")
        /\ pending + One(view = "stopped") + unread = One(at \in AtStop)
    BY <1>1, <2>1 DEF IInv, Counted
  <2> QED BY <2>2, <2>3 DEF One
<1> QED BY Balance, <1>1, PTL

\* Breakpoints answered and pauses answered stop the program, whichever order
\* the loop's assignments and the hook's reads take.
THEOREM BreakpointsHonoured == Spec => Honoured
<1>1. ASSUME IInv, PassBy, Patient PROVE due = {}
  <2>1. at = "read" /\ line \notin bp_lines /\ ~_step_mode
    BY <1>1 DEF PassBy, Goes, ShouldBreak
  <2>2. "breakpoint" \notin due /\ "step" \notin due
    BY <1>1, <2>1 DEF IInv, InForce, InHook
  <2> QED BY <1>1, <2>2 DEF IInv, TypeOK, DuesOK
<1>2. IInv /\ [Next]_vars => [PassBy /\ Patient => due = {}]_vars
  BY <1>1
<1> QED BY Balance, <1>2, PTL DEF Spec, Honoured

\* What a client that was told of a stop is shown belongs to that stop.
THEOREM StopsShownTrue == Spec => LooksAtTheStop
<1>1. ASSUME IInv, Look, view = "stopped", Patient
      PROVE  at = "waiting" /\ Shown.line = line /\ Shown.frame.x = hits
  <2>1. unread \in Nat /\ pending \in Int /\ _stopped \in {"clear", "set"}
    BY <1>1 DEF IInv, TypeOK, ClientOK, SharedOK
  <2>2. /\ pending = One(request.cmd \in Resumes) + One(loop \in Resumes \cup {"wake"})
                        + One(_stopped = "set")
        /\ pending + 1 + unread = One(at \in AtStop)
    BY <1>1 DEF IInv, Counted, One
  <2>3. at \in AtStop /\ _stopped = "clear"
    BY <2>1, <2>2 DEF One
  <2>4. at = "waiting"
    BY <1>1, <2>3 DEF IInv, Placed, AtStop
  <2>5. _call_stack = <<line>> /\ _current_frame.x = hits
    BY <1>1, <2>4 DEF IInv, Placed, Stacked, Framed
  <2> QED BY <2>4, <2>5 DEF Shown
<1>2. IInv /\ [Next]_vars =>
        [Look /\ view = "stopped" /\ Patient =>
            at = "waiting" /\ Shown.line = line /\ Shown.frame.x = hits]_vars
  BY <1>1
<1> QED BY Balance, <1>2, PTL DEF Spec, LooksAtTheStop
=============================================================================
