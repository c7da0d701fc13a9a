------------------------------ MODULE Debugger ------------------------------
(* triad debug --dap (runtime/debugger.py): the loop that answers the       *)
(* client's requests, and the thread that runs the program and calls a hook *)
(* before every line.  The two share the breakpoints, the step mode, the    *)
(* frame, the call stack and one Event, on which a stopped program waits.   *)
(*                                                                          *)
(* The client is part of the model: it may send any request at any time,    *)
(* with one waiting to be read.  next stands for stepIn as well, continue   *)
(* for stepOut, look for stackTrace, variables and evaluate.                *)
EXTENDS Integers, Sequences

CONSTANTS
    Lines,      \* the lines that carry a hook
    MaxHits     \* hooks that one run of the program calls, at most

ASSUME LinesAssumption == Lines \subseteq Nat \ {0}
ASSUME HitsAssumption == MaxHits \in Nat

VARIABLES
    phase,          \* new, initialized, launched
    loop,           \* what the request loop is about to do
    request,        \* the request waiting for the loop
    _breakpoints, _step_mode, _stopped, _current_frame, _call_stack,
    at,             \* where the program's thread is in the hook
    line, bp_lines, hits,
    unread,         \* stopped events the client has not read yet
    view            \* stopped once it has read one, running once it resumed

\* What the client can hold the debugger to; no action's guard reads these,
\* and they are given up with the first hasty resume.
VARIABLES
    manner,         \* hasty once it resumed without knowing of a stop
    pending,        \* resumes sent for a stop, less the stops left
    acked,          \* lines that are breakpoints by an answer given
    stepping,       \* the last answered pause, or the resume since, asks to step
    due             \* reasons known when the hook began why it must stop

shared == <<_breakpoints, _step_mode, _stopped, _current_frame, _call_stack>>
thread == <<at, line, bp_lines, hits>>
client == <<unread, view>>
counts == <<manner, pending>>
dues == <<acked, stepping, due>>
vars == <<phase, loop, request, shared, thread, client, counts, dues>>

Patient == manner = "patient"
NoRequest == [cmd |-> "none", lines |-> {}]
Resumes == {"continue", "next"}
Commands == Resumes \cup {"initialize", "launch", "pause", "look", "setVariable", "disconnect"}
Requests == [cmd : Commands, lines : {{}}] \cup [cmd : {"setBreakpoints"}, lines : SUBSET Lines]

\* A frame is a copy of the locals, here one variable, which a client may
\* have written over; Absent stands for no frame.
Frame(x) == [x |-> x, edited |-> FALSE]
Edited(frame) == [x |-> frame.x, edited |-> TRUE]
Absent == Frame(0)
Frames == [x : 0..MaxHits, edited : BOOLEAN]
Stacks == {<<>>, <<line>>}

LoopOK ==
    /\ phase \in {"new", "initialized", "launched"}
    /\ loop \in {"reading", "stored", "wake", "over"} \cup Resumes
    /\ request \in Requests \cup {NoRequest}
SharedOK ==
    /\ _breakpoints \in SUBSET Lines
    /\ _step_mode \in BOOLEAN /\ _stopped \in {"clear", "set"}
    /\ _current_frame \in Frames
    /\ _call_stack \in Stacks
ThreadOK ==
    /\ at \in {"unborn", "running", "hook", "read", "framed", "pushed", "waiting",
               "woken", "cleared", "ended"}
    /\ line \in Lines \cup {0}
    /\ bp_lines \in SUBSET Lines
    /\ hits \in 0..MaxHits
ClientOK ==
    /\ unread \in Nat /\ view \in {"running", "stopped"}
    /\ manner \in {"patient", "hasty"} /\ pending \in Int
DuesOK ==
    /\ acked \in SUBSET Lines /\ stepping \in BOOLEAN
    /\ due \in SUBSET {"breakpoint", "step"}
TypeOK == LoopOK /\ SharedOK /\ ThreadOK /\ ClientOK /\ DuesOK

Init ==
    /\ phase = "new" /\ loop = "reading" /\ request = NoRequest
    /\ _breakpoints = {} /\ _step_mode = FALSE /\ _stopped = "clear"
    /\ _current_frame = Absent /\ _call_stack = <<>>
    /\ at = "unborn" /\ line = 0 /\ bp_lines = {} /\ hits = 0
    /\ unread = 0 /\ view = "running"
    /\ manner = "patient" /\ pending = 0
    /\ acked = {} /\ stepping = FALSE /\ due = {}

-----------------------------------------------------------------------------
(* The client.                                                              *)
\* It launches one program.
Send(r) ==
    /\ loop # "over"
    /\ request = NoRequest
    /\ r.cmd = "launch" => at = "unborn"
    /\ request' = r
    /\ IF r.cmd \in Resumes
       THEN /\ view' = "running"
            /\ IF Patient /\ view = "stopped"
               THEN /\ pending' = pending + 1
                    /\ stepping' = (r.cmd = "next")
                    /\ UNCHANGED <<manner, acked, due>>
               ELSE /\ manner' = "hasty"
                    /\ pending' = 0
                    /\ stepping' = FALSE
                    /\ acked' = {}
                    /\ due' = {}
       ELSE UNCHANGED <<view, counts, dues>>
    /\ UNCHANGED <<phase, loop, shared, thread, unread>>

ReadStopped ==
    /\ loop # "over"
    /\ unread > 0
    /\ unread' = unread - 1
    /\ view' = "stopped"
    /\ UNCHANGED <<phase, loop, request, shared, thread, counts, dues>>

-----------------------------------------------------------------------------
(* run_dap.                                                                 *)
Accepts(cmd) ==
    \/ cmd \in {"initialize", "disconnect", "pause"}
    \/ cmd \in {"launch", "setBreakpoints"} /\ phase # "new"
    \/ phase = "launched"

Reads(cmd) ==
    /\ loop = "reading"
    /\ request.cmd = cmd
    /\ Accepts(cmd)

Answered == request' = NoRequest

Reject ==
    /\ loop = "reading"
    /\ request # NoRequest
    /\ ~Accepts(request.cmd)
    /\ Answered
    /\ UNCHANGED <<phase, loop, shared, thread, client, counts, dues>>

Initialize ==
    /\ Reads("initialize")
    /\ Answered
    /\ phase' = IF phase = "new" THEN "initialized" ELSE phase
    /\ UNCHANGED <<loop, shared, thread, client, counts, dues>>

\* The program runs from here on: nothing waits for configurationDone.
Launch ==
    /\ Reads("launch")
    /\ Answered
    /\ phase' = "launched"
    /\ at' = "running"
    /\ UNCHANGED <<loop, shared, line, bp_lines, hits, client, counts, dues>>

StoreBreakpoints ==
    /\ Reads("setBreakpoints")
    /\ _breakpoints' = request.lines
    /\ loop' = "stored"
    /\ acked' = acked \cap request.lines
    /\ due' = IF line \in request.lines THEN due ELSE due \ {"breakpoint"}
    /\ UNCHANGED <<phase, request, _step_mode, _stopped, _current_frame, _call_stack,
                   thread, client, counts, stepping>>

AnswerBreakpoints ==
    /\ loop = "stored"
    /\ Answered
    /\ loop' = "reading"
    /\ acked' = IF Patient THEN request.lines ELSE {}
    /\ UNCHANGED <<phase, shared, thread, client, counts, stepping, due>>

\* The answer is sent first, so the client may already send its next request.
AnswerResume ==
    \E cmd \in Resumes :
        /\ Reads(cmd)
        /\ Answered
        /\ loop' = cmd
        /\ UNCHANGED <<phase, shared, thread, client, counts, dues>>

\* Mutant: continue forgets to set the Event.
SetModeOnly ==
    /\ loop \in Resumes
    /\ _step_mode' = (loop = "next")
    /\ loop' = IF loop = "next" THEN "wake" ELSE "reading"
    /\ UNCHANGED <<phase, request, _breakpoints, _stopped, _current_frame, _call_stack,
                   thread, client, counts, dues>>

SetMode ==
    /\ loop \in Resumes
    /\ _step_mode' = (loop = "next")
    /\ loop' = "wake"
    /\ UNCHANGED <<phase, request, _breakpoints, _stopped, _current_frame, _call_stack,
                   thread, client, counts, dues>>

Wake ==
    /\ loop = "wake"
    /\ _stopped' = "set"
    /\ loop' = "reading"
    /\ UNCHANGED <<phase, request, _breakpoints, _step_mode, _current_frame, _call_stack,
                   thread, client, counts, dues>>

Pause ==
    /\ Reads("pause")
    /\ Answered
    /\ _step_mode' = TRUE
    /\ stepping' = Patient
    /\ UNCHANGED <<phase, loop, _breakpoints, _stopped, _current_frame, _call_stack,
                   thread, client, counts, acked, due>>

\* The top of the call stack, line 1 when it is empty, and the last frame.
Shown == [line |-> IF _call_stack = <<>> THEN 1 ELSE _call_stack[Len(_call_stack)],
          frame |-> _current_frame]
Look ==
    /\ Reads("look")
    /\ Answered
    /\ UNCHANGED <<phase, loop, shared, thread, client, counts, dues>>

\* The write goes into the copy; the program's own variable keeps its value.
SetVariable ==
    /\ Reads("setVariable")
    /\ Answered
    /\ _current_frame' = IF _current_frame = Absent THEN Absent
                         ELSE Edited(_current_frame)
    /\ UNCHANGED <<phase, loop, _breakpoints, _step_mode, _stopped, _call_stack,
                   thread, client, counts, dues>>

\* The process ends with the loop: the program's thread is a daemon.
Disconnect ==
    /\ Reads("disconnect")
    /\ Answered
    /\ loop' = "over"
    /\ UNCHANGED <<phase, shared, thread, client, counts, dues>>

EndOfInput ==
    /\ loop = "reading"
    /\ request = NoRequest
    /\ loop' = "over"
    /\ UNCHANGED <<phase, request, shared, thread, client, counts, dues>>

DapLoop ==
    \/ Reject \/ Initialize \/ Launch \/ StoreBreakpoints \/ AnswerBreakpoints
    \/ AnswerResume \/ SetMode \/ Wake \/ Pause \/ Look \/ SetVariable \/ Disconnect

-----------------------------------------------------------------------------
(* The program's thread: _bp_hook and _dap_stopped.                         *)
Goes(from, to) ==
    /\ loop # "over"
    /\ at = from
    /\ at' = to

Hook(l) ==
    /\ Goes("running", "hook")
    /\ hits < MaxHits
    /\ line' = l
    /\ hits' = hits + 1
    /\ due' = (IF l \in acked THEN {"breakpoint"} ELSE {})
                \cup (IF stepping THEN {"step"} ELSE {})
    /\ UNCHANGED <<phase, loop, request, shared, bp_lines, client, counts,
                   acked, stepping>>

ReadBreakpoints ==
    /\ Goes("hook", "read")
    /\ bp_lines' = _breakpoints
    /\ UNCHANGED <<phase, loop, request, shared, line, hits, client, counts, dues>>

ShouldBreak == line \in bp_lines \/ _step_mode

Returns ==
    /\ line' = 0
    /\ bp_lines' = {}
    /\ due' = {}
    /\ UNCHANGED <<hits, acked, stepping>>

PassBy ==
    /\ Goes("read", "running")
    /\ ~ShouldBreak
    /\ Returns
    /\ UNCHANGED <<phase, loop, request, shared, client, counts>>

\* Mutant: the first frame is kept.
BreakKeepsFrame ==
    /\ Goes("read", "framed")
    /\ ShouldBreak
    /\ _current_frame' = IF _current_frame = Absent THEN Frame(hits) ELSE _current_frame
    /\ UNCHANGED <<phase, loop, request, _breakpoints, _step_mode, _stopped, _call_stack,
                   line, bp_lines, hits, client, counts, dues>>

Break ==
    /\ Goes("read", "framed")
    /\ ShouldBreak
    /\ _current_frame' = Frame(hits)
    /\ UNCHANGED <<phase, loop, request, _breakpoints, _step_mode, _stopped, _call_stack,
                   line, bp_lines, hits, client, counts, dues>>

Push ==
    /\ Goes("framed", "pushed")
    /\ _call_stack' = Append(_call_stack, line)
    /\ UNCHANGED <<phase, loop, request, _breakpoints, _step_mode, _stopped, _current_frame,
                   line, bp_lines, hits, client, counts, dues>>

Announce ==
    /\ Goes("pushed", "waiting")
    /\ unread' = unread + 1
    /\ UNCHANGED <<phase, loop, request, shared, line, bp_lines, hits, view,
                   counts, dues>>

WaitReturns ==
    /\ Goes("waiting", "woken")
    /\ _stopped = "set"
    /\ UNCHANGED <<phase, loop, request, shared, line, bp_lines, hits, client,
                   counts, dues>>

\* Mutant: the Event stays set.
ClearNothing ==
    /\ Goes("woken", "cleared")
    /\ pending' = IF Patient THEN pending - 1 ELSE 0
    /\ UNCHANGED <<phase, loop, request, shared, line, bp_lines, hits, client, manner, dues>>

\* Mutant: the thread resets the step mode of the stop it leaves.
ClearStepToo ==
    /\ Goes("woken", "cleared")
    /\ _stopped' = "clear"
    /\ _step_mode' = FALSE
    /\ pending' = IF Patient THEN pending - 1 ELSE 0
    /\ UNCHANGED <<phase, loop, request, _breakpoints, _current_frame,
                   _call_stack, line, bp_lines, hits, client, manner, dues>>

Clear ==
    /\ Goes("woken", "cleared")
    /\ _stopped' = "clear"
    /\ pending' = IF Patient THEN pending - 1 ELSE 0
    /\ UNCHANGED <<phase, loop, request, _breakpoints, _step_mode, _current_frame,
                   _call_stack, line, bp_lines, hits, client, manner, dues>>

\* Mutant: the line stays on the call stack.
PopForgets ==
    /\ Goes("cleared", "running")
    /\ Returns
    /\ UNCHANGED <<phase, loop, request, shared, client, counts>>

Pop ==
    /\ Goes("cleared", "running")
    /\ _call_stack' = SubSeq(_call_stack, 1, Len(_call_stack) - 1)
    /\ Returns
    /\ UNCHANGED <<phase, loop, request, _breakpoints, _step_mode, _stopped, _current_frame,
                   client, counts>>

Terminate ==
    /\ Goes("running", "ended")
    /\ UNCHANGED <<phase, loop, request, shared, line, bp_lines, hits, client,
                   counts, dues>>

Program ==
    \/ \E l \in Lines : Hook(l)
    \/ ReadBreakpoints \/ PassBy \/ Break \/ Push \/ Announce
    \/ WaitReturns \/ Clear \/ Pop \/ Terminate

-----------------------------------------------------------------------------
Over == loop = "over" /\ UNCHANGED vars

Next == (\E r \in Requests : Send(r)) \/ ReadStopped \/ DapLoop \/ EndOfInput \/ Program \/ Over

\* Both threads are scheduled, and the user resumes a program that stopped,
\* whatever else the client asks in between.
ResumeStop == view = "stopped" /\ \E r \in Requests : r.cmd \in Resumes /\ Send(r)
Spec ==
    /\ Init /\ [][Next]_vars
    /\ WF_vars(DapLoop) /\ WF_vars(Program) /\ WF_vars(ReadStopped) /\ SF_vars(ResumeStop)

-----------------------------------------------------------------------------
\* A stop lasts until the client resumes it, and takes one resume: none is
\* lost and none is left over for the next stop, as long as the client only
\* resumes stops it has been told of.
OneResumeEach ==
    Patient =>
        /\ pending \in {0, 1}
        /\ at \notin {"waiting", "woken"} => pending = 0 /\ _stopped = "clear"

\* The program passes no line that was answered to be a breakpoint before its
\* hook began, and none after an answered pause or a step.
Honoured == [][PassBy /\ Patient => due = {}]_vars

\* A client that looks at a stop it was told of, and has not resumed, sees the
\* line and the variables of that stop.
LooksAtTheStop ==
    [][Look /\ view = "stopped" /\ Patient =>
            /\ at = "waiting"
            /\ Shown.line = line
            /\ Shown.frame.x = hits]_vars

\* No client can hang the program: it comes to its end or the process does,
\* with resumes that cross, arrive twice or come too early.
ComesToAnEnd == phase = "launched" ~> (at = "ended" \/ loop = "over")
=============================================================================
