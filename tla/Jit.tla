-------------------------------- MODULE Jit ---------------------------------
(* The tiered execution of loops and functions: the wrapper that            *)
(* runtime/compiler_runtime.py emits around each of them, the specification *)
(* and type inference of runtime/jit_native.py, the kernels it specialises  *)
(* by the types seen at entry and keeps for the life of the process, and    *)
(* the loops that are turned into a sum instead.                            *)
(*                                                                          *)
(* A unit is a loop or a function with its place in the source.  A step     *)
(* runs one unit of the process from one entry state; whether gcc can       *)
(* build the kernel is decided anew for every signature.                    *)
EXTENDS Lang, SequencesExt

CONSTANTS
    Processes,  \* what a process loads, enters and runs: units [st, line, col],
                \* entry states [env, heap] and a number of runs
    MaxPasses   \* passes of the type inference (8 in the code)

VARIABLES
    process,    \* the units of this process and the runs it has left
    entries,    \* _specialized: (loop id, signature) -> types or Failed
    last        \* the last run: unit, entry state, how it ran, outcome

vars == <<process, entries, last>>

-----------------------------------------------------------------------------
(* The specification of a unit: what it reads, writes and indexes.          *)
Kids(st) ==
    CASE st.k = "if" -> [j \in DOMAIN st.arms |-> st.arms[j].body] \o <<st.els>>
      [] st.k \in {"for", "for_list", "while", "fn"} -> <<st.body>>
      [] OTHER -> <<>>

\* The expressions of a statement that _walk_vars visits: of an if, the first
\* condition only.
Exprs(st) ==
    CASE st.k = "assign" -> <<st.e>>
      [] st.k = "setindex" -> <<st.i, st.e>>
      [] st.k = "return" -> <<st.e>>
      [] st.k = "if" -> <<st.arms[1].c>>
      [] st.k = "for" -> st.args
      [] st.k = "while" -> <<st.c>>
      [] OTHER -> <<>>

\* A statement and all those below it.
RECURSIVE Below(_), Names(_), Lists(_), Indexed(_)
Below(st) ==
    {st} \cup UNION {UNION {Below(Kids(st)[j][m]) : m \in DOMAIN Kids(st)[j]} :
                        j \in DOMAIN Kids(st)}

Parts(e) ==
    CASE e.k = "un" -> {e.e}
      [] e.k = "bin" -> {e.l, e.r}
      [] e.k = "index" -> {e.i}
      [] e.k = "call" -> {e.args[j] : j \in DOMAIN e.args}
      [] OTHER -> {}
Names(e) == IF e.k = "name" THEN {e.id} ELSE UNION {Names(p) : p \in Parts(e)}
Lists(e) == (IF e.k \in {"index", "len"} THEN {e.base} ELSE {})
                \cup UNION {Lists(p) : p \in Parts(e)}
Indexed(e) == (IF e.k = "index" THEN {e.base} ELSE {})
                \cup UNION {Indexed(p) : p \in Parts(e)}

NothingUsed == [reads |-> {}, writes |-> {}, lists |-> {}, lwrites |-> {}]

\* _walk_vars, which skips the conditions of elif clauses: a name assigned earlier in the same body is not read from
\* outside; what a branch or an inner loop assigns is known in it only.
RECURSIVE Walk(_, _, _), WalkAll(_, _, _)
Walk(st, declared, use) ==
    LET es == {Exprs(st)[j] : j \in DOMAIN Exprs(st)}
        here == [use EXCEPT
            !.reads = @ \cup (UNION {Names(e) : e \in es} \ declared),
            !.lists = @ \cup UNION {Lists(e) : e \in es}
                        \cup (IF st.k = "setindex" THEN {st.t}
                              ELSE IF st.k = "for_list" THEN {st.list} ELSE {}),
            !.lwrites = @ \cup (IF st.k = "setindex" THEN {st.t} ELSE {}),
            !.writes = @ \cup (IF st.k = "assign" THEN {st.t}
                               ELSE IF st.k \in {"for", "for_list"} THEN {st.var} ELSE {})]
        inner == IF st.k \in {"for", "for_list"} THEN declared \cup {st.var} ELSE declared
        over[n \in 0..Len(Kids(st))] ==
            IF n = 0 THEN here ELSE WalkAll(Kids(st)[n], inner, over[n - 1]) IN
    over[Len(Kids(st))]
WalkAll(body, declared, use) ==
    IF body = <<>> THEN use
    ELSE LET st == Head(body) IN
         WalkAll(Tail(body),
                 IF st.k = "assign" THEN declared \cup {st.t} ELSE declared,
                 Walk(st, declared, use))

RECURSIVE Supported(_), Returns(_)
Supported(st) == st.k # "expr" /\ \A j \in DOMAIN Kids(st) :
                    \A m \in DOMAIN Kids(st)[j] : Supported(Kids(st)[j][m])
Returns(st) == st.k = "return" \/ \E j \in DOMAIN Kids(st) :
                    \E m \in DOMAIN Kids(st)[j] : Returns(Kids(st)[j][m])

Params(st) == IF st.k = "fn" THEN {st.params[j] : j \in DOMAIN st.params} ELSE {}

\* _finish_spec, with the parameters build_spec_fn adds to the names read.
Used(st) ==
    LET u == Walk(st, Params(st), NothingUsed) IN
    [u EXCEPT !.reads = (@ \ u.lists) \cup (Params(st) \ u.lists)]

HasSpec(st) ==
    LET u == Walk(st, Params(st), NothingUsed) IN
    /\ Supported(st)
    /\ st.k # "fn" => ~Returns(st)
    /\ u.lists \cap (u.reads \cup u.writes) = {}

\* Every expression that becomes C, the conditions of elif clauses included.
Emitted(st) ==
    UNION {{Exprs(s)[j] : j \in DOMAIN Exprs(s)}
           \cup (IF s.k = "if" THEN {s.arms[j].c : j \in DOMAIN s.arms} ELSE {}) :
                s \in Below(st)}

\* A name without a type or an index into a list that is not handed over: a
\* KeyError while the C code is written.
Unknown(st) ==
    LET u == Used(st) IN
    \E e \in Emitted(st) : \/ ~(Names(e) \subseteq u.reads \cup u.writes)
                           \/ ~(Indexed(e) \subseteq u.lists)

\* gcc refuses the length of a list that the kernel is not given.
Compiles(st) == UNION {Lists(e) : e \in Emitted(st)} \subseteq Used(st).lists

-----------------------------------------------------------------------------
(* Types: "i" or "d" for every variable of the kernel.                      *)
RECURSIVE TypeOf(_, _, _)
TypeOf(e, ty, lty) ==
    CASE e.k = "num" -> IF e.v.t = "d" THEN "d" ELSE "i"
      [] e.k = "name" -> IF e.id \in DOMAIN ty THEN ty[e.id] ELSE "i"
      [] e.k = "index" -> lty[e.base]
      [] e.k = "len" -> "i"
      [] e.k = "un" -> IF e.op = "not" THEN "i" ELSE TypeOf(e.e, ty, lty)
      [] e.k = "call" -> IF \E j \in DOMAIN e.args : TypeOf(e.args[j], ty, lty) = "d"
                         THEN "d" ELSE "i"
      [] e.k = "bin" -> CASE e.op = "/" -> "d"
                          [] e.op \in {"+", "-", "*", "//", "%"} ->
                                IF "d" \in {TypeOf(e.l, ty, lty), TypeOf(e.r, ty, lty)}
                                THEN "d" ELSE "i"
                          [] OTHER -> "i"

\* One statement of a pass: an integer variable that is assigned a float
\* becomes a float, in the statement and in everything below it.
RECURSIVE Retyped(_, _, _)
Retyped(st, ty, lty) ==
    IF st.k = "assign"
    THEN IF TypeOf(st.e, ty, lty) = "d" THEN [ty EXCEPT ![st.t] = "d"] ELSE ty
    ELSE LET body == FlattenSeq(Kids(st))
             over[n \in 0..Len(body)] ==
                IF n = 0 THEN ty ELSE Retyped(body[n], over[n - 1], lty) IN
         over[Len(body)]

\* A pass stops at the first statement that changes a type.
RECURSIVE Pass(_, _, _), Passes(_, _, _, _)
Pass(body, ty, lty) ==
    IF body = <<>> THEN ty
    ELSE LET ty1 == Retyped(Head(body), ty, lty) IN
         IF ty1 # ty THEN ty1 ELSE Pass(Tail(body), ty, lty)
Passes(n, body, ty, lty) ==
    LET ty1 == Pass(body, ty, lty) IN
    IF n = 0 \/ ty1 = ty THEN ty ELSE Passes(n - 1, body, ty1, lty)

LoopVar(st) == IF st.k \in {"for", "for_list"} THEN {st.var} ELSE {}

\* Mutant: one pass too few.
InferTypesOneShort(st, sig) ==
    LET u == Used(st)
        ty0 == [x \in u.reads \cup u.writes \cup LoopVar(st) |->
                    IF x \in u.reads THEN sig[x] ELSE "i"] IN
    Passes(MaxPasses - 1, st.body, ty0, [l \in u.lists |-> sig[l]])

\* _infer_types: the signature types what is read; what is only written
\* starts as an integer.
InferTypes(st, sig) ==
    LET u == Used(st)
        ty0 == [x \in u.reads \cup u.writes \cup LoopVar(st) |->
                    IF x \in u.reads THEN sig[x] ELSE "i"] IN
    Passes(MaxPasses, st.body, ty0, [l \in u.lists |-> sig[l]])

-----------------------------------------------------------------------------
(* Running a unit.                                                          *)
Failed == [ok |-> FALSE, ty |-> <<>>]
Built(ty) == [ok |-> TRUE, ty |-> ty]

\* A function's names are its own: what it assigns is local from the start.
Scope(st, env) ==
    IF st.k # "fn" THEN env
    ELSE [x \in (DOMAIN env \ Used(st).writes) \cup (Params(st) \cap DOMAIN env) |-> env[x]]
Body(st) == IF st.k = "fn" THEN st.body ELSE <<st>>

Python(st, e) == Interpret(Body(st), Scope(st, e.env), e.heap)

\* The names the wrapper hands over: a for loop hands over no list.
Handed(st) == IF st.k \in {"for", "for_list"} THEN Used(st).reads
              ELSE Used(st).reads \cup Used(st).lists
Reaches(st, e) == Handed(st) \subseteq DOMAIN Scope(st, e.env)

\* _signature: integers that fit and floats; non-empty lists of one of the
\* two; no list that is written under two names.
ScalarType(v) == IF v.t = "i" /\ Magnitude(v.h) <= 2 * MaxInt THEN "i"
                 ELSE IF v.t = "d" THEN "d" ELSE "none"
ListType(items) ==
    IF items = <<>> THEN "none"
    ELSE IF \E t \in {"i", "d"} : \A j \in DOMAIN items : ScalarType(items[j]) = t
         THEN ScalarType(items[1]) ELSE "none"

\* Mutant: two names for one list go unnoticed.
AliasedNever(st, e) == FALSE

Aliased(st, e) ==
    LET u == Used(st) IN
    \E l1, l2 \in u.lists :
        /\ l1 # l2
        /\ e.env[l1] = e.env[l2]
        /\ {l1, l2} \cap u.lwrites # {}

Signature(st, e) ==
    [x \in Used(st).reads \cup Used(st).lists |->
        IF x \notin Handed(st) THEN "none"
        ELSE IF x \notin Used(st).lists THEN ScalarType(e.env[x])
        ELSE IF e.env[x].t # "l" THEN "none" ELSE ListType(e.heap[e.env[x].h])]

Signed(st, e) ==
    /\ HasSpec(st)
    /\ Reaches(st, e)
    /\ "none" \notin Range(Signature(st, e))
    /\ ~Aliased(st, e)

LoopId(u) == IF u.st.k = "fn" THEN <<u.st.name, u.line>> ELSE <<u.st.k, u.line, u.col>>
Key(u, e) == <<LoopId(u), Signature(u.st, e)>>

\* The kernel: variables loaded by type (0 for those not handed over), lists
\* copied, one buffer for each name.
KernelStart(st, ty, e) ==
    LET u == Used(st) IN
    Start([x \in DOMAIN ty |-> Cast(ty[x], IF x \in u.reads THEN e.env[x] ELSE I(0))]
            @@ [l \in u.lists |-> Value("l", l)],
          [l \in u.lists |-> e.heap[e.env[l].h]])
Kernel(st, ty, e) == Exec(TRUE, ty, Body(st), KernelStart(st, ty, e))
Succeeds(k) == k.sig \in {"go", "return"}

\* What the caller copies back when the kernel returned 0.
Ran(st, k) == LoopVar(st) \subseteq k.asg
Results(st, k) ==
    {x \in Used(st).writes \cup LoopVar(st) : x \in LoopVar(st) => Ran(st, k)}
CopiedBack(st, k, e) ==
    LET lwrites == Used(st).lwrites IN
    [k EXCEPT
        !.env = IF st.k = "fn" THEN e.env
                ELSE [x \in Results(st, k) |-> k.env[x]] @@ e.env,
        !.heap = [r \in DOMAIN e.heap |->
                    IF \E l \in lwrites : e.env[l].h = r
                    THEN k.heap[CHOOSE l \in lwrites : e.env[l].h = r]
                    ELSE e.heap[r]]]

\* What one run leaves, given the entry of its signature: a kernel that cannot
\* be built or that bails out has changed nothing, and Python runs the unit.
Left(how, u, e, s) == [unit |-> u, entry |-> e, how |-> how, s |-> s]
Outcome(u, e, entry) ==
    LET k == Kernel(u.st, entry.ty, e) IN
    IF entry.ok /\ Succeeds(k)
    THEN Left("native", u, e, CopiedBack(u.st, k, e))
    ELSE Left("interpreted", u, e, Python(u.st, e))

-----------------------------------------------------------------------------
(* A for loop whose only statement is x = x + e (or x * e) is compiled to   *)
(* x += sum(e for i in ...), before the native tier is considered.          *)

\* Mutant: any first name will do.
SummableAny(st) ==
    /\ st.k \in {"for", "for_list"}
    /\ Len(st.body) = 1
    /\ LET one == st.body[1] IN
       /\ one.k = "assign"
       /\ one.e.k = "bin" /\ one.e.op \in {"+", "*"}
       /\ one.t # st.var

Summable(st) ==
    /\ st.k \in {"for", "for_list"}
    /\ Len(st.body) = 1
    /\ LET one == st.body[1] IN
       /\ one.k = "assign"
       /\ one.e.k = "bin" /\ one.e.op \in {"+", "*"}
       /\ one.e.l.k = "name" /\ one.e.l.id = one.t
       /\ one.t # st.var

Acc == "acc"
Summed(st, e) ==
    LET one == st.body[1]
        op == one.e.op
        fold == Interpret(
            <<[st EXCEPT !.body = <<Assign(Acc, Bin(op, Name(Acc), one.e.r))>>]>>,
            (Acc :> (IF op = "+" THEN I(0) ELSE I(1))) @@ e.env, e.heap) IN
    IF fold.sig = "raise" \/ one.t \notin DOMAIN e.env
    THEN [Start(e.env, e.heap) EXCEPT !.sig = "raise"]
    ELSE Bind(FALSE, <<>>, one.t, Arith(FALSE, op, e.env[one.t], fold.env[Acc]),
              Start(e.env, e.heap))

-----------------------------------------------------------------------------
Init ==
    /\ process \in Processes
    /\ entries = <<>>
    /\ last = [unit |-> <<>>, entry |-> <<>>, how |-> "none", s |-> Start(<<>>, <<>>)]

Takes(u) ==
    /\ process.runs > 0
    /\ u \in process.units
    /\ process' = [process EXCEPT !.runs = @ - 1]

RunSummed(u, e) ==
    /\ Takes(u)
    /\ Summable(u.st)
    /\ last' = Left("summed", u, e, Summed(u.st, e))
    /\ UNCHANGED entries

\* No specification, a name not bound yet, or types the tier does not take.
RunInterpreted(u, e) ==
    /\ Takes(u)
    /\ ~Summable(u.st)
    /\ ~Signed(u.st, e)
    /\ last' = Left("interpreted", u, e, Python(u.st, e))
    /\ UNCHANGED entries

\* The kernel cannot be written: the KeyError leaves jit_run and the wrapper,
\* the unit does not run, and nothing is remembered.
RunUnknown(u, e) ==
    /\ Takes(u)
    /\ ~Summable(u.st)
    /\ Signed(u.st, e)
    /\ Key(u, e) \notin DOMAIN entries
    /\ Unknown(u.st)
    /\ last' = Left("raised", u, e, [Start(e.env, e.heap) EXCEPT !.sig = "raise"])
    /\ UNCHANGED entries

\* The first run with a signature builds the kernel; a failure (C code that
\* gcc refuses, no gcc, no runtime library, a timeout) is remembered as well.
RunFirst(u, e) ==
    LET key == Key(u, e) IN
    /\ Takes(u)
    /\ ~Summable(u.st)
    /\ Signed(u.st, e)
    /\ key \notin DOMAIN entries
    /\ ~Unknown(u.st)
    /\ \E built \in {FALSE, Compiles(u.st)} :
         LET entry == IF built THEN Built(InferTypes(u.st, key[2])) ELSE Failed IN
            /\ entries' = (key :> entry) @@ entries
            /\ last' = Outcome(u, e, entry)

RunAgain(u, e) ==
    LET key == Key(u, e) IN
    /\ Takes(u)
    /\ ~Summable(u.st)
    /\ Signed(u.st, e)
    /\ key \in DOMAIN entries
    /\ last' = Outcome(u, e, entries[key])
    /\ UNCHANGED entries

Done ==
    /\ process.runs = 0
    /\ UNCHANGED vars

Next ==
    \/ \E u \in process.units, e \in process.entries :
            \/ RunSummed(u, e)
            \/ RunInterpreted(u, e)
            \/ RunUnknown(u, e)
            \/ RunFirst(u, e)
            \/ RunAgain(u, e)
    \/ Done

Spec == Init /\ [][Next]_vars
=============================================================================
