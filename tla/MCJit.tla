------------------------------- MODULE MCJit --------------------------------
(* Families of loops and functions for TLC, and what is checked of the      *)
(* tiers: a native run against the Python it stands for, a sum against its  *)
(* loop, an optimised program against the program.                          *)
EXTENDS Jit

Opt == INSTANCE Optimizer

-----------------------------------------------------------------------------
x == Name("x")
y == Name("y")
i == Name("i")
n(k) == Num(I(k))
half == Num(D(1))
Bump(z, e) == Assign(z, Bin("+", Name(z), e))

\* Statements of a loop body over x, y and the loop variable i: arithmetic
\* that overflows or divides by zero, variables that turn into floats,
\* temporaries, branches that leave the round or the loop.
Statements == {
    Bump("x", i),
    Assign("x", Bin("//", x, y)),
    Assign("y", Bin("-", y, half)),
    Assign("x", Bin("*", x, n(2))),
    Assign("t", Bin("+", x, y)),
    Assign("x", Name("t")),
    If(<<Arm(Bin(">", x, n(2)), <<Break>>)>>, <<>>),
    If(<<Arm(Bin("and", Bin("==", i, n(1)), Un("not", y)), <<Continue>>)>>, <<>>),
    If(<<Arm(Bin("<", y, n(1)), <<Assign("x", n(0))>>),
         Arm(Bin("or", x, y), <<Assign("y", Call("min", <<x, i>>))>>)>>,
       <<Assign("t", Un("-", x))>>),
    Assign("y", Bin("%", x, Bin("-", i, n(2)))),
    If(<<Arm(n(0), <<Assign("x", n(7))>>), Arm(Num(B(TRUE)), <<Bump("y", x)>>)>>,
       <<Assign("y", Bin("/", n(3), n(0)))>>) }

\* A name that the condition of an elif clause may be the only one to read, a
\* statement that writes it, and an operand that is chosen.
Oddities == {
    If(<<Arm(Bin("==", i, n(1)), <<Bump("x", n(2))>>),
         Arm(Bin("<", y, n(2)), <<Assign("x", n(5))>>)>>, <<>>),
    Assign("y", n(1)),
    Assign("x", Bin("or", Name("t"), i)) }

Bodies == {<<s1, s2>> : s1, s2 \in Statements \cup Oddities}
\* Three statements, so that a temporary carries a float from one to the next.
Bodies3 == {<<s1, s2, s3>> : s1, s2, s3 \in Statements}

\* Temporaries that turn into floats one pass after the other.
Temps == <<"t1", "t2", "t3", "t4", "t5", "t6", "t7", "t8", "t9", "t10">>
Chain(k) ==
    [j \in 1..k |-> Assign(Temps[j], IF j = 1 THEN Bin("+", i, half) ELSE Name(Temps[j - 1]))]

CountTo(k, body) == <<Assign("i", Bin("+", i, n(1)))>> \o body
ForUnit(body) == For("i", <<n(3)>>, body)
StepUnit(body) == For("i", <<x, Un("-", n(2)), Un("-", n(2))>>, body)
WhileUnit(body) == While(Bin("<", i, n(3)), CountTo(3, body))
FnUnit(body) == Fn("f", <<"x", "y">>,
    <<Assign("i", n(0)), While(Bin("<", i, n(2)), CountTo(2, body)), Return(Bin("+", x, y)),
      Assign("y", n(9))>>)

\* Lists: read and written by index from both ends, at places that may be
\* floats, under two names, named by an elif clause alone, summed.
a(e) == Index("a", e)
TwoNames == Fn("f", <<"a", "b">>, <<SetIndex("a", n(0), Bin("+", Index("b", n(1)), n(1))),
                                    Return(Index("b", Un("-", n(2))))>>)
ListUnits == {
    TwoNames,
    Fn("f", <<"a">>, <<Assign("s", n(0)), ForList("e", "a", <<Bump("s", Name("e"))>>),
                       Return(Name("s"))>>),
    Fn("f", <<"a", "x">>, <<Return(a(x))>>),
    Fn("f", <<"a", "x">>, <<SetIndex("a", n(1), x), Return(a(n(1)))>>),
    Fn("f", <<"a", "x", "y">>, <<If(<<Arm(Bin("<", x, y), <<Return(n(1))>>),
                                     Arm(Bin("<", y, a(n(0))), <<Return(n(2))>>)>>, <<>>)>>),
    Fn("f", <<"x">>, <<If(<<Arm(Bin("<", x, n(2)), <<Return(n(1))>>),
                            Arm(Bin("<", x, a(n(0))), <<Return(n(2))>>)>>, <<>>)>>),
    While(Bin("<", i, n(2)),
          <<Bump("i", n(1)), If(<<Arm(x, <<Bump("x", n(1))>>),
                                  Arm(Bin(">", LenOf("b"), i), <<Assign("y", n(7))>>)>>, <<>>)>>),
    Fn("f", <<"a", "x">>, <<If(<<Arm(Bin("<", x, LenOf("a")), <<SetIndex("a", x, n(2))>>)>>, <<>>),
                            Return(Call("abs", <<a(Un("-", n(1)))>>))>>),
    While(Bin("<", i, LenOf("a")),
          <<SetIndex("a", i, Bin("*", a(i), n(2))), Bump("i", n(1))>>),
    ForList("e", "a", <<Bump("x", Name("e"))>>),
    ForList("e", "a", <<Assign("y", Bin("+", x, Name("e")))>>),
    ForList("e", "a", <<Assign("x", Bin("*", x, Name("e")))>>),
    ForList("e", "a", <<Bump("x", Name("e")), Assign("y", Name("e"))>>),
    For("i", <<x>>, <<Bump("y", Bin("*", i, i))>>),
    For("i", <<n(3)>>, <<Bump("x", Bin("*", x, i))>>),
    For("i", <<n(2)>>, <<ExprStmt(i), Bump("x", i)>>) }

-----------------------------------------------------------------------------
\* A function of the reference's tour of collections.
is_pos == Fn("is_pos", <<"x">>, <<Return(Bin(">", x, n(0)))>>)

\* Entry states: whole, negative and zero values, floats, a value that does
\* not fit, a truth value, a name that is not bound; lists of integers, of
\* floats, empty, mixed, and one list under two names.
With(vx, vy, vt) == [x |-> vx, y |-> vy, t |-> vt, i |-> I(0)]
State(env, l1, l2) ==
    [env |-> env @@ [a |-> Value("l", 1), b |-> Value("l", 2)], heap |-> <<l1, l2>>]
Scalar(env) == State(env, <<I(3), I(-2)>>, <<I(1), I(2), I(0)>>)
Plain == Scalar(With(I(3), I(1), I(2)))
Floating == Scalar(With(D(1), I(2), D(3)))
WholeStates == {Plain, Scalar(With(I(-1), I(2), I(0))), Scalar(With(I(2), I(0), I(1)))}
Large == Scalar(With(I(20), I(1), I(0)))
OddStates == {Large, Scalar(With(B(TRUE), I(1), I(1))),
              Scalar([z \in {"x", "y", "i"} |-> IF z = "y" THEN D(3) ELSE I(0)])}
Zeroed == With(I(0), I(0), I(0))
FloatLists == State(Zeroed, <<D(1), D(3)>>, <<D(2), D(5)>>)
ListStates == {
    [Scalar(With(I(1), I(0), I(0))) EXCEPT !.env.b = Value("l", 1)],
    State(Zeroed, <<>>, <<I(3), I(-2)>>),
    State(With(I(1), I(0), I(0)), <<D(1), D(3), I(1)>>, <<I(3), I(-2)>>) }

At(st, line) == [st |-> st, line |-> line, col |-> 1]
Alone(st, states) == [units |-> {At(st, 1)}, entries |-> states, runs |-> 1]
MCProcesses ==
    LET scalars == WholeStates \cup OddStates \cup {Floating}
        lists == scalars \cup ListStates \cup {FloatLists} IN
    UNION {{Alone(ForUnit(body), scalars), Alone(WhileUnit(body), scalars),
            Alone(FnUnit(body), scalars), Alone(StepUnit(body), scalars)} : body \in Bodies}
    \cup {Alone(ForUnit(body), {Plain, Floating}) : body \in Bodies3}
    \cup {Alone(st, lists) : st \in ListUnits}
    \cup {Alone(ForUnit(Chain(k)), {Plain, Floating}) : k \in {8, 9, 10}}
    \cup {[units |-> {At(ForUnit(<<Bump("x", i), Assign("x", Bin("//", x, y))>>), 1),
                      At(ForUnit(<<Bump("x", i), Bump("x", i)>>), 2), At(TwoNames, 3)},
           entries |-> {Plain, Floating, FloatLists}, runs |-> 3]}

-----------------------------------------------------------------------------
Same(v, w) == v.h = w.h /\ (v.t \in {"n", "l"} \/ w.t \in {"n", "l"} => v.t = w.t)
SameHeap(h1, h2) ==
    \A r \in DOMAIN h1 : /\ Len(h1[r]) = Len(h2[r])
                         /\ \A j \in DOMAIN h1[r] : Same(h1[r][j], h2[r][j])

St == last.unit.st
Entry == last.entry
Py == Python(St, Entry)
\* Names that the unit may write, and in this run does not: the kernel starts
\* those it was not handed at 0.
Unwritten(py) == Used(St).writes \ (py.asg \cup Used(St).reads)

Agrees(py) ==
    /\ Succeeds(py)
    /\ Same(last.s.ret, py.ret)
    /\ SameHeap(last.s.heap, py.heap)
    /\ St.k # "fn" => \A z \in DOMAIN py.env \ Unwritten(py) : Same(last.s.env[z], py.env[z])

(* The units whose kernel is known to differ.  One: a name is needed from    *)
(* outside by the condition of an elif clause only, and is not handed over.  *)
RECURSIVE Nested(_)
Nested(st) ==
    LET all(body) == [j \in DOMAIN body |-> Nested(body[j])] IN
    CASE st.k = "if" ->
            If(<<Arm(st.arms[1].c, all(st.arms[1].body))>>,
               IF Len(st.arms) = 1 THEN all(st.els)
               ELSE <<Nested([st EXCEPT !.arms = Tail(@)])>>)
      [] Kids(st) # <<>> /\ st.k # "if" -> [st EXCEPT !.body = all(@)]
      [] OTHER -> st
Overlooks(st) ==
    LET u == Walk(Nested(st), Params(st), NothingUsed) IN
    ~(u.reads \cup u.lists \subseteq Used(st).reads \cup Used(st).lists)

RECURSIVE Within(_)
Within(e) == {e} \cup UNION {Within(p) : p \in Parts(e)}

\* Two: a float where the kernel has an integer: in an assignment the passes
\* of the inference did not reach, a loop over a list, an element of a list,
\* a place in a list, a bound of a range.
Narrows(st, ty, lty) ==
    LET float(e) == TypeOf(e, ty, lty) = "d" IN
    \/ \E s \in Below(st) :
            \/ s.k = "assign" /\ ty[s.t] = "i" /\ float(s.e)
            \/ s.k = "for_list" /\ ty[s.var] = "i" /\ lty[s.list] = "d"
            \/ s.k = "setindex" /\ float(s.i)
            \/ s.k = "setindex" /\ lty[s.t] = "i" /\ float(s.e)
            \/ s.k = "for" /\ \E j \in DOMAIN s.args : float(s.args[j])
    \/ \E e \in UNION {Within(c) : c \in Emitted(st)} : e.k = "index" /\ float(e.i)

\* Three: and, or give one of their operands in Python, 1 or 0 in C, which is
\* the same as long as it is only asked whether it is true.
RECURSIVE Chooses(_, _)
Chooses(e, asked) ==
    LET logical == e.k = "bin" /\ e.op \in {"and", "or"}
        not == e.k = "un" /\ e.op = "not" IN
    \/ logical /\ ~asked
    \/ \E p \in Parts(e) : Chooses(p, logical \/ not)
Conditions(st) ==
    UNION {IF s.k = "if" THEN {s.arms[j].c : j \in DOMAIN s.arms}
           ELSE IF s.k = "while" THEN {s.c} ELSE {} : s \in Below(st)}

Departs(st, key) ==
    \/ Overlooks(st)
    \/ Narrows(st, entries[key].ty, [l \in Used(st).lists |-> key[2][l]])
    \/ \E c \in Emitted(st) : Chooses(c, c \in Conditions(st))

\* A unit whose kernel runs, or cannot be written, leaves what the Python it
\* replaces leaves: that ends normally as well, with the same numbers in every
\* variable that Python assigned or the unit reads, the same lists and the
\* same returned number.  What is excepted is named above.
NativeAgrees ==
    last.how \in {"native", "raised"} => Agrees(Py) \/ Departs(St, Key(last.unit, Entry))

\* The variables that some chain of assignments makes a float.
RECURSIVE Floats(_, _, _)
Floats(st, ty, lty) ==
    LET more == {s.t : s \in {a1 \in Below(st) : /\ a1.k = "assign"
                                               /\ ty[a1.t] = "i"
                                               /\ TypeOf(a1.e, ty, lty) = "d"}} IN
    IF more = {} THEN {z \in DOMAIN ty : ty[z] = "d"}
    ELSE Floats(st, [z \in DOMAIN ty |-> IF z \in more THEN "d" ELSE ty[z]], lty)

\* No assignment in a kernel truncates: a variable that may be assigned a float
\* is a float when the passes end, unless more variables turn into floats than
\* there are passes; and nothing else is made a float.
TypesSettled ==
    \A key \in DOMAIN entries : entries[key].ok =>
        \E u \in process.units :
            LET ty == entries[key].ty
                reads == Used(u.st).reads
                lty == [l \in Used(u.st).lists |-> key[2][l]]
                ty0 == [z \in DOMAIN ty |-> IF z \in reads THEN key[2][z] ELSE "i"]
                due == Floats(u.st, ty0, lty)
                turned == {z \in due : ty0[z] = "i"}
                doubles == {z \in DOMAIN ty : ty[z] = "d"} IN
            /\ key[1] = LoopId(u)
            /\ doubles \subseteq due
            /\ doubles = due \/ Cardinality(turned) > MaxPasses

\* The right operand of the accumulation names the accumulator.
Carried(st) == st.body[1].t \in Names(st.body[1].e.r)

SameSum(py) ==
    /\ (last.s.sig = "raise") = (py.sig = "raise")
    /\ Succeeds(py) => Same(last.s.env[St.body[1].t], py.env[St.body[1].t])

\* A loop compiled to a sum or a product adds up to the same number, and
\* fails when the loop fails, as long as what is added does not depend on the
\* sum so far (x = x + x * i: the code adds every term with the first x).
SumsAgree ==
    last.how = "summed" /\ ~Carried(St) => SameSum(Py)

\* The optimised program and the program run alike, errors included.
OptimizerAgrees ==
    last.how # "none" =>
        LET run(body) == Interpret(body, Scope(St, Entry.env), Entry.heap) IN
        [run(Body(St)) EXCEPT !.asg = {}] = [run(Opt!optimize(Body(St))) EXCEPT !.asg = {}]

\* A function gives a truth value where the reference shows one.
ReturnsSameKind ==
    last.how = "native" => last.s.ret.t = Py.ret.t
DocProcesses ==
    {[units |-> {At(is_pos, 1)}, entries |-> WholeStates, runs |-> 2]}
=============================================================================
