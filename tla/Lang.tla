-------------------------------- MODULE Lang --------------------------------
(* The part of TriadLang that the native tier understands: numbers, names,  *)
(* lists, assignments, branches and loops.  A program is a tree of records  *)
(* (frontend/ast_nodes.py), and Eval and Exec give it a meaning twice: with *)
(* nat = FALSE as the Python the compiler emits runs it, with nat = TRUE as *)
(* the C of runtime/jit_native.py runs it.  What the two share is written   *)
(* once, and every use of nat is a place where they differ.                 *)
(*                                                                          *)
(* A number is a count of halves, so that 0.5 exists and truncation is      *)
(* visible; floats are exact.  A machine integer is at most MaxInt.         *)
EXTENDS Integers, Sequences, FiniteSets, TLC

CONSTANTS
    MaxInt,     \* largest machine integer (2^63 - 1 in the code)
    Fuel        \* rounds after which a while loop counts as endless

ASSUME BoundsAssumption == MaxInt \in Nat /\ Fuel \in Nat

-----------------------------------------------------------------------------
(* Values: integers, floats, booleans, references to lists, none, and the   *)
(* exception in flight (in C: the bail-out, which ends the kernel).         *)
Value(t, h) == [t |-> t, h |-> h]
I(n) == Value("i", 2 * n)
D(halves) == Value("d", halves)
B(p) == Value("b", IF p THEN 2 ELSE 0)
None == Value("n", 0)
Raise == Value("x", 0)

Truthy(v) == v.h # 0
Trunc(h) == IF h >= 0 THEN h \div 2 ELSE -((-h) \div 2)
Magnitude(h) == IF h < 0 THEN -h ELSE h

\* Python's floor division, and the C that rebuilds it from a division that
\* truncates (fdiv_i, mod_i).
FloorDiv(a, b) == IF b > 0 THEN a \div b ELSE (-a) \div (-b)
CQuot(a, b) ==
    LET q == Magnitude(a) \div Magnitude(b) IN IF (a < 0) = (b < 0) THEN q ELSE -q
CRem(a, b) == a - b * CQuot(a, b)
Inexact(a, b) == CRem(a, b) # 0 /\ (CRem(a, b) < 0) # (b < 0)
fdiv_i(a, b) == IF Inexact(a, b) THEN CQuot(a, b) - 1 ELSE CQuot(a, b)
mod_i(a, b) == IF Inexact(a, b) THEN CRem(a, b) + b ELSE CRem(a, b)

\* What the C code makes of a result: a truth value is an integer, an integer
\* that does not fit bails out.
Checked(nat, v) ==
    IF ~nat THEN v
    ELSE IF v.t = "b" THEN Value("i", v.h)
    ELSE IF v.t = "i" /\ (v.h > 2 * MaxInt \/ v.h < -2 * (MaxInt + 1)) THEN Raise
    ELSE v

Cast(t, v) ==
    IF t = "d" THEN D(v.h) ELSE I(Trunc(v.h))

Joint(l, r) == IF "d" \in {l.t, r.t} THEN "d" ELSE "i"

Arith(nat, op, l, r) ==
    LET out(h) == Value(Joint(l, r), h)
        ints == nat /\ Joint(l, r) = "i" IN
    CASE op = "+" -> out(l.h + r.h)
      [] op = "-" -> out(l.h - r.h)
      [] op = "*" -> out((l.h * r.h) \div 2)
      [] op = "/" -> IF r.h = 0 THEN Raise ELSE D((2 * l.h) \div r.h)
      [] op = "//" -> IF r.h = 0 THEN Raise
                      ELSE out(2 * (IF ints THEN fdiv_i(l.h, r.h) ELSE FloorDiv(l.h, r.h)))
      [] op = "%" -> IF r.h = 0 THEN Raise
                     ELSE out(IF ints THEN mod_i(l.h, r.h)
                              ELSE l.h - r.h * FloorDiv(l.h, r.h))
      [] op = "==" -> B(l.h = r.h)
      [] op = "!=" -> B(l.h # r.h)
      [] op = "<" -> B(l.h < r.h)
      [] op = "<=" -> B(l.h <= r.h)
      [] op = ">" -> B(l.h > r.h)
      [] op = ">=" -> B(l.h >= r.h)

-----------------------------------------------------------------------------
(* Expressions and statements.                                              *)
Num(v) == [k |-> "num", v |-> v]
Name(x) == [k |-> "name", id |-> x]
Un(op, e) == [k |-> "un", op |-> op, e |-> e]
Bin(op, l, r) == [k |-> "bin", op |-> op, l |-> l, r |-> r]
Call(fn, args) == [k |-> "call", fn |-> fn, args |-> args]
Index(base, i) == [k |-> "index", base |-> base, i |-> i]
LenOf(base) == [k |-> "len", base |-> base]

Assign(x, e) == [k |-> "assign", t |-> x, e |-> e]
SetIndex(x, i, e) == [k |-> "setindex", t |-> x, i |-> i, e |-> e]
If(arms, els) == [k |-> "if", arms |-> arms, els |-> els]
Arm(c, body) == [c |-> c, body |-> body]
For(x, args, body) == [k |-> "for", var |-> x, args |-> args, body |-> body]
ForList(x, l, body) == [k |-> "for_list", var |-> x, list |-> l, body |-> body]
While(c, body) == [k |-> "while", c |-> c, body |-> body]
Break == [k |-> "break"]
Continue == [k |-> "continue"]
Return(e) == [k |-> "return", e |-> e]
ExprStmt(e) == [k |-> "expr", e |-> e]
Fn(x, params, body) == [k |-> "fn", name |-> x, params |-> params, body |-> body]

\* The position of a list element, 0 when there is none.  Python refuses an
\* index that is a float; C truncates it before idx_n looks at its sign.
Position(nat, v, n) ==
    LET whole == Trunc(v.h)
        k == IF whole < 0 THEN whole + n ELSE whole IN
    IF v.t \in {"i", "b"} \cup (IF nat THEN {"d"} ELSE {}) /\ k \in 0..n - 1
    THEN k + 1 ELSE 0

RECURSIVE Eval(_, _, _)
Eval(nat, e, s) ==
    CASE e.k = "num" -> Checked(nat, e.v)
      [] e.k = "name" -> IF e.id \in DOMAIN s.env THEN s.env[e.id] ELSE Raise
      [] e.k = "len" -> I(Len(s.heap[s.env[e.base].h]))
      [] e.k = "index" ->
            LET i == Eval(nat, e.i, s)
                items == s.heap[s.env[e.base].h]
                p == Position(nat, i, Len(items)) IN
            IF i = Raise \/ p = 0 THEN Raise ELSE items[p]
      [] e.k = "un" ->
            LET v == Eval(nat, e.e, s) IN
            IF v = Raise THEN Raise
            ELSE Checked(nat, IF e.op = "not" THEN B(~Truthy(v))
                              ELSE Value(Joint(v, v), -v.h))
      [] e.k = "bin" /\ e.op \in {"and", "or"} ->
            LET l == Eval(nat, e.l, s)
                v == IF l # Raise /\ Truthy(l) = (e.op = "and")
                     THEN Eval(nat, e.r, s) ELSE l IN
            IF v = Raise \/ ~nat THEN v ELSE Checked(nat, B(Truthy(v)))
      [] e.k = "bin" ->
            LET l == Eval(nat, e.l, s)
                r == Eval(nat, e.r, s) IN
            IF Raise \in {l, r} THEN Raise ELSE Checked(nat, Arith(nat, e.op, l, r))
      [] e.k = "call" /\ e.fn = "abs" ->
            LET v == Eval(nat, e.args[1], s) IN
            IF v = Raise THEN Raise
            ELSE Checked(nat, Value(Joint(v, v), Magnitude(v.h)))
      [] e.k = "call" ->
            LET l == Eval(nat, e.args[1], s)
                r == Eval(nat, e.args[2], s)
                second == IF e.fn = "min" THEN r.h < l.h ELSE r.h > l.h
                v == IF second THEN r ELSE l IN
            IF Raise \in {l, r} THEN Raise
            ELSE IF nat THEN Cast(Joint(l, r), v) ELSE v

-----------------------------------------------------------------------------
(* A run: variables, lists, what ended it, the names it assigned and the    *)
(* value it returned.  ty types the variables of the C code.                *)
Start(env, heap) ==
    [env |-> env, heap |-> heap, sig |-> "go", asg |-> {}, ret |-> None]

Bind(nat, ty, x, v, s) ==
    IF v = Raise THEN [s EXCEPT !.sig = "raise"]
    ELSE [s EXCEPT !.env = (x :> (IF nat THEN Cast(ty[x], v) ELSE v)) @@ @,
                   !.asg = @ \cup {x}]

\* What range() of these bounds yields; step 0 is an error in both worlds.
RangeArg(args, n, default) == IF Len(args) < n THEN default ELSE Trunc(args[n].h)
RangeItems(args) ==
    LET from == IF Len(args) = 1 THEN 0 ELSE Trunc(args[1].h)
        to == IF Len(args) = 1 THEN Trunc(args[1].h) ELSE Trunc(args[2].h)
        step == RangeArg(args, 3, 1)
        n == IF step > 0 THEN (to - from + step - 1) \div step
             ELSE (from - to - step - 1) \div (-step) IN
    [j \in 1..(IF n > 0 THEN n ELSE 0) |-> I(from + (j - 1) * step)]

RECURSIVE Exec(_, _, _, _), Rounds(_, _, _, _, _), Until(_, _, _, _, _)

\* After one round of a loop: break ends it, continue does not.
Resumed(s) == IF s.sig = "continue" THEN [s EXCEPT !.sig = "go"] ELSE s
Ended(s) == IF s.sig = "break" THEN [s EXCEPT !.sig = "go"] ELSE s

\* A loop over n items; item j is read when its round begins.
Rounds(nat, ty, st, todo, s) ==
    IF s.sig # "go" \/ todo = <<>> THEN Ended(s)
    ELSE LET item == IF st.k = "for" THEN Head(todo)
                     ELSE s.heap[s.env[st.list].h][Head(todo)]
             s1 == Bind(nat, ty, st.var, item, s) IN
         Rounds(nat, ty, st, Tail(todo), Resumed(Exec(nat, ty, st.body, s1)))

Until(nat, ty, st, fuel, s) ==
    LET c == Eval(nat, st.c, s) IN
    CASE s.sig # "go" -> Ended(s)
      [] s.sig = "go" /\ c = Raise -> [s EXCEPT !.sig = "raise"]
      [] s.sig = "go" /\ c # Raise /\ ~Truthy(c) -> s
      [] s.sig = "go" /\ c # Raise /\ Truthy(c) ->
            IF fuel = 0 THEN [s EXCEPT !.sig = "spin"]
            ELSE Until(nat, ty, st, fuel - 1, Resumed(Exec(nat, ty, st.body, s)))

\* The branch an if takes, or "raise" when a condition before it raises.
RECURSIVE Branch(_, _, _, _)
Branch(nat, arms, els, s) ==
    IF arms = <<>> THEN [ok |-> TRUE, body |-> els]
    ELSE LET c == Eval(nat, Head(arms).c, s) IN
         IF c = Raise THEN [ok |-> FALSE, body |-> <<>>]
         ELSE IF Truthy(c) THEN [ok |-> TRUE, body |-> Head(arms).body]
         ELSE Branch(nat, Tail(arms), els, s)

Step(nat, ty, st, s) ==
    CASE st.k = "assign" -> Bind(nat, ty, st.t, Eval(nat, st.e, s), s)
      [] st.k = "setindex" ->
            LET ref == s.env[st.t].h
                i == Eval(nat, st.i, s)
                v == Eval(nat, st.e, s)
                p == Position(nat, i, Len(s.heap[ref])) IN
            IF Raise \in {i, v} \/ p = 0 THEN [s EXCEPT !.sig = "raise"]
            ELSE [s EXCEPT !.heap[ref][p] = IF nat THEN Cast(@.t, v) ELSE v]
      [] st.k = "if" ->
            LET b == Branch(nat, st.arms, st.els, s) IN
            IF b.ok THEN Exec(nat, ty, b.body, s) ELSE [s EXCEPT !.sig = "raise"]
      [] st.k = "for" ->
            LET args == [j \in DOMAIN st.args |-> Eval(nat, st.args[j], s)]
                bad == \/ \E j \in DOMAIN args :
                            args[j].t = "x" \/ (~nat /\ args[j].t = "d")
                       \/ RangeArg(args, 3, 1) = 0 IN
            IF bad THEN [s EXCEPT !.sig = "raise"]
            ELSE Rounds(nat, ty, st, RangeItems(args), s)
      [] st.k = "for_list" ->
            Rounds(nat, ty, st, [j \in DOMAIN s.heap[s.env[st.list].h] |-> j], s)
      [] st.k = "while" -> Until(nat, ty, st, Fuel, s)
      [] st.k \in {"break", "continue"} -> [s EXCEPT !.sig = st.k]
      [] st.k = "return" ->
            LET v == Eval(nat, st.e, s) IN
            IF v = Raise THEN [s EXCEPT !.sig = "raise"]
            ELSE [s EXCEPT !.sig = "return", !.ret = v]
      [] st.k = "expr" ->
            IF Eval(nat, st.e, s) = Raise THEN [s EXCEPT !.sig = "raise"] ELSE s

Exec(nat, ty, body, s) ==
    IF body = <<>> \/ s.sig # "go" THEN s
    ELSE Exec(nat, ty, Tail(body), Step(nat, ty, Head(body), s))

\* The Python the compiler emits for a body.
Interpret(body, env, heap) == Exec(FALSE, <<>>, body, Start(env, heap))
=============================================================================
