----------------------------- MODULE Optimizer ------------------------------
(* The passes of compiler/ir_passes.py over the intermediate form on the    *)
(* way to native code: constant folding, dead-code elimination, folding.    *)
EXTENDS Lang

IsLiteral(e) == e.k = "num" /\ e.v.t \in {"i", "d"}

\* Division and remainder by a literal zero stay, to fail when they run; the
\* operators that are not listed stay as well.
Foldable(op, l, r) ==
    /\ IsLiteral(l) /\ IsLiteral(r)
    /\ op \in {"+", "-", "*"} \/ (op \in {"/", "%"} /\ r.v.h # 0)

RECURSIVE fold_expr(_)
fold_expr(e) ==
    CASE e.k = "bin" ->
            LET l == fold_expr(e.l)
                r == fold_expr(e.r) IN
            IF Foldable(e.op, l, r) THEN Num(Arith(FALSE, e.op, l.v, r.v))
            ELSE Bin(e.op, l, r)
      [] e.k = "un" ->
            LET x == fold_expr(e.e) IN
            IF e.op = "-" /\ IsLiteral(x) THEN Num(Value(x.v.t, -x.v.h))
            ELSE IF e.op = "not" /\ x.k = "num" /\ x.v.t = "b" THEN Num(B(~Truthy(x.v)))
            ELSE Un(e.op, x)
      [] e.k = "call" -> Call(e.fn, [j \in DOMAIN e.args |-> fold_expr(e.args[j])])
      [] e.k = "index" -> Index(e.base, fold_expr(e.i))
      [] OTHER -> e

RECURSIVE fold_stmt(_)
FoldBody(body) == [j \in DOMAIN body |-> fold_stmt(body[j])]
fold_stmt(st) ==
    CASE st.k \in {"assign", "return", "expr"} -> [st EXCEPT !.e = fold_expr(@)]
      [] st.k = "setindex" -> [st EXCEPT !.i = fold_expr(@), !.e = fold_expr(@)]
      [] st.k = "if" ->
            If([j \in DOMAIN st.arms |-> Arm(fold_expr(st.arms[j].c), FoldBody(st.arms[j].body))],
               FoldBody(st.els))
      [] st.k = "for" ->
            For(st.var, [j \in DOMAIN st.args |-> fold_expr(st.args[j])], FoldBody(st.body))
      [] st.k = "while" -> While(fold_expr(st.c), FoldBody(st.body))
      [] st.k \in {"for_list", "fn"} -> [st EXCEPT !.body = FoldBody(@)]
      [] OTHER -> st

\* A condition known at compile time.
Always(e) == e.k = "num" /\ Truthy(e.v)

\* Mutant: what is not known to hold never holds.
NeverUnlessAlways(e) == ~Always(e)

Never(e) == e.k = "num" /\ ~Truthy(e.v)

\* Nothing follows a return in its body; a statement that can never do
\* anything leaves none.
RECURSIVE dce_body(_), dce_stmt(_)
dce_body(body) ==
    IF body = <<>> THEN <<>>
    ELSE IF Head(body).k = "return" THEN <<Head(body)>>
    ELSE dce_stmt(Head(body)) \o dce_body(Tail(body))
dce_stmt(st) ==
    CASE st.k = "if" /\ Always(st.arms[1].c) ->
            <<If(<<Arm(st.arms[1].c, dce_body(st.arms[1].body))>>, <<>>)>>
      [] st.k = "if" /\ Never(st.arms[1].c) ->
            IF Len(st.arms) > 1 THEN dce_stmt(If(Tail(st.arms), st.els))
            ELSE IF st.els # <<>>
            THEN <<If(<<Arm(Num(B(TRUE)), dce_body(st.els))>>, <<>>)>>
            ELSE <<>>
      [] st.k = "if" /\ ~Always(st.arms[1].c) /\ ~Never(st.arms[1].c) ->
            <<If([j \in DOMAIN st.arms |-> Arm(st.arms[j].c, dce_body(st.arms[j].body))],
                 dce_body(st.els))>>
      [] st.k = "while" ->
            IF Never(st.c) THEN <<>> ELSE <<While(st.c, dce_body(st.body))>>
      [] st.k \in {"for", "for_list", "fn"} -> <<[st EXCEPT !.body = dce_body(@)]>>
      [] OTHER -> <<st>>

optimize(body) == FoldBody(dce_body(FoldBody(body)))
=============================================================================
