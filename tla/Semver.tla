------------------------------- MODULE Semver -------------------------------
(* Version numbers and constraints of stdlib/registry.py.  A version is     *)
(* <<major, minor, patch, pre>>; pre stands for the text of a pre-release by *)
(* its place among all such texts as they sort, 0 for the empty text of a    *)
(* release.  An unreadable version is <<0, 0, 0, 0>>.                        *)
EXTENDS Integers, Sequences, FiniteSets

Version == Nat \X Nat \X Nat \X Nat

\* Python's order of tuples, on the three numbers.
Leq(v, w) ==
    \/ v[1] < w[1]
    \/ v[1] = w[1] /\ v[2] < w[2]
    \/ v[1] = w[1] /\ v[2] = w[2] /\ v[3] <= w[3]

Constraint(op, v) == [op |-> op, v |-> v]
Ops == {"*", "^", "~", ">=", "<=", ">", "<", "="}

\* Mutant: the caret looks at the minor number only when it is equal.
SatisfiesCaretLoose(v, c) ==
    LET floor == c.v IN
    CASE c.op = "*" -> TRUE
      [] c.op = "^" -> v[1] = floor[1] /\ (v[2] # floor[2] \/ v[3] >= floor[3])
      [] c.op = "~" -> v[1] = floor[1] /\ v[2] = floor[2] /\ v[3] >= floor[3]
      [] c.op = ">=" -> Leq(floor, v)
      [] c.op = "<=" -> Leq(v, floor)
      [] c.op = ">" -> ~Leq(v, floor)
      [] c.op = "<" -> ~Leq(floor, v)
      [] c.op = "=" -> v = floor

\* Pre-releases count as their release everywhere but in "=".
semver_satisfies(v, c) ==
    LET floor == c.v IN
    CASE c.op = "*" -> TRUE
      [] c.op = "^" -> /\ v[1] = floor[1]
                       /\ v[2] > floor[2] \/ (v[2] = floor[2] /\ v[3] >= floor[3])
      [] c.op = "~" -> v[1] = floor[1] /\ v[2] = floor[2] /\ v[3] >= floor[3]
      [] c.op = ">=" -> Leq(floor, v)
      [] c.op = "<=" -> Leq(v, floor)
      [] c.op = ">" -> ~Leq(v, floor)
      [] c.op = "<" -> ~Leq(floor, v)
      [] c.op = "=" -> v = floor

\* Sorted downwards by the four components: of equal numbers, the
\* pre-release comes first.
Above(v, w) == Leq(w, v) /\ (Leq(v, w) => v[4] >= w[4])

Nowhere == <<>>
resolve_version(versions, c) ==
    LET fit == {v \in versions : semver_satisfies(v, c)} IN
    IF fit = {} THEN Nowhere
    ELSE CHOOSE v \in fit : \A w \in fit : Above(v, w)
=============================================================================
