------------------------------- MODULE Memory -------------------------------
(* What an allocator promises its clients, and nothing of how it keeps the  *)
(* promise: the extents it has handed out lie inside the arena and apart    *)
(* from one another; only an extent's owner gives it back or cuts it short. *)
EXTENDS Naturals

CONSTANT Total          \* granules in the arena

VARIABLE owned          \* the extents handed out, [lo, hi)

Extents == [lo : 0 .. Total, hi : 0 .. Total]

Clear(e, f) == e.hi <= f.lo \/ f.hi <= e.lo

Init == owned = {}

Acquire ==
    \E e \in Extents :
        /\ e.lo < e.hi
        /\ \A f \in owned : Clear(e, f)
        /\ owned' = owned \cup {e}

Release == \E e \in owned : owned' = owned \ {e}

Shrink ==
    \E e \in owned : \E hi \in 0 .. Total :
        /\ e.lo < hi /\ hi < e.hi
        /\ owned' = (owned \ {e}) \cup {[e EXCEPT !.hi = hi]}

Next == Acquire \/ Release \/ Shrink

Spec == Init /\ [][Next]_owned
=============================================================================
