----------------------------- MODULE MCChainApi -----------------------------
(* Instances of ChainApi for TLC.                                          *)
EXTENDS ChainApi, TLC

CONSTANTS alice, bob, s1, s2, s3, s4

Transfer(from, to, amount, seq) ==
    [from |-> from, to |-> to, amount |-> amount, seq |-> seq]

\* Two transfers of alice, who is paid for every block; one of bob, who may not
\* have the money yet; and one whose amount is not the amount signed.
MCTxOf ==
    s1 :> Signed(Transfer(alice, bob, 1, 0))
    @@ s2 :> Signed(Transfer(alice, bob, 1, 1))
    @@ s3 :> Signed(Transfer(bob, alice, 2, 0))
    @@ s4 :> [Signed(Transfer(bob, alice, 1, 0)) EXCEPT !.amount = 2]
=============================================================================
