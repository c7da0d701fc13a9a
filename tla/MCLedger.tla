------------------------------ MODULE MCLedger ------------------------------
(* Instances of Ledger for TLC.                                            *)
EXTENDS Ledger

CONSTANTS alice, bob

MCAccounts == {alice, bob}

Transfer(from, to, amount, seq) ==
    [from |-> from, to |-> to, amount |-> amount, seq |-> seq]

\* Transfers to the other account, one within an account, one whose amount is
\* not the amount signed, and a reward that somebody claims by hand.
TxSet ==
    {Signed(Transfer(a, b, m, s)) :
        <<a, b>> \in {<<alice, bob>>, <<bob, alice>>}, m \in {1, 3}, s \in {0, 1}}
    \cup {Signed(Transfer(a, a, 1, 0)) : a \in MCAccounts}
    \cup {[Signed(Transfer(alice, bob, 1, 0)) EXCEPT !.amount = 2],
          [Signed(Transfer(bob, alice, 1, 0)) EXCEPT !.amount = 2]}
    \cup {CoinbaseTx(a) : a \in MCAccounts}

MCOffers == BoundedSeq(TxSet, 2)

\* Two who pay each other and tamper, or one who only mines: the longer chain,
\* seals of several qualities.
MCPrograms ==
    [who \in {MCAccounts, {alice}, {bob}} |->
        IF who = MCAccounts
        THEN [offers |-> MCOffers, qualities |-> {0}, blocks |-> 4, edits |-> 2]
        ELSE [offers |-> {<<>>}, qualities |-> 0 .. 3, blocks |-> 7, edits |-> 0]]

Symmetric == Permutations(MCAccounts)
=============================================================================
