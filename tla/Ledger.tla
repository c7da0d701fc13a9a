------------------------------- MODULE Ledger -------------------------------
(* One Chain object used by one thread: blocks are mined on it, and a      *)
(* program that holds it may also write into its blocks, which are plain   *)
(* mutable objects (examples/blockchain/demo.tri does).                    *)
EXTENDS Chain, TLC

CONSTANT
    Programs        \* bound: programs, each a function of who mines in it:
                    \*   offers      lists of transactions handed to mine
                    \*   qualities   crystallinities the field runs give
                    \*   blocks      length of the chain
                    \*   edits       how often the blocks are written into

ASSUME QualityAssumption ==
    \A who \in DOMAIN Programs : Programs[who].qualities \subseteq Nat

ASSUME ProgramsAssumption ==
    \A who \in DOMAIN Programs :
        who \subseteq Accounts /\ Programs[who].offers \subseteq Seq(Transactions)

VARIABLES
    miners,         \* who mines: which program it is
    blocks,         \* Chain.blocks
    mined,          \* the same, as if nobody had written into them
    edits           \* how often somebody has

vars == <<miners, blocks, mined, edits>>

Bound == Programs[miners]

Init ==
    /\ miners \in DOMAIN Programs
    /\ blocks = <<Genesis>>
    /\ mined = <<Genesis>>
    /\ edits = 0

\* Chain.mine.  The nonce loop stops at the first crystallinity that reaches
\* the difficulty: any that does may be the first.
Mine(miner, batch, quality) ==
    /\ Len(blocks) < Bound.blocks
    /\ CheckTxs(blocks, Append(batch, CoinbaseTx(miner)))
    /\ Seals(quality, Difficulty(blocks))
    /\ blocks' = Append(blocks, MinedBlock(blocks, batch, miner, quality))
    /\ mined' = Append(mined, MinedBlock(blocks, batch, miner, quality))
    /\ UNCHANGED <<miners, edits>>

\* Refused transactions, or no seal in MAX_NONCE attempts: an exception.
MineRaises == UNCHANGED vars

\* A transaction is written into where it lies.
Edit(i, j, to, amount) ==
    /\ edits < Bound.edits
    /\ blocks' = [blocks EXCEPT ![i].txs = [@ EXCEPT ![j].to = to, ![j].amount = amount]]
    /\ edits' = edits + 1
    /\ UNCHANGED <<miners, mined>>

\* A block's hash is made to fit again (compute_hash is public).
Rehash(i) ==
    /\ edits < Bound.edits
    /\ blocks' = [blocks EXCEPT ![i].hash = ComputeHash(blocks[i])]
    /\ edits' = edits + 1
    /\ UNCHANGED <<miners, mined>>

Next ==
    \/ \E miner \in miners, batch \in Bound.offers, quality \in Bound.qualities :
          Mine(miner, batch, quality)
    \/ MineRaises
    \/ \E i \in 1 .. Len(blocks) : \E j \in 1 .. Len(blocks[i].txs) :
          \E to \in Accounts, amount \in 1 .. Reward : Edit(i, j, to, amount)
    \/ \E i \in 1 .. Len(blocks) : Rehash(i)

Spec == Init /\ [][Next]_vars

-----------------------------------------------------------------------------
(* Properties.  The first three are about any chain that validates.        *)

\* No transfer makes or destroys money.
Conserved == Validate(blocks) => AddsUp(blocks)

\* Nobody spends what they do not have, or have not yet.
NoOverdraft == Validate(blocks) => NeverOverdrawn(blocks)

\* Each transfer of an account takes effect once, in the order it was signed in.
NoReplay == Validate(blocks) => InSequence(blocks)

\* What mine builds, validate accepts: the two agree on the transactions seen
\* so far and on the difficulty a block had to reach.
MinedValidates == edits = 0 => Validate(blocks)

\* A chain written into does not validate, not even once hashes have been made
\* to fit and more blocks been mined upon it (unless all is written back).
TamperEvident == Validate(blocks) => blocks = mined

\* The difficulty that emerges from the seals never falls.
DifficultyNeverFalls ==
    [][blocks' # blocks => Difficulty(blocks') >= Difficulty(blocks)]_vars
=============================================================================
