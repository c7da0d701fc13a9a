-------------------------------- MODULE Chain --------------------------------
(***************************************************************************)
(* What stdlib/chain.py computes: balances, the checks on a block's        *)
(* transactions, the difficulty, the seal and the validation of a chain.   *)
(*                                                                         *)
(* A hash is the content hashed, so two are equal exactly when their       *)
(* contents are (SHA-256 without collisions); a signature is the payload   *)
(* signed (nobody signs for another); a seal records the header it was     *)
(* computed from and the crystallinity the field run gave, in units of the *)
(* 6th decimal.  The index and the timestamp of a block, which no check    *)
(* reads but through the hash, are left out; sequences count from 1 where  *)
(* the code's lists count from 0.                                          *)
(***************************************************************************)
EXTENDS Integers, FiniteSetsExt, SequencesExt

CONSTANTS
    Accounts,       \* the addresses of the wallets
    Coinbase,       \* the sender 'coinbase'
    Reward,         \* REWARD
    RoundsUp        \* the odd sums whose half round(_, 6) takes up: which ones
                    \* depends on their binary floating-point neighbours

ASSUME CoinbaseAssumption == Coinbase \notin Accounts
ASSUME AccountsAssumption == IsFiniteSet(Accounts)
ASSUME RewardAssumption   == Reward \in Nat \ {0}

Payloads == [from : Accounts, to : Accounts, amount : Int, seq : Int]

Transactions ==
    [from : Accounts \cup {Coinbase}, to : Accounts, amount : Int, seq : Int,
     sig : Payloads \cup {<<>>}]

Payload(tx) == [from |-> tx.from, to |-> tx.to, amount |-> tx.amount, seq |-> tx.seq]

\* A transfer as Wallet.sign_tx builds it.
Signed(payload) == payload @@ [sig |-> payload]

CoinbaseTx(miner) ==
    [from |-> Coinbase, to |-> miner, amount |-> Reward, seq |-> 0, sig |-> <<>>]

VerifyTx(tx) ==
    IF tx.from = Coinbase THEN tx.amount = Reward ELSE tx.sig = Payload(tx)

-----------------------------------------------------------------------------
(* What a list of transactions leaves behind.                              *)

TxsOf(bs) == FlattenSeq([i \in 1 .. Len(bs) |-> bs[i].txs])

Gain(tx, who) ==
    (IF tx.to = who THEN tx.amount ELSE 0) - (IF tx.from = who THEN tx.amount ELSE 0)

\* The sum of a sequence of integers.
Total(s) ==
    LET sum[k \in 0 .. Len(s)] == IF k = 0 THEN 0 ELSE sum[k - 1] + s[k]
    IN  sum[Len(s)]

Balance(txs, who) == Total([i \in 1 .. Len(txs) |-> Gain(txs[i], who)])

LastSeq(txs, who) ==
    Max({-1} \cup {txs[i].seq : i \in {j \in 1 .. Len(txs) : txs[j].from = who}})

\* Mutant: a sequence number may be used again.
FreshAgain(seen, tx) == tx.seq <= LastSeq(seen, tx.from) + 1

Fresh(seen, tx) == tx.seq = LastSeq(seen, tx.from) + 1

\* Mutant: the transfers ahead of it in the same block are not looked at.
SeenChainOnly(bs, txs, i) == TxsOf(bs)

\* The check passes over a block's own reward: it is not there to be spent.
Skipped(tx) == IF tx.from = Coinbase THEN [tx EXCEPT !.amount = 0] ELSE tx

\* What transfer i is checked against: the chain, and the transfers ahead of it
\* in the same block.
Seen(bs, txs, i) == TxsOf(bs) \o [j \in 1 .. i - 1 |-> Skipped(txs[j])]

\* Mutant: a block may pay itself more than one reward.
OneCoinbaseLax(txs) == \E i \in 1 .. Len(txs) : txs[i].from = Coinbase

OneCoinbase(txs) ==
    \E i \in 1 .. Len(txs) :
        /\ txs[i].from = Coinbase
        /\ \A j \in 1 .. Len(txs) : txs[j].from = Coinbase => j = i

CheckTxs(bs, txs) ==
    /\ OneCoinbase(txs)
    /\ \A i \in 1 .. Len(txs) :
          LET tx == txs[i]
          IN  /\ VerifyTx(tx)
              /\ \/ tx.from = Coinbase
                 \/ /\ tx.amount > 0
                    /\ Fresh(Seen(bs, txs, i), tx)
                    /\ Balance(Seen(bs, txs, i), tx.from) >= tx.amount

-----------------------------------------------------------------------------
(* Proof of crystallization.                                               *)

\* round(median(seals), 6): the median of two middle ones is half their sum.
RoundedHalf(sum) ==
    IF sum % 2 = 0 \/ sum \notin RoundsUp THEN sum \div 2 ELSE sum \div 2 + 1

\* The k-th smallest of s: fewer than k of s are smaller, at least k no greater.
Kth(s, k) ==
    CHOOSE v \in ToSet(s) :
        /\ Cardinality({i \in DOMAIN s : s[i] < v}) < k
        /\ k <= Cardinality({i \in DOMAIN s : s[i] <= v})

Median(s) ==
    LET half == Len(s) \div 2
    IN  IF Len(s) % 2 = 1 THEN Kth(s, half + 1)
        ELSE RoundedHalf(Kth(s, half) + Kth(s, half + 1))

\* Of the blocks up to the given one, the genesis block's seal left out.
DifficultyAfter(bs, upto) ==
    LET seals == [i \in 1 .. upto - 1 |-> bs[i + 1].seal.quality]
    IN  IF seals = <<>> THEN 0 ELSE Median(seals)

\* Mutant: the head's own seal does not count.
DifficultyBehind(bs) == IF Len(bs) = 1 THEN 0 ELSE DifficultyAfter(bs, Len(bs) - 1)

Difficulty(bs) == DifficultyAfter(bs, Len(bs))

\* Mutant: a seal one unit below the target is taken.
SealsNearly(quality, target) == quality + 1 >= target

Seals(quality, target) == quality >= target

\* Mutant: the header does not cover the transactions.
HeaderHashNoTxs(blk) == [prev |-> blk.prev]

HeaderHash(blk) == [prev |-> blk.prev, txs |-> blk.txs]

ComputeHash(blk) == [header |-> HeaderHash(blk), seal |-> blk.seal]

\* A block whose seal is that of the field run for its header.
SealedBlock(prev, txs, quality) ==
    LET header == [prev |-> prev, txs |-> txs]
        seal   == [of |-> HeaderHash(header), quality |-> quality]
        blk    == [prev |-> prev, txs |-> txs, seal |-> seal]
    IN  [prev |-> prev, txs |-> txs, seal |-> seal, hash |-> ComputeHash(blk)]

Genesis == SealedBlock(<<>>, <<>>, 0)

\* The block mine appends, once a nonce has given it a seal that is good enough.
MinedBlock(bs, batch, miner, quality) ==
    SealedBlock(bs[Len(bs)].hash, Append(batch, CoinbaseTx(miner)), quality)

-----------------------------------------------------------------------------
(* validate: of the genesis block, its hash only.                          *)

ValidBlock(bs, i) ==
    LET before == SubSeq(bs, 1, i - 1)
    IN  /\ bs[i].prev = bs[i - 1].hash
        /\ bs[i].seal.of = HeaderHash(bs[i])
        /\ Seals(bs[i].seal.quality, DifficultyAfter(bs, i - 1))
        /\ CheckTxs(before, bs[i].txs)

Validate(bs) ==
    \A i \in 1 .. Len(bs) :
        /\ bs[i].hash = ComputeHash(bs[i])
        /\ i > 1 => ValidBlock(bs, i)

-----------------------------------------------------------------------------
(* What a chain says about money, when its books are in order.             *)

\* No transfer makes or destroys money: all balances together are one reward
\* for every block but the genesis block.
AddsUp(bs) ==
    LET who == SetToSeq(Accounts)
    IN  Total([i \in 1 .. Len(who) |-> Balance(TxsOf(bs), who[i])])
            = Reward * (Len(bs) - 1)

\* Nobody spends what they do not have, or have not yet: after every single
\* transaction of the chain, in its order, no balance is negative.
NeverOverdrawn(bs) ==
    LET txs == TxsOf(bs)
    IN  \A n \in 0 .. Len(txs), a \in Accounts : Balance(SubSeq(txs, 1, n), a) >= 0

\* Each transfer of an account takes effect once, in the order it was signed
\* in: the numbers it carries run 0, 1, 2, ... along the chain.
InSequence(bs) ==
    LET txs == TxsOf(bs)
    IN  \A n \in 1 .. Len(txs) :
            txs[n].from # Coinbase =>
                txs[n].seq = Cardinality({m \in 1 .. n - 1 : txs[m].from = txs[n].from})
=============================================================================
