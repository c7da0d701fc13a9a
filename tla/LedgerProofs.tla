---------------------------- MODULE LedgerProofs -----------------------------
(* For every program, set of accounts, reward and way of rounding: what     *)
(* mine builds validates, and a chain that was written into does not; on a  *)
(* chain that validates money is conserved, nobody is overdrawn, nothing is *)
(* replayed; mining never lowers the difficulty.                            *)
EXTENDS Ledger, ChainProofs

\* The two chains are alike but for what has been written: a write reaches
\* the transactions of a block or its hash, never its seal, nor the hash its
\* seal was computed from.
IsBlock(b) ==
    b = [prev |-> b.prev, txs |-> b.txs, seal |-> b.seal, hash |-> b.hash]

Alike ==
    /\ \E S : blocks \in Seq(S) /\ mined \in Seq(S)
    /\ Len(blocks) = Len(mined) /\ Len(blocks) > 0
    /\ blocks[1].txs = mined[1].txs /\ blocks[1].txs = <<>>
    /\ \A i \in 1 .. Len(blocks) :
          /\ IsBlock(blocks[i]) /\ IsBlock(mined[i])
          /\ blocks[i].prev = mined[i].prev
          /\ blocks[i].seal = mined[i].seal
          /\ mined[i].seal.of = HeaderHash(mined[i])
          /\ mined[i].hash = ComputeHash(mined[i])

LedgerInv == edits \in Nat /\ Alike /\ MinedValidates

LEMMA SealedIsBlock ==
    ASSUME NEW p, NEW txs, NEW quality
    PROVE  IsBlock(SealedBlock(p, txs, quality))
  BY DEF IsBlock, SealedBlock

LEMMA InitLedger == Init => LedgerInv
  <1> SUFFICES ASSUME Init PROVE LedgerInv
    OBVIOUS
  <1>1. /\ IsBlock(Genesis) /\ Genesis.txs = <<>>
        /\ Genesis.seal.of = HeaderHash(Genesis) /\ Genesis.hash = ComputeHash(Genesis)
    BY SealedIsBlock, SealedParts DEF Genesis
  <1>2. <<Genesis>> \in Seq({Genesis}) /\ Len(<<Genesis>>) = 1 /\ <<Genesis>>[1] = Genesis
    OBVIOUS
  <1>3. Alike
    <2>1. \E S : blocks \in Seq(S) /\ mined \in Seq(S)
      BY <1>2 DEF Init
    <2>2. /\ Len(blocks) = 1 /\ Len(mined) = 1
          /\ blocks[1] = Genesis /\ mined[1] = Genesis
      BY <1>2 DEF Init
    <2>3. blocks[1].txs = mined[1].txs /\ blocks[1].txs = <<>>
      BY <2>2, <1>1
    <2>4. QED
      BY <2>1, <2>2, <2>3, <1>1 DEF Alike
  <1>4. MinedValidates
    BY GenesisValid DEF Init, MinedValidates
  <1>5. QED
    BY <1>3, <1>4 DEF Init, LedgerInv

LEMMA MineStep ==
    ASSUME LedgerInv, NEW miner, NEW batch, NEW quality, Mine(miner, batch, quality)
    PROVE  LedgerInv'
  <1> DEFINE b == MinedBlock(blocks, batch, miner, quality)
             n == Len(blocks)
  <1>1. PICK S : blocks \in Seq(S) /\ mined \in Seq(S)
    BY DEF LedgerInv, Alike
  <1> DEFINE T == S \cup {b}
  <1>2. blocks \in Seq(T) /\ mined \in Seq(T) /\ b \in T
    BY <1>1
  <1>3. /\ IsBlock(b)
        /\ b.seal.of = HeaderHash(b) /\ b.hash = ComputeHash(b)
        /\ b = SealedBlock(blocks[Len(blocks)].hash, Append(batch, CoinbaseTx(miner)), quality)
    BY SealedIsBlock, SealedParts DEF MinedBlock
  <1>4. n \in Nat /\ n > 0 /\ Len(mined) = n
    BY <1>1 DEF LedgerInv, Alike
  <1>5. blocks' = Append(blocks, b) /\ mined' = Append(mined, b) /\ edits' = edits
    BY DEF Mine
  <1> HIDE DEF b, n, T
  <1>6. /\ blocks' \in Seq(T) /\ mined' \in Seq(T)
        /\ Len(blocks') = n + 1 /\ Len(mined') = n + 1
        /\ blocks'[n + 1] = b /\ mined'[n + 1] = b
        /\ \A i \in 1 .. n : blocks'[i] = blocks[i] /\ mined'[i] = mined[i]
    BY <1>2, <1>4, <1>5 DEF n
  <1>7. Alike'
    <2>1. \E R : blocks' \in Seq(R) /\ mined' \in Seq(R)
      BY <1>6
    <2>2. blocks'[1].txs = mined'[1].txs /\ blocks'[1].txs = <<>>
      <3>1. 1 \in 1 .. n
        BY <1>4
      <3>2. blocks'[1] = blocks[1] /\ mined'[1] = mined[1]
        BY <1>6, <3>1
      <3>3. blocks[1].txs = mined[1].txs /\ blocks[1].txs = <<>>
        BY DEF LedgerInv, Alike
      <3>4. QED
        BY <3>2, <3>3
    <2>3. ASSUME NEW i \in 1 .. Len(blocks')
          PROVE  /\ IsBlock(blocks'[i]) /\ IsBlock(mined'[i])
                 /\ blocks'[i].prev = mined'[i].prev
                 /\ blocks'[i].seal = mined'[i].seal
                 /\ mined'[i].seal.of = HeaderHash(mined'[i])
                 /\ mined'[i].hash = ComputeHash(mined'[i])
      <3>1. CASE i = n + 1
        BY <3>1, <1>3, <1>6
      <3>2. CASE i \in 1 .. n
        BY <3>2, <1>6 DEF n, LedgerInv, Alike
      <3>3. QED
        BY <3>1, <3>2, <1>4, <1>6
    <2>4. Len(blocks') = Len(mined') /\ Len(blocks') > 0
      BY <1>4, <1>6
    <2>5. QED
      BY <2>1, <2>2, <2>3, <2>4 DEF Alike
  <1>8. MinedValidates'
    <2>1. SUFFICES ASSUME edits = 0 PROVE Validate(blocks')
      BY <1>5 DEF MinedValidates
    <2>2. /\ Validate(blocks) /\ blocks # <<>>
          /\ CheckTxs(blocks, Append(batch, CoinbaseTx(miner)))
          /\ Seals(quality, Difficulty(blocks))
      BY <2>1, <1>4 DEF n, LedgerInv, MinedValidates, Mine
    <2>3. QED
      BY <2>2, <1>2, <1>3, <1>5, ValidAppend
  <1>9. QED
    BY <1>5, <1>7, <1>8 DEF LedgerInv

\* A write: one block is replaced by one with its previous hash and its seal.
LEMMA WriteStep ==
    ASSUME LedgerInv, NEW i \in 1 .. Len(blocks), NEW b,
           blocks' = [blocks EXCEPT ![i] = b], mined' = mined, edits' = edits + 1,
           IsBlock(b), b.prev = blocks[i].prev, b.seal = blocks[i].seal,
           i = 1 => b.txs = blocks[i].txs
    PROVE  LedgerInv'
  <1>1. PICK S : blocks \in Seq(S) /\ mined \in Seq(S)
    BY DEF LedgerInv, Alike
  <1> DEFINE T == S \cup {b}
  <1>2. blocks \in Seq(T) /\ mined \in Seq(T) /\ b \in T
    BY <1>1
  <1> HIDE DEF T
  <1>3. /\ blocks' \in Seq(T) /\ Len(blocks') = Len(blocks)
        /\ \A k \in 1 .. Len(blocks) : blocks'[k] = IF k = i THEN b ELSE blocks[k]
    BY <1>2
  <1>4. Alike'
    <2>1. \E R : blocks' \in Seq(R) /\ mined' \in Seq(R)
      BY <1>2, <1>3
    <2>2. blocks'[1].txs = mined'[1].txs /\ blocks'[1].txs = <<>>
      <3>1. blocks'[1].txs = blocks[1].txs
        <4>1. 1 \in 1 .. Len(blocks)
          BY <1>1 DEF LedgerInv, Alike
        <4>2. blocks'[1] = IF 1 = i THEN b ELSE blocks[1]
          BY <4>1, <1>3
        <4>3. QED
          BY <4>2
      <3>2. blocks[1].txs = mined[1].txs /\ blocks[1].txs = <<>>
        BY DEF LedgerInv, Alike
      <3>3. QED
        BY <3>1, <3>2
    <2>3. QED
      BY <2>1, <2>2, <1>3 DEF LedgerInv, Alike
  <1>5. MinedValidates' /\ edits' \in Nat
    BY DEF LedgerInv, MinedValidates
  <1>6. QED
    BY <1>4, <1>5 DEF LedgerInv

LEMMA EditStep ==
    ASSUME LedgerInv, NEW i \in 1 .. Len(blocks), NEW j \in 1 .. Len(blocks[i].txs),
           NEW to, NEW amount, Edit(i, j, to, amount)
    PROVE  LedgerInv'
  <1> DEFINE txs == [blocks[i].txs EXCEPT ![j].to = to, ![j].amount = amount]
             b == [blocks[i] EXCEPT !.txs = txs]
  <1>1. blocks' = [blocks EXCEPT ![i] = b]
    BY DEF Edit
  <1> HIDE DEF txs
  <1>2. IsBlock(blocks[i])
    BY DEF LedgerInv, Alike
  <1>3. b = [prev |-> blocks[i].prev, txs |-> txs, seal |-> blocks[i].seal,
             hash |-> blocks[i].hash]
    BY <1>2 DEF IsBlock
  <1> HIDE DEF b
  <1>4. IsBlock(b) /\ b.prev = blocks[i].prev /\ b.seal = blocks[i].seal
    BY <1>3 DEF IsBlock
  <1>5. i # 1
    BY DEF LedgerInv, Alike
  <1>6. mined' = mined /\ edits' = edits + 1
    BY DEF Edit
  <1>7. QED
    BY <1>1, <1>4, <1>5, <1>6, WriteStep

LEMMA RehashStep ==
    ASSUME LedgerInv, NEW i \in 1 .. Len(blocks), Rehash(i)
    PROVE  LedgerInv'
  <1> DEFINE b == [blocks[i] EXCEPT !.hash = ComputeHash(blocks[i])]
  <1>1. IsBlock(blocks[i])
    BY DEF LedgerInv, Alike
  <1>2. blocks' = [blocks EXCEPT ![i] = b]
    BY <1>1 DEF Rehash, IsBlock
  <1>3. /\ IsBlock(b) /\ b.prev = blocks[i].prev /\ b.seal = blocks[i].seal
        /\ b.txs = blocks[i].txs
    BY <1>1 DEF IsBlock
  <1>4. mined' = mined /\ edits' = edits + 1
    BY DEF Rehash
  <1> HIDE DEF b
  <1>5. QED
    BY <1>2, <1>3, <1>4, WriteStep

LEMMA NextLedger == LedgerInv /\ [Next]_vars => LedgerInv'
  <1> SUFFICES ASSUME LedgerInv, [Next]_vars PROVE LedgerInv'
    OBVIOUS
  <1>1. ASSUME UNCHANGED vars PROVE LedgerInv'
    BY <1>1 DEF vars, LedgerInv, Alike, MinedValidates
  <1>2. QED
    BY <1>1, MineStep, EditStep, RehashStep DEF Next, MineRaises

\* MinedValidates: mine and validate agree on every chain nobody wrote into.
THEOREM MineAgreesWithValidate == Spec => []MinedValidates
  <1>1. LedgerInv => MinedValidates
    BY DEF LedgerInv
  <1>2. QED
    BY <1>1, InitLedger, NextLedger, PTL DEF Spec

\* TamperEvident: whatever is written into a chain, and mined on it after, if
\* it validates then nothing in it differs from what was mined.
THEOREM WritesShow == Spec => []TamperEvident
  <1>1. LedgerInv => TamperEvident
    <2> SUFFICES ASSUME LedgerInv, Validate(blocks) PROVE blocks = mined
      BY DEF TamperEvident
    <2>1. PICK S : blocks \in Seq(S) /\ mined \in Seq(S)
      BY DEF LedgerInv, Alike
    <2>2. ASSUME NEW i \in 1 .. Len(blocks) PROVE blocks[i] = mined[i]
      <3>1. blocks[i].txs = mined[i].txs
        <4>1. CASE i = 1
          BY <4>1 DEF LedgerInv, Alike
        <4>2. CASE i > 1
          <5>1. blocks[i].seal.of = HeaderHash(blocks[i])
            BY <4>2 DEF Validate, ValidBlock
          <5>2. HeaderHash(blocks[i]) = HeaderHash(mined[i])
            BY <5>1 DEF LedgerInv, Alike
          <5>3. QED
            BY <5>2 DEF HeaderHash
        <4>3. QED
          BY <2>1, <4>1, <4>2
      <3>2. blocks[i].hash = mined[i].hash
        <4>1. blocks[i].hash = ComputeHash(blocks[i]) /\ mined[i].hash = ComputeHash(mined[i])
          BY DEF Validate, LedgerInv, Alike
        <4>2. ComputeHash(blocks[i]) = ComputeHash(mined[i])
          BY <3>1 DEF ComputeHash, HeaderHash, LedgerInv, Alike
        <4>3. QED
          BY <4>1, <4>2
      <3>3. IsBlock(blocks[i]) /\ IsBlock(mined[i])
            /\ blocks[i].prev = mined[i].prev /\ blocks[i].seal = mined[i].seal
        BY DEF LedgerInv, Alike
      <3>4. QED
        BY <3>1, <3>2, <3>3 DEF IsBlock
    <2>3. QED
      BY <2>1, <2>2 DEF LedgerInv, Alike
  <1>2. QED
    BY <1>1, InitLedger, NextLedger, PTL DEF Spec

-----------------------------------------------------------------------------
(* The chain of a program is one.                                           *)

TxsHeld ==
    /\ miners \in DOMAIN Programs
    /\ \A i \in 1 .. Len(blocks) : blocks[i].txs \in Seq(Transactions)

HeldInv == LedgerInv /\ TxsHeld

LEMMA InitHeld == Init => HeldInv
  <1> SUFFICES ASSUME Init PROVE HeldInv
    OBVIOUS
  <1>1. Genesis.txs = <<>>
    BY SealedParts DEF Genesis
  <1>2. \A i \in 1 .. Len(blocks) : blocks[i] = Genesis
    BY DEF Init
  <1>3. \A i \in 1 .. Len(blocks) : blocks[i].txs \in Seq(Transactions)
    <2>1. <<>> \in Seq(Transactions)
      OBVIOUS
    <2>2. QED
      BY <1>1, <1>2, <2>1, Zenon
  <1>4. QED
    BY <1>3, InitLedger DEF Init, HeldInv, TxsHeld

LEMMA HeldMine ==
    ASSUME HeldInv, NEW miner \in miners, NEW batch \in Bound.offers, NEW quality,
           Mine(miner, batch, quality)
    PROVE  TxsHeld'
  <1> DEFINE txs == Append(batch, CoinbaseTx(miner))
             b == MinedBlock(blocks, batch, miner, quality)
  <1>1. txs \in Seq(Transactions)
    <2>1. miner \in Accounts /\ batch \in Seq(Transactions)
      BY ProgramsAssumption DEF HeldInv, TxsHeld, Bound
    <2>2. QED
      BY <2>1, RewardTyped
  <1>2. b.txs = txs
    <2>1. b = SealedBlock(blocks[Len(blocks)].hash, txs, quality)
      BY DEF MinedBlock
    <2> HIDE DEF b, txs
    <2>2. QED
      BY <2>1, SealedParts
  <1>3. PICK S : blocks \in Seq(S)
    BY DEF HeldInv, LedgerInv, Alike
  <1>4. blocks' = Append(blocks, b) /\ miners' = miners
    BY DEF Mine
  <1> HIDE DEF b, txs
  <1>5. /\ Len(blocks) \in Nat /\ Len(blocks') = Len(blocks) + 1
        /\ blocks'[Len(blocks) + 1] = b
        /\ \A i \in 1 .. Len(blocks) : blocks'[i] = blocks[i]
    <2>1. blocks \in Seq(S \cup {b}) /\ b \in S \cup {b}
      BY <1>3
    <2>2. QED
      BY <1>4, <2>1
  <1>6. ASSUME NEW i \in 1 .. Len(blocks') PROVE blocks'[i].txs \in Seq(Transactions)
    <2>1. CASE i = Len(blocks) + 1
      BY <1>1, <1>2, <1>5, <2>1
    <2>2. CASE i \in 1 .. Len(blocks)
      BY <1>5, <2>2 DEF HeldInv, TxsHeld
    <2>3. QED
      BY <1>5, <2>1, <2>2
  <1>7. QED
    BY <1>4, <1>6 DEF HeldInv, TxsHeld

LEMMA HeldEdit ==
    ASSUME HeldInv, NEW i \in 1 .. Len(blocks), NEW j \in 1 .. Len(blocks[i].txs),
           NEW to \in Accounts, NEW amount \in 1 .. Reward, Edit(i, j, to, amount)
    PROVE  TxsHeld'
  <1> DEFINE old == blocks[i].txs
             tx == [old[j] EXCEPT !.to = to, !.amount = amount]
             txs == [old EXCEPT ![j].to = to, ![j].amount = amount]
  <1>1. old \in Seq(Transactions) /\ old[j] \in Transactions
    BY DEF HeldInv, TxsHeld
  <1>2. tx \in Transactions
    <2>1. amount \in Int
      BY RewardAssumption
    <2> HIDE DEF old
    <2>2. QED
      BY <1>1, <2>1 DEF Transactions
  <1>3. txs \in Seq(Transactions)
    <2> HIDE DEF old
    <2>1. txs = [old EXCEPT ![j] = tx]
      BY <1>1 DEF Transactions
    <2>2. j \in 1 .. Len(old)
      BY DEF old
    <2> HIDE DEF txs, tx
    <2>3. QED
      BY <1>1, <1>2, <2>1, <2>2
  <1>4. IsBlock(blocks[i])
    BY DEF HeldInv, LedgerInv, Alike
  <1>5. [blocks[i] EXCEPT !.txs = txs].txs = txs
    BY <1>4 DEF IsBlock
  <1> DEFINE b == [blocks[i] EXCEPT !.txs = txs]
  <1>6. blocks' = [blocks EXCEPT ![i] = b] /\ miners' = miners
    BY DEF Edit
  <1>7. PICK S : blocks \in Seq(S)
    BY DEF HeldInv, LedgerInv, Alike
  <1> HIDE DEF txs, b
  <1>8. /\ Len(blocks') = Len(blocks)
        /\ \A k \in 1 .. Len(blocks) : blocks'[k] = IF k = i THEN b ELSE blocks[k]
    BY <1>6, <1>7
  <1>9. QED
    BY <1>3, <1>5, <1>6, <1>8 DEF HeldInv, TxsHeld, b

LEMMA HeldRehash ==
    ASSUME HeldInv, NEW i \in 1 .. Len(blocks), Rehash(i)
    PROVE  TxsHeld'
  <1> DEFINE b == [blocks[i] EXCEPT !.hash = ComputeHash(blocks[i])]
  <1>1. b.txs = blocks[i].txs
    BY DEF HeldInv, LedgerInv, Alike, IsBlock
  <1>2. blocks' = [blocks EXCEPT ![i] = b] /\ miners' = miners
    BY DEF Rehash
  <1>3. PICK S : blocks \in Seq(S)
    BY DEF HeldInv, LedgerInv, Alike
  <1> HIDE DEF b
  <1>4. /\ Len(blocks') = Len(blocks)
        /\ \A k \in 1 .. Len(blocks) : blocks'[k] = IF k = i THEN b ELSE blocks[k]
    BY <1>2, <1>3
  <1>5. QED
    BY <1>1, <1>2, <1>4 DEF HeldInv, TxsHeld

LEMMA NextHeld == HeldInv /\ [Next]_vars => HeldInv'
  <1> SUFFICES ASSUME HeldInv, [Next]_vars PROVE HeldInv'
    OBVIOUS
  <1>1. LedgerInv'
    BY NextLedger DEF HeldInv
  <1>2. TxsHeld'
    <2>1. CASE UNCHANGED vars
      BY <2>1 DEF vars, HeldInv, TxsHeld
    <2>2. CASE Next
      BY <2>1, <2>2, HeldMine, HeldEdit, HeldRehash DEF Next, MineRaises
    <2>3. QED
      BY <2>1, <2>2
  <1>3. QED
    BY <1>1, <1>2 DEF HeldInv

LEMMA ChainHolds == HeldInv => Holds(blocks)
  BY DEF HeldInv, LedgerInv, Alike, TxsHeld, Holds

\* Conserved: in a chain that validates, however it came about, all balances
\* together are one reward for every block mined.
THEOREM MoneyIsConserved == Spec => []Conserved
  <1>1. HeldInv => Conserved
    BY ChainHolds, ValidBooks DEF Conserved
  <1>2. QED
    BY <1>1, InitHeld, NextHeld, PTL DEF Spec

\* NoOverdraft: in a chain that validates, however it came about, no account's
\* balance is ever negative, after any of its transactions.
THEOREM NobodyOverdraws == Spec => []NoOverdraft
  <1>1. HeldInv => NoOverdraft
    BY ChainHolds, ValidBooks DEF NoOverdraft
  <1>2. QED
    BY <1>1, InitHeld, NextHeld, PTL DEF Spec

\* NoReplay: in a chain that validates, however it came about, the transfers of
\* an account carry the numbers 0, 1, 2, ... in the order they lie in.
THEOREM NothingIsReplayed == Spec => []NoReplay
  <1>1. HeldInv => NoReplay
    BY ChainHolds, ValidBooks DEF NoReplay
  <1>2. QED
    BY <1>1, InitHeld, NextHeld, PTL DEF Spec

-----------------------------------------------------------------------------
(* The difficulty.                                                          *)

\* Of the seals as they were mined, which nobody writes into.
SealsInv ==
    /\ HeldInv
    /\ \A i \in 1 .. Len(mined) : mined[i].seal.quality \in Nat

LEMMA InitSeals == Init => SealsInv
  <1> SUFFICES ASSUME Init PROVE SealsInv
    OBVIOUS
  <1>1. Genesis.seal.quality = 0
    BY SealedParts DEF Genesis
  <1>2. \A i \in 1 .. Len(mined) : mined[i] = Genesis
    BY DEF Init
  <1>3. QED
    BY <1>1, <1>2, InitHeld DEF SealsInv

LEMMA MinedSeal ==
    ASSUME SealsInv, NEW miner, NEW batch, NEW quality \in Bound.qualities,
           Mine(miner, batch, quality)
    PROVE  /\ quality \in Nat
           /\ \E b : /\ b.seal.quality = quality
                     /\ blocks' = Append(blocks, b) /\ mined' = Append(mined, b)
  <1> DEFINE b == MinedBlock(blocks, batch, miner, quality)
  <1>1. quality \in Nat
    BY QualityAssumption DEF SealsInv, HeldInv, TxsHeld, Bound
  <1>2. b.seal.quality = quality
    <2>1. b = SealedBlock(blocks[Len(blocks)].hash, Append(batch, CoinbaseTx(miner)), quality)
      BY DEF MinedBlock
    <2> HIDE DEF b
    <2>2. QED
      BY <2>1, SealedParts
  <1>3. blocks' = Append(blocks, b) /\ mined' = Append(mined, b)
    BY DEF Mine
  <1> HIDE DEF b
  <1>4. QED
    BY <1>1, <1>2, <1>3

LEMMA NextSeals == SealsInv /\ [Next]_vars => SealsInv'
  <1> SUFFICES ASSUME SealsInv, [Next]_vars PROVE SealsInv'
    OBVIOUS
  <1>1. HeldInv'
    BY NextHeld DEF SealsInv
  <1>2. \A i \in 1 .. Len(mined') : mined'[i].seal.quality \in Nat
    <2>1. CASE UNCHANGED mined
      BY <2>1 DEF SealsInv
    <2>2. ASSUME NEW miner \in miners, NEW batch \in Bound.offers,
                 NEW quality \in Bound.qualities, Mine(miner, batch, quality)
          PROVE  \A i \in 1 .. Len(mined') : mined'[i].seal.quality \in Nat
      <3>1. PICK b : b.seal.quality = quality /\ mined' = Append(mined, b)
        BY <2>2, MinedSeal
      <3>2. quality \in Nat
        BY <2>2, MinedSeal
      <3>3. PICK S : mined \in Seq(S)
        BY DEF SealsInv, HeldInv, LedgerInv, Alike
      <3>4. mined \in Seq(S \cup {b}) /\ b \in S \cup {b}
        BY <3>3
      <3>5. /\ Len(mined) \in Nat /\ Len(mined') = Len(mined) + 1
            /\ mined'[Len(mined) + 1] = b
            /\ \A i \in 1 .. Len(mined) : mined'[i] = mined[i]
        BY <3>1, <3>4
      <3>6. ASSUME NEW i \in 1 .. Len(mined') PROVE mined'[i].seal.quality \in Nat
        <4>1. CASE i = Len(mined) + 1
          BY <3>1, <3>2, <3>5, <4>1
        <4>2. CASE i \in 1 .. Len(mined)
          BY <3>5, <4>2 DEF SealsInv
        <4>3. QED
          BY <3>5, <4>1, <4>2
      <3>7. QED
        BY <3>6
    <2>3. QED
      BY <2>1, <2>2 DEF Next, Edit, Rehash, MineRaises, vars
  <1>3. QED
    BY <1>1, <1>2 DEF SealsInv

\* DifficultyNeverFalls: whatever is mined and whatever is written into, the
\* target the next block has to reach is never below the one before.
THEOREM TargetNeverFalls == Spec => DifficultyNeverFalls
  <1>1. SealsInv /\ SealsInv' /\ [Next]_vars
          => [blocks' # blocks => Difficulty(blocks') >= Difficulty(blocks)]_vars
    <2> SUFFICES ASSUME SealsInv, SealsInv', Next, blocks' # blocks
                 PROVE  Difficulty(blocks') >= Difficulty(blocks)
      BY DEF vars
    <2>1. PICK S : blocks \in Seq(S)
      BY DEF SealsInv, HeldInv, LedgerInv, Alike
    <2>2. PICK R : blocks' \in Seq(R)
      BY DEF SealsInv, HeldInv, LedgerInv, Alike
    <2>3. /\ Len(blocks) > 0 /\ Len(blocks') > 0
          /\ Len(blocks) \in Nat
          /\ \A i \in 1 .. Len(blocks) : blocks[i].seal.quality \in Nat
      BY <2>1 DEF SealsInv, HeldInv, LedgerInv, Alike
    <2>4. ASSUME NEW miner \in miners, NEW batch \in Bound.offers,
                 NEW quality \in Bound.qualities, Mine(miner, batch, quality)
          PROVE  Difficulty(blocks') >= Difficulty(blocks)
      <3>1. PICK b : b.seal.quality = quality /\ blocks' = Append(blocks, b)
        BY <2>4, MinedSeal
      <3>2. quality \in Nat /\ quality >= Difficulty(blocks)
        BY <2>4, MinedSeal DEF Mine, Seals
      <3>3. blocks \in Seq(S \cup {b}) /\ b \in S \cup {b}
        BY <2>1
      <3>4. Difficulty(Append(blocks, b)) >= Difficulty(blocks)
        BY <2>3, <3>1, <3>2, <3>3, MineRaisesDifficulty
      <3>5. QED
        BY <3>1, <3>4
    <2>5. CASE mined' = mined
      <3>1. /\ Len(blocks') = Len(blocks)
            /\ \A i \in 1 .. Len(blocks) : blocks'[i].seal = blocks[i].seal
        BY <2>5 DEF SealsInv, HeldInv, LedgerInv, Alike
      <3>2. QualitiesIn(blocks') = QualitiesIn(blocks)
        <4>1. \A i \in 1 .. Len(blocks) - 1 : i + 1 \in 1 .. Len(blocks)
          BY <2>3
        <4>2. QED
          BY <3>1, <4>1 DEF QualitiesIn
      <3>3. Difficulty(blocks') = Difficulty(blocks)
        BY <2>1, <2>2, <2>3, <3>1, <3>2, DifficultyIs
      <3>4. Difficulty(blocks) \in Int
        <4>1. CASE Len(blocks) = 1
          <5>1. Difficulty(blocks) = 0
            BY <2>1, <2>3, <4>1, DifficultyIs
          <5>2. QED
            BY <5>1
        <4>2. CASE Len(blocks) # 1
          <5>1. Difficulty(blocks) = Median(QualitiesIn(blocks))
            BY <2>1, <2>3, <4>2, DifficultyIs
          <5>2. PICK n \in Nat \ {0} : n = Len(blocks) - 1
            <6>1. Len(blocks) - 1 \in Nat \ {0}
              BY <2>3, <4>2
            <6>2. QED
              BY <6>1
          <5>3. QualitiesIn(blocks) \in [1 .. n -> Nat]
            BY <2>3, <5>2 DEF QualitiesIn
          <5>4. QED
            BY <5>1, <5>3, MedianInt
        <4>3. QED
          BY <4>1, <4>2
      <3>5. QED
        BY <3>3, <3>4
    <2>6. QED
      BY <2>4, <2>5 DEF Next, Edit, Rehash, MineRaises, vars
  <1>2. QED
    BY <1>1, InitSeals, NextSeals, PTL DEF Spec, DifficultyNeverFalls
=============================================================================
