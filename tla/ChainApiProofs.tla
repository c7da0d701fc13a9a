--------------------------- MODULE ChainApiProofs ---------------------------
(* For every set of requests and transactions: the endpoints keep their     *)
(* types, no transfer is in two places, and what was answered is kept until *)
(* a mine fails; as long as mine requests on a chain do not overlap between *)
(* the check and the append, every chain the server has validates and its   *)
(* books are in order.                                                      *)
EXTENDS ChainApi, ChainProofs

Waiting == {TxOf[s] : s \in Submitters}

-----------------------------------------------------------------------------
(* Types.  What blocks are made of does not matter: some set holds them.    *)

ChainsOf(S) == chains \in Seq(Seq(S) \ {<<>>})
ChainsTyped == \E S : ChainsOf(S)

LocalTyped ==
    /\ ch \in [Miners -> Nat]
    /\ txs \in [Miners -> Seq(Waiting)]
    /\ prev = [m \in Miners |-> prev[m]]
    /\ target = [m \in Miners |-> target[m]]

ApiInv == TypeOK /\ ChainsTyped /\ LocalTyped

LEMMA MoreBlocks ==
    ASSUME NEW S, NEW T, S \subseteq T
    PROVE  Seq(Seq(S) \ {<<>>}) \subseteq Seq(Seq(T) \ {<<>>})
  <1>1. Seq(S) \subseteq Seq(T)
    OBVIOUS
  <1>2. Seq(S) \ {<<>>} \subseteq Seq(T) \ {<<>>}
    BY <1>1
  <1> DEFINE A == Seq(S) \ {<<>>}
             C == Seq(T) \ {<<>>}
  <1> HIDE DEF A, C
  <1>3. A \subseteq C => Seq(A) \subseteq Seq(C)
    OBVIOUS
  <1>4. QED
    BY <1>2, <1>3 DEF A, C

LEMMA InitApi == Init => ApiInv
  <1> SUFFICES ASSUME Init PROVE ApiInv
    OBVIOUS
  <1> USE DEF Init
  <1>1. TypeOK
    BY DEF TypeOK, Threads
  <1>2. ChainsTyped
    BY DEF ChainsTyped, ChainsOf
  <1>3. LocalTyped
    BY DEF LocalTyped
  <1>4. QED
    BY <1>1, <1>2, <1>3 DEF ApiInv

\* The three kinds of steps: those that leave the chains alone, the one that
\* adds a chain, and the one that adds a block to a chain.
LEMMA SameChains ==
    ASSUME ChainsTyped, UNCHANGED chains
    PROVE  ChainsTyped'
  BY DEF ChainsTyped, ChainsOf

LEMMA OneChainMore ==
    ASSUME ChainsTyped, chains' = Append(chains, <<Genesis>>)
    PROVE  /\ ChainsTyped'
           /\ Len(chains) \in Nat /\ Len(chains') = Len(chains) + 1
           /\ DOMAIN chains = 1 .. Len(chains) /\ DOMAIN chains' = 1 .. Len(chains')
           /\ \A i \in DOMAIN chains : chains'[i] = chains[i]
           /\ chains'[Len(chains')] = <<Genesis>>
  <1>1. PICK S : chains \in Seq(Seq(S) \ {<<>>})
    BY DEF ChainsTyped, ChainsOf
  <1> DEFINE T == S \cup {Genesis}
  <1>2. chains \in Seq(Seq(T) \ {<<>>})
    <2>1. S \subseteq T
      OBVIOUS
    <2> HIDE DEF T
    <2>2. QED
      BY <1>1, <2>1, MoreBlocks
  <1>3. <<Genesis>> \in Seq(T) \ {<<>>}
    OBVIOUS
  <1> HIDE DEF T
  <1>4. chains' \in Seq(Seq(T) \ {<<>>})
    BY <1>2, <1>3
  <1>5. ChainsTyped'
    BY <1>4 DEF ChainsTyped, ChainsOf
  <1> DEFINE A == Seq(T) \ {<<>>}
  <1>6. chains \in Seq(A) /\ <<Genesis>> \in A
    BY <1>2, <1>3
  <1> HIDE DEF A
  <1>7. QED
    BY <1>5, <1>6

LEMMA OneBlockMore ==
    ASSUME ChainsTyped, NEW c \in DOMAIN chains, NEW b,
           chains' = [chains EXCEPT ![c] = Append(@, b)]
    PROVE  /\ ChainsTyped'
           /\ Len(chains') = Len(chains) /\ DOMAIN chains' = DOMAIN chains
           /\ chains'[c] = Append(chains[c], b)
           /\ \A i \in DOMAIN chains : i # c => chains'[i] = chains[i]
           /\ \E T : chains[c] \in Seq(T) /\ chains[c] # <<>> /\ b \in T
  <1>1. PICK S : chains \in Seq(Seq(S) \ {<<>>})
    BY DEF ChainsTyped, ChainsOf
  <1> DEFINE T == S \cup {b}
  <1>2. chains \in Seq(Seq(T) \ {<<>>})
    <2>1. S \subseteq T
      OBVIOUS
    <2> HIDE DEF T
    <2>2. QED
      BY <1>1, <2>1, MoreBlocks
  <1>3. b \in T
    OBVIOUS
  <1> HIDE DEF T
  <1>4. chains[c] \in Seq(T) /\ chains[c] # <<>>
    BY <1>2
  <1>5. Append(chains[c], b) \in Seq(T) \ {<<>>}
    BY <1>3, <1>4
  <1> DEFINE A == Seq(T) \ {<<>>}
  <1>6. chains \in Seq(A) /\ Append(chains[c], b) \in A
    BY <1>2, <1>5
  <1> HIDE DEF A
  <1>7. /\ chains' \in Seq(A)
        /\ Len(chains') = Len(chains) /\ DOMAIN chains' = DOMAIN chains
        /\ chains'[c] = Append(chains[c], b)
        /\ \A i \in DOMAIN chains : i # c => chains'[i] = chains[i]
    BY <1>6
  <1>8. ChainsTyped'
    BY <1>7 DEF A, ChainsTyped, ChainsOf
  <1>9. QED
    BY <1>3, <1>4, <1>7, <1>8

LEMMA FindNoneTypes ==
    ASSUME ApiInv, NEW t \in Threads, FindNone(t) PROVE ApiInv'
  <1> USE DEF FindNone, At, GoTo, local
  <1>1. TypeOK'
    BY DEF ApiInv, TypeOK, Threads
  <1>2. ChainsTyped'
    BY SameChains DEF ApiInv
  <1>3. LocalTyped'
    BY DEF ApiInv, LocalTyped
  <1>4. QED
    BY <1>1, <1>2, <1>3 DEF ApiInv

LEMMA InstallTypes ==
    ASSUME ApiInv, NEW t \in Threads, Install(t) PROVE ApiInv'
  <1> USE DEF Install, Enter, At, GoTo
  <1>1. /\ ChainsTyped'
        /\ Len(chains) \in Nat /\ Len(chains') = Len(chains) + 1
        /\ DOMAIN chains = 1 .. Len(chains) /\ DOMAIN chains' = 1 .. Len(chains')
    BY OneChainMore DEF ApiInv
  <1>2. TypeOK'
    <2>1. current' \in 0 .. Len(chains') /\ current' \in DOMAIN chains'
      BY <1>1
    <2>2. /\ mempool' \in Seq(Waiting) /\ answered' \subseteq Submitters
          /\ pc' \in [Threads -> {"idle", "build", "take", "check", "head", "seal", "done"}]
      BY DEF ApiInv, TypeOK, Waiting
    <2>3. ASSUME NEW m \in Miners, pc'[m] \in {"take", "check", "head", "seal"}
          PROVE  ch'[m] \in DOMAIN chains'
      <3>1. CASE m = t
        BY <3>1, <2>1, <2>3 DEF ApiInv, TypeOK, LocalTyped, Threads
      <3>2. CASE m # t
        <4>1. pc'[m] = pc[m] /\ ch'[m] = ch[m]
          BY <3>2 DEF ApiInv, TypeOK, LocalTyped, Threads
        <4>2. ch[m] \in DOMAIN chains
          BY <4>1, <2>3 DEF ApiInv, TypeOK
        <4>3. QED
          BY <4>1, <4>2, <1>1
      <3>3. QED
        BY <3>1, <3>2
    <2>4. ASSUME NEW m \in Miners, pc'[m] \in {"idle", "build", "take"}
          PROVE  txs'[m] = <<>>
      <3>1. pc[m] \in {"idle", "build", "take"}
        BY <2>4 DEF ApiInv, TypeOK, Threads
      <3>2. QED
        BY <3>1 DEF ApiInv, TypeOK
    <2>5. QED
      BY <2>1, <2>2, <2>3, <2>4 DEF TypeOK, Waiting
  <1>3. LocalTyped'
    <2>1. current' \in Nat
      BY <1>1
    <2>2. ch' \in [Miners -> Nat]
      BY <2>1 DEF ApiInv, LocalTyped
    <2>3. QED
      BY <2>2 DEF ApiInv, LocalTyped
  <1>4. QED
    BY <1>1, <1>2, <1>3 DEF ApiInv

LEMMA FindChainTypes ==
    ASSUME ApiInv, NEW t \in Threads, FindChain(t) PROVE ApiInv'
  <1> USE DEF FindChain, Enter, At, GoTo
  <1>1. ChainsTyped' /\ current \in DOMAIN chains /\ current \in Nat
    <2>1. ChainsTyped'
      BY SameChains DEF ApiInv
    <2>2. PICK S : chains \in Seq(Seq(S) \ {<<>>})
      BY DEF ApiInv, ChainsTyped, ChainsOf
    <2>3. QED
      BY <2>1, <2>2 DEF ApiInv, TypeOK
  <1>2. TypeOK'
    <2>1. ASSUME NEW m \in Miners, pc'[m] \in {"take", "check", "head", "seal"}
          PROVE  ch'[m] \in DOMAIN chains'
      BY <2>1, <1>1 DEF ApiInv, TypeOK, LocalTyped, Threads
    <2>2. ASSUME NEW m \in Miners, pc'[m] \in {"idle", "build", "take"}
          PROVE  txs'[m] = <<>>
      BY <2>2 DEF ApiInv, TypeOK, Threads
    <2>3. QED
      BY <2>1, <2>2 DEF ApiInv, TypeOK
  <1>3. LocalTyped'
    BY <1>1 DEF ApiInv, LocalTyped
  <1>4. QED
    BY <1>1, <1>2, <1>3 DEF ApiInv

LEMMA SubmitTypes ==
    ASSUME ApiInv, NEW s \in Submitters, Submit(s) PROVE ApiInv'
  <1> USE DEF Submit, Queued, local
  <1>1. mempool' \in Seq(Waiting)
    BY DEF ApiInv, TypeOK, Waiting
  <1>2. TypeOK'
    BY <1>1 DEF ApiInv, TypeOK, Waiting
  <1>3. ChainsTyped'
    BY SameChains DEF ApiInv
  <1>4. LocalTyped'
    BY DEF ApiInv, LocalTyped
  <1>5. QED
    BY <1>2, <1>3, <1>4 DEF ApiInv

LEMMA TakeTypes ==
    ASSUME ApiInv, NEW m \in Miners, Take(m) PROVE ApiInv'
  <1> USE DEF Take, LeftInPool, At, GoTo
  <1>1. TypeOK'
    <2>1. mempool' \in Seq(Waiting)
      OBVIOUS
    <2>2. ASSUME NEW n \in Miners, pc'[n] \in {"take", "check", "head", "seal"}
          PROVE  ch'[n] \in DOMAIN chains'
      BY <2>2 DEF ApiInv, TypeOK, Threads
    <2>3. ASSUME NEW n \in Miners, pc'[n] \in {"idle", "build", "take"}
          PROVE  txs'[n] = <<>>
      BY <2>3 DEF ApiInv, TypeOK, LocalTyped, Threads
    <2>4. QED
      BY <2>1, <2>2, <2>3 DEF ApiInv, TypeOK, Waiting, Threads
  <1>2. ChainsTyped'
    BY SameChains DEF ApiInv
  <1>3. LocalTyped'
    <2>1. mempool \in Seq(Waiting)
      BY DEF ApiInv, TypeOK, Waiting
    <2>2. QED
      BY <2>1 DEF ApiInv, LocalTyped
  <1>4. QED
    BY <1>1, <1>2, <1>3 DEF ApiInv

LEMMA CheckTypes ==
    ASSUME ApiInv, NEW m \in Miners, Check(m) PROVE ApiInv'
  <1> USE DEF Check, At, GoTo, local
  <1>1. TypeOK'
    BY DEF ApiInv, TypeOK, Threads
  <1>2. ChainsTyped'
    BY SameChains DEF ApiInv
  <1>3. LocalTyped'
    BY DEF ApiInv, LocalTyped
  <1>4. QED
    BY <1>1, <1>2, <1>3 DEF ApiInv

LEMMA ReadHeadTypes ==
    ASSUME ApiInv, NEW m \in Miners, ReadHead(m) PROVE ApiInv'
  <1> USE DEF ReadHead, At, GoTo
  <1>1. TypeOK'
    BY DEF ApiInv, TypeOK, Threads
  <1>2. ChainsTyped'
    BY SameChains DEF ApiInv
  <1>3. LocalTyped'
    BY DEF ApiInv, LocalTyped
  <1>4. QED
    BY <1>1, <1>2, <1>3 DEF ApiInv

\* What an end of a mine request, good or bad, does to the miner's locals.
Returns(m) ==
    /\ pc[m] \in {"check", "seal"} /\ GoTo(m, "idle")
    /\ txs' = [txs EXCEPT ![m] = <<>>]
    /\ prev' = [prev EXCEPT ![m] = <<>>]
    /\ target' = [target EXCEPT ![m] = 0]
    /\ UNCHANGED ch

LEMMA ReturnTypes ==
    ASSUME ApiInv, NEW m \in Miners, Returns(m),
           DOMAIN chains' = DOMAIN chains
    PROVE  /\ LocalTyped'
           /\ pc' \in [Threads -> {"idle", "build", "take", "check", "head", "seal", "done"}]
           /\ \A n \in Miners : pc'[n] \in {"take", "check", "head", "seal"}
                                    => ch'[n] \in DOMAIN chains'
           /\ \A n \in Miners : pc'[n] \in {"idle", "build", "take"} => txs'[n] = <<>>
  <1> USE DEF Returns, GoTo
  <1>1. LocalTyped'
    <2>1. txs' \in [Miners -> Seq(Waiting)]
      BY DEF ApiInv, LocalTyped
    <2>2. prev' = [n \in Miners |-> prev'[n]] /\ target' = [n \in Miners |-> target'[n]]
      BY DEF ApiInv, LocalTyped
    <2>3. QED
      BY <2>1, <2>2 DEF ApiInv, LocalTyped
  <1>2. pc' \in [Threads -> {"idle", "build", "take", "check", "head", "seal", "done"}]
    BY DEF ApiInv, TypeOK
  <1>3. ASSUME NEW n \in Miners, pc'[n] \in {"take", "check", "head", "seal"}
        PROVE  ch'[n] \in DOMAIN chains'
    BY <1>3 DEF ApiInv, TypeOK, Threads
  <1>4. ASSUME NEW n \in Miners, pc'[n] \in {"idle", "build", "take"}
        PROVE  txs'[n] = <<>>
    BY <1>4 DEF ApiInv, TypeOK, LocalTyped, Threads
  <1>5. QED
    BY <1>1, <1>2, <1>3, <1>4

LEMMA AppendTypes ==
    ASSUME ApiInv, NEW m \in Miners, AppendBlock(m) PROVE ApiInv'
  <1> USE DEF AppendBlock, At
  <1>1. ch[m] \in DOMAIN chains
    BY DEF ApiInv, TypeOK
  <1>2. ChainsTyped' /\ Len(chains') = Len(chains) /\ DOMAIN chains' = DOMAIN chains
    BY <1>1, OneBlockMore DEF ApiInv
  <1>3. Returns(m)
    BY DEF Returns
  <1>4. QED
    BY <1>2, <1>3, ReturnTypes DEF ApiInv, TypeOK

LEMMA RaiseTypes ==
    ASSUME ApiInv, NEW m \in Miners, MineRaises(m) PROVE ApiInv'
  <1> USE DEF MineRaises, PutBack, At
  <1>1. Returns(m)
    BY DEF Returns
  <1>2. mempool' \in Seq(Waiting)
    BY DEF ApiInv, LocalTyped
  <1>3. ChainsTyped'
    BY SameChains DEF ApiInv
  <1>4. QED
    BY <1>1, <1>2, <1>3, ReturnTypes DEF ApiInv, TypeOK, Waiting

LEMMA NextApi == ApiInv /\ [Next]_vars => ApiInv'
  <1> SUFFICES ASSUME ApiInv, [Next]_vars PROVE ApiInv'
    OBVIOUS
  <1>1. ASSUME NEW t \in Threads, FindNone(t) \/ Install(t) \/ FindChain(t) PROVE ApiInv'
    BY <1>1, FindNoneTypes, InstallTypes, FindChainTypes
  <1>2. ASSUME NEW s \in Submitters, Submit(s) PROVE ApiInv'
    BY <1>2, SubmitTypes
  <1>3. ASSUME NEW m \in Miners, Mine(m) PROVE ApiInv'
    BY <1>3, TakeTypes, CheckTypes, ReadHeadTypes, AppendTypes, RaiseTypes DEF Mine
  <1>4. ASSUME UNCHANGED vars PROVE ApiInv'
    BY <1>4, SameChains DEF ApiInv, TypeOK, LocalTyped, vars, local
  <1>5. QED
    BY <1>1, <1>2, <1>3, <1>4 DEF Next

\* TypeOK: a miner always works on a chain there is, and holds no transactions
\* but between the taking of the pool and the end of its request.
THEOREM ApiTypes == Spec => []TypeOK
  <1>1. ApiInv => TypeOK
    BY DEF ApiInv
  <1>2. QED
    BY <1>1, InitApi, NextApi, PTL DEF Spec

-----------------------------------------------------------------------------
(* Mine requests in turn: between a miner's check and its append the chain  *)
(* it works on stays as it was, since nobody else appends to it, and the    *)
(* server's putting another chain in its place does not change it.          *)

\* No two requests are past their checks and not yet at an end on one chain:
\* what a lock held from the check to the append would make of any number of
\* threads, and what a single thread is without one.
Serial ==
    \A m, n \in Miners :
        m # n /\ {pc[m], pc[n]} \subseteq {"head", "seal"} => ch[m] # ch[n]

LEMMA AloneIsSerial == ASSUME NEW m, Miners = {m} PROVE Serial
  BY DEF Serial

Work(m) == chains[ch[m]]

StillChecked ==
    \A m \in Miners :
        pc[m] \in {"head", "seal"} =>
            CheckTxs(Work(m), Append(txs[m], CoinbaseTx(MinerAccount)))

StillHead ==
    \A m \in Miners :
        pc[m] = "seal" =>
            /\ prev[m] = Work(m)[Len(Work(m))].hash
            /\ target[m] = Difficulty(Work(m))

WorkInv == ApiInv /\ ChainsValid /\ StillChecked /\ StillHead

LEMMA InitWork == Init => WorkInv
  <1> SUFFICES ASSUME Init PROVE WorkInv
    OBVIOUS
  <1>1. ApiInv
    BY InitApi
  <1>2. ChainsValid
    BY DEF Init, ChainsValid
  <1>3. StillChecked /\ StillHead
    BY DEF Init, StillChecked, StillHead, Threads
  <1>4. QED
    BY <1>1, <1>2, <1>3 DEF WorkInv

\* A step that leaves the chains alone, and any miner who is or comes to be
\* behind the check as it was.
LEMMA QuietStep ==
    ASSUME WorkInv, UNCHANGED chains,
           \A m \in Miners : pc'[m] \in {"head", "seal"} =>
                /\ pc'[m] = pc[m]
                /\ ch'[m] = ch[m] /\ txs'[m] = txs[m]
                /\ prev'[m] = prev[m] /\ target'[m] = target[m]
    PROVE  ChainsValid' /\ StillChecked' /\ StillHead'
  <1>1. ChainsValid'
    BY DEF WorkInv, ChainsValid
  <1>2. ASSUME NEW m \in Miners, pc'[m] \in {"head", "seal"}
        PROVE  /\ pc[m] = pc'[m] /\ Work(m)' = Work(m) /\ txs'[m] = txs[m]
               /\ prev'[m] = prev[m] /\ target'[m] = target[m]
    BY <1>2 DEF Work
  <1>3. StillChecked'
    BY <1>2 DEF WorkInv, StillChecked
  <1>4. StillHead'
    BY <1>2 DEF WorkInv, StillHead
  <1>5. QED
    BY <1>1, <1>3, <1>4

LEMMA InstallKeeps ==
    ASSUME WorkInv, NEW t \in Threads, Install(t)
    PROVE  ChainsValid' /\ StillChecked' /\ StillHead'
  <1> USE DEF Install
  <1>1. /\ Len(chains) \in Nat /\ Len(chains') = Len(chains) + 1
        /\ DOMAIN chains = 1 .. Len(chains) /\ DOMAIN chains' = 1 .. Len(chains')
        /\ \A i \in DOMAIN chains : chains'[i] = chains[i]
        /\ chains'[Len(chains')] = <<Genesis>>
    BY OneChainMore DEF WorkInv, ApiInv
  <1>2. ChainsValid'
    <2>1. ASSUME NEW i \in DOMAIN chains' PROVE Validate(chains'[i])
      <3>1. CASE i \in DOMAIN chains
        BY <3>1, <1>1 DEF WorkInv, ChainsValid
      <3>2. CASE i = Len(chains')
        BY <3>2, <1>1, GenesisValid
      <3>3. QED
        BY <3>1, <3>2, <1>1
    <2>2. QED
      BY <2>1 DEF ChainsValid
  <1>3. ASSUME NEW m \in Miners, pc'[m] \in {"head", "seal"}
        PROVE  /\ pc[m] = pc'[m] /\ Work(m)' = Work(m) /\ txs'[m] = txs[m]
               /\ prev'[m] = prev[m] /\ target'[m] = target[m]
    <2>1. m # t /\ pc'[m] = pc[m] /\ ch'[m] = ch[m]
      BY <1>3 DEF Enter, GoTo, WorkInv, ApiInv, TypeOK, LocalTyped, Threads
    <2>2. ch[m] \in DOMAIN chains
      BY <1>3, <2>1 DEF WorkInv, ApiInv, TypeOK
    <2>3. QED
      BY <2>1, <2>2, <1>1 DEF Work
  <1>4. StillChecked'
    BY <1>3 DEF WorkInv, StillChecked
  <1>5. StillHead'
    BY <1>3 DEF WorkInv, StillHead
  <1>6. QED
    BY <1>2, <1>4, <1>5

LEMMA CheckKeeps ==
    ASSUME WorkInv, NEW m \in Miners, Check(m)
    PROVE  ChainsValid' /\ StillChecked' /\ StillHead'
  <1> USE DEF Check, At, GoTo, local
  <1>1. ChainsValid'
    BY DEF WorkInv, ChainsValid
  <1>2. StillChecked'
    <2>1. ASSUME NEW n \in Miners, pc'[n] \in {"head", "seal"}
          PROVE  CheckTxs(Work(n), Append(txs[n], CoinbaseTx(MinerAccount)))
      <3>1. CASE n = m
        BY <3>1 DEF Acceptable, Work
      <3>2. CASE n # m
        BY <3>2, <2>1 DEF WorkInv, StillChecked, ApiInv, TypeOK, Threads
      <3>3. QED
        BY <3>1, <3>2
    <2>2. QED
      BY <2>1 DEF StillChecked, Work
  <1>3. StillHead'
    <2>1. ASSUME NEW n \in Miners, pc'[n] = "seal" PROVE pc[n] = "seal"
      BY <2>1 DEF WorkInv, ApiInv, TypeOK, Threads
    <2>2. QED
      BY <2>1 DEF WorkInv, StillHead, Work
  <1>4. QED
    BY <1>1, <1>2, <1>3

LEMMA ReadHeadKeeps ==
    ASSUME WorkInv, NEW m \in Miners, ReadHead(m)
    PROVE  ChainsValid' /\ StillChecked' /\ StillHead'
  <1> USE DEF ReadHead, At, GoTo
  <1>1. ChainsValid'
    BY DEF WorkInv, ChainsValid
  <1>2. StillChecked'
    <2>1. ASSUME NEW n \in Miners, pc'[n] \in {"head", "seal"}
          PROVE  pc[n] \in {"head", "seal"}
      BY <2>1 DEF WorkInv, ApiInv, TypeOK, Threads
    <2>2. QED
      BY <2>1 DEF WorkInv, StillChecked, Work
  <1>3. StillHead'
    <2>1. ASSUME NEW n \in Miners, pc'[n] = "seal"
          PROVE  /\ prev'[n] = Work(n)[Len(Work(n))].hash
                 /\ target'[n] = Difficulty(Work(n))
      <3>1. CASE n = m
        BY <3>1 DEF Work, WorkInv, ApiInv, LocalTyped
      <3>2. CASE n # m
        <4>1. pc[n] = "seal" /\ prev'[n] = prev[n] /\ target'[n] = target[n]
          BY <3>2, <2>1 DEF WorkInv, ApiInv, TypeOK, LocalTyped, Threads
        <4>2. QED
          BY <4>1 DEF WorkInv, StillHead
      <3>3. QED
        BY <3>1, <3>2
    <2>2. QED
      BY <2>1 DEF StillHead, Work
  <1>4. QED
    BY <1>1, <1>2, <1>3

\* The append, with no other miner at work on the same chain.
LEMMA AppendKeeps ==
    ASSUME WorkInv, Serial, NEW m \in Miners, AppendBlock(m)
    PROVE  ChainsValid' /\ StillChecked' /\ StillHead'
  <1> USE DEF AppendBlock, At, GoTo
  <1> DEFINE batch == Append(txs[m], CoinbaseTx(MinerAccount))
  <1>1. ch[m] \in DOMAIN chains
    BY DEF WorkInv, ApiInv, TypeOK
  <1>2. PICK quality \in Qualities :
            /\ Seals(quality, target[m])
            /\ chains' = [chains EXCEPT ![ch[m]] =
                              Append(@, SealedBlock(prev[m], batch, quality))]
    OBVIOUS
  <1> DEFINE b == SealedBlock(prev[m], batch, quality)
  <1> HIDE DEF b, batch
  <1>3. /\ DOMAIN chains' = DOMAIN chains
        /\ chains'[ch[m]] = Append(chains[ch[m]], b)
        /\ \A i \in DOMAIN chains : i # ch[m] => chains'[i] = chains[i]
        /\ \E T : chains[ch[m]] \in Seq(T) /\ chains[ch[m]] # <<>> /\ b \in T
    <2>1. chains' = [chains EXCEPT ![ch[m]] = Append(@, b)]
      BY <1>2 DEF b
    <2>2. QED
      BY <1>1, <2>1, OneBlockMore DEF WorkInv, ApiInv
  <1>4. Validate(Append(chains[ch[m]], b))
    <2>1. PICK T : chains[ch[m]] \in Seq(T) /\ chains[ch[m]] # <<>> /\ b \in T
      BY <1>3
    <2>2. Validate(chains[ch[m]])
      BY <1>1 DEF WorkInv, ChainsValid
    <2>3. CheckTxs(chains[ch[m]], batch)
      BY DEF WorkInv, StillChecked, Work, batch
    <2>4. /\ Seals(quality, Difficulty(chains[ch[m]]))
          /\ b = SealedBlock(chains[ch[m]][Len(chains[ch[m]])].hash, batch, quality)
      <3>1. /\ prev[m] = chains[ch[m]][Len(chains[ch[m]])].hash
            /\ target[m] = Difficulty(chains[ch[m]])
        BY DEF WorkInv, StillHead, Work
      <3>2. QED
        BY <1>2, <3>1 DEF b
    <2>5. QED
      BY <2>1, <2>2, <2>3, <2>4, ValidAppend
  <1>5. ChainsValid'
    <2>1. ASSUME NEW i \in DOMAIN chains' PROVE Validate(chains'[i])
      BY <2>1, <1>3, <1>4 DEF WorkInv, ChainsValid
    <2>2. QED
      BY <2>1 DEF ChainsValid
  <1>6. ASSUME NEW n \in Miners, pc'[n] \in {"head", "seal"}
        PROVE  /\ pc[n] = pc'[n] /\ Work(n)' = Work(n) /\ txs'[n] = txs[n]
               /\ prev'[n] = prev[n] /\ target'[n] = target[n]
    <2>1. n # m /\ pc'[n] = pc[n]
      BY <1>6 DEF WorkInv, ApiInv, TypeOK, Threads
    <2>2. ch'[n] = ch[n] /\ ch[n] \in DOMAIN chains /\ ch[n] # ch[m]
      BY <1>6, <2>1 DEF Serial, WorkInv, ApiInv, TypeOK
    <2>3. Work(n)' = Work(n)
      BY <1>3, <2>2 DEF Work
    <2>4. txs'[n] = txs[n] /\ prev'[n] = prev[n] /\ target'[n] = target[n]
      BY <2>1 DEF WorkInv, ApiInv, LocalTyped
    <2>5. QED
      BY <2>1, <2>3, <2>4
  <1>7. StillChecked'
    BY <1>6 DEF WorkInv, StillChecked
  <1>8. StillHead'
    BY <1>6 DEF WorkInv, StillHead
  <1>9. QED
    BY <1>5, <1>7, <1>8

LEMMA NextWork == WorkInv /\ Serial /\ [Next]_vars => WorkInv'
  <1> SUFFICES ASSUME WorkInv, Serial, [Next]_vars PROVE WorkInv'
    OBVIOUS
  <1>1. ApiInv'
    BY NextApi DEF WorkInv
  <1> DEFINE Kept == ChainsValid' /\ StillChecked' /\ StillHead'
  <1> HIDE DEF Kept
  <1>2. ASSUME NEW t \in Threads, FindNone(t) PROVE Kept
    <2>1. \A n \in Miners : pc'[n] \in {"head", "seal"} => pc'[n] = pc[n]
      BY <1>2 DEF FindNone, GoTo, At, WorkInv, ApiInv, TypeOK, Threads
    <2>2. QED
      BY <1>2, <2>1, QuietStep DEF FindNone, local, Kept
  <1>3. ASSUME NEW t \in Threads, Install(t) PROVE Kept
    BY <1>3, InstallKeeps DEF Kept
  <1>4. ASSUME NEW t \in Threads, FindChain(t) PROVE Kept
    <2>1. \A n \in Miners : pc'[n] \in {"head", "seal"} => pc'[n] = pc[n] /\ ch'[n] = ch[n]
      BY <1>4 DEF FindChain, Enter, GoTo, At, WorkInv, ApiInv, TypeOK, LocalTyped, Threads
    <2>2. QED
      BY <1>4, <2>1, QuietStep DEF FindChain, Kept
  <1>5. ASSUME NEW s \in Submitters, Submit(s) PROVE Kept
    BY <1>5, QuietStep DEF Submit, local, Kept
  <1>6. ASSUME NEW n \in Miners, Take(n) PROVE Kept
    <2>1. \A k \in Miners : pc'[k] \in {"head", "seal"} => pc'[k] = pc[k] /\ txs'[k] = txs[k]
      BY <1>6 DEF Take, GoTo, At, WorkInv, ApiInv, TypeOK, LocalTyped, Threads
    <2>2. QED
      BY <1>6, <2>1, QuietStep DEF Take, Kept
  <1>7. ASSUME NEW n \in Miners, Check(n) PROVE Kept
    BY <1>7, CheckKeeps DEF Kept
  <1>8. ASSUME NEW n \in Miners, ReadHead(n) PROVE Kept
    BY <1>8, ReadHeadKeeps DEF Kept
  <1>9. ASSUME NEW n \in Miners, AppendBlock(n) PROVE Kept
    BY <1>9, AppendKeeps DEF Kept
  <1>10. ASSUME NEW n \in Miners, MineRaises(n) PROVE Kept
    <2>1. \A k \in Miners : pc'[k] \in {"head", "seal"} =>
                /\ pc'[k] = pc[k]
                /\ ch'[k] = ch[k] /\ txs'[k] = txs[k]
                /\ prev'[k] = prev[k] /\ target'[k] = target[k]
      BY <1>10 DEF MineRaises, GoTo, WorkInv, ApiInv, TypeOK, LocalTyped, Threads
    <2>2. QED
      BY <1>10, <2>1, QuietStep DEF MineRaises, Kept
  <1>11. ASSUME UNCHANGED vars PROVE Kept
    BY <1>11, QuietStep DEF vars, local, Kept
  <1>12. Kept
    BY <1>2, <1>3, <1>4, <1>5, <1>6, <1>7, <1>8, <1>9, <1>10, <1>11 DEF Next, Mine
  <1>13. QED
    BY <1>1, <1>12 DEF WorkInv, Kept

\* ChainsValid: however many threads mine, every chain the server has validates
\* as long as no two of them overlap between check and append on one chain,
\* whatever is submitted and read meanwhile, whichever mine fails and however
\* the difficulty is rounded.
THEOREM SerialMinesValidate == Spec /\ []Serial => []ChainsValid
  <1>1. WorkInv => ChainsValid
    BY DEF WorkInv
  <1>2. QED
    BY <1>1, NextWork, InitWork, PTL DEF Spec

\* A single thread that mines never overlaps with itself.
THEOREM OneMinerValidates ==
    ASSUME NEW m, Miners = {m} PROVE Spec => []ChainsValid
  <1>1. Serial
    BY AloneIsSerial
  <1>2. QED
    BY <1>1, SerialMinesValidate, PTL

-----------------------------------------------------------------------------
(* What the chains hold, and what their validity is worth.                  *)

HoldInv == ApiInv /\ \A i \in DOMAIN chains : Holds(chains[i])

LEMMA NextHold == HoldInv /\ [Next]_vars => HoldInv'
  <1> SUFFICES ASSUME HoldInv, [Next]_vars PROVE HoldInv'
    OBVIOUS
  <1> DEFINE AllHold == \A i \in DOMAIN chains' : Holds(chains'[i])
  <1>1. ApiInv'
    BY NextApi DEF HoldInv
  <1>2. ASSUME UNCHANGED chains PROVE AllHold
    BY <1>2 DEF HoldInv
  <1>3. ASSUME NEW t \in Threads, Install(t) PROVE AllHold
    <2>1. /\ Len(chains) \in Nat /\ Len(chains') = Len(chains) + 1
          /\ DOMAIN chains = 1 .. Len(chains) /\ DOMAIN chains' = 1 .. Len(chains')
          /\ \A i \in DOMAIN chains : chains'[i] = chains[i]
          /\ chains'[Len(chains')] = <<Genesis>>
      BY <1>3, OneChainMore DEF Install, HoldInv, ApiInv
    <2>2. \A i \in DOMAIN chains' : i \in DOMAIN chains \/ i = Len(chains')
      BY <2>1
    <2>3. QED
      BY <2>1, <2>2, HoldsGenesis DEF HoldInv
  <1>4. ASSUME NEW m \in Miners, AppendBlock(m) PROVE AllHold
    <2> DEFINE batch == Append(txs[m], CoinbaseTx(MinerAccount))
    <2>1. batch \in Seq(Transactions)
      <3>1. txs[m] \in Seq(Waiting) /\ Waiting \subseteq Transactions
        BY TypesAssumption DEF HoldInv, ApiInv, LocalTyped, Waiting
      <3>2. CoinbaseTx(MinerAccount) \in Transactions
        BY TypesAssumption, RewardTyped
      <3>3. QED
        BY <3>1, <3>2
    <2> HIDE DEF batch
    <2>2. PICK b : b.txs = batch /\ chains' = [chains EXCEPT ![ch[m]] = Append(@, b)]
      <3>1. PICK quality \in Qualities :
               chains' = [chains EXCEPT ![ch[m]] =
                              Append(@, SealedBlock(prev[m], batch, quality))]
        BY <1>4 DEF AppendBlock, batch
      <3>2. SealedBlock(prev[m], batch, quality).txs = batch
        BY SealedParts
      <3>3. QED
        BY <3>1, <3>2
    <2>3. ch[m] \in DOMAIN chains
      BY <1>4 DEF AppendBlock, At, HoldInv, ApiInv, TypeOK
    <2>4. /\ DOMAIN chains' = DOMAIN chains
          /\ chains'[ch[m]] = Append(chains[ch[m]], b)
          /\ \A i \in DOMAIN chains : i # ch[m] => chains'[i] = chains[i]
      BY <2>2, <2>3, OneBlockMore DEF HoldInv, ApiInv
    <2>5. Holds(Append(chains[ch[m]], b))
      BY <2>1, <2>2, <2>3, HoldsAppend DEF HoldInv
    <2>6. QED
      BY <2>4, <2>5 DEF HoldInv
  <1> HIDE DEF AllHold
  <1>5. AllHold
    BY <1>2, <1>3, <1>4
       DEF Next, Mine, FindNone, FindChain, Submit, Take, Check, ReadHead, MineRaises, vars
  <1>6. QED
    BY <1>1, <1>5 DEF HoldInv, AllHold

\* BooksInOrder: under the same condition no request, whatever it submits and
\* whenever, makes or destroys money on a chain the server has, spends what its
\* sender has not got, or takes effect a second time.
THEOREM SerialMinesBooks == Spec /\ []Serial => []BooksInOrder
  <1>1. Init => HoldInv
    BY InitApi DEF HoldInv, Init
  <1>2. WorkInv /\ HoldInv => BooksInOrder
    BY ValidBooks DEF WorkInv, HoldInv, ChainsValid, BooksInOrder
  <1>3. QED
    BY <1>1, <1>2, InitWork, NextWork, NextHold, PTL DEF Spec

\* As for the chains: one thread needs no lock.
THEOREM OneMinerBooks ==
    ASSUME NEW m, Miners = {m} PROVE Spec => []BooksInOrder
  <1>1. Serial
    BY AloneIsSerial
  <1>2. QED
    BY <1>1, SerialMinesBooks, PTL

-----------------------------------------------------------------------------
(* The chains as the books of Bank: what a list of transactions leaves in   *)
(* the books, one transaction at a time.                                    *)

BookAfter(s) ==
    [funds |-> [a \in Accounts |-> Balance(s, a)],
     next  |-> [a \in Accounts |-> LastSeq(s, a) + 1]]

LEMMA BookStep ==
    ASSUME NEW t \in Seq(Transactions), Sound(t), NEW n \in 1 .. Len(t),
           NEW a \in Accounts, NEW k, k = n - 1
    PROVE  /\ IsSum(Balance(SubSeq(t, 1, n), a), Balance(SubSeq(t, 1, k), a),
                    Gain(t[n], a))
           /\ IsSum(LastSeq(SubSeq(t, 1, n), a), LastSeq(SubSeq(t, 1, k), a),
                    IF t[n].from = a THEN 1 ELSE 0)
  <1> DEFINE p == SubSeq(t, 1, k)
             q == SubSeq(t, 1, n)
             tx == t[n]
  <1>1. p \in Seq(Transactions) /\ tx \in Transactions /\ q = p \o <<tx>>
    OBVIOUS
  <1>2. <<tx>> \in Seq(Transactions)
    BY <1>1
  <1>3. Allowed(p, tx) /\ k \in 0 .. Len(t)
    BY DEF Sound
  <1> HIDE DEF p, tx, q
  <1>4. IsSum(Balance(q, a), Balance(p, a), Gain(tx, a))
    <2>1. IsSum(Balance(p \o <<tx>>, a), Balance(p, a), Balance(<<tx>>, a))
      BY <1>1, <1>2, BalanceConcat
    <2>2. Balance(<<tx>>, a) = Gain(tx, a)
      BY <1>1, BalanceOne
    <2>3. QED
      BY <1>1, <2>1, <2>2
  <1>5. PICK m \in Int : IsLast(p, a, m)
    <2>1. InOrder(t, k, a)
      BY <1>3, SoundInOrder
    <2>2. Cardinality(Own(t, k, a)) \in Nat
      <3>1. n \in Nat \ {0} /\ k = n - 1
        OBVIOUS
      <3>2. QED
        BY <3>1, OwnStep
    <2>3. IsLast(p, a, Cardinality(Own(t, k, a)) - 1)
      BY <2>1 DEF InOrder, p
    <2>4. QED
      BY <2>2, <2>3
  <1>6. LastSeq(p, a) = m
    BY <1>1, <1>5, LastIs
  <1>7. q \in Seq(Transactions)
    BY <1>1, <1>2
  <1>8. CASE tx.from = a
    <2>1. tx.seq = m + 1
      BY <1>3, <1>6, <1>8, CoinbaseAssumption DEF Allowed, Fresh
    <2>2. tx.seq > m
      BY <1>5, <2>1
    <2>3. IsLast(q, a, tx.seq)
      BY <1>1, <1>5, <1>8, <2>2, LastAppend
    <2>4. LastSeq(q, a) = tx.seq
      BY <1>7, <2>3, LastIs
    <2>5. QED
      BY <1>4, <1>6, <1>8, <2>1, <2>4 DEF IsSum, p, q, tx
  <1>9. CASE tx.from # a
    <2>1. IsLast(q, a, m)
      BY <1>1, <1>5, <1>9, LastAppend
    <2>2. LastSeq(q, a) = m
      BY <1>7, <2>1, LastIs
    <2>3. QED
      BY <1>4, <1>6, <1>9, <2>2 DEF IsSum, p, q, tx
  <1>10. QED
    BY <1>8, <1>9

\* A transfer the chain allows is one the bank allows, and does the same.
LEMMA TransferMoves ==
    ASSUME NEW t \in Seq(Transactions), Sound(t), NEW n \in 1 .. Len(t),
           t[n].from # Coinbase, NEW k, k = n - 1
    PROVE  /\ B!Possible(BookAfter(SubSeq(t, 1, k)), t[n])
           /\ BookAfter(SubSeq(t, 1, n)) = B!Moved(BookAfter(SubSeq(t, 1, k)), t[n])
  <1> DEFINE p == SubSeq(t, 1, k)
             q == SubSeq(t, 1, n)
             tx == t[n]
  <1>1. tx \in Transactions /\ Allowed(p, tx)
    BY DEF Sound
  <1>2. ASSUME NEW a \in Accounts
        PROVE  /\ IsSum(Balance(q, a), Balance(p, a), Gain(tx, a))
               /\ IsSum(LastSeq(q, a), LastSeq(p, a), IF tx.from = a THEN 1 ELSE 0)
    BY BookStep
  <1>3. tx.from \in Accounts /\ tx.from # Coinbase
    BY <1>1 DEF Transactions
  <1> HIDE DEF p, q, tx
  <1>4. B!Possible(BookAfter(p), tx)
    <2>1. tx.amount > 0 /\ Fresh(p, tx) /\ Balance(p, tx.from) >= tx.amount
      BY <1>1, <1>3 DEF Allowed
    <2>2. tx.amount \in Int /\ Balance(p, tx.from) \in Int
      BY <1>1, <1>2, <1>3 DEF Transactions, IsSum
    <2>3. QED
      BY <1>3, <2>1, <2>2 DEF B!Possible, BookAfter, Fresh
  <1>5. BookAfter(q) = B!Moved(BookAfter(p), tx)
    <2>1. ASSUME NEW a \in Accounts
          PROVE  /\ Balance(q, a) = Balance(p, a) + B!Change(tx, a)
                 /\ LastSeq(q, a) + 1
                      = (LastSeq(p, a) + 1) + (IF tx.from = a THEN 1 ELSE 0)
      <3>1. Gain(tx, a) = B!Change(tx, a)
        BY DEF Gain, B!Change
      <3>2. QED
        BY <1>2, <3>1 DEF IsSum
    <2>2. QED
      BY <2>1 DEF BookAfter, B!Moved
  <1>6. QED
    BY <1>4, <1>5 DEF p, q, tx

LEMMA RewardPays ==
    ASSUME NEW t \in Seq(Transactions), Sound(t), NEW n \in 1 .. Len(t),
           NEW who \in Accounts, t[n] = CoinbaseTx(who), NEW k, k = n - 1
    PROVE  BookAfter(SubSeq(t, 1, n)) = B!Rewarded(BookAfter(SubSeq(t, 1, k)), who)
  <1> DEFINE p == SubSeq(t, 1, k)
             q == SubSeq(t, 1, n)
  <1>1. ASSUME NEW a \in Accounts
        PROVE  /\ IsSum(Balance(q, a), Balance(p, a), Gain(t[n], a))
               /\ IsSum(LastSeq(q, a), LastSeq(p, a), IF t[n].from = a THEN 1 ELSE 0)
    BY BookStep
  <1> HIDE DEF p, q
  <1>2. ASSUME NEW a \in Accounts
        PROVE  /\ Balance(q, a) = Balance(p, a) + (IF a = who THEN Reward ELSE 0)
               /\ LastSeq(q, a) + 1 = LastSeq(p, a) + 1
    <2>1. Gain(t[n], a) = (IF a = who THEN Reward ELSE 0) /\ t[n].from # a
      BY CoinbaseAssumption, RewardAssumption DEF Gain, CoinbaseTx
    <2>2. QED
      BY <1>1, <2>1 DEF IsSum
  <1>3. BookAfter(q) = B!Rewarded(BookAfter(p), who)
    BY <1>2 DEF BookAfter, B!Rewarded
  <1>4. QED
    BY <1>3 DEF p, q

\* The books along a batch are those that follow from one another.
LEMMA AlongIs ==
    ASSUME NEW book, NEW n \in Nat, NEW batch, Len(batch) = n,
           NEW P, P = [k \in 0 .. n |-> P[k]], P[0] = book,
           \A k \in 1 .. n : P[k] = B!Moved(P[k - 1], batch[k])
    PROVE  \A k \in 0 .. n : B!Along(book, batch)[k] = P[k]
  <1> DEFINE Entries(R) == R = [k \in 0 .. n |->
                    IF k = 0 THEN book ELSE B!Moved(R[k - 1], batch[k])]
             Q == CHOOSE R : Entries(R)
             S == {k \in 0 .. n : Q[k] = P[k]}
  <1>1. Entries(P)
    <2>1. ASSUME NEW k \in 0 .. n
          PROVE  P[k] = IF k = 0 THEN book ELSE B!Moved(P[k - 1], batch[k])
      <3>1. k = 0 \/ k \in 1 .. n
        OBVIOUS
      <3>2. QED
        BY <3>1
    <2>2. [k \in 0 .. n |-> P[k]]
            = [k \in 0 .. n |-> IF k = 0 THEN book ELSE B!Moved(P[k - 1], batch[k])]
      BY <2>1
    <2>3. QED
      BY <2>2, Zenon
  <1>2. Entries(Q)
    <2> HIDE DEF Entries
    <2>1. QED
      BY <1>1
  <1>3. B!Along(book, batch) = Q
    BY DEF B!Along
  <1> HIDE DEF Q
  <1>4. 0 \in S
    BY <1>2
  <1>5. ASSUME NEW k \in 1 .. n, k - 1 \in S PROVE k \in S
    <2>1. k \in 0 .. n /\ k # 0
      OBVIOUS
    <2>2. Q[k] = B!Moved(Q[k - 1], batch[k])
      BY <1>2, <2>1, Zenon
    <2>3. QED
      BY <1>5, <2>1, <2>2
  <1> HIDE DEF S
  <1>6. \A k \in 0 .. n : k \in S
    BY <1>4, <1>5, Induction
  <1>7. QED
    BY <1>3, <1>6 DEF S

-----------------------------------------------------------------------------
(* How long a batch can be: each request has put one transaction into the   *)
(* pool, and a mine request moves the pool as it is.                        *)

Answered == Cardinality(answered)

Short ==
    /\ Len(mempool) <= Answered
    /\ \A m \in Miners : Len(txs[m]) <= Answered

LEMMA AnsweredGrows ==
    ASSUME ApiInv
    PROVE  /\ IsFiniteSet(answered)
           /\ Answered \in Nat /\ Answered <= Cardinality(Submitters)
  BY SubmittersAssumption, FS_Subset, FS_CardinalityType DEF Answered, ApiInv, TypeOK

LEMMA NextShort == ApiInv /\ Short /\ [Next]_vars => Short'
  <1> SUFFICES ASSUME ApiInv, Short, [Next]_vars PROVE Short'
    OBVIOUS
  <1> USE DEF Short
  <1>1. mempool \in Seq(Waiting) /\ txs \in [Miners -> Seq(Waiting)] /\ Answered \in Nat
    BY AnsweredGrows DEF ApiInv, TypeOK, LocalTyped, Waiting
  <1>2. ASSUME UNCHANGED <<mempool, txs, answered>> PROVE Short'
    BY <1>2 DEF Answered
  <1>3. ASSUME NEW s \in Submitters, Submit(s) PROVE Short'
    <2>1. /\ answered' = answered \cup {s} /\ s \notin answered
          /\ Len(mempool') = Len(mempool) + 1 /\ txs' = txs
      BY <1>1, <1>3 DEF Submit, Queued, local
    <2>2. Answered' = Answered + 1
      BY <2>1, AnsweredGrows, FS_AddElement DEF Answered
    <2>3. Len(mempool) \in Nat /\ \A m \in Miners : Len(txs[m]) \in Nat
      BY <1>1
    <2>4. QED
      BY <1>1, <2>1, <2>2, <2>3
  <1>4. ASSUME NEW m \in Miners, Take(m) PROVE Short'
    <2>1. Answered' = Answered /\ Len(mempool') = 0
      BY <1>4 DEF Take, LeftInPool, Answered
    <2>2. \A n \in Miners : txs'[n] \in {txs[n], mempool}
      BY <1>1, <1>4 DEF Take
    <2>3. QED
      BY <1>1, <2>1, <2>2
  <1>5. ASSUME NEW m \in Miners, AppendBlock(m) \/ MineRaises(m) PROVE Short'
    <2>1. Answered' = Answered /\ mempool' \in {mempool, txs[m]}
      BY <1>5 DEF AppendBlock, MineRaises, PutBack, Answered
    <2>2. \A n \in Miners : txs'[n] \in {txs[n], <<>>}
      BY <1>1, <1>5 DEF AppendBlock, MineRaises
    <2>3. Len(<<>>) = 0
      OBVIOUS
    <2>4. QED
      BY <1>1, <2>1, <2>2, <2>3
  <1>6. QED
    BY <1>2, <1>3, <1>4, <1>5
       DEF Next, Mine, FindNone, Install, FindChain, Check, ReadHead, local, vars

-----------------------------------------------------------------------------
(* The append settles a batch of Bank.                                      *)

LEMMA TxsMore ==
    ASSUME NEW bs, Holds(bs), NEW b, b.txs \in Seq(Transactions)
    PROVE  /\ TxsOf(bs) \in Seq(Transactions)
           /\ TxsOf(Append(bs, b)) = TxsOf(bs) \o b.txs
  <1> DEFINE cs == Append(bs, b)
  <1>1. PICK S : bs \in Seq(S)
    BY DEF Holds
  <1>2. /\ SubSeq(cs, 1, Len(bs)) = bs /\ cs[Len(cs)] = b
        /\ Len(bs) \in Nat /\ Len(cs) = Len(bs) + 1 /\ Len(bs) > 0
    <2> DEFINE T == S \cup {b}
    <2>1. bs \in Seq(T) /\ b \in T
      BY <1>1
    <2> HIDE DEF T
    <2>2. QED
      BY <2>1 DEF Holds
  <1>3. Holds(cs)
    BY HoldsAppend
  <1> HIDE DEF cs
  <1>4. PICK k : k = Len(cs)
    OBVIOUS
  <1>5. k \in 1 .. Len(cs) /\ k > 1 /\ k - 1 = Len(bs)
    BY <1>2, <1>4
  <1>6. UpTo(cs, k) = UpTo(cs, k - 1) \o cs[k].txs
    BY <1>3, <1>5, UpToSteps
  <1>7. UpTo(cs, k) = TxsOf(cs)
    BY <1>3, <1>4, WholeChain
  <1>8. UpTo(cs, k - 1) = TxsOf(bs)
    BY <1>2, <1>5 DEF UpTo
  <1>9. TxsOf(bs) \in Seq(Transactions)
    <2>1. Len(bs) \in 1 .. Len(bs)
      BY <1>2
    <2>2. QED
      BY <2>1, UpToSteps, WholeChain
  <1>10. QED
    BY <1>2, <1>4, <1>6, <1>7, <1>8, <1>9 DEF cs

\* Of the transactions of a block only the last is a reward, and the others
\* were signed.
LEMMA BatchOfTransfers ==
    ASSUME NEW bs, NEW batch \in Seq(Waiting),
           CheckTxs(bs, Append(batch, CoinbaseTx(MinerAccount))),
           Len(batch) <= Cardinality(Submitters), Cardinality(Submitters) \in Nat
    PROVE  /\ batch \in Batches
           /\ \A k \in 1 .. Len(batch) : batch[k].from # Coinbase
  <1> DEFINE list == Append(batch, CoinbaseTx(MinerAccount))
             n == Len(batch)
  <1>1. n \in Nat /\ Len(list) = n + 1 /\ \A k \in 1 .. n : list[k] = batch[k] /\ batch[k] \in Waiting
    OBVIOUS
  <1>2. list[n + 1] = CoinbaseTx(MinerAccount)
    OBVIOUS
  <1> HIDE DEF list
  <1>3. OneCoinbase(list) /\ \A k \in 1 .. Len(list) : VerifyTx(list[k])
    BY DEF CheckTxs, list
  <1>4. list[n + 1].from = Coinbase
    BY <1>2 DEF CoinbaseTx
  <1>5. \A k \in 1 .. n : k \in 1 .. Len(list) /\ n + 1 \in 1 .. Len(list) /\ k # n + 1
    BY <1>1
  <1>6. \A k \in 1 .. n : batch[k].from # Coinbase
    BY <1>1, <1>3, <1>4, <1>5 DEF OneCoinbase
  <1>7. \A k \in 1 .. n : batch[k] \in Transfers
    BY <1>1, <1>3, <1>5 DEF Waiting, Transfers
  <1>8. batch \in [1 .. n -> Transfers]
    BY <1>7
  <1>9. n \in 0 .. Cardinality(Submitters)
    BY <1>1
  <1>10. QED
    BY <1>6, <1>8, <1>9 DEF Batches

BankInv == WorkInv /\ HoldInv /\ Short

LEMMA AppendSettles ==
    ASSUME BankInv, BankInv', NEW m \in Miners, AppendBlock(m)
    PROVE  \E c \in DOMAIN Books : B!Settle(c)
  <1> USE DEF BankInv
  <1> DEFINE batch == txs[m]
             list == Append(batch, CoinbaseTx(MinerAccount))
             n == Len(batch)
  <1>1. PICK c : c = ch[m]
    OBVIOUS
  <1>2. c \in DOMAIN chains /\ pc[m] = "seal"
    BY <1>1 DEF AppendBlock, At, WorkInv, ApiInv, TypeOK
  <1>3. PICK b : b.txs = list /\ chains' = [chains EXCEPT ![c] = Append(@, b)]
    <2>1. PICK quality \in Qualities :
             chains' = [chains EXCEPT ![c] = Append(@, SealedBlock(prev[m], list, quality))]
      BY <1>1 DEF AppendBlock
    <2> HIDE DEF list
    <2>2. SealedBlock(prev[m], list, quality).txs = list
      BY SealedParts
    <2>3. QED
      BY <2>1, <2>2
  <1>4. PICK bs : bs = chains[c]
    OBVIOUS
  <1> DEFINE cs == Append(bs, b)
  <1>5. /\ DOMAIN chains' = DOMAIN chains
        /\ chains'[c] = cs
        /\ \A i \in DOMAIN chains : i # c => chains'[i] = chains[i]
        /\ Len(cs) = Len(bs) + 1 /\ Len(bs) \in Nat
    <2>1. /\ DOMAIN chains' = DOMAIN chains
          /\ chains'[c] = cs
          /\ \A i \in DOMAIN chains : i # c => chains'[i] = chains[i]
          /\ \E T : bs \in Seq(T) /\ b \in T
      BY <1>2, <1>3, <1>4, OneBlockMore DEF WorkInv, ApiInv
    <2>2. PICK T : bs \in Seq(T) /\ b \in T
      BY <2>1
    <2>3. QED
      BY <2>1, <2>2
  <1>6. batch \in Seq(Waiting) /\ Waiting \subseteq Transactions /\ n \in Nat
    <2>1. batch \in Seq(Waiting)
      BY DEF WorkInv, ApiInv, LocalTyped
    <2>2. Waiting \subseteq Transactions
      BY TypesAssumption DEF Waiting
    <2> HIDE DEF batch
    <2>3. QED
      BY <2>1, <2>2
  <1>7. list \in Seq(Transactions)
    <2>1. CoinbaseTx(MinerAccount) \in Transactions
      BY TypesAssumption, RewardTyped
    <2>2. batch \in Seq(Transactions)
      BY <1>6
    <2> HIDE DEF batch
    <2>3. QED
      BY <2>1, <2>2
  <1>8. CheckTxs(bs, list)
    BY <1>1, <1>2, <1>4 DEF WorkInv, StillChecked, Work
  <1>9. batch \in Batches /\ \A k \in 1 .. n : batch[k].from # Coinbase
    <2>1. n <= Answered /\ Answered \in Nat /\ Answered <= Cardinality(Submitters)
      BY AnsweredGrows DEF Short, WorkInv
    <2>2. Cardinality(Submitters) \in Nat
      BY SubmittersAssumption, FS_CardinalityType
    <2> HIDE DEF batch
    <2>3. n <= Cardinality(Submitters)
      BY <1>6, <2>1, <2>2
    <2>4. QED
      BY <1>6, <1>8, <2>2, <2>3, BatchOfTransfers
  <1> HIDE DEF cs, list, batch
  <1> DEFINE s == TxsOf(bs)
             t == TxsOf(cs)
             l == Len(s)
  <1>10. Holds(bs) /\ s \in Seq(Transactions) /\ t = s \o list
    <2>1. Holds(bs)
      BY <1>2, <1>4 DEF HoldInv
    <2>2. QED
      BY <1>3, <1>7, <2>1, TxsMore DEF cs
  <1>11. t \in Seq(Transactions) /\ Sound(t)
    <2>1. Holds(cs) /\ Validate(cs)
      BY <1>2, <1>5 DEF HoldInv, WorkInv, ChainsValid
    <2>2. QED
      BY <2>1, ValidSound
  <1> HIDE DEF s, t
  <1>12. /\ l \in Nat /\ Len(t) = l + n + 1
         /\ SubSeq(t, 1, l) = s /\ SubSeq(t, 1, l + n + 1) = t
         /\ \A k \in 1 .. n : t[l + k] = batch[k]
         /\ t[l + n + 1] = CoinbaseTx(MinerAccount)
    <2>1. /\ Len(list) = n + 1 /\ list[n + 1] = CoinbaseTx(MinerAccount)
          /\ \A k \in 1 .. n : list[k] = batch[k]
      BY <1>6 DEF list
    <2>2. l \in Nat /\ Len(t) = l + n + 1 /\ SubSeq(t, 1, l) = s
      <3> HIDE DEF n
      <3>1. l \in Nat /\ Len(t) = l + Len(list)
        BY <1>7, <1>10
      <3>2. SubSeq(s \o list, 1, Len(s)) = s
        <4> DEFINE u == s \o list
        <4>1. u \in Seq(Transactions) /\ Len(u) = l + Len(list) /\ Len(list) \in Nat
          BY <1>7, <1>10
        <4>2. \A k \in 1 .. l : u[k] = s[k]
          BY <1>7, <1>10
        <4> HIDE DEF u
        <4>3. SubSeq(u, 1, l) \in Seq(Transactions) /\ Len(SubSeq(u, 1, l)) = l
          BY <3>1, <4>1
        <4>4. \A k \in 1 .. l : SubSeq(u, 1, l)[k] = s[k]
          BY <3>1, <4>1, <4>2
        <4>5. SubSeq(u, 1, l) = s
          BY <1>10, <4>3, <4>4
        <4>6. QED
          BY <4>5 DEF u
      <3>3. QED
        BY <1>6, <1>10, <2>1, <3>1, <3>2
    <2>3. \A k \in 1 .. n + 1 : t[l + k] = list[k]
      <3> HIDE DEF n
      <3>1. \A k \in 1 .. Len(list) : (s \o list)[Len(s) + k] = list[k]
        BY <1>7, <1>10
      <3>2. QED
        BY <1>10, <2>1, <3>1
    <2>4. SubSeq(t, 1, l + n + 1) = t
      BY <1>11, <2>2
    <2>5. n + 1 \in 1 .. n + 1 /\ l + (n + 1) = l + n + 1
      BY <1>6, <2>2
    <2>6. t[l + n + 1] = CoinbaseTx(MinerAccount)
      BY <2>1, <2>3, <2>5
    <2>7. \A k \in 1 .. n : t[l + k] = batch[k]
      BY <1>6, <2>1, <2>3
    <2>8. QED
      BY <2>2, <2>4, <2>6, <2>7
  <1> DEFINE P == [k \in 0 .. n |-> BookAfter(SubSeq(t, 1, l + k))]
  <1>13. ASSUME NEW k \in 1 .. n
         PROVE  /\ B!Possible(P[k - 1], batch[k])
                /\ P[k] = B!Moved(P[k - 1], batch[k])
    <2>1. PICK i, j : i = l + k /\ j = l + (k - 1)
      OBVIOUS
    <2>2. /\ i \in 1 .. Len(t) /\ j = i - 1 /\ t[i] = batch[k]
          /\ k \in 0 .. n /\ k - 1 \in 0 .. n
      BY <1>6, <1>12, <2>1
    <2>3. t[i].from # Coinbase
      BY <1>9, <2>2
    <2>4. /\ B!Possible(BookAfter(SubSeq(t, 1, j)), t[i])
          /\ BookAfter(SubSeq(t, 1, i)) = B!Moved(BookAfter(SubSeq(t, 1, j)), t[i])
      BY <1>11, <2>2, <2>3, TransferMoves
    <2>5. P[k] = BookAfter(SubSeq(t, 1, i)) /\ P[k - 1] = BookAfter(SubSeq(t, 1, j))
      BY <2>1, <2>2
    <2>6. QED
      BY <2>2, <2>4, <2>5
  <1>14. /\ P = [k \in 0 .. n |-> P[k]] /\ P[0] = BookOf(bs)
         /\ P[n] = BookAfter(SubSeq(t, 1, l + n))
    <2>1. l + 0 = l /\ 0 \in 0 .. n /\ n \in 0 .. n
      BY <1>6, <1>12
    <2>2. BookAfter(SubSeq(t, 1, l)) = BookOf(bs)
      BY <1>12 DEF BookAfter, BookOf, s
    <2>3. QED
      BY <2>1, <2>2
  <1>15. BookOf(cs) = B!Rewarded(P[n], MinerAccount)
    <2>1. PICK i, j : i = l + n + 1 /\ j = l + n
      OBVIOUS
    <2>2. i \in 1 .. Len(t) /\ j = i - 1
      BY <1>6, <1>12, <2>1
    <2>3. BookAfter(SubSeq(t, 1, i)) = B!Rewarded(BookAfter(SubSeq(t, 1, j)), MinerAccount)
      BY <1>11, <1>12, <2>1, <2>2, TypesAssumption, RewardPays
    <2>4. BookAfter(SubSeq(t, 1, i)) = BookOf(cs)
      BY <1>12, <2>1 DEF BookAfter, BookOf, t
    <2>5. QED
      BY <1>14, <2>1, <2>3, <2>4
  <1> HIDE DEF P
  <1>16. \A k \in 0 .. n : B!Along(BookOf(bs), batch)[k] = P[k]
    BY <1>6, <1>13, <1>14, AlongIs
  <1> HIDE DEF n
  <1>17. n \in 0 .. n /\ \A k \in 1 .. n : k - 1 \in 0 .. n
    BY <1>6 DEF n
  <1>18. /\ \A k \in 1 .. Len(batch) :
               B!Possible(B!Along(BookOf(bs), batch)[k - 1], batch[k])
         /\ BookOf(cs) = B!Rewarded(B!Along(BookOf(bs), batch)[Len(batch)], MinerAccount)
    BY <1>13, <1>15, <1>16, <1>17 DEF n
  <1>19. /\ DOMAIN Books = DOMAIN chains /\ Books[c] = BookOf(bs)
         /\ Books' = [Books EXCEPT ![c] = BookOf(cs)]
         /\ Settled' = [Settled EXCEPT ![c] = @ + 1]
    <2>1. DOMAIN Books = DOMAIN chains /\ Books[c] = BookOf(bs)
      BY <1>2, <1>4 DEF Books
    <2>2. Books' = [Books EXCEPT ![c] = BookOf(cs)]
      BY <1>2, <1>5 DEF Books
    <2>3. Settled' = [Settled EXCEPT ![c] = @ + 1]
      <3>1. Len(cs) - 1 = (Len(bs) - 1) + 1
        BY <1>5
      <3>2. QED
        BY <1>2, <1>4, <1>5, <3>1 DEF Settled
    <2>4. QED
      BY <2>1, <2>2, <2>3
  <1>20. B!Settle(c)
    BY <1>9, <1>18, <1>19, TypesAssumption DEF B!Settle
  <1>21. QED
    BY <1>2, <1>19, <1>20

LEMMA InstallOpens ==
    ASSUME BankInv, NEW t \in Threads, Install(t) PROVE B!Open
  <1>1. /\ Len(chains) \in Nat /\ Len(chains') = Len(chains) + 1
        /\ DOMAIN chains = 1 .. Len(chains) /\ DOMAIN chains' = 1 .. Len(chains')
        /\ \A i \in DOMAIN chains : chains'[i] = chains[i]
        /\ chains'[Len(chains')] = <<Genesis>>
    BY OneChainMore DEF Install, BankInv, WorkInv, ApiInv
  <1>2. TxsOf(<<Genesis>>) = <<>> /\ Len(<<Genesis>>) = 1
    <2> DEFINE bs == <<Genesis>>
    <2>1. Holds(bs)
      BY HoldsGenesis
    <2>2. Len(bs) = 1 /\ 1 \in 1 .. Len(bs)
      OBVIOUS
    <2> HIDE DEF bs
    <2>3. UpTo(bs, 1) = <<>> /\ UpTo(bs, Len(bs)) = TxsOf(bs)
      BY <2>1, <2>2, UpToSteps, WholeChain
    <2>4. QED
      BY <2>2, <2>3 DEF bs
  <1>3. BookOf(<<Genesis>>) = B!Blank
    <2>1. ASSUME NEW a \in Accounts
          PROVE  Balance(<<>>, a) = 0 /\ LastSeq(<<>>, a) + 1 = 0
      <3>1. CoinbaseTx(a) \in Transactions
        BY RewardTyped
      <3>2. Balance(<<>>, a) = 0
        BY <3>1, BalanceOne
      <3>3. IsLast(<<>>, a, -1) /\ <<>> \in Seq(Transactions)
        BY DEF IsLast, SeqsOf
      <3>4. LastSeq(<<>>, a) = -1
        BY <3>3, LastIs
      <3>5. QED
        BY <3>2, <3>4
    <2>2. QED
      BY <1>2, <2>1 DEF BookOf, B!Blank
  <1>4. \A i \in DOMAIN chains' : i \in DOMAIN chains \/ i = Len(chains')
    BY <1>1
  <1> DEFINE g == <<Genesis>>
  <1>5. chains'[Len(chains')] = g /\ BookOf(g) = B!Blank /\ Len(g) - 1 = 0
    BY <1>1, <1>2, <1>3
  <1> HIDE DEF g
  <1>6. Books' = Append(Books, B!Blank)
    <2>1. Len(Books) = Len(chains)
      BY <1>1 DEF Books
    <2>2. QED
      BY <1>1, <1>4, <1>5, <2>1 DEF Books
  <1>7. Settled' = Append(Settled, 0)
    <2>1. Len(Settled) = Len(chains)
      BY <1>1 DEF Settled
    <2>2. QED
      BY <1>1, <1>4, <1>5, <2>1 DEF Settled
  <1>8. QED
    BY <1>6, <1>7 DEF B!Open

LEMMA NextBank ==
    BankInv /\ BankInv' /\ [Next]_vars => [B!Next]_<<Books, Settled>>
  <1> SUFFICES ASSUME BankInv, BankInv', [Next]_vars
               PROVE  [B!Next]_<<Books, Settled>>
    OBVIOUS
  <1>1. ASSUME UNCHANGED chains PROVE UNCHANGED <<Books, Settled>>
    BY <1>1 DEF Books, Settled
  <1>2. ASSUME NEW t \in Threads, Install(t) PROVE B!Next
    BY <1>2, InstallOpens DEF B!Next
  <1>3. ASSUME NEW m \in Miners, AppendBlock(m) PROVE B!Next
    BY <1>3, AppendSettles DEF B!Next
  <1>4. QED
    BY <1>1, <1>2, <1>3
       DEF Next, Mine, FindNone, FindChain, Submit, Take, Check, ReadHead, MineRaises, vars

\* ActsAsBank: as long as mine requests on one chain do not overlap between
\* check and append, the endpoints implement Bank.  Each block settles a batch
\* of transfers their senders signed, each with money its sender has by then
\* and with the number that is due, pays one reward, and touches no other chain.
THEOREM SerialMinesActAsBank == Spec /\ []Serial => ActsAsBank
  <1>1. Init => BankInv /\ B!Init
    <2> SUFFICES ASSUME Init PROVE BankInv /\ B!Init
      OBVIOUS
    <2>1. WorkInv
      BY InitWork
    <2>2. HoldInv
      BY <2>1 DEF Init, HoldInv, WorkInv
    <2>3. Short
      <3>1. Answered = 0
        BY FS_EmptySet DEF Answered, Init
      <3>2. QED
        BY <3>1 DEF Short, Init
    <2>4. B!Init
      BY DEF B!Init, Init, Books, Settled
    <2>5. QED
      BY <2>1, <2>2, <2>3, <2>4 DEF BankInv
  <1>2. BankInv /\ Serial /\ [Next]_vars => BankInv'
    BY NextWork, NextHold, NextShort DEF BankInv, WorkInv
  <1>3. QED
    BY <1>1, <1>2, NextBank, PTL DEF Spec, ActsAsBank, B!Spec

\* The same of one thread that mines.
THEOREM OneMinerActsAsBank ==
    ASSUME NEW m, Miners = {m} PROVE Spec => ActsAsBank
  <1>1. Serial
    BY AloneIsSerial
  <1>2. QED
    BY <1>1, SerialMinesActAsBank, PTL

-----------------------------------------------------------------------------
(* Where a transaction lies.  The invariant looks at every chain ever made, *)
(* not only at the current one, so that putting another in its place shows  *)
(* nothing twice; one step moves a transaction from one list to another.    *)

Lies(tx, place, i) ==
    \/ place = <<"pool">> /\ i \in Positions(mempool, tx)
    \/ \E m \in Miners : place = <<"miner", m>> /\ i \in Positions(txs[m], tx)
    \/ \E c \in DOMAIN chains :
          \E k \in DOMAIN chains[c] :
              place = <<"block", c, k>> /\ i \in Positions(chains[c][k].txs, tx)

Nowhere(tx) == \A p, i : ~Lies(tx, p, i)

OnlyOnce(tx) == \A p, i, q, j : Lies(tx, p, i) /\ Lies(tx, q, j) => p = q /\ i = j

Transferred == {s \in Submitters : TxOf[s].from # Coinbase}

NewestIsCurrent == current = Len(chains)

Apart ==
    \A s \in Transferred :
        /\ OnlyOnce(TxOf[s])
        /\ s \notin answered => Nowhere(TxOf[s])

PlaceInv == ApiInv /\ NewestIsCurrent /\ Apart

\* A step after which the transaction lies nowhere it did not lie before.
LEMMA StaysOnce ==
    ASSUME NEW tx, \A p, i : Lies(tx, p, i)' => Lies(tx, p, i)
    PROVE  /\ OnlyOnce(tx) => OnlyOnce(tx)'
           /\ Nowhere(tx) => Nowhere(tx)'
  BY DEF OnlyOnce, Nowhere

\* A step that empties one list and writes its transactions into another.
Moves(tx, from, to) ==
    \A p, i :
        Lies(tx, p, i)' =>
            \/ p # from /\ Lies(tx, p, i)
            \/ p = to /\ Lies(tx, from, i)

LEMMA MovesOnce ==
    ASSUME NEW tx, NEW from, NEW to, Moves(tx, from, to)
    PROVE  /\ OnlyOnce(tx) => OnlyOnce(tx)'
           /\ Nowhere(tx) => Nowhere(tx)'
  BY DEF OnlyOnce, Nowhere, Moves

\* What a step that leaves the current chain's number alone has to show.
LEMMA ApartStep ==
    ASSUME PlaceInv, NewestIsCurrent', answered' = answered,
           \A s \in Transferred :
                /\ OnlyOnce(TxOf[s]) => OnlyOnce(TxOf[s])'
                /\ Nowhere(TxOf[s]) => Nowhere(TxOf[s])'
    PROVE  NewestIsCurrent' /\ Apart'
  BY DEF PlaceInv, Apart

LEMMA InitPlaces == Init => PlaceInv
  <1> SUFFICES ASSUME Init PROVE PlaceInv
    OBVIOUS
  <1>1. ApiInv
    BY InitApi
  <1>2. NewestIsCurrent
    BY DEF Init, NewestIsCurrent
  <1>3. \A tx : Nowhere(tx)
    BY DEF Init, Nowhere, Lies, Positions
  <1>4. Apart
    BY <1>3 DEF Apart, Nowhere, OnlyOnce
  <1>5. QED
    BY <1>1, <1>2, <1>4 DEF PlaceInv

LEMMA QuietPlaces ==
    ASSUME PlaceInv, UNCHANGED <<chains, current, mempool, answered, txs>>
    PROVE  NewestIsCurrent' /\ Apart'
  <1>1. NewestIsCurrent'
    BY DEF PlaceInv, NewestIsCurrent
  <1>2. \A tx, p, i : Lies(tx, p, i)' => Lies(tx, p, i)
    BY DEF Lies
  <1>3. QED
    BY <1>1, <1>2, StaysOnce, ApartStep

LEMMA InstallPlaces ==
    ASSUME PlaceInv, NEW t \in Threads, Install(t)
    PROVE  NewestIsCurrent' /\ Apart'
  <1> USE DEF Install
  <1>1. /\ Len(chains) \in Nat /\ Len(chains') = Len(chains) + 1
        /\ DOMAIN chains = 1 .. Len(chains) /\ DOMAIN chains' = 1 .. Len(chains')
        /\ \A i \in DOMAIN chains : chains'[i] = chains[i]
        /\ chains'[Len(chains')] = <<Genesis>>
    BY OneChainMore DEF PlaceInv, ApiInv
  <1>2. NewestIsCurrent'
    BY <1>1 DEF NewestIsCurrent
  <1>3. Genesis.txs = <<>>
    BY SealedParts DEF Genesis
  <1>4. ASSUME NEW tx, NEW p, NEW i, Lies(tx, p, i)' PROVE Lies(tx, p, i)
    <2>1. ASSUME NEW c \in DOMAIN chains', NEW k \in DOMAIN chains'[c],
                 i \in Positions(chains'[c][k].txs, tx)
          PROVE  c \in DOMAIN chains /\ chains'[c] = chains[c]
      <3>1. CASE c = Len(chains')
        <4>1. chains'[c][k].txs = <<>>
          BY <3>1, <1>1, <1>3
        <4>2. QED
          BY <2>1, <4>1 DEF Positions
      <3>2. CASE c # Len(chains')
        BY <3>2, <1>1
      <3>3. QED
        BY <3>1, <3>2
    <2>2. QED
      BY <1>4, <2>1 DEF Lies
  <1>5. QED
    BY <1>2, <1>4, StaysOnce, ApartStep

LEMMA SubmitPlaces ==
    ASSUME PlaceInv, NEW s \in Submitters, Submit(s)
    PROVE  NewestIsCurrent' /\ Apart'
  <1> USE DEF Submit, Queued, local
  <1>1. mempool \in Seq(Waiting) /\ mempool' = Append(mempool, TxOf[s])
    BY DEF PlaceInv, ApiInv, TypeOK, Waiting
  <1>2. TxOf[s] \in Waiting
    BY DEF Waiting
  <1>3. \A tx, i : i \in Positions(mempool', tx) =>
            \/ i \in Positions(mempool, tx)
            \/ tx = TxOf[s] /\ i = Len(mempool) + 1
    BY <1>1, <1>2 DEF Positions
  <1>4. \A tx, p, i : Lies(tx, p, i)' =>
            \/ Lies(tx, p, i)
            \/ tx = TxOf[s] /\ p = <<"pool">> /\ i = Len(mempool) + 1
    BY <1>3 DEF Lies
  <1>5. ASSUME NEW r \in Transferred
        PROVE  OnlyOnce(TxOf[r])' /\ (r \notin answered' => Nowhere(TxOf[r])')
    <2>1. CASE r = s
      <3>1. Nowhere(TxOf[s])
        BY <2>1 DEF PlaceInv, Apart
      <3>2. QED
        BY <2>1, <3>1, <1>4 DEF Nowhere, OnlyOnce
    <2>2. CASE r # s
      <3>1. TxOf[r] # TxOf[s]
        BY <2>2, TxOfAssumption DEF Transferred
      <3>2. \A p, i : Lies(TxOf[r], p, i)' => Lies(TxOf[r], p, i)
        BY <3>1, <1>4
      <3>3. r \notin answered' => r \notin answered
        OBVIOUS
      <3>4. QED
        BY <3>2, <3>3, StaysOnce DEF PlaceInv, Apart
    <2>3. QED
      BY <2>1, <2>2
  <1>6. NewestIsCurrent'
    BY DEF PlaceInv, NewestIsCurrent
  <1>7. QED
    BY <1>5, <1>6 DEF Apart

LEMMA TakePlaces ==
    ASSUME PlaceInv, NEW m \in Miners, Take(m)
    PROVE  NewestIsCurrent' /\ Apart'
  <1> USE DEF Take, LeftInPool
  <1>1. /\ txs'[m] = mempool
        /\ \A n \in Miners : n # m => txs'[n] = txs[n]
    BY DEF PlaceInv, ApiInv, LocalTyped
  <1>2. ASSUME NEW tx, NEW p, NEW i, Lies(tx, p, i)'
        PROVE  \/ p # <<"pool">> /\ Lies(tx, p, i)
               \/ p = <<"miner", m>> /\ Lies(tx, <<"pool">>, i)
    BY <1>1, <1>2 DEF Lies, Positions
  <1>3. NewestIsCurrent'
    BY DEF PlaceInv, NewestIsCurrent
  <1>4. ASSUME NEW s \in Transferred
        PROVE  /\ OnlyOnce(TxOf[s]) => OnlyOnce(TxOf[s])'
               /\ Nowhere(TxOf[s]) => Nowhere(TxOf[s])'
    <2>1. Moves(TxOf[s], <<"pool">>, <<"miner", m>>)
      BY <1>2 DEF Moves
    <2>2. QED
      BY <2>1, MovesOnce
  <1>5. answered' = answered
    OBVIOUS
  <1>6. QED
    BY <1>3, <1>4, <1>5, ApartStep

\* What an append does to the lists: block k of chain c is new and holds the
\* miner's list, the reward behind it.
NewBlock(m, c, k) ==
    /\ c \in DOMAIN chains /\ k \notin DOMAIN chains[c]
    /\ Len(chains') = Len(chains) /\ DOMAIN chains' = DOMAIN chains
    /\ DOMAIN chains'[c] = DOMAIN chains[c] \cup {k}
    /\ chains'[c][k].txs = Append(txs[m], CoinbaseTx(MinerAccount))
    /\ \A l \in DOMAIN chains[c] : chains'[c][l] = chains[c][l]
    /\ \A d \in DOMAIN chains : d # c => chains'[d] = chains[d]
    /\ txs'[m] = <<>>
    /\ \A n \in Miners : n # m => txs'[n] = txs[n]

LEMMA AppendEffect ==
    ASSUME ApiInv, NEW m \in Miners, AppendBlock(m)
    PROVE  \E c, k : NewBlock(m, c, k)
  <1> USE DEF AppendBlock, At
  <1> DEFINE batch == Append(txs[m], CoinbaseTx(MinerAccount))
             c == ch[m]
             k == Len(chains[c]) + 1
  <1>1. c \in DOMAIN chains
    BY DEF ApiInv, TypeOK
  <1>2. PICK quality \in Qualities :
            chains' = [chains EXCEPT ![c] = Append(@, SealedBlock(prev[m], batch, quality))]
    OBVIOUS
  <1> DEFINE b == SealedBlock(prev[m], batch, quality)
  <1> HIDE DEF batch
  <1>3. b.txs = batch
    BY SealedParts
  <1> HIDE DEF b
  <1>4. /\ Len(chains') = Len(chains) /\ DOMAIN chains' = DOMAIN chains
        /\ chains'[c] = Append(chains[c], b)
        /\ \A d \in DOMAIN chains : d # c => chains'[d] = chains[d]
        /\ \E T : chains[c] \in Seq(T) /\ chains[c] # <<>> /\ b \in T
    <2>1. chains' = [chains EXCEPT ![c] = Append(@, b)]
      BY <1>2 DEF b
    <2>2. QED
      BY <1>1, <2>1, OneBlockMore DEF ApiInv
  <1>5. /\ k \notin DOMAIN chains[c]
        /\ DOMAIN chains'[c] = DOMAIN chains[c] \cup {k}
        /\ chains'[c][k] = b
        /\ \A l \in DOMAIN chains[c] : chains'[c][l] = chains[c][l]
    BY <1>4
  <1>6. txs'[m] = <<>> /\ \A n \in Miners : n # m => txs'[n] = txs[n]
    BY DEF ApiInv, LocalTyped
  <1>7. chains'[c][k].txs = Append(txs[m], CoinbaseTx(MinerAccount))
    BY <1>3, <1>5 DEF batch
  <1>8. NewBlock(m, c, k)
    BY <1>1, <1>4, <1>5, <1>6, <1>7 DEF NewBlock
  <1>9. QED
    BY <1>8

LEMMA AppendPlaces ==
    ASSUME PlaceInv, NEW m \in Miners, AppendBlock(m)
    PROVE  NewestIsCurrent' /\ Apart'
  <1> DEFINE batch == Append(txs[m], CoinbaseTx(MinerAccount))
  <1>1. PICK c, k : NewBlock(m, c, k)
    BY AppendEffect DEF PlaceInv
  <1> USE DEF NewBlock
  <1>2. UNCHANGED <<current, mempool, answered>>
    BY DEF AppendBlock
  <1>3. ASSUME NEW tx, tx.from # Coinbase, NEW i \in Positions(batch, tx)
        PROVE  i \in Positions(txs[m], tx)
    <2>1. CoinbaseTx(MinerAccount).from = Coinbase
      BY DEF CoinbaseTx
    <2>2. txs[m] \in Seq(Waiting)
      BY DEF PlaceInv, ApiInv, LocalTyped
    <2>3. QED
      BY <1>3, <2>1, <2>2 DEF Positions, batch
  <1> HIDE DEF batch
  <1>4. ASSUME NEW tx, tx.from # Coinbase, NEW p, NEW i, Lies(tx, p, i)'
        PROVE  \/ p # <<"miner", m>> /\ Lies(tx, p, i)
               \/ p = <<"block", c, k>> /\ Lies(tx, <<"miner", m>>, i)
    <2>1. CASE p = <<"pool">> /\ i \in Positions(mempool', tx)
      BY <2>1, <1>2 DEF Lies
    <2>2. ASSUME NEW n \in Miners, p = <<"miner", n>>, i \in Positions(txs'[n], tx)
          PROVE  p # <<"miner", m>> /\ Lies(tx, p, i)
      BY <2>2, <1>1 DEF Lies, Positions
    <2>3. ASSUME NEW d \in DOMAIN chains', NEW l \in DOMAIN chains'[d],
                 p = <<"block", d, l>>, i \in Positions(chains'[d][l].txs, tx)
          PROVE  \/ p # <<"miner", m>> /\ Lies(tx, p, i)
                 \/ p = <<"block", c, k>> /\ Lies(tx, <<"miner", m>>, i)
      <3>1. CASE d = c /\ l = k
        <4>1. i \in Positions(batch, tx)
          BY <3>1, <2>3, <1>1 DEF batch
        <4>2. QED
          BY <3>1, <4>1, <2>3, <1>3, <1>4 DEF Lies
      <3>2. CASE ~(d = c /\ l = k)
        <4>1. /\ d \in DOMAIN chains /\ l \in DOMAIN chains[d]
              /\ chains'[d][l] = chains[d][l]
          BY <3>2, <2>3, <1>1
        <4>2. QED
          BY <4>1, <2>3 DEF Lies
      <3>3. QED
        BY <3>1, <3>2
    <2>4. QED
      BY <1>4, <2>1, <2>2, <2>3 DEF Lies
  <1>5. NewestIsCurrent'
    BY <1>1, <1>2 DEF PlaceInv, NewestIsCurrent
  <1>6. \A s \in Transferred : TxOf[s].from # Coinbase
    BY DEF Transferred
  <1>7. ASSUME NEW s \in Transferred
        PROVE  /\ OnlyOnce(TxOf[s]) => OnlyOnce(TxOf[s])'
               /\ Nowhere(TxOf[s]) => Nowhere(TxOf[s])'
    <2>1. Moves(TxOf[s], <<"miner", m>>, <<"block", c, k>>)
      BY <1>4, <1>6 DEF Moves
    <2>2. QED
      BY <2>1, MovesOnce
  <1>8. answered' = answered
    BY <1>2
  <1>9. QED
    BY <1>5, <1>7, <1>8, ApartStep

LEMMA RaisePlaces ==
    ASSUME PlaceInv, NEW m \in Miners, MineRaises(m)
    PROVE  NewestIsCurrent' /\ Apart'
  <1> USE DEF MineRaises, PutBack
  <1>1. /\ txs'[m] = <<>>
        /\ \A n \in Miners : n # m => txs'[n] = txs[n]
    BY DEF PlaceInv, ApiInv, LocalTyped
  <1>2. ASSUME NEW tx, NEW p, NEW i, Lies(tx, p, i)'
        PROVE  \/ p # <<"miner", m>> /\ Lies(tx, p, i)
               \/ p = <<"pool">> /\ Lies(tx, <<"miner", m>>, i)
    BY <1>1, <1>2 DEF Lies, Positions
  <1>3. NewestIsCurrent'
    BY DEF PlaceInv, NewestIsCurrent
  <1>4. ASSUME NEW s \in Transferred
        PROVE  /\ OnlyOnce(TxOf[s]) => OnlyOnce(TxOf[s])'
               /\ Nowhere(TxOf[s]) => Nowhere(TxOf[s])'
    <2>1. Moves(TxOf[s], <<"miner", m>>, <<"pool">>)
      BY <1>2 DEF Moves
    <2>2. QED
      BY <2>1, MovesOnce
  <1>5. answered' = answered
    OBVIOUS
  <1>6. QED
    BY <1>3, <1>4, <1>5, ApartStep

LEMMA NextPlaces == PlaceInv /\ [Next]_vars => PlaceInv'
  <1> SUFFICES ASSUME PlaceInv, [Next]_vars PROVE PlaceInv'
    OBVIOUS
  <1>1. ApiInv'
    BY NextApi DEF PlaceInv
  <1>2. ASSUME NEW t \in Threads, FindNone(t) \/ Install(t) \/ FindChain(t)
        PROVE  NewestIsCurrent' /\ Apart'
    BY <1>2, QuietPlaces, InstallPlaces DEF FindNone, FindChain, local
  <1>3. ASSUME NEW s \in Submitters, Submit(s) PROVE NewestIsCurrent' /\ Apart'
    BY <1>3, SubmitPlaces
  <1>4. ASSUME NEW m \in Miners, Mine(m) PROVE NewestIsCurrent' /\ Apart'
    BY <1>4, QuietPlaces, TakePlaces, AppendPlaces, RaisePlaces
       DEF Mine, Check, ReadHead, local
  <1>5. ASSUME UNCHANGED vars PROVE NewestIsCurrent' /\ Apart'
    BY <1>5, QuietPlaces DEF vars
  <1>6. NewestIsCurrent' /\ Apart'
    BY <1>2, <1>3, <1>4, <1>5 DEF Next
  <1>7. QED
    BY <1>1, <1>6 DEF PlaceInv

\* How Places names a place.
Shows(r, place, i) ==
    \/ place = <<"pool">> /\ r = <<"pool", 0, i>>
    \/ \E m : place = <<"miner", m>> /\ r = <<"miner", m, i>>
    \/ \E k : place = <<"block", current, k>> /\ r = <<"block", k, i>>

LEMMA OnceIsNeverTwice == PlaceInv => NeverTwice
  <1> SUFFICES ASSUME PlaceInv, NEW s \in Transferred
               PROVE  Cardinality(Places(TxOf[s])) <= 1
    BY DEF NeverTwice, Transferred
  <1> DEFINE tx == TxOf[s]
  <1>1. OnlyOnce(tx)
    BY DEF PlaceInv, Apart
  <1>2. ASSUME NEW p \in Places(tx), NEW q \in Places(tx) PROVE p = q
    <2>1. current # 0 => current \in DOMAIN chains
      <3>1. PICK S : chains \in Seq(Seq(S) \ {<<>>})
        BY DEF PlaceInv, ApiInv, ChainsTyped, ChainsOf
      <3>2. QED
        BY <3>1 DEF PlaceInv, ApiInv, TypeOK
    <2>2. ASSUME NEW r \in Places(tx)
          PROVE  \E a, i : Lies(tx, a, i) /\ Shows(r, a, i)
      BY <2>1 DEF Places, Lies, Shows
    <2>3. PICK a, i : Lies(tx, a, i) /\ Shows(p, a, i)
      BY <2>2
    <2>4. PICK c, j : Lies(tx, c, j) /\ Shows(q, c, j)
      BY <2>2
    <2>5. c = a /\ j = i
      BY <2>3, <2>4, <1>1 DEF OnlyOnce
    <2>6. QED
      BY <2>3, <2>4, <2>5 DEF Shows
  <1> HIDE DEF tx
  <1>3. CASE Places(tx) = {}
    BY <1>3, FS_EmptySet DEF tx
  <1>4. CASE Places(tx) # {}
    <2>1. PICK p : Places(tx) = {p}
      BY <1>2, <1>4, Zenon
    <2>2. Cardinality({p}) = 1
      BY FS_Singleton
    <2>3. QED
      BY <2>1, <2>2 DEF tx
  <1>5. QED
    BY <1>3, <1>4

\* NeverTwice: whatever is submitted and however many threads mine, a transfer
\* is never in two places.
THEOREM TransfersAreNeverTwice == Spec => []NeverTwice
  BY InitPlaces, NextPlaces, OnceIsNeverTwice, PTL DEF Spec

-----------------------------------------------------------------------------
(* Nothing answered is lost while no mine has failed and one chain has been *)
(* made: the chain a miner works on is then the current one.                *)

Somewhere(tx) == \E p, i : Lies(tx, p, i)

SomewhereMeanwhile ==
    ~refused /\ Len(chains) <= 1 => \A s \in answered : Somewhere(TxOf[s])

\* A step by which no transaction gets out of sight.
LEMMA KeptStep ==
    ASSUME SomewhereMeanwhile, UNCHANGED <<answered, refused>>,
           Len(chains') <= 1 => Len(chains) <= 1,
           \A tx : Somewhere(tx) => Somewhere(tx)'
    PROVE  SomewhereMeanwhile'
  BY DEF SomewhereMeanwhile

LEMMA KeptQuiet ==
    ASSUME SomewhereMeanwhile, UNCHANGED <<chains, mempool, txs, answered, refused>>
    PROVE  SomewhereMeanwhile'
  <1>1. \A tx, p, i : Lies(tx, p, i) => Lies(tx, p, i)'
    BY DEF Lies
  <1>2. QED
    BY <1>1, KeptStep DEF Somewhere

LEMMA InstallKept ==
    ASSUME ApiInv, SomewhereMeanwhile, NEW t \in Threads, Install(t)
    PROVE  SomewhereMeanwhile'
  <1> USE DEF Install
  <1>1. /\ Len(chains) \in Nat /\ Len(chains') = Len(chains) + 1
        /\ DOMAIN chains = 1 .. Len(chains) /\ DOMAIN chains' = 1 .. Len(chains')
        /\ \A i \in DOMAIN chains : chains'[i] = chains[i]
    BY OneChainMore DEF ApiInv
  <1>2. DOMAIN chains \subseteq DOMAIN chains' /\ (Len(chains') <= 1 => Len(chains) <= 1)
    BY <1>1
  <1>3. \A tx, p, i : Lies(tx, p, i) => Lies(tx, p, i)'
    BY <1>1, <1>2 DEF Lies
  <1>4. QED
    BY <1>2, <1>3, KeptStep DEF Somewhere

LEMMA SubmitKept ==
    ASSUME ApiInv, SomewhereMeanwhile, NEW s \in Submitters, Submit(s)
    PROVE  SomewhereMeanwhile'
  <1> USE DEF Submit, Queued, local
  <1>1. mempool \in Seq(Waiting) /\ TxOf[s] \in Waiting
    BY DEF ApiInv, TypeOK, Waiting
  <1>2. \A tx : Positions(mempool, tx) \subseteq Positions(mempool', tx)
    BY <1>1 DEF Positions
  <1>3. \A tx, p, i : Lies(tx, p, i) => Lies(tx, p, i)'
    BY <1>2 DEF Lies
  <1>4. PICK n : n \in Positions(mempool', TxOf[s])
    <2>1. Len(mempool) + 1 \in Positions(mempool', TxOf[s])
      BY <1>1 DEF Positions
    <2>2. QED
      BY <2>1
  <1>5. Lies(TxOf[s], <<"pool">>, n)'
    BY <1>4 DEF Lies
  <1>6. QED
    BY <1>3, <1>5 DEF SomewhereMeanwhile, Somewhere

LEMMA TakeKept ==
    ASSUME ApiInv, SomewhereMeanwhile, NEW m \in Miners, Take(m)
    PROVE  SomewhereMeanwhile'
  <1> USE DEF Take, At
  <1>1. /\ txs[m] = <<>> /\ txs'[m] = mempool
        /\ \A n \in Miners : n # m => txs'[n] = txs[n]
    BY DEF ApiInv, LocalTyped, TypeOK
  <1>2. ASSUME NEW tx, NEW p, NEW i, Lies(tx, p, i)
        PROVE  Lies(tx, p, i)' \/ Lies(tx, <<"miner", m>>, i)'
    BY <1>1, <1>2 DEF Lies, Positions
  <1>3. QED
    BY <1>2, KeptStep DEF Somewhere

LEMMA AppendKept ==
    ASSUME ApiInv, SomewhereMeanwhile, NEW m \in Miners, AppendBlock(m)
    PROVE  SomewhereMeanwhile'
  <1> DEFINE batch == Append(txs[m], CoinbaseTx(MinerAccount))
  <1>1. PICK c, k : NewBlock(m, c, k)
    BY AppendEffect
  <1> USE DEF NewBlock
  <1>2. \A tx : Positions(txs[m], tx) \subseteq Positions(batch, tx)
    <2>1. txs[m] \in Seq(Waiting)
      BY DEF ApiInv, LocalTyped
    <2>2. QED
      BY <2>1 DEF Positions
  <1>3. UNCHANGED <<mempool, answered, refused>>
    BY DEF AppendBlock
  <1> HIDE DEF batch
  <1>4. ASSUME NEW tx, NEW p, NEW i, Lies(tx, p, i)
        PROVE  Lies(tx, p, i)' \/ Lies(tx, <<"block", c, k>>, i)'
    <2>1. CASE p = <<"miner", m>> /\ i \in Positions(txs[m], tx)
      BY <2>1, <1>1, <1>2 DEF Lies, batch
    <2>2. ASSUME NEW d \in DOMAIN chains, NEW l \in DOMAIN chains[d],
                 p = <<"block", d, l>>, i \in Positions(chains[d][l].txs, tx)
          PROVE  Lies(tx, p, i)'
      <3>1. l \in DOMAIN chains'[d] /\ chains'[d][l] = chains[d][l]
        BY <2>2, <1>1
      <3>2. QED
        BY <3>1, <2>2, <1>1 DEF Lies
    <2>3. QED
      BY <1>4, <2>1, <2>2, <1>1, <1>3 DEF Lies
  <1>5. QED
    BY <1>1, <1>3, <1>4, KeptStep DEF Somewhere

LEMMA NextKept == PlaceInv /\ SomewhereMeanwhile /\ [Next]_vars => SomewhereMeanwhile'
  <1> SUFFICES ASSUME PlaceInv, SomewhereMeanwhile, [Next]_vars
               PROVE  SomewhereMeanwhile'
    OBVIOUS
  <1> USE DEF PlaceInv
  <1>1. ASSUME NEW t \in Threads, FindNone(t) \/ Install(t) \/ FindChain(t)
        PROVE  SomewhereMeanwhile'
    BY <1>1, KeptQuiet, InstallKept DEF FindNone, FindChain, local
  <1>2. ASSUME NEW s \in Submitters, Submit(s) PROVE SomewhereMeanwhile'
    BY <1>2, SubmitKept
  <1>3. ASSUME NEW m \in Miners, MineRaises(m) PROVE SomewhereMeanwhile'
    BY <1>3 DEF MineRaises, SomewhereMeanwhile
  <1>4. ASSUME NEW m \in Miners, Mine(m) PROVE SomewhereMeanwhile'
    BY <1>3, <1>4, KeptQuiet, TakeKept, AppendKept DEF Mine, Check, ReadHead, local
  <1>5. ASSUME UNCHANGED vars PROVE SomewhereMeanwhile'
    BY <1>5, KeptQuiet DEF vars, local
  <1>6. QED
    BY <1>1, <1>2, <1>4, <1>5 DEF Next

LEMMA SomewhereIsKept == PlaceInv /\ SomewhereMeanwhile => KeptMeanwhile
  <1> SUFFICES ASSUME PlaceInv, SomewhereMeanwhile, ~refused, Len(chains) <= 1,
                      NEW s \in answered
               PROVE  Places(TxOf[s]) # {}
    BY DEF KeptMeanwhile, AcceptedKept
  <1>1. PICK p, i : Lies(TxOf[s], p, i)
    BY DEF SomewhereMeanwhile, Somewhere
  <1>2. \A c \in DOMAIN chains : c = current /\ current # 0
    <2>1. PICK S : chains \in Seq(Seq(S) \ {<<>>})
      BY DEF PlaceInv, ApiInv, ChainsTyped, ChainsOf
    <2>2. QED
      BY <2>1 DEF PlaceInv, NewestIsCurrent
  <1> DEFINE tx == TxOf[s]
  <1>3. CASE p = <<"pool">> /\ i \in Positions(mempool, tx)
    <2>1. <<"pool", 0, i>> \in Places(tx)
      BY <1>3 DEF Places
    <2>2. QED
      BY <2>1
  <1>4. ASSUME NEW m \in Miners, i \in Positions(txs[m], tx) PROVE Places(tx) # {}
    <2>1. <<"miner", m, i>> \in Places(tx)
      BY <1>4 DEF Places
    <2>2. QED
      BY <2>1
  <1>5. ASSUME NEW c \in DOMAIN chains, NEW k \in DOMAIN chains[c],
               i \in Positions(chains[c][k].txs, tx)
        PROVE  Places(tx) # {}
    <2>1. <<"block", k, i>> \in Places(tx)
      BY <1>5, <1>2 DEF Places
    <2>2. QED
      BY <2>1
  <1>6. QED
    BY <1>1, <1>3, <1>4, <1>5 DEF Lies

\* KeptMeanwhile: however many threads mine, a transaction that was answered is
\* in the pool, in a miner's hands or on the chain, as long as no mine has
\* failed and the chain has not been replaced.
THEOREM AnsweredAreKept == Spec => []KeptMeanwhile
  <1>1. Init => SomewhereMeanwhile
    BY DEF Init, SomewhereMeanwhile
  <1>2. PlaceInv /\ SomewhereMeanwhile /\ [Next]_vars => PlaceInv' /\ SomewhereMeanwhile'
    BY NextPlaces, NextKept
  <1>3. QED
    BY <1>1, <1>2, InitPlaces, SomewhereIsKept, PTL DEF Spec

-----------------------------------------------------------------------------
(* What is refused stays refused.                                           *)

\* The check of a transaction looks at nothing behind it.
LEMMA RefusesMore ==
    ASSUME NEW bs, NEW T, NEW list \in Seq(T), NEW tx \in T, Refuses(bs, list)
    PROVE  Refuses(bs, Append(list, tx))
  <1> DEFINE reward == CoinbaseTx(MinerAccount)
             x == Append(list, reward)
             y == Append(Append(list, tx), reward)
             n == Len(list)
  <1>1. reward.from = Coinbase /\ VerifyTx(reward)
    BY DEF CoinbaseTx, VerifyTx
  <1> HIDE DEF reward
  <1>2. /\ n \in Nat /\ Len(x) = n + 1 /\ Len(y) = n + 2
        /\ x[n + 1] = reward /\ y[n + 2] = reward
        /\ \A i \in 1 .. n : x[i] = y[i]
    <2> DEFINE V == T \cup {reward}
    <2>1. list \in Seq(V) /\ tx \in V /\ reward \in V
      OBVIOUS
    <2> HIDE DEF V
    <2>2. QED
      BY <2>1
  <1> HIDE DEF x, y, n
  <1>3. SUFFICES ASSUME CheckTxs(bs, y) PROVE CheckTxs(bs, x)
    BY DEF Refuses, x, y, reward
  <1>4. /\ \A i \in 1 .. n : i \in 1 .. Len(y) /\ i # n + 2
        /\ n + 2 \in 1 .. Len(y)
        /\ \A i \in 1 .. Len(x) : i \in 1 .. n \/ i = n + 1
        /\ n + 1 \in 1 .. Len(x)
    BY <1>2
  <1>5. \A i \in 1 .. n : x[i].from # Coinbase
    <2>1. OneCoinbase(y) /\ y[n + 2].from = Coinbase
      BY <1>1, <1>2, <1>3 DEF CheckTxs
    <2>2. QED
      BY <1>2, <1>4, <2>1 DEF OneCoinbase
  <1>6. OneCoinbase(x)
    BY <1>1, <1>2, <1>4, <1>5 DEF OneCoinbase
  <1>7. ASSUME NEW i \in 1 .. n
        PROVE  /\ VerifyTx(x[i]) /\ x[i].amount > 0
               /\ Fresh(Seen(bs, x, i), x[i])
               /\ Balance(Seen(bs, x, i), x[i].from) >= x[i].amount
    <2>1. /\ VerifyTx(y[i])
          /\ \/ y[i].from = Coinbase
             \/ /\ y[i].amount > 0
                /\ Fresh(Seen(bs, y, i), y[i])
                /\ Balance(Seen(bs, y, i), y[i].from) >= y[i].amount
      BY <1>3, <1>4, Zenon DEF CheckTxs
    <2>2. [j \in 1 .. i - 1 |-> Skipped(x[j])] = [j \in 1 .. i - 1 |-> Skipped(y[j])]
      BY <1>2
    <2>3. Seen(bs, x, i) = Seen(bs, y, i)
      BY <2>2, Zenon DEF Seen
    <2>4. QED
      BY <1>2, <1>5, <2>1, <2>3
  <1>8. ASSUME NEW i \in 1 .. Len(x)
        PROVE  /\ VerifyTx(x[i])
               /\ \/ x[i].from = Coinbase
                  \/ /\ x[i].amount > 0
                     /\ Fresh(Seen(bs, x, i), x[i])
                     /\ Balance(Seen(bs, x, i), x[i].from) >= x[i].amount
    <2>1. CASE i \in 1 .. n
      BY <1>7, <2>1
    <2>2. CASE i = n + 1
      BY <1>1, <1>2, <2>2
    <2>3. QED
      BY <1>4, <2>1, <2>2
  <1>9. QED
    BY <1>6, <1>8, Zenon DEF CheckTxs

LEMMA StuckStep ==
    ASSUME ApiInv, NEW m, Miners = {m}, Stuck, [Next]_vars
    PROVE  Stuck' /\ chains' = chains
  <1> DEFINE Held == Stuck' /\ chains' = chains
  <1>0. /\ m \in Miners /\ m \in Threads /\ current # 0
        /\ \A t \in Threads : pc[t] # "build"
        /\ pc[m] \in {"idle", "take", "check"}
        /\ mempool \in Seq(Waiting)
        /\ pc = [t \in Threads |-> pc[t]]
        /\ ch = [n \in Miners |-> ch[n]] /\ txs = [n \in Miners |-> txs[n]]
    BY DEF Stuck, Threads, ApiInv, TypeOK, LocalTyped, Waiting
  <1>1. ASSUME NEW t \in Threads, FindChain(t) PROVE Held
    BY <1>0, <1>1 DEF FindChain, Enter, At, GoTo, Stuck
  <1>2. ASSUME NEW s \in Submitters, Submit(s) PROVE Held
    <2>1. mempool' = Append(mempool, TxOf[s]) /\ TxOf[s] \in Waiting
      BY <1>2 DEF Submit, Queued, Waiting
    <2>2. Refuses(chains[current], mempool) => Refuses(chains[current], mempool')
      BY <1>0, <2>1, RefusesMore
    <2>3. UNCHANGED <<chains, current, pc, ch, txs>>
      BY <1>2 DEF Submit, local
    <2>4. Refuses(chains[current], mempool)' = Refuses(chains[current], mempool')
      BY <2>3 DEF Refuses
    <2>5. \A n \in Miners : Refuses(chains[current], txs[n])' = Refuses(chains[current], txs[n])
      BY <2>3 DEF Refuses
    <2>6. QED
      BY <2>2, <2>3, <2>4, <2>5 DEF Stuck
  <1>3. ASSUME Take(m) PROVE Held
    BY <1>0, <1>3 DEF Take, At, GoTo, Stuck, Refuses
  <1>4. ~Check(m) /\ ~ReadHead(m) /\ ~AppendBlock(m)
    <2>1. pc[m] = "check" => ~Acceptable(m)
      BY <1>0 DEF Stuck, Refuses, Acceptable
    <2>2. QED
      BY <1>0, <2>1 DEF Check, ReadHead, AppendBlock, At
  <1>5. ASSUME MineRaises(m) PROVE Held
    BY <1>0, <1>5 DEF MineRaises, PutBack, At, GoTo, Stuck, Refuses
  <1>6. ASSUME NEW t \in Threads PROVE ~FindNone(t) /\ ~Install(t)
    BY <1>0 DEF FindNone, Install, At
  <1>7. ASSUME UNCHANGED vars PROVE Held
    BY <1>7 DEF vars, local, Stuck, Refuses
  <1> HIDE DEF Held
  <1>8. Held
    BY <1>1, <1>2, <1>3, <1>4, <1>5, <1>6, <1>7 DEF Next, Mine
  <1>9. QED
    BY <1>8 DEF Held

\* StuckForGood: with one thread that mines, a pool that the check refuses is
\* the end of mining, for any transactions and whatever is submitted after it.
THEOREM RefusedEndsMining ==
    ASSUME NEW m, Miners = {m} PROVE Spec => StuckForGood
  <1>1. ApiInv /\ [Next]_vars => [Stuck => Stuck' /\ chains' = chains]_vars
    BY StuckStep
  <1>2. QED
    BY <1>1, InitApi, NextApi, PTL DEF Spec, StuckForGood
=============================================================================
