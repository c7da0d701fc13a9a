------------------------------ MODULE ChainApi ------------------------------
(***************************************************************************)
(* The /chain endpoints of the API (api/routes/chain.py) over one Chain.   *)
(*                                                                         *)
(* The endpoints are plain functions, so the server runs each request in a *)
(* thread of its pool, and no lock guards _state or the chain.  Threads    *)
(* change where a handler is inside a call: building a chain and sealing a *)
(* block integrate a field and take long.  What a handler does between two *)
(* calls is one step here.                                                 *)
(***************************************************************************)
EXTENDS Chain

CONSTANTS
    Submitters,     \* requests to POST /chain/tx, one each
    TxOf,           \* the transaction each submits, all different
    Miners,         \* threads serving POST /chain/mine, over and over
    Readers,        \* requests to the endpoints that only read the chain
    MinerAccount,   \* the address every mine request names
    Qualities,      \* bound: the crystallinities the field runs give
    MaxBlocks       \* bound: no block is mined on a chain as long as this

ASSUME QualityAssumption == Qualities \subseteq Nat
ASSUME TxOfAssumption    == \A r, s \in Submitters : TxOf[r] = TxOf[s] => r = s
ASSUME SubmittersAssumption == IsFiniteSet(Submitters)
ASSUME TypesAssumption   ==
    MinerAccount \in Accounts /\ \A s \in Submitters : TxOf[s] \in Transactions

VARIABLES
    chains,         \* every Chain object made, as its list of blocks
    current,        \* _state['chain'], an index into chains; 0 for None
    mempool,        \* _state['mempool']
    answered,       \* the submitters told {'ok': True}
    pc,             \* where each miner and reader is
    ch, txs,        \* each miner's local variables, those of Chain.mine
    prev, target,   \*   among them
    refused         \* whether some mine request has failed

local == <<ch, txs, prev, target>>
vars  == <<chains, current, mempool, answered, pc, ch, txs, prev, target, refused>>

Threads == Miners \cup Readers

TypeOK ==
    /\ current \in 0 .. Len(chains)
    /\ mempool \in Seq({TxOf[s] : s \in Submitters})
    /\ answered \subseteq Submitters
    /\ pc \in [Threads -> {"idle", "build", "take", "check", "head", "seal", "done"}]
    /\ \A m \in Miners : pc[m] \in {"take", "check", "head", "seal"} => ch[m] \in DOMAIN chains
    /\ \A m \in Miners : pc[m] \in {"idle", "build", "take"} => txs[m] = <<>>

Init ==
    /\ chains = <<>>
    /\ current = 0
    /\ mempool = <<>>
    /\ answered = {}
    /\ pc = [t \in Threads |-> "idle"]
    /\ ch = [m \in Miners |-> 0]
    /\ txs = [m \in Miners |-> <<>>]
    /\ prev = [m \in Miners |-> <<>>]
    /\ target = [m \in Miners |-> 0]
    /\ refused = FALSE

At(t, place) == pc[t] = place
GoTo(t, place) == pc' = [pc EXCEPT ![t] = place]

-----------------------------------------------------------------------------
(* _chain(), by which a request to mine or to read begins.                 *)

\* What the thread does with the chain it gets.
Enter(t, id) ==
    IF t \in Miners
      THEN GoTo(t, "take") /\ ch' = [ch EXCEPT ![t] = id]
      ELSE GoTo(t, "done") /\ UNCHANGED ch

FindNone(t) ==
    /\ At(t, "idle")
    /\ current = 0
    /\ GoTo(t, "build")
    /\ UNCHANGED <<chains, current, mempool, answered, local, refused>>

Install(t) ==
    /\ At(t, "build")
    /\ chains' = Append(chains, <<Genesis>>)
    /\ current' = Len(chains) + 1
    /\ Enter(t, current')
    /\ UNCHANGED <<mempool, answered, txs, prev, target, refused>>

FindChain(t) ==
    /\ At(t, "idle")
    /\ current # 0
    /\ Enter(t, current)
    /\ UNCHANGED <<chains, current, mempool, answered, txs, prev, target, refused>>

-----------------------------------------------------------------------------
(* POST /chain/tx: the signature is looked at, nothing else.               *)

\* Mutant: the transaction takes the place of those that wait.
QueuedAlone(tx) == <<tx>>

Queued(tx) == Append(mempool, tx)

Submit(s) ==
    /\ s \notin answered
    /\ VerifyTx(TxOf[s])
    /\ mempool' = Queued(TxOf[s])
    /\ answered' = answered \cup {s}
    /\ UNCHANGED <<chains, current, pc, local, refused>>

-----------------------------------------------------------------------------
(* POST /chain/mine.                                                       *)

\* Mutant: the pool keeps what a miner has taken from it.
LeftInPoolAll == mempool

LeftInPool == <<>>

Take(m) ==
    /\ At(m, "take")
    /\ Len(chains[ch[m]]) < MaxBlocks
    /\ txs' = [txs EXCEPT ![m] = mempool]
    /\ mempool' = LeftInPool
    /\ GoTo(m, "check")
    /\ UNCHANGED <<chains, current, answered, ch, prev, target, refused>>

\* Mutant: only the signatures are looked at.
AcceptableSigned(m) == \A i \in 1 .. Len(txs[m]) : VerifyTx(txs[m][i])

Acceptable(m) == CheckTxs(chains[ch[m]], Append(txs[m], CoinbaseTx(MinerAccount)))

Check(m) ==
    /\ At(m, "check")
    /\ Acceptable(m)
    /\ GoTo(m, "head")
    /\ UNCHANGED <<chains, current, mempool, answered, local, refused>>

ReadHead(m) ==
    LET bs == chains[ch[m]]
    IN  /\ At(m, "head")
        /\ prev' = [prev EXCEPT ![m] = bs[Len(bs)].hash]
        /\ target' = [target EXCEPT ![m] = Difficulty(bs)]
        /\ GoTo(m, "seal")
        /\ UNCHANGED <<chains, current, mempool, answered, ch, txs, refused>>

AppendBlock(m) ==
    /\ At(m, "seal")
    /\ \E quality \in Qualities :
          /\ Seals(quality, target[m])
          /\ chains' = [chains EXCEPT ![ch[m]] = Append(@,
                 SealedBlock(prev[m], Append(txs[m], CoinbaseTx(MinerAccount)), quality))]
    /\ txs' = [txs EXCEPT ![m] = <<>>]
    /\ prev' = [prev EXCEPT ![m] = <<>>]
    /\ target' = [target EXCEPT ![m] = 0]
    /\ GoTo(m, "idle")
    /\ UNCHANGED <<current, mempool, answered, ch, refused>>

\* Mutant: a failed mine lets go of what it took.
PutBackNothing(m) == mempool

PutBack(m) == txs[m]

\* ValueError from the check, or RuntimeError when no nonce seals: the taken
\* list becomes the pool again.
MineRaises(m) ==
    /\ \/ At(m, "check") /\ ~Acceptable(m)
       \/ At(m, "seal")
    /\ mempool' = PutBack(m)
    /\ txs' = [txs EXCEPT ![m] = <<>>]
    /\ prev' = [prev EXCEPT ![m] = <<>>]
    /\ target' = [target EXCEPT ![m] = 0]
    /\ refused' = TRUE
    /\ GoTo(m, "idle")
    /\ UNCHANGED <<chains, current, answered, ch>>

-----------------------------------------------------------------------------
Mine(m) == Take(m) \/ Check(m) \/ ReadHead(m) \/ AppendBlock(m) \/ MineRaises(m)

Next ==
    \/ \E t \in Threads : FindNone(t) \/ Install(t) \/ FindChain(t)
    \/ \E s \in Submitters : Submit(s)
    \/ \E m \in Miners : Mine(m)

Spec == Init /\ [][Next]_vars

-----------------------------------------------------------------------------
(* Properties.                                                             *)

\* Every chain the server has validates, at every moment.  Holds for one miner
\* whatever is submitted and read meanwhile; two mine requests that overlap
\* append to the same head, and the chain never validates again.
ChainsValid == \A i \in DOMAIN chains : Validate(chains[i])

\* For one miner the books of every chain are in order, whatever was submitted.
BooksInOrder ==
    \A i \in DOMAIN chains :
        AddsUp(chains[i]) /\ NeverOverdrawn(chains[i]) /\ InSequence(chains[i])

\* Where a transaction is: waiting, in a miner's hands, or on the current chain.
Positions(list, tx) == {i \in DOMAIN list : list[i] = tx}

Places(tx) ==
    LET InPool  == {<<"pool", 0, i>> : i \in Positions(mempool, tx)}
        Taken   == {{<<"miner", m, i>> : i \in Positions(txs[m], tx)} : m \in Miners}
        OnChain == {{<<"block", k, i>> : i \in Positions(chains[current][k].txs, tx)} :
                        k \in DOMAIN chains[current]}
    IN  InPool \cup (UNION Taken) \cup (IF current = 0 THEN {} ELSE UNION OnChain)

\* A transfer submitted once is never in two places, though it passes from the
\* pool to a miner, to the chain, or back.  (A reward is no transfer: two blocks
\* that pay the same miner hold the same one.)
NeverTwice ==
    \A s \in Submitters :
        TxOf[s].from # Coinbase => Cardinality(Places(TxOf[s])) <= 1

\* A transaction that was answered {'ok': True} is still somewhere.  Does not
\* hold: the pool a failed mine puts back replaces the one filled meanwhile,
\* and a second first request replaces the chain that has just been mined on.
AcceptedKept == \A s \in answered : Places(TxOf[s]) # {}

\* It does as long as no mine has failed and one chain has been made.
KeptMeanwhile == ~refused /\ Len(chains) <= 1 => AcceptedKept

\* The pool, or the list a miner has taken from it, is one that the check of
\* the current chain refuses, and no other chain is under way.
Refuses(bs, list) == ~CheckTxs(bs, Append(list, CoinbaseTx(MinerAccount)))

Stuck ==
    /\ current # 0
    /\ \A t \in Threads : pc[t] # "build"
    /\ \A m \in Miners :
          \/ pc[m] = "idle" /\ Refuses(chains[current], mempool)
          \/ pc[m] = "take" /\ Refuses(chains[current], mempool) /\ ch[m] = current
          \/ pc[m] = "check" /\ Refuses(chains[current], txs[m]) /\ ch[m] = current

\* One transaction that is refused ends all mining, for one miner: the failed
\* mine puts its list back, later submissions only come behind it, and what is
\* behind a transaction never makes it acceptable.  No block is appended again.
StuckForGood == [][Stuck => Stuck' /\ chains' = chains]_vars

-----------------------------------------------------------------------------
(* The chains are the books of Bank.                                       *)

BookOf(bs) ==
    [funds |-> [a \in Accounts |-> Balance(TxsOf(bs), a)],
     next  |-> [a \in Accounts |-> LastSeq(TxsOf(bs), a) + 1]]

Books   == [i \in DOMAIN chains |-> BookOf(chains[i])]
Settled == [i \in DOMAIN chains |-> Len(chains[i]) - 1]

\* The transfers that were signed by their senders, and lists of them.
Transfers == {TxOf[s] : s \in {r \in Submitters : VerifyTx(TxOf[r])}}
Batches   == UNION {[1 .. n -> Transfers] : n \in 0 .. Cardinality(Submitters)}

B == INSTANCE Bank WITH books <- Books, settled <- Settled

\* For one miner, whatever is submitted, read and refused, and whenever: the
\* chains change only as Bank's books do.  Each block settles a list of signed
\* transfers, each with money its sender has at that point and the number that
\* is due, and pays one reward; nothing else moves money on any chain.
ActsAsBank == B!Spec
=============================================================================
