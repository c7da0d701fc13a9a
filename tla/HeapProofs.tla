----------------------------- MODULE HeapProofs -----------------------------
(* For every heap size, page size and set of requests: the heap's blocks    *)
(* and aligned regions stay apart and inside the heap, coalescing is        *)
(* complete, and the heap implements Memory.                                *)
EXTENDS Heap, WellFoundedInduction, TLAPS

-----------------------------------------------------------------------------
(* Least and greatest elements of sets of addresses.                        *)

Below == OpToRel(<, Nat)

LEMMA BelowWellFounded == IsWellFoundedOn(Below, Nat)
  BY NatLessThanWellFounded DEF Below

LEMMA BelowIsLess == \A x, y \in Nat : y < x => <<y, x>> \in Below
  BY DEF Below, OpToRel

LEMMA Least ==
    ASSUME NEW T \in SUBSET Nat, T # {}
    PROVE  \E x \in T : \A y \in T : x <= y
  <1>1. PICK x \in T : \A y \in T : ~ (<<y, x>> \in Below)
    BY WFMin, BelowWellFounded
  <1>2. ASSUME NEW y \in T PROVE x <= y
    <2>1. x \in Nat /\ y \in Nat
      OBVIOUS
    <2>2. ~(y < x)
      BY <1>1, <2>1, BelowIsLess, Zenon
    <2>3. QED
      BY <2>1, <2>2
  <1>3. QED
    BY <1>2

LEMMA Greatest ==
    ASSUME NEW k \in Nat, NEW S \in SUBSET (0 .. k), S # {}
    PROVE  \E x \in S : \A y \in S : y <= x
  <1> DEFINE T == {n \in Nat : k - n \in S}
  <1>1. T # {}
    <2>1. PICK x \in S : TRUE
      OBVIOUS
    <2>2. k - x \in Nat /\ k - (k - x) = x
      OBVIOUS
    <2>3. QED
      BY <2>1, <2>2
  <1>2. PICK n \in T : \A y \in T : n <= y
    <2> HIDE DEF T
    <2>1. T \in SUBSET Nat
      BY DEF T
    <2>2. QED
      BY <1>1, <2>1, Least
  <1>3. \A y \in S : k - y \in T
    OBVIOUS
  <1>4. QED
    BY <1>2, <1>3

-----------------------------------------------------------------------------
(* The inductive invariant.  What the properties do not say by themselves   *)
(* is why a merge never swallows an aligned region: between a block below a *)
(* region and the region there is a pinned block, and free merges only      *)
(* blocks that are not pinned.                                              *)

PinRule ==
    \A r \in regions, b \in Blocks :
        b < r.lo => \E p \in pinned : b <= p /\ p < r.lo

HeapInv == TypeOK /\ NoOverlap /\ WithinHeap /\ NoFreeNeighbours /\ PinRule

LEMMA InitInv == Init => HeapInv
  <1> SUFFICES ASSUME Init PROVE HeapInv
    OBVIOUS
  <1>1. Blocks = {}
    BY DEF Init, Blocks
  <1>2. size \in [Blocks -> Nat \ {0}]
    BY <1>1 DEF Init
  <1>3. TypeOK
    BY <1>1, <1>2 DEF Init, TypeOK
  <1>4. QED
    BY <1>1, <1>3, TotalAssumption
    DEF Init, HeapInv, NoOverlap, BlocksApart, RegionsApart, WithinHeap,
        NoFreeNeighbours, PinRule

LEMMA Addresses ==
    ASSUME HeapInv
    PROVE  /\ Blocks \subseteq 0 .. top
           /\ \A b \in Blocks : End(b) \in Nat /\ b + 1 < End(b)
  BY DEF HeapInv, TypeOK, WithinHeap, End

-----------------------------------------------------------------------------
(* Carving from the top, and splitting.                                     *)

LEMMA TopKeepsInv ==
    ASSUME HeapInv, NEW n \in Requests, AllocTop(n)
    PROVE  HeapInv'
  <1> USE DEF HeapInv, TypeOK
  <1>1. n \in Nat \ {0} /\ PageG \in Nat
    BY RequestAssumption, PageAssumption
  <1>2. /\ top \notin Blocks
        /\ \A b \in Blocks : b < top
    BY Addresses DEF WithinHeap
  <1>3. /\ Blocks' = Blocks \cup {top}
        /\ size' \in [Blocks' -> Nat \ {0}]
        /\ size'[top] = n
        /\ \A b \in Blocks : size'[b] = size[b]
    BY <1>1, <1>2 DEF AllocTop, Blocks
  <1>4. /\ \A b \in {top} : End(b)' = top'
        /\ \A b \in Blocks : End(b)' = End(b)
    BY <1>1, <1>3 DEF AllocTop, End
  <1>5. TypeOK'
    BY <1>1, <1>3 DEF AllocTop
  <1>6. NoOverlap'
    <2>1. BlocksApart'
      BY <1>2, <1>3, <1>4, Addresses DEF NoOverlap, BlocksApart, WithinHeap
    <2>2. RegionsApart'
      BY <1>2, <1>3, <1>4, Addresses DEF AllocTop, NoOverlap, RegionsApart, WithinHeap
    <2>3. QED
      BY <2>1, <2>2 DEF NoOverlap
  <1>7. WithinHeap'
    BY <1>1, <1>3, <1>4, Addresses, TotalAssumption
    DEF AllocTop, WithinHeap, RoomFor, GuardCharge
  <1>8. NoFreeNeighbours'
    BY <1>2, <1>3 DEF AllocTop, NoFreeNeighbours
  <1>9. PinRule'
    BY <1>2, <1>3 DEF AllocTop, PinRule, WithinHeap
  <1>10. QED
    BY <1>5, <1>6, <1>7, <1>8, <1>9

\* What a split makes of the sizes: the two parts fill the block exactly.
LEMMA SplitFacts ==
    ASSUME HeapInv, NEW b \in Blocks, NEW n \in Nat \ {0}, size[b] >= n + 3,
           size' = Split(b, n)
    PROVE  LET s == Remainder(b, n)
           IN  /\ s \in Nat /\ s \notin Blocks
               /\ Blocks' = Blocks \cup {s}
               /\ size' \in [Blocks' -> Nat \ {0}]
               /\ size'[b] = n
               /\ b < s /\ s < End(b)
               /\ End(b)' = s
               /\ End(s)' = End(b)
               /\ \A c \in Blocks \ {b} : size'[c] = size[c] /\ End(c)' = End(c)
  <1> USE DEF HeapInv, TypeOK
  <1> DEFINE s == Remainder(b, n)
  <1>1. s \in Nat /\ b < s /\ s < End(b)
    BY DEF Remainder, End
  <1>2. s \notin Blocks
    BY <1>1, Addresses DEF NoOverlap, BlocksApart
  <1>3. /\ Blocks' = Blocks \cup {s}
        /\ \A c \in Blocks' : size'[c] = IF c = b THEN n
                                         ELSE IF c = s THEN size[b] - n - 1
                                         ELSE size[c]
    BY DEF Blocks, Split
  <1>4. size' \in [Blocks' -> Nat \ {0}]
    <2>1. size[b] - n - 1 \in Nat \ {0}
      OBVIOUS
    <2>2. size' = [c \in Blocks' |-> size'[c]]
      BY <1>3 DEF Split, Blocks
    <2>3. QED
      BY <1>3, <2>1, <2>2
  <1>5. size'[b] = n /\ size'[s] = size[b] - n - 1
    BY <1>1, <1>2, <1>3
  <1>6. End(b)' = s /\ End(s)' = End(b)
    BY <1>5 DEF End, Remainder
  <1>7. \A c \in Blocks \ {b} : size'[c] = size[c] /\ End(c)' = End(c)
    BY <1>2, <1>3 DEF End
  <1>8. QED
    BY <1>1, <1>2, <1>3, <1>4, <1>5, <1>6, <1>7

LEMMA ReuseKeepsInv ==
    ASSUME HeapInv, NEW n \in Requests, AllocReuse(n)
    PROVE  HeapInv'
  <1> USE DEF HeapInv, TypeOK
  <1>1. PICK b \in Blocks :
            /\ b \in freed
            /\ IF size[b] >= n + 3
                 THEN /\ size' = Split(b, n)
                      /\ freed' = (freed \ {b}) \cup {Remainder(b, n)}
                 ELSE /\ freed' = freed \ {b}
                      /\ UNCHANGED size
    BY DEF AllocReuse, FirstFit, Fits
  <1>2. UNCHANGED <<regions, top, used, guard, pinned>>
    BY DEF AllocReuse
  <1>3. n \in Nat \ {0}
    BY RequestAssumption
  <1>4. CASE ~(size[b] >= n + 3)
    <2>1. Blocks' = Blocks /\ UNCHANGED size /\ freed' = freed \ {b}
      BY <1>1, <1>4 DEF Blocks
    <2>2. TypeOK'
      BY <1>2, <2>1
    <2>3. NoOverlap' /\ WithinHeap' /\ PinRule'
      BY <1>2, <2>1
      DEF NoOverlap, BlocksApart, RegionsApart, WithinHeap, PinRule, End
    <2>4. NoFreeNeighbours'
      BY <2>1 DEF NoFreeNeighbours
    <2>5. QED
      BY <2>2, <2>3, <2>4
  <1>5. CASE size[b] >= n + 3
    <2> DEFINE s == Remainder(b, n)
    <2>1. /\ s \in Nat /\ s \notin Blocks
          /\ Blocks' = Blocks \cup {s}
          /\ size' \in [Blocks' -> Nat \ {0}]
          /\ b < s /\ s < End(b)
          /\ End(b)' = s
          /\ End(s)' = End(b)
          /\ \A c \in Blocks \ {b} : End(c)' = End(c)
      BY <1>1, <1>3, <1>5, SplitFacts
    <2>2. freed' = (freed \ {b}) \cup {s}
      BY <1>1, <1>5
    <2> HIDE DEF s
    <2>3. TypeOK'
      BY <1>1, <1>2, <2>1, <2>2
    <2>4. BlocksApart'
      BY <2>1, Addresses DEF NoOverlap, BlocksApart
    <2>5. RegionsApart'
      BY <1>2, <2>1, Addresses DEF NoOverlap, RegionsApart
    <2>6. WithinHeap'
      BY <1>2, <2>1, Addresses DEF WithinHeap
    <2>7. NoFreeNeighbours'
      <3> SUFFICES ASSUME NEW x \in freed', NEW y \in freed', x < y
                   PROVE  \E d \in Blocks' \ freed' : x < d /\ d < y
        BY DEF NoFreeNeighbours
      <3>1. b \in Blocks' \ freed'
        BY <2>1, <2>2
      <3>2. CASE y = s
        BY <2>1, <2>2, <3>1, <3>2, Addresses DEF NoOverlap, BlocksApart
      <3>3. CASE y # s
        <4>1. PICK d \in Blocks \ freed : (IF x = s THEN b ELSE x) < d /\ d < y
          BY <1>1, <2>1, <2>2, <3>3 DEF NoFreeNeighbours
        <4>2. d \in Blocks' \ freed'
          BY <2>1, <2>2, <4>1
        <4>3. x < d
          BY <1>1, <2>1, <4>1, Addresses DEF NoOverlap, BlocksApart
        <4>4. QED
          BY <4>1, <4>2, <4>3
      <3>4. QED
        BY <3>2, <3>3
    <2>8. PinRule'
      <3> SUFFICES ASSUME NEW r \in regions, s < r.lo
                   PROVE  \E p \in pinned : s <= p /\ p < r.lo
        BY <1>2, <2>1 DEF PinRule
      <3>1. PICK p \in pinned : b <= p /\ p < r.lo
        BY <1>1, <2>1 DEF PinRule
      <3>2. p \in Blocks /\ p # b
        BY <1>1
      <3>3. s <= p
        BY <2>1, <3>1, <3>2, Addresses DEF NoOverlap, BlocksApart
      <3>4. QED
        BY <3>1, <3>3
    <2>9. QED
      BY <2>3, <2>4, <2>5, <2>6, <2>7, <2>8 DEF NoOverlap
  <1>6. QED
    BY <1>4, <1>5

-----------------------------------------------------------------------------
(* Aligned regions.                                                         *)

LEMMA AlignUpFacts ==
    ASSUME NEW p \in Nat, NEW a \in Aligns
    PROVE  AlignUp(p, a) \in Nat /\ AlignUp(p, a) >= p
  <1>1. a \in Nat \ {0}
    BY PageAssumption DEF Aligns
  <1>2. p % a \in 0 .. a - 1
    BY <1>1
  <1>3. (a - (p % a)) % a \in 0 .. a - 1
    BY <1>1, <1>2
  <1>4. QED
    BY <1>1, <1>3 DEF AlignUp

LEMMA AlignedKeepsInv ==
    ASSUME HeapInv, NEW m \in Requests, NEW a \in Aligns, AllocAligned(m, a)
    PROVE  HeapInv'
  <1> USE DEF HeapInv, TypeOK
  <1> DEFINE p == AlignUp(top, a)
             n == AlignUp(m, a)
             r == [lo |-> p, hi |-> p + n]
  <1>1. /\ p \in Nat /\ n \in Nat /\ top <= p /\ 0 < n
        /\ GuardCharge \in Nat
    BY AlignUpFacts, RequestAssumption, PageAssumption DEF GuardCharge
  <1>2. /\ used + ((p - top) + n + GuardCharge) <= Total
        /\ used' = used + ((p - top) + n + GuardCharge)
        /\ regions' = regions \cup {r}
        /\ top' = p + n
        /\ Last \cap freed = {}
        /\ pinned' = pinned \cup Last
        /\ UNCHANGED <<size, freed, guard>>
        /\ Blocks' = Blocks
    BY DEF AllocAligned, Blocks
  <1> HIDE DEF p, n
  <1>3. Last \subseteq Blocks
    BY DEF Last
  <1>4. TypeOK'
    BY <1>1, <1>2, <1>3
  <1>5. NoOverlap'
    <2>1. BlocksApart'
      BY <1>2 DEF NoOverlap, BlocksApart, End
    <2>2. RegionsApart'
      BY <1>1, <1>2, Addresses DEF NoOverlap, RegionsApart, WithinHeap, End
    <2>3. QED
      BY <2>1, <2>2 DEF NoOverlap
  <1>6. WithinHeap'
    BY <1>1, <1>2, Addresses, TotalAssumption DEF WithinHeap, End
  <1>7. NoFreeNeighbours'
    BY <1>2 DEF NoFreeNeighbours
  <1>8. PinRule'
    <2> SUFFICES ASSUME NEW b \in Blocks
                 PROVE  \E q \in pinned' : b <= q /\ q < p
      BY <1>2 DEF PinRule
    <2>1. PICK q \in Blocks : \A c \in Blocks : c <= q
      BY Addresses, Greatest
    <2>2. q \in pinned' /\ b <= q
      BY <1>2, <2>1 DEF Last
    <2>3. q < p
      BY <1>1, Addresses DEF WithinHeap
    <2>4. QED
      BY <2>2, <2>3
  <1>9. QED
    BY <1>4, <1>5, <1>6, <1>7, <1>8

-----------------------------------------------------------------------------
(* Freeing: the blocks from h to l, none of them pinned, become one.        *)

LEMMA Coalesce ==
    ASSUME HeapInv, NEW h \in Blocks, NEW l \in Blocks, h <= l,
           NEW gone \in SUBSET Blocks,
           gone = {d \in Blocks : h < d /\ d <= l},
           h \notin pinned, gone \cap pinned = {},
           NEW n \in Nat \ {0}, h + 1 + n <= End(l),
           size' = [c \in Blocks \ gone |-> IF c = h THEN n ELSE size[c]],
           UNCHANGED <<regions, top, used, guard, pinned>>
    PROVE  /\ Blocks' = Blocks \ gone
           /\ size' \in [Blocks' -> Nat \ {0}]
           /\ NoOverlap' /\ WithinHeap' /\ PinRule'
  <1> USE DEF HeapInv, TypeOK
  <1>1. Blocks' = Blocks \ gone
    BY DEF Blocks
  <1>2. size' \in [Blocks' -> Nat \ {0}]
    BY <1>1
  <1>3. /\ \A c \in {h} : End(c)' <= End(l) /\ End(c)' \in Nat
        /\ \A c \in Blocks' \ {h} : End(c)' = End(c)
    BY <1>1, Addresses DEF End
  <1>4. h \in Blocks' /\ \A c \in Blocks' : h < c => l < c
    BY <1>1
  <1>5. BlocksApart'
    BY <1>1, <1>3, <1>4, Addresses DEF NoOverlap, BlocksApart
  <1>6. ASSUME NEW r \in regions
        PROVE  End(l) <= r.lo \/ r.hi <= h
    <2>1. r.lo \in Nat /\ r.hi \in Nat /\ r.lo < r.hi
      BY DEF WithinHeap
    <2>2. ~(h < r.lo /\ r.hi <= l)
      <3> SUFFICES ASSUME h < r.lo, r.hi <= l PROVE FALSE
        OBVIOUS
      <3>1. PICK p \in pinned : h <= p /\ p < r.lo
        BY DEF PinRule
      <3>2. p \in Blocks /\ p # h /\ p <= l
        BY <2>1, <3>1, Addresses
      <3>3. QED
        BY <3>1, <3>2, Addresses
    <2>3. /\ End(l) <= r.lo \/ r.hi <= l
          /\ End(h) <= r.lo \/ r.hi <= h
      BY DEF NoOverlap, RegionsApart
    <2>4. QED
      BY <2>1, <2>2, <2>3, Addresses
  <1>7. RegionsApart'
    <2>1. \A r \in regions, b \in Blocks' \ {h} : End(b)' <= r.lo \/ r.hi <= b
      BY <1>1, <1>3 DEF NoOverlap, RegionsApart
    <2>2. \A r \in regions, b \in {h} : End(b)' <= r.lo \/ r.hi <= b
      BY <1>3, <1>6, Addresses
    <2>3. QED
      BY <2>1, <2>2 DEF NoOverlap, RegionsApart
  <1>8. WithinHeap'
    BY <1>1, <1>3, Addresses DEF WithinHeap
  <1>9. PinRule'
    BY <1>1 DEF PinRule
  <1>10. QED
    BY <1>1, <1>2, <1>5, <1>7, <1>8, <1>9 DEF NoOverlap

LEMMA Neighbours ==
    ASSUME HeapInv, NEW b \in Blocks \ freed
    PROVE  /\ \A c \in After(b) :
                 /\ After(b) = {c}
                 /\ c \in freed /\ b < c /\ End(b) <= c
                 /\ {d \in Blocks : b < d /\ d <= c} = {c}
           /\ \A p \in Before(b) :
                 /\ Before(b) = {p}
                 /\ p \in freed /\ p < b /\ End(p) <= b
                 /\ {d \in Blocks : p < d /\ d <= b} = {b}
  <1> USE DEF HeapInv, TypeOK
  <1>1. ASSUME NEW c \in After(b)
        PROVE  /\ After(b) = {c}
               /\ c \in freed /\ b < c /\ End(b) <= c
               /\ {d \in Blocks : b < d /\ d <= c} = {c}
    <2>1. c \in freed /\ b < c /\ End(b) <= c
      BY <1>1, Addresses DEF After, NoOverlap, BlocksApart
    <2>2. \A d \in Blocks : d <= b \/ c <= d
      BY <1>1 DEF After
    <2>3. \A e \in After(b) : e \in Blocks /\ b < e /\ e <= c
      BY <1>1, <2>1 DEF After
    <2>4. After(b) = {c}
      <3>1. \A e \in After(b) : e = c
        BY <2>1, <2>2, <2>3
      <3>2. QED
        BY <1>1, <3>1
    <2>5. {d \in Blocks : b < d /\ d <= c} = {c}
      <3>1. \A d \in Blocks : b < d /\ d <= c <=> d = c
        BY <2>1, <2>2
      <3>2. QED
        BY <2>1, <3>1
    <2>6. QED
      BY <2>1, <2>4, <2>5
  <1>2. ASSUME NEW p \in Before(b)
        PROVE  /\ Before(b) = {p}
               /\ p \in freed /\ p < b /\ End(p) <= b
               /\ {d \in Blocks : p < d /\ d <= b} = {b}
    <2>1. p \in freed /\ p < b /\ End(p) <= b
      BY <1>2, Addresses DEF Before, NoOverlap, BlocksApart
    <2>2. \A d \in Blocks : d <= p \/ b <= d
      BY <1>2 DEF Before
    <2>3. \A e \in Before(b) : e \in Blocks /\ e < b /\ p <= e
      BY <1>2, <2>1 DEF Before
    <2>4. Before(b) = {p}
      <3>1. \A e \in Before(b) : e = p
        BY <2>1, <2>2, <2>3
      <3>2. QED
        BY <1>2, <3>1
    <2>5. {d \in Blocks : p < d /\ d <= b} = {b}
      <3>1. \A d \in Blocks : p < d /\ d <= b <=> d = b
        BY <2>1, <2>2
      <3>2. QED
        BY <3>1
    <2>6. QED
      BY <2>1, <2>4, <2>5
  <1>3. QED
    BY <1>1, <1>2

\* Why looking one block ahead and one behind is enough.
LEMMA UsedAround ==
    ASSUME HeapInv, NEW b \in Blocks \ freed
    PROVE  /\ \A y \in freed \ After(b) :
                 b < y => \E d \in Blocks \ freed : b < d /\ d < y
           /\ \A x \in freed \ Before(b) :
                 x < b => \E d \in Blocks \ freed : x < d /\ d < b
  <1> USE DEF HeapInv, TypeOK
  <1>1. ASSUME NEW y \in freed \ After(b), b < y
        PROVE  \E d \in Blocks \ freed : b < d /\ d < y
    <2> DEFINE T == {d \in Blocks : b < d}
    <2>1. PICK d \in T : \A e \in T : d <= e
      <3>1. T \in SUBSET Nat /\ y \in T
        BY <1>1
      <3> HIDE DEF T
      <3>2. QED
        BY <3>1, Least
    <2>2. d <= y
      BY <1>1, <2>1
    <2>3. \A e \in Blocks : e <= b \/ d <= e
      BY <2>1
    <2>4. d \notin freed \/ d \in After(b)
      BY <2>1, <2>3 DEF After
    <2>5. CASE d \notin freed
      BY <1>1, <2>1, <2>2, <2>5
    <2>6. CASE d \in After(b)
      <3>1. d \in freed /\ d < y
        BY <1>1, <2>2, <2>6 DEF After
      <3>2. PICK e \in Blocks \ freed : d < e /\ e < y
        BY <1>1, <3>1 DEF NoFreeNeighbours
      <3>3. QED
        BY <2>1, <3>2
    <2>7. QED
      BY <2>4, <2>5, <2>6
  <1>2. ASSUME NEW x \in freed \ Before(b), x < b
        PROVE  \E d \in Blocks \ freed : x < d /\ d < b
    <2> DEFINE T == {d \in Blocks : d < b}
    <2>1. PICK d \in T : \A e \in T : e <= d
      <3>1. T \in SUBSET (0 .. top) /\ x \in T
        BY <1>2, Addresses
      <3> HIDE DEF T
      <3>2. QED
        BY <3>1, Greatest
    <2>2. x <= d
      BY <1>2, <2>1
    <2>3. \A e \in Blocks : e <= d \/ b <= e
      BY <2>1
    <2>4. d \notin freed \/ d \in Before(b)
      BY <2>1, <2>3 DEF Before
    <2>5. CASE d \notin freed
      BY <1>2, <2>1, <2>2, <2>5
    <2>6. CASE d \in Before(b)
      <3>1. d \in freed /\ x < d
        BY <1>2, <2>2, <2>6 DEF Before
      <3>2. PICK e \in Blocks \ freed : x < e /\ e < d
        BY <1>2, <3>1 DEF NoFreeNeighbours
      <3>3. QED
        BY <2>1, <3>2
    <2>7. QED
      BY <2>4, <2>5, <2>6
  <1>3. QED
    BY <1>1, <1>2

\* One free, as one merge of the blocks from h to l.
LEMMA FreeIsCoalesce ==
    ASSUME HeapInv, NEW b \in Blocks, Free(b)
    PROVE  \E h, l \in Blocks : \E gone \in SUBSET Blocks : \E n \in Nat \ {0} :
              /\ h <= b /\ b <= l /\ h + 1 + n <= End(l)
              /\ gone = {d \in Blocks : h < d /\ d <= l}
              /\ h \notin pinned /\ gone \cap pinned = {}
              /\ size' = [c \in Blocks \ gone |-> IF c = h THEN n ELSE size[c]]
              /\ freed' = (freed \ gone) \cup {h}
              /\ gone \cup {h} = After(b) \cup Before(b) \cup {b}
  <1> USE DEF HeapInv, TypeOK
  <1> DEFINE n == Absorbed(size[b], After(b))
  <1>0. b \in Blocks \ freed /\ b \notin pinned
    BY DEF Free
  <1>1. PICK l \in Blocks :
            /\ b <= l /\ n \in Nat \ {0} /\ b + 1 + n <= End(l)
            /\ After(b) = {d \in Blocks : b < d /\ d <= l}
            /\ After(b) \cap pinned = {}
            /\ After(b) \subseteq freed
    <2>1. CASE After(b) = {}
      <3>1. n = size[b] /\ b + 1 + n <= End(b)
        BY <2>1 DEF Absorbed, End
      <3>2. \A d \in Blocks : ~(b < d /\ d <= b)
        OBVIOUS
      <3>3. After(b) = {d \in Blocks : b < d /\ d <= b}
        BY <2>1, <3>2
      <3>4. b <= b /\ size[b] \in Nat \ {0}
        OBVIOUS
      <3> HIDE DEF n
      <3>5. QED
        BY <2>1, <3>1, <3>3, <3>4
    <2>2. CASE After(b) # {}
      <3>1. PICK c \in After(b) : TRUE
        BY <2>2
      <3>2. /\ After(b) = {c}
            /\ c \in freed /\ b < c /\ End(b) <= c
            /\ {d \in Blocks : b < d /\ d <= c} = {c}
        BY <1>0, <3>1, Neighbours
      <3>3. n = size[b] + (1 + size[c])
        BY <3>2 DEF Absorbed
      <3>4. n \in Nat \ {0} /\ b + 1 + n <= End(c)
        BY <3>2, <3>3 DEF End
      <3>5. QED
        BY <3>2, <3>4
    <2>3. QED
      BY <2>1, <2>2
  <1>2. CASE Before(b) = {}
    <2>1. /\ size' = [c \in Blocks \ After(b) |-> IF c = b THEN n ELSE size[c]]
          /\ freed' = (freed \ After(b)) \cup {b}
      BY <1>2 DEF Free
    <2> HIDE DEF n
    <2>2. After(b) \in SUBSET Blocks /\ b <= b
      BY <1>1
    <2>3. After(b) \cup {b} = After(b) \cup Before(b) \cup {b}
      BY <1>2
    <2>4. QED
      BY <1>0, <1>1, <2>1, <2>2, <2>3
  <1>3. CASE Before(b) # {}
    <2>1. PICK p \in Before(b) : TRUE
      BY <1>3
    <2>2. /\ Before(b) = {p}
          /\ p \in freed /\ p < b /\ End(p) <= b
          /\ {d \in Blocks : p < d /\ d <= b} = {b}
      BY <1>0, <2>1, Neighbours
    <2> DEFINE gone == After(b) \cup {b}
               m    == size[p] + n + 1
    <2>3. /\ size' = [c \in Blocks \ gone |-> IF c = p THEN size[c] + n + 1 ELSE size[c]]
          /\ freed' = freed \ After(b)
      BY <2>2 DEF Free
    <2> HIDE DEF n
    <2>4. size' = [c \in Blocks \ gone |-> IF c = p THEN m ELSE size[c]]
      BY <2>3
    <2>5. m \in Nat \ {0} /\ p + 1 + m <= End(l)
      BY <1>1, <2>2, Addresses DEF End
    <2>6. gone = {d \in Blocks : p < d /\ d <= l}
      <3>1. ASSUME NEW d \in Blocks PROVE d \in gone <=> p < d /\ d <= l
        BY <1>1, <2>2
      <3>2. QED
        BY <1>1, <3>1
    <2>7. p \notin pinned /\ gone \cap pinned = {}
      BY <1>0, <1>1, <2>2
    <2>8. freed' = (freed \ gone) \cup {p}
      BY <1>0, <1>1, <2>2, <2>3, <2>6
    <2>9. gone \in SUBSET Blocks /\ p \in Blocks
      BY <1>1, <2>2
    <2>10. gone \cup {p} = After(b) \cup Before(b) \cup {b}
      BY <2>2
    <2> HIDE DEF gone, m
    <2>11. QED
      BY <1>1, <2>2, <2>4, <2>5, <2>6, <2>7, <2>8, <2>9, <2>10
  <1>4. QED
    BY <1>2, <1>3

LEMMA FreeKeepsInv ==
    ASSUME HeapInv, NEW b \in Blocks, Free(b)
    PROVE  HeapInv'
  <1> USE DEF HeapInv, TypeOK
  <1>0. b \in Blocks \ freed /\ UNCHANGED <<regions, top, used, guard, pinned>>
    BY DEF Free
  <1>1. PICK h \in Blocks, l \in Blocks, gone \in SUBSET Blocks, n \in Nat \ {0} :
              /\ h <= b /\ b <= l /\ h + 1 + n <= End(l)
              /\ gone = {d \in Blocks : h < d /\ d <= l}
              /\ h \notin pinned /\ gone \cap pinned = {}
              /\ size' = [c \in Blocks \ gone |-> IF c = h THEN n ELSE size[c]]
              /\ freed' = (freed \ gone) \cup {h}
              /\ gone \cup {h} = After(b) \cup Before(b) \cup {b}
    BY FreeIsCoalesce
  <1>2. /\ Blocks' = Blocks \ gone
        /\ size' \in [Blocks' -> Nat \ {0}]
        /\ NoOverlap' /\ WithinHeap' /\ PinRule'
    <2>1. h <= l
      BY <1>1
    <2>2. QED
      BY <1>0, <1>1, <2>1, Coalesce
  <1>3. h \notin gone
    BY <1>1
  <1>4. TypeOK'
    BY <1>0, <1>1, <1>2, <1>3
  <1>5. NoFreeNeighbours'
    <2> SUFFICES ASSUME NEW x \in freed', NEW y \in freed', x < y
                 PROVE  \E d \in Blocks \ freed : d # b /\ x < d /\ d < y
      <3>1. \A d \in Blocks \ freed : d # b => d \in Blocks' \ freed'
        BY <1>1, <1>2 DEF After, Before
      <3>2. QED
        BY <3>1 DEF NoFreeNeighbours
    <2>1. /\ x \in freed \cup {b} /\ y \in freed \cup {b}
          /\ x = h \/ (x \notin After(b) /\ x \notin Before(b) /\ x # b)
          /\ y = h \/ (y \notin After(b) /\ y \notin Before(b) /\ y # b)
          /\ h = b \/ h \in Before(b)
      BY <1>1 DEF After, Before
    <2>2. /\ \A p \in Before(b) : p \in freed /\ p < b
          /\ \A p \in Before(b) : \A d \in Blocks : d <= p \/ b <= d
      BY DEF Before
    <2>3. CASE x < b /\ y <= b
      <3>1. CASE y = b
        <4>1. x \in freed \ Before(b)
          BY <2>1, <2>3, <3>1
        <4>2. QED
          BY <1>0, <2>3, <3>1, <4>1, UsedAround
      <3>2. CASE y # b
        BY <1>0, <2>1, <2>3, <3>2 DEF NoFreeNeighbours
      <3>3. QED
        BY <3>1, <3>2
    <2>4. CASE b <= x
      <3>1. y \in freed \ After(b)
        BY <1>1, <2>1, <2>2, <2>4
      <3>2. CASE x = b
        BY <1>0, <3>1, <3>2, UsedAround
      <3>3. CASE x # b
        BY <1>0, <2>1, <2>4, <3>1, <3>3 DEF NoFreeNeighbours
      <3>4. QED
        BY <3>2, <3>3
    <2>5. CASE x < b /\ b < y
      <3>1. y \in freed \ After(b)
        BY <1>1, <2>1, <2>2, <2>5
      <3>2. PICK d \in Blocks \ freed : b < d /\ d < y
        BY <1>0, <2>5, <3>1, UsedAround
      <3>3. QED
        BY <1>0, <2>1, <2>5, <3>2
    <2>6. x \in Nat /\ y \in Nat /\ b \in Nat
      BY <1>0, <2>1
    <2>7. QED
      BY <2>3, <2>4, <2>5, <2>6
  <1>6. QED
    BY <1>2, <1>4, <1>5

LEMMA ShrinkKeepsInv ==
    ASSUME HeapInv, NEW b \in Blocks, NEW n \in Requests, ReallocShrink(b, n)
    PROVE  HeapInv'
  <1> USE DEF HeapInv, TypeOK
  <1>1. n \in Nat \ {0} /\ n < size[b]
    BY RequestAssumption DEF ReallocShrink
  <1>2. /\ Blocks' = Blocks
        /\ size' \in [Blocks' -> Nat \ {0}]
        /\ size'[b] = n
        /\ \A c \in Blocks : size'[c] <= size[c]
        /\ UNCHANGED <<freed, regions, top, used, guard, pinned>>
    BY <1>1 DEF ReallocShrink, Blocks
  <1>3. \A c \in Blocks : End(c)' <= End(c) /\ End(c)' \in Nat
    BY <1>2 DEF End
  <1>4. NoOverlap'
    BY <1>2, <1>3, Addresses DEF NoOverlap, BlocksApart, RegionsApart
  <1>5. WithinHeap'
    BY <1>2, <1>3, Addresses DEF WithinHeap
  <1>6. NoFreeNeighbours' /\ PinRule'
    BY <1>2 DEF NoFreeNeighbours, PinRule
  <1>7. QED
    BY <1>2, <1>4, <1>5, <1>6

LEMMA IdleKeepsInv ==
    ASSUME HeapInv, UNCHANGED <<size, freed, regions, top, used, pinned>>,
           guard' \in BOOLEAN
    PROVE  HeapInv'
  BY DEF HeapInv, TypeOK, NoOverlap, BlocksApart, RegionsApart, WithinHeap,
         NoFreeNeighbours, PinRule, Blocks, End

LEMMA StepKeepsInv == HeapInv /\ [Next]_vars => HeapInv'
  <1> SUFFICES ASSUME HeapInv, [Next]_vars PROVE HeapInv'
    OBVIOUS
  <1>1. CASE EnableGuardPages
    BY <1>1, IdleKeepsInv DEF EnableGuardPages
  <1>2. ASSUME NEW n \in Requests, Alloc(n) PROVE HeapInv'
    <2>1. CASE AllocReuse(n)
      BY <2>1, ReuseKeepsInv
    <2>2. CASE AllocTop(n)
      BY <2>2, TopKeepsInv
    <2>3. CASE AllocFail(n)
      BY <2>3, IdleKeepsInv DEF AllocFail, vars, HeapInv, TypeOK
    <2>4. QED
      BY <1>2, <2>1, <2>2, <2>3 DEF Alloc
  <1>3. CASE \E n \in Requests, a \in Aligns : AllocAligned(n, a)
    BY <1>3, AlignedKeepsInv
  <1>4. CASE \E b \in Blocks : Free(b)
    BY <1>4, FreeKeepsInv
  <1>5. CASE \E b \in Blocks, n \in Requests : ReallocShrink(b, n)
    BY <1>5, ShrinkKeepsInv
  <1>6. CASE UNCHANGED vars
    BY <1>6, IdleKeepsInv DEF vars, HeapInv, TypeOK
  <1>7. QED
    BY <1>1, <1>2, <1>3, <1>4, <1>5, <1>6 DEF Next

LEMMA InvHolds == Spec => []HeapInv
  BY InitInv, StepKeepsInv, PTL DEF Spec

\* Sizes stay positive, flags and pins stay on headers that are in the list.
THEOREM HeapTypes == Spec => []TypeOK
  <1>1. HeapInv => TypeOK
    BY DEF HeapInv
  <1>2. QED
    BY <1>1, InvHolds, PTL

\* Whatever is allocated, freed, split, merged and shrunk, and in what order, no
\* block of the kernel's heap overlaps another, nor a page table.
THEOREM HeapApart == Spec => []NoOverlap
  <1>1. HeapInv => NoOverlap
    BY DEF HeapInv
  <1>2. QED
    BY <1>1, InvHolds, PTL

\* heap_ptr never leaves the heap, though the limit is checked on heap_used.
THEOREM HeapBounded == Spec => []WithinHeap
  <1>1. HeapInv => WithinHeap
    BY DEF HeapInv
  <1>2. QED
    BY <1>1, InvHolds, PTL

\* Coalescing leaves no two free blocks side by side.
THEOREM HeapCoalesced == Spec => []NoFreeNeighbours
  <1>1. HeapInv => NoFreeNeighbours
    BY DEF HeapInv
  <1>2. QED
    BY <1>1, InvHolds, PTL

-----------------------------------------------------------------------------
(* The heap implements Memory.                                              *)

Payload(b) == [lo |-> b + 1, hi |-> End(b)]

\* A block's payload is a proper extent of the arena, clear of every other one
\* handed out.
LEMMA PayloadFacts ==
    ASSUME HeapInv, NEW b \in Blocks
    PROVE  /\ Payload(b) \in Mem!Extents
           /\ Payload(b).lo < Payload(b).hi
           /\ \A c \in Blocks \ {b} : Mem!Clear(Payload(b), Payload(c))
           /\ \A r \in regions : Mem!Clear(Payload(b), r)
           /\ Payload(b) \notin regions
           /\ \A c \in Blocks : Payload(b) = Payload(c) => b = c
  <1> USE DEF HeapInv, TypeOK
  <1>1. /\ b \in Nat /\ End(b) \in Nat /\ b + 1 < End(b)
        /\ End(b) <= Total
    BY Addresses, TotalAssumption DEF WithinHeap
  <1>2. Payload(b) \in Mem!Extents /\ Payload(b).lo < Payload(b).hi
    BY <1>1, TotalAssumption DEF Payload, Mem!Extents
  <1>3. \A c \in Blocks \ {b} : Mem!Clear(Payload(b), Payload(c))
    BY <1>1, Addresses DEF Payload, Mem!Clear, NoOverlap, BlocksApart
  <1>4. \A r \in regions : Mem!Clear(Payload(b), r)
    BY <1>1, Addresses DEF Payload, Mem!Clear, NoOverlap, RegionsApart
  <1>5. Payload(b) \notin regions
    BY <1>1, Addresses DEF Payload, NoOverlap, RegionsApart
  <1>6. \A c \in Blocks : Payload(b) = Payload(c) => b = c
    BY <1>1, Addresses DEF Payload
  <1>7. QED
    BY <1>2, <1>3, <1>4, <1>5, <1>6

LEMMA OwnedIs == Owned = {Payload(b) : b \in Blocks \ freed} \cup regions
  BY DEF Owned, Payload

\* A step that hands out one more payload, and touches no other, is an Acquire.
LEMMA AcquireBlock ==
    ASSUME HeapInv, HeapInv', UNCHANGED regions,
           NEW b \in Blocks', b \notin freed', b \notin Blocks \ freed,
           (Blocks \ freed)' = (Blocks \ freed) \cup {b},
           \A c \in Blocks \ freed : End(c)' = End(c)
    PROVE  Mem!Acquire
  <1> DEFINE e == [lo |-> b + 1, hi |-> b + 1 + size'[b]]
  <1>1. /\ e \in Mem!Extents /\ e.lo < e.hi
        /\ \A c \in Blocks \ freed : Mem!Clear(e, Payload(c))
        /\ \A r \in regions : Mem!Clear(e, r)
    <2>1. HeapInv' => /\ e \in Mem!Extents /\ e.lo < e.hi
                      /\ \A r \in regions' : Mem!Clear(e, r)
      <3>1. /\ Blocks' \subseteq 0 .. top' /\ top' <= used' /\ used' <= Total
            /\ used' \in Nat /\ top' \in Nat
            /\ size' \in [Blocks' -> Nat \ {0}]
            /\ b + 1 + size'[b] <= top'
            /\ regions' \subseteq [lo : Nat, hi : Nat]
            /\ \A r \in regions' : b + 1 + size'[b] <= r.lo \/ r.hi <= b
        <4>1. /\ size' \in [Blocks' -> Nat \ {0}] /\ Blocks' \subseteq Nat
              /\ top' \in Nat /\ used' \in Nat
              /\ regions' \subseteq [lo : Nat, hi : Nat]
          BY DEF HeapInv, TypeOK
        <4>2. /\ \A c \in Blocks' : c + 1 + size'[c] <= top'
              /\ top' <= used' /\ used' <= Total
          BY DEF HeapInv, WithinHeap, End
        <4>3. \A r \in regions', c \in Blocks' : c + 1 + size'[c] <= r.lo \/ r.hi <= c
          BY DEF HeapInv, NoOverlap, RegionsApart, End
        <4>4. QED
          BY <4>1, <4>2, <4>3
      <3>2. b \in Nat /\ size'[b] \in Nat \ {0}
        BY <3>1
      <3>3. QED
        BY <3>1, <3>2, TotalAssumption DEF Mem!Extents, Mem!Clear
    <2>2. \A c \in Blocks \ freed : Mem!Clear(e, Payload(c))
      <3> SUFFICES ASSUME NEW c \in Blocks \ freed
                   PROVE  Mem!Clear(e, Payload(c))
        OBVIOUS
      <3>1. c \in Blocks' /\ c # b /\ c + 1 + size'[c] = End(c)
        BY DEF End
      <3>2. /\ c < b => c + 1 + size'[c] <= b
            /\ b < c => b + 1 + size'[b] <= c
            /\ b \in Nat /\ c \in Nat
            /\ size'[b] \in Nat /\ size'[c] \in Nat
        BY <3>1 DEF HeapInv, TypeOK, NoOverlap, BlocksApart, End
      <3>3. QED
        BY <3>1, <3>2 DEF Payload, Mem!Clear
    <2>3. QED
      BY <2>1, <2>2
  <1>2. Owned' = Owned \cup {e}
    <2>1. Owned' = {[lo |-> c + 1, hi |-> c + 1 + size'[c]] : c \in (Blocks \ freed)'} \cup regions
      BY DEF Owned, End
    <2>2. \A c \in Blocks \ freed : [lo |-> c + 1, hi |-> c + 1 + size'[c]] = Payload(c)
      BY DEF Payload, End
    <2> HIDE DEF e
    <2>3. {[lo |-> c + 1, hi |-> c + 1 + size'[c]] : c \in (Blocks \ freed)'}
             = {Payload(c) : c \in Blocks \ freed} \cup {e}
      BY <2>2 DEF e
    <2>4. QED
      BY <2>1, <2>3, OwnedIs
  <1> HIDE DEF e
  <1>3. \A f \in Owned : Mem!Clear(e, f)
    BY <1>1, OwnedIs
  <1>4. QED
    BY <1>1, <1>2, <1>3 DEF Mem!Acquire

LEMMA AllocImplements ==
    ASSUME HeapInv, HeapInv', NEW n \in Requests, AllocReuse(n) \/ AllocTop(n)
    PROVE  Mem!Acquire
  <1>0. n \in Nat \ {0}
    BY RequestAssumption
  <1>1. CASE AllocTop(n)
    <2>1. top \notin Blocks /\ top \notin freed
      BY Addresses DEF HeapInv, TypeOK, WithinHeap
    <2>2. /\ Blocks' = Blocks \cup {top} /\ freed' = freed
          /\ UNCHANGED regions
          /\ \A b \in Blocks : size'[b] = size[b]
      BY <1>1, <2>1 DEF AllocTop, Blocks
    <2>3. (Blocks \ freed)' = (Blocks \ freed) \cup {top}
      BY <2>1, <2>2
    <2>4. \A c \in Blocks \ freed : End(c)' = End(c)
      BY <2>2 DEF End
    <2>5. QED
      BY <2>1, <2>2, <2>3, <2>4, AcquireBlock
  <1>2. CASE AllocReuse(n)
    <2>1. PICK b \in Blocks :
              /\ b \in freed
              /\ IF size[b] >= n + 3
                   THEN /\ size' = Split(b, n)
                        /\ freed' = (freed \ {b}) \cup {Remainder(b, n)}
                   ELSE /\ freed' = freed \ {b}
                        /\ UNCHANGED size
      BY <1>2 DEF AllocReuse, FirstFit, Fits
    <2>2. UNCHANGED regions
      BY <1>2 DEF AllocReuse
    <2>3. CASE size[b] >= n + 3
      <3> DEFINE s == Remainder(b, n)
      <3>1. /\ s \notin Blocks /\ b < s
            /\ Blocks' = Blocks \cup {s}
            /\ \A c \in Blocks \ {b} : End(c)' = End(c)
        BY <1>0, <2>1, <2>3, SplitFacts
      <3>2. freed' = (freed \ {b}) \cup {s}
        BY <2>1, <2>3
      <3> HIDE DEF s
      <3>3. (Blocks \ freed)' = (Blocks \ freed) \cup {b}
        BY <2>1, <3>1, <3>2
      <3>4. QED
        BY <2>1, <2>2, <3>1, <3>2, <3>3, AcquireBlock
    <2>4. CASE ~(size[b] >= n + 3)
      <3>1. Blocks' = Blocks /\ UNCHANGED size /\ freed' = freed \ {b}
        BY <2>1, <2>4 DEF Blocks
      <3>2. \A c \in Blocks \ freed : End(c)' = End(c)
        BY <3>1 DEF End
      <3>3. (Blocks \ freed)' = (Blocks \ freed) \cup {b}
        BY <2>1, <3>1
      <3>4. QED
        BY <2>1, <2>2, <3>1, <3>2, <3>3, AcquireBlock
    <2>5. QED
      BY <2>3, <2>4
  <1>3. QED
    BY <1>1, <1>2

LEMMA AlignedImplements ==
    ASSUME HeapInv, NEW m \in Requests, NEW a \in Aligns, AllocAligned(m, a)
    PROVE  Mem!Acquire
  <1> DEFINE p == AlignUp(top, a)
             n == AlignUp(m, a)
             r == [lo |-> p, hi |-> p + n]
  <1>1. /\ p \in Nat /\ n \in Nat /\ top <= p /\ 0 < n
        /\ GuardCharge \in Nat
    BY AlignUpFacts, RequestAssumption, PageAssumption
    DEF GuardCharge, HeapInv, TypeOK
  <1>2. /\ used + ((p - top) + n + GuardCharge) <= Total
        /\ regions' = regions \cup {r}
        /\ UNCHANGED <<size, freed>>
        /\ Blocks' = Blocks
    BY DEF AllocAligned, Blocks
  <1> HIDE DEF p, n
  <1>3. top \in Nat /\ used \in Nat /\ top <= used
    BY DEF HeapInv, TypeOK, WithinHeap
  <1>4. r \in Mem!Extents /\ r.lo < r.hi
    BY <1>1, <1>2, <1>3, TotalAssumption DEF Mem!Extents
  <1>5. \A b \in Blocks \ freed : Mem!Clear(r, Payload(b))
    BY <1>1, <1>3, Addresses DEF Mem!Clear, Payload, HeapInv, WithinHeap
  <1>6. \A s \in regions : Mem!Clear(r, s)
    BY <1>1, <1>3 DEF Mem!Clear, HeapInv, TypeOK, WithinHeap
  <1>7. Owned' = Owned \cup {r}
    BY <1>2 DEF Owned, End
  <1> HIDE DEF r
  <1>8. \A f \in Owned : Mem!Clear(r, f)
    BY <1>5, <1>6, OwnedIs
  <1>9. QED
    BY <1>4, <1>7, <1>8 DEF Mem!Acquire

LEMMA FreeImplements ==
    ASSUME HeapInv, NEW b \in Blocks, Free(b)
    PROVE  Mem!Release
  <1>0. b \in Blocks \ freed /\ UNCHANGED regions
    BY DEF Free
  <1>1. PICK h \in Blocks, l \in Blocks, gone \in SUBSET Blocks, n \in Nat \ {0} :
              /\ h <= b /\ b <= l /\ h + 1 + n <= End(l)
              /\ gone = {d \in Blocks : h < d /\ d <= l}
              /\ h \notin pinned /\ gone \cap pinned = {}
              /\ size' = [c \in Blocks \ gone |-> IF c = h THEN n ELSE size[c]]
              /\ freed' = (freed \ gone) \cup {h}
              /\ gone \cup {h} = After(b) \cup Before(b) \cup {b}
    BY FreeIsCoalesce
  <1>2. After(b) \subseteq freed /\ Before(b) \subseteq freed
    BY DEF After, Before
  <1>3. Blocks' = Blocks \ gone
    BY <1>1 DEF Blocks
  <1>4. (Blocks \ freed)' = (Blocks \ freed) \ {b}
    BY <1>0, <1>1, <1>2, <1>3
  <1>5. \A c \in (Blocks \ freed) \ {b} : size'[c] = size[c]
    BY <1>0, <1>1, <1>2
  <1>6. Owned' = Owned \ {Payload(b)}
    <2>1. Owned' = {Payload(c) : c \in (Blocks \ freed) \ {b}} \cup regions
      BY <1>0, <1>4, <1>5 DEF Owned, Payload, End
    <2>2. Payload(b) \notin regions
      BY PayloadFacts
    <2>3. \A c \in Blocks \ {b} : Payload(c) # Payload(b)
      BY PayloadFacts
    <2>4. QED
      BY <1>0, <2>1, <2>2, <2>3, OwnedIs
  <1>7. Payload(b) \in Owned
    BY <1>0, OwnedIs
  <1>8. QED
    BY <1>6, <1>7 DEF Mem!Release

LEMMA ShrinkImplements ==
    ASSUME HeapInv, NEW b \in Blocks, NEW n \in Requests, ReallocShrink(b, n)
    PROVE  Mem!Shrink
  <1> USE DEF HeapInv, TypeOK
  <1>1. n \in Nat \ {0} /\ n < size[b] /\ b \in Blocks \ freed
    BY RequestAssumption DEF ReallocShrink
  <1>2. /\ (Blocks \ freed)' = Blocks \ freed
        /\ size'[b] = n
        /\ \A c \in Blocks \ {b} : size'[c] = size[c]
        /\ UNCHANGED <<freed, regions>>
    BY <1>1 DEF ReallocShrink, Blocks
  <1> DEFINE hi == b + 1 + n
             e  == [Payload(b) EXCEPT !.hi = hi]
  <1>3. /\ hi \in 0 .. Total /\ Payload(b).lo < hi /\ hi < Payload(b).hi
        /\ e = [lo |-> b + 1, hi |-> hi]
    BY <1>1, Addresses, TotalAssumption DEF Payload, End, WithinHeap
  <1>4. Owned' = (Owned \ {Payload(b)}) \cup {e}
    <2>1. Owned' = {[lo |-> c + 1, hi |-> c + 1 + size'[c]] : c \in Blocks \ freed} \cup regions
      BY <1>2 DEF Owned, End
    <2>2. /\ \A c \in (Blocks \ freed) \ {b} :
                 [lo |-> c + 1, hi |-> c + 1 + size'[c]] = Payload(c)
          /\ [lo |-> b + 1, hi |-> b + 1 + size'[b]] = e
      BY <1>2, <1>3 DEF Payload, End
    <2>3. Payload(b) \notin regions
      BY PayloadFacts
    <2>4. \A c \in Blocks \ {b} : Payload(c) # Payload(b)
      BY PayloadFacts
    <2> HIDE DEF e
    <2>5. {[lo |-> c + 1, hi |-> c + 1 + size'[c]] : c \in Blocks \ freed}
             = {Payload(c) : c \in (Blocks \ freed) \ {b}} \cup {e}
      BY <1>1, <2>2
    <2>6. QED
      BY <2>1, <2>3, <2>4, <2>5, OwnedIs
  <1>5. Payload(b) \in Owned
    BY <1>1, OwnedIs
  <1> HIDE DEF hi
  <1>6. QED
    BY <1>3, <1>4, <1>5 DEF Mem!Shrink

LEMMA StepImplements ==
    HeapInv /\ HeapInv' /\ [Next]_vars => [Mem!Next]_Owned
  <1> SUFFICES ASSUME HeapInv, HeapInv', [Next]_vars
               PROVE  Mem!Next \/ UNCHANGED Owned
    BY DEF Mem!Next
  <1>1. CASE UNCHANGED <<size, freed, regions>>
    BY <1>1 DEF Owned, Blocks, End
  <1>2. ASSUME NEW n \in Requests, Alloc(n) PROVE Mem!Next \/ UNCHANGED Owned
    BY <1>1, <1>2, AllocImplements DEF Alloc, AllocFail, vars, Mem!Next
  <1>3. CASE \E n \in Requests, a \in Aligns : AllocAligned(n, a)
    BY <1>3, AlignedImplements DEF Mem!Next
  <1>4. CASE \E b \in Blocks : Free(b)
    BY <1>4, FreeImplements DEF Mem!Next
  <1>5. CASE \E b \in Blocks, n \in Requests : ReallocShrink(b, n)
    BY <1>5, ShrinkImplements DEF Mem!Next
  <1>6. QED
    BY <1>1, <1>2, <1>3, <1>4, <1>5 DEF Next, EnableGuardPages, vars

\* The heap keeps the promise of Memory: every allocation is clear of all that
\* is owned, and a free or a shrinking gives back what its caller owned, only.
THEOREM HeapImplementsMemory == Spec => Implements
  <1>1. Init => Mem!Init
    BY DEF Init, Owned, Blocks, Mem!Init
  <1>2. QED
    BY <1>1, StepImplements, InvHolds, PTL DEF Spec, Implements, Mem!Spec
=============================================================================
