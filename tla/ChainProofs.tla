----------------------------- MODULE ChainProofs -----------------------------
(* Lemmas about what stdlib/chain.py computes, for LedgerProofs and         *)
(* ChainApiProofs: sums and balances, sequence numbers, medians and the     *)
(* difficulty, what a block is made of, and when a chain with one more      *)
(* block on it validates.                                                   *)
EXTENDS Chain, FiniteSetTheorems, TLAPS

-----------------------------------------------------------------------------
(* Sums.                                                                    *)

LEMMA Least ==
    ASSUME NEW T \in SUBSET Nat, T # {}
    PROVE  \E x \in T : \A y \in T : x <= y
  <1> DEFINE R == OpToRel(<, Nat)
  <1>1. PICK x \in T : \A y \in T : ~ (<<y, x>> \in R)
    BY WFMin, NatLessThanWellFounded
  <1>2. \A k, m \in Nat : k < m => <<k, m>> \in R
    BY DEF OpToRel
  <1> HIDE DEF R
  <1>3. ASSUME NEW y \in T PROVE x <= y
    <2>1. ~(y < x)
      BY <1>1, <1>2, Zenon
    <2>2. QED
      BY <2>1
  <1>4. QED
    BY <1>3

LEMMA Induction ==
    ASSUME NEW n \in Nat, NEW S, 0 \in S, \A k \in 1 .. n : k - 1 \in S => k \in S
    PROVE  \A k \in 0 .. n : k \in S
  <1> DEFINE Out == (0 .. n) \ S
  <1>1. SUFFICES ASSUME Out # {} PROVE FALSE
    OBVIOUS
  <1>2. PICK k \in Out : \A m \in Out : k <= m
    <2>1. Out \in SUBSET Nat
      OBVIOUS
    <2> HIDE DEF Out
    <2>2. QED
      BY <1>1, <2>1, Least
  <1>3. k \in 1 .. n /\ k - 1 \in 0 .. n
    BY <1>2
  <1>4. k - 1 \in S
    BY <1>2, <1>3
  <1>5. QED
    BY <1>2, <1>3, <1>4

\* A value computed from the one before exists up to any length.
Computed(f, V, base, n, step) ==
    f \in [0 .. n -> V] /\ f[0] = base /\ \A k \in 1 .. n : f[k] = step[k][f[k - 1]]

LEMMA Recursion ==
    ASSUME NEW V, NEW base \in V, NEW n \in Nat, NEW step \in [1 .. n -> [V -> V]]
    PROVE  \E f : Computed(f, V, base, n, step)
  <1> DEFINE Computes(f, m) ==
               f \in [0 .. m -> V] /\ f[0] = base
               /\ \A k \in 1 .. m : f[k] = step[k][f[k - 1]]
             S == {m \in 0 .. n : \E f : Computes(f, m)}
  <1>1. 0 \in S
    <2>1. Computes([k \in 0 .. 0 |-> base], 0)
      OBVIOUS
    <2> HIDE DEF Computes
    <2>2. QED
      BY <2>1
  <1>2. ASSUME NEW m \in 1 .. n, m - 1 \in S PROVE m \in S
    <2>1. PICK f : Computes(f, m - 1)
      BY <1>2
    <2> DEFINE g == [k \in 0 .. m |-> IF k = m THEN step[m][f[m - 1]] ELSE f[k]]
    <2>2. f[m - 1] \in V /\ step[m][f[m - 1]] \in V
      BY <2>1
    <2>3. g \in [0 .. m -> V] /\ g[0] = base
      BY <2>1, <2>2
    <2>4. ASSUME NEW k \in 1 .. m PROVE g[k] = step[k][g[k - 1]]
      BY <2>1, <2>2
    <2>5. Computes(g, m)
      BY <2>3, <2>4
    <2> HIDE DEF Computes, g
    <2>6. QED
      BY <2>5
  <1> HIDE DEF S
  <1>3. \A m \in 0 .. n : m \in S
    BY <1>1, <1>2, Induction
  <1>4. QED
    BY <1>3 DEF S, Computed

LEMMA SumUnfolds ==
    ASSUME NEW s \in Seq(Int)
    PROVE  \E P \in [0 .. Len(s) -> Int] :
              /\ P[0] = 0 /\ P[Len(s)] = Total(s)
              /\ \A k \in 1 .. Len(s) : P[k] = P[k - 1] + s[k]
  <1> DEFINE n == Len(s)
             V == Int
             zero == 0
             step == [k \in 1 .. n |-> [x \in Int |-> x + s[k]]]
             Sums(P) == P = [k \in 0 .. n |-> IF k = 0 THEN 0 ELSE P[k - 1] + s[k]]
  <1>1. n \in Nat /\ zero \in V /\ step \in [1 .. n -> [V -> V]]
    OBVIOUS
  <1> HIDE DEF V, zero, step, n
  <1>2. PICK P \in [0 .. n -> V] :
             P[0] = zero /\ \A k \in 1 .. n : P[k] = step[k][P[k - 1]]
    <2>1. PICK P : Computed(P, V, zero, n, step)
      BY <1>1, Recursion
    <2>2. QED
      BY <2>1 DEF Computed
  <1>3. ASSUME NEW k \in 1 .. n PROVE P[k] = P[k - 1] + s[k]
    <2>1. P[k - 1] \in Int /\ step[k] = [x \in Int |-> x + s[k]]
      BY <1>1 DEF V, step
    <2>2. P[k] = step[k][P[k - 1]]
      BY <1>2
    <2>3. QED
      BY <2>1, <2>2
  <1>4. Sums(P)
    BY <1>1, <1>2, <1>3 DEF zero
  <1> DEFINE Q == CHOOSE R : Sums(R)
  <1>5. Sums(Q)
    <2> HIDE DEF Sums
    <2>1. QED
      BY <1>4
  <1>6. Total(s) = Q[n]
    BY DEF Total, n
  <1> HIDE DEF Q
  <1> DEFINE S == {k \in 0 .. n : Q[k] = P[k]}
  <1>7. 0 \in S
    BY <1>1, <1>2, <1>5 DEF zero
  <1>8. ASSUME NEW k \in 1 .. n, k - 1 \in S PROVE k \in S
    <2>1. k \in 0 .. n /\ k # 0
      BY <1>1
    <2>2. Q[k] = Q[k - 1] + s[k]
      BY <1>5, <2>1, Zenon
    <2>3. QED
      BY <1>3, <1>8, <2>2
  <1>9. Q[n] = P[n]
    <2> HIDE DEF S
    <2>1. \A k \in 0 .. n : k \in S
      BY <1>1, <1>7, <1>8, Induction
    <2>2. QED
      BY <1>1, <2>1 DEF S
  <1>10. P[0] = 0 /\ P[n] = Total(s)
    BY <1>2, <1>6, <1>9 DEF zero
  <1>11. P \in [0 .. n -> Int]
    BY <1>2 DEF V
  <1>12. QED
    BY <1>3, <1>10, <1>11 DEF n

\* Below, sequences of integers are functions on 1 .. n.
LEMMA SumByStep ==
    ASSUME NEW n \in Nat, NEW s \in [1 .. n -> Int]
    PROVE  \E P \in [0 .. n -> Int] :
              /\ P[0] = 0 /\ P[n] = Total(s)
              /\ \A k \in 1 .. n : P[k] = P[k - 1] + s[k]
  <1>1. s \in Seq(Int) /\ Len(s) = n
    OBVIOUS
  <1>2. QED
    BY <1>1, SumUnfolds

\* Laws of the sum, each by comparing how the sums grow.
LEMMA TotalInt ==
    ASSUME NEW n \in Nat, NEW s \in [1 .. n -> Int] PROVE Total(s) \in Int
  <1>1. PICK P \in [0 .. n -> Int] : P[n] = Total(s)
    BY SumByStep
  <1>2. QED
    BY <1>1

LEMMA TotalLeq ==
    ASSUME NEW n \in Nat, NEW s \in [1 .. n -> Int], NEW t \in [1 .. n -> Int],
           \A k \in 1 .. n : s[k] <= t[k]
    PROVE  Total(s) <= Total(t)
  <1>1. PICK P \in [0 .. n -> Int] :
           /\ P[0] = 0 /\ P[n] = Total(s)
           /\ \A k \in 1 .. n : P[k] = P[k - 1] + s[k]
    BY SumByStep
  <1>2. PICK Q \in [0 .. n -> Int] :
           /\ Q[0] = 0 /\ Q[n] = Total(t)
           /\ \A k \in 1 .. n : Q[k] = Q[k - 1] + t[k]
    BY SumByStep
  <1> DEFINE S == {k \in 0 .. n : P[k] <= Q[k]}
  <1>3. 0 \in S
    BY <1>1, <1>2
  <1>4. ASSUME NEW k \in 1 .. n, k - 1 \in S PROVE k \in S
    <2>1. P[k - 1] \in Int /\ Q[k - 1] \in Int /\ s[k] \in Int /\ t[k] \in Int
      OBVIOUS
    <2>2. P[k] = P[k - 1] + s[k] /\ Q[k] = Q[k - 1] + t[k] /\ s[k] <= t[k]
      BY <1>1, <1>2
    <2>3. QED
      BY <1>4, <2>1, <2>2
  <1> HIDE DEF S
  <1>5. \A k \in 0 .. n : k \in S
    BY <1>3, <1>4, Induction
  <1>6. QED
    BY <1>1, <1>2, <1>5 DEF S

IsSum(z, x, y) == x \in Int /\ y \in Int /\ z = x + y

LEMMA TotalAdd ==
    ASSUME NEW n \in Nat, NEW s \in [1 .. n -> Int], NEW t \in [1 .. n -> Int],
           NEW u \in [1 .. n -> Int], \A k \in 1 .. n : u[k] = s[k] + t[k]
    PROVE  IsSum(Total(u), Total(s), Total(t))
  <1>1. PICK P \in [0 .. n -> Int] :
           /\ P[0] = 0 /\ P[n] = Total(s)
           /\ \A k \in 1 .. n : P[k] = P[k - 1] + s[k]
    BY SumByStep
  <1>2. PICK Q \in [0 .. n -> Int] :
           /\ Q[0] = 0 /\ Q[n] = Total(t)
           /\ \A k \in 1 .. n : Q[k] = Q[k - 1] + t[k]
    BY SumByStep
  <1>3. PICK U \in [0 .. n -> Int] :
           /\ U[0] = 0 /\ U[n] = Total(u)
           /\ \A k \in 1 .. n : U[k] = U[k - 1] + u[k]
    BY SumByStep
  <1> DEFINE S == {k \in 0 .. n : U[k] = P[k] + Q[k]}
  <1>4. 0 \in S
    BY <1>1, <1>2, <1>3
  <1>5. ASSUME NEW k \in 1 .. n, k - 1 \in S PROVE k \in S
    <2>1. /\ P[k - 1] \in Int /\ Q[k - 1] \in Int /\ U[k - 1] \in Int
          /\ s[k] \in Int /\ t[k] \in Int
      OBVIOUS
    <2>2. /\ P[k] = P[k - 1] + s[k] /\ Q[k] = Q[k - 1] + t[k]
          /\ U[k] = U[k - 1] + u[k] /\ u[k] = s[k] + t[k]
      BY <1>1, <1>2, <1>3
    <2>3. U[k - 1] = P[k - 1] + Q[k - 1]
      BY <1>5
    <2>4. U[k] = P[k] + Q[k]
      BY <2>1, <2>2, <2>3
    <2>5. QED
      BY <2>4
  <1> HIDE DEF S
  <1>6. \A k \in 0 .. n : k \in S
    BY <1>4, <1>5, Induction
  <1>7. Total(u) = Total(s) + Total(t)
    BY <1>1, <1>2, <1>3, <1>6 DEF S
  <1>8. QED
    BY <1>7, TotalInt DEF IsSum

Joins(u, l, s, n, t, m) ==
    /\ l = n + m
    /\ \A k \in 1 .. n : u[k] = s[k]
    /\ \A k \in 1 .. m : u[n + k] = t[k]

LEMMA TotalConcat ==
    ASSUME NEW n \in Nat, NEW s \in [1 .. n -> Int],
           NEW m \in Nat, NEW t \in [1 .. m -> Int],
           NEW l \in Nat, NEW u \in [1 .. l -> Int], Joins(u, l, s, n, t, m)
    PROVE  IsSum(Total(u), Total(s), Total(t))
  <1>1. PICK P \in [0 .. n -> Int] :
           /\ P[0] = 0 /\ P[n] = Total(s)
           /\ \A k \in 1 .. n : P[k] = P[k - 1] + s[k]
    BY SumByStep
  <1>2. PICK Q \in [0 .. m -> Int] :
           /\ Q[0] = 0 /\ Q[m] = Total(t)
           /\ \A k \in 1 .. m : Q[k] = Q[k - 1] + t[k]
    BY SumByStep
  <1>3. PICK U \in [0 .. l -> Int] :
           /\ U[0] = 0 /\ U[l] = Total(u)
           /\ \A k \in 1 .. l : U[k] = U[k - 1] + u[k]
    BY SumByStep
  <1>4. U[n] = P[n]
    <2> DEFINE S == {k \in 0 .. n : U[k] = P[k]}
    <2>1. 0 \in S
      BY <1>1, <1>3
    <2>2. ASSUME NEW k \in 1 .. n, k - 1 \in S PROVE k \in S
      <3>1. k \in 1 .. l /\ u[k] = s[k]
        BY DEF Joins
      <3>2. U[k] = U[k - 1] + s[k] /\ P[k] = P[k - 1] + s[k]
        BY <1>1, <1>3, <3>1
      <3>3. U[k - 1] = P[k - 1]
        BY <2>2
      <3>4. U[k] = P[k]
        BY <3>2, <3>3
      <3>5. QED
        BY <3>4
    <2> HIDE DEF S
    <2>3. \A k \in 0 .. n : k \in S
      BY <2>1, <2>2, Induction
    <2>4. QED
      BY <2>3 DEF S
  <1>5. U[n + m] = P[n] + Q[m]
    <2> DEFINE S == {k \in 0 .. m : U[n + k] = P[n] + Q[k]}
    <2>1. 0 \in S
      BY <1>2, <1>4
    <2>2. ASSUME NEW k \in 1 .. m, k - 1 \in S PROVE k \in S
      <3>1. n + k \in 1 .. l /\ n + (k - 1) \in 0 .. l /\ (n + k) - 1 = n + (k - 1)
        BY DEF Joins
      <3>2. /\ U[n + (k - 1)] \in Int /\ Q[k - 1] \in Int
            /\ t[k] \in Int /\ u[n + k] = t[k] /\ P[n] \in Int
        BY <3>1 DEF Joins
      <3>3. U[n + k] = U[n + (k - 1)] + u[n + k]
        BY <1>3, <3>1
      <3>4. Q[k] = Q[k - 1] + t[k] /\ U[n + (k - 1)] = P[n] + Q[k - 1]
        BY <1>2, <2>2
      <3>5. U[n + k] = P[n] + Q[k]
        BY <3>1, <3>2, <3>3, <3>4
      <3>6. QED
        BY <3>5
    <2> HIDE DEF S
    <2>3. \A k \in 0 .. m : k \in S
      BY <2>1, <2>2, Induction
    <2>4. QED
      BY <2>3 DEF S
  <1>6. Total(u) = Total(s) + Total(t)
    BY <1>1, <1>2, <1>3, <1>5 DEF Joins
  <1>7. QED
    BY <1>6, TotalInt DEF IsSum

\* A sequence that is 0 but in one place.
LEMMA TotalOne ==
    ASSUME NEW n \in Nat, NEW s \in [1 .. n -> Int], NEW i \in 1 .. n,
           \A k \in 1 .. n : k # i => s[k] = 0
    PROVE  Total(s) = s[i]
  <1>1. PICK P \in [0 .. n -> Int] :
           /\ P[0] = 0 /\ P[n] = Total(s)
           /\ \A k \in 1 .. n : P[k] = P[k - 1] + s[k]
    BY SumByStep
  <1> DEFINE S == {k \in 0 .. n : P[k] = IF k < i THEN 0 ELSE s[i]}
  <1>2. 0 \in S
    BY <1>1
  <1>3. ASSUME NEW k \in 1 .. n, k - 1 \in S PROVE k \in S
    <2>1. P[k - 1] \in Int /\ s[k] \in Int /\ s[i] \in Int
      OBVIOUS
    <2>2. /\ P[k] = P[k - 1] + s[k]
          /\ k # i => s[k] = 0
          /\ P[k - 1] = IF k - 1 < i THEN 0 ELSE s[i]
      BY <1>1, <1>3
    <2>3. P[k] = IF k < i THEN 0 ELSE s[i]
      <3>1. CASE k < i
        BY <2>1, <2>2, <3>1
      <3>2. CASE k = i
        BY <2>1, <2>2, <3>2
      <3>3. CASE k > i
        BY <2>1, <2>2, <3>3
      <3>4. QED
        BY <3>1, <3>2, <3>3
    <2>4. QED
      BY <2>3
  <1> HIDE DEF S
  <1>4. \A k \in 0 .. n : k \in S
    BY <1>2, <1>3, Induction
  <1>5. QED
    BY <1>1, <1>4 DEF S

-----------------------------------------------------------------------------
(* The transactions of a chain, one after the other.                        *)

FlatTo(F, L, T) ==
    /\ F \in [0 .. Len(L) -> Seq(T)]
    /\ F[0] = <<>> /\ F[Len(L)] = FlattenSeq(L)
    /\ \A k \in 1 .. Len(L) : F[k] = F[k - 1] \o L[k]

LEMMA FlatUnfolds ==
    ASSUME NEW T, NEW L \in Seq(Seq(T)), L # <<>>
    PROVE  \E F : FlatTo(F, L, T)
  <1> DEFINE n == Len(L)
             V == Seq(T)
             none == <<>>
             step == [k \in 1 .. n |-> [x \in V |-> x \o L[k]]]
             Flat(f) == f = [k \in 1 .. n |-> IF k = 1 THEN L[k] ELSE f[k - 1] \o L[k]]
  <1>1. n \in Nat /\ none \in V /\ step \in [1 .. n -> [V -> V]]
    OBVIOUS
  <1>2. n # 0 /\ \A k \in 1 .. n : L[k] \in V
    OBVIOUS
  <1> HIDE DEF V, none, step, n
  <1>3. PICK F \in [0 .. n -> V] :
             F[0] = none /\ \A k \in 1 .. n : F[k] = step[k][F[k - 1]]
    <2>1. PICK F : Computed(F, V, none, n, step)
      BY <1>1, Recursion
    <2>2. QED
      BY <2>1 DEF Computed
  <1>4. ASSUME NEW k \in 1 .. n PROVE F[k - 1] \in V /\ F[k] = F[k - 1] \o L[k]
    <2>1. F[k - 1] \in V
      BY <1>1
    <2>2. step[k] = [x \in V |-> x \o L[k]]
      BY DEF step
    <2>3. F[k] = step[k][F[k - 1]]
      BY <1>3
    <2>4. QED
      BY <2>1, <2>2, <2>3
  <1>5. F[1] = L[1]
    <2>1. 1 \in 1 .. n
      BY <1>1, <1>2
    <2>2. F[1] = F[1 - 1] \o L[1] /\ L[1] \in V
      BY <1>2, <1>4, <2>1
    <2>3. F[1 - 1] = none
      BY <1>3
    <2>4. QED
      BY <2>2, <2>3 DEF none, V
  <1> DEFINE H == [k \in 1 .. n |-> F[k]]
             G == CHOOSE f : Flat(f)
  <1>6. Flat(G)
    <2>1. ASSUME NEW k \in 1 .. n
          PROVE  F[k] = IF k = 1 THEN L[k] ELSE H[k - 1] \o L[k]
      <3>1. CASE k = 1
        BY <1>5, <3>1
      <3>2. CASE k # 1
        <4>1. k - 1 \in 1 .. n
          BY <1>1, <3>2
        <4>2. H[k - 1] = F[k - 1]
          BY <4>1
        <4>3. QED
          BY <1>4, <3>2, <4>2, Zenon
      <3>3. QED
        BY <3>1, <3>2
    <2>2. Flat(H)
      BY <2>1, Zenon
    <2> HIDE DEF Flat, H
    <2>3. QED
      BY <2>2
  <1>7. FlattenSeq(L) = G[n]
    <2>1. Len(L) # 0
      BY <1>2 DEF n
    <2>2. QED
      BY <2>1, Zenon DEF FlattenSeq, n
  <1> HIDE DEF G, H
  <1>8. ASSUME NEW k \in 1 .. n
        PROVE  G[k] = IF k = 1 THEN L[k] ELSE G[k - 1] \o L[k]
    BY <1>6, Zenon
  <1> HIDE DEF Flat
  <1> DEFINE S == {k \in 0 .. n : k = 0 \/ G[k] = F[k]}
  <1>9. 0 \in S
    BY <1>1
  <1>10. ASSUME NEW k \in 1 .. n, k - 1 \in S PROVE k \in S
    <2>1. G[k] = F[k]
      <3>1. CASE k = 1
        BY <1>5, <1>8, <3>1
      <3>2. CASE k # 1
        <4>1. G[k - 1] = F[k - 1]
          BY <1>10, <3>2
        <4>2. QED
          BY <1>4, <1>8, <3>2, <4>1, Zenon
      <3>3. QED
        BY <3>1, <3>2
    <2>2. k \in 0 .. n
      BY <1>1
    <2>3. QED
      BY <2>1, <2>2
  <1>11. G[n] = F[n]
    <2> HIDE DEF S
    <2>1. \A k \in 0 .. n : k \in S
      BY <1>1, <1>9, <1>10, Induction
    <2>2. QED
      BY <1>1, <1>2, <2>1 DEF S
  <1>12. F \in [0 .. n -> Seq(T)] /\ F[0] = <<>>
    BY <1>3 DEF V, none
  <1>13. QED
    BY <1>4, <1>7, <1>11, <1>12 DEF n, FlatTo

LEMMA FlatAppend ==
    ASSUME NEW T, NEW L \in Seq(Seq(T)), L # <<>>, NEW x \in Seq(T)
    PROVE  FlattenSeq(Append(L, x)) = FlattenSeq(L) \o x
  <1> DEFINE M == Append(L, x)
  <1>1. /\ M \in Seq(Seq(T)) /\ M # <<>>
        /\ Len(L) \in Nat /\ Len(M) = Len(L) + 1
        /\ \A k \in 1 .. Len(L) : M[k] = L[k]
        /\ M[Len(L) + 1] = x
    <2> DEFINE V == Seq(T)
    <2>1. L \in Seq(V) /\ x \in V
      OBVIOUS
    <2> HIDE DEF V
    <2>2. /\ M \in Seq(V) /\ Len(L) \in Nat /\ Len(M) = Len(L) + 1
          /\ \A k \in 1 .. Len(L) : M[k] = L[k]
          /\ M[Len(L) + 1] = x
      BY <2>1
    <2>3. M # <<>>
      <3>1. Len(<<>>) = 0
        OBVIOUS
      <3> HIDE DEF M
      <3>2. Len(M) # 0
        BY <2>2
      <3>3. QED
        BY <3>1, <3>2, Zenon
    <2>4. QED
      BY <2>2, <2>3, Zenon DEF V
  <1> HIDE DEF M
  <1>2. PICK F : FlatTo(F, L, T)
    BY FlatUnfolds
  <1>3. PICK G : FlatTo(G, M, T)
    BY <1>1, FlatUnfolds
  <1> DEFINE n == Len(L)
             S == {k \in 0 .. n : F[k] = G[k]}
  <1>4. n \in Nat
    BY <1>1
  <1>5. 0 \in S
    BY <1>2, <1>3 DEF FlatTo
  <1>6. ASSUME NEW k \in 1 .. n, k - 1 \in S PROVE k \in S
    <2>1. F[k] = F[k - 1] \o L[k] /\ F[k - 1] = G[k - 1]
      BY <1>2, <1>6 DEF FlatTo
    <2>2. G[k] = G[k - 1] \o M[k] /\ M[k] = L[k]
      <3>1. k \in 1 .. Len(M)
        BY <1>1
      <3>2. QED
        BY <1>1, <1>3, <3>1 DEF FlatTo
    <2>3. F[k] = G[k]
      BY <2>1, <2>2
    <2>4. QED
      BY <2>3
  <1>7. F[n] = G[n]
    <2> HIDE DEF S, n
    <2>1. \A k \in 0 .. n : k \in S
      BY <1>4, <1>5, <1>6, Induction
    <2>2. QED
      BY <1>4, <2>1 DEF S
  <1>8. G[Len(M)] = G[n] \o x
    <2>1. PICK m : m = Len(M)
      OBVIOUS
    <2>2. m \in 1 .. m /\ m - 1 = n /\ M[m] = x
      BY <1>1, <2>1
    <2>3. G[m] = G[m - 1] \o M[m]
      BY <1>3, <2>1, <2>2 DEF FlatTo
    <2>4. QED
      BY <2>1, <2>2, <2>3
  <1>9. QED
    BY <1>2, <1>3, <1>7, <1>8 DEF M, FlatTo

LEMMA FlatType ==
    ASSUME NEW T, NEW L \in Seq(Seq(T)), L # <<>>
    PROVE  FlattenSeq(L) \in Seq(T)
  <1>1. PICK F : FlatTo(F, L, T)
    BY FlatUnfolds
  <1>2. PICK n \in Nat : n = Len(L)
    OBVIOUS
  <1>3. F \in [0 .. n -> Seq(T)] /\ F[n] = FlattenSeq(L)
    BY <1>1, <1>2 DEF FlatTo
  <1>4. QED
    BY <1>3

LEMMA FlatOne ==
    ASSUME NEW T, NEW x \in Seq(T) PROVE FlattenSeq(<<x>>) = x
  <1> DEFINE L == <<x>>
  <1>1. L \in Seq(Seq(T)) /\ L # <<>> /\ Len(L) = 1 /\ L[1] = x
    OBVIOUS
  <1> HIDE DEF L
  <1>2. PICK F : FlatTo(F, L, T)
    BY <1>1, FlatUnfolds
  <1>3. F[1] = F[0] \o x /\ F[0] = <<>> /\ F[1] = FlattenSeq(L)
    <2>1. 1 \in 1 .. Len(L) /\ 1 - 1 = 0
      BY <1>1
    <2>2. F[1] = F[1 - 1] \o L[1]
      BY <1>2, <2>1 DEF FlatTo
    <2>3. F[0] = <<>> /\ F[1] = FlattenSeq(L)
      BY <1>1, <1>2 DEF FlatTo
    <2>4. QED
      BY <1>1, <2>1, <2>2, <2>3
  <1>4. QED
    BY <1>3 DEF L

\* The transactions up to a block are those up to the block before and its own.
LEMMA TxsUpTo ==
    ASSUME NEW S, NEW T, NEW bs \in Seq(S), NEW k \in 1 .. Len(bs),
           \A i \in 1 .. Len(bs) : bs[i].txs \in Seq(T)
    PROVE  /\ TxsOf(SubSeq(bs, 1, k)) \in Seq(T)
           /\ k = 1 => TxsOf(SubSeq(bs, 1, k)) = bs[k].txs
           /\ k > 1 => TxsOf(SubSeq(bs, 1, k)) = TxsOf(SubSeq(bs, 1, k - 1)) \o bs[k].txs
  <1> DEFINE Lists(m) == [i \in 1 .. m |-> bs[i].txs]
             V == Seq(T)
  <1>1. ASSUME NEW m \in 1 .. Len(bs)
        PROVE  TxsOf(SubSeq(bs, 1, m)) = FlattenSeq(Lists(m))
    <2>1. Len(SubSeq(bs, 1, m)) = m /\ \A i \in 1 .. m : SubSeq(bs, 1, m)[i] = bs[i]
      OBVIOUS
    <2>2. [i \in 1 .. Len(SubSeq(bs, 1, m)) |-> SubSeq(bs, 1, m)[i].txs] = Lists(m)
      BY <2>1
    <2>3. QED
      BY <2>2, Zenon DEF TxsOf
  <1>2. \A i \in 1 .. Len(bs) : bs[i].txs \in V
    OBVIOUS
  <1> HIDE DEF V
  <1>3. ASSUME NEW m \in 1 .. Len(bs) PROVE Lists(m) \in Seq(V) /\ Lists(m) # <<>>
    <2>1. \A i \in 1 .. m : bs[i].txs \in V
      BY <1>2
    <2>2. Lists(m) \in Seq(V) /\ Len(Lists(m)) = m /\ m # 0
      BY <2>1
    <2> HIDE DEF Lists
    <2>3. Len(<<>>) = 0
      OBVIOUS
    <2>4. QED
      BY <2>2, <2>3, Zenon
  <1>4. CASE k = 1
    <2>1. Lists(k) = <<bs[k].txs>>
      BY <1>4
    <2>2. FlattenSeq(Lists(k)) = bs[k].txs /\ bs[k].txs \in Seq(T)
      BY <1>2, <2>1, FlatOne DEF V
    <2>3. TxsOf(SubSeq(bs, 1, k)) = bs[k].txs
      BY <1>1, <2>2
    <2>4. QED
      BY <1>4, <2>2, <2>3
  <1>5. CASE k > 1
    <2>1. k - 1 \in 1 .. Len(bs)
      BY <1>5
    <2>2. Lists(k) = Append(Lists(k - 1), bs[k].txs)
      BY <2>1
    <2>3. FlattenSeq(Append(Lists(k - 1), bs[k].txs))
            = FlattenSeq(Lists(k - 1)) \o bs[k].txs
      <3> HIDE DEF Lists
      <3>1. Lists(k - 1) \in Seq(V) /\ Lists(k - 1) # <<>> /\ bs[k].txs \in V
        BY <1>2, <1>3, <2>1
      <3>2. QED
        BY <3>1, FlatAppend DEF V
    <2>4. TxsOf(SubSeq(bs, 1, k)) = TxsOf(SubSeq(bs, 1, k - 1)) \o bs[k].txs
      <3>1. TxsOf(SubSeq(bs, 1, k)) = FlattenSeq(Lists(k))
        BY <1>1
      <3>2. TxsOf(SubSeq(bs, 1, k - 1)) = FlattenSeq(Lists(k - 1))
        BY <1>1, <2>1
      <3> HIDE DEF Lists
      <3>3. QED
        BY <2>2, <2>3, <3>1, <3>2
    <2>5. TxsOf(SubSeq(bs, 1, k)) \in Seq(T)
      <3>1. Lists(k) \in Seq(V) /\ Lists(k) # <<>>
        BY <1>3
      <3> HIDE DEF Lists
      <3>2. FlattenSeq(Lists(k)) \in Seq(T)
        BY <3>1, FlatType DEF V
      <3>3. QED
        BY <1>1, <3>2 DEF Lists
    <2>6. k # 1
      BY <1>5
    <2>7. QED
      BY <2>4, <2>5, <2>6, Zenon
  <1>6. k = 1 \/ k > 1
    OBVIOUS
  <1>7. QED
    BY <1>4, <1>5, <1>6, Zenon

-----------------------------------------------------------------------------
(* Balances and sequence numbers.                                           *)

LEMMA GainInt == ASSUME NEW tx \in Transactions, NEW a PROVE Gain(tx, a) \in Int
  BY DEF Transactions, Gain

LEMMA Gains ==
    ASSUME NEW s \in Seq(Transactions), NEW a, NEW n, n = Len(s)
    PROVE  /\ n \in Nat
           /\ [i \in 1 .. n |-> Gain(s[i], a)] \in [1 .. n -> Int]
           /\ Balance(s, a) = Total([i \in 1 .. n |-> Gain(s[i], a)])
  <1>1. n \in Nat /\ \A i \in 1 .. n : s[i] \in Transactions
    OBVIOUS
  <1>2. \A i \in 1 .. n : Gain(s[i], a) \in Int
    BY <1>1, GainInt
  <1>3. QED
    BY <1>1, <1>2 DEF Balance

LEMMA BalanceInt ==
    ASSUME NEW s \in Seq(Transactions), NEW a PROVE Balance(s, a) \in Int
  <1>1. PICK n : n = Len(s)
    OBVIOUS
  <1> DEFINE g == [i \in 1 .. n |-> Gain(s[i], a)]
  <1>2. n \in Nat /\ g \in [1 .. n -> Int] /\ Balance(s, a) = Total(g)
    BY <1>1, Gains
  <1> HIDE DEF g
  <1>3. QED
    BY <1>2, TotalInt

LEMMA BalanceConcat ==
    ASSUME NEW s \in Seq(Transactions), NEW t \in Seq(Transactions), NEW a
    PROVE  IsSum(Balance(s \o t, a), Balance(s, a), Balance(t, a))
  <1>1. PICK n \in Nat, m \in Nat, l \in Nat : n = Len(s) /\ m = Len(t) /\ l = Len(s \o t)
    OBVIOUS
  <1> DEFINE g == [i \in 1 .. n |-> Gain(s[i], a)]
             h == [i \in 1 .. m |-> Gain(t[i], a)]
             u == [i \in 1 .. l |-> Gain((s \o t)[i], a)]
  <1>2. n \in Nat /\ g \in [1 .. n -> Int] /\ Balance(s, a) = Total(g)
    BY <1>1, Gains
  <1>3. m \in Nat /\ h \in [1 .. m -> Int] /\ Balance(t, a) = Total(h)
    BY <1>1, Gains
  <1>4. l \in Nat /\ u \in [1 .. l -> Int] /\ Balance(s \o t, a) = Total(u)
    <2>1. s \o t \in Seq(Transactions)
      OBVIOUS
    <2>2. QED
      BY <1>1, <2>1, Gains
  <1>5. l = n + m
    BY <1>1
  <1>6. \A k \in 1 .. n : u[k] = g[k]
    <2>1. \A k \in 1 .. n : k \in 1 .. l /\ (s \o t)[k] = s[k]
      BY <1>1, <1>2, <1>3, <1>5
    <2>2. QED
      BY <2>1
  <1>7. \A k \in 1 .. m : u[n + k] = h[k]
    <2>1. \A k \in 1 .. m : n + k \in 1 .. l /\ (s \o t)[n + k] = t[k]
      BY <1>1, <1>2, <1>3, <1>5
    <2>2. QED
      BY <2>1
  <1> HIDE DEF g, h, u
  <1>8. Joins(u, l, g, n, h, m)
    BY <1>5, <1>6, <1>7 DEF Joins
  <1>9. IsSum(Total(u), Total(g), Total(h))
    BY <1>2, <1>3, <1>4, <1>8, TotalConcat
  <1>10. QED
    BY <1>2, <1>3, <1>4, <1>9

LEMMA BalanceOne ==
    ASSUME NEW tx \in Transactions, NEW a
    PROVE  Balance(<<tx>>, a) = Gain(tx, a) /\ Balance(<<>>, a) = 0
  <1> DEFINE g == [i \in 1 .. 1 |-> Gain(<<tx>>[i], a)]
             h == [i \in 1 .. 0 |-> Gain(<<>>[i], a)]
  <1>1. g \in [1 .. 1 -> Int] /\ Balance(<<tx>>, a) = Total(g) /\ g[1] = Gain(tx, a)
    <2>1. <<tx>> \in Seq(Transactions) /\ Len(<<tx>>) = 1 /\ <<tx>>[1] = tx
      OBVIOUS
    <2>2. g \in [1 .. 1 -> Int] /\ Balance(<<tx>>, a) = Total(g)
      BY <2>1, Gains
    <2>3. QED
      BY <2>1, <2>2
  <1>2. h \in [1 .. 0 -> Int] /\ Balance(<<>>, a) = Total(h)
    <2>1. <<>> \in Seq(Transactions) /\ Len(<<>>) = 0
      OBVIOUS
    <2>2. QED
      BY <2>1, Gains
  <1> HIDE DEF g, h
  <1>3. Total(g) = g[1]
    <2>1. PICK n \in Nat : n = 1
      OBVIOUS
    <2>2. g \in [1 .. n -> Int] /\ n \in 1 .. n /\ \A k \in 1 .. n : k # n => g[k] = 0
      BY <1>1, <2>1
    <2>3. Total(g) = g[n]
      BY <2>2, TotalOne
    <2>4. QED
      BY <2>1, <2>3
  <1>4. Total(h) = 0
    <2>1. PICK P \in [0 .. 0 -> Int] : P[0] = 0 /\ P[0] = Total(h)
      BY <1>2, SumByStep
    <2>2. QED
      BY <2>1
  <1>5. QED
    BY <1>1, <1>2, <1>3, <1>4

LEMMA BalanceLeq ==
    ASSUME NEW s \in Seq(Transactions), NEW t \in Seq(Transactions), NEW a,
           Len(s) = Len(t),
           \A k \in 1 .. Len(s) : Gain(s[k], a) <= Gain(t[k], a)
    PROVE  Balance(s, a) <= Balance(t, a)
  <1>1. PICK n : n = Len(s) /\ n = Len(t)
    OBVIOUS
  <1> DEFINE g == [i \in 1 .. n |-> Gain(s[i], a)]
             h == [i \in 1 .. n |-> Gain(t[i], a)]
  <1>2. n \in Nat /\ g \in [1 .. n -> Int] /\ Balance(s, a) = Total(g)
    BY <1>1, Gains
  <1>3. h \in [1 .. n -> Int] /\ Balance(t, a) = Total(h)
    BY <1>1, Gains
  <1>4. \A k \in 1 .. n : g[k] <= h[k]
    BY <1>1
  <1> HIDE DEF g, h
  <1>5. Total(g) <= Total(h)
    BY <1>2, <1>3, <1>4, TotalLeq
  <1>6. QED
    BY <1>2, <1>3, <1>5

\* The sequence numbers a sender's transfers carry, and the highest.
SeqsOf(txs, who) == {-1} \cup {txs[i].seq : i \in {j \in 1 .. Len(txs) : txs[j].from = who}}

IsLast(txs, who, m) == m \in SeqsOf(txs, who) /\ \A k \in SeqsOf(txs, who) : k <= m

LEMMA SeqsInt ==
    ASSUME NEW s \in Seq(Transactions), NEW a PROVE SeqsOf(s, a) \subseteq Int
  <1>1. ASSUME NEW i \in 1 .. Len(s) PROVE s[i].seq \in Int
    <2>1. s[i] \in Transactions
      OBVIOUS
    <2>2. QED
      BY <2>1 DEF Transactions
  <1>2. -1 \in Int
    OBVIOUS
  <1>3. QED
    BY <1>1, <1>2 DEF SeqsOf

LEMMA LastIs ==
    ASSUME NEW s \in Seq(Transactions), NEW a, NEW m, IsLast(s, a, m)
    PROVE  LastSeq(s, a) = m
  <1>1. SeqsOf(s, a) \subseteq Int
    BY SeqsInt
  <1>2. LastSeq(s, a) = CHOOSE x \in SeqsOf(s, a) : \A y \in SeqsOf(s, a) : x >= y
    BY DEF LastSeq, Max, SeqsOf
  <1>3. \A x \in SeqsOf(s, a) : (\A y \in SeqsOf(s, a) : x >= y) <=> x = m
    BY <1>1 DEF IsLast
  <1>4. QED
    BY <1>2, <1>3 DEF IsLast

LEMMA LastAppend ==
    ASSUME NEW s \in Seq(Transactions), NEW tx \in Transactions, NEW a,
           NEW m \in Int, IsLast(s, a, m)
    PROVE  /\ tx.from # a => IsLast(s \o <<tx>>, a, m)
           /\ tx.from = a /\ tx.seq > m => IsLast(s \o <<tx>>, a, tx.seq)
  <1> DEFINE t == s \o <<tx>>
  <1>1. PICK n \in Nat : n = Len(s)
    OBVIOUS
  <1>2. /\ Len(t) = n + 1 /\ t[n + 1] = tx
        /\ \A i \in 1 .. n : t[i] = s[i]
    BY <1>1
  <1>3. tx.seq \in Int /\ SeqsOf(s, a) \subseteq Int
    BY SeqsInt DEF Transactions
  <1> HIDE DEF t
  <1>4. SeqsOf(t, a) = SeqsOf(s, a) \cup (IF tx.from = a THEN {tx.seq} ELSE {})
    <2>1. ASSUME NEW i \in 1 .. n PROVE i \in 1 .. Len(t) /\ t[i] = s[i]
      BY <1>2
    <2>2. n + 1 \in 1 .. Len(t) /\ \A i \in 1 .. Len(t) : i \in 1 .. n \/ i = n + 1
      BY <1>2
    <2>3. ASSUME NEW x \in SeqsOf(t, a)
          PROVE  x \in SeqsOf(s, a) \cup (IF tx.from = a THEN {tx.seq} ELSE {})
      <3>1. CASE x = -1
        BY <3>1 DEF SeqsOf
      <3>2. CASE \E i \in 1 .. Len(t) : t[i].from = a /\ x = t[i].seq
        BY <1>1, <1>2, <2>1, <2>2, <3>2 DEF SeqsOf
      <3>3. QED
        BY <3>1, <3>2 DEF SeqsOf
    <2>4. ASSUME NEW x \in SeqsOf(s, a) PROVE x \in SeqsOf(t, a)
      BY <1>1, <2>1 DEF SeqsOf
    <2>5. tx.from = a => tx.seq \in SeqsOf(t, a)
      BY <1>2, <2>2 DEF SeqsOf
    <2>6. QED
      BY <2>3, <2>4, <2>5
  <1>5. CASE tx.from # a
    BY <1>4, <1>5 DEF IsLast, t
  <1>6. CASE tx.from = a
    BY <1>3, <1>4, <1>6 DEF IsLast, t
  <1>7. QED
    BY <1>5, <1>6

LEMMA SameSeqs ==
    ASSUME NEW s, NEW t, NEW a, Len(s) = Len(t),
           \A i \in 1 .. Len(s) : s[i].from = t[i].from /\ s[i].seq = t[i].seq
    PROVE  LastSeq(s, a) = LastSeq(t, a)
  <1>1. SeqsOf(s, a) = SeqsOf(t, a)
    BY DEF SeqsOf
  <1>2. QED
    BY <1>1, Zenon DEF LastSeq, SeqsOf

-----------------------------------------------------------------------------
(* Medians.                                                                 *)

Below(s, v) == {i \in DOMAIN s : s[i] < v}

NotAbove(s, v) == {i \in DOMAIN s : s[i] <= v}

IsKth(s, k, v) ==
    v \in ToSet(s) /\ Cardinality(Below(s, v)) < k /\ k <= Cardinality(NotAbove(s, v))

LEMMA Counts ==
    ASSUME NEW n \in Nat, NEW s \in [1 .. n -> Nat], NEW v
    PROVE  /\ IsFiniteSet(Below(s, v)) /\ Cardinality(Below(s, v)) \in Nat
           /\ IsFiniteSet(NotAbove(s, v)) /\ Cardinality(NotAbove(s, v)) \in Nat
  <1>1. IsFiniteSet(1 .. n)
    BY FS_Interval
  <1>2. Below(s, v) \subseteq 1 .. n /\ NotAbove(s, v) \subseteq 1 .. n
    BY DEF Below, NotAbove
  <1>3. QED
    BY <1>1, <1>2, FS_Subset, FS_CardinalityType

LEMMA Bounded ==
    ASSUME NEW n \in Nat, NEW s \in [1 .. n -> Nat]
    PROVE  \E b \in Nat : \A i \in 1 .. n : s[i] <= b
  <1> DEFINE S == {k \in 0 .. n : \E b \in Nat : \A i \in 1 .. k : s[i] <= b}
  <1>1. 0 \in S
    OBVIOUS
  <1>2. ASSUME NEW k \in 1 .. n, k - 1 \in S PROVE k \in S
    <2>1. PICK b \in Nat : \A i \in 1 .. k - 1 : s[i] <= b
      BY <1>2
    <2>2. PICK c \in Nat : c >= b /\ c >= s[k]
      <3>1. b + s[k] \in Nat /\ b + s[k] >= b /\ b + s[k] >= s[k]
        BY <2>1
      <3>2. QED
        BY <3>1
    <2>3. \A i \in 1 .. k : s[i] <= c
      BY <2>1, <2>2
    <2>4. QED
      BY <2>3
  <1> HIDE DEF S
  <1>3. \A k \in 0 .. n : k \in S
    BY <1>1, <1>2, Induction
  <1>4. n \in S
    BY <1>3
  <1>5. QED
    BY <1>4 DEF S

LEMMA KthIs ==
    ASSUME NEW n \in Nat, NEW s \in [1 .. n -> Nat], NEW k \in 1 .. n
    PROVE  Kth(s, k) \in Nat /\ IsKth(s, k, Kth(s, k))
  <1> DEFINE G == {v \in Nat : k <= Cardinality(NotAbove(s, v))}
  <1>1. PICK b \in Nat : \A i \in 1 .. n : s[i] <= b
    BY Bounded
  <1>2. b \in G
    <2>1. NotAbove(s, b) = 1 .. n
      BY <1>1 DEF NotAbove
    <2>2. Cardinality(1 .. n) = n
      BY FS_Interval
    <2>3. QED
      BY <2>1, <2>2
  <1>3. PICK v \in G : \A w \in G : v <= w
    <2>1. G \in SUBSET Nat /\ G # {}
      BY <1>2
    <2> HIDE DEF G
    <2>2. QED
      BY <2>1, Least
  <1>4. Cardinality(Below(s, v)) < k
    <2>1. CASE v = 0
      <3>1. Below(s, v) = {}
        BY <2>1 DEF Below
      <3>2. Cardinality(Below(s, v)) = 0
        BY <3>1, FS_EmptySet, Zenon
      <3>3. QED
        BY <3>2
    <2>2. CASE v # 0
      <3>1. PICK w \in Nat : v = w + 1
        <4>1. v - 1 \in Nat /\ v = (v - 1) + 1
          BY <2>2
        <4>2. QED
          BY <4>1
      <3>2. w \notin G
        BY <1>3, <3>1
      <3>3. Below(s, v) = NotAbove(s, w)
        BY <3>1 DEF Below, NotAbove
      <3>4. ~ (k <= Cardinality(NotAbove(s, w))) /\ Cardinality(NotAbove(s, w)) \in Nat
        BY <3>2, Counts
      <3>5. QED
        BY <3>3, <3>4
    <2>3. QED
      BY <2>1, <2>2
  <1>5. k <= Cardinality(NotAbove(s, v))
    OBVIOUS
  <1>6. v \in ToSet(s)
    <2>1. Below(s, v) # NotAbove(s, v)
      <3>1. Cardinality(Below(s, v)) \in Nat /\ Cardinality(NotAbove(s, v)) \in Nat
        BY Counts
      <3>2. Cardinality(Below(s, v)) # Cardinality(NotAbove(s, v))
        BY <1>4, <1>5, <3>1
      <3>3. QED
        BY <3>2, Zenon
    <2>2. PICK i \in 1 .. n : s[i] = v
      BY <2>1 DEF Below, NotAbove
    <2>3. DOMAIN s = 1 .. n
      OBVIOUS
    <2>4. QED
      BY <2>2, <2>3 DEF ToSet
  <1>7. IsKth(s, k, v)
    BY <1>4, <1>5, <1>6 DEF IsKth
  <1>8. IsKth(s, k, Kth(s, k))
    <2>1. Kth(s, k) = CHOOSE x \in ToSet(s) : IsKth(s, k, x)
      BY Zenon DEF Kth, IsKth, Below, NotAbove
    <2>2. QED
      BY <1>7, <2>1, Zenon DEF IsKth
  <1>9. ToSet(s) \subseteq Nat
    BY DEF ToSet
  <1>10. QED
    BY <1>8, <1>9 DEF IsKth

LEMMA KthAtLeast ==
    ASSUME NEW n \in Nat, NEW s \in [1 .. n -> Nat], NEW k \in 1 .. n,
           NEW v \in Nat, Cardinality(Below(s, v)) < k
    PROVE  Kth(s, k) >= v
  <1> DEFINE w == Kth(s, k)
  <1>1. w \in Nat /\ k <= Cardinality(NotAbove(s, w))
    BY KthIs DEF IsKth
  <1> HIDE DEF w
  <1>2. SUFFICES ASSUME w < v PROVE FALSE
    BY <1>1 DEF w
  <1>3. NotAbove(s, w) \subseteq Below(s, v)
    BY <1>1, <1>2 DEF NotAbove, Below
  <1>4. /\ Cardinality(NotAbove(s, w)) <= Cardinality(Below(s, v))
        /\ Cardinality(NotAbove(s, w)) \in Nat /\ Cardinality(Below(s, v)) \in Nat
    BY <1>3, Counts, FS_Subset
  <1>5. QED
    BY <1>1, <1>4

LEMMA RoundedHalfBounds ==
    ASSUME NEW a \in Nat, NEW b \in Nat, a <= b
    PROVE  /\ RoundedHalf(a + b) \in Nat
           /\ a <= RoundedHalf(a + b) /\ RoundedHalf(a + b) <= b
  BY DEF RoundedHalf

\* One more number, no less than the median, does not lower the median.
LEMMA MedianGrows ==
    ASSUME NEW n \in Nat \ {0}, NEW s \in [1 .. n -> Nat],
           NEW m, m = n + 1, NEW t \in [1 .. m -> Nat],
           \A i \in 1 .. n : t[i] = s[i], t[m] >= Median(s)
    PROVE  Median(s) \in Nat /\ Median(t) >= Median(s)
  <1>1. Len(s) = n /\ Len(t) = m /\ m \in Nat
    OBVIOUS
  <1>2. ASSUME NEW v \in Nat, t[m] >= v PROVE Below(t, v) = Below(s, v)
    BY <1>2 DEF Below
  <1>3. CASE n % 2 = 1
    <2>1. PICK h \in Nat : n = 2 * h + 1
      <3>1. n = 2 * (n \div 2) + 1 /\ n \div 2 \in Nat
        BY <1>3
      <3>2. QED
        BY <3>1
    <2>2. n \div 2 = h /\ m % 2 # 1 /\ m \div 2 = h + 1
      BY <2>1
    <2> DEFINE v == Kth(s, h + 1)
               a == Kth(t, h + 1)
               b == Kth(t, h + 2)
    <2>3. Median(s) = v /\ Median(t) = RoundedHalf(a + b)
      <3>1. Median(s) = v
        BY <1>1, <1>3, <2>2 DEF Median
      <3>2. (h + 1) + 1 = h + 2
        BY <2>1
      <3>3. Median(t) = RoundedHalf(a + b)
        BY <1>1, <2>2, <3>2 DEF Median
      <3>4. QED
        BY <3>1, <3>3
    <2>4. h + 1 \in 1 .. n /\ h + 1 \in 1 .. m /\ h + 2 \in 1 .. m
      BY <2>1
    <2>5. v \in Nat /\ Cardinality(Below(s, v)) < h + 1
      BY <2>4, KthIs DEF IsKth
    <2>6. Cardinality(Below(t, v)) < h + 1 /\ Cardinality(Below(t, v)) < h + 2
      <3>1. Below(t, v) = Below(s, v)
        BY <1>2, <2>3, <2>5
      <3>2. Cardinality(Below(s, v)) \in Nat
        BY Counts
      <3> HIDE DEF v
      <3>3. QED
        BY <2>5, <3>1, <3>2
    <2>7. a \in Nat /\ b \in Nat /\ a >= v /\ b >= v
      <3>1. a \in Nat /\ b \in Nat
        BY <1>1, <2>4, KthIs
      <3>2. a >= v
        BY <1>1, <2>4, <2>5, <2>6, KthAtLeast
      <3>3. b >= v
        BY <1>1, <2>4, <2>5, <2>6, KthAtLeast
      <3>4. QED
        BY <3>1, <3>2, <3>3
    <2> HIDE DEF v, a, b
    <2>8. RoundedHalf(a + b) \in Nat /\ RoundedHalf(a + b) >= v
      BY <2>5, <2>7 DEF RoundedHalf
    <2>9. QED
      BY <2>3, <2>5, <2>8
  <1>4. CASE n % 2 # 1
    <2>1. PICK h \in Nat : n = 2 * h /\ h > 0
      <3>1. n = 2 * (n \div 2) /\ n \div 2 \in Nat /\ n \div 2 > 0
        BY <1>4
      <3>2. QED
        BY <3>1
    <2>2. n \div 2 = h /\ m % 2 = 1 /\ m \div 2 = h
      BY <2>1
    <2> DEFINE a == Kth(s, h)
               b == Kth(s, h + 1)
               v == RoundedHalf(a + b)
               w == Kth(t, h + 1)
    <2>3. Median(s) = v /\ Median(t) = w
      BY <1>1, <1>4, <2>2 DEF Median
    <2>4. h \in 1 .. n /\ h + 1 \in 1 .. n /\ h + 1 \in 1 .. m
      BY <2>1
    <2>5. /\ a \in Nat /\ Cardinality(Below(s, a)) < h
          /\ b \in Nat /\ Cardinality(Below(s, b)) < h + 1
      <3>1. a \in Nat /\ Cardinality(Below(s, a)) < h
        BY <2>4, KthIs DEF IsKth
      <3>2. b \in Nat /\ Cardinality(Below(s, b)) < h + 1
        BY <2>4, KthIs DEF IsKth
      <3>3. QED
        BY <3>1, <3>2
    <2>6. b >= a
      <3>1. Cardinality(Below(s, a)) < h + 1
        <4>1. Cardinality(Below(s, a)) \in Nat
          BY Counts
        <4> HIDE DEF a
        <4>2. QED
          BY <2>5, <4>1
      <3>2. QED
        BY <2>4, <2>5, <3>1, KthAtLeast
    <2>7. v \in Nat /\ v <= b
      <3> HIDE DEF a, b
      <3>1. QED
        BY <2>5, <2>6, RoundedHalfBounds
    <2>8. Cardinality(Below(t, v)) < h + 1
      <3>1. Below(t, v) = Below(s, v)
        BY <1>2, <2>3, <2>7
      <3> HIDE DEF v, b
      <3>2. Below(s, v) \subseteq Below(s, b)
        BY <2>5, <2>7 DEF Below
      <3>3. /\ Cardinality(Below(s, v)) <= Cardinality(Below(s, b))
            /\ Cardinality(Below(s, v)) \in Nat /\ Cardinality(Below(s, b)) \in Nat
        BY <3>2, Counts, FS_Subset
      <3>4. QED
        BY <2>5, <3>1, <3>3
    <2>9. w >= v
      <3> HIDE DEF v
      <3>1. QED
        BY <1>1, <2>4, <2>7, <2>8, KthAtLeast
    <2>10. QED
      BY <2>3, <2>7, <2>9
  <1>5. QED
    BY <1>3, <1>4

LEMMA MedianInt ==
    ASSUME NEW n \in Nat \ {0}, NEW s \in [1 .. n -> Nat]
    PROVE  Median(s) \in Nat
  <1>1. Len(s) = n
    OBVIOUS
  <1>2. CASE n % 2 = 1
    <2>1. PICK k \in 1 .. n : k = n \div 2 + 1
      <3>1. n \div 2 + 1 \in 1 .. n
        BY <1>2
      <3>2. QED
        BY <3>1
    <2>2. Median(s) = Kth(s, k)
      BY <1>1, <1>2, <2>1 DEF Median
    <2>3. QED
      BY <2>2, KthIs
  <1>3. CASE n % 2 # 1
    <2>1. PICK k \in 1 .. n, l \in 1 .. n : k = n \div 2 /\ l = n \div 2 + 1
      <3>1. n \div 2 \in 1 .. n /\ n \div 2 + 1 \in 1 .. n
        BY <1>3
      <3>2. QED
        BY <3>1
    <2> DEFINE a == Kth(s, k)
               b == Kth(s, l)
    <2>2. Median(s) = RoundedHalf(a + b)
      BY <1>1, <1>3, <2>1 DEF Median
    <2>3. a \in Nat /\ b \in Nat
      BY KthIs
    <2> HIDE DEF a, b
    <2>4. RoundedHalf(a + b) \in Nat
      BY <2>3 DEF RoundedHalf
    <2>5. QED
      BY <2>2, <2>4
  <1>4. QED
    BY <1>2, <1>3

-----------------------------------------------------------------------------
(* What the checks of a block establish: each transaction of a chain that   *)
(* validates was allowed by those ahead of it.                              *)

Allowed(seen, tx) ==
    \/ tx.from = Coinbase /\ tx.amount = Reward
    \/ /\ tx.from # Coinbase /\ tx.amount > 0
       /\ Fresh(seen, tx) /\ Balance(seen, tx.from) >= tx.amount

Sound(s) == \A n \in 1 .. Len(s) : Allowed(SubSeq(s, 1, n - 1), s[n])

LEMMA SkippedTx ==
    ASSUME NEW tx \in Transactions
    PROVE  /\ Skipped(tx) \in Transactions
           /\ Skipped(tx).from = tx.from /\ Skipped(tx).to = tx.to
           /\ Skipped(tx).seq = tx.seq
           /\ Skipped(tx).amount = IF tx.from = Coinbase THEN 0 ELSE tx.amount
  <1>1. tx = [from |-> tx.from, to |-> tx.to, amount |-> tx.amount, seq |-> tx.seq,
              sig |-> tx.sig]
        /\ tx.from \in Accounts \cup {Coinbase} /\ tx.to \in Accounts
        /\ tx.amount \in Int /\ tx.seq \in Int /\ tx.sig \in Payloads \cup {<<>>}
    BY DEF Transactions
  <1>2. [tx EXCEPT !.amount = 0]
          = [from |-> tx.from, to |-> tx.to, amount |-> 0, seq |-> tx.seq, sig |-> tx.sig]
    BY <1>1
  <1>3. [from |-> tx.from, to |-> tx.to, amount |-> 0, seq |-> tx.seq, sig |-> tx.sig]
          \in Transactions
    BY <1>1 DEF Transactions
  <1>4. QED
    BY <1>2, <1>3 DEF Skipped

\* The transfers a check looks at, and all that are there: it may underestimate
\* a balance (by a reward it passes over), never anything else.
LEMMA SeenEnough ==
    ASSUME NEW bs, NEW txs \in Seq(Transactions),
           TxsOf(bs) \in Seq(Transactions), CheckTxs(bs, txs),
           NEW i \in 1 .. Len(txs), NEW p, p = TxsOf(bs) \o SubSeq(txs, 1, i - 1)
    PROVE  Allowed(p, txs[i])
  <1> DEFINE s == TxsOf(bs)
             v == [j \in 1 .. i - 1 |-> Skipped(txs[j])]
             w == SubSeq(txs, 1, i - 1)
             q == Seen(bs, txs, i)
             tx == txs[i]
  <1>1. \A j \in 1 .. Len(txs) : txs[j] \in Transactions
    OBVIOUS
  <1>2. /\ w \in Seq(Transactions) /\ Len(w) = i - 1
        /\ \A j \in 1 .. i - 1 : w[j] = txs[j]
    OBVIOUS
  <1>3. \A j \in 1 .. i - 1 : Skipped(txs[j]) \in Transactions
    BY <1>1, SkippedTx
  <1>4. v \in Seq(Transactions) /\ Len(v) = i - 1
    BY <1>3
  <1>5. q = s \o v /\ p = s \o w
    BY DEF Seen
  <1>6. ASSUME tx.from # Coinbase
        PROVE  tx.amount > 0 /\ Fresh(q, tx) /\ Balance(q, tx.from) >= tx.amount
    BY <1>6, Zenon DEF CheckTxs
  <1>7. \A j \in 1 .. Len(txs) : VerifyTx(txs[j])
    BY Zenon DEF CheckTxs
  <1>8. ASSUME tx.from # Coinbase PROVE Balance(q, tx.from) <= Balance(p, tx.from)
    <2> DEFINE a == tx.from
    <2>1. ASSUME NEW j \in 1 .. i - 1 PROVE Gain(v[j], a) <= Gain(w[j], a)
      <3>1. txs[j] \in Transactions /\ VerifyTx(txs[j]) /\ w[j] = txs[j] /\ v[j] = Skipped(txs[j])
        BY <1>1, <1>2, <1>7
      <3>2. a # Coinbase
        BY <1>8
      <3>3. Gain(Skipped(txs[j]), a) <= Gain(txs[j], a)
        <4>1. /\ Skipped(txs[j]).from = txs[j].from /\ Skipped(txs[j]).to = txs[j].to
              /\ Skipped(txs[j]).amount
                    = IF txs[j].from = Coinbase THEN 0 ELSE txs[j].amount
          BY <3>1, SkippedTx
        <4>2. txs[j].amount \in Int /\ (txs[j].from = Coinbase => txs[j].amount >= 0)
          <5>1. txs[j].amount \in Int
            BY <3>1 DEF Transactions
          <5>2. txs[j].from = Coinbase => txs[j].amount = Reward
            BY <3>1, Zenon DEF VerifyTx
          <5>3. QED
            BY <5>1, <5>2, RewardAssumption
        <4> HIDE DEF a
        <4>3. CASE txs[j].from = Coinbase
          BY <3>2, <4>1, <4>2, <4>3 DEF Gain
        <4>4. CASE txs[j].from # Coinbase
          BY <4>1, <4>2, <4>4 DEF Gain
        <4>5. QED
          BY <4>3, <4>4
      <3>4. QED
        BY <3>1, <3>3
    <2>2. Balance(v, a) <= Balance(w, a)
      <3> HIDE DEF v, w, a
      <3>1. QED
        BY <1>2, <1>4, <2>1, BalanceLeq
    <2>3. /\ IsSum(Balance(q, a), Balance(s, a), Balance(v, a))
          /\ IsSum(Balance(p, a), Balance(s, a), Balance(w, a))
      <3> HIDE DEF v, w, a, q
      <3>1. QED
        BY <1>2, <1>4, <1>5, BalanceConcat
    <2>4. QED
      BY <2>2, <2>3 DEF IsSum
  <1>9. LastSeq(q, tx.from) = LastSeq(p, tx.from)
    <2>1. Len(q) = Len(p)
      BY <1>2, <1>4, <1>5
    <2>2. ASSUME NEW j \in 1 .. Len(q) PROVE q[j].from = p[j].from /\ q[j].seq = p[j].seq
      <3>1. CASE j \in 1 .. Len(s)
        BY <1>2, <1>4, <1>5, <3>1
      <3>2. CASE j \notin 1 .. Len(s)
        <4>1. Len(q) = Len(s) + (i - 1) /\ Len(s) \in Nat
          BY <1>4, <1>5
        <4>2. PICK k \in 1 .. i - 1 : j = Len(s) + k
          <5>1. j - Len(s) \in 1 .. i - 1 /\ j = Len(s) + (j - Len(s))
            BY <3>2, <4>1
          <5> HIDE DEF s
          <5>2. QED
            BY <5>1
        <4>3. q[j] = v[k] /\ p[j] = w[k]
          <5>1. (s \o v)[Len(s) + k] = v[k]
            BY <1>4
          <5>2. (s \o w)[Len(s) + k] = w[k]
            BY <1>2
          <5>3. QED
            BY <1>5, <4>2, <5>1, <5>2
        <4>4. v[k] = Skipped(txs[k]) /\ w[k] = txs[k] /\ txs[k] \in Transactions
          BY <1>1, <1>2
        <4>5. Skipped(txs[k]).from = txs[k].from /\ Skipped(txs[k]).seq = txs[k].seq
          BY <4>4 DEF Skipped, Transactions
        <4>6. QED
          BY <4>3, <4>4, <4>5
      <3>3. QED
        BY <3>1, <3>2
    <2> DEFINE a == tx.from
    <2> HIDE DEF q, a
    <2>3. LastSeq(q, a) = LastSeq(p, a)
      BY <2>1, <2>2, SameSeqs
    <2>4. QED
      BY <2>3 DEF a
  <1>10. CASE tx.from = Coinbase
    BY <1>7, <1>10 DEF Allowed, VerifyTx
  <1>11. CASE tx.from # Coinbase
    <2>1. Fresh(p, tx)
      BY <1>6, <1>9, <1>11 DEF Fresh
    <2>2. Balance(p, tx.from) >= tx.amount
      <3>1. Balance(q, tx.from) \in Int /\ Balance(p, tx.from) \in Int
        <4>1. q \in Seq(Transactions) /\ p \in Seq(Transactions)
          BY <1>2, <1>4, <1>5
        <4>2. QED
          BY <4>1, BalanceInt
      <3>2. tx.amount \in Int
        BY <1>1 DEF Transactions
      <3>3. Balance(q, tx.from) >= tx.amount /\ Balance(q, tx.from) <= Balance(p, tx.from)
        BY <1>6, <1>8, <1>11
      <3> HIDE DEF q, tx
      <3>4. QED
        BY <3>1, <3>2, <3>3
    <2>3. QED
      BY <1>6, <1>11, <2>1, <2>2 DEF Allowed
  <1>12. QED
    BY <1>10, <1>11

LEMMA BlockSound ==
    ASSUME NEW bs, NEW txs \in Seq(Transactions),
           TxsOf(bs) \in Seq(Transactions), CheckTxs(bs, txs), Sound(TxsOf(bs))
    PROVE  Sound(TxsOf(bs) \o txs)
  <1> DEFINE s == TxsOf(bs)
             t == s \o txs
  <1>1. ASSUME NEW n \in 1 .. Len(t) PROVE Allowed(SubSeq(t, 1, n - 1), t[n])
    <2>1. CASE n \in 1 .. Len(s)
      <3>1. SubSeq(t, 1, n - 1) = SubSeq(s, 1, n - 1) /\ t[n] = s[n]
        BY <2>1
      <3>2. QED
        BY <2>1, <3>1 DEF Sound
    <2>2. CASE n \notin 1 .. Len(s)
      <3>1. PICK i \in 1 .. Len(txs) : n = Len(s) + i
        <4>1. /\ n - Len(s) \in 1 .. Len(txs) /\ n = Len(s) + (n - Len(s))
          <5>1. Len(t) = Len(s) + Len(txs) /\ Len(s) \in Nat /\ Len(txs) \in Nat
            OBVIOUS
          <5>2. QED
            BY <2>2, <5>1
        <4> HIDE DEF s
        <4>2. QED
          BY <4>1
      <3>2. SubSeq(t, 1, n - 1) = s \o SubSeq(txs, 1, i - 1) /\ t[n] = txs[i]
        BY <3>1
      <3>3. QED
        BY <3>2, SeenEnough
    <2>3. QED
      BY <2>1, <2>2
  <1>2. QED
    BY <1>1 DEF Sound

-----------------------------------------------------------------------------
(* What soundness means for every account, along the transactions.          *)

Own(s, n, a) == {m \in 1 .. n : s[m].from = a}

\* After n transactions: nothing is overdrawn, and the highest number used is
\* one less than how many have been.
InOrder(s, n, a) ==
    /\ Balance(SubSeq(s, 1, n), a) >= 0
    /\ IsLast(SubSeq(s, 1, n), a, Cardinality(Own(s, n, a)) - 1)

LEMMA OwnStep ==
    ASSUME NEW s, NEW n \in Nat \ {0}, NEW a
    PROVE  /\ Cardinality(Own(s, n - 1, a)) \in Nat
           /\ Cardinality(Own(s, n, a))
                = Cardinality(Own(s, n - 1, a)) + (IF s[n].from = a THEN 1 ELSE 0)
  <1>1. IsFiniteSet(1 .. n - 1)
    BY FS_Interval
  <1>2. IsFiniteSet(Own(s, n - 1, a)) /\ n \notin Own(s, n - 1, a)
    BY <1>1, FS_Subset DEF Own
  <1>3. Cardinality(Own(s, n - 1, a)) \in Nat
    BY <1>2, FS_CardinalityType
  <1>4. CASE s[n].from = a
    <2>1. Own(s, n, a) = Own(s, n - 1, a) \cup {n}
      BY <1>4 DEF Own
    <2>2. QED
      BY <1>2, <1>3, <1>4, <2>1, FS_AddElement
  <1>5. CASE s[n].from # a
    <2>1. Own(s, n, a) = Own(s, n - 1, a)
      BY <1>5 DEF Own
    <2>2. QED
      BY <1>3, <1>5, <2>1
  <1>6. QED
    BY <1>4, <1>5

LEMMA InOrderStep ==
    ASSUME NEW s \in Seq(Transactions), NEW n \in 1 .. Len(s), NEW a \in Accounts,
           Allowed(SubSeq(s, 1, n - 1), s[n]), InOrder(s, n - 1, a)
    PROVE  InOrder(s, n, a)
  <1> DEFINE p == SubSeq(s, 1, n - 1)
             tx == s[n]
             count == Cardinality(Own(s, n - 1, a))
  <1>1. p \in Seq(Transactions) /\ tx \in Transactions /\ SubSeq(s, 1, n) = p \o <<tx>>
    OBVIOUS
  <1>2. /\ count \in Nat
        /\ Cardinality(Own(s, n, a)) = count + (IF tx.from = a THEN 1 ELSE 0)
    BY OwnStep
  <1>3. Balance(p, a) >= 0 /\ IsLast(p, a, count - 1)
    BY DEF InOrder
  <1>4. IsSum(Balance(p \o <<tx>>, a), Balance(p, a), Gain(tx, a))
    <2>1. <<tx>> \in Seq(Transactions) /\ Balance(<<tx>>, a) = Gain(tx, a)
      BY <1>1, BalanceOne
    <2>2. IsSum(Balance(p \o <<tx>>, a), Balance(p, a), Balance(<<tx>>, a))
      <3> HIDE DEF p, tx
      <3>1. QED
        BY <1>1, <2>1, BalanceConcat
    <2>3. QED
      BY <2>1, <2>2
  <1>5. a # Coinbase
    BY CoinbaseAssumption
  <1>6. tx.amount \in Int /\ tx.seq \in Int
    BY <1>1 DEF Transactions
  <1>7. Allowed(p, tx)
    OBVIOUS
  <1> HIDE DEF p, tx, count
  <1>8. Balance(p \o <<tx>>, a) >= 0
    <2>1. CASE tx.from = a
      <3>1. tx.amount > 0 /\ Balance(p, a) >= tx.amount
        BY <1>5, <1>7, <2>1 DEF Allowed
      <3>2. Gain(tx, a) = (IF tx.to = a THEN tx.amount ELSE 0) - tx.amount
        BY <2>1 DEF Gain
      <3>3. QED
        BY <1>4, <1>6, <3>1, <3>2 DEF IsSum
    <2>2. CASE tx.from # a
      <3>1. tx.amount > 0
        BY <1>7, RewardAssumption DEF Allowed
      <3>2. Gain(tx, a) = IF tx.to = a THEN tx.amount ELSE 0
        BY <1>6, <2>2 DEF Gain
      <3>3. QED
        BY <1>3, <1>4, <1>6, <3>1, <3>2 DEF IsSum
    <2>3. QED
      BY <2>1, <2>2
  <1>9. IsLast(p \o <<tx>>, a, (count + (IF tx.from = a THEN 1 ELSE 0)) - 1)
    <2>1. CASE tx.from = a
      <3>1. tx.seq = LastSeq(p, a) + 1
        BY <1>5, <1>7, <2>1 DEF Allowed, Fresh
      <3>2. LastSeq(p, a) = count - 1
        BY <1>1, <1>3, LastIs
      <3>3. tx.seq = count /\ tx.seq > count - 1
        BY <1>2, <3>1, <3>2
      <3>4. IsLast(p \o <<tx>>, a, tx.seq)
        <4>1. count - 1 \in Int
          BY <1>2
        <4>2. QED
          BY <1>1, <1>3, <2>1, <3>3, <4>1, LastAppend
      <3>5. (count + (IF tx.from = a THEN 1 ELSE 0)) - 1 = tx.seq
        BY <1>2, <2>1, <3>3
      <3>6. QED
        BY <3>4, <3>5
    <2>2. CASE tx.from # a
      <3>1. count - 1 \in Int /\ (count + (IF tx.from = a THEN 1 ELSE 0)) - 1 = count - 1
        BY <1>2, <2>2
      <3>2. IsLast(p \o <<tx>>, a, count - 1)
        BY <1>1, <1>3, <2>2, <3>1, LastAppend
      <3>3. QED
        BY <3>1, <3>2
    <2>3. QED
      BY <2>1, <2>2
  <1>10. QED
    BY <1>1, <1>2, <1>8, <1>9 DEF InOrder

LEMMA SoundInOrder ==
    ASSUME NEW s \in Seq(Transactions), Sound(s), NEW a \in Accounts
    PROVE  \A n \in 0 .. Len(s) : InOrder(s, n, a)
  <1> DEFINE l == Len(s)
             S == {n \in 0 .. l : InOrder(s, n, a)}
  <1>1. 0 \in S
    <2>1. SubSeq(s, 1, 0) = <<>> /\ Own(s, 0, a) = {}
      BY DEF Own
    <2>2. Balance(<<>>, a) = 0
      <3>1. PICK tx : tx \in Transactions
        <4>1. [from |-> a, to |-> a, amount |-> 0, seq |-> 0, sig |-> <<>>] \in Transactions
          BY DEF Transactions
        <4>2. QED
          BY <4>1
      <3>2. QED
        BY <3>1, BalanceOne
    <2>3. IsLast(<<>>, a, -1)
      BY DEF IsLast, SeqsOf
    <2>4. Cardinality(Own(s, 0, a)) - 1 = -1
      <3>1. Cardinality(Own(s, 0, a)) = 0
        BY <2>1, FS_EmptySet, Zenon
      <3>2. QED
        BY <3>1
    <2>5. InOrder(s, 0, a)
      <3>1. Balance(SubSeq(s, 1, 0), a) >= 0
        <4>1. Balance(SubSeq(s, 1, 0), a) = 0
          BY <2>1, <2>2, Zenon
        <4>2. QED
          BY <4>1
      <3>2. IsLast(SubSeq(s, 1, 0), a, Cardinality(Own(s, 0, a)) - 1)
        BY <2>1, <2>3, <2>4, Zenon
      <3>3. QED
        BY <3>1, <3>2 DEF InOrder
    <2>6. QED
      BY <2>5
  <1>2. ASSUME NEW n \in 1 .. l, n - 1 \in S PROVE n \in S
    <2>1. Allowed(SubSeq(s, 1, n - 1), s[n])
      BY DEF Sound
    <2>2. InOrder(s, n, a)
      BY <1>2, <2>1, InOrderStep
    <2>3. QED
      BY <2>2
  <1>3. l \in Nat
    OBVIOUS
  <1> HIDE DEF S, l
  <1>4. \A n \in 0 .. l : n \in S
    BY <1>1, <1>2, <1>3, Induction
  <1>5. QED
    BY <1>4 DEF S, l

-----------------------------------------------------------------------------
(* Chains that validate.                                                    *)

\* The blocks of a chain hold transactions, the genesis block none.
Holds(bs) ==
    /\ \E S : bs \in Seq(S)
    /\ Len(bs) > 0 /\ bs[1].txs = <<>>
    /\ \A i \in 1 .. Len(bs) : bs[i].txs \in Seq(Transactions)

\* The transactions of the first k blocks of a chain.
UpTo(bs, k) == TxsOf(SubSeq(bs, 1, k))

LEMMA UpToSteps ==
    ASSUME NEW bs, Holds(bs), NEW k \in 1 .. Len(bs)
    PROVE  /\ UpTo(bs, k) \in Seq(Transactions)
           /\ UpTo(bs, 1) = <<>>
           /\ k > 1 => UpTo(bs, k) = UpTo(bs, k - 1) \o bs[k].txs
  <1>1. PICK S : bs \in Seq(S)
    BY DEF Holds
  <1>2. \A i \in 1 .. Len(bs) : bs[i].txs \in Seq(Transactions)
    BY DEF Holds
  <1>3. ASSUME NEW m \in 1 .. Len(bs)
        PROVE  /\ UpTo(bs, m) \in Seq(Transactions)
               /\ m = 1 => UpTo(bs, m) = bs[m].txs
               /\ m > 1 => UpTo(bs, m) = UpTo(bs, m - 1) \o bs[m].txs
    BY <1>1, <1>2, TxsUpTo, Zenon DEF UpTo
  <1>4. 1 \in 1 .. Len(bs) /\ bs[1].txs = <<>>
    BY <1>1 DEF Holds
  <1>5. UpTo(bs, 1) = <<>>
    BY <1>3, <1>4
  <1>6. QED
    BY <1>3, <1>5

LEMMA WholeChain ==
    ASSUME NEW bs, Holds(bs)
    PROVE  /\ Len(bs) \in Nat /\ Len(bs) \in 1 .. Len(bs)
           /\ UpTo(bs, Len(bs)) = TxsOf(bs)
  <1>1. PICK S : bs \in Seq(S)
    BY DEF Holds
  <1>2. Len(bs) \in Nat /\ Len(bs) > 0 /\ SubSeq(bs, 1, Len(bs)) = bs
    BY <1>1 DEF Holds
  <1>3. UpTo(bs, Len(bs)) = TxsOf(bs)
    BY <1>2, Zenon DEF UpTo
  <1>4. QED
    BY <1>2, <1>3

\* Validate checks each block against all that is before it.
LEMMA Checked ==
    ASSUME NEW bs, Holds(bs), Validate(bs), NEW k \in 1 .. Len(bs), k > 1
    PROVE  CheckTxs(SubSeq(bs, 1, k - 1), bs[k].txs)
  BY Zenon DEF Validate, ValidBlock

LEMMA ValidSound ==
    ASSUME NEW bs, Holds(bs), Validate(bs)
    PROVE  TxsOf(bs) \in Seq(Transactions) /\ Sound(TxsOf(bs))
  <1> DEFINE l == Len(bs)
             S == {k \in 0 .. l : k > 0 => Sound(UpTo(bs, k))}
  <1>1. l \in Nat /\ l \in 1 .. l /\ UpTo(bs, l) = TxsOf(bs)
    BY WholeChain
  <1>2. 0 \in S
    BY <1>1
  <1>3. ASSUME NEW k \in 1 .. l, k - 1 \in S PROVE k \in S
    <2>1. CASE k = 1
      <3>1. UpTo(bs, k) = <<>>
        BY <2>1, UpToSteps
      <3>2. Sound(<<>>)
        BY DEF Sound
      <3>3. QED
        BY <3>1, <3>2
    <2>2. CASE k > 1
      <3>1. k - 1 \in 1 .. l /\ k - 1 > 0
        BY <2>2
      <3>2. /\ UpTo(bs, k - 1) \in Seq(Transactions)
            /\ UpTo(bs, k) = UpTo(bs, k - 1) \o bs[k].txs
        BY <2>2, <3>1, UpToSteps
      <3>3. Sound(UpTo(bs, k - 1)) /\ bs[k].txs \in Seq(Transactions)
        BY <1>3, <3>1 DEF Holds
      <3>4. CheckTxs(SubSeq(bs, 1, k - 1), bs[k].txs)
        BY <2>2, Checked
      <3>5. Sound(UpTo(bs, k))
        BY <3>2, <3>3, <3>4, BlockSound DEF UpTo
      <3>6. QED
        BY <3>5
    <2>3. QED
      BY <2>1, <2>2
  <1>4. l \in S
    <2> HIDE DEF S, l
    <2>1. \A k \in 0 .. l : k \in S
      BY <1>1, <1>2, <1>3, Induction
    <2>2. QED
      BY <1>1, <2>1
  <1>5. l > 0
    BY <1>1
  <1>6. QED
    BY <1>1, <1>4, <1>5, UpToSteps

-----------------------------------------------------------------------------
(* All balances together.                                                   *)

AllOf(s) ==
    LET who == SetToSeq(Accounts)
    IN  Total([i \in 1 .. Len(who) |-> Balance(s, who[i])])

\* Every account once.
Lists(who, n) ==
    /\ n \in Nat /\ who \in [1 .. n -> Accounts] /\ Len(who) = n
    /\ \A i, j \in 1 .. n : who[i] = who[j] => i = j
    /\ \A a \in Accounts : \E i \in 1 .. n : who[i] = a

LEMMA AccountsListed == \E n : Lists(SetToSeq(Accounts), n)
  <1> DEFINE n == Cardinality(Accounts)
             who == SetToSeq(Accounts)
  <1>1. n \in Nat /\ ExistsBijection(1 .. n, Accounts)
    BY AccountsAssumption, FS_CardinalityType
  <1>2. \E f \in [1 .. n -> Accounts] : IsInjective(f)
    BY <1>1 DEF ExistsBijection, Bijection, Injection
  <1>3. who \in [1 .. n -> Accounts] /\ IsInjective(who)
    <2>1. who = CHOOSE f \in [1 .. n -> Accounts] : IsInjective(f)
      BY DEF SetToSeq
    <2> HIDE DEF who, n
    <2>2. QED
      BY <1>2, <2>1, Zenon
  <1>4. who \in Surjection(1 .. n, Accounts)
    <2>1. who \in Injection(1 .. n, Accounts)
      BY <1>3 DEF Injection
    <2>2. Cardinality(1 .. n) = n
      <3> HIDE DEF n
      <3>1. QED
        BY <1>1, FS_Interval
    <2> HIDE DEF who
    <2>3. QED
      BY <2>1, <2>2, AccountsAssumption, FS_Injection
  <1> HIDE DEF who, n
  <1>5. Lists(who, n)
    BY <1>1, <1>3, <1>4 DEF Lists, IsInjective, Surjection
  <1>6. QED
    BY <1>5 DEF who

LEMMA Shares ==
    ASSUME NEW s \in Seq(Transactions), NEW n, Lists(SetToSeq(Accounts), n)
    PROVE  /\ n \in Nat
           /\ [i \in 1 .. n |-> Balance(s, SetToSeq(Accounts)[i])] \in [1 .. n -> Int]
           /\ AllOf(s) = Total([i \in 1 .. n |-> Balance(s, SetToSeq(Accounts)[i])])
  <1>1. n \in Nat /\ Len(SetToSeq(Accounts)) = n
    BY DEF Lists
  <1>2. \A i \in 1 .. n : Balance(s, SetToSeq(Accounts)[i]) \in Int
    BY BalanceInt
  <1>3. AllOf(s) = Total([i \in 1 .. n |-> Balance(s, SetToSeq(Accounts)[i])])
    BY <1>1, Zenon DEF AllOf
  <1>4. QED
    BY <1>1, <1>2, <1>3

LEMMA AllOfConcat ==
    ASSUME NEW s \in Seq(Transactions), NEW t \in Seq(Transactions)
    PROVE  IsSum(AllOf(s \o t), AllOf(s), AllOf(t))
  <1>1. PICK n : Lists(SetToSeq(Accounts), n)
    BY AccountsListed
  <1>2. PICK who : who = SetToSeq(Accounts)
    OBVIOUS
  <1> DEFINE g == [i \in 1 .. n |-> Balance(s, who[i])]
             h == [i \in 1 .. n |-> Balance(t, who[i])]
             u == [i \in 1 .. n |-> Balance(s \o t, who[i])]
  <1>3. n \in Nat /\ g \in [1 .. n -> Int] /\ AllOf(s) = Total(g)
    BY <1>1, <1>2, Shares
  <1>4. h \in [1 .. n -> Int] /\ AllOf(t) = Total(h)
    BY <1>1, <1>2, Shares
  <1>5. u \in [1 .. n -> Int] /\ AllOf(s \o t) = Total(u)
    <2>1. s \o t \in Seq(Transactions)
      OBVIOUS
    <2>2. QED
      BY <1>1, <1>2, <2>1, Shares
  <1>6. ASSUME NEW k \in 1 .. n PROVE u[k] = g[k] + h[k]
    <2>1. IsSum(Balance(s \o t, who[k]), Balance(s, who[k]), Balance(t, who[k]))
      BY BalanceConcat
    <2>2. QED
      BY <2>1 DEF IsSum
  <1> HIDE DEF g, h, u
  <1>7. IsSum(Total(u), Total(g), Total(h))
    BY <1>3, <1>4, <1>5, <1>6, TotalAdd
  <1>8. QED
    BY <1>3, <1>4, <1>5, <1>7

LEMMA AllOfNone == AllOf(<<>>) = 0
  <1>1. <<>> \in Seq(Transactions) /\ <<>> \o <<>> = <<>>
    OBVIOUS
  <1>2. IsSum(AllOf(<<>> \o <<>>), AllOf(<<>>), AllOf(<<>>))
    BY <1>1, AllOfConcat
  <1>3. IsSum(AllOf(<<>>), AllOf(<<>>), AllOf(<<>>))
    BY <1>1, <1>2, Zenon
  <1>4. QED
    BY <1>3 DEF IsSum

LEMMA TotalNone ==
    ASSUME NEW n \in Nat, NEW s \in [1 .. n -> Int], \A k \in 1 .. n : s[k] = 0
    PROVE  Total(s) = 0
  <1>1. \A k \in 1 .. n : s[k] = s[k] + s[k]
    OBVIOUS
  <1>2. IsSum(Total(s), Total(s), Total(s))
    BY <1>1, TotalAdd
  <1>3. QED
    BY <1>2 DEF IsSum

\* A transfer takes from one what it gives to another; a reward is money made.
LEMMA AllOfOne ==
    ASSUME NEW tx \in Transactions
    PROVE  AllOf(<<tx>>) = IF tx.from = Coinbase THEN tx.amount ELSE 0
  <1>1. PICK n : Lists(SetToSeq(Accounts), n)
    BY AccountsListed
  <1>2. PICK who : who = SetToSeq(Accounts)
    OBVIOUS
  <1> DEFINE g == [i \in 1 .. n |-> IF tx.to = who[i] THEN tx.amount ELSE 0]
             h == [i \in 1 .. n |-> IF tx.from = who[i] THEN 0 - tx.amount ELSE 0]
             u == [i \in 1 .. n |-> Balance(<<tx>>, who[i])]
  <1>3. n \in Nat /\ u \in [1 .. n -> Int] /\ AllOf(<<tx>>) = Total(u)
    <2>1. <<tx>> \in Seq(Transactions)
      OBVIOUS
    <2>2. QED
      BY <1>1, <1>2, <2>1, Shares
  <1>4. /\ tx.amount \in Int /\ tx.to \in Accounts
        /\ tx.from \in Accounts \cup {Coinbase}
    BY DEF Transactions
  <1>5. g \in [1 .. n -> Int] /\ h \in [1 .. n -> Int]
    BY <1>4
  <1>6. ASSUME NEW k \in 1 .. n PROVE u[k] = g[k] + h[k]
    <2>1. Balance(<<tx>>, who[k]) = Gain(tx, who[k])
      BY BalanceOne
    <2>2. QED
      BY <1>4, <2>1 DEF Gain
  <1>7. IsSum(Total(u), Total(g), Total(h))
    <2> HIDE DEF g, h, u
    <2>1. QED
      BY <1>3, <1>5, <1>6, TotalAdd
  <1>8. Total(g) = tx.amount
    <2>1. PICK i \in 1 .. n : who[i] = tx.to
      BY <1>1, <1>2, <1>4 DEF Lists
    <2>2. g[i] = tx.amount /\ \A k \in 1 .. n : k # i => g[k] = 0
      BY <1>1, <1>2, <2>1 DEF Lists
    <2> HIDE DEF g
    <2>3. QED
      BY <1>3, <1>5, <2>2, TotalOne
  <1>9. Total(h) = IF tx.from = Coinbase THEN 0 ELSE 0 - tx.amount
    <2>1. CASE tx.from = Coinbase
      <3>1. \A k \in 1 .. n : h[k] = 0
        BY <1>1, <1>2, <2>1, CoinbaseAssumption DEF Lists
      <3> HIDE DEF h
      <3>2. Total(h) = 0
        BY <1>3, <1>5, <3>1, TotalNone
      <3>3. QED
        BY <2>1, <3>2
    <2>2. CASE tx.from # Coinbase
      <3>1. PICK i \in 1 .. n : who[i] = tx.from
        BY <1>1, <1>2, <1>4, <2>2 DEF Lists
      <3>2. h[i] = 0 - tx.amount /\ \A k \in 1 .. n : k # i => h[k] = 0
        BY <1>1, <1>2, <3>1 DEF Lists
      <3> HIDE DEF h
      <3>3. Total(h) = h[i]
        BY <1>3, <1>5, <3>2, TotalOne
      <3>4. QED
        BY <2>2, <3>2, <3>3
    <2>3. QED
      BY <2>1, <2>2
  <1> HIDE DEF g, h, u
  <1>10. QED
    BY <1>3, <1>4, <1>7, <1>8, <1>9 DEF IsSum

\* A block that passes the checks makes one reward.
LEMMA BlockReward ==
    ASSUME NEW bs, NEW txs \in Seq(Transactions), CheckTxs(bs, txs)
    PROVE  AllOf(txs) = Reward
  <1>1. PICK i \in 1 .. Len(txs) :
           /\ txs[i].from = Coinbase
           /\ \A j \in 1 .. Len(txs) : txs[j].from = Coinbase => j = i
    BY Zenon DEF CheckTxs, OneCoinbase
  <1>2. txs[i].amount = Reward
    BY <1>1, Zenon DEF CheckTxs, VerifyTx
  <1> DEFINE l == Len(txs)
             S == {k \in 0 .. l : AllOf(SubSeq(txs, 1, k)) = IF k < i THEN 0 ELSE Reward}
  <1>3. l \in Nat /\ SubSeq(txs, 1, 0) = <<>> /\ SubSeq(txs, 1, l) = txs
    OBVIOUS
  <1>4. 0 \in S
    <2>1. AllOf(SubSeq(txs, 1, 0)) = 0
      BY <1>3, AllOfNone, Zenon
    <2>2. 0 < i /\ 0 \in 0 .. l
      BY <1>3
    <2>3. QED
      BY <2>1, <2>2
  <1>5. ASSUME NEW k \in 1 .. l, k - 1 \in S PROVE k \in S
    <2> DEFINE p == SubSeq(txs, 1, k - 1)
    <2>1. /\ p \in Seq(Transactions) /\ txs[k] \in Transactions
          /\ SubSeq(txs, 1, k) = p \o <<txs[k]>>
      OBVIOUS
    <2>2. <<txs[k]>> \in Seq(Transactions)
      BY <2>1
    <2>3. AllOf(<<txs[k]>>) = IF k = i THEN Reward ELSE 0
      <3>1. AllOf(<<txs[k]>>) = IF txs[k].from = Coinbase THEN txs[k].amount ELSE 0
        BY <2>1, AllOfOne
      <3>2. txs[k].from = Coinbase <=> k = i
        BY <1>1
      <3>3. QED
        BY <1>2, <3>1, <3>2
    <2>4. AllOf(p) = IF k - 1 < i THEN 0 ELSE Reward
      BY <1>5
    <2> HIDE DEF p
    <2>5. IsSum(AllOf(p \o <<txs[k]>>), AllOf(p), AllOf(<<txs[k]>>))
      BY <2>1, <2>2, AllOfConcat
    <2>6. AllOf(p \o <<txs[k]>>) = IF k < i THEN 0 ELSE Reward
      <3>1. CASE k = i
        BY <2>3, <2>4, <2>5, <3>1 DEF IsSum
      <3>2. CASE k < i
        BY <2>3, <2>4, <2>5, <3>2 DEF IsSum
      <3>3. CASE k > i
        BY <2>3, <2>4, <2>5, <3>3 DEF IsSum
      <3>4. QED
        BY <3>1, <3>2, <3>3
    <2>7. AllOf(SubSeq(txs, 1, k)) = IF k < i THEN 0 ELSE Reward
      BY <2>1, <2>6, Zenon
    <2>8. QED
      BY <2>7
  <1>6. l \in S
    <2> HIDE DEF S, l
    <2>1. \A k \in 0 .. l : k \in S
      BY <1>3, <1>4, <1>5, Induction
    <2>2. QED
      BY <1>3, <2>1
  <1>7. AllOf(SubSeq(txs, 1, l)) = Reward
    BY <1>6
  <1>8. QED
    BY <1>3, <1>7, Zenon

LEMMA ValidConserves ==
    ASSUME NEW bs, Holds(bs), Validate(bs)
    PROVE  AllOf(TxsOf(bs)) = Reward * (Len(bs) - 1)
  <1> DEFINE l == Len(bs)
             S == {k \in 0 .. l : k > 0 => AllOf(UpTo(bs, k)) = Reward * (k - 1)}
  <1>1. l \in Nat /\ l \in 1 .. l /\ UpTo(bs, l) = TxsOf(bs)
    BY WholeChain
  <1>2. 0 \in S
    BY <1>1
  <1>3. ASSUME NEW k \in 1 .. l, k - 1 \in S PROVE k \in S
    <2>1. CASE k = 1
      <3>1. UpTo(bs, k) = <<>>
        BY <2>1, UpToSteps
      <3>2. AllOf(UpTo(bs, k)) = 0
        BY <3>1, AllOfNone, Zenon
      <3>3. Reward * (k - 1) = 0
        BY <2>1, RewardAssumption
      <3>4. QED
        BY <3>2, <3>3
    <2>2. CASE k > 1
      <3>1. k - 1 \in 1 .. l /\ k - 1 > 0
        BY <2>2
      <3>2. /\ UpTo(bs, k - 1) \in Seq(Transactions)
            /\ UpTo(bs, k) = UpTo(bs, k - 1) \o bs[k].txs
        BY <2>2, <3>1, UpToSteps
      <3>3. AllOf(UpTo(bs, k - 1)) = Reward * ((k - 1) - 1)
        BY <1>3, <3>1
      <3>4. bs[k].txs \in Seq(Transactions)
        BY DEF Holds
      <3>5. AllOf(bs[k].txs) = Reward
        <4>1. CheckTxs(SubSeq(bs, 1, k - 1), bs[k].txs)
          BY <2>2, Checked
        <4>2. QED
          BY <3>4, <4>1, BlockReward
      <3>6. IsSum(AllOf(UpTo(bs, k)), AllOf(UpTo(bs, k - 1)), AllOf(bs[k].txs))
        <4>1. IsSum(AllOf(UpTo(bs, k - 1) \o bs[k].txs),
                    AllOf(UpTo(bs, k - 1)), AllOf(bs[k].txs))
          BY <3>2, <3>4, AllOfConcat
        <4>2. QED
          BY <3>2, <4>1, Zenon
      <3>7. Reward * ((k - 1) - 1) + Reward = Reward * (k - 1)
        BY RewardAssumption
      <3>8. AllOf(UpTo(bs, k)) = Reward * (k - 1)
        BY <3>3, <3>5, <3>6, <3>7, Zenon DEF IsSum
      <3>9. QED
        BY <3>8
    <2>3. QED
      BY <2>1, <2>2
  <1>4. l \in S
    <2> HIDE DEF S, l
    <2>1. \A k \in 0 .. l : k \in S
      BY <1>1, <1>2, <1>3, Induction
    <2>2. QED
      BY <1>1, <2>1
  <1>5. l > 0
    BY <1>1
  <1>6. QED
    BY <1>1, <1>4, <1>5

\* The books of a chain that validates are in order.
LEMMA ValidBooks ==
    ASSUME NEW bs, Holds(bs), Validate(bs)
    PROVE  AddsUp(bs) /\ NeverOverdrawn(bs) /\ InSequence(bs)
  <1> DEFINE s == TxsOf(bs)
  <1>1. s \in Seq(Transactions) /\ Sound(s)
    BY ValidSound
  <1>2. AddsUp(bs)
    BY ValidConserves DEF AddsUp, AllOf
  <1> HIDE DEF s
  <1>3. ASSUME NEW n \in 0 .. Len(s), NEW a \in Accounts
        PROVE  Balance(SubSeq(s, 1, n), a) >= 0
    <2>1. InOrder(s, n, a)
      BY <1>1, SoundInOrder
    <2>2. QED
      BY <2>1 DEF InOrder
  <1>4. ASSUME NEW n \in 1 .. Len(s), s[n].from # Coinbase
        PROVE  s[n].seq = Cardinality({m \in 1 .. n - 1 : s[m].from = s[n].from})
    <2>1. PICK a : a = s[n].from
      OBVIOUS
    <2>2. a \in Accounts /\ s[n].seq \in Int
      <3>1. s[n] \in Transactions
        BY <1>1
      <3>2. QED
        BY <1>4, <2>1, <3>1 DEF Transactions
    <2>3. s[n].seq = LastSeq(SubSeq(s, 1, n - 1), a) + 1
      BY <1>1, <1>4, <2>1 DEF Sound, Allowed, Fresh
    <2>4. PICK k : k = n - 1
      OBVIOUS
    <2>5. InOrder(s, k, a)
      <3>1. k \in 0 .. Len(s)
        BY <1>1, <2>4
      <3>2. QED
        BY <1>1, <2>2, <3>1, SoundInOrder
    <2>6. LastSeq(SubSeq(s, 1, k), a) = Cardinality(Own(s, k, a)) - 1
      <3>1. SubSeq(s, 1, k) \in Seq(Transactions)
        BY <1>1, <2>4
      <3>2. PICK c : c = Cardinality(Own(s, k, a)) - 1
        OBVIOUS
      <3>3. IsLast(SubSeq(s, 1, k), a, c)
        BY <2>5, <3>2 DEF InOrder
      <3>4. QED
        BY <3>1, <3>2, <3>3, LastIs
    <2>7. Cardinality(Own(s, k, a)) \in Nat
      <3>1. n \in Nat \ {0}
        BY <1>1
      <3>2. Cardinality(Own(s, n - 1, a)) \in Nat
        BY <3>1, OwnStep
      <3>3. QED
        BY <2>4, <3>2
    <2>8. s[n].seq = Cardinality(Own(s, k, a))
      BY <2>3, <2>4, <2>6, <2>7
    <2>9. QED
      BY <2>1, <2>4, <2>8 DEF Own
  <1>5. NeverOverdrawn(bs)
    BY <1>3 DEF NeverOverdrawn, s
  <1>6. InSequence(bs)
    BY <1>4, Zenon DEF InSequence, s
  <1>7. QED
    BY <1>2, <1>5, <1>6

-----------------------------------------------------------------------------
(* The difficulty.                                                          *)

QualitiesIn(bs) == [i \in 1 .. Len(bs) - 1 |-> bs[i + 1].seal.quality]

LEMMA DifficultyIs ==
    ASSUME NEW S, NEW bs \in Seq(S), Len(bs) > 0
    PROVE  Difficulty(bs) = IF Len(bs) = 1 THEN 0 ELSE Median(QualitiesIn(bs))
  <1>1. PICK n : n = Len(bs)
    OBVIOUS
  <1> DEFINE q == [i \in 1 .. n - 1 |-> bs[i + 1].seal.quality]
  <1>2. n \in Nat /\ n > 0
    BY <1>1
  <1>3. q = <<>> <=> n = 1
    <2>1. n = 1 => q = <<>>
      OBVIOUS
    <2>2. Len(q) = n - 1 /\ Len(<<>>) = 0
      BY <1>2
    <2> HIDE DEF q
    <2>3. n # 1 => Len(q) # 0
      BY <1>2, <2>2
    <2>4. QED
      BY <2>1, <2>2, <2>3, Zenon
  <1>4. Difficulty(bs) = IF q = <<>> THEN 0 ELSE Median(q)
    BY <1>1, Zenon DEF Difficulty, DifficultyAfter
  <1>5. q = QualitiesIn(bs)
    BY <1>1 DEF QualitiesIn
  <1> HIDE DEF q
  <1>6. QED
    BY <1>1, <1>3, <1>4, <1>5, Zenon

\* Where the target is reached, the next target is no lower.
LEMMA MineRaisesDifficulty ==
    ASSUME NEW S, NEW bs \in Seq(S), Len(bs) > 0, NEW b \in S,
           \A i \in 1 .. Len(bs) : bs[i].seal.quality \in Nat,
           b.seal.quality \in Nat, b.seal.quality >= Difficulty(bs)
    PROVE  Difficulty(Append(bs, b)) >= Difficulty(bs)
  <1> DEFINE cs == Append(bs, b)
             s == QualitiesIn(bs)
             t == QualitiesIn(cs)
  <1>1. PICK n \in Nat, m \in Nat : n = Len(bs) - 1 /\ m = n + 1
    OBVIOUS
  <1>2. /\ cs \in Seq(S) /\ Len(cs) = m + 1 /\ Len(bs) = m
        /\ cs[m + 1] = b /\ \A i \in 1 .. m : cs[i] = bs[i]
    BY <1>1
  <1> HIDE DEF cs
  <1>3. s \in [1 .. n -> Nat] /\ \A i \in 1 .. n : s[i] = bs[i + 1].seal.quality
    BY <1>1, <1>2 DEF QualitiesIn
  <1>4. t = [i \in 1 .. m |-> cs[i + 1].seal.quality]
    <2>1. Len(cs) - 1 = m
      BY <1>2
    <2>2. QED
      BY <2>1, Zenon DEF QualitiesIn
  <1>5. t[m] = b.seal.quality
    BY <1>1, <1>2, <1>4
  <1>6. \A i \in 1 .. n : t[i] = s[i]
    <2>1. ASSUME NEW i \in 1 .. n PROVE i \in 1 .. m /\ i + 1 \in 1 .. m
      BY <1>1
    <2>2. QED
      BY <1>2, <1>3, <1>4, <2>1
  <1>7. t \in [1 .. m -> Nat]
    <2>1. ASSUME NEW i \in 1 .. m PROVE cs[i + 1].seal.quality \in Nat
      <3>1. CASE i = m
        BY <1>2, <3>1
      <3>2. CASE i # m
        <4>1. i + 1 \in 1 .. m
          BY <3>2
        <4>2. QED
          BY <1>2, <4>1
      <3>3. QED
        BY <3>1, <3>2
    <2>2. QED
      BY <1>4, <2>1
  <1>8. Difficulty(cs) = Median(t)
    <2>1. Len(cs) > 0 /\ Len(cs) # 1
      BY <1>1, <1>2
    <2>2. QED
      BY <1>2, <2>1, DifficultyIs
  <1>9. Difficulty(bs) = IF n = 0 THEN 0 ELSE Median(s)
    <2>1. Difficulty(bs) = IF Len(bs) = 1 THEN 0 ELSE Median(s)
      BY DifficultyIs
    <2>2. Len(bs) = 1 <=> n = 0
      BY <1>1, <1>2
    <2> HIDE DEF s
    <2>3. QED
      BY <2>1, <2>2, Zenon
  <1> HIDE DEF s, t
  <1>10. CASE n = 0
    <2>1. m \in Nat \ {0}
      BY <1>1
    <2>2. Median(t) \in Nat
      BY <1>7, <2>1, MedianInt
    <2>3. QED
      BY <1>8, <1>9, <1>10, <2>2 DEF cs
  <1>11. CASE n # 0
    <2>1. t[m] >= Median(s)
      BY <1>5, <1>9, <1>11
    <2>2. Median(t) >= Median(s)
      BY <1>1, <1>3, <1>6, <1>7, <1>11, <2>1, MedianGrows
    <2>3. QED
      BY <1>8, <1>9, <1>11, <2>2 DEF cs
  <1>12. QED
    BY <1>10, <1>11

-----------------------------------------------------------------------------
(* Blocks.                                                                  *)

\* The seal is that of the block's header, the hash that of header and seal.
LEMMA SealedParts ==
    ASSUME NEW prev, NEW txs, NEW quality
    PROVE  LET b == SealedBlock(prev, txs, quality)
           IN  /\ b.prev = prev
               /\ b.txs = txs
               /\ b.seal.of = HeaderHash(b)
               /\ b.seal.quality = quality
               /\ b.hash = ComputeHash(b)
  BY DEF SealedBlock, HeaderHash, ComputeHash

\* A chain that validates still does with one more block on it, if that block
\* was sealed for its head and its difficulty and its transactions were
\* checked against it.
LEMMA ValidAppend ==
    ASSUME NEW S, NEW bs \in Seq(S), bs # <<>>, Validate(bs),
           NEW txs, NEW quality,
           CheckTxs(bs, txs), Seals(quality, Difficulty(bs)),
           NEW b \in S, b = SealedBlock(bs[Len(bs)].hash, txs, quality)
    PROVE  Validate(Append(bs, b))
  <1> DEFINE cs == Append(bs, b)
             n == Len(bs)
  <1>1. /\ n \in Nat \ {0} /\ Len(cs) = n + 1 /\ cs[n + 1] = b
        /\ cs \in Seq(S)
        /\ \A i \in 1 .. n : cs[i] = bs[i]
    OBVIOUS
  <1>2. ASSUME NEW upto \in 1 .. n
        PROVE  DifficultyAfter(cs, upto) = DifficultyAfter(bs, upto)
    <2>1. [i \in 1 .. upto - 1 |-> cs[i + 1].seal.quality]
            = [i \in 1 .. upto - 1 |-> bs[i + 1].seal.quality]
      BY <1>1
    <2>2. QED
      BY <2>1, Zenon DEF DifficultyAfter
  <1>3. ASSUME NEW i \in 1 .. n PROVE SubSeq(cs, 1, i) = SubSeq(bs, 1, i)
    BY <1>1
  <1>4. SubSeq(cs, 1, n) = bs
    BY <1>1
  <1>5. ASSUME NEW i \in 1 .. n
        PROVE  cs[i].hash = ComputeHash(cs[i]) /\ (i > 1 => ValidBlock(cs, i))
    <2>1. cs[i] = bs[i] /\ bs[i].hash = ComputeHash(bs[i])
      BY <1>1 DEF Validate
    <2>2. ASSUME i > 1 PROVE ValidBlock(cs, i)
      <3>1. ValidBlock(bs, i)
        BY <2>2, <1>1 DEF Validate
      <3>2. i - 1 \in 1 .. n /\ cs[i - 1] = bs[i - 1]
        BY <2>2, <1>1
      <3>3. SubSeq(cs, 1, i - 1) = SubSeq(bs, 1, i - 1)
        BY <1>3, <3>2
      <3>4. DifficultyAfter(cs, i - 1) = DifficultyAfter(bs, i - 1)
        BY <1>2, <3>2
      <3>5. QED
        BY <2>1, <3>1, <3>2, <3>3, <3>4, Zenon DEF ValidBlock
    <2>3. QED
      BY <2>1, <2>2
  <1>6. b.hash = ComputeHash(b) /\ ValidBlock(cs, n + 1)
    <2>1. /\ b.prev = bs[n].hash /\ b.txs = txs
          /\ b.seal.of = HeaderHash(b) /\ b.seal.quality = quality
          /\ b.hash = ComputeHash(b)
      BY SealedParts
    <2>2. ASSUME NEW k, k = n + 1 PROVE ValidBlock(cs, k)
      <3>1. k - 1 = n /\ n \in 1 .. n
        BY <2>2, <1>1
      <3>2. DifficultyAfter(cs, k - 1) = Difficulty(bs)
        BY <3>1, <1>2 DEF Difficulty
      <3>3. /\ cs[k] = b /\ cs[k - 1] = bs[n] /\ SubSeq(cs, 1, k - 1) = bs
        BY <2>2, <3>1, <1>1, <1>4
      <3> HIDE DEF cs, n
      <3>4. cs[k].prev = cs[k - 1].hash /\ cs[k].seal.of = HeaderHash(cs[k])
        BY <2>1, <3>3
      <3>5. Seals(cs[k].seal.quality, DifficultyAfter(cs, k - 1))
        BY <2>1, <3>2, <3>3
      <3>6. CheckTxs(SubSeq(cs, 1, k - 1), cs[k].txs)
        BY <2>1, <3>3
      <3>7. QED
        BY <3>4, <3>5, <3>6 DEF ValidBlock
    <2>3. QED
      BY <2>1, <2>2
  <1>7. QED
    <2>1. SUFFICES ASSUME NEW i \in 1 .. Len(cs)
                   PROVE  /\ cs[i].hash = ComputeHash(cs[i])
                          /\ i > 1 => ValidBlock(cs, i)
      BY DEF Validate
    <2>2. i \in 1 .. n \/ i = n + 1
      BY <1>1
    <2>3. QED
      BY <2>2, <1>1, <1>5, <1>6

LEMMA RewardTyped ==
    ASSUME NEW miner \in Accounts PROVE CoinbaseTx(miner) \in Transactions
  BY RewardAssumption DEF CoinbaseTx, Transactions

LEMMA HoldsGenesis == Holds(<<Genesis>>)
  <1>1. Genesis.txs = <<>>
    BY SealedParts DEF Genesis
  <1>2. /\ <<Genesis>> \in Seq({Genesis}) /\ Len(<<Genesis>>) = 1
        /\ \A i \in 1 .. 1 : <<Genesis>>[i] = Genesis
    OBVIOUS
  <1>3. <<>> \in Seq(Transactions)
    OBVIOUS
  <1> DEFINE bs == <<Genesis>>
  <1> HIDE DEF bs
  <1>4. bs \in Seq({Genesis}) /\ Len(bs) = 1 /\ bs[1] = Genesis
    BY <1>2 DEF bs
  <1>5. Holds(bs)
    <2>1. \E R : bs \in Seq(R)
      BY <1>4
    <2>2. ASSUME NEW i \in 1 .. Len(bs) PROVE bs[i].txs \in Seq(Transactions)
      <3>1. i = 1
        BY <1>4
      <3>2. bs[i].txs = <<>>
        BY <1>1, <1>4, <3>1, Zenon
      <3>3. QED
        BY <1>3, <3>2, Zenon
    <2>3. QED
      BY <1>1, <1>4, <2>1, <2>2 DEF Holds
  <1>6. QED
    BY <1>5 DEF bs

LEMMA HoldsAppend ==
    ASSUME NEW bs, Holds(bs), NEW b, b.txs \in Seq(Transactions)
    PROVE  Holds(Append(bs, b))
  <1>1. PICK S : bs \in Seq(S)
    BY DEF Holds
  <1> DEFINE T == S \cup {b}
             cs == Append(bs, b)
  <1>2. bs \in Seq(T) /\ b \in T
    BY <1>1
  <1> HIDE DEF T
  <1>3. /\ cs \in Seq(T) /\ Len(bs) \in Nat /\ Len(cs) = Len(bs) + 1
        /\ cs[Len(bs) + 1] = b /\ \A i \in 1 .. Len(bs) : cs[i] = bs[i]
    BY <1>2
  <1> HIDE DEF cs
  <1>4. Len(cs) > 0 /\ cs[1].txs = <<>>
    BY <1>3 DEF Holds
  <1>5. ASSUME NEW i \in 1 .. Len(cs) PROVE cs[i].txs \in Seq(Transactions)
    <2>1. i \in 1 .. Len(bs) \/ i = Len(bs) + 1
      BY <1>3
    <2>2. QED
      BY <1>3, <2>1 DEF Holds
  <1>6. Holds(cs)
    <2>1. \E R : cs \in Seq(R)
      BY <1>3
    <2>2. QED
      BY <2>1, <1>4, <1>5 DEF Holds
  <1>7. QED
    BY <1>6 DEF cs

\* So does the chain that holds the genesis block alone.
LEMMA GenesisValid == Validate(<<Genesis>>)
  <1>1. Genesis.hash = ComputeHash(Genesis)
    BY SealedParts DEF Genesis
  <1>2. QED
    BY <1>1 DEF Validate
=============================================================================
