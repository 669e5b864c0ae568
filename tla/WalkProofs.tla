----------------------------- MODULE WalkProofs -----------------------------
(***************************************************************************)
(* Facts the proofs about several modules share.                           *)
(*                                                                         *)
(* A loop over a table of any length meets every slot of a set, and each   *)
(* once.  (By a minimal counterexample: the subsets of a finite set are    *)
(* well-founded by inclusion.)  Unlinking an entry from a list leaves the  *)
(* others, and the number of descriptors for an object moves with those of *)
(* each task.                                                              *)
(***************************************************************************)
EXTENDS Walk, Sequences, FiniteSetTheorems, TLAPS

\* The provers a leaf is tried with, and their seconds.
USE ZenonT(60), SMTT(30)

\* Every non-empty set of slots has a last one.
LEMMA LastSlot ==
  ASSUME NEW N \in Nat, NEW S \in SUBSET (1 .. N), S # {}
  PROVE  \E m \in S : \A t \in S : t <= m
<1>1. IsFiniteSet(1 .. N)
  BY FS_Interval, SMTT(30)
<1>2. IsWellFoundedOn(StrictSubsetOrdering(1 .. N), SUBSET (1 .. N))
  BY <1>1, FS_StrictSubsetOrderingWellFounded, FS_FiniteSubsetsOfFinite
<1> DEFINE Bad == {U \in SUBSET (1 .. N) : U # {} /\ ~\E m \in U : \A t \in U : t <= m}
<1>3. SUFFICES ASSUME Bad # {} PROVE FALSE
  OBVIOUS
<1>4. PICK U \in Bad : \A V \in Bad : <<V, U>> \notin StrictSubsetOrdering(1 .. N)
  <2> HIDE DEF Bad
  <2>1. Bad \subseteq SUBSET (1 .. N)
    BY DEF Bad
  <2> QED
    BY <1>2, <1>3, <2>1, WFMin
<1>5. PICK x \in U : TRUE
  OBVIOUS
<1>6. U \ {x} \notin Bad
  BY <1>4, <1>5 DEF StrictSubsetOrdering
<1>7. \A t \in 1 .. N : t \in Int
  BY SMTT(30)
<1>8. CASE U \ {x} = {}
  BY <1>5, <1>7, <1>8, SMTT(30)
<1>9. CASE U \ {x} # {}
  <2>1. PICK m \in U \ {x} : \A t \in U \ {x} : t <= m
    BY <1>6, <1>9
  <2>2. \A t \in U : t <= IF x <= m THEN m ELSE x
    BY <1>5, <1>7, <2>1, SMTT(30)
  <2> QED
    BY <1>5, <2>1, <2>2
<1> QED
  BY <1>8, <1>9

\* A walk over the table meets each slot of a set once.
IsWalk(s, S) ==
  /\ s \in Bijection(1 .. Cardinality(S), S)
  /\ \A i, j \in 1 .. Cardinality(S) : i < j => s[i] < s[j]

LEMMA WalkExists ==
  ASSUME NEW N \in Nat, NEW S \in SUBSET (1 .. N)
  PROVE  \E s : IsWalk(s, S)
<1>1. IsFiniteSet(1 .. N)
  BY FS_Interval, SMTT(30)
<1>2. IsWellFoundedOn(StrictSubsetOrdering(1 .. N), SUBSET (1 .. N))
  BY <1>1, FS_StrictSubsetOrderingWellFounded, FS_FiniteSubsetsOfFinite
<1> DEFINE Bad == {U \in SUBSET (1 .. N) : ~\E s : IsWalk(s, U)}
<1>3. SUFFICES ASSUME Bad # {} PROVE FALSE
  OBVIOUS
<1>4. PICK U \in Bad : \A V \in Bad : <<V, U>> \notin StrictSubsetOrdering(1 .. N)
  <2> HIDE DEF Bad
  <2>1. Bad \subseteq SUBSET (1 .. N)
    BY DEF Bad
  <2> QED
    BY <1>2, <1>3, <2>1, WFMin
<1>5. \A t \in 1 .. N : t \in Int
  BY SMTT(30)
<1>6. IsFiniteSet(U) /\ Cardinality(U) \in Nat
  BY <1>1, FS_Subset, FS_CardinalityType
<1>7. U \subseteq 1 .. N
  BY <1>4
<1>8. CASE U = {}
  <2>1. Cardinality(U) = 0
    BY <1>8, FS_EmptySet
  <2>2. 1 .. Cardinality(U) = {}
    BY <2>1, SMTT(30)
  <2>3. IsWalk([i \in {} |-> i], U)
    BY <1>8, <2>2 DEF IsWalk, Bijection, Injection, Surjection, IsInjective
  <2> QED
    BY <2>3
<1>9. CASE U # {}
  <2>1. PICK m \in U : \A t \in U : t <= m
    BY <1>9, LastSlot
  <2> DEFINE V == U \ {m}
             n == Cardinality(V)
  <2>2. V \notin Bad
    BY <1>4, <2>1 DEF StrictSubsetOrdering
  <2>3. PICK s : IsWalk(s, V)
    BY <2>2
  <2>4. n \in Nat /\ Cardinality(U) = n + 1
    <3>1. IsFiniteSet(V) /\ Cardinality(V) = Cardinality(U) - 1
      BY <1>6, <2>1, FS_RemoveElement
    <3>2. Cardinality(V) \in Nat
      BY <3>1, FS_CardinalityType
    <3> QED
      BY <1>6, <3>1, <3>2, SMTT(30)
  <2> HIDE DEF n, Bad
  <2>5. /\ s \in [1 .. n -> V]
        /\ \A i, j \in 1 .. n : s[i] = s[j] => i = j
        /\ \A t \in V : \E i \in 1 .. n : s[i] = t
        /\ \A i, j \in 1 .. n : i < j => s[i] < s[j]
    BY <2>3 DEF IsWalk, Bijection, Injection, Surjection, IsInjective, n
  <2> DEFINE w == [i \in 1 .. (n + 1) |-> IF i = n + 1 THEN m ELSE s[i]]
  <2>6. /\ n + 1 \in 1 .. (n + 1)
        /\ \A i \in 1 .. (n + 1) : i = n + 1 \/ i \in 1 .. n
    BY <2>4, SMTT(30)
  <2>7. \A i \in 1 .. n : i \in 1 .. (n + 1) /\ i # n + 1
    BY <2>4, SMTT(30)
  <2>8. w \in [1 .. (n + 1) -> U]
    BY <2>1, <2>5, <2>6
  <2>9. \A i, j \in 1 .. (n + 1) : w[i] = w[j] => i = j
    BY <2>5, <2>6, <2>7
  <2>10. \A t \in U : \E i \in 1 .. (n + 1) : w[i] = t
    <3> SUFFICES ASSUME NEW t \in U PROVE \E i \in 1 .. (n + 1) : w[i] = t
      OBVIOUS
    <3>1. CASE t = m
      BY <2>6, <3>1
    <3>2. CASE t # m
      BY <2>5, <2>7, <3>2
    <3> QED
      BY <3>1, <3>2
  <2>11. ASSUME NEW i \in 1 .. (n + 1), NEW j \in 1 .. (n + 1), i < j PROVE w[i] < w[j]
    <3>1. i \in 1 .. n
      BY <2>4, <2>11, SMTT(30)
    <3>2. s[i] \in U /\ s[i] # m /\ w[i] = s[i]
      BY <2>5, <2>7, <3>1
    <3>3. s[i] < m
      <4>1. s[i] \in Int /\ m \in Int /\ s[i] <= m
        BY <1>5, <1>7, <2>1, <3>2
      <4> QED
        BY <3>2, <4>1, SMTT(30)
    <3>4. CASE j = n + 1
      BY <3>2, <3>3, <3>4
    <3>5. CASE j # n + 1
      <4>1. j \in 1 .. n /\ w[j] = s[j]
        BY <2>6, <3>5
      <4> QED
        BY <2>5, <2>11, <3>1, <3>2, <4>1
    <3> QED
      BY <3>4, <3>5
  <2>12. IsWalk(w, U)
    <3> HIDE DEF w
    <3> QED
      BY <2>4, <2>8, <2>9, <2>10, <2>11 DEF IsWalk, Bijection, Injection, Surjection, IsInjective
  <2> QED
    BY <2>12 DEF Bad
<1> QED
  BY <1>8, <1>9

\* InOrder is that walk, for every set of slots of a table.
THEOREM InOrderWalks ==
  ASSUME NEW N \in Nat, NEW S \in SUBSET (1 .. N)
  PROVE  /\ Cardinality(S) \in Nat /\ Cardinality(S) <= N
         /\ InOrder(S) \in [1 .. Cardinality(S) -> S]
         /\ \A i, j \in 1 .. Cardinality(S) : i < j => InOrder(S)[i] < InOrder(S)[j]
         /\ \A i, j \in 1 .. Cardinality(S) : InOrder(S)[i] = InOrder(S)[j] => i = j
         /\ \A t \in S : \E i \in 1 .. Cardinality(S) : InOrder(S)[i] = t
<1>1. IsWalk(InOrder(S), S)
  <2>1. PICK s : IsWalk(s, S)
    BY WalkExists
  <2> QED
    BY <2>1 DEF InOrder, IsWalk
<1>2. Cardinality(S) \in Nat /\ Cardinality(S) <= N
  <2>1. IsFiniteSet(1 .. N) /\ Cardinality(1 .. N) = N
    BY FS_Interval, SMTT(30)
  <2>2. IsFiniteSet(S) /\ Cardinality(S) <= Cardinality(1 .. N)
    BY <2>1, FS_Subset
  <2> QED
    BY <2>1, <2>2, FS_CardinalityType
<1> HIDE DEF InOrder
<1>3. /\ InOrder(S) \in [1 .. Cardinality(S) -> S]
      /\ \A i, j \in 1 .. Cardinality(S) : InOrder(S)[i] = InOrder(S)[j] => i = j
      /\ \A t \in S : \E i \in 1 .. Cardinality(S) : InOrder(S)[i] = t
      /\ \A i, j \in 1 .. Cardinality(S) : i < j => InOrder(S)[i] < InOrder(S)[j]
  BY <1>1 DEF IsWalk, Bijection, Injection, Surjection, IsInjective
<1> QED
  BY <1>2, <1>3
-----------------------------------------------------------------------------
\* Lists.
\* Two lists in a row.
LEMMA Joined ==
  ASSUME NEW T, NEW x \in Seq(T), NEW y \in Seq(T)
  PROVE  /\ x \o y \in Seq(T) /\ Len(x \o y) = Len(x) + Len(y)
         /\ \A i \in 1 .. (Len(x) + Len(y)) :
              (x \o y)[i] = IF i <= Len(x) THEN x[i] ELSE y[i - Len(x)]
BY SMTT(30)

\* A list without its k-th entry.
Without(s, k) == SubSeq(s, 1, k - 1) \o SubSeq(s, k + 1, Len(s))

\* Unlinking an entry of a list in which nothing occurs twice.
LEMMA WithoutOne ==
  ASSUME NEW T, NEW s \in Seq(T), \A i, j \in DOMAIN s : s[i] = s[j] => i = j, NEW k \in DOMAIN s
  PROVE  /\ Without(s, k) \in Seq(T)
         /\ \A i, j \in DOMAIN Without(s, k) : Without(s, k)[i] = Without(s, k)[j] => i = j
         /\ \A i \in DOMAIN Without(s, k) :
              /\ Without(s, k)[i] # s[k]
              /\ \E j \in DOMAIN s : s[j] = Without(s, k)[i]
         /\ \A i \in DOMAIN s :
              s[i] # s[k] => \E j \in DOMAIN Without(s, k) : Without(s, k)[j] = s[i]
<1> DEFINE a == SubSeq(s, 1, k - 1)
           b == SubSeq(s, k + 1, Len(s))
           u == a \o b
<1>1. k \in 1 .. Len(s) /\ Len(s) \in Nat
  BY SMTT(30)
<1>2. /\ a \in Seq(T) /\ Len(a) = k - 1 /\ \A i \in 1 .. (k - 1) : a[i] = s[i]
      /\ b \in Seq(T) /\ Len(b) = Len(s) - k /\ \A i \in 1 .. (Len(s) - k) : b[i] = s[i + k]
  BY <1>1, SMTT(30)
<1> HIDE DEF a, b
<1>3. /\ u \in Seq(T) /\ Len(u) = Len(s) - 1
      /\ \A i \in 1 .. (Len(s) - 1) : u[i] = IF i < k THEN s[i] ELSE s[i + 1]
  <2>1. /\ u \in Seq(T) /\ Len(u) = Len(a) + Len(b)
        /\ \A i \in 1 .. (Len(a) + Len(b)) : u[i] = IF i <= Len(a) THEN a[i] ELSE b[i - Len(a)]
    BY <1>2, Joined
  <2>2. ASSUME NEW i \in 1 .. (Len(s) - 1) PROVE u[i] = IF i < k THEN s[i] ELSE s[i + 1]
    <3> HIDE DEF u
    <3>1. CASE i < k
      <4>1. Len(a) = k - 1 /\ Len(b) = Len(s) - k /\ i <= k - 1 /\ i \in 1 .. k - 1
        BY <1>1, <1>2, <3>1, SMTT(30)
      <4>2. i \in 1 .. (Len(a) + Len(b)) /\ i <= Len(a)
        BY <1>1, <4>1, SMTT(30)
      <4> QED
        BY <1>2, <2>1, <3>1, <4>1, <4>2
    <3>2. CASE ~(i < k)
      <4>0. Len(a) = k - 1 /\ Len(b) = Len(s) - k
        BY <1>2
      <4>1. /\ i - (k - 1) \in 1 .. (Len(s) - k) /\ i \in 1 .. (Len(a) + Len(b))
            /\ ~(i <= Len(a)) /\ Len(a) = k - 1
        <5>1. /\ i \in Int /\ k \in Int /\ Len(s) \in Int /\ k <= i /\ 1 <= k /\ i <= Len(s) - 1
          BY <1>1, <3>2, SMTT(30)
        <5>2. /\ i - (k - 1) \in Int /\ 1 <= i - (k - 1) /\ i - (k - 1) <= Len(s) - k
              /\ i <= (k - 1) + (Len(s) - k) /\ ~(i <= k - 1) /\ 1 <= i
          BY <5>1, SMTT(30)
        <5> QED
          BY <4>0, <5>1, <5>2, SMTT(30)
      <4>3. u[i] = b[i - (k - 1)]
        BY <2>1, <4>1
      <4>2. (i - (k - 1)) + k = i + 1
        BY <1>1, SMTT(30)
      <4> QED
        BY <1>2, <3>2, <4>1, <4>2, <4>3
    <3> QED
      BY <3>1, <3>2
  <2>3. Len(a) + Len(b) = Len(s) - 1
    BY <1>1, <1>2, SMTT(30)
  <2> QED
    BY <2>1, <2>2, <2>3
<1> HIDE DEF u
<1>4. DOMAIN u = 1 .. (Len(s) - 1) /\ DOMAIN s = 1 .. Len(s)
  BY <1>3, SMTT(30)
<1>5. \A i \in DOMAIN u : \E j \in DOMAIN s : j # k /\ s[j] = u[i] /\ j = IF i < k THEN i ELSE i + 1
  BY <1>1, <1>3, <1>4, SMTT(30)
<1>6. \A i, j \in DOMAIN u : u[i] = u[j] => i = j
  BY <1>1, <1>4, <1>5, SMTT(30)
<1>7. \A i \in DOMAIN s : s[i] # s[k] => \E j \in DOMAIN u : u[j] = s[i]
  <2> SUFFICES ASSUME NEW i \in DOMAIN s, s[i] # s[k] PROVE \E j \in DOMAIN u : u[j] = s[i]
    OBVIOUS
  <2>1. i # k
    OBVIOUS
  <2>2. CASE i < k
    BY <1>1, <1>3, <1>4, <2>2, SMTT(30)
  <2>3. CASE i > k
    <3>1. i - 1 \in DOMAIN u /\ u[i - 1] = s[i]
      BY <1>1, <1>3, <1>4, <2>3, SMTT(30)
    <3> QED
      BY <3>1
  <2> QED
    BY <1>1, <1>4, <2>1, <2>2, <2>3, SMTT(30)
<1>8. \A i \in DOMAIN u : u[i] # s[k]
  BY <1>5
<1>9. Without(s, k) = u
  BY DEF Without, u, a, b
<1> QED
  BY <1>3, <1>5, <1>6, <1>7, <1>8, <1>9

-----------------------------------------------------------------------------
\* Descriptors.  Task d[1] of U has f[d[1]] of them for one object, at most M.
Fds(U, M, f) == {d \in U \X (1 .. M) : d[2] <= f[d[1]]}

\* Those of one task, and those of the others.
Own(t, k) == {t} \X (1 .. k)
Others(U, M, f, t) == {d \in Fds(U, M, f) : d[1] # t}

LEMMA Products ==
  ASSUME NEW S, NEW T, IsFiniteSet(S), IsFiniteSet(T)
  PROVE  IsFiniteSet(S \X T) /\ Cardinality(S \X T) = Cardinality(S) * Cardinality(T)
BY FS_Product

LEMMA OwnCount ==
  ASSUME NEW t, NEW k \in Nat
  PROVE  IsFiniteSet(Own(t, k)) /\ Cardinality(Own(t, k)) = k
<1> DEFINE S == {t}
           T == 1 .. k
<1>1. IsFiniteSet(S) /\ Cardinality(S) = 1
  BY FS_Singleton
<1>2. IsFiniteSet(T) /\ Cardinality(T) = k
  BY FS_Interval, SMTT(30)
<1>3. Own(t, k) = S \X T
  BY DEF Own
<1> HIDE DEF S, T
<1>4. IsFiniteSet(S \X T) /\ Cardinality(S \X T) = Cardinality(S) * Cardinality(T)
  BY <1>1, <1>2, Products
<1> QED
  BY <1>1, <1>2, <1>3, <1>4, SMTT(30)

LEMMA FdsSplit ==
  ASSUME NEW U, IsFiniteSet(U), NEW M \in Nat, NEW f \in [U -> 0 .. M], NEW t \in U
  PROVE  /\ Cardinality(Others(U, M, f, t)) \in Nat
         /\ Cardinality(Fds(U, M, f)) = Cardinality(Others(U, M, f, t)) + f[t]
<1> DEFINE T == 1 .. M
           O == Others(U, M, f, t)
           W == Own(t, f[t])
<1>1. IsFiniteSet(U \X T)
  <2>1. IsFiniteSet(T) /\ IsFiniteSet(U)
    BY FS_Interval, SMTT(30)
  <2> HIDE DEF T
  <2> QED
    BY <2>1, Products
<1>2. IsFiniteSet(O) /\ Cardinality(O) \in Nat
  <2>1. O \subseteq U \X T
    BY DEF Others, Fds
  <2> HIDE DEF O, T
  <2> QED
    BY <1>1, <2>1, FS_Subset, FS_CardinalityType
<1>3. f[t] \in 0 .. M
  OBVIOUS
<1>4. Fds(U, M, f) = O \cup W
  BY <1>3, SMTT(30) DEF Others, Fds, Own
<1>5. O \cap W = {}
  BY DEF Others, Own
<1>6. IsFiniteSet(W) /\ Cardinality(W) = f[t]
  BY <1>3, OwnCount, SMTT(30)
<1> HIDE DEF O, W
<1>7. Cardinality(O \cup W) = Cardinality(O) + Cardinality(W) - Cardinality(O \cap W)
  BY <1>2, <1>6, FS_Union
<1>8. Cardinality(O \cap W) = 0
  BY <1>5, FS_EmptySet
<1>9. Cardinality(Fds(U, M, f)) = Cardinality(O) + f[t]
  <2>1. f[t] \in Nat
    BY <1>3, SMTT(30)
  <2>2. Cardinality(O \cup W) = Cardinality(O) + f[t]
    BY <1>2, <1>6, <1>7, <1>8, <2>1, SMTT(30)
  <2> QED
    BY <1>4, <2>2
<1> QED
  BY <1>2, <1>9 DEF O

\* When one task's descriptors change, the number moves by the difference.
LEMMA FdsChange ==
  ASSUME NEW U, IsFiniteSet(U), NEW M \in Nat, NEW f \in [U -> 0 .. M], NEW h \in [U -> 0 .. M],
         NEW t \in U, \A u \in U \ {t} : h[u] = f[u]
  PROVE  /\ Cardinality(Fds(U, M, f)) \in Nat /\ Cardinality(Fds(U, M, h)) \in Nat
         /\ Cardinality(Fds(U, M, h)) = Cardinality(Fds(U, M, f)) - f[t] + h[t]
         /\ f[t] <= Cardinality(Fds(U, M, f))
<1>1. h[t] \in Nat /\ f[t] \in Nat
  BY SMTT(30)
<1>2. Others(U, M, h, t) = Others(U, M, f, t)
  BY DEF Others, Fds
<1>3. /\ Cardinality(Others(U, M, f, t)) \in Nat
      /\ Cardinality(Fds(U, M, f)) = Cardinality(Others(U, M, f, t)) + f[t]
  BY FdsSplit
<1>4. Cardinality(Fds(U, M, h)) = Cardinality(Others(U, M, h, t)) + h[t]
  BY FdsSplit
<1> QED
  BY <1>1, <1>2, <1>3, <1>4, SMTT(30)
=============================================================================
