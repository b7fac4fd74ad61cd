------------------------- MODULE SessionDataProofs -------------------------
(***************************************************************************)
(* Proofs about SessionData, for sessions of any length: every invariant   *)
(* that the run of SessionData checks is a theorem of its specification.   *)
(*                                                                         *)
(* Four of the five speak of what the tools compute of any session; they   *)
(* follow from its types (DataTypes) and from what the functions return,   *)
(* which the lemmas say: a sorted, filtered or merged list, the recursive  *)
(* functions of the verdicts and of the weaver.  That every flow is woven  *)
(* as itself needs an invariant of the recording, FlowsRecorded.           *)
(*                                                                         *)
(* Induction on the length of a list is by the least element of a set of   *)
(* naturals (NatLeast), which the library's theorems give without an       *)
(* operator for parameter.                                                 *)
(***************************************************************************)
EXTENDS SessionData, FiniteSetTheorems, WellFoundedInduction, TLAPS

-----------------------------------------------------------------------------
(* Numbers, and functions defined by recursion on them. *)

(* A set of naturals has a least element: the sizes of finite sets are     *)
(* well-founded.                                                           *)
LEMMA NatLeast ==
  ASSUME NEW T, T \subseteq Nat, T # {}
  PROVE  \E m \in T : \A n \in T : m <= n
<1> DEFINE C == {1..m : m \in T}
<1>1. \A x \in C : x \in FiniteSubsetsOf(Nat)
  <2>1. TAKE x \in C
  <2>2. PICK m \in T : x = 1..m
    OBVIOUS
  <2>3. m \in Nat /\ IsFiniteSet(1..m)
    BY FS_Interval
  <2> QED
    BY <2>2, <2>3 DEF FiniteSubsetsOf
<1>2. C \subseteq FiniteSubsetsOf(Nat) /\ C # {}
  BY <1>1
<1>3. IsWellFoundedOn(StrictSubsetOrdering(Nat), FiniteSubsetsOf(Nat))
  BY FS_StrictSubsetOrderingWellFounded
<1> HIDE DEF C
<1>4. PICK x \in C : \A y \in C : <<y, x>> \notin StrictSubsetOrdering(Nat)
  BY <1>2, <1>3, WFMin
<1> USE DEF C
<1>5. PICK m \in T : x = 1..m
  BY <1>4
<1>6. ASSUME NEW n \in T, n < m  PROVE FALSE
  <2>1. n \in Nat /\ m \in Nat /\ 1..n \in C
    BY <1>6
  <2>2. 1..n \subseteq Nat /\ 1..m \subseteq Nat /\ 1..n \subseteq 1..m /\ m \in 1..m /\ m \notin 1..n
    BY <2>1, <1>6
  <2>3. <<1..n, 1..m>> \in StrictSubsetOrdering(Nat)
    BY <2>2 DEF StrictSubsetOrdering
  <2> QED
    BY <2>1, <2>3, <1>4, <1>5
<1> QED
  BY <1>5, <1>6

(* Induction, for a set of naturals. *)
LEMMA NatInd ==
  ASSUME NEW T, 0 \in T, \A n \in Nat : n \in T => n + 1 \in T
  PROVE  \A n \in Nat : n \in T
<1> SUFFICES ASSUME Nat \ T # {} PROVE FALSE
  OBVIOUS
<1>1. PICK m \in Nat \ T : \A n \in Nat \ T : m <= n
  BY NatLeast
<1>2. m # 0 /\ m - 1 \in Nat /\ m - 1 \in T /\ m - 1 + 1 = m
  BY <1>1
<1> QED
  BY <1>2, <1>1

LEMMA MinIs ==
  ASSUME NEW S, S \subseteq Nat, S # {}
  PROVE  Min(S) \in S /\ \A x \in S : Min(S) <= x
BY NatLeast DEF Min

LEMMA MaxIs ==
  ASSUME NEW S, S \subseteq Nat, S # {}, NEW n \in Nat, \A x \in S : x <= n
  PROVE  Max(S) \in S /\ \A x \in S : x <= Max(S)
<1> DEFINE T == {n - x : x \in S}
<1>1. T \subseteq Nat /\ T # {}
  <2>1. \A x \in S : x \in Nat /\ x <= n /\ n - x \in Nat
    OBVIOUS
  <2> QED
    BY <2>1
<1>2. PICK m \in T : \A k \in T : m <= k
  BY <1>1, NatLeast
<1>3. PICK x \in S : m = n - x
  OBVIOUS
<1>4. \A y \in S : x >= y
  <2>1. TAKE y \in S
  <2>2. m <= n - y
    BY <1>2
  <2> QED
    BY <2>2, <1>3
<1>5. Max(S) \in S /\ \A y \in S : Max(S) >= y
  BY <1>3, <1>4 DEF Max
<1> QED
  BY <1>5

LEMMA FiniteIsBounded ==
  ASSUME NEW S, S \subseteq Nat, IsFiniteSet(S)
  PROVE  \E n \in Nat : \A x \in S : x <= n
<1>1. \A n \in Nat : \A R \in SUBSET Nat :
        IsFiniteSet(R) /\ Cardinality(R) = n => \E b \in Nat : \A x \in R : x <= b
  <2> DEFINE T == {n \in Nat : \A R \in SUBSET Nat :
        IsFiniteSet(R) /\ Cardinality(R) = n => \E b \in Nat : \A x \in R : x <= b}
  <2>1. 0 \in T
    BY FS_EmptySet
  <2>2. ASSUME NEW n \in Nat, n \in T  PROVE n + 1 \in T
    <3> SUFFICES ASSUME NEW R \in SUBSET Nat, IsFiniteSet(R), Cardinality(R) = n + 1
                 PROVE  \E b \in Nat : \A x \in R : x <= b
      OBVIOUS
    <3>0. R # {}
      BY FS_EmptySet
    <3>1. PICK y \in R : TRUE
      BY <3>0
    <3>2. IsFiniteSet(R \ {y}) /\ Cardinality(R \ {y}) = n /\ R \ {y} \in SUBSET Nat
      BY FS_RemoveElement
    <3>3. PICK b \in Nat : \A x \in R \ {y} : x <= b
      BY <2>2, <3>2
    <3>4. \A x \in R : x <= b + y
      <4> TAKE x \in R
      <4>1. CASE x = y
        BY <4>1
      <4>2. CASE x # y
        BY <4>2, <3>3
      <4> QED
        BY <4>1, <4>2
    <3> QED
      BY <3>4
  <2>3. \A n \in Nat : n \in T
    <3> HIDE DEF T
    <3> QED
      BY <2>1, <2>2, NatInd
  <2> QED
    BY <2>3
<1> QED
  BY <1>1, FS_CardinalityType

(* f is what G makes of b, step by step.                                   *)
Iterates(f, N, S, b, G) ==
  f \in [0..N -> S] /\ f[0] = b /\ \A n \in 1..N : f[n] = G[<<n, f[n - 1]>>]

(* A function defined by recursion exists. *)
LEMMA Recursion ==
  ASSUME NEW N \in Nat, NEW S, NEW b \in S, NEW G \in [(1..N) \X S -> S]
  PROVE  \E f : Iterates(f, N, S, b, G)
<1> DEFINE T == {m \in Nat : m <= N => \E f \in [0..m -> S] :
                               f[0] = b /\ \A n \in 1..m : f[n] = G[<<n, f[n - 1]>>]}
<1>1. 0 \in T
  <2> DEFINE f == [n \in 0..0 |-> b]
  <2>1. f \in [0..0 -> S] /\ f[0] = b /\ \A n \in 1..0 : f[n] = G[<<n, f[n - 1]>>]
    OBVIOUS
  <2> HIDE DEF f
  <2> QED
    BY <2>1
<1>2. ASSUME NEW m \in Nat, m \in T  PROVE m + 1 \in T
  <2> SUFFICES ASSUME m + 1 <= N
               PROVE  \E f \in [0..(m + 1) -> S] :
                        f[0] = b /\ \A n \in 1..(m + 1) : f[n] = G[<<n, f[n - 1]>>]
    OBVIOUS
  <2>1. PICK f \in [0..m -> S] : f[0] = b /\ \A n \in 1..m : f[n] = G[<<n, f[n - 1]>>]
    BY <1>2
  <2> DEFINE g == [n \in 0..(m + 1) |-> IF n = m + 1 THEN G[<<m + 1, f[m]>>] ELSE f[n]]
  <2>2. f[m] \in S /\ <<m + 1, f[m]>> \in (1..N) \X S
    OBVIOUS
  <2>3. G[<<m + 1, f[m]>>] \in S
    BY <2>2
  <2>4. g \in [0..(m + 1) -> S]
    BY <2>3
  <2>5. g[0] = b
    BY <2>1
  <2>6. ASSUME NEW n \in 1..(m + 1)  PROVE g[n] = G[<<n, g[n - 1]>>]
    <3>1. CASE n = m + 1
      <4>1. n - 1 = m /\ m \in 0..(m + 1) /\ m # m + 1
        BY <3>1
      <4>2. g[n - 1] = f[m]
        BY <4>1
      <4>3. g[n] = G[<<m + 1, f[m]>>]
        BY <3>1
      <4> HIDE DEF g
      <4> QED
        BY <3>1, <4>2, <4>3
    <3>2. CASE n # m + 1
      <4>1. n \in 1..m /\ n - 1 \in 0..m /\ g[n] = f[n] /\ g[n - 1] = f[n - 1]
        BY <3>2
      <4> QED
        BY <4>1, <2>1
    <3> QED
      BY <3>1, <3>2
  <2> HIDE DEF g
  <2> QED
    BY <2>4, <2>5, <2>6
<1>3. N \in T
  <2> HIDE DEF T
  <2> QED
    BY <1>1, <1>2, NatInd
<1> QED
  BY <1>3 DEF Iterates

(* Increasing step by step is increasing. *)
LEMMA Increasing ==
  ASSUME NEW n \in Nat, NEW f \in [1..n -> Nat], \A k \in 2..n : f[k - 1] < f[k]
  PROVE  \A j, k \in 1..n : j < k => f[j] < f[k]
<1> SUFFICES ASSUME NEW j \in 1..n  PROVE \A k \in 1..n : j < k => f[j] < f[k]
  OBVIOUS
<1> DEFINE T == {d \in Nat : j + d + 1 <= n => f[j] < f[j + d + 1]}
<1>1. 0 \in T
  OBVIOUS
<1>2. ASSUME NEW d \in Nat, d \in T  PROVE d + 1 \in T
  <2> SUFFICES ASSUME j + (d + 1) + 1 <= n  PROVE f[j] < f[j + (d + 1) + 1]
    OBVIOUS
  <2>1. f[j] < f[j + d + 1]
    BY <1>2
  <2>2. j + d + 2 \in 2..n /\ (j + d + 2) - 1 = j + d + 1 /\ j + (d + 1) + 1 = j + d + 2
    OBVIOUS
  <2>3. f[(j + d + 2) - 1] < f[j + d + 2]
    BY <2>2
  <2> QED
    BY <2>1, <2>2, <2>3
<1>3. ASSUME NEW k \in 1..n, j < k  PROVE f[j] < f[k]
  <2>1. k - j - 1 \in Nat /\ j + (k - j - 1) + 1 = k
    BY <1>3
  <2>2. k - j - 1 \in T
    <3> HIDE DEF T
    <3> QED
      BY <1>1, <1>2, <2>1, NatInd
  <2> QED
    BY <2>1, <2>2
<1> QED
  BY <1>3

-----------------------------------------------------------------------------
(* Lists: what is kept of one, and one in order of time. *)

(* f is the members of K in increasing order. *)
Enumerates(f, K) ==
  /\ f \in [1..Cardinality(K) -> K]
  /\ \A n \in 2..Cardinality(K) : f[n - 1] < f[n]

(* Every finite set of naturals has its increasing enumeration. *)
LEMMA EnumerationExists ==
  ASSUME NEW K, K \subseteq Nat, IsFiniteSet(K)
  PROVE  \E f : Enumerates(f, K)
<1> DEFINE T == {n \in Nat : \A S \in SUBSET Nat :
                     IsFiniteSet(S) /\ Cardinality(S) = n => \E f : Enumerates(f, S)}
<1>1. 0 \in T
  <2> SUFFICES ASSUME NEW S \in SUBSET Nat, IsFiniteSet(S), Cardinality(S) = 0
               PROVE  \E f : Enumerates(f, S)
    OBVIOUS
  <2>1. S = {} /\ 1..0 = {} /\ 2..0 = {}
    BY FS_EmptySet
  <2>2. [n \in 1..0 |-> 0] \in [1..0 -> S]
    BY <2>1
  <2>3. Enumerates([n \in 1..0 |-> 0], S)
    BY <2>1, <2>2 DEF Enumerates
  <2> QED
    BY <2>3
<1>2. ASSUME NEW n \in Nat, n \in T  PROVE n + 1 \in T
  <2> SUFFICES ASSUME NEW S \in SUBSET Nat, IsFiniteSet(S), Cardinality(S) = n + 1
               PROVE  \E f : Enumerates(f, S)
    OBVIOUS
  <2>1. S # {}
    BY FS_EmptySet
  <2>2. PICK b \in Nat : \A x \in S : x <= b
    BY FiniteIsBounded
  <2> DEFINE m == Max(S)  R == S \ {m}
  <2>3. m \in S /\ \A x \in S : x <= m
    BY <2>1, <2>2, MaxIs
  <2> HIDE DEF m
  <2>4. IsFiniteSet(R) /\ Cardinality(R) = n /\ R \in SUBSET Nat
    BY <2>3, FS_RemoveElement
  <2>5. PICK f : Enumerates(f, R)
    BY <1>2, <2>4
  <2> DEFINE g == [k \in 1..(n + 1) |-> IF k = n + 1 THEN m ELSE f[k]]
  <2>6. f \in [1..n -> R] /\ \A k \in 2..n : f[k - 1] < f[k]
    BY <2>4, <2>5 DEF Enumerates
  <2>7. g \in [1..(n + 1) -> S]
    BY <2>3, <2>6
  <2>8. ASSUME NEW k \in 2..(n + 1)  PROVE g[k - 1] < g[k]
    <3>1. CASE k = n + 1
      <4>1. k - 1 \in 1..n /\ g[k - 1] = f[k - 1] /\ g[k] = m /\ f[k - 1] \in R
        BY <3>1, <2>6
      <4>2. f[k - 1] \in Nat /\ m \in Nat /\ f[k - 1] <= m /\ f[k - 1] # m
        BY <4>1, <2>3
      <4> QED
        BY <4>1, <4>2
    <3>2. CASE k # n + 1
      <4>1. k \in 2..n /\ k - 1 \in 1..n /\ g[k - 1] = f[k - 1] /\ g[k] = f[k]
        BY <3>2
      <4> QED
        BY <4>1, <2>6
    <3> QED
      BY <3>1, <3>2
  <2>9. Enumerates(g, S)
    <3> HIDE DEF g
    <3> QED
      BY <2>7, <2>8 DEF Enumerates
  <2> QED
    BY <2>9
<1>3. Cardinality(K) \in T
  <2>1. Cardinality(K) \in Nat
    BY FS_CardinalityType
  <2> HIDE DEF T
  <2> QED
    BY <1>1, <1>2, <2>1, NatInd
<1> QED
  BY <1>3

(* InOrder is the increasing enumeration: it has every index once. *)
LEMMA InOrderIs ==
  ASSUME NEW K, K \subseteq Nat, IsFiniteSet(K)
  PROVE  LET f == InOrder(K)  n == Cardinality(K) IN
         /\ n \in Nat /\ f \in [1..n -> K]
         /\ \A j, k \in 1..n : j < k => f[j] < f[k]
         /\ \A x \in K : \E k \in 1..n : f[k] = x
<1> DEFINE f == InOrder(K)  n == Cardinality(K)
<1>1. n \in Nat
  BY FS_CardinalityType
<1>2. f \in [1..n -> K] /\ \A k \in 2..n : f[k - 1] < f[k]
  BY EnumerationExists DEF Enumerates, InOrder
<1> HIDE DEF f, n
<1>3. \A j, k \in 1..n : j < k => f[j] < f[k]
  BY <1>1, <1>2, Increasing
<1>4. f \in Injection(1..n, K)
  <2>1. \A j, k \in 1..n : f[j] = f[k] => j = k
    <3> TAKE j, k \in 1..n
    <3>1. f[j] \in Nat /\ f[k] \in Nat
      BY <1>2
    <3> QED
      BY <1>1, <1>3, <3>1
  <2> QED
    BY <1>2, <2>1 DEF Injection, IsInjective
<1>5. IsFiniteSet(1..n) /\ Cardinality(1..n) = n
  BY <1>1, FS_Interval
<1>6. f \in Surjection(1..n, K)
  BY <1>4, <1>5, FS_Injection DEF n
<1>7. \A x \in K : \E k \in 1..n : f[k] = x
  BY <1>6 DEF Surjection
<1> QED
  BY <1>1, <1>2, <1>3, <1>7 DEF f, n

(* What is kept of a sequence are its elements at the indices, in order. *)
KeptInOrder(s, K) ==
  LET f == InOrder(K)  n == Cardinality(K) IN
  /\ n \in Nat /\ f \in [1..n -> K]
  /\ \A j, k \in 1..n : j < k => f[j] < f[k]
  /\ \A x \in K : \E k \in 1..n : f[k] = x
  /\ KeptAt(s, K) = [k \in 1..n |-> s[f[k]]]

LEMMA KeptAtIs ==
  ASSUME NEW s, NEW N \in Nat, DOMAIN s = 1..N, NEW K, K \subseteq 1..N
  PROVE  KeptInOrder(s, K)
<1>1. IsFiniteSet(K) /\ K \subseteq Nat
  <2>1. IsFiniteSet(1..N) /\ K \in SUBSET (1..N)
    BY FS_Interval
  <2>2. IsFiniteSet(K)
    BY <2>1, FS_Subset
  <2> QED
    BY <2>2
<1> QED
  BY <1>1, InOrderIs DEF KeptAt, KeptInOrder

LEMMA KeptAtSeq ==
  ASSUME NEW S, NEW s \in Seq(S), NEW K, K \subseteq DOMAIN s
  PROVE  /\ KeptAt(s, K) \in Seq(S) /\ Len(KeptAt(s, K)) = Cardinality(K)
         /\ Range(KeptAt(s, K)) = {s[k] : k \in K}
<1> DEFINE q == KeptAt(s, K)  f == InOrder(K)  n == Cardinality(K)
<1>1. Len(s) \in Nat /\ DOMAIN s = 1..Len(s) /\ \A k \in 1..Len(s) : s[k] \in S
  OBVIOUS
<1>2. /\ n \in Nat /\ f \in [1..n -> K]
      /\ \A x \in K : \E k \in 1..n : f[k] = x
      /\ q = [k \in 1..n |-> s[f[k]]]
  BY <1>1, KeptAtIs DEF KeptInOrder
<1> HIDE DEF q, f, n
<1>3. q \in [1..n -> S]
  BY <1>1, <1>2
<1>4. q \in Seq(S) /\ Len(q) = n
  BY <1>2, <1>3
<1>5. \A k \in K : s[k] \in Range(q)
  BY <1>2 DEF Range
<1>6. \A k \in DOMAIN q : q[k] \in {s[j] : j \in K}
  BY <1>2
<1> QED
  BY <1>4, <1>5, <1>6 DEF Range, q, n

(* There is one increasing enumeration of a set of naturals. *)
LEMMA OneEnumeration ==
  ASSUME NEW K, K \subseteq Nat, NEW n \in Nat, NEW h \in [1..n -> K],
         \A j, k \in 1..n : j < k => h[j] < h[k],
         \A x \in K : \E k \in 1..n : h[k] = x
  PROVE  IsFiniteSet(K) /\ Cardinality(K) = n /\ InOrder(K) = h
<1>1. IsFiniteSet(1..n) /\ Cardinality(1..n) = n
  BY FS_Interval
<1>2. h \in Surjection(1..n, K)
  BY DEF Surjection
<1>3. IsFiniteSet(K) /\ Cardinality(K) <= n
  BY <1>1, <1>2, FS_Surjection
<1>4. h \in Injection(1..n, K)
  <2>1. \A j, k \in 1..n : h[j] = h[k] => j = k
    <3> TAKE j, k \in 1..n
    <3>1. h[j] \in Nat /\ h[k] \in Nat
      OBVIOUS
    <3> QED
      BY <3>1
  <2> QED
    BY <2>1 DEF Injection, IsInjective
<1>5. Cardinality(K) = n
  BY <1>1, <1>2, <1>3, <1>4, FS_Injection
<1> DEFINE f == InOrder(K)
<1>6. /\ f \in [1..n -> K] /\ \A j, k \in 1..n : j < k => f[j] < f[k]
      /\ \A x \in K : \E k \in 1..n : f[k] = x
  BY <1>3, <1>5, InOrderIs
<1> HIDE DEF f
<1>11. /\ \A k \in 1..n : f[k] \in Nat /\ h[k] \in Nat
       /\ \A j, k \in 1..n : f[j] = f[k] \/ h[j] = h[k] => j = k
       /\ \A j, k \in 1..n : j <= k => f[j] <= f[k] /\ h[j] <= h[k]
  <2>1. \A k \in 1..n : f[k] \in Nat /\ h[k] \in Nat
    BY <1>6
  <2>2. \A j, k \in 1..n : j < k => f[j] < f[k] /\ h[j] < h[k]
    BY <1>6
  <2>3. \A j, k \in 1..n : f[j] = f[k] \/ h[j] = h[k] => j = k
    <3> SUFFICES ASSUME NEW j \in 1..n, NEW k \in 1..n, j # k
                 PROVE  f[j] # f[k] /\ h[j] # h[k]
      OBVIOUS
    <3>1. CASE j < k
      BY <2>1, <2>2, <3>1
    <3>2. CASE k < j
      BY <2>1, <2>2, <3>2
    <3> QED
      BY <3>1, <3>2
  <2>4. \A j, k \in 1..n : j <= k => f[j] <= f[k] /\ h[j] <= h[k]
    <3> SUFFICES ASSUME NEW j \in 1..n, NEW k \in 1..n, j <= k
                 PROVE  f[j] <= f[k] /\ h[j] <= h[k]
      OBVIOUS
    <3>1. CASE j < k
      BY <2>1, <2>2, <3>1
    <3>2. CASE j = k
      BY <2>1, <3>2
    <3> QED
      BY <3>1, <3>2
  <2> QED
    BY <2>1, <2>3, <2>4
<1> DEFINE T == {i \in Nat : i <= n => \A k \in 1..i : f[k] = h[k]}
<1>7. 0 \in T
  OBVIOUS
<1>8. ASSUME NEW i \in Nat, i \in T  PROVE i + 1 \in T
  <2> SUFFICES ASSUME i + 1 <= n  PROVE \A k \in 1..(i + 1) : f[k] = h[k]
    OBVIOUS
  <2>1. \A k \in 1..i : f[k] = h[k]
    BY <1>8
  <2>2. i + 1 \in 1..n /\ f[i + 1] \in K /\ h[i + 1] \in K
    BY <1>6
  <2>3. PICK j \in 1..n : h[j] = f[i + 1]
    BY <2>2
  <2>4. PICK l \in 1..n : f[l] = h[i + 1]
    BY <2>2, <1>6
  <2>5. j >= i + 1
    <3> SUFFICES ASSUME j \in 1..i  PROVE FALSE
      BY <2>3
    <3>1. f[j] = f[i + 1] /\ j \in 1..n
      BY <2>1, <2>3
    <3>2. j = i + 1
      BY <3>1, <2>2, <1>11
    <3> QED
      BY <3>2
  <2>6. l >= i + 1
    <3> SUFFICES ASSUME l \in 1..i  PROVE FALSE
      BY <2>4
    <3>1. h[l] = h[i + 1] /\ l \in 1..n
      BY <2>1, <2>4
    <3>2. l = i + 1
      BY <3>1, <2>2, <1>11
    <3> QED
      BY <3>2
  <2>7. h[i + 1] <= h[j] /\ f[i + 1] <= f[l]
    BY <2>2, <2>3, <2>4, <2>5, <2>6, <1>11
  <2>8. f[i + 1] = h[i + 1]
    <3>1. f[i + 1] \in Nat /\ h[i + 1] \in Nat
      BY <2>2
    <3> QED
      BY <2>3, <2>4, <2>7, <3>1
  <2> QED
    BY <2>1, <2>8
<1>9. n \in T
  <2> HIDE DEF T
  <2> QED
    BY <1>7, <1>8, NatInd
<1>10. f = h
  BY <1>6, <1>9
<1> QED
  BY <1>3, <1>5, <1>10 DEF f

(* One more element: it is kept behind the others, or they are kept alone. *)
LEMMA KeptAppend ==
  ASSUME NEW S, NEW s \in Seq(S), NEW x \in S, NEW K, K \subseteq DOMAIN s
  PROVE  /\ KeptAt(Append(s, x), K) = KeptAt(s, K)
         /\ KeptAt(Append(s, x), K \cup {Len(s) + 1}) = Append(KeptAt(s, K), x)
<1> DEFINE N == Len(s)  t == Append(s, x)  f == InOrder(K)  n == Cardinality(K)
           L == K \cup {N + 1}  h == [k \in 1..(n + 1) |-> IF k = n + 1 THEN N + 1 ELSE f[k]]
<1>1. /\ N \in Nat /\ DOMAIN s = 1..N /\ DOMAIN t = 1..(N + 1)
      /\ (\A k \in 1..N : t[k] = s[k]) /\ t[N + 1] = x
  OBVIOUS
<1>2. KeptInOrder(s, K)
  <2>1. K \subseteq 1..N
    BY <1>1
  <2> HIDE DEF N
  <2> QED
    BY <1>1, <2>1, KeptAtIs
<1>3. /\ n \in Nat /\ f \in [1..n -> K]
      /\ \A j, k \in 1..n : j < k => f[j] < f[k]
      /\ \A y \in K : \E k \in 1..n : f[k] = y
      /\ KeptAt(s, K) = [k \in 1..n |-> s[f[k]]]
  BY <1>2 DEF KeptInOrder
<1>4. KeptAt(t, K) = [k \in 1..n |-> t[f[k]]]
  BY <1>3 DEF KeptAt
<1>5. KeptAt(t, L) = [k \in DOMAIN InOrder(L) |-> t[InOrder(L)[k]]]
  BY DEF KeptAt
<1> HIDE DEF N, t, f, n
<1>6. \A k \in 1..n : f[k] \in 1..N
  BY <1>1, <1>3
<1>7. KeptAt(t, K) = KeptAt(s, K)
  <2>1. \A k \in 1..n : t[f[k]] = s[f[k]]
    BY <1>1, <1>6
  <2> QED
    BY <2>1, <1>3, <1>4
<1>8. IsFiniteSet(L) /\ Cardinality(L) = n + 1 /\ InOrder(L) = h
  <2>1. L \subseteq Nat
    BY <1>1
  <2>2. h \in [1..(n + 1) -> L]
    BY <1>3
  <2>3. \A j, k \in 1..(n + 1) : j < k => h[j] < h[k]
    <3> SUFFICES ASSUME NEW j \in 1..(n + 1), NEW k \in 1..(n + 1), j < k  PROVE h[j] < h[k]
      OBVIOUS
    <3>1. CASE k = n + 1
      <4>1. j \in 1..n /\ f[j] <= N /\ f[j] \in Nat
        BY <3>1, <1>3, <1>6
      <4>2. h[j] = f[j] /\ h[k] = N + 1
        BY <3>1, <4>1, <1>3
      <4> QED
        BY <4>1, <4>2, <1>1
    <3>2. CASE k # n + 1
      <4>1. j \in 1..n /\ k \in 1..n
        BY <3>2, <1>3
      <4>2. h[j] = f[j] /\ h[k] = f[k]
        BY <4>1, <1>3
      <4> QED
        BY <4>1, <4>2, <1>3
    <3> QED
      BY <3>1, <3>2
  <2>4. \A y \in L : \E k \in 1..(n + 1) : h[k] = y
    <3> SUFFICES ASSUME NEW y \in L  PROVE \E k \in 1..(n + 1) : h[k] = y
      OBVIOUS
    <3>1. CASE y = N + 1
      <4>1. n + 1 \in 1..(n + 1) /\ h[n + 1] = N + 1
        BY <1>3
      <4> QED
        BY <3>1, <4>1
    <3>2. CASE y # N + 1
      <4>1. PICK k \in 1..n : f[k] = y
        BY <3>2, <1>3
      <4>2. k \in 1..(n + 1) /\ h[k] = y
        BY <4>1, <1>3
      <4> QED
        BY <4>2
    <3> QED
      BY <3>1, <3>2
  <2> HIDE DEF L, h
  <2>5. n + 1 \in Nat
    BY <1>3
  <2> QED
    BY <2>1, <2>2, <2>3, <2>4, <2>5, OneEnumeration
<1>9. KeptAt(t, L) = Append(KeptAt(s, K), x)
  <2> DEFINE q == KeptAt(s, K)
  <2>1. q \in Seq(S) /\ Len(q) = n /\ \A k \in 1..n : q[k] = s[f[k]]
    <3>1. KeptAt(s, K) \in Seq(S) /\ Len(KeptAt(s, K)) = n
      BY KeptAtSeq DEF n
    <3> QED
      BY <3>1, <1>3
  <2>2. KeptAt(t, L) = [k \in 1..(n + 1) |-> t[h[k]]]
    <3>1. DOMAIN h = 1..(n + 1)
      OBVIOUS
    <3> HIDE DEF h, L
    <3> QED
      BY <3>1, <1>5, <1>8
  <2> HIDE DEF q
  <2>3. Append(q, x) = [k \in 1..(n + 1) |-> IF k = n + 1 THEN x ELSE q[k]]
    <3>1. Append(q, x) \in Seq(S) /\ Len(Append(q, x)) = n + 1
      BY <2>1
    <3>2. \A k \in 1..(n + 1) : Append(q, x)[k] = IF k = n + 1 THEN x ELSE q[k]
      BY <2>1, <1>3
    <3>3. Append(q, x) = [k \in 1..(n + 1) |-> Append(q, x)[k]]
      <4> DEFINE r == Append(q, x)
      <4> HIDE DEF r
      <4>1. r \in Seq(S) /\ Len(r) = n + 1
        BY <3>1 DEF r
      <4>2. DOMAIN r = 1..(n + 1) /\ r = [k \in DOMAIN r |-> r[k]]
        BY <4>1
      <4> QED
        BY <4>2 DEF r
    <3> QED
      BY <3>2, <3>3
  <2>4. \A k \in 1..(n + 1) : t[h[k]] = IF k = n + 1 THEN x ELSE q[k]
    <3> SUFFICES ASSUME NEW k \in 1..(n + 1)
                 PROVE  t[h[k]] = IF k = n + 1 THEN x ELSE q[k]
      OBVIOUS
    <3>1. CASE k = n + 1
      BY <3>1, <1>1
    <3>2. CASE k # n + 1
      <4>1. k \in 1..n /\ h[k] = f[k]
        BY <3>2, <1>3
      <4>2. f[k] \in 1..N
        BY <4>1, <1>6
      <4>3. t[f[k]] = s[f[k]] /\ q[k] = s[f[k]]
        BY <4>1, <4>2, <1>1, <2>1
      <4> QED
        BY <3>2, <4>1, <4>3
    <3> QED
      BY <3>1, <3>2
  <2> HIDE DEF h, L
  <2> QED
    BY <2>2, <2>3, <2>4 DEF q
<1> QED
  BY <1>7, <1>9 DEF t, N

(* In order of time. *)
SortedPairs(s) == \A j, k \in DOMAIN s : j <= k => s[j].time <= s[k].time

(* Sorting is a permutation, and puts what it permutes in order of time. *)
LEMMA SortingIs ==
  ASSUME NEW s, NEW N \in Nat, DOMAIN s = 1..N, \A k \in 1..N : s[k].time \in Nat
  PROVE  /\ Sorting(s) \in [1..N -> 1..N]
         /\ \A j, k \in 1..N : Sorting(s)[j] = Sorting(s)[k] => j = k
         /\ \A x \in 1..N : \E k \in 1..N : Sorting(s)[k] = x
         /\ \A j, k \in 1..N : j < k => s[Sorting(s)[j]].time <= s[Sorting(s)[k]].time
<1> DEFINE Upto(k) == {j \in 1..N : s[j].time < s[k].time \/ (s[j].time = s[k].time /\ j <= k)}
           place == [k \in 1..N |-> Place(s, k)]
           p == Sorting(s)
<1>0. <<>> \o [k \in DOMAIN s |-> Place(s, k)] = place
  <2>1. place \in Seq({Place(s, k) : k \in 1..N})
    OBVIOUS
  <2>2. [k \in DOMAIN s |-> Place(s, k)] = place
    OBVIOUS
  <2> HIDE DEF place
  <2> QED
    BY <2>1, <2>2
<1>1. ASSUME NEW k \in 1..N
      PROVE  /\ IsFiniteSet(Upto(k)) /\ Place(s, k) = Cardinality(Upto(k))
             /\ place[k] \in 1..N /\ place[k] \in Nat /\ place[k] = Place(s, k)
  <2>1. IsFiniteSet(1..N) /\ Cardinality(1..N) = N
    BY FS_Interval
  <2>2. IsFiniteSet(Upto(k)) /\ Cardinality(Upto(k)) <= N
    BY <2>1, FS_Subset
  <2>3. k \in Upto(k)
    OBVIOUS
  <2>4. Cardinality(Upto(k)) # 0 /\ Cardinality(Upto(k)) \in Nat
    BY <2>2, <2>3, FS_EmptySet, FS_CardinalityType
  <2>5. Place(s, k) = Cardinality(Upto(k))
    BY DEF Place
  <2> HIDE DEF Upto
  <2> QED
    BY <2>2, <2>4, <2>5
<1>2. ASSUME NEW j \in 1..N, NEW k \in 1..N,
             s[j].time < s[k].time \/ (s[j].time = s[k].time /\ j < k)
      PROVE  place[j] < place[k]
  <2>1. Upto(j) \subseteq Upto(k) /\ k \in Upto(k) /\ k \notin Upto(j)
    BY <1>2
  <2>2. Upto(j) # Upto(k) /\ Upto(j) \in SUBSET Upto(k)
    BY <2>1
  <2>3. IsFiniteSet(Upto(k)) /\ place[j] = Cardinality(Upto(j)) /\ place[k] = Cardinality(Upto(k))
    BY <1>1
  <2> HIDE DEF Upto, place
  <2>4. place[j] \in Nat /\ place[k] \in Nat
    BY <1>1
  <2> QED
    BY <2>2, <2>3, <2>4, FS_Subset
<1>3. \A j, k \in 1..N : place[j] = place[k] => j = k
  <2> TAKE j, k \in 1..N
  <2> HIDE DEF place
  <2>1. place[j] \in Nat /\ place[k] \in Nat /\ s[j].time \in Nat /\ s[k].time \in Nat
    BY <1>1
  <2> QED
    BY <2>1, <1>2
<1>4. place \in Surjection(1..N, 1..N)
  <2>1. place \in [1..N -> 1..N]
    BY <1>1
  <2> HIDE DEF place
  <2>2. place \in Injection(1..N, 1..N)
    BY <2>1, <1>3 DEF Injection, IsInjective
  <2> QED
    BY <2>2, FS_Interval, FS_Injection
<1>5. \A n \in 1..N : p[n] \in 1..N /\ place[p[n]] = n
  <2> TAKE n \in 1..N
  <2>1. \E k \in 1..N : place[k] = n
    BY <1>4 DEF Surjection
  <2>2. p[n] = CHOOSE k \in 1..N : place[k] = n
    BY <1>0 DEF Sorting
  <2>3. p[n] \in 1..N /\ place[p[n]] = n
    BY <2>1, <2>2
  <2> HIDE DEF p
  <2> QED
    BY <2>3
<1>6. DOMAIN p = 1..N /\ p \in [1..N -> 1..N]
  <2>1. p = [n \in 1..N |-> CHOOSE k \in 1..N : place[k] = n]
    BY <1>0 DEF Sorting
  <2>2. p = [n \in 1..N |-> p[n]]
    BY <2>1
  <2> HIDE DEF p
  <2> QED
    BY <2>2, <1>5
<1>7. ASSUME NEW j \in 1..N, NEW k \in 1..N, j < k
      PROVE  s[p[j]].time <= s[p[k]].time
  <2>1. p[j] \in 1..N /\ p[k] \in 1..N /\ place[p[j]] = j /\ place[p[k]] = k
    BY <1>5
  <2>2. s[p[j]].time \in Nat /\ s[p[k]].time \in Nat
    BY <2>1
  <2>3. ASSUME s[p[k]].time < s[p[j]].time  PROVE FALSE
    <3> HIDE DEF place, p
    <3>1. place[p[k]] < place[p[j]]
      BY <2>1, <2>3, <1>2
    <3> QED
      BY <2>1, <3>1, <1>7
  <2> HIDE DEF p
  <2> QED
    BY <2>2, <2>3
<1>8. ASSUME NEW x \in 1..N  PROVE \E k \in 1..N : p[k] = x
  <2>1. place[x] \in 1..N
    BY <1>1
  <2>2. p[place[x]] \in 1..N /\ place[p[place[x]]] = place[x]
    BY <2>1, <1>5
  <2> HIDE DEF place, p
  <2> QED
    BY <2>1, <2>2, <1>3
<1>9. \A j, k \in 1..N : p[j] = p[k] => j = k
  <2> HIDE DEF place, p
  <2> QED
    BY <1>5
<1> HIDE DEF p
<1>10. /\ p \in [1..N -> 1..N] /\ \A j, k \in 1..N : p[j] = p[k] => j = k
       /\ \A x \in 1..N : \E k \in 1..N : p[k] = x
       /\ \A j, k \in 1..N : j < k => s[p[j]].time <= s[p[k]].time
  BY <1>6, <1>7, <1>8, <1>9
<1> QED
  BY <1>10 DEF p

(* ByTime has what the list has, in order of time. *)
LEMMA ByTimeIs ==
  ASSUME NEW S, \A x \in S : x.time \in Nat, NEW s \in Seq(S)
  PROVE  /\ ByTime(s) = [n \in 1..Len(s) |-> s[Sorting(s)[n]]]
         /\ ByTime(s) \in Seq(S) /\ Len(ByTime(s)) = Len(s)
         /\ Range(ByTime(s)) = Range(s)
         /\ SortedPairs(ByTime(s))
<1> DEFINE p == Sorting(s)  N == Len(s)  q == [n \in 1..N |-> s[p[n]]]
<1>1. N \in Nat /\ DOMAIN s = 1..N /\ \A k \in 1..N : s[k] \in S /\ s[k].time \in Nat
  OBVIOUS
<1>2. /\ p \in [1..N -> 1..N]
      /\ \A x \in 1..N : \E k \in 1..N : p[k] = x
      /\ \A j, k \in 1..N : j < k => s[p[j]].time <= s[p[k]].time
  <2> HIDE DEF N
  <2> QED
    BY <1>1, SortingIs
<1>3. q \in Seq(S) /\ Len(q) = N /\ DOMAIN q = 1..N
  <2> HIDE DEF p, N
  <2>1. q \in [1..N -> S]
    BY <1>1, <1>2
  <2> QED
    BY <1>1, <2>1
<1>4. ByTime(s) = q
  <2>1. ByTime(s) = <<>> \o q
    BY <1>1 DEF ByTime
  <2> HIDE DEF q
  <2> QED
    BY <2>1, <1>3
<1>5. Range(q) = Range(s)
  <2> HIDE DEF p, N
  <2>1. \A k \in 1..N : q[k] \in Range(s)
    BY <1>1, <1>2 DEF Range
  <2>2. \A k \in 1..N : s[k] \in Range(q)
    BY <1>1, <1>2 DEF Range
  <2> HIDE DEF q
  <2> QED
    BY <1>1, <1>3, <2>1, <2>2 DEF Range
<1>6. SortedPairs(q)
  <2> SUFFICES ASSUME NEW j \in 1..N, NEW k \in 1..N, j <= k
               PROVE  q[j].time <= q[k].time
    BY <1>3 DEF SortedPairs
  <2> HIDE DEF p
  <2>1. s[p[j]].time \in Nat
    BY <1>1, <1>2
  <2>2. q[j] = s[p[j]] /\ q[k] = s[p[k]]
    OBVIOUS
  <2>3. j = k \/ j < k
    BY <1>1
  <2>4. s[p[j]].time <= s[p[k]].time
    BY <1>2, <2>1, <2>3
  <2> QED
    BY <2>2, <2>4
<1> HIDE DEF q
<1> QED
  BY <1>3, <1>4, <1>5, <1>6 DEF q

(* What has been computed for every element of a sequence is a sequence. *)
LEMMA MappedSeq ==
  ASSUME NEW S, NEW s \in Seq(S), NEW T, NEW q, q = [k \in DOMAIN s |-> q[k]],
         \A k \in DOMAIN s : q[k] \in T
  PROVE  q \in Seq(T) /\ Len(q) = Len(s) /\ DOMAIN q = DOMAIN s
<1>1. Len(s) \in Nat /\ DOMAIN s = 1..Len(s)
  OBVIOUS
<1>2. q \in [1..Len(s) -> T]
  BY <1>1
<1> QED
  BY <1>1, <1>2

LEMMA RangeSeq ==
  ASSUME NEW S, NEW s \in Seq(S)
  PROVE  s \in Seq(Range(s))
<1>1. Len(s) \in Nat /\ DOMAIN s = 1..Len(s) /\ s \in [1..Len(s) -> Range(s)]
  BY DEF Range
<1> QED
  BY <1>1

LEMMA SortedByPairs ==
  ASSUME NEW S, NEW s \in Seq(S), SortedPairs(s)
  PROVE  Sorted(s)
<1>1. Len(s) \in Nat /\ DOMAIN s = 1..Len(s)
  OBVIOUS
<1>2. ASSUME NEW k \in 2..Len(s)  PROVE s[k - 1].time <= s[k].time
  <2>1. k - 1 \in DOMAIN s /\ k \in DOMAIN s /\ k - 1 <= k
    BY <1>1
  <2> QED
    BY <2>1 DEF SortedPairs
<1> QED
  BY <1>2 DEF Sorted

(* One in front that is earlier than all: launchApp, which has the         *)
(* earliest time there is.                                                 *)
LEMMA SortedBehind ==
  ASSUME NEW S, NEW s \in Seq(S), SortedPairs(s), NEW x, \A y \in S : x.time <= y.time
  PROVE  /\ Sorted(<<x>> \o s) /\ Len(<<x>> \o s) = 1 + Len(s) /\ (<<x>> \o s)[1] = x
<1> DEFINE q == <<x>> \o s
<1>1. Len(s) \in Nat /\ DOMAIN s = 1..Len(s) /\ \A k \in 1..Len(s) : s[k] \in S
  OBVIOUS
<1>2. Len(q) = 1 + Len(s) /\ q[1] = x /\ \A k \in 2..(1 + Len(s)) : q[k] = s[k - 1]
  <2>1. <<x>> \in Seq(S \cup {x}) /\ s \in Seq(S \cup {x}) /\ Len(<<x>>) = 1 /\ <<x>>[1] = x
    OBVIOUS
  <2> QED
    BY <1>1, <2>1
<1> HIDE DEF q
<1>3. ASSUME NEW k \in 2..Len(q)  PROVE q[k - 1].time <= q[k].time
  <2>0. k \in Nat /\ k - 1 \in 1..Len(s) /\ q[k] = s[k - 1] /\ s[k - 1] \in S
    BY <1>1, <1>2
  <2>1. CASE k = 2
    BY <2>0, <2>1, <1>2
  <2>2. CASE k # 2
    <3>1. k - 1 \in 2..(1 + Len(s)) /\ (k - 1) - 1 \in 1..Len(s) /\ (k - 1) - 1 <= k - 1
      BY <2>0, <2>2, <1>1
    <3>2. q[k - 1] = s[(k - 1) - 1]
      BY <3>1, <1>2
    <3> QED
      BY <2>0, <3>1, <3>2, <1>1 DEF SortedPairs
  <2> QED
    BY <2>1, <2>2
<1> QED
  BY <1>2, <1>3 DEF Sorted, q

-----------------------------------------------------------------------------
(* What is recorded. *)

(* The requests, taps, records and executions there are. *)
Url == DOMAIN FixtureOf

Event ==
  [url : Url \ {TrackUrl}, time : Times, body : [id : Nat]]
    \cup [url : {TrackUrl}, time : Times, body : [id : Nat, target : Target, time : Times]]

Interaction == [time : Times, target : Target, source : {"dispatched", "tracked"}]

Record == [time : Times, took : {0}, result : {"inferred", "error", "flow_start", "flow_end"},
           flow : Flow \cup {"none"}]

Execution == [flow : Flow, time : Times, end : Times]

(* The type invariant; it says that time goes on from the start of the     *)
(* session.                                                                *)
DataTypes ==
  /\ clock \in Times /\ startedAt <= clock
  /\ har \in Seq(Event) /\ rows \in Seq(Event) /\ taps \in Seq(Interaction)
  /\ records \in Seq(Record) /\ executions \in Seq(Execution)
  /\ compiled \in {"no", "full", "db"}

LEMMA TimesAre ==
  \E lo, hi \in Nat : /\ lo < hi /\ Times = lo..hi
                     /\ Min(Times) = lo /\ Max(Times) = hi /\ startedAt = lo + 1
<1>1. PICK lo \in Nat, hi \in Nat : lo < hi /\ Times = lo..hi
  BY DataAssumption
<1>0. Times \subseteq Nat /\ Times # {} /\ \A t \in Times : t <= hi
  <2>1. lo \in Times /\ \A t \in Times : t \in Nat /\ t <= hi
    BY <1>1
  <2> QED
    BY <2>1
<1>2. Min(Times) \in Times /\ \A t \in Times : Min(Times) <= t
  BY <1>0, MinIs
<1>3. Max(Times) \in Times /\ \A t \in Times : t <= Max(Times)
  BY <1>0, <1>1, MaxIs
<1>4. Min(Times) = lo /\ Max(Times) = hi
  BY <1>1, <1>2, <1>3
<1> QED
  BY <1>1, <1>4 DEF startedAt

LEMMA KeptSeq ==
  ASSUME NEW S, NEW s \in Seq(S), NEW K, K \subseteq DOMAIN s
  PROVE  KeptAt(s, K) \in Seq(S) /\ Range(KeptAt(s, K)) \subseteq Range(s)
<1>1. KeptAt(s, K) \in Seq(S) /\ Range(KeptAt(s, K)) = {s[k] : k \in K}
  BY KeptAtSeq
<1> QED
  BY <1>1 DEF Range

LEMMA InSessionIs ==
  ASSUME NEW s \in Seq(Event)
  PROVE  /\ InSession(s) \in Seq(Event)
         /\ Range(InSession(s)) = {e \in Range(s) : e.time >= startedAt}
<1> DEFINE K == {k \in DOMAIN s : s[k].time >= startedAt}
<1>1. InSession(s) = KeptAt(s, K)
  BY DEF InSession
<1>2. KeptAt(s, K) \in Seq(Event) /\ Range(KeptAt(s, K)) = {s[k] : k \in K}
  BY KeptAtSeq
<1> QED
  BY <1>1, <1>2 DEF Range

LEMMA LoggedSeq ==
  ASSUME NEW S, NEW s \in Seq(S), NEW e \in S, NEW t, t \in {<<e>> \o s, Append(s, e)}
  PROVE  t \in Seq(S)
<1>1. <<e>> \in Seq(S) /\ <<e>> \o s \in Seq(S) /\ Append(s, e) \in Seq(S)
  OBVIOUS
<1> QED
  BY <1>1

LEMMA TypesInit == DataInit => DataTypes
<1> SUFFICES ASSUME DataInit PROVE DataTypes
  OBVIOUS
<1>1. clock \in Times /\ startedAt <= clock
  BY TimesAre DEF DataInit
<1>2. [url |-> "feed", time |-> Min(Times), body |-> [id |-> 0]] \in Event
  BY TimesAre, DataAssumption DEF Event, Url
<1>3. har = <<>> \/ har = <<[url |-> "feed", time |-> Min(Times), body |-> [id |-> 0]]>>
  BY DEF DataInit
<1>4. har \in Seq(Event)
  <2> DEFINE old == [url |-> "feed", time |-> Min(Times), body |-> [id |-> 0]]
  <2> HIDE DEF old
  <2>1. old \in Event /\ (har = <<>> \/ har = <<old>>)
    BY <1>2, <1>3 DEF old
  <2>2. <<>> \in Seq(Event) /\ <<old>> \in Seq(Event)
    BY <2>1
  <2> QED
    BY <2>1, <2>2
<1> QED
  BY <1>1, <1>4 DEF DataInit, DataTypes

LEMMA TypesStep == DataTypes /\ [DataNext]_dataVars => DataTypes'
<1> SUFFICES ASSUME DataTypes, [DataNext]_dataVars PROVE DataTypes'
  OBVIOUS
<1> USE DEF DataTypes
<1>0. startedAt' = startedAt
  BY DEF startedAt
<1>1. CASE logInteraction
  <2>1. \A t \in Target : [time |-> clock, target |-> t, source |-> "dispatched"] \in Interaction
    BY DEF Interaction
  <2>2. taps' \in Seq(Interaction)
    BY <1>1, <2>1 DEF logInteraction
  <2> QED
    BY <1>0, <1>1, <2>2 DEF logInteraction
<1>2. CASE AppRequest
  <2>1. \A u \in DOMAIN FixtureOf \ {TrackUrl} :
          [url |-> u, time |-> clock, body |-> [id |-> Len(har) + 1]] \in Event
    BY DEF Event, Url
  <2>2. \E e \in Event : har' \in {<<e>> \o har, Append(har, e)}
    BY <1>2, <2>1 DEF AppRequest, Logged
  <2>3. har' \in Seq(Event)
    BY <2>2, LoggedSeq
  <2> QED
    BY <1>0, <1>2, <2>3 DEF AppRequest
<1>3. CASE Track
  <2>1. clock - 1 \in Times
    BY TimesAre
  <2>2. \A t \in Target, at \in {clock, clock - 1} :
          [url |-> TrackUrl, time |-> clock,
           body |-> [id |-> Len(har) + 1, target |-> t, time |-> at]] \in Event
    BY <2>1 DEF Event
  <2>3. \E e \in Event : har' \in {<<e>> \o har, Append(har, e)}
    BY <1>3, <2>2 DEF Track, Logged
  <2>4. har' \in Seq(Event)
    BY <2>3, LoggedSeq
  <2> QED
    BY <1>0, <1>3, <2>4 DEF Track
<1>4. CASE Poll
  <2>1. \A r \in {"inferred", "error"} :
          [time |-> clock, took |-> 0, result |-> r, flow |-> "none"] \in Record
    BY DEF Record
  <2>2. records' \in Seq(Record)
    BY <1>4, <2>1 DEF Poll
  <2> QED
    BY <1>0, <1>4, <2>2 DEF Poll
<1>5. CASE RunFlow
  <2>1. clock' = clock + 1 /\ clock' \in Times /\ startedAt <= clock'
    BY <1>5, TimesAre DEF RunFlow
  <2>2. PICK f \in Flow :
          /\ records' = records \o <<[time |-> clock, took |-> 0, result |-> "flow_start", flow |-> f],
                                     [time |-> clock', took |-> 0, result |-> "flow_end", flow |-> f]>>
          /\ executions' = Append(executions, [flow |-> f, time |-> clock, end |-> clock'])
    BY <1>5 DEF RunFlow
  <2>3. /\ [time |-> clock, took |-> 0, result |-> "flow_start", flow |-> f] \in Record
        /\ [time |-> clock', took |-> 0, result |-> "flow_end", flow |-> f] \in Record
        /\ [flow |-> f, time |-> clock, end |-> clock'] \in Execution
    BY <2>1 DEF Record, Execution
  <2>4. records' \in Seq(Record) /\ executions' \in Seq(Execution)
    BY <2>2, <2>3
  <2> QED
    BY <1>0, <1>5, <2>1, <2>4 DEF RunFlow
<1>6. CASE Tick
  <2>1. clock' = clock + 1 /\ clock' \in Times /\ startedAt <= clock'
    BY <1>6, TimesAre DEF Tick
  <2> QED
    BY <1>0, <1>6, <2>1 DEF Tick
<1>7. CASE get_network_logs
  <2>1. rows' \in Seq(Event)
    BY <1>7, InSessionIs DEF get_network_logs
  <2> QED
    BY <1>0, <1>7, <2>1 DEF get_network_logs
<1>8. CASE register_segment
  BY <1>0, <1>8 DEF register_segment
<1>9. CASE stop_and_compile_test
  BY <1>0, <1>9 DEF stop_and_compile_test
<1>10. CASE UNCHANGED dataVars
  BY <1>0, <1>10 DEF dataVars
<1> QED
  BY <1>1, <1>2, <1>3, <1>4, <1>5, <1>6, <1>7, <1>8, <1>9, <1>10 DEF DataNext

-----------------------------------------------------------------------------
(* What the tools make of it: the events, the interactions, the steps. *)

LEMMA mergeEventsIs ==
  ASSUME NEW S, NEW s \in Seq(S), NEW t \in Seq(S)
  PROVE  /\ mergeEvents(s, t) \in Seq(S)
         /\ Range(mergeEvents(s, t)) \subseteq Range(s) \cup Range(t)
<1> DEFINE all == s \o t  K == {k \in DOMAIN all : \A j \in 1..(k - 1) : Key(all[j]) # Key(all[k])}
<1>1. mergeEvents(s, t) = KeptAt(all, K)
  BY DEF mergeEvents
<1>2. all \in Seq(S) /\ Range(all) \subseteq Range(s) \cup Range(t)
  <2>1. all \in Seq(S) /\ \A k \in DOMAIN all : all[k] \in Range(s) \cup Range(t)
    BY DEF Range
  <2> QED
    BY <2>1 DEF Range
<1> QED
  BY <1>1, <1>2, KeptSeq

(* A merged list has each key of the two lists once.                       *)
Distinct(q) == \A j, k \in DOMAIN q : Key(q[j]) = Key(q[k]) => j = k

SameKeys(A, B) == {Key(e) : e \in A} = {Key(e) : e \in B}

(* A merged list has the requests of both. *)
LEMMA MergedOnce ==
  ASSUME NEW S, NEW s \in Seq(S), NEW t \in Seq(S)
  PROVE  /\ Distinct(mergeEvents(s, t))
         /\ SameKeys(Range(mergeEvents(s, t)), Range(s) \cup Range(t))
<1> DEFINE all == s \o t
           K == {k \in DOMAIN all : \A j \in 1..(k - 1) : Key(all[j]) # Key(all[k])}
           q == mergeEvents(s, t)  f == InOrder(K)  n == Cardinality(K)
<1>1. q = KeptAt(all, K)
  BY DEF mergeEvents
<1>2. all \in Seq(S) /\ Len(all) \in Nat /\ DOMAIN all = 1..Len(all) /\ Range(all) = Range(s) \cup Range(t)
  <2>1. all \in Seq(S)
    OBVIOUS
  <2>2. Range(all) \subseteq Range(s) \cup Range(t)
    <3>1. \A k \in DOMAIN all : all[k] \in Range(s) \cup Range(t)
      BY DEF Range
    <3> QED
      BY <3>1 DEF Range
  <2>3. Range(s) \cup Range(t) \subseteq Range(all)
    <3>0. Len(s) \in Nat /\ Len(t) \in Nat /\ DOMAIN s = 1..Len(s) /\ DOMAIN t = 1..Len(t)
      OBVIOUS
    <3>1. \A k \in DOMAIN s : k \in DOMAIN all /\ all[k] = s[k]
      OBVIOUS
    <3>2. \A k \in DOMAIN t : Len(s) + k \in DOMAIN all /\ all[Len(s) + k] = t[k]
      OBVIOUS
    <3> HIDE DEF all
    <3>3. \A e \in Range(s) : e \in Range(all)
      BY <3>1 DEF Range
    <3>4. \A e \in Range(t) : e \in Range(all)
      BY <3>2 DEF Range
    <3> QED
      BY <3>3, <3>4
  <2> HIDE DEF all
  <2> QED
    BY <2>1, <2>2, <2>3
<1> HIDE DEF all, q
<1>3. K \subseteq 1..Len(all)
  BY <1>2
<1>4. /\ n \in Nat /\ f \in [1..n -> K]
      /\ \A j, k \in 1..n : j < k => f[j] < f[k]
      /\ \A x \in K : \E k \in 1..n : f[k] = x
      /\ q = [k \in 1..n |-> all[f[k]]]
  <2> HIDE DEF K
  <2>0. Len(all) \in Nat /\ DOMAIN all = 1..Len(all)
    BY <1>2
  <2>1. /\ n \in Nat /\ f \in [1..n -> K]
        /\ \A j, k \in 1..n : j < k => f[j] < f[k]
        /\ \A x \in K : \E k \in 1..n : f[k] = x
        /\ KeptAt(all, K) = [k \in 1..n |-> all[f[k]]]
    <3>1. KeptInOrder(all, K)
      BY <2>0, <1>3, KeptAtIs
    <3> QED
      BY <3>1 DEF KeptInOrder
  <2> QED
    BY <2>1, <1>1
<1> HIDE DEF f, n
<1>5. \A j, k \in 1..n : j < k => Key(q[j]) # Key(q[k])
  <2> SUFFICES ASSUME NEW j \in 1..n, NEW k \in 1..n, j < k
               PROVE  Key(all[f[j]]) # Key(all[f[k]])
    BY <1>4
  <2>1. f[k] \in K /\ f[j] \in K /\ f[j] < f[k]
    BY <1>4
  <2>2. f[j] \in 1..(f[k] - 1)
    BY <2>1, <1>2
  <2> QED
    BY <2>1, <2>2
<1>6. \A j, k \in DOMAIN q : Key(q[j]) = Key(q[k]) => j = k
  <2>1. DOMAIN q = 1..n
    BY <1>4
  <2> QED
    BY <2>1, <1>4, <1>5
<1>7. Range(q) \subseteq Range(all)
  BY <1>1, <1>2, <1>3, KeptSeq
<1>8. ASSUME NEW e \in Range(all)  PROVE \E x \in Range(q) : Key(x) = Key(e)
  <2> DEFINE same == {i \in DOMAIN all : Key(all[i]) = Key(e)}
  <2>1. same \subseteq Nat /\ same # {}
    BY <1>2 DEF Range
  <2>2. PICK i \in same : \A j \in same : i <= j
    <3> HIDE DEF same
    <3> QED
      BY <2>1, NatLeast
  <2>3. i \in K
    BY <1>2, <2>2
  <2>4. PICK k \in 1..n : f[k] = i
    BY <2>3, <1>4
  <2>5. q[k] = all[i] /\ q[k] \in Range(q)
    BY <2>4, <1>4 DEF Range
  <2> QED
    BY <2>5
<1>9. {Key(e) : e \in Range(q)} = {Key(e) : e \in Range(all)}
  BY <1>7, <1>8
<1> QED
  BY <1>2, <1>6, <1>9 DEF q, Distinct, SameKeys

LEMMA NetworkEvents == DataTypes => allNetworkEvents \in Seq(Event)
<1> SUFFICES ASSUME DataTypes PROVE allNetworkEvents \in Seq(Event)
  OBVIOUS
<1>1. \A e \in Event : e.time \in Nat
  BY TimesAre DEF Event
<1>2. ByTime(rows) \in Seq(Event)
  BY <1>1, ByTimeIs DEF DataTypes
<1>3. InSession(har) \in Seq(Event)
  BY InSessionIs DEF DataTypes
<1>4. (IF compiled = "full" THEN InSession(har) ELSE <<>>) \in Seq(Event)
  BY <1>3
<1> QED
  BY <1>2, <1>4, mergeEventsIs DEF allNetworkEvents

LEMMA Interactions ==
  DataTypes => /\ extractTrackEvents(allNetworkEvents) \in Seq(Interaction)
               /\ allInteractions \in Seq(Interaction)
<1> SUFFICES ASSUME DataTypes
             PROVE  /\ extractTrackEvents(allNetworkEvents) \in Seq(Interaction)
                    /\ allInteractions \in Seq(Interaction)
  OBVIOUS
<1> DEFINE E == allNetworkEvents
           K == {k \in DOMAIN E : E[k].url = TrackUrl /\ E[k].body.target # "none"}
           tracks == KeptAt(E, K)
           X == [k \in DOMAIN tracks |-> [time |-> tracks[k].body.time,
                                         target |-> tracks[k].body.target, source |-> "tracked"]]
<1>1. E \in Seq(Event)
  BY NetworkEvents
<1> HIDE DEF E
<1>2. tracks \in Seq(Event) /\ Range(tracks) = {E[k] : k \in K}
  BY <1>1, KeptAtSeq
<1>3. extractTrackEvents(E) = X
  BY DEF extractTrackEvents
<1>4. ASSUME NEW k \in DOMAIN tracks
      PROVE  [time |-> tracks[k].body.time, target |-> tracks[k].body.target,
              source |-> "tracked"] \in Interaction
  <2>1. tracks[k] \in Range(tracks)
    BY DEF Range
  <2>2. PICK j \in K : tracks[k] = E[j]
    BY <2>1, <1>2
  <2>3. E[j] \in Event /\ E[j].url = TrackUrl
    BY <1>1
  <2>4. E[j].body.time \in Times /\ E[j].body.target \in Target
    BY <2>3 DEF Event
  <2> QED
    BY <2>2, <2>4 DEF Interaction
<1>5. X \in Seq(Interaction)
  <2>1. Len(tracks) \in Nat /\ DOMAIN tracks = 1..Len(tracks)
    BY <1>2
  <2>2. X \in [1..Len(tracks) -> Interaction]
    BY <2>1, <1>4
  <2> HIDE DEF X, tracks
  <2> QED
    BY <2>1, <2>2
<1>6. \A i \in Interaction : i.time \in Nat
  BY TimesAre DEF Interaction
<1>7. ByTime(taps) \in Seq(Interaction)
  BY <1>6, ByTimeIs DEF DataTypes
<1> HIDE DEF X
<1>8. ByTime(taps) \o X \in Seq(Interaction)
  BY <1>5, <1>7
<1>9. ByTime(ByTime(taps) \o X) \in Seq(Interaction)
  BY <1>6, <1>8, ByTimeIs
<1> QED
  BY <1>3, <1>5, <1>9 DEF allInteractions, E

LEMMA NearestIs ==
  ASSUME NEW S, \A x \in S : x.time \in Nat, NEW its \in Seq(S), SortedPairs(its),
         NEW e, e.time \in Nat
  PROVE  LET n == nearest(its, e)
             causes == {k \in DOMAIN its : e.time - its[k].time \in 0..Window}
         IN /\ n \in 0..Len(its)
            /\ n = 0 <=> causes = {}
            /\ n # 0 => n \in causes /\ \A k \in causes : k <= n
<1> DEFINE n == nearest(its, e)
           causes == {k \in DOMAIN its : e.time - its[k].time \in 0..Window}
           before == {i \in DOMAIN its : its[i].time <= e.time}
<1>1. Window \in Nat /\ Len(its) \in Nat /\ DOMAIN its = 1..Len(its)
  BY DataAssumption
<1>2. \A k \in DOMAIN its : its[k].time \in Nat
  BY <1>1
<1>3. \A k \in DOMAIN its : k \in causes <=> k \in before /\ e.time - its[k].time <= Window
  BY <1>1, <1>2
<1>4. causes \subseteq before /\ before \subseteq 1..Len(its)
  BY <1>1, <1>3
<1>5. CASE before = {}
  BY <1>4, <1>5, <1>1 DEF nearest
<1>6. CASE before # {}
  <2> DEFINE m == Max(before)
  <2>1. m \in before /\ \A k \in before : k <= m
    <3>1. before \subseteq Nat /\ Len(its) \in Nat /\ \A k \in before : k <= Len(its)
      BY <1>1, <1>4
    <3> HIDE DEF before
    <3> QED
      BY <3>1, <1>6, MaxIs
  <2>2. n = IF e.time - its[m].time > Window THEN 0 ELSE m
    BY <1>6 DEF nearest
  <2>3. m \in 1..Len(its) /\ its[m].time \in Nat
    BY <2>1, <1>1, <1>2
  <2> HIDE DEF m
  <2>4. CASE e.time - its[m].time > Window
    <3>1. ASSUME NEW k \in causes PROVE FALSE
      <4>1. k \in before /\ e.time - its[k].time <= Window /\ its[k].time \in Nat
        BY <1>2, <1>3
      <4>2. its[k].time <= its[m].time
        BY <4>1, <2>1 DEF SortedPairs
      <4> QED
        BY <4>1, <4>2, <2>4, <2>3, <1>1
    <3>2. n = 0 /\ causes = {}
      BY <3>1, <2>2, <2>4
    <3> QED
      BY <3>2, <1>1
  <2>5. CASE ~(e.time - its[m].time > Window)
    <3>1. n = m /\ m \in causes
      BY <2>5, <2>2, <2>1, <1>3, <2>3, <1>1
    <3>2. \A k \in causes : k <= m
      BY <2>1, <1>4
    <3> QED
      BY <3>1, <3>2, <2>3, <1>1
  <2> QED
    BY <2>4, <2>5
<1> QED
  BY <1>5, <1>6

(* What correlate promises, of interactions and events of two types. *)
Correlated(I, SI, E, SE) ==
  LET its == ByTime(I)  events == ByTime(E)  steps == correlate(I, E) IN
  /\ its \in Seq(SI) /\ SortedPairs(its) /\ Len(its) = Len(I)
  /\ events \in Seq(SE) /\ SortedPairs(events) /\ Range(events) = Range(E)
  /\ DOMAIN steps = 1..Len(I)
  /\ \A k \in 1..Len(I) :
       /\ steps[k].time = its[k].time /\ steps[k].interaction = its[k]
       /\ steps[k].events = KeptAt(events, {j \in DOMAIN events : nearest(its, events[j]) = k})
       /\ steps[k].events \in Seq(SE)
       /\ Range(steps[k].events) = {e \in Range(E) : nearest(its, e) = k}

LEMMA correlateIs ==
  ASSUME NEW SI, \A x \in SI : x.time \in Nat, NEW I \in Seq(SI),
         NEW SE, \A x \in SE : x.time \in Nat, NEW E \in Seq(SE)
  PROVE  Correlated(I, SI, E, SE)
<1> DEFINE its == ByTime(I)  events == ByTime(E)  steps == correlate(I, E)
           K(i) == {j \in DOMAIN events : nearest(its, events[j]) = i}
<1>1. /\ its \in Seq(SI) /\ SortedPairs(its) /\ Len(its) = Len(I)
      /\ events \in Seq(SE) /\ SortedPairs(events) /\ Range(events) = Range(E)
  BY ByTimeIs
<1>2. steps = [i \in DOMAIN its |->
                 [time |-> its[i].time, interaction |-> its[i], events |-> KeptAt(events, K(i))]]
  BY DEF correlate
<1>3. DOMAIN its = 1..Len(I)
  BY <1>1
<1> HIDE DEF its, events, steps
<1>4. ASSUME NEW k \in 1..Len(I)
      PROVE  /\ steps[k].time = its[k].time /\ steps[k].interaction = its[k]
             /\ steps[k].events = KeptAt(events, K(k))
             /\ steps[k].events \in Seq(SE)
             /\ Range(steps[k].events) = {e \in Range(E) : nearest(its, e) = k}
  <2>1. /\ steps[k].time = its[k].time /\ steps[k].interaction = its[k]
        /\ steps[k].events = KeptAt(events, K(k))
    BY <1>2, <1>3
  <2>2. KeptAt(events, K(k)) \in Seq(SE) /\ Range(KeptAt(events, K(k))) = {events[j] : j \in K(k)}
    BY <1>1, KeptAtSeq
  <2>3. {events[j] : j \in K(k)} = {e \in Range(events) : nearest(its, e) = k}
    BY DEF Range
  <2> QED
    BY <2>1, <2>2, <2>3, <1>1
<1>5. DOMAIN steps = 1..Len(I)
  BY <1>2, <1>3
<1> QED
  BY <1>1, <1>4, <1>5 DEF Correlated, its, events, steps

LEMMA NearestCauseHolds == DataTypes => NearestCause
<1> SUFFICES ASSUME DataTypes PROVE NearestCause
  OBVIOUS
<1> DEFINE I == allInteractions  E == allNetworkEvents  its == ByTime(I)  steps == compiledSteps
<1>1. I \in Seq(Interaction) /\ E \in Seq(Event)
  BY Interactions, NetworkEvents
<1>2. (\A i \in Interaction : i.time \in Nat) /\ (\A e \in Event : e.time \in Nat)
  BY TimesAre DEF Interaction, Event
<1>3. steps = correlate(I, E)
  BY DEF compiledSteps
<1> HIDE DEF I, E, steps
<1>4. /\ its \in Seq(Interaction) /\ SortedPairs(its) /\ Len(its) = Len(I)
      /\ DOMAIN steps = 1..Len(I)
      /\ \A k \in 1..Len(I) :
           /\ steps[k].time = its[k].time
           /\ Range(steps[k].events) = {e \in Range(E) : nearest(its, e) = k}
  <2>1. Correlated(I, Interaction, E, Event)
    BY <1>1, <1>2, correlateIs
  <2> QED
    BY <2>1, <1>3 DEF Correlated
<1> HIDE DEF its
<1>5. ASSUME NEW e \in Range(E)
      PROVE  LET causes == {k \in DOMAIN steps : e.time - steps[k].time \in 0..Window}
                 of == {k \in DOMAIN steps : e \in Range(steps[k].events)}
             IN /\ causes = {} <=> of = {}
                /\ \A k \in of : k \in causes /\ \A j \in causes : j <= k
  <2> DEFINE n == nearest(its, e)
             causes == {k \in DOMAIN its : e.time - its[k].time \in 0..Window}
  <2>1. e \in Event /\ e.time \in Nat
    BY <1>1, <1>2 DEF Range
  <2>2. /\ n \in 0..Len(its)
        /\ n = 0 <=> causes = {}
        /\ n # 0 => n \in causes /\ \A k \in causes : k <= n
    BY <1>2, <1>4, <2>1, NearestIs
  <2>3. DOMAIN its = 1..Len(I) /\ Len(I) \in Nat
    BY <1>1, <1>4
  <2>4. {k \in DOMAIN steps : e.time - steps[k].time \in 0..Window} = causes
    BY <1>4, <2>3
  <2>5. {k \in DOMAIN steps : e \in Range(steps[k].events)} = {k \in 1..Len(I) : k = n}
    BY <1>4
  <2> HIDE DEF n, causes
  <2> QED
    BY <2>2, <2>3, <2>4, <2>5, <1>4, SMTT(30)
<1> QED
  BY <1>5 DEF NearestCause, steps, E

-----------------------------------------------------------------------------
(* The stubs. *)

(* What is kept of a list in order is in order. *)
LEMMA KeptSorted ==
  ASSUME NEW S, \A x \in S : x.time \in Nat, NEW s \in Seq(S), SortedPairs(s),
         NEW K, K \subseteq DOMAIN s
  PROVE  SortedPairs(KeptAt(s, K))
<1> DEFINE q == KeptAt(s, K)  f == InOrder(K)  n == Cardinality(K)
<1>1. Len(s) \in Nat /\ DOMAIN s = 1..Len(s)
  OBVIOUS
<1>2. /\ n \in Nat /\ f \in [1..n -> K]
      /\ \A j, k \in 1..n : j < k => f[j] < f[k]
      /\ q = [k \in 1..n |-> s[f[k]]]
  BY <1>1, KeptAtIs DEF KeptInOrder
<1> SUFFICES ASSUME NEW j \in 1..n, NEW k \in 1..n, j <= k
             PROVE  q[j].time <= q[k].time
  BY <1>2 DEF SortedPairs
<1> HIDE DEF q, f, n
<1>3. f[j] \in DOMAIN s /\ f[k] \in DOMAIN s /\ f[j] <= f[k]
  <2>1. f[j] \in DOMAIN s /\ f[k] \in DOMAIN s
    BY <1>2
  <2>2. CASE j = k
    BY <2>1, <2>2, <1>1
  <2>3. CASE j # k
    <3>1. f[j] < f[k] /\ f[j] \in Nat /\ f[k] \in Nat
      BY <2>1, <2>3, <1>1, <1>2
    <3> QED
      BY <2>1, <3>1
  <2> QED
    BY <2>2, <2>3
<1> QED
  BY <1>2, <1>3 DEF SortedPairs

(* The captures of compiled steps are the events with a cause, and they    *)
(* are in order of time from one step to the next and within a step.       *)
CapturesInOrder(steps) ==
  \A k, m \in DOMAIN steps : \A i \in DOMAIN steps[k].events, j \in DOMAIN steps[m].events :
    k < m \/ (k = m /\ i <= j) => steps[k].events[i].time <= steps[m].events[j].time

LEMMA CompiledCaptures ==
  DataTypes =>
    LET steps == compiledSteps IN
    /\ Len(allInteractions) \in Nat /\ DOMAIN steps = 1..Len(allInteractions)
    /\ \A k \in DOMAIN steps : steps[k].events \in Seq(Event)
    /\ Captures(steps) = {e \in Range(allNetworkEvents) : nearest(allInteractions, e) # 0}
    /\ CapturesInOrder(steps)
<1> SUFFICES ASSUME DataTypes
             PROVE  LET steps == compiledSteps IN
                    /\ Len(allInteractions) \in Nat /\ DOMAIN steps = 1..Len(allInteractions)
                    /\ \A k \in DOMAIN steps : steps[k].events \in Seq(Event)
                    /\ Captures(steps) = {e \in Range(allNetworkEvents) : nearest(allInteractions, e) # 0}
                    /\ CapturesInOrder(steps)
  OBVIOUS
<1> DEFINE I == allInteractions  E == allNetworkEvents  its == ByTime(I)
           events == ByTime(E)  steps == compiledSteps
<1>1. I \in Seq(Interaction) /\ E \in Seq(Event)
  BY Interactions, NetworkEvents
<1>2. (\A i \in Interaction : i.time \in Nat) /\ (\A e \in Event : e.time \in Nat)
  BY TimesAre DEF Interaction, Event
<1>3. steps = correlate(I, E)
  BY DEF compiledSteps
<1>4. SortedPairs(I)
  <2>1. ByTime(taps) \in Seq(Interaction)
    BY <1>2, ByTimeIs DEF DataTypes
  <2>2. ByTime(taps) \o extractTrackEvents(allNetworkEvents) \in Seq(Interaction)
    BY <2>1, Interactions
  <2> QED
    BY <1>2, <2>2, ByTimeIs DEF allInteractions
<1> HIDE DEF I, E, steps
<1>5. Len(I) \in Nat /\ DOMAIN I = 1..Len(I) /\ Range(its) = Range(I)
  BY <1>1, <1>2, ByTimeIs
<1>6. /\ its \in Seq(Interaction) /\ SortedPairs(its) /\ Len(its) = Len(I)
      /\ events \in Seq(Event) /\ SortedPairs(events) /\ Range(events) = Range(E)
      /\ DOMAIN steps = 1..Len(I)
      /\ \A k \in 1..Len(I) :
           /\ steps[k].events = KeptAt(events, {j \in DOMAIN events : nearest(its, events[j]) = k})
           /\ steps[k].events \in Seq(Event)
           /\ Range(steps[k].events) = {e \in Range(E) : nearest(its, e) = k}
  <2>1. Correlated(I, Interaction, E, Event)
    BY <1>1, <1>2, correlateIs
  <2> QED
    BY <2>1, <1>3 DEF Correlated
<1> HIDE DEF its, events
<1>7. \A e \in Range(E) : e \in Event /\ e.time \in Nat
  BY <1>1, <1>2 DEF Range
<1>8. ASSUME NEW e \in Range(E)
      PROVE  nearest(its, e) \in 0..Len(I) /\ (nearest(its, e) # 0 <=> nearest(I, e) # 0)
  <2> DEFINE causes(s) == {k \in DOMAIN s : e.time - s[k].time \in 0..Window}
  <2>1. nearest(its, e) \in 0..Len(its) /\ (nearest(its, e) = 0 <=> causes(its) = {})
    BY <1>2, <1>6, <1>7, NearestIs
  <2>2. nearest(I, e) = 0 <=> causes(I) = {}
    BY <1>1, <1>2, <1>4, <1>7, NearestIs
  <2>3. causes(its) = {} <=> causes(I) = {}
    <3>1. \A s : causes(s) = {} <=> \A x \in Range(s) : e.time - x.time \notin 0..Window
      BY DEF Range
    <3> HIDE DEF causes
    <3> QED
      BY <3>1, <1>5
  <2> HIDE DEF causes
  <2> QED
    BY <2>1, <2>2, <2>3, <1>6
<1>9. Captures(steps) = {e \in Range(E) : nearest(I, e) # 0}
  <2>1. ASSUME NEW e \in Captures(steps)
        PROVE  e \in Range(E) /\ nearest(I, e) # 0
    <3>1. PICK st \in Range(steps) : e \in Range(st.events)
      BY DEF Captures
    <3>2. PICK k \in 1..Len(I) : st = steps[k]
      BY <3>1, <1>6 DEF Range
    <3>3. e \in Range(E) /\ nearest(its, e) = k
      BY <3>1, <3>2, <1>6
    <3> QED
      BY <3>3, <1>5, <1>8
  <2>2. ASSUME NEW e \in Range(E), nearest(I, e) # 0
        PROVE  e \in Captures(steps)
    <3>1. nearest(its, e) \in 1..Len(I)
      BY <2>2, <1>5, <1>8
    <3>2. e \in Range(steps[nearest(its, e)].events) /\ steps[nearest(its, e)] \in Range(steps)
      BY <3>1, <1>6 DEF Range
    <3> QED
      BY <3>2 DEF Captures
  <2> QED
    BY <2>1, <2>2
<1>10. ASSUME NEW k \in 1..Len(I), NEW m \in 1..Len(I),
              NEW i \in DOMAIN steps[k].events, NEW j \in DOMAIN steps[m].events,
              k < m \/ (k = m /\ i <= j)
       PROVE  steps[k].events[i].time <= steps[m].events[j].time
  <2> DEFINE a == steps[k].events[i]  b == steps[m].events[j]
  <2>1. a \in Range(E) /\ nearest(its, a) = k /\ b \in Range(E) /\ nearest(its, b) = m
    <3>1. a \in Range(steps[k].events) /\ b \in Range(steps[m].events)
      BY DEF Range
    <3> QED
      BY <3>1, <1>6
  <2>2. CASE k = m
    <3>1. SortedPairs(steps[k].events)
      <4> DEFINE X == {x \in DOMAIN events : nearest(its, events[x]) = k}
      <4>1. X \subseteq DOMAIN events /\ steps[k].events = KeptAt(events, X)
        BY <1>6
      <4> HIDE DEF X
      <4>2. SortedPairs(KeptAt(events, X))
        BY <4>1, <1>2, <1>6, KeptSorted
      <4> QED
        BY <4>1, <4>2
    <3>2. i <= j /\ j \in DOMAIN steps[k].events /\ b = steps[k].events[j]
      BY <1>10, <1>5, <2>2
    <3> QED
      BY <3>1, <3>2 DEF SortedPairs
  <2>3. CASE k # m
    <3> DEFINE causes(e) == {x \in DOMAIN its : e.time - its[x].time \in 0..Window}
    <3> HIDE DEF a, b
    <3>0. ASSUME NEW e \in Range(E), NEW n \in 1..Len(I), nearest(its, e) = n
          PROVE  n \in causes(e) /\ \A x \in causes(e) : x <= n
      <4>1. /\ nearest(its, e) = 0 <=> causes(e) = {}
            /\ nearest(its, e) # 0 =>
                 nearest(its, e) \in causes(e) /\ \A x \in causes(e) : x <= nearest(its, e)
        BY <1>2, <1>6, <1>7, NearestIs
      <4>2. n # 0
        BY <1>5
      <4> HIDE DEF causes
      <4> QED
        BY <3>0, <4>1, <4>2
    <3>1. m \in causes(b) /\ k \in causes(a) /\ \A x \in causes(a) : x <= k
      <4> HIDE DEF causes
      <4> QED
        BY <2>1, <3>0
    <3>2. k < m /\ m \in 1..Len(I) /\ a.time \in Nat /\ b.time \in Nat /\ Window \in Nat
      BY <1>10, <2>3, <2>1, <1>7, DataAssumption
    <3>3. DOMAIN its = 1..Len(I) /\ its[m].time \in Nat /\ its[k].time \in Nat /\ its[k].time <= its[m].time
      BY <1>6, <1>2, <3>2 DEF SortedPairs
    <3>4. m \notin causes(a)
      BY <3>1, <3>2, <1>5
    <3>5. a.time < its[m].time /\ its[m].time <= b.time
      BY <3>1, <3>2, <3>3, <3>4, SMTT(30)
    <3> QED
      BY <3>2, <3>3, <3>5 DEF a, b
  <2> QED
    BY <2>2, <2>3
<1>11. CapturesInOrder(steps)
  BY <1>6, <1>10 DEF CapturesInOrder
<1> QED
  BY <1>5, <1>6, <1>9, <1>11 DEF I, E, steps

(* The stub of a fixture is the latest capture of it. *)
LEMMA stubIs ==
  ASSUME NEW steps, NEW N \in Nat, DOMAIN steps = 1..N,
         \A k \in DOMAIN steps : steps[k].events \in Seq(Event),
         CapturesInOrder(steps),
         NEW id, \E e \in Captures(steps) : FixtureOf[e.url] = id
  PROVE  /\ stub(steps, id) \in Captures(steps) /\ FixtureOf[stub(steps, id).url] = id
         /\ \A e \in Captures(steps) : FixtureOf[e.url] = id => e.time <= stub(steps, id).time
<1> DEFINE Of(s) == {k \in DOMAIN s.events : FixtureOf[s.events[k].url] = id}
           have == {k \in DOMAIN steps : Of(steps[k]) # {}}
           last == Max(have)
           at == Max(Of(steps[last]))
<1>1. \A e \in Captures(steps) : \E k \in DOMAIN steps :
        \E i \in DOMAIN steps[k].events : e = steps[k].events[i]
  BY DEF Captures, Range
<1>2. have \subseteq 1..N /\ have # {}
  BY <1>1
<1>3. last \in have /\ \A k \in have : k <= last
  <2>1. have \subseteq Nat /\ \A k \in have : k <= N
    BY <1>2
  <2> HIDE DEF have
  <2> QED
    BY <2>1, <1>2, MaxIs
<1> HIDE DEF last
<1>4. last \in DOMAIN steps /\ Of(steps[last]) # {} /\ steps[last].events \in Seq(Event)
  BY <1>3
<1>5. at \in Of(steps[last]) /\ \A i \in Of(steps[last]) : i <= at
  <2> DEFINE X == Of(steps[last])
  <2>1. /\ X \subseteq Nat /\ Len(steps[last].events) \in Nat
        /\ \A i \in X : i <= Len(steps[last].events)
    BY <1>4
  <2> HIDE DEF X
  <2> QED
    BY <1>4, <2>1, MaxIs DEF X
<1> HIDE DEF at
<1>6. stub(steps, id) = steps[last].events[at]
  BY DEF stub, last, at
<1>7. at \in DOMAIN steps[last].events /\ FixtureOf[steps[last].events[at].url] = id
  BY <1>5
<1>8. stub(steps, id) \in Captures(steps)
  BY <1>4, <1>6, <1>7 DEF Captures, Range
<1>9. ASSUME NEW e \in Captures(steps), FixtureOf[e.url] = id
      PROVE  e.time <= stub(steps, id).time
  <2>0. PICK k \in DOMAIN steps : \E i \in DOMAIN steps[k].events : e = steps[k].events[i]
    BY <1>1
  <2>1. PICK i \in DOMAIN steps[k].events : e = steps[k].events[i]
    BY <2>0
  <2>2. i \in Of(steps[k]) /\ k \in have
    BY <2>1, <1>9
  <2>3. k <= last /\ k \in 1..N /\ last \in 1..N
    BY <2>2, <1>3, <1>2
  <2>4. k < last \/ (k = last /\ i <= at)
    BY <2>2, <2>3, <1>5
  <2> QED
    BY <2>1, <2>4, <1>4, <1>6, <1>7 DEF CapturesInOrder
<1> QED
  BY <1>6, <1>7, <1>8, <1>9

LEMMA StubsAreLatestHolds == DataTypes => StubsAreLatest
<1> SUFFICES ASSUME DataTypes PROVE StubsAreLatest
  OBVIOUS
<1> DEFINE its == allInteractions
           steps == compiledSteps
           E == {e \in Range(allNetworkEvents) : nearest(its, e) # 0}
           R(u) == {e \in E : FixtureOf[e.url] = FixtureOf[u]}
           Rivals == [u \in DOMAIN FixtureOf |-> {e \in E : FixtureOf[e.url] = FixtureOf[u]}]
<1>1. /\ Len(its) \in Nat /\ DOMAIN steps = 1..Len(its)
      /\ \A k \in DOMAIN steps : steps[k].events \in Seq(Event)
      /\ Captures(steps) = E /\ CapturesInOrder(steps)
  BY CompiledCaptures
<1>2. \A e \in E : e \in Event /\ e.url \in Url
  <2>1. \A e \in Range(allNetworkEvents) : e \in Event
    BY NetworkEvents DEF Range
  <2>2. \A e \in Event : e.url \in Url
    BY DataAssumption DEF Event, Url
  <2> QED
    BY <2>1, <2>2
<1>3. allNetworkEvents = <<>> => E = {}
  BY DEF Range
<1> HIDE DEF its, steps, E
<1>4. ASSUME NEW e \in E
      PROVE  LET s == stub(steps, FixtureOf[e.url]) IN
             /\ s \in E /\ FixtureOf[s.url] = FixtureOf[e.url]
             /\ \A r \in E : FixtureOf[r.url] = FixtureOf[e.url] => r.time <= s.time
  <2>1. \E c \in Captures(steps) : FixtureOf[c.url] = FixtureOf[e.url]
    BY <1>1
  <2> QED
    BY <2>1, <1>1, stubIs
<1>5. ASSUME NEW mode \in {"full", "include", "exclude"}, NEW routes \in {{}, {"feed"}}
      PROVE  LET stubs == compiledStubs(steps, mode, routes, TRUE)
                 answer == [u \in DOMAIN FixtureOf |-> handleRequest(stubs, u)]
             IN \A u \in DOMAIN FixtureOf :
                  /\ answer[u].from = "fixture" => LET s == answer[u].of IN
                       /\ s \in E /\ s.url = u /\ Mocked(u, mode, routes)
                       /\ \A e \in Rivals[u] : e.time <= s.time
                  /\ mode = "full" /\ Rivals[u] # {} =>
                       \E e \in Rivals[u] : answer[e.url].from = "fixture"
  <2> DEFINE stubs == compiledStubs(steps, mode, routes, TRUE)
             hits(u) == {e \in stubs.mappings : e.url = u}
             unique == {stub(steps, FixtureOf[e.url]) : e \in E}
             answer == [u \in DOMAIN FixtureOf |-> handleRequest(stubs, u)]
  <2>1. stubs.mappings = {e \in unique : Mocked(e.url, mode, routes)}
    BY <1>1, <1>3 DEF compiledStubs, writeStubs
  <2>2. \A s \in unique : s \in E /\ \A r \in E : FixtureOf[r.url] = FixtureOf[s.url] => r.time <= s.time
    BY <1>4
  <2> HIDE DEF unique, stubs
  <2>3. ASSUME NEW u \in DOMAIN FixtureOf, handleRequest(stubs, u).from = "fixture"
        PROVE  LET s == handleRequest(stubs, u).of IN
               /\ s \in E /\ s.url = u /\ Mocked(u, mode, routes)
               /\ \A e \in R(u) : e.time <= s.time
    <3>1. hits(u) # {} /\ handleRequest(stubs, u).of = CHOOSE e \in hits(u) : TRUE
      BY <2>3 DEF handleRequest, serveMapping
    <3>2. PICK s \in hits(u) : s = handleRequest(stubs, u).of
      BY <3>1
    <3>3. s \in unique /\ s.url = u /\ Mocked(s.url, mode, routes)
      BY <3>2, <2>1
    <3> QED
      BY <3>2, <3>3, <2>2
  <2>4. ASSUME NEW u \in DOMAIN FixtureOf, mode = "full", R(u) # {}
        PROVE  \E e \in R(u) : answer[e.url].from = "fixture"
    <3>1. PICK r \in E : FixtureOf[r.url] = FixtureOf[u]
      BY <2>4
    <3> DEFINE s == stub(steps, FixtureOf[r.url])
    <3>2. s \in R(u) /\ s \in unique
      BY <3>1, <1>4 DEF unique
    <3> HIDE DEF s
    <3>3. s \in hits(s.url) /\ s.url \in DOMAIN FixtureOf
      BY <3>2, <2>1, <2>4, <1>2 DEF Mocked, Url
    <3>4. handleRequest(stubs, s.url).from = "fixture"
      BY <3>3 DEF handleRequest, serveMapping
    <3> QED
      BY <3>2, <3>3, <3>4
  <2>5. \A u \in DOMAIN FixtureOf : Rivals[u] = R(u) /\ answer[u] = handleRequest(stubs, u)
    OBVIOUS
  <2> HIDE DEF R, Rivals, answer
  <2> QED
    BY <2>3, <2>4, <2>5 DEF stubs, answer
<1> QED
  BY <1>5 DEF StubsAreLatest, its, steps, E

-----------------------------------------------------------------------------
(* The verdict on a sequence. *)

(* The recursive functions of the verdicts are what their definitions say. *)
Cursor == [cursor : Nat \ {0}, deviates : BOOLEAN]

(* The recursive function of verifySequence. *)
Greedy(acc, N, ordered, expected) ==
  acc = [n \in 0..N |-> IF n = 0 THEN [cursor |-> 1, deviates |-> FALSE]
                        ELSE Advance(acc[n - 1], ordered[n], expected)]

(* A step of the cursor; see Advance. *)
LEMMA AdvanceType ==
  ASSUME NEW c \in Cursor, NEW e, NEW expected
  PROVE  Advance(c, e, expected) \in Cursor
<1>1. c.cursor + 1 \in Nat \ {0}
  BY DEF Cursor
<1>2. [c EXCEPT !.cursor = c.cursor + 1] \in Cursor
  BY <1>1 DEF Cursor
<1>3. [c EXCEPT !.deviates = TRUE] \in Cursor
  BY DEF Cursor
<1> QED
  BY <1>2, <1>3 DEF Advance

LEMMA CursorExists ==
  ASSUME NEW ordered, NEW N \in Nat, NEW expected
  PROVE  \E acc : Greedy(acc, N, ordered, expected)
<1> DEFINE b == [cursor |-> 1, deviates |-> FALSE]
           G == [x \in (1..N) \X Cursor |-> Advance(x[2], ordered[x[1]], expected)]
<1>1. b \in Cursor
  BY DEF Cursor
<1>2. \A n \in 1..N, c \in Cursor : Advance(c, ordered[n], expected) \in Cursor
  BY AdvanceType
<1>3. G \in [(1..N) \X Cursor -> Cursor]
  BY <1>2
<1>4. PICK f : Iterates(f, N, Cursor, b, G)
  <2> HIDE DEF G, b
  <2> QED
    BY <1>1, <1>3, Recursion
<1>5. \A n \in 1..N : f[n] = Advance(f[n - 1], ordered[n], expected)
  <2> TAKE n \in 1..N
  <2>1. f[n - 1] \in Cursor /\ <<n, f[n - 1]>> \in (1..N) \X Cursor
    BY <1>4 DEF Iterates
  <2> QED
    BY <2>1, <1>4 DEF Iterates
<1>6. f = [n \in 0..N |-> IF n = 0 THEN b ELSE Advance(f[n - 1], ordered[n], expected)]
  <2>1. \A n \in 0..N : f[n] = IF n = 0 THEN b ELSE Advance(f[n - 1], ordered[n], expected)
    BY <1>4, <1>5 DEF Iterates
  <2>2. f = [n \in 0..N |-> f[n]]
    BY <1>4 DEF Iterates
  <2> HIDE DEF b, G
  <2> QED
    BY <2>1, <2>2
<1> QED
  BY <1>6 DEF Greedy

LEMMA CursorIs ==
  ASSUME NEW ordered, NEW N \in Nat, NEW expected,
         NEW acc, Greedy(acc, N, ordered, expected)
  PROVE  /\ acc[0] = [cursor |-> 1, deviates |-> FALSE]
         /\ \A n \in 1..N : acc[n] = Advance(acc[n - 1], ordered[n], expected)
         /\ \A n \in 0..N : acc[n] \in Cursor
<1> DEFINE b == [cursor |-> 1, deviates |-> FALSE]
<1>1. b \in Cursor
  BY DEF Cursor
<1>2. \A n \in 0..N : acc[n] = IF n = 0 THEN b ELSE Advance(acc[n - 1], ordered[n], expected)
  <2> HIDE DEF b
  <2>1. acc = [n \in 0..N |-> IF n = 0 THEN b ELSE Advance(acc[n - 1], ordered[n], expected)]
    BY DEF b, Greedy
  <2> QED
    BY <2>1
<1> HIDE DEF b
<1>3. acc[0] = b /\ \A n \in 1..N : acc[n] = Advance(acc[n - 1], ordered[n], expected)
  BY <1>2
<1>4. \A n \in 0..N : acc[n] \in Cursor
  <2> DEFINE T == {n \in Nat : n <= N => acc[n] \in Cursor}
  <2>1. 0 \in T
    BY <1>1, <1>3
  <2>2. ASSUME NEW n \in Nat, n \in T  PROVE n + 1 \in T
    <3> SUFFICES ASSUME n + 1 <= N  PROVE acc[n + 1] \in Cursor
      OBVIOUS
    <3>1. acc[n + 1] = Advance(acc[n], ordered[n + 1], expected) /\ acc[n] \in Cursor
      <4>1. n + 1 \in 1..N /\ (n + 1) - 1 = n
        OBVIOUS
      <4>2. acc[n] \in Cursor
        BY <2>2
      <4> QED
        BY <4>1, <4>2, <1>3
    <3> QED
      BY <3>1, AdvanceType
  <2> HIDE DEF T
  <2>3. \A n \in Nat : n \in T
    BY <2>1, <2>2, NatInd
  <2> QED
    BY <2>3 DEF T
<1> QED
  BY <1>3, <1>4 DEF b

(* What the cursor tells: the calls expected are met one by one, or at once. *)
LEMMA CursorTells ==
  ASSUME NEW N \in Nat, NEW ordered, NEW L \in Nat, NEW expected, Len(expected) = L,
         NEW acc, acc[0] = [cursor |-> 1, deviates |-> FALSE],
         \A n \in 1..N : acc[n] = Advance(acc[n - 1], ordered[n], expected),
         \A n \in 0..N : acc[n] \in Cursor
  PROVE  /\ acc[N].cursor > L <=>
              \E f \in [1..L -> 1..N] :
                /\ \A k \in 1..L : Matches(ordered[f[k]], expected[k])
                /\ \A j, k \in 1..L : j < k => f[j] < f[k]
         /\ acc[N].cursor > L /\ ~acc[N].deviates <=>
              L <= N /\ \A k \in 1..L : Matches(ordered[k], expected[k])
<1> DEFINE M(n, k) == Matches(ordered[n], expected[k])
<1>1. /\ acc[0].cursor = 1 /\ acc[0].deviates = FALSE
      /\ \A n \in 0..N : acc[n].cursor \in Nat /\ acc[n].cursor > 0 /\ acc[n].deviates \in BOOLEAN
  BY DEF Cursor
<1>2. ASSUME NEW n \in Nat, n + 1 <= N
      PROVE  /\ acc[n].cursor > L => acc[n + 1] = acc[n]
             /\ acc[n].cursor <= L /\ M(n + 1, acc[n].cursor) =>
                  /\ acc[n + 1].cursor = acc[n].cursor + 1
                  /\ acc[n + 1].deviates = acc[n].deviates
             /\ acc[n].cursor <= L /\ ~M(n + 1, acc[n].cursor) =>
                  acc[n + 1].cursor = acc[n].cursor /\ acc[n + 1].deviates
  <2>1. n + 1 \in 1..N /\ n \in 0..N /\ (n + 1) - 1 = n
    BY <1>2
  <2>2. acc[n + 1] = Advance(acc[n], ordered[n + 1], expected) /\ acc[n] \in Cursor
    BY <2>1
  <2>3. acc[n].cursor \in Nat
    BY <2>1, <1>1
  <2> DEFINE c == acc[n]
  <2> HIDE DEF M
  <2>4. c.cursor > L => acc[n + 1] = c
    BY <2>2 DEF Advance
  <2>5. c.cursor <= L /\ M(n + 1, c.cursor) => acc[n + 1] = [c EXCEPT !.cursor = c.cursor + 1]
    BY <2>2, <2>3 DEF Advance, M
  <2>6. c.cursor <= L /\ ~M(n + 1, c.cursor) => acc[n + 1] = [c EXCEPT !.deviates = TRUE]
    BY <2>2, <2>3 DEF Advance, M
  <2>7. /\ [c EXCEPT !.cursor = c.cursor + 1].cursor = c.cursor + 1
        /\ [c EXCEPT !.cursor = c.cursor + 1].deviates = c.deviates
        /\ [c EXCEPT !.deviates = TRUE].cursor = c.cursor
        /\ [c EXCEPT !.deviates = TRUE].deviates
    BY <2>2 DEF Cursor
  <2> QED
    BY <2>4, <2>5, <2>6, <2>7
<1> HIDE DEF M
<1>3. \A n \in Nat : n <= N =>
        \E f \in [1..(acc[n].cursor - 1) -> 1..n] :
          /\ acc[n].cursor <= L + 1
          /\ \A k \in 1..(acc[n].cursor - 1) : M(f[k], k)
          /\ \A j, k \in 1..(acc[n].cursor - 1) : j < k => f[j] < f[k]
  <2> DEFINE T == {n \in Nat : n <= N =>
        \E f \in [1..(acc[n].cursor - 1) -> 1..n] :
          /\ acc[n].cursor <= L + 1
          /\ \A k \in 1..(acc[n].cursor - 1) : M(f[k], k)
          /\ \A j, k \in 1..(acc[n].cursor - 1) : j < k => f[j] < f[k]}
  <2>1. 0 \in T
    <3> DEFINE c == acc[0].cursor
               e == [k \in 1..0 |-> 0]
    <3>1. c = 1 /\ c - 1 = 0 /\ c <= L + 1
      BY <1>1
    <3>2. e \in [1..0 -> 1..0] /\ 1..0 = {}
      OBVIOUS
    <3> HIDE DEF c, e
    <3>3. \E f \in [1..(c - 1) -> 1..0] :
            /\ c <= L + 1
            /\ \A k \in 1..(c - 1) : M(f[k], k)
            /\ \A j, k \in 1..(c - 1) : j < k => f[j] < f[k]
      BY <3>1, <3>2
    <3> QED
      BY <3>3 DEF c
  <2>2. ASSUME NEW n \in Nat, n \in T  PROVE n + 1 \in T
    <3> SUFFICES ASSUME n + 1 <= N
        PROVE \E f \in [1..(acc[n + 1].cursor - 1) -> 1..(n + 1)] :
          /\ acc[n + 1].cursor <= L + 1
          /\ \A k \in 1..(acc[n + 1].cursor - 1) : M(f[k], k)
          /\ \A j, k \in 1..(acc[n + 1].cursor - 1) : j < k => f[j] < f[k]
      BY SMTT(30)
    <3> DEFINE c == acc[n].cursor
    <3>1. PICK f \in [1..(c - 1) -> 1..n] :
          /\ c <= L + 1
          /\ \A k \in 1..(c - 1) : M(f[k], k)
          /\ \A j, k \in 1..(c - 1) : j < k => f[j] < f[k]
      BY <2>2
    <3>2. c \in Nat /\ c > 0
      BY <1>1
    <3>3. CASE c <= L /\ M(n + 1, c)
      <4> DEFINE g == [k \in 1..c |-> IF k = c THEN n + 1 ELSE f[k]]
      <4>1. acc[n + 1].cursor = c + 1
        BY <1>2, <3>3
      <4> HIDE DEF c
      <4>2. g \in [1..c -> 1..(n + 1)]
        BY <3>2
      <4>3. \A k \in 1..c : M(g[k], k)
        BY <3>1, <3>2, <3>3
      <4>4. \A j, k \in 1..c : j < k => g[j] < g[k]
        BY <3>1, <3>2
      <4>5. (c + 1) - 1 = c
        BY <3>2
      <4> HIDE DEF g
      <4>6. c + 1 <= L + 1
        BY <3>3, <3>2
      <4> QED
        BY <4>1, <4>2, <4>3, <4>4, <4>5, <4>6
    <3>4. CASE ~(c <= L /\ M(n + 1, c))
      <4>1. acc[n + 1].cursor = c
        BY <1>2, <3>2, <3>4
      <4> HIDE DEF c
      <4>2. f \in [1..(c - 1) -> 1..(n + 1)]
        OBVIOUS
      <4> QED
        BY <4>1, <4>2, <3>1
    <3> QED
      BY <3>3, <3>4
  <2> HIDE DEF T
  <2>3. \A n \in Nat : n \in T
    BY <2>1, <2>2, NatInd
  <2> QED
    BY <2>3 DEF T
<1>4. ASSUME NEW f \in [1..L -> 1..N], \A k \in 1..L : M(f[k], k),
             \A j, k \in 1..L : j < k => f[j] < f[k]
      PROVE  acc[N].cursor > L
  <2> DEFINE Ahead(n) == \A k \in 1..L : f[k] <= n => acc[n].cursor > k
             T == {n \in Nat : n <= N => Ahead(n)}
  <2>1. 0 \in T
    BY <1>4
  <2>2. ASSUME NEW n \in Nat, n \in T  PROVE n + 1 \in T
    <3> HIDE DEF Ahead
    <3> SUFFICES n + 1 <= N => Ahead(n + 1)
      OBVIOUS
    <3> USE DEF Ahead
    <3> HAVE n + 1 <= N
    <3> TAKE k \in 1..L
    <3> HAVE f[k] <= n + 1
    <3>0. acc[n].cursor \in Nat /\ acc[n].cursor > 0 /\ acc[n + 1].cursor \in Nat
      BY <1>1
    <3>1. acc[n + 1].cursor >= acc[n].cursor
      <4>1. CASE acc[n].cursor > L
        BY <1>2, <3>0, <4>1
      <4>2. CASE acc[n].cursor <= L /\ M(n + 1, acc[n].cursor)
        BY <1>2, <3>0, <4>2
      <4>3. CASE acc[n].cursor <= L /\ ~M(n + 1, acc[n].cursor)
        BY <1>2, <3>0, <4>3
      <4> QED
        BY <4>1, <4>2, <4>3, <3>0
    <3>2. CASE f[k] <= n
      BY <2>2, <3>0, <3>1, <3>2
    <3>3. CASE f[k] = n + 1
      <4>1. acc[n].cursor >= k
        <5>1. CASE k = 1
          BY <3>0, <5>1
        <5>2. CASE k # 1
          <6>1. k - 1 \in 1..L /\ k - 1 < k
            BY <5>2
          <6>2. f[k - 1] < f[k]
            BY <6>1, <1>4
          <6>3. f[k - 1] <= n
            BY <6>1, <6>2, <3>3
          <6>4. acc[n].cursor > k - 1
            BY <2>2, <6>1, <6>3
          <6> QED
            BY <6>4, <3>0
        <5> QED
          BY <5>1, <5>2
      <4>2. CASE acc[n].cursor > k
        BY <4>2, <3>0, <3>1
      <4>3. CASE acc[n].cursor = k
        <5>1. acc[n].cursor <= L /\ M(n + 1, acc[n].cursor)
          BY <4>3, <3>3, <1>4
        <5>2. acc[n + 1].cursor = acc[n].cursor + 1
          BY <5>1, <1>2
        <5> QED
          BY <5>2, <4>3
      <4> QED
        BY <4>1, <4>2, <4>3, <3>0
    <3> QED
      BY <3>2, <3>3
  <2>3. N \in T
    <3> HIDE DEF T
    <3> QED
      BY <2>1, <2>2, NatInd
  <2>4. CASE L = 0
    BY <2>4, <1>1
  <2>5. CASE L # 0
    <3>1. L \in 1..L /\ f[L] <= N
      BY <2>5
    <3> QED
      BY <3>1, <2>3
  <2> QED
    BY <2>4, <2>5
<1>5. \A n \in Nat : n <= N =>
        /\ ~acc[n].deviates <=> \A k \in 1..n : k <= L => M(k, k)
        /\ ~acc[n].deviates => acc[n].cursor = (IF n <= L THEN n ELSE L) + 1
  <2> DEFINE T == {n \in Nat : n <= N =>
        /\ ~acc[n].deviates <=> \A k \in 1..n : k <= L => M(k, k)
        /\ ~acc[n].deviates => acc[n].cursor = (IF n <= L THEN n ELSE L) + 1}
  <2>1. 0 \in T
    BY <1>1
  <2>2. ASSUME NEW n \in Nat, n \in T  PROVE n + 1 \in T
    <3> SUFFICES ASSUME n + 1 <= N
        PROVE  /\ ~acc[n + 1].deviates <=> \A k \in 1..(n + 1) : k <= L => M(k, k)
               /\ ~acc[n + 1].deviates =>
                    acc[n + 1].cursor = (IF n + 1 <= L THEN n + 1 ELSE L) + 1
      OBVIOUS
    <3>1. /\ ~acc[n].deviates <=> \A k \in 1..n : k <= L => M(k, k)
          /\ ~acc[n].deviates => acc[n].cursor = (IF n <= L THEN n ELSE L) + 1
      BY <2>2
    <3>2. /\ acc[n].cursor \in Nat /\ acc[n].deviates \in BOOLEAN
          /\ acc[n + 1].deviates \in BOOLEAN /\ acc[n + 1].cursor \in Nat
      BY <1>1
    <3>3. acc[n].deviates => acc[n + 1].deviates
      BY <1>2, <3>2
    <3>4. CASE acc[n].deviates
      <4>1. ~\A k \in 1..n : k <= L => M(k, k)
        BY <3>1, <3>4
      <4>2. ~\A k \in 1..(n + 1) : k <= L => M(k, k)
        BY <4>1
      <4> QED
        BY <3>3, <3>4, <4>2
    <3>5. CASE ~acc[n].deviates /\ L <= n
      <4>1. acc[n].cursor > L
        BY <3>1, <3>5
      <4>2. acc[n + 1] = acc[n]
        BY <4>1, <1>2
      <4> QED
        BY <4>1, <4>2, <3>1, <3>5
    <3>6. CASE ~acc[n].deviates /\ n < L
      <4>1. acc[n].cursor = n + 1 /\ n + 1 <= L
        BY <3>1, <3>6
      <4>2. CASE M(n + 1, n + 1)
        <5>1. acc[n + 1].cursor = n + 1 + 1 /\ acc[n + 1].deviates = acc[n].deviates
          BY <4>1, <4>2, <1>2
        <5>2. \A k \in 1..(n + 1) : k <= L => M(k, k)
          BY <3>1, <3>6, <4>2
        <5> QED
          BY <4>1, <5>1, <5>2, <3>6
      <4>3. CASE ~M(n + 1, n + 1)
        <5>1. acc[n + 1].deviates
          BY <4>1, <4>3, <1>2
        <5>2. n + 1 \in 1..(n + 1)
          OBVIOUS
        <5> QED
          BY <4>1, <4>3, <5>1, <5>2
      <4> QED
        BY <4>2, <4>3
    <3> QED
      BY <3>4, <3>5, <3>6, <3>2
  <2> HIDE DEF T
  <2>3. \A n \in Nat : n \in T
    BY <2>1, <2>2, NatInd
  <2> QED
    BY <2>3 DEF T
<1>6. acc[N].cursor \in Nat /\ acc[N].deviates \in BOOLEAN
  BY <1>1
<1>7. ASSUME acc[N].cursor > L
      PROVE  \E f \in [1..L -> 1..N] :
               /\ \A k \in 1..L : M(f[k], k)
               /\ \A j, k \in 1..L : j < k => f[j] < f[k]
  <2>1. PICK f \in [1..(acc[N].cursor - 1) -> 1..N] :
          /\ acc[N].cursor <= L + 1
          /\ \A k \in 1..(acc[N].cursor - 1) : M(f[k], k)
          /\ \A j, k \in 1..(acc[N].cursor - 1) : j < k => f[j] < f[k]
    BY <1>3
  <2>2. acc[N].cursor - 1 = L
    BY <2>1, <1>6, <1>7
  <2> QED
    BY <2>1, <2>2
<1>8. acc[N].cursor > L /\ ~acc[N].deviates <=> L <= N /\ \A k \in 1..L : M(k, k)
  <2>1. /\ ~acc[N].deviates <=> \A k \in 1..N : k <= L => M(k, k)
        /\ ~acc[N].deviates => acc[N].cursor = (IF N <= L THEN N ELSE L) + 1
    BY <1>5
  <2>2. ASSUME acc[N].cursor > L, ~acc[N].deviates
        PROVE  L <= N /\ \A k \in 1..L : M(k, k)
    <3>1. L <= N
      BY <2>1, <2>2, <1>6
    <3> QED
      BY <2>1, <2>2, <3>1
  <2>3. ASSUME L <= N, \A k \in 1..L : M(k, k)
        PROVE  acc[N].cursor > L /\ ~acc[N].deviates
    <3>1. ~acc[N].deviates
      BY <2>1, <2>3
    <3> QED
      BY <2>1, <2>3, <3>1
  <2> QED
    BY <2>2, <2>3
<1> QED
  BY <1>4, <1>7, <1>8 DEF M

(* The anchors there are. *)
Anchors == {None, Lost} \cup {Anchor(t) : t \in Times}

LEMMA AnchorsAre ==
  \A a \in Anchors : /\ a.at \in {"none", "lost", "time"} /\ a.time \in Nat
                     /\ a.at = "time" => a.time \in Times
<1> TAKE a \in Anchors
<1>1. CASE a \in {None, Lost}
  BY <1>1 DEF None, Lost
<1>2. CASE \E t \in Times : a = Anchor(t)
  <2>1. PICK t \in Times : a = Anchor(t)
    BY <1>2
  <2>2. t \in Nat
    BY TimesAre
  <2> QED
    BY <2>1, <2>2 DEF Anchor
<1> QED
  BY <1>1, <1>2 DEF Anchors

(* The requests within the window of an anchor. *)
InWindow(e, a, within) ==
  a.at # "lost" /\ (a.at = "time" => e.time \in a.time..(a.time + within))

LEMMA WindowIs ==
  ASSUME NEW s \in Seq(Event), NEW a \in Anchors, NEW within \in Nat
  PROVE  /\ resolveWindow(s, a, within) \in Seq(Event)
         /\ Range(resolveWindow(s, a, within)) = {e \in Range(s) : InWindow(e, a, within)}
<1>0. \A e \in Event : e.time \in Nat
  BY TimesAre DEF Event
<1>1. a.at \in {"none", "lost", "time"} /\ a.time \in Nat
  BY AnchorsAre
<1>2. CASE a.at = "none"
  BY <1>2 DEF resolveWindow, InWindow
<1>3. CASE a.at = "lost"
  BY <1>3 DEF resolveWindow, InWindow, Range
<1>4. CASE a.at = "time"
  <2> DEFINE K == {k \in DOMAIN s : a.time <= s[k].time /\ s[k].time <= a.time + within}
  <2>1. resolveWindow(s, a, within) = KeptAt(s, K)
    BY <1>4 DEF resolveWindow, eventsInWindow
  <2>2. KeptAt(s, K) \in Seq(Event) /\ Range(KeptAt(s, K)) = {s[k] : k \in K}
    BY KeptAtSeq
  <2>3. \A k \in DOMAIN s : s[k].time \in Nat
    BY <1>0
  <2>4. \A k \in DOMAIN s : k \in K <=> InWindow(s[k], a, within)
    BY <1>1, <1>4, <2>3 DEF InWindow
  <2> HIDE DEF K
  <2>5. {s[k] : k \in K} = {e \in Range(s) : InWindow(e, a, within)}
    <3>1. K \subseteq DOMAIN s
      BY DEF K
    <3> QED
      BY <2>4, <3>1 DEF Range
  <2> QED
    BY <2>1, <2>2, <2>5
<1> QED
  BY <1>1, <1>2, <1>3, <1>4

LEMMA EmptyIs ==
  ASSUME NEW S, NEW s \in Seq(S)
  PROVE  /\ Len(s) \in Nat /\ DOMAIN s = 1..Len(s)
         /\ s = <<>> <=> Len(s) = 0
         /\ s = <<>> <=> Range(s) = {}
<1>1. Len(s) \in Nat /\ DOMAIN s = 1..Len(s) /\ (s = <<>> <=> Len(s) = 0)
  OBVIOUS
<1>2. ASSUME s # <<>> PROVE Range(s) # {}
  <2>1. 1 \in DOMAIN s
    BY <1>1, <1>2
  <2> QED
    BY <2>1 DEF Range
<1>3. ASSUME s = <<>> PROVE Range(s) = {}
  BY <1>1, <1>3 DEF Range
<1> QED
  BY <1>1, <1>2, <1>3

LEMMA FilterIs ==
  ASSUME NEW s \in Seq(Event), NEW m
  PROVE  /\ filterEvents(s, m) \in Seq(Event)
         /\ Range(filterEvents(s, m)) = {e \in Range(s) : e.url \in m}
         /\ filterEvents(s, m) = <<>> <=> \A e \in Range(s) : e.url \notin m
<1> DEFINE K == {k \in DOMAIN s : s[k].url \in m}  q == filterEvents(s, m)
<1>1. q = KeptAt(s, K)
  BY DEF filterEvents, Matches
<1>2. KeptAt(s, K) \in Seq(Event) /\ Range(KeptAt(s, K)) = {s[k] : k \in K}
  BY KeptAtSeq
<1>3. {s[k] : k \in K} = {e \in Range(s) : e.url \in m}
  BY DEF Range
<1> HIDE DEF K, q
<1>4. q = <<>> <=> Range(q) = {}
  BY <1>1, <1>2, EmptyIs
<1>5. q \in Seq(Event) /\ Range(q) = {e \in Range(s) : e.url \in m}
  BY <1>1, <1>2, <1>3
<1>6. q = <<>> <=> \A e \in Range(s) : e.url \notin m
  BY <1>4, <1>5
<1> QED
  BY <1>5, <1>6 DEF q

LEMMA AbsentHolds ==
  ASSUME NEW s \in Seq(Event), NEW a \in Anchors, NEW within \in Nat, NEW m
  PROVE  AbsentIsTrue(s, a, within, m)
<1> DEFINE w == resolveWindow(s, a, within)
<1>1. w \in Seq(Event) /\ Range(w) = {e \in Range(s) : InWindow(e, a, within)}
  BY WindowIs
<1>2. verifyAbsent(s, a, within, <<m>>) <=> a.at # "lost" /\ filterEvents(w, m) = <<>>
  <2>1. Range(<<m>>) = {m}
    BY DEF Range
  <2> QED
    BY <2>1 DEF verifyAbsent
<1>3. filterEvents(w, m) = <<>> <=> \A e \in Range(w) : e.url \notin m
  BY <1>1, FilterIs
<1> QED
  BY <1>1, <1>2, <1>3 DEF AbsentIsTrue, InWindow, Matches

LEMMA SequenceHolds ==
  ASSUME NEW s \in Seq(Event), NEW a \in Anchors, NEW within \in Nat, NEW S,
         NEW expected \in Seq(S)
  PROVE  SequenceIsTrue(s, a, within, expected)
<1> DEFINE w == ByTime(resolveWindow(s, a, within))  N == Len(w)  L == Len(expected)
           acc[n \in 0..N] == IF n = 0 THEN [cursor |-> 1, deviates |-> FALSE]
                              ELSE Advance(acc[n - 1], w[n], expected)
<1>1. w \in Seq(Event) /\ N \in Nat /\ DOMAIN w = 1..N /\ L \in Nat
  <2>1. \A e \in Event : e.time \in Nat
    BY TimesAre DEF Event
  <2>2. w \in Seq(Event)
    BY <2>1, WindowIs, ByTimeIs
  <2> HIDE DEF w
  <2> QED
    BY <2>2
<1>2. /\ acc[0] = [cursor |-> 1, deviates |-> FALSE]
      /\ \A n \in 1..N : acc[n] = Advance(acc[n - 1], w[n], expected)
      /\ \A n \in 0..N : acc[n] \in Cursor
  <2>1. \E f : Greedy(f, N, w, expected)
    <3> HIDE DEF w, N, acc
    <3> QED
      BY <1>1, CursorExists
  <2>2. Greedy(acc, N, w, expected)
    <3> HIDE DEF w, N
    <3> QED
      BY <2>1 DEF Greedy
  <2> HIDE DEF w, N, acc
  <2> QED
    BY <1>1, <2>2, CursorIs
<1>3. /\ verifySequence(s, a, within, expected, FALSE) <=>
           a.at # "lost" /\ acc[N].cursor > L /\ (FALSE => ~acc[N].deviates)
      /\ verifySequence(s, a, within, expected, TRUE) <=>
           a.at # "lost" /\ acc[N].cursor > L /\ (TRUE => ~acc[N].deviates)
  BY DEF verifySequence
<1> HIDE DEF w, N, acc
<1>4. /\ acc[N].cursor > L <=>
              \E f \in [1..L -> 1..N] :
                /\ \A k \in 1..L : Matches(w[f[k]], expected[k])
                /\ \A j, k \in 1..L : j < k => f[j] < f[k]
      /\ acc[N].cursor > L /\ ~acc[N].deviates <=>
              L <= N /\ \A k \in 1..L : Matches(w[k], expected[k])
  BY <1>1, <1>2, CursorTells
<1>5. (L <= N /\ \A k \in 1..L : Matches(w[k], expected[k])) <=>
        (L <= N /\ \A k \in 1..L : Matches(w[[i \in 1..L |-> i][k]], expected[k]))
  OBVIOUS
<1> QED
  BY <1>1, <1>3, <1>4, <1>5 DEF SequenceIsTrue, w, N

-----------------------------------------------------------------------------
(* The verdict on a screen. *)

(* The events of a list that are not yet used and match, and the recursive *)
(* function of verifyOnScreen.                                             *)
Taken(w, used, m) == {k \in DOMAIN w \ used : Matches(w[k], m)}

Uses(used, L, w, expected) ==
  used = [n \in 0..L |->
    IF n = 0 THEN {}
    ELSE LET hits == Taken(w, used[n - 1], expected[n])
         IN used[n - 1] \cup (IF hits = {} THEN {} ELSE {Min(hits)})]

LEMMA TakenIs ==
  ASSUME NEW N \in Nat, NEW w, DOMAIN w = 1..N, NEW used, NEW m, Taken(w, used, m) # {}
  PROVE  Min(Taken(w, used, m)) \in Taken(w, used, m) /\ Taken(w, used, m) \subseteq 1..N
<1>1. Taken(w, used, m) \subseteq 1..N /\ 1..N \subseteq Nat
  BY DEF Taken
<1> QED
  BY <1>1, MinIs

LEMMA UsesExist ==
  ASSUME NEW N \in Nat, NEW w, DOMAIN w = 1..N, NEW L \in Nat, NEW expected
  PROVE  \E used : Uses(used, L, w, expected)
<1> DEFINE S == SUBSET (1..N)
           More(x, n) == LET hits == Taken(w, x, expected[n])
                         IN x \cup (IF hits = {} THEN {} ELSE {Min(hits)})
           G == [x \in (1..L) \X S |-> More(x[2], x[1])]
<1>1. \A x \in S, n \in 1..L : More(x, n) \in S
  <2> TAKE x \in S, n \in 1..L
  <2>1. CASE Taken(w, x, expected[n]) = {}
    BY <2>1
  <2>2. CASE Taken(w, x, expected[n]) # {}
    <3>1. Min(Taken(w, x, expected[n])) \in 1..N
      BY <2>2, TakenIs
    <3> QED
      BY <2>2, <3>1
  <2> QED
    BY <2>1, <2>2
<1> HIDE DEF More
<1>2. G \in [(1..L) \X S -> S] /\ {} \in S
  BY <1>1
<1>3. PICK f : Iterates(f, L, S, {}, G)
  <2> HIDE DEF G, S
  <2> QED
    BY <1>2, Recursion
<1>4. f \in [0..L -> S] /\ f[0] = {} /\ \A n \in 1..L : f[n] = G[<<n, f[n - 1]>>]
  BY <1>3 DEF Iterates
<1>5. \A n \in 1..L : f[n] = More(f[n - 1], n)
  <2> TAKE n \in 1..L
  <2>1. f[n - 1] \in S /\ <<n, f[n - 1]>> \in (1..L) \X S
    BY <1>4
  <2> QED
    BY <2>1, <1>4
<1>6. f = [n \in 0..L |-> IF n = 0 THEN {} ELSE More(f[n - 1], n)]
  <2>1. \A n \in 0..L : f[n] = IF n = 0 THEN {} ELSE More(f[n - 1], n)
    BY <1>4, <1>5
  <2>2. f = [n \in 0..L |-> f[n]]
    BY <1>4
  <2> HIDE DEF G, S
  <2> QED
    BY <2>1, <2>2
<1> QED
  BY <1>6 DEF Uses, More

OnScreenBy(used, s, a, within, expected) ==
  LET w == resolveWindow(s, a, within)  L == Len(expected) IN
  /\ Uses(used, L, w, expected)
  /\ verifyOnScreen(s, a, within, expected) <=>
       a.at # "lost" /\ \A n \in 1..L : Taken(w, used[n - 1], expected[n]) # {}

LEMMA OnScreenIs ==
  ASSUME NEW s \in Seq(Event), NEW a \in Anchors, NEW within \in Nat, NEW S,
         NEW expected \in Seq(S)
  PROVE  \E used : OnScreenBy(used, s, a, within, expected)
<1> DEFINE w == resolveWindow(s, a, within)  L == Len(expected)
           Hits(x, m) == {k \in DOMAIN w \ x : Matches(w[k], m)}
           used[n \in 0..L] ==
             IF n = 0 THEN {}
             ELSE LET hits == Hits(used[n - 1], expected[n])
                  IN used[n - 1] \cup (IF hits = {} THEN {} ELSE {Min(hits)})
<1>1. w \in Seq(Event) /\ Len(w) \in Nat /\ DOMAIN w = 1..Len(w) /\ L \in Nat
  <2>1. w \in Seq(Event)
    BY WindowIs
  <2> HIDE DEF w
  <2> QED
    BY <2>1
<1>2. \E f : Uses(f, L, w, expected)
  <2> HIDE DEF w, L, used
  <2> QED
    BY <1>1, UsesExist
<1>3. Uses(used, L, w, expected)
  <2> HIDE DEF w, L
  <2> QED
    BY <1>2 DEF Uses, Taken
<1>4. verifyOnScreen(s, a, within, expected) <=>
        a.at # "lost" /\ \A n \in DOMAIN expected : Hits(used[n - 1], expected[n]) # {}
  BY DEF verifyOnScreen
<1> HIDE DEF w, used
<1>5. verifyOnScreen(s, a, within, expected) <=>
        a.at # "lost" /\ \A n \in 1..L : Taken(w, used[n - 1], expected[n]) # {}
  BY <1>4 DEF Taken
<1> QED
  BY <1>3, <1>5 DEF w, OnScreenBy

LEMMA OnScreenHolds ==
  ASSUME NEW s \in Seq(Event), NEW a \in Anchors, NEW within \in Nat, NEW S,
         NEW expected \in Seq(S)
  PROVE  OnScreenIsTrue(s, a, within, expected)
<1> DEFINE w == resolveWindow(s, a, within)  L == Len(expected)
<1> SUFFICES ASSUME verifyOnScreen(s, a, within, expected)
             PROVE  \E f \in [DOMAIN expected -> DOMAIN w] :
                      IsInjective(f) /\ \A k \in DOMAIN expected : Matches(w[f[k]], expected[k])
  BY DEF OnScreenIsTrue
<1>1. w \in Seq(Event) /\ Len(w) \in Nat /\ DOMAIN w = 1..Len(w) /\ L \in Nat
  <2>1. w \in Seq(Event)
    BY WindowIs
  <2> HIDE DEF w
  <2> QED
    BY <2>1
<1>2. PICK used : /\ Uses(used, L, w, expected)
                  /\ \A n \in 1..L : Taken(w, used[n - 1], expected[n]) # {}
  <2>1. PICK used : OnScreenBy(used, s, a, within, expected)
    BY OnScreenIs
  <2> QED
    BY <2>1 DEF OnScreenBy
<1> HIDE DEF w
<1> DEFINE T(n) == Taken(w, used[n - 1], expected[n])
           f == [n \in 1..L |-> Min(T(n))]
<1>3. \A n \in 1..L : T(n) # {} /\ used[n] = used[n - 1] \cup {Min(T(n))}
  <2> TAKE n \in 1..L
  <2>1. n \in 0..L /\ n # 0 /\ T(n) # {}
    BY <1>1, <1>2
  <2>2. used[n] = LET hits == T(n) IN used[n - 1] \cup (IF hits = {} THEN {} ELSE {Min(hits)})
    BY <1>2, <2>1 DEF Uses
  <2> QED
    BY <2>1, <2>2
<1>4. \A n \in 1..L : Min(T(n)) \in T(n) /\ T(n) \subseteq DOMAIN w
  BY <1>1, <1>3, TakenIs
<1>5. \A n \in 1..L : /\ Min(T(n)) \in DOMAIN w /\ Min(T(n)) \notin used[n - 1]
                      /\ Matches(w[Min(T(n))], expected[n])
  BY <1>4 DEF Taken
<1>6. \A n \in 1..L : /\ f[n] \in DOMAIN w /\ f[n] \notin used[n - 1]
                      /\ Matches(w[f[n]], expected[n]) /\ used[n] = used[n - 1] \cup {f[n]}
  BY <1>3, <1>5
<1>7. f \in [1..L -> DOMAIN w]
  BY <1>5
<1> HIDE DEF f, T
<1>8. \A j \in 1..L : \A n \in Nat : j + n <= L => f[j] \in used[j + n]
  <2> TAKE j \in 1..L
  <2> DEFINE R == {n \in Nat : j + n <= L => f[j] \in used[j + n]}
  <2>1. 0 \in R
    BY <1>6
  <2>2. ASSUME NEW n \in Nat, n \in R  PROVE n + 1 \in R
    <3> SUFFICES ASSUME j + (n + 1) <= L  PROVE f[j] \in used[j + (n + 1)]
      OBVIOUS
    <3>1. j + (n + 1) \in 1..L /\ (j + (n + 1)) - 1 = j + n
      BY <1>1
    <3>2. f[j] \in used[j + n]
      BY <2>2, <1>1
    <3> QED
      BY <3>1, <3>2, <1>6
  <2> HIDE DEF R
  <2>3. \A n \in Nat : n \in R
    BY <2>1, <2>2, NatInd
  <2> QED
    BY <2>3 DEF R
<1>9. \A j, k \in 1..L : j < k => f[j] # f[k]
  <2> SUFFICES ASSUME NEW j \in 1..L, NEW k \in 1..L, j < k  PROVE f[j] # f[k]
    OBVIOUS
  <2>1. k - 1 - j \in Nat /\ j + (k - 1 - j) = k - 1 /\ k - 1 <= L
    BY <1>1
  <2>2. f[j] \in used[k - 1]
    BY <2>1, <1>8
  <2> QED
    BY <2>2, <1>6
<1>10. IsInjective(f)
  BY <1>1, <1>7, <1>9 DEF IsInjective
<1> QED
  BY <1>6, <1>7, <1>10, SMTT(30)

-----------------------------------------------------------------------------
(* The verdicts of the tools together. *)

(* Where two tools answer the same question they answer alike. *)
LEMMA AgreeHolds ==
  ASSUME NEW s \in Seq(Event), NEW a \in Anchors, NEW within \in Nat, NEW m
  PROVE  ToolsAgree(s, a, within, m)
<1> DEFINE w == resolveWindow(s, a, within)  x == <<m>>
           Made == a.at # "lost" /\ \E e \in Range(w) : e.url \in m
           Instant == [u \in DOMAIN FixtureOf |-> 0]
           Unbounded == Max(Times) + within
           kept == filterEvents(w, m)
           made == verifyErrorHandling(s, a, within, x)
<1>1. /\ w \in Seq(Event) /\ Len(w) \in Nat /\ DOMAIN w = 1..Len(w)
      /\ Range(w) = {e \in Range(s) : InWindow(e, a, within)}
  <2>1. w \in Seq(Event) /\ Range(w) = {e \in Range(s) : InWindow(e, a, within)}
    BY WindowIs
  <2> HIDE DEF w
  <2> QED
    BY <2>1
<1>2. x \in Seq({m}) /\ Len(x) = 1 /\ DOMAIN x = 1..1 /\ Range(x) = {m} /\ x[1] = m
  BY DEF Range
<1>3. /\ kept \in Seq(Event) /\ Range(kept) = {e \in Range(w) : e.url \in m}
      /\ kept = <<>> <=> \A e \in Range(w) : e.url \notin m
  <2> HIDE DEF w
  <2> QED
    BY <1>1, FilterIs
<1>4. made <=> Made
  <2>1. made <=> a.at # "lost" /\ kept # <<>>
    BY <1>2 DEF verifyErrorHandling
  <2> HIDE DEF w, kept, made
  <2> QED
    BY <2>1, <1>3
<1>5. verifyOnScreen(s, a, within, x) <=> Made
  <2>1. PICK used : OnScreenBy(used, s, a, within, x)
    BY <1>2, OnScreenIs
  <2>2. /\ Uses(used, 1, w, x)
        /\ verifyOnScreen(s, a, within, x) <=>
             a.at # "lost" /\ \A n \in 1..1 : Taken(w, used[n - 1], x[n]) # {}
    BY <2>1, <1>2 DEF OnScreenBy
  <2> HIDE DEF w
  <2>3. used[0] = {}
    BY <2>2 DEF Uses
  <2>4. Taken(w, {}, m) # {} <=> \E e \in Range(w) : e.url \in m
    BY DEF Taken, Range, Matches
  <2>5. \A n \in 1..1 : n = 1 /\ n - 1 = 0 /\ x[n] = m
    BY <1>2
  <2>6. (\A n \in 1..1 : Taken(w, used[n - 1], x[n]) # {}) <=> Taken(w, {}, m) # {}
    <3>1. 1 \in 1..1 /\ \A n \in 1..1 : Taken(w, used[n - 1], x[n]) = Taken(w, {}, m)
      <4> SUFFICES ASSUME NEW n \in 1..1  PROVE Taken(w, used[n - 1], x[n]) = Taken(w, {}, m)
        OBVIOUS
      <4>1. used[n - 1] = {}
        BY <2>3, <2>5
      <4>2. x[n] = m
        BY <2>5
      <4> HIDE DEF x
      <4> QED
        BY <4>1, <4>2
    <3> QED
      BY <3>1
  <2> QED
    BY <2>2, <2>4, <2>6
<1>6. verifySequence(s, a, within, x, FALSE) <=> Made
  <2> DEFINE o == ByTime(w)
  <2>1. o \in Seq(Event) /\ Range(o) = Range(w) /\ Len(o) \in Nat /\ DOMAIN o = 1..Len(o)
    <3>1. \A e \in Event : e.time \in Nat
      BY TimesAre DEF Event
    <3>2. o \in Seq(Event) /\ Range(o) = Range(w)
      <4> HIDE DEF w
      <4> QED
        BY <1>1, <3>1, ByTimeIs
    <3> HIDE DEF o
    <3> QED
      BY <3>2
  <2>2. SequenceIsTrue(s, a, within, x)
    BY <1>2, SequenceHolds
  <2>3. verifySequence(s, a, within, x, FALSE) <=>
          a.at # "lost" /\ \E f \in [1..1 -> DOMAIN o] :
            /\ \A k \in 1..1 : Matches(o[f[k]], x[k])
            /\ \A j, k \in 1..1 : j < k => f[j] < f[k]
    BY <2>2, <1>2 DEF SequenceIsTrue
  <2> HIDE DEF o, w
  <2>4. ASSUME NEW f \in [1..1 -> DOMAIN o], \A k \in 1..1 : Matches(o[f[k]], x[k])
        PROVE  \E e \in Range(w) : e.url \in m
    <3>1. f[1] \in DOMAIN o /\ o[f[1]].url \in m
      BY <2>4, <1>2 DEF Matches
    <3> QED
      BY <3>1, <2>1 DEF Range
  <2>5. ASSUME NEW e \in Range(w), e.url \in m
        PROVE  \E f \in [1..1 -> DOMAIN o] :
            /\ \A k \in 1..1 : Matches(o[f[k]], x[k])
            /\ \A j, k \in 1..1 : j < k => f[j] < f[k]
    <3>1. PICK k \in DOMAIN o : o[k] = e
      BY <2>1 DEF Range
    <3> DEFINE f == [n \in 1..1 |-> k]
    <3>2. f \in [1..1 -> DOMAIN o] /\ f[1] = k
      OBVIOUS
    <3> HIDE DEF f
    <3> QED
      BY <3>1, <3>2, <2>5, <1>2 DEF Matches
  <2> QED
    BY <2>3, <2>4, <2>5
<1>7. verifyPerformance(s, a, within, m, Instant, 0, Unbounded) <=> Made
  <2> DEFINE o == ByTime(kept)
  <2>1. /\ o \in Seq(Event) /\ Range(o) = Range(kept)
        /\ Len(o) \in Nat /\ DOMAIN o = 1..Len(o) /\ (o = <<>> <=> kept = <<>>)
    <3>1. \A e \in Event : e.time \in Nat
      BY TimesAre DEF Event
    <3>2. o \in Seq(Event) /\ Range(o) = Range(kept)
      <4> HIDE DEF kept
      <4> QED
        BY <1>3, <3>1, ByTimeIs
    <3> HIDE DEF o, kept
    <3>3. Len(o) \in Nat /\ DOMAIN o = 1..Len(o) /\ (o = <<>> <=> Range(o) = {})
      BY <3>2, EmptyIs
    <3>4. kept = <<>> <=> Range(kept) = {}
      BY <1>3, EmptyIs
    <3> QED
      BY <3>2, <3>3, <3>4
  <2>2. verifyPerformance(s, a, within, m, Instant, 0, Unbounded) <=>
          /\ a.at # "lost" /\ Len(o) > 0
          /\ \A k \in 1..Len(o) : Instant[o[k].url] <= 0
          /\ o[Len(o)].time + Instant[o[Len(o)].url] <= o[1].time + Unbounded
    BY DEF verifyPerformance
  <2> HIDE DEF o, kept, w
  <2>3. \A e \in Event : Instant[e.url] = 0 /\ e.time \in Nat /\ e.time <= Max(Times)
    <3>1. \A e \in Event : e.url \in Url /\ e.time \in Times
      BY DataAssumption DEF Event, Url
    <3>2. \A t \in Times : t \in Nat /\ t <= Max(Times)
      BY TimesAre
    <3> QED
      BY <3>1, <3>2 DEF Url
  <2>4. \A k \in 1..Len(o) : Instant[o[k].url] = 0 /\ o[k].time \in Nat /\ o[k].time <= Max(Times)
    BY <2>1, <2>3
  <2>5. Max(Times) \in Nat
    BY TimesAre
  <2>6. Len(o) > 0 =>
          /\ \A k \in 1..Len(o) : Instant[o[k].url] <= 0
          /\ o[Len(o)].time + Instant[o[Len(o)].url] <= o[1].time + Unbounded
    <3> HIDE DEF Instant
    <3>1. SUFFICES ASSUME Len(o) > 0
          PROVE  /\ \A k \in 1..Len(o) : Instant[o[k].url] <= 0
                 /\ o[Len(o)].time + Instant[o[Len(o)].url] <= o[1].time + Unbounded
      OBVIOUS
    <3>2. 1 \in 1..Len(o) /\ Len(o) \in 1..Len(o)
      BY <3>1, <2>1
    <3> QED
      BY <3>2, <2>4, <2>5
  <2>7. Len(o) > 0 <=> kept # <<>>
    BY <2>1, EmptyIs
  <2> HIDE DEF Instant, Unbounded
  <2> QED
    BY <2>2, <2>6, <2>7, <1>3
<1>8. verifyAbsent(s, a, within, x) <=> a.at # "lost" /\ kept = <<>>
  BY <1>2 DEF verifyAbsent
<1>9. verifyDeduplication(s, a, within, m, 0) <=> a.at # "lost" /\ kept = <<>>
  <2> DEFINE K(u) == {k \in DOMAIN kept : kept[k].url = u}
  <2>1. verifyDeduplication(s, a, within, m, 0) <=>
          a.at # "lost" /\ \A u \in DOMAIN FixtureOf : Cardinality(K(u)) <= 0
    BY DEF verifyDeduplication
  <2> HIDE DEF kept, w
  <2>2. Len(kept) \in Nat /\ DOMAIN kept = 1..Len(kept) /\ (kept = <<>> <=> Len(kept) = 0)
    BY <1>3, EmptyIs
  <2>3. IsFiniteSet(1..Len(kept))
    BY <2>2, FS_Interval
  <2>4. \A u : Cardinality(K(u)) \in Nat /\ (Cardinality(K(u)) = 0 <=> K(u) = {})
    <3> TAKE u
    <3>1. K(u) \subseteq 1..Len(kept)
      BY <2>2
    <3> HIDE DEF K
    <3>2. IsFiniteSet(K(u))
      BY <2>3, <3>1, FS_Subset
    <3> QED
      BY <3>2, FS_EmptySet, FS_CardinalityType
  <2>5. (\A u \in DOMAIN FixtureOf : K(u) = {}) <=> kept = <<>>
    <3>1. \A k \in DOMAIN kept : kept[k].url \in DOMAIN FixtureOf
      <4>1. \A e \in Event : e.url \in DOMAIN FixtureOf
        BY DataAssumption DEF Event, Url
      <4> QED
        BY <4>1, <1>3, <2>2
    <3>2. ASSUME kept # <<>>, \A u \in DOMAIN FixtureOf : K(u) = {}  PROVE FALSE
      <4>1. 1 \in DOMAIN kept
        BY <3>2, <2>2
      <4>2. kept[1].url \in DOMAIN FixtureOf /\ 1 \in K(kept[1].url)
        BY <4>1, <3>1
      <4> QED
        BY <4>2, <3>2
    <3>3. ASSUME kept = <<>>  PROVE \A u \in DOMAIN FixtureOf : K(u) = {}
      BY <3>3, <2>2
    <3> QED
      BY <3>2, <3>3
  <2> HIDE DEF K
  <2>6. \A u : Cardinality(K(u)) <= 0 <=> K(u) = {}
    BY <2>4
  <2> QED
    BY <2>1, <2>5, <2>6
<1>10. verifyPayloadTarget(s, m) # <<>> <=> filterEvents(s, m) # <<>>
  <2> DEFINE q == filterEvents(s, m)
  <2>1. verifyPayloadTarget(s, m) = IF q = <<>> THEN <<>> ELSE <<q[1]>>
    BY DEF verifyPayloadTarget
  <2>2. <<q[1]>> # <<>>
    OBVIOUS
  <2> HIDE DEF q
  <2> QED
    BY <2>1, <2>2 DEF q
<1>11. verifyParallelism(s, m, 1, Unbounded) <=> filterEvents(s, m) # <<>>
  <2> DEFINE q == filterEvents(s, m)
  <2>1. q \in Seq(Event)
    BY FilterIs
  <2>2. verifyParallelism(s, m, 1, Unbounded) <=>
          q # <<>> /\ Len(q) >= 1 /\ Span(q) <= Unbounded
    BY DEF verifyParallelism
  <2> HIDE DEF q, Unbounded
  <2>3. ASSUME q # <<>>  PROVE Len(q) >= 1 /\ Span(q) <= Unbounded
    <3>1. \A e \in Event : e.time \in Nat /\ e.time <= Max(Times)
      BY TimesAre DEF Event
    <3>2. ByTime(q) \in Seq(Event) /\ Len(ByTime(q)) = Len(q)
      BY <2>1, <3>1, ByTimeIs
    <3>3. Len(q) \in Nat /\ Len(q) >= 1
      BY <2>1, <2>3, EmptyIs
    <3>4. ByTime(q)[1] \in Event /\ ByTime(q)[Len(q)] \in Event
      BY <3>2, <3>3
    <3>5. Span(q) = ByTime(q)[Len(q)].time - ByTime(q)[1].time
      BY <2>3 DEF Span
    <3>6. Max(Times) \in Nat
      BY TimesAre
    <3> QED
      BY <3>1, <3>3, <3>4, <3>5, <3>6 DEF Unbounded
  <2> QED
    BY <2>2, <2>3 DEF q
<1>12. a.at = "none" => w = s
  BY DEF resolveWindow
<1>13. a.at # "lost" => (kept = <<>> <=> ~Made)
  BY <1>3
<1>14. a.at = "none" => (Made <=> filterEvents(s, m) # <<>>)
  <2>1. filterEvents(s, m) = <<>> <=> \A e \in Range(s) : e.url \notin m
    BY FilterIs
  <2> HIDE DEF w
  <2> QED
    BY <2>1, <1>12
<1> HIDE DEF w, kept, Made, Instant, Unbounded, made
<1>15. /\ made <=> verifyOnScreen(s, a, within, <<m>>)
       /\ made <=> verifySequence(s, a, within, <<m>>, FALSE)
       /\ made <=> verifyPerformance(s, a, within, m, Instant, 0, Unbounded)
       /\ verifyAbsent(s, a, within, <<m>>) <=> verifyDeduplication(s, a, within, m, 0)
       /\ a.at # "lost" => (made <=> ~verifyAbsent(s, a, within, <<m>>))
       /\ verifyPayloadTarget(s, m) # <<>> <=> verifyParallelism(s, m, 1, Unbounded)
       /\ a.at = "none" => (made <=> verifyPayloadTarget(s, m) # <<>>)
  BY <1>4, <1>5, <1>6, <1>7, <1>8, <1>9, <1>10, <1>11, <1>13, <1>14
<1> QED
  BY <1>15 DEF ToolsAgree, made, Instant, Unbounded

LEMMA VerdictsAreTrueHolds == DataTypes => VerdictsAreTrue
<1> SUFFICES ASSUME DataTypes PROVE VerdictsAreTrue
  OBVIOUS
<1> DEFINE merged == getMergedEvents
           target == CHOOSE t \in Target : TRUE
<1>1. merged \in Seq(Event)
  <2>1. \A e \in Event : e.time \in Nat
    BY TimesAre DEF Event
  <2>2. ByTime(rows) \in Seq(Event)
    BY <2>1, ByTimeIs DEF DataTypes
  <2>3. InSession(har) \in Seq(Event)
    BY InSessionIs DEF DataTypes
  <2> QED
    BY <2>2, <2>3, mergeEventsIs DEF getMergedEvents
<1>2. None \in Anchors
  BY DEF Anchors
<1>3. resolveElement(ByTime(taps), target) \in Anchors
  <2> DEFINE its == ByTime(taps)  hits == {k \in DOMAIN its : its[k].target = target}
  <2>1. \A i \in Interaction : i.time \in Nat /\ i.time \in Times
    BY TimesAre DEF Interaction
  <2>2. its \in Seq(Interaction)
    BY <2>1, ByTimeIs DEF DataTypes
  <2>3. resolveElement(its, target) =
          IF hits = {} THEN Lost ELSE Anchor(its[Min(hits)].time)
    BY DEF resolveElement
  <2> HIDE DEF its, target
  <2>4. CASE hits = {}
    BY <2>3, <2>4 DEF Anchors, its, target
  <2>5. CASE hits # {}
    <3>1. hits \subseteq Nat /\ \A k \in hits : k \in DOMAIN its
      BY <2>2
    <3>2. Min(hits) \in DOMAIN its
      <4> HIDE DEF hits
      <4> QED
        BY <3>1, <2>5, MinIs
    <3>3. its[Min(hits)].time \in Times
      BY <3>2, <2>1, <2>2
    <3> HIDE DEF hits
    <3> QED
      BY <2>3, <2>5, <3>3 DEF Anchors, its, target
  <2> QED
    BY <2>4, <2>5 DEF its
<1>4. ASSUME NEW a \in {None, resolveElement(ByTime(taps), target)},
             NEW m \in {{"feed"}, {"feed", "list"}}
      PROVE  /\ SequenceIsTrue(merged, a, 1, <<m, {"feed"}>>)
             /\ OnScreenIsTrue(merged, a, 1, <<m, {"feed"}>>)
             /\ AbsentIsTrue(merged, a, 1, m)
             /\ ToolsAgree(merged, a, 1, m)
  <2>1. a \in Anchors
    BY <1>2, <1>3
  <2>2. <<m, {"feed"}>> \in Seq({{"feed"}, {"feed", "list"}})
    OBVIOUS
  <2> HIDE DEF merged
  <2> QED
    BY <1>1, <2>1, <2>2, SequenceHolds, OnScreenHolds, AbsentHolds, AgreeHolds
<1> QED
  BY <1>4 DEF VerdictsAreTrue

-----------------------------------------------------------------------------
(* The flows, woven: of any session that is recorded. *)

(* A pair of boundaries, and what it is woven into. *)
Pair == [flow : Flow \cup {"none"}, time : Times, end : Times]

Woven == [flow : Flow \cup {"none"}, time : Times, end : Times, of : Nat,
          steps : SUBSET parsedSteps]

(* The boundaries of flows among the records. *)
Marks(r) == KeptAt(r, {k \in DOMAIN r : IsBoundary(r[k])})

(* Where a flow begins that also ends. *)
PairedAt(b) ==
  {k \in DOMAIN b : /\ b[k].result = "flow_start" /\ k < Len(b)
                    /\ b[k + 1].result = "flow_end" /\ b[k + 1].flow = b[k].flow}

LEMMA PairsAre ==
  ASSUME DataTypes
  PROVE  LET b == Marks(records)  starts == InOrder(PairedAt(b))  P == Pairs(records) IN
         /\ b \in Seq(Record) /\ P \in Seq(Pair)
         /\ Len(P) = Cardinality(PairedAt(b)) /\ DOMAIN starts = 1..Len(P)
         /\ \A n \in 1..Len(P) :
              /\ starts[n] \in PairedAt(b)
              /\ P[n] = [flow |-> b[starts[n]].flow, time |-> b[starts[n]].time,
                         end |-> b[starts[n] + 1].time]
<1> DEFINE b == Marks(records)  K == PairedAt(b)  starts == InOrder(K)  P == Pairs(records)
<1>1. b \in Seq(Record)
  <2> DEFINE X == {k \in DOMAIN records : IsBoundary(records[k])}
  <2>1. records \in Seq(Record) /\ X \subseteq DOMAIN records
    BY DEF DataTypes
  <2> HIDE DEF X
  <2>2. KeptAt(records, X) \in Seq(Record)
    BY <2>1, KeptAtSeq
  <2> QED
    BY <2>2 DEF Marks, X
<1>2. P = [n \in DOMAIN starts |->
             [flow |-> b[starts[n]].flow, time |-> b[starts[n]].time,
              end |-> b[starts[n] + 1].time]]
  BY DEF Pairs, Marks, PairedAt
<1> HIDE DEF b, P
<1>3. Len(b) \in Nat /\ DOMAIN b = 1..Len(b) /\ \A k \in DOMAIN b : b[k] \in Record
  BY <1>1
<1>4. IsFiniteSet(K) /\ K \subseteq Nat
  <2>1. K \subseteq 1..Len(b)
    BY <1>3 DEF PairedAt
  <2>2. IsFiniteSet(1..Len(b))
    BY <1>3, FS_Interval
  <2>3. IsFiniteSet(K)
    BY <2>1, <2>2, FS_Subset
  <2> QED
    BY <2>1, <2>3
<1>5. Cardinality(K) \in Nat /\ starts \in [1..Cardinality(K) -> K]
  <2> HIDE DEF K
  <2> QED
    BY <1>4, InOrderIs
<1> HIDE DEF starts
<1>6. \A n \in DOMAIN starts : starts[n] \in K
  BY <1>5
<1>7. \A n \in DOMAIN starts : P[n] \in Pair
  <2> SUFFICES ASSUME NEW n \in DOMAIN starts  PROVE P[n] \in Pair
    OBVIOUS
  <2>1. starts[n] \in 1..Len(b) /\ starts[n] < Len(b)
    BY <1>6, <1>3 DEF PairedAt
  <2>2. starts[n] + 1 \in 1..Len(b)
    BY <2>1, <1>3
  <2>3. b[starts[n]] \in Record /\ b[starts[n] + 1] \in Record
    BY <2>1, <2>2, <1>3
  <2> QED
    BY <2>3, <1>2 DEF Record, Pair
<1>8. P \in [1..Cardinality(K) -> Pair]
  BY <1>2, <1>5, <1>7
<1>9. P \in Seq(Pair) /\ Len(P) = Cardinality(K) /\ DOMAIN starts = 1..Len(P)
  <2> HIDE DEF K
  <2> QED
    BY <1>5, <1>8
<1>10. \A n \in 1..Len(P) :
         /\ starts[n] \in K
         /\ P[n] = [flow |-> b[starts[n]].flow, time |-> b[starts[n]].time,
                    end |-> b[starts[n] + 1].time]
  BY <1>2, <1>6, <1>9
<1> QED
  BY <1>1, <1>9, <1>10 DEF b, P, starts

(* The recursive function of weaveFlowExecutions. *)
WovenOf(p, c, parsed) ==
  IF c = {} THEN [flow |-> p.flow, time |-> p.time, end |-> p.end, of |-> 0, steps |-> {}]
  ELSE LET e == executions[Min(c)]
       IN [flow |-> e.flow, time |-> e.time, end |-> e.end, of |-> Min(c),
           steps |-> {s \in parsed : s.key = <<e.flow, e.time>>}]

Weave(old, p, parsed) ==
  LET c == take(old.left, executions, p)
  IN [left |-> old.left \ (IF c = {} THEN {} ELSE {Min(c)}),
      woven |-> Append(old.woven, WovenOf(p, c, parsed))]

Weaves(acc, P, parsed) ==
  acc = [n \in 0..Len(P) |-> IF n = 0 THEN [left |-> DOMAIN executions, woven |-> <<>>]
                             ELSE Weave(acc[n - 1], P[n], parsed)]

Weaving == [left : SUBSET DOMAIN executions, woven : Seq(Woven)]

LEMMA WeaveType ==
  ASSUME DataTypes, NEW old \in Weaving, NEW p \in Pair
  PROVE  Weave(old, p, parsedSteps) \in Weaving
<1> DEFINE c == take(old.left, executions, p)
<1>1. old.left \subseteq DOMAIN executions /\ old.woven \in Seq(Woven)
  BY DEF Weaving
<1>2. c \subseteq DOMAIN executions /\ DOMAIN executions \subseteq Nat
  BY <1>1 DEF take, DataTypes
<1>3. WovenOf(p, c, parsedSteps) \in Woven
  <2> HIDE DEF c
  <2>1. CASE c = {}
    BY <2>1 DEF WovenOf, Pair, Woven
  <2>2. CASE c # {}
    <3>1. Min(c) \in DOMAIN executions /\ Min(c) \in Nat
      BY <2>2, <1>2, MinIs
    <3>2. executions[Min(c)] \in Execution
      BY <3>1 DEF DataTypes
    <3> DEFINE e == executions[Min(c)]  S == {s \in parsedSteps : s.key = <<e.flow, e.time>>}
    <3>3. WovenOf(p, c, parsedSteps) =
            [flow |-> e.flow, time |-> e.time, end |-> e.end, of |-> Min(c), steps |-> S]
      BY <2>2 DEF WovenOf
    <3>4. S \in SUBSET parsedSteps
      OBVIOUS
    <3> HIDE DEF S
    <3> QED
      BY <3>1, <3>2, <3>3, <3>4 DEF Execution, Woven
  <2> QED
    BY <2>1, <2>2
<1>4. Append(old.woven, WovenOf(p, c, parsedSteps)) \in Seq(Woven)
  BY <1>1, <1>3
<1> HIDE DEF c
<1>5. old.left \ (IF c = {} THEN {} ELSE {Min(c)}) \in SUBSET DOMAIN executions
  BY <1>1
<1> QED
  BY <1>4, <1>5 DEF Weave, Weaving, c

LEMMA WeavesExist ==
  ASSUME DataTypes, NEW P \in Seq(Pair)
  PROVE  \E acc : Weaves(acc, P, parsedSteps)
<1> DEFINE b == [left |-> DOMAIN executions, woven |-> <<>>]
           N == Len(P)
           G == [x \in (1..N) \X Weaving |-> Weave(x[2], P[x[1]], parsedSteps)]
<1>0. N \in Nat /\ \A n \in 1..N : P[n] \in Pair
  OBVIOUS
<1>1. b \in Weaving
  BY DEF Weaving
<1> HIDE DEF N
<1>2. G \in [(1..N) \X Weaving -> Weaving]
  BY <1>0, WeaveType
<1>3. PICK f : Iterates(f, N, Weaving, b, G)
  <2> HIDE DEF G, b
  <2> QED
    BY <1>0, <1>1, <1>2, Recursion
<1>4. /\ f \in [0..N -> Weaving] /\ f[0] = b
      /\ \A n \in 1..N : f[n] = G[<<n, f[n - 1]>>]
  BY <1>3 DEF Iterates
<1>5. \A n \in 1..N : f[n] = Weave(f[n - 1], P[n], parsedSteps)
  <2> TAKE n \in 1..N
  <2>1. f[n - 1] \in Weaving /\ <<n, f[n - 1]>> \in (1..N) \X Weaving
    BY <1>0, <1>4
  <2> QED
    BY <2>1, <1>4
<1> HIDE DEF b, G
<1>6. f = [n \in 0..N |-> IF n = 0 THEN b ELSE Weave(f[n - 1], P[n], parsedSteps)]
  <2>1. \A n \in 0..N : f[n] = IF n = 0 THEN b ELSE Weave(f[n - 1], P[n], parsedSteps)
    BY <1>0, <1>4, <1>5
  <2>2. f = [n \in 0..N |-> f[n]]
    BY <1>4
  <2> QED
    BY <2>1, <2>2
<1> QED
  BY <1>6 DEF Weaves, N, b

LEMMA WeaveIs ==
  ASSUME DataTypes, NEW P \in Seq(Pair), NEW acc, Weaves(acc, P, parsedSteps)
  PROVE  /\ acc[0] = [left |-> DOMAIN executions, woven |-> <<>>]
         /\ \A n \in 1..Len(P) : acc[n] = Weave(acc[n - 1], P[n], parsedSteps)
         /\ \A n \in 0..Len(P) : acc[n] \in Weaving
<1> DEFINE b == [left |-> DOMAIN executions, woven |-> <<>>]  N == Len(P)
<1>0. N \in Nat /\ \A n \in 1..N : P[n] \in Pair
  OBVIOUS
<1>1. b \in Weaving
  BY DEF Weaving
<1> HIDE DEF N
<1>2. \A n \in 0..N : acc[n] = IF n = 0 THEN b ELSE Weave(acc[n - 1], P[n], parsedSteps)
  <2> HIDE DEF b
  <2>1. acc = [n \in 0..N |-> IF n = 0 THEN b ELSE Weave(acc[n - 1], P[n], parsedSteps)]
    BY DEF Weaves, N, b
  <2> QED
    BY <2>1
<1> HIDE DEF b
<1>3. acc[0] = b /\ \A n \in 1..N : acc[n] = Weave(acc[n - 1], P[n], parsedSteps)
  BY <1>0, <1>2
<1>4. \A n \in 0..N : acc[n] \in Weaving
  <2> DEFINE T == {n \in Nat : n <= N => acc[n] \in Weaving}
  <2>1. 0 \in T
    BY <1>1, <1>3
  <2>2. ASSUME NEW n \in Nat, n \in T  PROVE n + 1 \in T
    <3> SUFFICES ASSUME n + 1 <= N  PROVE acc[n + 1] \in Weaving
      OBVIOUS
    <3>1. n + 1 \in 1..N /\ (n + 1) - 1 = n
      BY <1>0
    <3>2. acc[n] \in Weaving
      BY <2>2, <1>0
    <3>3. acc[n + 1] = Weave(acc[n], P[n + 1], parsedSteps)
      BY <3>1, <1>3
    <3> QED
      BY <3>1, <3>2, <3>3, <1>0, WeaveType
  <2> HIDE DEF T
  <2>3. \A n \in Nat : n \in T
    BY <2>1, <2>2, NatInd
  <2> QED
    BY <2>3, <1>0 DEF T
<1> QED
  BY <1>3, <1>4 DEF b, N

(* What weaveFlowExecutions returns, by the recursive function. *)
LEMMA WeaveResultIs ==
  ASSUME DataTypes
  PROVE  \E acc : /\ Weaves(acc, Pairs(records), parsedSteps)
                  /\ weaveResult.woven = ByTime(acc[Len(Pairs(records))].woven)
<1> DEFINE pairs == Pairs(records)
           Of(p, c) ==
             IF c = {} THEN [flow |-> p.flow, time |-> p.time, end |-> p.end, of |-> 0, steps |-> {}]
             ELSE LET e == executions[Min(c)]
                  IN [flow |-> e.flow, time |-> e.time, end |-> e.end, of |-> Min(c),
                      steps |-> {s \in parsedSteps : s.key = <<e.flow, e.time>>}]
           acc[n \in 0..Len(pairs)] ==
             IF n = 0 THEN [left |-> DOMAIN executions, woven |-> <<>>]
             ELSE LET old == acc[n - 1]
                      c == take(old.left, executions, pairs[n])
                  IN [left |-> old.left \ (IF c = {} THEN {} ELSE {Min(c)}),
                      woven |-> Append(old.woven, Of(pairs[n], c))]
<1>1. pairs \in Seq(Pair)
  BY PairsAre
<1>2. \E f : Weaves(f, pairs, parsedSteps)
  <2> HIDE DEF pairs, acc
  <2> QED
    BY <1>1, WeavesExist
<1>3. Weaves(acc, pairs, parsedSteps)
  <2> HIDE DEF pairs
  <2> QED
    BY <1>2 DEF Weaves, Weave, WovenOf
<1>4. weaveResult.woven = ByTime(acc[Len(pairs)].woven)
  BY DEF weaveResult, weaveFlowExecutions
<1> HIDE DEF acc
<1> QED
  BY <1>3, <1>4

(* Whatever the records are, what is woven is a list in order of time. *)
LEMMA WovenSeq ==
  DataTypes => weaveResult.woven \in Seq(Woven) /\ SortedPairs(weaveResult.woven)
<1> SUFFICES ASSUME DataTypes
             PROVE  weaveResult.woven \in Seq(Woven) /\ SortedPairs(weaveResult.woven)
  OBVIOUS
<1>1. PICK acc : /\ Weaves(acc, Pairs(records), parsedSteps)
                 /\ weaveResult.woven = ByTime(acc[Len(Pairs(records))].woven)
  BY WeaveResultIs
<1>2. Pairs(records) \in Seq(Pair)
  BY PairsAre
<1>3. Len(Pairs(records)) \in 0..Len(Pairs(records))
  BY <1>2
<1>4. acc[Len(Pairs(records))] \in Weaving
  BY <1>1, <1>2, <1>3, WeaveIs
<1>5. acc[Len(Pairs(records))].woven \in Seq(Woven)
  BY <1>4 DEF Weaving
<1>6. \A w \in Woven : w.time \in Nat
  BY TimesAre DEF Woven
<1> QED
  BY <1>1, <1>5, <1>6, ByTimeIs

-----------------------------------------------------------------------------
(* The timeline. *)

(* What holds of the steps and the events they have. *)
LEMMA StepsAre ==
  ASSUME DataTypes
  PROVE  LET steps == compiledSteps  E == allNetworkEvents  I == allInteractions
             its == ByTime(I)  events == ByTime(E)
         IN /\ I \in Seq(Interaction) /\ E \in Seq(Event) /\ SortedPairs(I)
            /\ Correlated(I, Interaction, E, Event) /\ steps = correlate(I, E)
            /\ \A j, k \in DOMAIN E : Key(E[j]) = Key(E[k]) => j = k
<1> DEFINE I == allInteractions  E == allNetworkEvents
<1>1. I \in Seq(Interaction) /\ E \in Seq(Event)
  BY Interactions, NetworkEvents
<1>2. (\A i \in Interaction : i.time \in Nat) /\ (\A e \in Event : e.time \in Nat)
  BY TimesAre DEF Interaction, Event
<1>3. compiledSteps = correlate(I, E)
  BY DEF compiledSteps
<1>4. SortedPairs(I)
  <2>1. ByTime(taps) \in Seq(Interaction)
    BY <1>2, ByTimeIs DEF DataTypes
  <2>2. ByTime(taps) \o extractTrackEvents(allNetworkEvents) \in Seq(Interaction)
    BY <2>1, Interactions
  <2> QED
    BY <1>2, <2>2, ByTimeIs DEF allInteractions
<1>5. Correlated(I, Interaction, E, Event)
  <2> HIDE DEF I, E
  <2> QED
    BY <1>1, <1>2, correlateIs
<1>6. \A j, k \in DOMAIN E : Key(E[j]) = Key(E[k]) => j = k
  <2>1. ByTime(rows) \in Seq(Event)
    BY <1>2, ByTimeIs DEF DataTypes
  <2>2. (IF compiled = "full" THEN InSession(har) ELSE <<>>) \in Seq(Event)
    BY InSessionIs DEF DataTypes
  <2> DEFINE s == ByTime(rows)  t == IF compiled = "full" THEN InSession(har) ELSE <<>>
  <2> HIDE DEF s, t
  <2>3. s \in Seq(Event) /\ t \in Seq(Event)
    BY <2>1, <2>2 DEF s, t
  <2>4. Distinct(mergeEvents(s, t)) /\ SameKeys(Range(E), Range(s) \cup Range(t))
    BY <2>3, MergedOnce DEF allNetworkEvents, s, t
  <2> QED
    BY <2>4 DEF allNetworkEvents, s, t, Distinct
<1> QED
  BY <1>1, <1>3, <1>4, <1>5, <1>6

(* A request is in one step, and once: its key tells it. *)
LEMMA InSteps ==
  ASSUME DataTypes
  PROVE  LET steps == compiledSteps  E == allNetworkEvents IN
         /\ \A k \in DOMAIN steps : Range(steps[k].events) \subseteq Range(E)
         /\ \A e, f \in Range(E) : Key(e) = Key(f) => e = f
         /\ \A e \in Range(E) : networkToStep(steps, e) = {k \in DOMAIN steps : e \in Range(steps[k].events)}
         /\ \A k, m \in DOMAIN steps : \A i \in DOMAIN steps[k].events, j \in DOMAIN steps[m].events :
              steps[k].events[i] = steps[m].events[j] => k = m /\ i = j
<1> DEFINE steps == compiledSteps  E == allNetworkEvents  I == allInteractions
           its == ByTime(I)  events == ByTime(E)
<1>1. /\ E \in Seq(Event) /\ Correlated(I, Interaction, E, Event) /\ steps = correlate(I, E)
      /\ \A j, k \in DOMAIN E : Key(E[j]) = Key(E[k]) => j = k
  BY StepsAre
<1>2. \A e \in Event : e.time \in Nat
  BY TimesAre DEF Event
<1> HIDE DEF steps, E, I
<1>3. /\ events \in Seq(Event)
      /\ DOMAIN steps = 1..Len(I)
      /\ \A k \in 1..Len(I) :
           /\ steps[k].events = KeptAt(events, {j \in DOMAIN events : nearest(its, events[j]) = k})
           /\ Range(steps[k].events) = {e \in Range(E) : nearest(its, e) = k}
  BY <1>1 DEF Correlated
<1>4. /\ events = [n \in 1..Len(E) |-> E[Sorting(E)[n]]] /\ Len(E) \in Nat /\ DOMAIN E = 1..Len(E)
      /\ Len(events) = Len(E)
  BY <1>1, <1>2, ByTimeIs
<1>5. /\ \A j \in 1..Len(E) : Sorting(E)[j] \in 1..Len(E)
      /\ \A j, k \in 1..Len(E) : Sorting(E)[j] = Sorting(E)[k] => j = k
  <2>1. \A k \in 1..Len(E) : E[k].time \in Nat
    BY <1>1, <1>2
  <2>2. Len(E) \in Nat /\ DOMAIN E = 1..Len(E)
    BY <1>4
  <2>3. /\ Sorting(E) \in [1..Len(E) -> 1..Len(E)]
        /\ \A j, k \in 1..Len(E) : Sorting(E)[j] = Sorting(E)[k] => j = k
    BY <2>1, <2>2, SortingIs
  <2> QED
    BY <2>3
<1> HIDE DEF its, events
<1>6. \A j, k \in DOMAIN events : events[j] = events[k] => j = k
  <2> SUFFICES ASSUME NEW j \in 1..Len(E), NEW k \in 1..Len(E), events[j] = events[k]
               PROVE  j = k
    BY <1>4
  <2>1. E[Sorting(E)[j]] = E[Sorting(E)[k]]
    BY <1>4
  <2>2. Sorting(E)[j] \in DOMAIN E /\ Sorting(E)[k] \in DOMAIN E
    BY <1>4, <1>5
  <2> QED
    BY <2>1, <2>2, <1>1, <1>5
<1>7. \A e, f \in Range(E) : Key(e) = Key(f) => e = f
  BY <1>1 DEF Range
<1>8. \A k \in DOMAIN steps : Range(steps[k].events) \subseteq Range(E)
  BY <1>3
<1>9. ASSUME NEW e \in Range(E)
      PROVE  networkToStep(steps, e) = {k \in DOMAIN steps : e \in Range(steps[k].events)}
  BY <1>7, <1>8 DEF networkToStep
<1>10. ASSUME NEW k \in DOMAIN steps, NEW m \in DOMAIN steps,
              NEW i \in DOMAIN steps[k].events, NEW j \in DOMAIN steps[m].events,
              steps[k].events[i] = steps[m].events[j]
       PROVE  k = m /\ i = j
  <2> DEFINE K == {x \in DOMAIN events : nearest(its, events[x]) = k}  f == InOrder(K)
             n == Cardinality(K)
  <2>1. k = m
    <3>1. steps[k].events[i] \in Range(steps[k].events) /\ steps[m].events[j] \in Range(steps[m].events)
      BY DEF Range
    <3>2. /\ nearest(its, steps[k].events[i]) = k
          /\ nearest(its, steps[m].events[j]) = m
      BY <3>1, <1>3
    <3> QED
      BY <3>2, <1>10
  <2>2. K \subseteq 1..Len(E) /\ DOMAIN events = 1..Len(E)
    BY <1>4
  <2>0. Len(E) \in Nat
    BY <1>4
  <2>3. steps[k].events = KeptAt(events, K)
    BY <1>3
  <2> HIDE DEF K
  <2>4. /\ n \in Nat /\ f \in [1..n -> K]
        /\ \A a, b \in 1..n : a < b => f[a] < f[b]
        /\ steps[k].events = [a \in 1..n |-> events[f[a]]]
    <3>1. /\ n \in Nat /\ f \in [1..n -> K]
          /\ \A a, b \in 1..n : a < b => f[a] < f[b]
          /\ KeptAt(events, K) = [a \in 1..n |-> events[f[a]]]
      <4>1. KeptInOrder(events, K)
        BY <2>0, <2>2, KeptAtIs
      <4> QED
        BY <4>1 DEF KeptInOrder
    <3> QED
      BY <3>1, <2>3
  <2> HIDE DEF f, n
  <2>5. i \in 1..n /\ j \in 1..n /\ events[f[i]] = events[f[j]]
    <3>1. DOMAIN steps[k].events = 1..n /\ \A a \in 1..n : steps[k].events[a] = events[f[a]]
      BY <2>4
    <3>2. i \in DOMAIN steps[k].events /\ j \in DOMAIN steps[k].events
          /\ steps[k].events[i] = steps[k].events[j]
      BY <2>1, <1>10
    <3> QED
      BY <3>1, <3>2
  <2>6. f[i] \in DOMAIN events /\ f[j] \in DOMAIN events /\ f[i] \in Nat /\ f[j] \in Nat
    <3>1. f[i] \in K /\ f[j] \in K
      BY <2>4, <2>5
    <3>2. \A x \in K : x \in DOMAIN events /\ x \in Nat
      BY <2>0, <2>2
    <3> QED
      BY <3>1, <3>2
  <2>7. f[i] = f[j]
    BY <2>5, <2>6, <1>6
  <2> QED
    BY <2>1, <2>4, <2>5, <2>6, <2>7
<1> QED
  BY <1>7, <1>8, <1>9, <1>10 DEF steps, E

(* Each request of a step is a matched event of the list, and no other is. *)
LEMMA MatchedIs ==
  ASSUME DataTypes, NEW rest
  PROVE  LET steps == compiledSteps IN
         buildCoverage(allNetworkEvents, steps, rest).matched =
           Cardinality(UNION {{k} \X DOMAIN steps[k].events : k \in DOMAIN steps})
<1> DEFINE steps == compiledSteps  E == allNetworkEvents
           N == {j \in DOMAIN E : networkToStep(steps, E[j]) # {}}
           P == UNION {{k} \X DOMAIN steps[k].events : k \in DOMAIN steps}
<1>1. /\ \A k \in DOMAIN steps : Range(steps[k].events) \subseteq Range(E)
      /\ \A e, f \in Range(E) : Key(e) = Key(f) => e = f
      /\ \A e \in Range(E) : networkToStep(steps, e) = {k \in DOMAIN steps : e \in Range(steps[k].events)}
      /\ \A k, m \in DOMAIN steps : \A i \in DOMAIN steps[k].events, j \in DOMAIN steps[m].events :
           steps[k].events[i] = steps[m].events[j] => k = m /\ i = j
  BY InSteps
<1>2. E \in Seq(Event) /\ \A j, k \in DOMAIN E : Key(E[j]) = Key(E[k]) => j = k
  BY StepsAre
<1>3. buildCoverage(E, steps, rest).matched = Cardinality(N)
  BY DEF buildCoverage
<1> HIDE DEF steps, E
<1>5. IsFiniteSet(N)
  <2>1. Len(E) \in Nat /\ DOMAIN E = 1..Len(E) /\ N \subseteq DOMAIN E
    BY <1>2
  <2> HIDE DEF N
  <2>2. IsFiniteSet(1..Len(E))
    BY <2>1, FS_Interval
  <2> QED
    BY <2>1, <2>2, FS_Subset
<1> DEFINE At(p) == steps[p[1]].events[p[2]]
           g == [p \in P |-> CHOOSE j \in DOMAIN E : E[j] = At(p)]
<1>6. ASSUME NEW p \in P
      PROVE  /\ p = <<p[1], p[2]>> /\ p[1] \in DOMAIN steps /\ p[2] \in DOMAIN steps[p[1]].events
             /\ g[p] \in N /\ E[g[p]] = At(p)
  <2>1. PICK k \in DOMAIN steps : p \in {k} \X DOMAIN steps[k].events
    OBVIOUS
  <2>2. p = <<p[1], p[2]>> /\ p[1] = k /\ p[2] \in DOMAIN steps[k].events
    BY <2>1
  <2>3. At(p) \in Range(steps[k].events)
    BY <2>2 DEF Range
  <2>4. \E j \in DOMAIN E : E[j] = At(p)
    BY <2>3, <1>1 DEF Range
  <2>5. g[p] = CHOOSE j \in DOMAIN E : E[j] = At(p)
    OBVIOUS
  <2> HIDE DEF g
  <2>6. g[p] \in DOMAIN E /\ E[g[p]] = At(p)
    BY <2>4, <2>5
  <2>7. k \in networkToStep(steps, E[g[p]])
    <3>1. E[g[p]] \in Range(E)
      BY <2>6 DEF Range
    <3> QED
      BY <3>1, <2>3, <2>6, <1>1
  <2> QED
    BY <2>1, <2>2, <2>6, <2>7
<1> HIDE DEF P
<1>7. g \in [P -> N]
  BY <1>6
<1>8. \A p, q \in P : g[p] = g[q] => p = q
  <2> SUFFICES ASSUME NEW p \in P, NEW q \in P, g[p] = g[q]  PROVE p = q
    OBVIOUS
  <2> HIDE DEF g
  <2>1. At(p) = At(q)
    BY <1>6
  <2>2. p[1] = q[1] /\ p[2] = q[2]
    BY <1>1, <1>6, <2>1
  <2> QED
    BY <2>2, <1>6
<1>9. \A j \in N : \E p \in P : g[p] = j
  <2> SUFFICES ASSUME NEW j \in N  PROVE \E p \in P : g[p] = j
    OBVIOUS
  <2> HIDE DEF g
  <2>1. j \in DOMAIN E /\ E[j] \in Range(E) /\ networkToStep(steps, E[j]) # {}
    BY DEF Range
  <2>2. PICK k \in DOMAIN steps : E[j] \in Range(steps[k].events)
    BY <2>1, <1>1
  <2>3. PICK i \in DOMAIN steps[k].events : steps[k].events[i] = E[j]
    BY <2>2 DEF Range
  <2>4. <<k, i>> \in P
    BY DEF P
  <2>5. g[<<k, i>>] \in DOMAIN E /\ E[g[<<k, i>>]] = E[j]
    BY <2>3, <2>4, <1>6
  <2>6. g[<<k, i>>] = j
    BY <2>1, <2>5, <1>2
  <2> QED
    BY <2>4, <2>6
<1>10. Cardinality(P) = Cardinality(N)
  <2> HIDE DEF g, N
  <2>1. g \in Injection(P, N)
    BY <1>7, <1>8 DEF Injection, IsInjective
  <2>2. g \in Surjection(P, N)
    BY <1>7, <1>9 DEF Surjection
  <2> QED
    BY <2>1, <2>2, <1>5, FS_Injection
<1> QED
  BY <1>3, <1>10 DEF P, steps, E

(* The entries of the timeline. *)
Entries(I, E, steps, woven) ==
  {Entry(startedAt, "lifecycle", "started", 0)}
    \cup {Entry(r.time, "poll", r.result, 0) : r \in Record}
    \cup {Entry(i.time, "interaction", i, interactionToStep(steps, i)) : i \in Range(I)}
    \cup {Entry(e.time, "network", e, LastOf(networkToStep(steps, e))) : e \in Range(E)}
    \cup {Entry(s.time, "correlation", s.interaction, Len(s.events)) : s \in Range(steps)}
    \cup {Entry(w.time, "flow", w.of, 0) : w \in Range(woven)}

LEMMA TimelineIs ==
  ASSUME DataTypes
  PROVE  LET timeline == compiledTimeline
             X == Entries(allInteractions, allNetworkEvents, compiledSteps, weaveResult.woven)
         IN timeline \in Seq(X) /\ SortedPairs(timeline)
<1> DEFINE I == allInteractions  E == allNetworkEvents  steps == compiledSteps
           woven == weaveResult.woven  X == Entries(I, E, steps, woven)
           polls == KeptAt(records, {k \in DOMAIN records : ~IsBoundary(records[k])})
           some == KeptAt(steps, {k \in DOMAIN steps : steps[k].events # <<>>})
           a == <<Entry(startedAt, "lifecycle", "started", 0)>>
           b == [k \in DOMAIN polls |-> Entry(polls[k].time, "poll", polls[k].result, 0)]
           c == [k \in DOMAIN I |-> Entry(I[k].time, "interaction", I[k], interactionToStep(steps, I[k]))]
           d == [k \in DOMAIN E |-> Entry(E[k].time, "network", E[k], LastOf(networkToStep(steps, E[k])))]
           e == [k \in DOMAIN some |->
                   Entry(some[k].time, "correlation", some[k].interaction, Len(some[k].events))]
           f == [k \in DOMAIN woven |-> Entry(woven[k].time, "flow", woven[k].of, 0)]
<1>1. compiledTimeline = ByTime(a \o b \o c \o d \o e \o f)
  BY DEF compiledTimeline, buildTimeline, Polls
<1>2. /\ I \in Seq(Interaction) /\ E \in Seq(Event)
      /\ DOMAIN steps = 1..Len(I) /\ steps = [k \in DOMAIN steps |-> steps[k]]
      /\ \A k \in DOMAIN steps : steps[k].time \in Times
  <2>1. I \in Seq(Interaction) /\ E \in Seq(Event) /\ Correlated(I, Interaction, E, Event)
        /\ steps = correlate(I, E)
    BY StepsAre
  <2>2. steps = [k \in DOMAIN steps |-> steps[k]]
    BY <2>1 DEF correlate
  <2> HIDE DEF I, E, steps
  <2>3. /\ DOMAIN steps = 1..Len(I) /\ ByTime(I) \in Seq(Interaction) /\ Len(ByTime(I)) = Len(I)
        /\ \A k \in 1..Len(I) : steps[k].time = ByTime(I)[k].time
    BY <2>1 DEF Correlated
  <2>4. \A k \in 1..Len(I) : ByTime(I)[k] \in Interaction
    BY <2>3
  <2>5. \A k \in 1..Len(I) : steps[k].time \in Times
    BY <2>3, <2>4 DEF Interaction
  <2> QED
    BY <2>1, <2>2, <2>3, <2>5
<1>3. woven \in Seq(Woven)
  BY WovenSeq
<1> HIDE DEF I, E, steps, woven
<1>4. polls \in Seq(Record)
  <2> DEFINE K == {k \in DOMAIN records : ~IsBoundary(records[k])}
  <2>1. records \in Seq(Record) /\ K \subseteq DOMAIN records
    BY DEF DataTypes
  <2> HIDE DEF K
  <2>2. KeptAt(records, K) \in Seq(Record)
    BY <2>1, KeptAtSeq
  <2> QED
    BY <2>2 DEF K
<1>5. steps \in Seq(Range(steps))
  <2>1. Len(I) \in Nat /\ steps \in [1..Len(I) -> Range(steps)]
    BY <1>2 DEF Range
  <2> QED
    BY <2>1
<1>6. some \in Seq(Range(steps))
  <2> DEFINE K == {k \in DOMAIN steps : steps[k].events # <<>>}
  <2>1. K \subseteq DOMAIN steps
    OBVIOUS
  <2> HIDE DEF K
  <2>2. KeptAt(steps, K) \in Seq(Range(steps))
    BY <2>1, <1>5, KeptAtSeq
  <2> QED
    BY <2>2 DEF K
<1>7. /\ I \in Seq(Range(I)) /\ E \in Seq(Range(E)) /\ woven \in Seq(Range(woven))
  BY <1>2, <1>3, RangeSeq
<1> HIDE DEF polls, some
<1>8. a \in Seq(X)
  <2>1. Entry(startedAt, "lifecycle", "started", 0) \in X
    BY DEF Entries
  <2> HIDE DEF X
  <2> QED
    BY <2>1
<1>9. b \in Seq(X)
  <2>1. \A k \in DOMAIN polls : b[k] \in X
    <3>1. \A k \in DOMAIN polls : polls[k] \in Record
      BY <1>4
    <3> QED
      BY <3>1 DEF Entries
  <2>2. b = [k \in DOMAIN polls |-> b[k]]
    OBVIOUS
  <2> HIDE DEF b, X
  <2> QED
    BY <1>4, <2>1, <2>2, MappedSeq
<1>10. c \in Seq(X)
  <2>1. \A k \in DOMAIN I : c[k] \in X
    <3>1. \A k \in DOMAIN I : I[k] \in Range(I)
      BY DEF Range
    <3> QED
      BY <3>1 DEF Entries
  <2>2. c = [k \in DOMAIN I |-> c[k]]
    OBVIOUS
  <2> HIDE DEF c, X
  <2> QED
    BY <1>2, <2>1, <2>2, MappedSeq
<1>11. d \in Seq(X)
  <2>1. \A k \in DOMAIN E : d[k] \in X
    <3>1. \A k \in DOMAIN E : E[k] \in Range(E)
      BY DEF Range
    <3> QED
      BY <3>1 DEF Entries
  <2>2. d = [k \in DOMAIN E |-> d[k]]
    OBVIOUS
  <2> HIDE DEF d, X
  <2> QED
    BY <1>2, <2>1, <2>2, MappedSeq
<1>12. e \in Seq(X)
  <2>1. \A k \in DOMAIN some : e[k] \in X
    <3>1. \A k \in DOMAIN some : some[k] \in Range(steps)
      BY <1>6
    <3> QED
      BY <3>1 DEF Entries
  <2>2. e = [k \in DOMAIN some |-> e[k]]
    OBVIOUS
  <2> HIDE DEF e, X
  <2> QED
    BY <1>6, <2>1, <2>2, MappedSeq
<1>13. f \in Seq(X)
  <2>1. \A k \in DOMAIN woven : f[k] \in X
    <3>1. \A k \in DOMAIN woven : woven[k] \in Range(woven)
      BY DEF Range
    <3> QED
      BY <3>1 DEF Entries
  <2>2. f = [k \in DOMAIN woven |-> f[k]]
    OBVIOUS
  <2> HIDE DEF f, X
  <2> QED
    BY <1>3, <2>1, <2>2, MappedSeq
<1>14. \A x \in X : x.time \in Nat
  <2>1. Times \subseteq Nat /\ startedAt \in Nat
    BY TimesAre
  <2>2. \A r \in Record : r.time \in Nat
    BY <2>1 DEF Record
  <2>3. \A i \in Range(I) : i.time \in Nat
    <3>1. \A i \in Interaction : i.time \in Nat
      BY <2>1 DEF Interaction
    <3> QED
      BY <3>1, <1>2 DEF Range
  <2>4. \A x \in Range(E) : x.time \in Nat
    <3>1. \A x \in Event : x.time \in Nat
      BY <2>1 DEF Event
    <3> QED
      BY <3>1, <1>2 DEF Range
  <2>5. \A s \in Range(steps) : s.time \in Nat
    BY <2>1, <1>2 DEF Range
  <2>6. \A w \in Range(woven) : w.time \in Nat
    <3>1. \A w \in Woven : w.time \in Nat
      BY <2>1 DEF Woven
    <3> QED
      BY <3>1, <1>3 DEF Range
  <2> QED
    BY <2>1, <2>2, <2>3, <2>4, <2>5, <2>6 DEF Entries, Entry
<1> HIDE DEF a, b, c, d, e, f, X
<1>15. a \o b \o c \o d \o e \o f \in Seq(X)
  BY <1>8, <1>9, <1>10, <1>11, <1>12, <1>13
<1> QED
  BY <1>1, <1>14, <1>15, ByTimeIs DEF X, I, E, steps, woven

LEMMA TimelineAddsUpHolds == DataTypes => TimelineAddsUp
<1> SUFFICES ASSUME DataTypes PROVE TimelineAddsUp
  OBVIOUS
<1> DEFINE steps == compiledSteps  E == allNetworkEvents  timeline == compiledTimeline
           I == allInteractions  woven == weaveResult.woven
           session == Range(rows) \cup
             (IF compiled = "full" THEN {h \in Range(har) : h.time >= startedAt} ELSE {})
           X == Entries(I, E, steps, woven)
<1>1. /\ I \in Seq(Interaction) /\ E \in Seq(Event) /\ Correlated(I, Interaction, E, Event)
      /\ steps = correlate(I, E)
      /\ \A j, k \in DOMAIN E : Key(E[j]) = Key(E[k]) => j = k
  BY StepsAre
<1>2. IsInjective([k \in DOMAIN E |-> Key(E[k])])
  BY <1>1 DEF IsInjective
<1>3. {Key(e) : e \in Range(E)} = {Key(e) : e \in session}
  <2> DEFINE s == ByTime(rows)  t == IF compiled = "full" THEN InSession(har) ELSE <<>>
  <2>1. \A e \in Event : e.time \in Nat
    BY TimesAre DEF Event
  <2>2. s \in Seq(Event) /\ Range(s) = Range(rows)
    BY <2>1, ByTimeIs DEF DataTypes
  <2>3. /\ t \in Seq(Event)
        /\ Range(t) = IF compiled = "full" THEN {h \in Range(har) : h.time >= startedAt} ELSE {}
    <3>1. /\ InSession(har) \in Seq(Event)
          /\ Range(InSession(har)) = {h \in Range(har) : h.time >= startedAt}
      BY InSessionIs DEF DataTypes
    <3>2. <<>> \in Seq(Event) /\ Range(<<>>) = {}
      BY DEF Range
    <3> QED
      BY <3>1, <3>2
  <2>4. E = mergeEvents(s, t)
    BY DEF allNetworkEvents
  <2> HIDE DEF s, t, E
  <2>5. SameKeys(Range(E), Range(s) \cup Range(t))
    BY <2>2, <2>3, <2>4, MergedOnce
  <2>6. Range(s) \cup Range(t) = session
    BY <2>2, <2>3
  <2> QED
    BY <2>5, <2>6 DEF SameKeys
<1>4. timeline \in Seq(X) /\ SortedPairs(timeline)
  BY TimelineIs
<1>5. Sorted(timeline)
  <2> HIDE DEF timeline, X
  <2>1. Len(timeline) \in Nat /\ DOMAIN timeline = 1..Len(timeline)
    BY <1>4
  <2> QED
    BY <2>1, <1>4 DEF Sorted, SortedPairs
<1>6. buildCoverage(E, steps, weaveResult.records).matched =
        Cardinality(UNION {{k} \X DOMAIN steps[k].events : k \in DOMAIN steps})
  BY MatchedIs
<1>7. /\ \A k \in DOMAIN steps : Range(steps[k].events) \subseteq Range(E)
      /\ \A e \in Range(E) : networkToStep(steps, e) = {k \in DOMAIN steps : e \in Range(steps[k].events)}
  BY InSteps
<1> HIDE DEF steps, E, timeline, I, woven
<1>8. Len(I) \in Nat /\ DOMAIN steps = 1..Len(I)
  BY <1>1 DEF Correlated
<1>9. ASSUME NEW n \in X
      PROVE  /\ n.type = "network" /\ n.step # 0 => n.of \in Range(steps[n.step].events)
             /\ n.type = "network" /\ n.step = 0 =>
                  \A s \in Range(steps) : n.of \notin Range(s.events)
             /\ n.type = "interaction" => steps[n.step].time = n.of.time
  <2>1. CASE n.type = "network"
    <3>1. PICK e \in Range(E) : n = Entry(e.time, "network", e, LastOf(networkToStep(steps, e)))
      BY <2>1 DEF Entries, Entry
    <3> DEFINE at == networkToStep(steps, e)
    <3>2. n.of = e /\ n.step = LastOf(at)
      BY <3>1 DEF Entry
    <3>3. at = {k \in DOMAIN steps : e \in Range(steps[k].events)}
      BY <1>7
    <3>4. at # {} => LastOf(at) \in at
      <4>1. at \subseteq Nat /\ \A k \in at : k <= Len(I)
        BY <3>3, <1>8
      <4> HIDE DEF at
      <4> QED
        BY <4>1, <1>8, MaxIs DEF LastOf
    <3>5. at = {} => LastOf(at) = 0
      BY DEF LastOf
    <3> HIDE DEF at
    <3>6. CASE at = {}
      <4>1. \A k \in DOMAIN steps : e \notin Range(steps[k].events)
        BY <3>3, <3>6
      <4>2. \A s \in Range(steps) : e \notin Range(s.events)
        BY <4>1 DEF Range
      <4> QED
        BY <2>1, <3>2, <3>5, <3>6, <4>2
    <3>7. CASE at # {}
      <4>1. n.step \in DOMAIN steps /\ e \in Range(steps[n.step].events)
        BY <3>2, <3>3, <3>4, <3>7
      <4>2. n.step # 0
        BY <4>1, <1>8
      <4> QED
        BY <2>1, <3>2, <4>1, <4>2
    <3> QED
      BY <3>6, <3>7
  <2>2. CASE n.type = "interaction"
    <3>1. PICK i \in Range(I) : n = Entry(i.time, "interaction", i, interactionToStep(steps, i))
      BY <2>2 DEF Entries, Entry
    <3> DEFINE at == {k \in DOMAIN steps : steps[k].time = i.time}
    <3>2. n.of = i /\ n.step = Max(at)
      BY <3>1 DEF Entry, interactionToStep
    <3>3. at # {}
      <4>1. \A x \in Interaction : x.time \in Nat
        BY TimesAre DEF Interaction
      <4>2. /\ Range(ByTime(I)) = Range(I) /\ ByTime(I) \in Seq(Interaction)
            /\ Len(ByTime(I)) = Len(I)
        BY <1>1, <4>1, ByTimeIs
      <4>3. PICK k \in DOMAIN ByTime(I) : ByTime(I)[k] = i
        BY <4>2 DEF Range
      <4>4. k \in 1..Len(I)
        BY <4>2, <4>3
      <4>5. steps[k].time = i.time
        BY <4>3, <4>4, <1>1 DEF Correlated
      <4> QED
        BY <4>4, <4>5, <1>8
    <3>4. Max(at) \in at
      <4>1. at \subseteq Nat /\ \A k \in at : k <= Len(I)
        BY <1>8
      <4> HIDE DEF at
      <4> QED
        BY <3>3, <4>1, <1>8, MaxIs
    <3>5. steps[n.step].time = i.time
      BY <3>2, <3>4
    <3> QED
      BY <2>2, <3>2, <3>5
  <2> QED
    BY <2>1, <2>2
<1>10. \A k \in DOMAIN timeline : timeline[k] \in X
  <2> HIDE DEF X
  <2> QED
    BY <1>4
<1> HIDE DEF X
<1>11. \A k \in DOMAIN timeline : LET n == timeline[k] IN
            /\ n.type = "network" /\ n.step # 0 => n.of \in Range(steps[n.step].events)
            /\ n.type = "network" /\ n.step = 0 =>
                 \A s \in Range(steps) : n.of \notin Range(s.events)
            /\ n.type = "interaction" => steps[n.step].time = n.of.time
  BY <1>9, <1>10
<1> QED
  BY <1>2, <1>3, <1>5, <1>6, <1>11 DEF TimelineAddsUp, steps, E, timeline

-----------------------------------------------------------------------------
(* The flows, woven: of what this session did. *)

(* The boundaries a flow records, and the pair that they are. *)
StartOf(x) == [time |-> x.time, took |-> 0, result |-> "flow_start", flow |-> x.flow]

EndOf(x) == [time |-> x.end, took |-> 0, result |-> "flow_end", flow |-> x.flow]

(* The boundaries recorded are those of the executions, two by two and in  *)
(* order, and no two executions started together.                          *)
FlowsRecorded ==
  /\ Len(Marks(records)) = 2 * Len(executions)
  /\ \A k \in DOMAIN executions :
       /\ Marks(records)[2 * k - 1] = StartOf(executions[k])
       /\ Marks(records)[2 * k] = EndOf(executions[k])
       /\ executions[k].time < clock
       /\ \A j \in DOMAIN executions : j < k => executions[j].time < executions[k].time

LEMMA MarksSeq ==
  ASSUME NEW r \in Seq(Record)
  PROVE  Marks(r) \in Seq(Record)
<1> DEFINE K == {k \in DOMAIN r : IsBoundary(r[k])}
<1>1. K \subseteq DOMAIN r
  OBVIOUS
<1> HIDE DEF K
<1>2. KeptAt(r, K) \in Seq(Record)
  BY <1>1, KeptAtSeq
<1> QED
  BY <1>2 DEF K, Marks

(* A record more: it is the last of the boundaries, or they are the same. *)
LEMMA MarksAppend ==
  ASSUME NEW r \in Seq(Record), NEW x \in Record
  PROVE  /\ IsBoundary(x) => Marks(Append(r, x)) = Append(Marks(r), x)
         /\ ~IsBoundary(x) => Marks(Append(r, x)) = Marks(r)
<1> DEFINE t == Append(r, x)  K == {k \in DOMAIN r : IsBoundary(r[k])}
           L == {k \in DOMAIN t : IsBoundary(t[k])}  N == Len(r)
<1>1. /\ N \in Nat /\ DOMAIN r = 1..N /\ DOMAIN t = 1..(N + 1)
      /\ (\A k \in 1..N : t[k] = r[k]) /\ t[N + 1] = x
  OBVIOUS
<1> HIDE DEF t, N
<1>2. IsBoundary(x) => L = K \cup {N + 1}
  BY <1>1
<1>3. ~IsBoundary(x) => L = K
  BY <1>1
<1>4. K \subseteq DOMAIN r
  OBVIOUS
<1> HIDE DEF K, L
<1>5. KeptAt(t, K) = KeptAt(r, K) /\ KeptAt(t, K \cup {N + 1}) = Append(KeptAt(r, K), x)
  BY <1>4, KeptAppend DEF t, N
<1> QED
  BY <1>2, <1>3, <1>5 DEF Marks, t, K, L

LEMMA FlowsInit == DataInit => FlowsRecorded
<1> SUFFICES ASSUME DataInit PROVE FlowsRecorded
  OBVIOUS
<1>1. records = <<>> /\ executions = <<>>
  BY DEF DataInit
<1>2. Marks(<<>>) = <<>>
  <2> DEFINE K == {k \in DOMAIN <<>> : IsBoundary(<<>>[k])}
  <2>1. K = {}
    OBVIOUS
  <2>2. <<>> \in Seq(Record) /\ K \subseteq DOMAIN <<>>
    BY <2>1
  <2> HIDE DEF K
  <2>3. KeptAt(<<>>, K) \in Seq(Record) /\ Len(KeptAt(<<>>, K)) = Cardinality(K)
    BY <2>2, KeptAtSeq
  <2>4. Cardinality(K) = 0
    BY <2>1, FS_EmptySet
  <2> QED
    BY <2>3, <2>4, EmptyIs DEF Marks, K
<1> QED
  BY <1>1, <1>2 DEF FlowsRecorded

(* A step that records no flow keeps them; time only goes on.              *)
LEMMA FlowsKept ==
  ASSUME DataTypes, FlowsRecorded, executions' = executions,
         Marks(records') = Marks(records), clock' \in Nat, clock <= clock'
  PROVE  FlowsRecorded'
<1>1. clock \in Nat
  BY TimesAre DEF DataTypes
<1>2. \A k \in DOMAIN executions : executions[k].time \in Nat
  <2>1. \A x \in Execution : x.time \in Nat
    BY TimesAre DEF Execution
  <2> QED
    BY <2>1 DEF DataTypes
<1> QED
  BY <1>1, <1>2 DEF FlowsRecorded, StartOf, EndOf

LEMMA FlowsStep == DataTypes /\ FlowsRecorded /\ [DataNext]_dataVars => FlowsRecorded'
<1> SUFFICES ASSUME DataTypes, FlowsRecorded, [DataNext]_dataVars PROVE FlowsRecorded'
  OBVIOUS
<1>0. clock \in Nat /\ clock + 1 \in Nat
  BY TimesAre DEF DataTypes
<1>1. CASE UNCHANGED <<clock, records, executions>>
  BY <1>0, <1>1, FlowsKept
<1>2. CASE Tick
  BY <1>0, <1>2, FlowsKept DEF Tick
<1>3. CASE Poll
  <2>1. PICK r \in {"inferred", "error"} :
          records' = Append(records, [time |-> clock, took |-> 0, result |-> r, flow |-> "none"])
    BY <1>3 DEF Poll
  <2> DEFINE x == [time |-> clock, took |-> 0, result |-> r, flow |-> "none"]
  <2>2. x \in Record /\ ~IsBoundary(x)
    BY DEF Record, IsBoundary, DataTypes
  <2> HIDE DEF x
  <2>3. Marks(records') = Marks(records)
    BY <2>1, <2>2, MarksAppend DEF x, DataTypes
  <2> QED
    BY <1>0, <1>3, <2>3, FlowsKept DEF Poll
<1>4. CASE RunFlow
  <2>0. /\ records \in Seq(Record) /\ executions \in Seq(Execution)
        /\ Len(executions) \in Nat /\ DOMAIN executions = 1..Len(executions)
    BY DEF DataTypes
  <2>1. clock' = clock + 1 /\ clock' \in Times /\ clock \in Times
    BY <1>4, TimesAre DEF RunFlow, DataTypes
  <2>2. PICK f \in Flow :
          /\ records' = records \o <<[time |-> clock, took |-> 0, result |-> "flow_start", flow |-> f],
                                     [time |-> clock', took |-> 0, result |-> "flow_end", flow |-> f]>>
          /\ executions' = Append(executions, [flow |-> f, time |-> clock, end |-> clock'])
    BY <1>4 DEF RunFlow
  <2> DEFINE x == [flow |-> f, time |-> clock, end |-> clock']  m == Len(executions)
             b == Marks(records)
  <2>3. /\ StartOf(x) \in Record /\ IsBoundary(StartOf(x))
        /\ EndOf(x) \in Record /\ IsBoundary(EndOf(x)) /\ x \in Execution
        /\ x.time = clock
    BY <2>1 DEF Record, Execution, IsBoundary, StartOf, EndOf
  <2>4. records' = Append(Append(records, StartOf(x)), EndOf(x)) /\ executions' = Append(executions, x)
    BY <2>0, <2>2 DEF StartOf, EndOf
  <2> HIDE DEF x
  <2>5. Append(records, StartOf(x)) \in Seq(Record)
    BY <2>0, <2>3
  <2>6. Marks(records') = Append(Append(b, StartOf(x)), EndOf(x))
    BY <2>0, <2>3, <2>4, <2>5, MarksAppend
  <2>7. b \in Seq(Record) /\ Len(b) = 2 * m
    BY <2>0, MarksSeq DEF FlowsRecorded
  <2> DEFINE c == Append(Append(b, StartOf(x)), EndOf(x))
  <2> HIDE DEF b
  <2>8. /\ Len(c) = 2 * m + 2
        /\ \A i \in 1..(2 * m) : c[i] = b[i]
        /\ c[2 * m + 1] = StartOf(x) /\ c[2 * m + 2] = EndOf(x)
    <3> HIDE DEF m
    <3>1. m \in Nat
      BY <2>0 DEF m
    <3>2. Append(b, StartOf(x)) \in Seq(Record) /\ Len(Append(b, StartOf(x))) = 2 * m + 1
      BY <2>3, <2>7
    <3> QED
      BY <2>3, <2>7, <3>1, <3>2
  <2> DEFINE y == executions'
  <2>9. /\ Len(y) = m + 1 /\ DOMAIN y = 1..(m + 1)
        /\ (\A k \in 1..m : y[k] = executions[k]) /\ y[m + 1] = x
    BY <2>0, <2>3, <2>4
  <2>10. /\ \A k \in 1..m : /\ b[2 * k - 1] = StartOf(executions[k])
                            /\ b[2 * k] = EndOf(executions[k])
                            /\ executions[k].time < clock /\ executions[k].time \in Nat
                            /\ \A j \in 1..m : j < k => executions[j].time < executions[k].time
    <3>1. \A z \in Execution : z.time \in Nat
      BY TimesAre DEF Execution
    <3>2. \A k \in DOMAIN executions : executions[k].time \in Nat
      BY <2>0, <3>1
    <3>3. \A k \in DOMAIN executions :
            /\ b[2 * k - 1] = StartOf(executions[k]) /\ b[2 * k] = EndOf(executions[k])
            /\ executions[k].time < clock
            /\ \A j \in DOMAIN executions : j < k => executions[j].time < executions[k].time
      BY DEF FlowsRecorded, b
    <3> QED
      BY <2>0, <3>2, <3>3
  <2> HIDE DEF c, m, y
  <2>11. m \in Nat
    BY <2>0 DEF m
  <2>12. ASSUME NEW k \in 1..(m + 1)
         PROVE  /\ c[2 * k - 1] = StartOf(y[k]) /\ c[2 * k] = EndOf(y[k])
                /\ y[k].time < clock'
                /\ \A j \in 1..(m + 1) : j < k => y[j].time < y[k].time
    <3>1. CASE k = m + 1
      <4>1. 2 * k - 1 = 2 * m + 1 /\ 2 * k = 2 * m + 2
        BY <3>1, <2>11
      <4>2. y[k].time = clock
        BY <3>1, <2>3, <2>9
      <4>3. \A j \in 1..(m + 1) : j < k => y[j].time < y[k].time
        BY <3>1, <4>2, <2>9, <2>10, <2>11
      <4> QED
        BY <3>1, <4>1, <4>2, <4>3, <2>1, <2>8, <2>9, <1>0
    <3>2. CASE k # m + 1
      <4>1. k \in 1..m /\ 2 * k - 1 \in 1..(2 * m) /\ 2 * k \in 1..(2 * m)
        BY <3>2, <2>11
      <4>2. c[2 * k - 1] = StartOf(y[k]) /\ c[2 * k] = EndOf(y[k])
        BY <4>1, <2>8, <2>9, <2>10
      <4>3. y[k].time < clock'
        BY <4>1, <2>1, <2>9, <2>10, <1>0
      <4>4. \A j \in 1..(m + 1) : j < k => y[j].time < y[k].time
        <5> SUFFICES ASSUME NEW j \in 1..(m + 1), j < k  PROVE y[j].time < y[k].time
          OBVIOUS
        <5>1. j \in 1..m
          BY <4>1, <2>11
        <5> QED
          BY <4>1, <5>1, <2>9, <2>10
      <4> QED
        BY <4>2, <4>3, <4>4
    <3> QED
      BY <3>1, <3>2
  <2>13. Marks(records') = c /\ Len(c) = 2 * Len(y) /\ DOMAIN y = 1..(m + 1)
    BY <2>6, <2>8, <2>9, <2>11 DEF c
  <2> QED
    BY <2>12, <2>13 DEF FlowsRecorded, StartOf, EndOf, y
<1> QED
  BY <1>1, <1>2, <1>3, <1>4
     DEF DataNext, dataVars, logInteraction, AppRequest, Track, get_network_logs,
         register_segment, stop_and_compile_test

PairOf(x) == [flow |-> x.flow, time |-> x.time, end |-> x.end]

(* The boundaries pair up as the executions did. *)
LEMMA PairsRecorded ==
  ASSUME DataTypes, FlowsRecorded
  PROVE  /\ Len(Pairs(records)) = Len(executions)
         /\ \A n \in DOMAIN executions : Pairs(records)[n] = PairOf(executions[n])
<1> DEFINE b == Marks(records)  K == PairedAt(b)  m == Len(executions)  P == Pairs(records)
           h == [k \in 1..m |-> 2 * k - 1]
<1>1. m \in Nat /\ DOMAIN executions = 1..m
  BY DEF DataTypes
<1>2. b \in Seq(Record)
  BY MarksSeq DEF DataTypes
<1>3. /\ Len(b) = 2 * m /\ DOMAIN b = 1..(2 * m)
      /\ \A k \in 1..m : b[2 * k - 1] = StartOf(executions[k]) /\ b[2 * k] = EndOf(executions[k])
  BY <1>1, <1>2 DEF FlowsRecorded
<1>4. /\ Len(P) = Cardinality(K)
      /\ \A n \in 1..Len(P) :
           P[n] = [flow |-> b[InOrder(K)[n]].flow, time |-> b[InOrder(K)[n]].time,
                   end |-> b[InOrder(K)[n] + 1].time]
  BY PairsAre
<1> HIDE DEF b, P, m
<1>5. \A k \in 1..m : 2 * k - 1 \in K
  <2> SUFFICES ASSUME NEW k \in 1..m  PROVE 2 * k - 1 \in K
    OBVIOUS
  <2>1. 2 * k - 1 \in 1..(2 * m) /\ 2 * k - 1 < 2 * m /\ (2 * k - 1) + 1 = 2 * k
    BY <1>1
  <2>2. b[2 * k - 1] = StartOf(executions[k]) /\ b[(2 * k - 1) + 1] = EndOf(executions[k])
    BY <1>3, <2>1
  <2> QED
    BY <2>1, <2>2, <1>3 DEF PairedAt, StartOf, EndOf
<1>6. \A x \in K : \E k \in 1..m : x = 2 * k - 1
  <2> SUFFICES ASSUME NEW x \in K  PROVE \E k \in 1..m : x = 2 * k - 1
    OBVIOUS
  <2>1. x \in 1..(2 * m) /\ b[x].result = "flow_start"
    BY <1>3 DEF PairedAt
  <2>2. \E k \in 1..m : x = 2 * k - 1 \/ x = 2 * k
    <3> DEFINE R == {i \in Nat : i >= 1 => \E k \in Nat : k >= 1 /\ (i = 2 * k - 1 \/ i = 2 * k)}
    <3>1. 0 \in R
      OBVIOUS
    <3>2. ASSUME NEW i \in Nat, i \in R  PROVE i + 1 \in R
      <4>1. CASE i = 0
        <5>1. 1 \in Nat /\ i + 1 = 2 * 1 - 1
          BY <4>1
        <5> QED
          BY <5>1
      <4>2. CASE i # 0
        <5>1. PICK k \in Nat : k >= 1 /\ (i = 2 * k - 1 \/ i = 2 * k)
          BY <3>2, <4>2
        <5>2. CASE i = 2 * k - 1
          <6>1. i + 1 = 2 * k
            BY <5>2
          <6> QED
            BY <5>1, <6>1
        <5>3. CASE i = 2 * k
          <6> DEFINE l == k + 1
          <6>1. i + 1 = 2 * l - 1 /\ l \in Nat /\ l >= 1
            BY <5>3
          <6> HIDE DEF l
          <6> QED
            BY <6>1
        <5> QED
          BY <5>1, <5>2, <5>3
      <4> QED
        BY <4>1, <4>2
    <3>3. x \in R
      <4> HIDE DEF R
      <4>1. x \in Nat
        BY <2>1, <1>1
      <4> QED
        BY <3>1, <3>2, <4>1, NatInd
    <3>4. PICK k \in Nat : k >= 1 /\ (x = 2 * k - 1 \/ x = 2 * k)
      BY <3>3, <2>1, <1>1
    <3>5. k \in 1..m
      BY <3>4, <2>1, <1>1
    <3> QED
      BY <3>4, <3>5
  <2>3. PICK k \in 1..m : x = 2 * k - 1 \/ x = 2 * k
    BY <2>2
  <2>4. x # 2 * k
    <3>1. b[2 * k] = EndOf(executions[k])
      BY <1>3
    <3>2. b[2 * k].result = "flow_end"
      BY <3>1 DEF EndOf
    <3> QED
      BY <2>1, <3>2
  <2> QED
    BY <2>3, <2>4
<1>7. Cardinality(K) = m /\ InOrder(K) = h
  <2>1. K \subseteq Nat
    BY <1>3, <1>1 DEF PairedAt
  <2> HIDE DEF K
  <2>2. h \in [1..m -> K]
    BY <1>5
  <2>3. \A j, k \in 1..m : j < k => h[j] < h[k]
    BY <1>1
  <2>4. \A x \in K : \E k \in 1..m : h[k] = x
    BY <1>6
  <2> HIDE DEF h
  <2> QED
    BY <1>1, <2>1, <2>2, <2>3, <2>4, OneEnumeration
<1> HIDE DEF K
<1>8. ASSUME NEW n \in 1..m  PROVE P[n] = PairOf(executions[n])
  <2>1. InOrder(K)[n] = 2 * n - 1 /\ (2 * n - 1) + 1 = 2 * n
    BY <1>1, <1>7
  <2>2. P[n] = [flow |-> b[2 * n - 1].flow, time |-> b[2 * n - 1].time, end |-> b[2 * n].time]
    BY <1>4, <1>7, <2>1
  <2>3. b[2 * n - 1] = StartOf(executions[n]) /\ b[2 * n] = EndOf(executions[n])
    BY <1>3
  <2> QED
    BY <2>2, <2>3 DEF StartOf, EndOf, PairOf
<1> QED
  BY <1>1, <1>4, <1>7, <1>8 DEF P, m

(* What execution k is woven into: itself, with its own steps. *)
Itself(k) ==
  [flow |-> executions[k].flow, time |-> executions[k].time, end |-> executions[k].end, of |-> k,
   steps |-> {s \in parsedSteps : s.key = <<executions[k].flow, executions[k].time>>}]

(* After n pairs the first n executions are woven, in order. *)
LEMMA WovenSoFar ==
  ASSUME DataTypes, FlowsRecorded, NEW acc, Weaves(acc, Pairs(records), parsedSteps)
  PROVE  \A n \in 0..Len(executions) :
           /\ acc[n].left = (n + 1)..Len(executions)
           /\ Len(acc[n].woven) = n
           /\ \A k \in 1..n : acc[n].woven[k] = Itself(k)
<1> DEFINE m == Len(executions)  P == Pairs(records)
           T == {n \in Nat : n <= m =>
                   /\ acc[n].left = (n + 1)..m
                   /\ Len(acc[n].woven) = n
                   /\ \A k \in 1..n : acc[n].woven[k] = Itself(k)}
<1>1. /\ m \in Nat /\ DOMAIN executions = 1..m /\ Len(P) = m
      /\ \A n \in 1..m : P[n] = PairOf(executions[n]) /\ executions[n].time \in Nat
  <2>1. \A x \in Execution : x.time \in Nat
    BY TimesAre DEF Execution
  <2> QED
    BY <2>1, PairsRecorded DEF DataTypes
<1>2. /\ acc[0] = [left |-> DOMAIN executions, woven |-> <<>>]
      /\ \A n \in 1..Len(P) : acc[n] = Weave(acc[n - 1], P[n], parsedSteps)
      /\ \A n \in 0..Len(P) : acc[n] \in Weaving
  BY PairsAre, WeaveIs
<1> HIDE DEF P, m
<1>3. 0 \in T
  BY <1>1, <1>2
<1>4. ASSUME NEW n \in Nat, n \in T  PROVE n + 1 \in T
  <2> SUFFICES ASSUME n + 1 <= m
               PROVE  /\ acc[n + 1].left = ((n + 1) + 1)..m
                      /\ Len(acc[n + 1].woven) = n + 1
                      /\ \A k \in 1..(n + 1) : acc[n + 1].woven[k] = Itself(k)
    OBVIOUS
  <2> DEFINE old == acc[n]  c == take(old.left, executions, P[n + 1])
  <2>1. /\ old.left = (n + 1)..m /\ Len(old.woven) = n
        /\ \A k \in 1..n : old.woven[k] = Itself(k)
    BY <1>4, <1>1
  <2>2. n + 1 \in 1..m /\ (n + 1) - 1 = n /\ n \in 0..m
    BY <1>1
  <2>3. acc[n + 1] = Weave(old, P[n + 1], parsedSteps) /\ old.woven \in Seq(Woven)
    BY <1>1, <1>2, <2>2 DEF Weaving
  <2>4. P[n + 1] = PairOf(executions[n + 1]) /\ executions[n + 1].time \in Nat
    BY <1>1, <2>2
  <2> HIDE DEF old
  <2>5. n + 1 \in c /\ c \subseteq (n + 1)..m
    <3>1. Near(executions[n + 1].time, P[n + 1].time)
      BY <2>4, DataAssumption DEF Near, PairOf
    <3> QED
      BY <3>1, <2>1, <2>2, <2>4, <1>1 DEF take, PairOf
  <2> HIDE DEF c
  <2>6. Min(c) = n + 1
    <3>1. c \subseteq Nat /\ c # {} /\ \A x \in c : n + 1 <= x
      BY <2>5, <1>1
    <3>2. Min(c) \in c /\ \A x \in c : Min(c) <= x
      BY <3>1, MinIs
    <3>3. Min(c) \in Nat /\ Min(c) <= n + 1 /\ n + 1 <= Min(c)
      BY <3>1, <3>2, <2>5
    <3> QED
      BY <3>3
  <2>7. /\ acc[n + 1].left = old.left \ {n + 1}
        /\ acc[n + 1].woven = Append(old.woven, WovenOf(P[n + 1], c, parsedSteps))
    BY <2>3, <2>5, <2>6 DEF Weave, c
  <2>8. WovenOf(P[n + 1], c, parsedSteps) = Itself(n + 1)
    BY <2>5, <2>6 DEF WovenOf, Itself
  <2>9. acc[n + 1].left = ((n + 1) + 1)..m
    BY <2>1, <2>7, <1>1
  <2>10. /\ Len(acc[n + 1].woven) = n + 1
         /\ \A k \in 1..(n + 1) : acc[n + 1].woven[k] = Itself(k)
    <3> DEFINE w == old.woven  x == Itself(n + 1)
    <3>1. w \in Seq(Woven) /\ Len(w) = n /\ \A k \in 1..n : w[k] = Itself(k)
      BY <2>1, <2>3
    <3>2. acc[n + 1].woven = Append(w, x)
      BY <2>7, <2>8
    <3> HIDE DEF w, x
    <3>3. /\ Len(Append(w, x)) = n + 1 /\ Append(w, x)[n + 1] = x
          /\ \A k \in 1..n : Append(w, x)[k] = w[k]
      BY <3>1
    <3>4. \A k \in 1..(n + 1) : k = n + 1 \/ k \in 1..n
      OBVIOUS
    <3> QED
      BY <3>1, <3>2, <3>3, <3>4 DEF x
  <2> QED
    BY <2>9, <2>10
<1>5. \A n \in Nat : n \in T
  <2> HIDE DEF T
  <2> QED
    BY <1>3, <1>4, NatInd
<1> QED
  BY <1>1, <1>5 DEF m

(* No other execution started when this one did: its steps are its own. *)
LEMMA OwnSteps ==
  ASSUME FlowsRecorded, DataTypes, NEW k \in DOMAIN executions
  PROVE  Itself(k).steps = {s \in parsedSteps : s.of = k}
<1>1. DOMAIN executions \subseteq Nat
  BY DEF DataTypes
<1>2. \A j \in DOMAIN executions : executions[j].time \in Nat
  <2>1. \A x \in Execution : x.time \in Nat
    BY TimesAre DEF Execution
  <2> QED
    BY <2>1 DEF DataTypes
<1>3. \A j \in DOMAIN executions : executions[j].time = executions[k].time => j = k
  <2> SUFFICES ASSUME NEW j \in DOMAIN executions, j # k
               PROVE  executions[j].time # executions[k].time
    OBVIOUS
  <2>1. j \in Nat /\ k \in Nat
    BY <1>1
  <2>2. CASE j < k
    <3>1. executions[j].time < executions[k].time
      BY <2>2 DEF FlowsRecorded
    <3> QED
      BY <3>1, <1>2
  <2>3. CASE k < j
    <3>1. executions[k].time < executions[j].time
      BY <2>3 DEF FlowsRecorded
    <3> QED
      BY <3>1, <1>2
  <2> QED
    BY <2>1, <2>2, <2>3
<1>4. ASSUME NEW s \in parsedSteps
      PROVE  s.key = <<executions[k].flow, executions[k].time>> <=> s.of = k
  <2>1. PICK j \in DOMAIN executions :
          s = [key |-> <<executions[j].flow, executions[j].time>>, of |-> j]
    BY DEF parsedSteps
  <2>2. s.key = <<executions[j].flow, executions[j].time>> /\ s.of = j
    BY <2>1
  <2>3. s.key = <<executions[k].flow, executions[k].time>> => j = k
    BY <2>2, <1>3
  <2> QED
    BY <2>2, <2>3
<1> QED
  BY <1>4 DEF Itself

-----------------------------------------------------------------------------
(* The test that is written. *)

(* The flows of the session, woven. *)
LEMMA WovenIs ==
  ASSUME DataTypes, FlowsRecorded
  PROVE  LET woven == weaveResult.woven IN
         /\ woven \in Seq(Woven) /\ Len(woven) = Len(executions) /\ SortedPairs(woven)
         /\ Range(woven) = {Itself(k) : k \in DOMAIN executions}
<1> DEFINE m == Len(executions)  P == Pairs(records)
<1>1. PICK acc : /\ Weaves(acc, P, parsedSteps)
                 /\ weaveResult.woven = ByTime(acc[Len(P)].woven)
  BY WeaveResultIs
<1>2. m \in Nat /\ DOMAIN executions = 1..m /\ Len(P) = m /\ m \in 0..m
  BY PairsRecorded DEF DataTypes
<1>3. acc[m] \in Weaving
  <2>1. \A n \in 0..Len(P) : acc[n] \in Weaving
    BY <1>1, PairsAre, WeaveIs
  <2> QED
    BY <1>2, <2>1
<1> DEFINE w == acc[m].woven
<1>4. Len(w) = m /\ \A k \in 1..m : w[k] = Itself(k)
  BY <1>1, <1>2, WovenSoFar
<1>5. w \in Seq(Woven)
  BY <1>3 DEF Weaving
<1>6. \A x \in Woven : x.time \in Nat
  BY TimesAre DEF Woven
<1>7. weaveResult.woven = ByTime(w)
  BY <1>1, <1>2
<1> HIDE DEF w, m
<1>8. /\ ByTime(w) \in Seq(Woven) /\ Len(ByTime(w)) = m /\ SortedPairs(ByTime(w))
      /\ Range(ByTime(w)) = Range(w)
  BY <1>4, <1>5, <1>6, ByTimeIs
<1>9. Range(w) = {Itself(k) : k \in 1..m}
  <2>1. DOMAIN w = 1..m
    BY <1>4, <1>5
  <2> QED
    BY <1>4, <2>1 DEF Range
<1> QED
  BY <1>2, <1>7, <1>8, <1>9 DEF m

(* The directives of the test. *)
LEMMA YamlIs ==
  ASSUME DataTypes, FlowsRecorded
  PROVE  /\ Len(compiledSteps) \in Nat
         /\ compiledYaml[1].do = "launchApp" /\ Sorted(compiledYaml)
         /\ Len(compiledYaml) = 1 + Len(compiledSteps) + Len(weaveResult.woven)
<1> DEFINE I == allInteractions  steps == compiledSteps  woven == weaveResult.woven
           first == [do |-> "launchApp", time |-> Min(Times)]
           a == [k \in DOMAIN steps |-> [do |-> steps[k].interaction.target, time |-> steps[k].time]]
           b == [k \in DOMAIN woven |-> [do |-> woven[k].flow, time |-> woven[k].time]]
           Do == {steps[k].interaction.target : k \in DOMAIN steps}
                   \cup {woven[k].flow : k \in DOMAIN woven}
           D == [do : Do, time : Times]
<1>1. compiledYaml = <<first>> \o ByTime(a \o b)
  BY DEF compiledYaml, toYaml, tapDirectives, flowDirectives
<1>2. woven \in Seq(Woven)
  BY WovenIs
<1>3. /\ I \in Seq(Interaction) /\ DOMAIN steps = 1..Len(I)
      /\ steps = [k \in DOMAIN steps |-> steps[k]]
      /\ \A k \in DOMAIN steps : steps[k].time \in Times
  <2> DEFINE E == allNetworkEvents
  <2>1. I \in Seq(Interaction) /\ E \in Seq(Event) /\ Correlated(I, Interaction, E, Event)
        /\ steps = correlate(I, E)
    BY StepsAre
  <2>2. steps = [k \in DOMAIN steps |-> steps[k]]
    BY <2>1 DEF correlate
  <2> HIDE DEF I, E, steps
  <2>3. /\ DOMAIN steps = 1..Len(I) /\ ByTime(I) \in Seq(Interaction) /\ Len(ByTime(I)) = Len(I)
        /\ \A k \in 1..Len(I) : steps[k].time = ByTime(I)[k].time
    BY <2>1 DEF Correlated
  <2>4. \A k \in 1..Len(I) : ByTime(I)[k] \in Interaction
    BY <2>3
  <2>5. \A k \in 1..Len(I) : steps[k].time \in Times
    BY <2>3, <2>4 DEF Interaction
  <2> QED
    BY <2>1, <2>2, <2>3, <2>5
<1> HIDE DEF I, steps, woven
<1>4. steps \in Seq(Range(steps)) /\ Len(steps) \in Nat
  <2>1. Len(I) \in Nat /\ steps \in [1..Len(I) -> Range(steps)]
    BY <1>3 DEF Range
  <2> QED
    BY <2>1
<1>5. a \in Seq(D) /\ Len(a) = Len(steps)
  <2>1. \A k \in DOMAIN steps : a[k] \in D
    BY <1>3
  <2>2. a = [k \in DOMAIN steps |-> a[k]]
    OBVIOUS
  <2> HIDE DEF a, D
  <2> QED
    BY <1>4, <2>1, <2>2, MappedSeq
<1>6. b \in Seq(D) /\ Len(b) = Len(woven)
  <2>1. \A k \in DOMAIN woven : woven[k] \in Woven
    BY <1>2
  <2>2. \A k \in DOMAIN woven : woven[k].time \in Times
    BY <2>1 DEF Woven
  <2>3. \A k \in DOMAIN woven : b[k] \in D
    BY <2>2
  <2>4. b = [k \in DOMAIN woven |-> b[k]]
    OBVIOUS
  <2> HIDE DEF b, D
  <2> QED
    BY <1>2, <2>3, <2>4, MappedSeq
<1>7. \A y \in D : y.time \in Nat /\ Min(Times) <= y.time
  BY TimesAre
<1> HIDE DEF a, b, D
<1>8. a \o b \in Seq(D) /\ Len(a \o b) = Len(steps) + Len(woven)
  BY <1>5, <1>6
<1>9. /\ ByTime(a \o b) \in Seq(D) /\ Len(ByTime(a \o b)) = Len(steps) + Len(woven)
      /\ SortedPairs(ByTime(a \o b))
  <2> DEFINE c == a \o b
  <2> HIDE DEF c
  <2>1. c \in Seq(D) /\ Len(c) = Len(steps) + Len(woven)
    BY <1>8 DEF c
  <2>2. /\ ByTime(c) \in Seq(D) /\ Len(ByTime(c)) = Len(steps) + Len(woven)
        /\ SortedPairs(ByTime(c))
    BY <1>7, <2>1, ByTimeIs
  <2> QED
    BY <2>2 DEF c
<1> DEFINE t == ByTime(a \o b)
<1>10. \A y \in D : first.time <= y.time
  BY <1>7
<1>11. first.do = "launchApp"
  OBVIOUS
<1> HIDE DEF t, first
<1>12. Sorted(<<first>> \o t) /\ Len(<<first>> \o t) = 1 + Len(t) /\ (<<first>> \o t)[1] = first
  <2>1. t \in Seq(D) /\ SortedPairs(t)
    BY <1>9 DEF t
  <2> QED
    BY <2>1, <1>10, SortedBehind
<1>13. Len(t) = Len(steps) + Len(woven) /\ Len(woven) \in Nat
  BY <1>2, <1>9 DEF t
<1>14. 1 + (Len(steps) + Len(woven)) = 1 + Len(steps) + Len(woven)
  BY <1>4, <1>13
<1>15. compiledYaml = <<first>> \o t
  BY <1>1 DEF t
<1> HIDE DEF Do
<1> QED
  BY <1>4, <1>11, <1>12, <1>13, <1>14, <1>15 DEF steps, woven

LEMMA ReplayHolds == DataTypes /\ FlowsRecorded => ReplayIsTheSession
<1> SUFFICES ASSUME DataTypes, FlowsRecorded PROVE ReplayIsTheSession
  OBVIOUS
<1> DEFINE woven == weaveResult.woven
<1>1. /\ woven \in Seq(Woven) /\ Len(woven) = Len(executions) /\ SortedPairs(woven)
      /\ Range(woven) = {Itself(k) : k \in DOMAIN executions}
  BY WovenIs
<1> HIDE DEF woven
<1>2. Sorted(woven)
  BY <1>1, SortedByPairs
<1>3. \A k \in DOMAIN executions : Itself(k).of = k
  BY DEF Itself
<1>4. {w.of : w \in Range(woven)} = DOMAIN executions
  <2> HIDE DEF Itself
  <2>1. ASSUME NEW w \in Range(woven)  PROVE w.of \in DOMAIN executions
    BY <1>1, <1>3
  <2>2. ASSUME NEW k \in DOMAIN executions  PROVE \E w \in Range(woven) : w.of = k
    BY <1>1, <1>3
  <2> QED
    BY <2>1, <2>2
<1>5. \A w \in Range(woven) : w.steps = {s \in parsedSteps : s.of = w.of}
  <2> SUFFICES ASSUME NEW w \in Range(woven)
               PROVE  w.steps = {s \in parsedSteps : s.of = w.of}
    OBVIOUS
  <2>1. PICK k \in DOMAIN executions : w = Itself(k)
    BY <1>1
  <2>2. Itself(k).steps = {s \in parsedSteps : s.of = k}
    BY OwnSteps
  <2> QED
    BY <2>1, <2>2, <1>3
<1>6. /\ compiledYaml[1].do = "launchApp" /\ Sorted(compiledYaml)
      /\ Len(compiledYaml) = 1 + Len(compiledSteps) + Len(woven)
  BY YamlIs DEF woven
<1> QED
  BY <1>1, <1>2, <1>4, <1>5, <1>6 DEF ReplayIsTheSession, woven

-----------------------------------------------------------------------------
(* The theorems. *)

(* In every state what is recorded is of its type, at times of the         *)
(* session: rows and Proxyman entries are events, taps are interactions    *)
(* (src/session/database.ts).                                              *)
THEOREM DataTypesHold == DataSpec => []DataTypes
<1> QED
  BY TypesInit, TypesStep, PTL DEF DataSpec

(* The boundaries among the poll records are those of the executions, two  *)
(* by two, in the order in which the flows ran, and no two flows started   *)
(* at one time (run_flow between pauseSession and resumeSession,           *)
(* src/handlers.ts).                                                       *)
THEOREM FlowsRecordedHolds == DataSpec => []FlowsRecorded
<1>1. DataTypes /\ FlowsRecorded /\ [DataNext]_dataVars => FlowsRecorded'
  BY FlowsStep
<1> QED
  BY FlowsInit, <1>1, DataTypesHold, PTL DEF DataSpec

(* Whatever was recorded, a compiled step has exactly the requests it is   *)
(* the last interaction before, within the window (Correlator.correlate).  *)
THEOREM CausesAreNearest == DataSpec => []NearestCause
<1> QED
  BY NearestCauseHolds, DataTypesHold, PTL

(* Whatever was recorded, the stub server loaded with the stubs of the     *)
(* session answers with the latest capture of a fixture, only what is to   *)
(* be mocked, and leaves no fixture out (StubWriter,                       *)
(* StubServer.handleRequest).                                              *)
THEOREM StubsServeLatest == DataSpec => []StubsAreLatest
<1> QED
  BY StubsAreLatestHolds, DataTypesHold, PTL

(* Whatever was recorded and copied, and in whatever order, the compiled   *)
(* session has each request once, and the timeline and the coverage agree  *)
(* with the steps (getMergedEvents, TimelineBuilder).                      *)
THEOREM TimelineAgrees == DataSpec => []TimelineAddsUp
<1> QED
  BY TimelineAddsUpHolds, DataTypesHold, PTL

(* On any session, with no anchor or a tapped one, the verdicts of         *)
(* verify_network_sequence, _on_screen and _absent mean what the tools     *)
(* say, and agree with one another (src/handlers.ts).                      *)
THEOREM VerdictsHold == DataSpec => []VerdictsAreTrue
<1> QED
  BY VerdictsAreTrueHolds, DataTypesHold, PTL

(* Every flow the session ran is woven once, as itself and with its own    *)
(* steps, and the test that is written replays interactions and flows in   *)
(* order of time (FlowWeaver, YamlGenerator.toYaml).                       *)
THEOREM ReplayIsRecorded == DataSpec => []ReplayIsTheSession
<1> QED
  BY ReplayHolds, DataTypesHold, FlowsRecordedHolds, PTL
=============================================================================
