------------------------- MODULE SubsequencesProofs -------------------------
(***************************************************************************)
(* What Keep and the other operators on positions of Subsequences return.  *)
(***************************************************************************)
EXTENDS Subsequences, Integers, WellFoundedInduction, FiniteSetTheorems, TLAPS

\* A set of naturals that is not empty has a smallest element: the form in
\* which induction over the naturals is used here.
LEMMA LeastNatural ==
    ASSUME NEW T, T \subseteq Nat, T # {}
    PROVE  \E n \in T : \A m \in T : n <= m
<1>1. \A x, y \in Nat : y < x => <<y, x>> \in OpToRel(<, Nat)
  BY DEF OpToRel
<1>2. PICK R : /\ IsWellFoundedOn(R, Nat)
               /\ \A x, y \in Nat : y < x => <<y, x>> \in R
  BY <1>1, NatLessThanWellFounded, Zenon
<1>3. PICK n \in T : \A y \in T : ~ (<<y, n>> \in R)
  BY <1>2, WFMin
<1>4. \A y \in T : ~ (y < n)
  BY <1>2, <1>3
<1> QED
  BY <1>3, <1>4

\* A set of naturals that is bounded and not empty has a greatest element.
LEMMA GreatestNatural ==
    ASSUME NEW T, T \subseteq Nat, T # {}, NEW b \in Nat, \A t \in T : t <= b
    PROVE  \E n \in T : \A m \in T : m <= n
<1> DEFINE D == {b - t : t \in T}
<1>1. D \subseteq Nat
  <2> SUFFICES ASSUME NEW t \in T PROVE b - t \in Nat
    OBVIOUS
  <2>1. t \in Nat /\ t <= b
    OBVIOUS
  <2> QED
    BY <2>1
<1>0. D # {}
  OBVIOUS
<1>2. PICK d \in D : \A e \in D : d <= e
  BY <1>0, <1>1, LeastNatural
<1>3. PICK n \in T : d = b - n
  OBVIOUS
<1>4. \A m \in T : b - n <= b - m
  BY <1>2, <1>3
<1> QED
  BY <1>4

\* Every set of positions can be enumerated in its order.
LEMMA EnumerationExists ==
    ASSUME NEW n \in Nat, NEW K \in SUBSET (1 .. n)
    PROVE  /\ Cardinality(K) \in Nat
           /\ \E f \in [1 .. Cardinality(K) -> K] : Enumerates(f, K)
<1> DEFINE E(m) == \A L \in SUBSET (1 .. m) :
                      \E f \in [1 .. Cardinality(L) -> L] : Enumerates(f, L)
           T == {m \in Nat : ~ E(m)}
<1>1. \A m \in Nat : \A L \in SUBSET (1 .. m) :
          IsFiniteSet(L) /\ Cardinality(L) \in Nat
  <2> SUFFICES ASSUME NEW m \in Nat, NEW L \in SUBSET (1 .. m)
               PROVE  IsFiniteSet(L) /\ Cardinality(L) \in Nat
    OBVIOUS
  <2>1. IsFiniteSet(1 .. m)
    BY FS_Interval
  <2>2. IsFiniteSet(L)
    BY <2>1, FS_Subset
  <2> QED
    BY <2>2, FS_CardinalityType
<1>2. T = {}
  <2> SUFFICES ASSUME T # {} PROVE FALSE
    OBVIOUS
  <2>1. PICK m \in T : \A k \in T : m <= k
    BY LeastNatural
  <2>2. m # 0
    <3> SUFFICES ASSUME m = 0 PROVE E(0)
      BY <2>1
    <3>1. SUBSET (1 .. 0) = {{}}
      OBVIOUS
    <3>2. Cardinality({}) = 0
      BY FS_EmptySet
    <3>3. Enumerates(<<>>, {}) /\ <<>> \in [1 .. 0 -> {}]
      BY DEF Enumerates
    <3>4. ASSUME NEW L \in SUBSET (1 .. 0)
          PROVE  \E f \in [1 .. Cardinality(L) -> L] : Enumerates(f, L)
      <4>1. L = {} /\ Cardinality(L) = 0
        BY <3>1, <3>2
      <4> QED
        BY <4>1, <3>3
    <3> QED
      BY <3>4
  <2>3. m \in Nat /\ m - 1 \in Nat /\ m - 1 \notin T
    <3>1. m \in Nat /\ T \subseteq Nat
      OBVIOUS
    <3> HIDE DEF T
    <3> QED
      BY <2>1, <2>2, <3>1
  <2>4. E(m - 1)
    BY <2>3
  <2>5. PICK L \in SUBSET (1 .. m) :
           ~ \E f \in [1 .. Cardinality(L) -> L] : Enumerates(f, L)
    BY <2>1
  <2>6. m \in L
    <3> SUFFICES ASSUME m \notin L PROVE FALSE
      OBVIOUS
    <3>1. L \in SUBSET (1 .. m - 1)
      BY <2>3
    <3> QED
      BY <3>1, <2>4, <2>5
  <2> DEFINE M == L \ {m}
             c == Cardinality(M)
  <2>7. M \in SUBSET (1 .. m - 1)
    BY <2>3
  <2>8. PICK f \in [1 .. c -> M] : Enumerates(f, M)
    BY <2>4, <2>7
  <2>9. IsFiniteSet(L) /\ c \in Nat /\ Cardinality(L) = c + 1
    <3>1. IsFiniteSet(L) /\ Cardinality(L) \in Nat /\ c \in Nat
      BY <1>1, <2>3, <2>7
    <3>2. c = Cardinality(L) - 1
      BY <3>1, <2>6, FS_RemoveElement
    <3> HIDE DEF c
    <3> QED
      BY <3>1, <3>2
  <2> DEFINE g == [i \in 1 .. c + 1 |-> IF i = c + 1 THEN m ELSE f[i]]
  <2> HIDE DEF c, E, T
  <2>10. \A i \in 1 .. c : i \in 1 .. c + 1 /\ i # c + 1 /\ g[i] = f[i] /\ f[i] \in M
    BY <2>8, <2>9
  <2>11. c + 1 \in 1 .. c + 1 /\ g[c + 1] = m
    BY <2>9
  <2>12. \A i \in 1 .. c + 1 : i = c + 1 \/ i \in 1 .. c
    BY <2>9
  <2>13. g \in [1 .. c + 1 -> L]
    BY <2>6, <2>8, <2>12
  <2> HIDE DEF g
  <2>14. ASSUME NEW i \in 1 .. c + 1, NEW j \in 1 .. c + 1, i < j
         PROVE  g[i] < g[j]
    <3>1. i \in 1 .. c
      BY <2>9, <2>14, <2>12
    <3>2. CASE j = c + 1
      <4>1. f[i] \in 1 .. m - 1
        BY <2>7, <2>10, <3>1
      <4> QED
        BY <4>1, <2>3, <2>10, <2>11, <3>1, <3>2
    <3>3. CASE j \in 1 .. c
      BY <2>8, <2>10, <2>14, <3>1, <3>3 DEF Enumerates
    <3> QED
      BY <2>12, <3>2, <3>3
  <2>15. ASSUME NEW k \in L
         PROVE  \E i \in 1 .. c + 1 : g[i] = k
    <3>1. CASE k = m
      BY <2>11, <3>1
    <3>2. CASE k \in M
      <4>1. PICK i \in 1 .. c : f[i] = k
        BY <2>8, <3>2 DEF Enumerates
      <4> QED
        BY <4>1, <2>10
    <3> QED
      BY <3>1, <3>2
  <2>16. Enumerates(g, L)
    <3>1. DOMAIN g = 1 .. c + 1
      BY <2>13
    <3> QED
      BY <3>1, <2>14, <2>15 DEF Enumerates
  <2> QED
    BY <2>5, <2>9, <2>13, <2>16
<1> QED
  BY <1>1, <1>2

\* Keep(s, K) is the subsequence of s at the positions K: some increasing f
\* lists K, and entry i is entry f[i] of s.
LEMMA KeepProperties ==
    ASSUME NEW S, NEW s \in Seq(S), NEW K \in SUBSET DOMAIN s
    PROVE  /\ Keep(s, K) \in Seq(S)
           /\ \E f \in [DOMAIN Keep(s, K) -> K] :
                 /\ Enumerates(f, K)
                 /\ \A i \in DOMAIN Keep(s, K) : Keep(s, K)[i] = s[f[i]]
<1>1. Len(s) \in Nat /\ DOMAIN s = 1 .. Len(s)
  OBVIOUS
<1> DEFINE c == Cardinality(K)
           g == CHOOSE f \in [1 .. c -> K] : Enumerates(f, K)
<1>2. c \in Nat /\ g \in [1 .. c -> K] /\ Enumerates(g, K)
  BY <1>1, EnumerationExists
<1>3. Keep(s, K) = [i \in 1 .. c |-> s[g[i]]]
  BY DEF Keep
<1> HIDE DEF g, c
<1>4. \A i \in 1 .. c : s[g[i]] \in S
  BY <1>2
<1>5. Keep(s, K) \in Seq(S) /\ DOMAIN Keep(s, K) = 1 .. c
  BY <1>2, <1>3, <1>4
<1> QED
  BY <1>2, <1>3, <1>5
=============================================================================
