---------------------------- MODULE Subsequences ----------------------------
(***************************************************************************)
(* What is left of a list when entries are erased.  SelectSeq would say it *)
(* by recursion; here the positions that stay are enumerated, a form that  *)
(* can be reasoned about.                                                  *)
(***************************************************************************)
EXTENDS Naturals, Sequences, FiniteSets

\* f lists the elements of K, the smallest first.
Enumerates(f, K) ==
    /\ \A i, j \in DOMAIN f : i < j => f[i] < f[j]
    /\ \A k \in K : \E i \in DOMAIN f : f[i] = k

\* The entries of s at the positions in K, in the order of s.
Keep(s, K) ==
    LET f == CHOOSE f \in [1 .. Cardinality(K) -> K] : Enumerates(f, K)
    IN  [i \in 1 .. Cardinality(K) |-> s[f[i]]]
=============================================================================
