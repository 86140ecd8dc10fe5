------------------------------ MODULE Selection ------------------------------
(***************************************************************************)
(* Some entries of a sequence, in their order. This is SelectSeq, by the   *)
(* positions of what is selected instead of a test, and without recursion, *)
(* so that a proof can say what it returns.                                *)
(***************************************************************************)
EXTENDS Naturals, FiniteSets, Sequences

\* The numbers in K, from the least to the greatest.
Ascending(K) ==
  CHOOSE f \in [1..Cardinality(K) -> K] :
    \A m, n \in 1..Cardinality(K) : m < n => f[m] < f[n]

\* The entries of s at the positions in K.
EntriesAt(s, K) ==
  LET place == Ascending(K) IN [n \in 1..Cardinality(K) |-> s[place[n]]]

=============================================================================
