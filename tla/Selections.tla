----------------------------- MODULE Selections -----------------------------
(***************************************************************************)
(* Selecting from a sequence and sorting it, in closed form: what a        *)
(* position of the outcome holds is told by counting.                      *)
(***************************************************************************)
EXTENDS Integers, FiniteSets

\* The k-th number of S
Nth(S, k) == CHOOSE i \in S : Cardinality({j \in S : j < i}) = k - 1

\* What s has at the positions of S, in their order
Kept(s, S) == [k \in 1..Cardinality(S) |-> s[Nth(S, k)]]

\* The k-th smallest has fewer than k before it and at least k up to it.
Sorted(s) ==
  [k \in DOMAIN s |-> CHOOSE t \in {s[i] : i \in DOMAIN s} :
     /\ Cardinality({i \in DOMAIN s : s[i] < t}) < k
     /\ k <= Cardinality({i \in DOMAIN s : s[i] <= t})]
=============================================================================
