---------------------------- MODULE MCLiveEngine ----------------------------
(* Instances of LiveEngine for TLC.                                        *)
EXTENDS LiveEngine, TLC

Symmetry ==
  Permutations(Orders) \cup Permutations(Handlers) \cup Permutations(Operators)
=============================================================================
