------------------------------- MODULE MCOMS -------------------------------
(* Instances of OMS for TLC.                                               *)
EXTENDS OMS, TLC

Symmetry == Permutations(Orders) \cup Permutations(Tasks)
============================================================================
