---------------------------- MODULE MCPaperBroker ---------------------------
(* Instances of PaperBroker for TLC.                                       *)
EXTENDS PaperBroker, TLC

Symmetry == Permutations(Symbols) \cup Permutations(Tasks)
=============================================================================
