-------------------------------- MODULE MCLog -------------------------------
(* Instances of Log for TLC.                                               *)
EXTENDS Log, TLC

Symmetry == Permutations(Ops) \cup Permutations(Vals) \cup Permutations(Blocks)
=============================================================================
