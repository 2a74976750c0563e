-------------------------------- MODULE MCBio -------------------------------
(* Instances of Bio for TLC.                                               *)
EXTENDS Bio, TLC
Symmetry == Permutations(Procs) \cup Permutations(Bufs) \cup Permutations(Vals)
=============================================================================
