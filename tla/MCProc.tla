------------------------------- MODULE MCProc -------------------------------
(* Instances of Proc for TLC.                                              *)
EXTENDS Proc, TLC

\* Page directories are interchangeable names.
Symmetry == Permutations(PgDirs)
=============================================================================
