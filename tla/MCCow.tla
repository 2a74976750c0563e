------------------------------- MODULE MCCow --------------------------------
EXTENDS Cow, TLC

Symmetry == Permutations(Procs \ {initproc}) \cup Permutations(PgDirs) \cup Permutations(Frames)
=============================================================================
