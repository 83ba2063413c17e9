---------------------------- MODULE MCMagicSched ----------------------------
EXTENDS MagicSched, TLC
Symmetry == Permutations(Tasks)
=============================================================================
