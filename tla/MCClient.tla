------------------------------ MODULE MCClient ------------------------------
EXTENDS Client, TLC

Symmetry == Permutations(Thread)
=============================================================================
