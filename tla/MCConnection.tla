---------------------------- MODULE MCConnection ----------------------------
EXTENDS Connection, TLC

Symmetry == Permutations(Thread)
=============================================================================
