------------------------------ MODULE MCQueue ------------------------------
EXTENDS Queue, TLC

Symmetry == Permutations(Thread) \union Permutations(Message)
=============================================================================
