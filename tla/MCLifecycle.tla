---------------------------- MODULE MCLifecycle ----------------------------
EXTENDS Lifecycle, TLC

Symmetry == Permutations(Client)
=============================================================================
