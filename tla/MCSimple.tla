------------------------------ MODULE MCSimple ------------------------------
EXTENDS Simple, TLC

Symmetry == Permutations(Tree)
==============================================================================
