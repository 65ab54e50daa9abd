------------------------------ MODULE MCSpytify ------------------------------
EXTENDS Spytify, TLC

Symmetry == Permutations(Obj) \union Permutations(Tree)
==============================================================================
