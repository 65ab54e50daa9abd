----------------------------- MODULE MCGateway -----------------------------
EXTENDS Gateway, TLC

Symmetry == Permutations(Rest) \union Permutations(Session) \union Permutations(User)
=============================================================================
