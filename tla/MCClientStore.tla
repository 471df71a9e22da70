--------------------------- MODULE MCClientStore ---------------------------
EXTENDS ClientStore, TLC

Symmetry == Permutations(Client)
=============================================================================
