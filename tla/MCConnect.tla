----------------------------- MODULE MCConnect -----------------------------
EXTENDS Connect, TLC

Symmetry == Permutations(Sid) \cup Permutations(Redeem)
=============================================================================
