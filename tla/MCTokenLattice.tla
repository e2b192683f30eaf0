--------------------------- MODULE MCTokenLattice ---------------------------
EXTENDS TokenLattice, TLC

Symmetry == Permutations(LS)
=============================================================================
