------------------------------- MODULE MCPm25 -------------------------------
EXTENDS Pm25, TLC

CONSTANTS t1, t2, t3

Three == {t1, t2, t3}

Symmetry == Permutations(Three)
=============================================================================
