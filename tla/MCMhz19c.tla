------------------------------ MODULE MCMhz19c ------------------------------
EXTENDS Mhz19c, TLC

CONSTANTS t1, t2

Callers == {t1, t2}

Symmetry == Permutations(Callers)
=============================================================================
