---------------------------- MODULE MCCoapClient ----------------------------
EXTENDS CoapClient, TLC

CONSTANTS w1, w2, m1, m2, m3

MCWorkers == {w1, w2}

MCMsgs == {m1, m2, m3}

Symmetry == Permutations(MCWorkers) \cup Permutations(MCMsgs)
=============================================================================
