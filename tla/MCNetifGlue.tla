---------------------------- MODULE MCNetifGlue ----------------------------
EXTENDS NetifGlue, TLC

CONSTANTS w1, m1, m2, m3

MCWorkers == {w1}

MCMsgs == {m1, m2, m3}
=============================================================================
