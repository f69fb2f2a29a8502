---------------------------- MODULE MCEndDevice ----------------------------
EXTENDS EndDevice, TLC

CONSTANTS p2, u1
=============================================================================
