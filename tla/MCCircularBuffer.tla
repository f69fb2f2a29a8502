-------------------------- MODULE MCCircularBuffer --------------------------
EXTENDS CircularBuffer

CONSTANTS t1, t2, t3
=============================================================================
