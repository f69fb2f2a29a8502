----------------------------- MODULE MCBmeSensor -----------------------------
EXTENDS BmeSensor

CONSTANTS t1, t2
=============================================================================
