------------------------------ MODULE MCGasIaq ------------------------------
EXTENDS GasIaq, TLC

CONSTANTS t1, t2

Pair == {t1, t2}

(* A zero reading, two good ones and NaN.                                  *)
AllGas == {0, 1, 2, NaN}

GoodGas == {1, 2}
=============================================================================
