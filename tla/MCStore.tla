------------------------------ MODULE MCStore ------------------------------
EXTENDS Store, TLC
CONSTANTS k1, k2, w1, w2
=============================================================================
