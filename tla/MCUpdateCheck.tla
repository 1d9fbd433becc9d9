---------------------------- MODULE MCUpdateCheck ----------------------------
\* Small instances of UpdateCheck for TLC.
EXTENDS UpdateCheck

CONSTANTS s1, s2, k1, k2
=============================================================================
