------------------------------ MODULE MCReview ------------------------------
\* Small instances of Review for TLC.
EXTENDS Review

CONSTANTS m1, m2, i1, r1, c1
=============================================================================
