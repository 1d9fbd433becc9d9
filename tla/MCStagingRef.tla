---------------------------- MODULE MCStagingRef ----------------------------
\* Small instances of StagingRef for TLC.
EXTENDS StagingRef, TLC

CONSTANTS m1, m2, m3, s1, s2, d1, d2

\* Memories and processes of one role are interchangeable (safety runs only).
Symmetry ==
  Permutations(Memories) \cup Permutations(Stagers) \cup Permutations(Droppers)
=============================================================================
