\* One importer stages two batches beside a reviewer who drops one memory.
SPECIFICATION Spec
CONSTANTS
  m1 = m1  m2 = m2  m3 = m3
  s1 = s1  s2 = s2
  d1 = d1  d2 = d2
  Memories = {m1, m2}
  Stagers = {s1}
  Droppers = {d1}
  MaxAttempts = 2
  MaxCalls = 2
  MaxGitFailures = 0
  MayCrash = FALSE
INVARIANTS NeverLosesAMemory
\* Processes run out of calls, return or are killed.
CHECK_DEADLOCK FALSE
