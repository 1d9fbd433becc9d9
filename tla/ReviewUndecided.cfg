\* One reviewer alone after an import; one git command fails as it reads.
SPECIFICATION Spec
CONSTANTS
  m1 = m1  m2 = m2  i1 = i1
  r1 = r1  c1 = c1
  Memories = {m1, m2}
  Importers = {i1}
  Reviewers = {r1}
  Contesters = {}
  MaxAttempts = 2
  MaxCalls = 2
  MaxGitFailures = 0
  MayCrash = FALSE
  MaxMishaps = 1
INVARIANTS NothingLeavesUndecided
\* Commands end, and no one has to run another.
CHECK_DEADLOCK FALSE
