\* A reviewer and a contest on two memories, kills and one failure of each kind.
SPECIFICATION Spec
CONSTANTS
  m1 = m1  m2 = m2  i1 = i1
  r1 = r1  c1 = c1
  Memories = {m1, m2}
  Importers = {i1}
  Reviewers = {r1}
  Contesters = {c1}
  MaxAttempts = 2
  MaxCalls = 2
  MaxGitFailures = 1
  MayCrash = TRUE
  MaxMishaps = 1
INVARIANTS TypeOK DecidedUnlessMishap OnlyApprovedServed BlockIsActive
PROPERTIES CommandsEnd
\* Commands end, and no one has to run another.
CHECK_DEADLOCK FALSE
