\* Two importers and two reviewers, any of which may be killed, on a git that
\* may fail once.
SPECIFICATION Spec
CONSTANTS
  m1 = m1  m2 = m2  m3 = m3
  s1 = s1  s2 = s2
  d1 = d1  d2 = d2
  Memories = {m1, m2, m3}
  Stagers = {s1, s2}
  Droppers = {d1, d2}
  MaxAttempts = 2
  MaxCalls = 1
  MaxGitFailures = 1
  MayCrash = TRUE
SYMMETRY Symmetry
INVARIANTS TypeOK PendingIsExact HistoryKeepsAll NothingUnstaged RefusalsAreContention GivesUpOnlyWhenContended
PROPERTIES FastForward KeepsPromise
\* Processes run out of calls, return or are killed.
CHECK_DEADLOCK FALSE
