\* Two sessions and a check at a time, `jedimem update` too; one failure or kill.
SPECIFICATION Spec
CONSTANTS
  s1 = s1  s2 = s2  k1 = k1  k2 = k2
  Sessions = {s1, s2}
  Checkers = {k1}
  TTL = 1
  Binary = 1
  MaxRelease = 2
  MaxFaults = 1
INVARIANTS TypeOK OncePerWindow
PROPERTIES ReleaseIsLearned
