\* Two releases, one of them twice, at work on a repository of two memory files, with merges, failing
\* migrations and `init --force`.
SPECIFICATION Spec
CONSTANTS
  old = old  new = new  new2 = new2  f1 = f1  f2 = f2
  Newest = 4
  Supported <- MCSupported
  MemoryFormat <- MCMemoryFormat
  Migrations <- MCMigrations
  Files = {f1, f2}
  MaxMerges = 1
  MaxForces = 1
  MaxMishaps = 1
INVARIANTS TypeOK OnlyStraysLag
PROPERTIES CatchesUp
\* Everything rests once the bounds are spent and the repository is up to date.
CHECK_DEADLOCK FALSE
