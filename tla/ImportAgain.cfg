\* Imports, reviews, contests and edits in one clone, with kills and failing reads.
SPECIFICATION Spec
CONSTANTS
  plain = plain  shout = shout  leak = leak  other = other  bullet = bullet
  p1 = p1
  Texts = {plain, shout, leak, other, bullet}
  Redacted <- MCRedacted
  Hash <- MCHash
  Rendered <- MCRendered
  MaxCopies = 1
  Picks <- MCPicks
  Readings <- MCReadings
  Trees <- MCTrees
  DefaultMarkers = TRUE
  Limits = {0, 1}
  Procs = {p1}
  MaxEdits = 1
  MaxMishaps = 1
INVARIANTS TypeOK NoTwins StoredIsWritten BlockShowsAll
PROPERTIES EverythingLands
