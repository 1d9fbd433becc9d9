\* Two commands at once beside one edit, kill or write cut short.
SPECIFICATION Spec
CONSTANTS
  Absent = Absent  Bad = Bad  Odd = Odd
  user = user  old = old  hook = hook  v1 = v1  v2 = v2
  p1 = p1  p2 = p2  t1 = t1
  AllAgents <- MCAgents
  HookNames <- MCHookNames
  Drafts <- MCDrafts
  Clones <- MCClones
  Hook = hook
  NoPin = NoPin
  Pins = {v1, v2}
  Mentions = {old}
  Entries = {hook, v1, v2, old, user}
  Events <- MCEvents
  Targets = {t1}
  Texts = {"theirs"}
  Procs = {p1, p2}
  MaxEdits = 1
SYMMETRY Symmetry
INVARIANTS TypeOK AsLastTold Idempotent Reversible
PROPERTIES UserEntriesKept ReadableTextKept
\* Each process runs one command.
CHECK_DEADLOCK FALSE
