\* Two commands at once in a clone with a git hook that is not UTF-8.
SPECIFICATION Spec
CONSTANTS
  Absent = Absent  Bad = Bad  Odd = Odd
  user = user  old = old  hook = hook  v1 = v1  v2 = v2
  p1 = p1  p2 = p2  t1 = t1
  AllAgents <- MCAgents
  HookNames <- MCHookNames
  Drafts <- MCDrafts
  Clones <- MCForeignClones
  Hook = hook
  NoPin = NoPin
  Pins = {v1, v2}
  Mentions = {old}
  Entries = {hook, v1, v2, old, user}
  Events <- MCEvents
  Targets = {t1}
  Texts = {"theirs"}
  Procs = {p1, p2}
  MaxEdits = 0
PROPERTIES NeverClobbersAHook
\* Each process runs one command.
CHECK_DEADLOCK FALSE
