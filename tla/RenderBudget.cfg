\* Three memories of any tier and scope; of the lengths, 2 and 3 fit together, 3 and 3 do not.
SPECIFICATION Spec
CONSTANTS
  Count = 3
  GlobCount = 2
  Everywhere = 1
  Sizes = {2, 3}
  Suffix = 1
  AlwaysChars = 6
  ScopedChars = 6
INVARIANTS WithinBudget NeverSilent TakesWhatFits
PROPERTIES EarlierStand
