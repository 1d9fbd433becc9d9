\* Two clones with hooks, two changes in all, from texts of every layout.
SPECIFICATION Spec
CONSTANTS
  m1 = m1  m2 = m2  w1 = w1  w2 = w2
  here = here  there = there
  Memories = {m1, m2}
  Words = {w1, w2}
  Clones = {here, there}
  Hooked = {here, there}
  Texts <- MCTexts
  MaxChanges = 2
SYMMETRY Symmetry
INVARIANTS TypeOK Settles BlockShows
 
