------------------------------ MODULE MCTarget ------------------------------
\* A small instance of Target for TLC.
EXTENDS Target, TLC

CONSTANTS m1, m2, w1, w2, here, there

\* Empty, blank, hand-written with and without a final line end, ours alone, and
\* ours between hand-written lines as another tool may have laid them out.
MCTexts ==
  {<< >>, <<SP, NL>>, <<Word(w1)>>, <<Word(w1), NL>>, <<Word(w1), NL, NL, NL>>,
   <<BEGIN, Body({}), END>>,
   <<Word(w1), NL, BEGIN, Body({}), END, Word(w2)>>,
   <<NL, BEGIN, Body({}), END, NL, NL, NL, Word(w1), NL>>}

\* Memories and clones are interchangeable.
Symmetry == Permutations(Memories) \cup Permutations(Clones)
=============================================================================
