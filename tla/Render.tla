------------------------------- MODULE Render -------------------------------
(***************************************************************************)
(* What of the memory files goes into the block the agents read (render of *)
(* src/compiler.rs).  The always tier and each scope of the scoped tier    *)
(* have a budget of characters; the active memories are taken in order, as *)
(* long as they fit, and the others are counted in a notice.               *)
(*                                                                         *)
(* Memories are numbers, in the order of their kinds and, within a kind,   *)
(* of their ids; globs are numbers in the order of their texts.  Of an     *)
(* entry only its length matters.                                          *)
(***************************************************************************)
EXTENDS Naturals, Sequences, FiniteSets, Functions

CONSTANTS Count,        \* how many memories there may be
          GlobCount,    \* how many globs they may be scoped to
          Everywhere,   \* the glob `**`
          Sizes,        \* lengths of `- **[kind]** headline`
          Suffix,       \* length of `  _(scope: `glob`)_`
          AlwaysChars,  \* always_chars
          ScopedChars   \* scoped_chars_per_glob

ASSUME GlobsAssumption == GlobCount \in Nat /\ Everywhere \in 1..GlobCount
ASSUME LengthsAssumption ==
  /\ Count \in Nat /\ Sizes \subseteq Nat
  /\ Suffix \in Nat /\ AlwaysChars \in Nat /\ ScopedChars \in Nat

VARIABLE files  \* the memory files; a memory may have none, or an inactive one

-----------------------------------------------------------------------------
Memories == 1..Count
Globs == 1..GlobCount
Requested == {"on_demand", "pre_action"}
Tiers == {"always", "scoped"} \cup Requested

Active == [tier : Tiers, scope : Globs, size : Sizes]

\* No file, or one that is contested, superseded, ...
Inactive == [tier |-> "none", scope |-> Everywhere, size |-> 0]

In(tier) == {m \in Memories : files[m].tier = tier}
InScope(glob) == {m \in In("scoped") : files[m].scope = glob}

InOrder(ms) ==
  LET upTo[n \in 0..Count] ==
        IF n = 0 THEN << >>
        ELSE IF n \in ms THEN Append(upTo[n - 1], n) ELSE upTo[n - 1]
  IN  upTo[Count]

\* f[1] + ... + f[n]
Sum(f, n) ==
  LET upTo[k \in 0..n] == IF k = 0 THEN 0 ELSE upTo[k - 1] + f[k]
  IN  upTo[n]

\* An entry of the always tier names its scope, if it has one.
AlwaysLength ==
  [m \in Memories |-> files[m].size + IF files[m].scope = Everywhere THEN 0 ELSE Suffix]
ScopedLength == [m \in Memories |-> files[m].size]

Nothing == [entries |-> << >>, used |-> 0, demoted |-> 0]

\* Mutant: the first memory that does not fit ends the tier.
MutTakenStops(ms, length, budget) ==
  LET upTo[n \in 0..Count] ==
        IF n = 0 THEN Nothing
        ELSE LET acc == upTo[n - 1]
             IN  IF n \notin ms THEN acc
                 ELSE IF acc.demoted > 0 \/ acc.used + length[n] > budget
                   THEN [acc EXCEPT !.demoted = @ + 1]
                 ELSE [acc EXCEPT !.used = @ + length[n] + 1, !.entries = Append(@, n)]
  IN  upTo

\* Mutant: the line end of an entry is not counted.
MutTakenForgetsLineEnds(ms, length, budget) ==
  LET upTo[n \in 0..Count] ==
        IF n = 0 THEN Nothing
        ELSE LET acc == upTo[n - 1]
             IN  IF n \notin ms THEN acc
                 ELSE IF acc.used + length[n] > budget THEN [acc EXCEPT !.demoted = @ + 1]
                 ELSE [acc EXCEPT !.used = @ + length[n], !.entries = Append(@, n)]
  IN  upTo

\* Mutant: a memory that does not fit is left out without a word.
MutTakenSilently(ms, length, budget) ==
  LET upTo[n \in 0..Count] ==
        IF n = 0 THEN Nothing
        ELSE LET acc == upTo[n - 1]
             IN  IF n \notin ms \/ acc.used + length[n] > budget THEN acc
                 ELSE [acc EXCEPT !.used = @ + length[n] + 1, !.entries = Append(@, n)]
  IN  upTo

\* Mutant: the newest memories are taken first.
MutTakenBackwards(ms, length, budget) ==
  LET upTo[n \in 0..Count] ==
        IF n = 0 THEN Nothing
        ELSE LET acc == upTo[n - 1]
                 m   == Count + 1 - n
             IN  IF m \notin ms THEN acc
                 ELSE IF acc.used + length[m] > budget THEN [acc EXCEPT !.demoted = @ + 1]
                 ELSE [acc EXCEPT !.used = @ + length[m] + 1, !.entries = <<m>> \o @]
  IN  upTo

\* The loop over the memories of a section: after each memory, the entries that
\* fit, their characters with their line ends, and the number of the others.
Taken(ms, length, budget) ==
  LET upTo[n \in 0..Count] ==
        IF n = 0 THEN Nothing
        ELSE LET acc == upTo[n - 1]
             IN  IF n \notin ms THEN acc
                 ELSE IF acc.used + length[n] > budget THEN [acc EXCEPT !.demoted = @ + 1]
                 ELSE [acc EXCEPT !.used = @ + length[n] + 1, !.entries = Append(@, n)]
  IN  upTo

Fit(ms, length, budget) == Taken(ms, length, budget)[Count]

Always == Fit(In("always"), AlwaysLength, AlwaysChars)
Scoped(glob) == Fit(InScope(glob), ScopedLength, ScopedChars)

\* The block: its sections, and the notice of what no section had room for.
Block ==
  [always  |-> Always.entries,
   scoped  |-> [g \in Globs |-> Scoped(g).entries],
   request |-> InOrder(In("on_demand")) \o InOrder(In("pre_action")),
   demoted |-> Always.demoted + Sum([g \in Globs |-> Scoped(g).demoted], GlobCount)]

-----------------------------------------------------------------------------
\* promote, import --commit, migrate, or an editor: the file of an active memory.
WriteFile(m, file) == files' = [files EXCEPT ![m] = file]

\* contest, or an editor.
Withdraw(m) == files' = [files EXCEPT ![m] = Inactive]

Init == files = [m \in Memories |-> Inactive]

Next == \E m \in Memories : Withdraw(m) \/ \E file \in Active : WriteFile(m, file)

Spec == Init /\ [][Next]_files

-----------------------------------------------------------------------------
\* Properties.

\* The characters of the chosen memories up to the n-th, one to a line.
Lines(chosen, length, n) ==
  Sum([m \in 1..n |-> IF m \in chosen THEN length[m] + 1 ELSE 0], n)

\* No section is longer than its budget, line ends included but for the last: what
\* the agents load on every task is bounded however many memories there are.
WithinBudget ==
  LET b == Block
  IN  /\ Lines(Range(b.always), AlwaysLength, Count) <= AlwaysChars + 1
      /\ \A g \in Globs : Lines(Range(b.scoped[g]), ScopedLength, Count) <= ScopedChars + 1

Listed ==
  LET b == Block
  IN  Range(b.always) \cup Range(b.request) \cup UNION {Range(b.scoped[g]) : g \in Globs}

\* "Never truncate silently" (render): every active memory is listed, once and
\* where its tier and its scope say, or counted in the notice.
NeverSilent ==
  LET b == Block
  IN  /\ IsInjective(b.always) /\ Range(b.always) \subseteq In("always")
      /\ \A g \in Globs : IsInjective(b.scoped[g]) /\ Range(b.scoped[g]) \subseteq InScope(g)
      /\ IsInjective(b.request) /\ Range(b.request) = In("on_demand") \cup In("pre_action")
      /\ Cardinality(Listed) + b.demoted = Cardinality({m \in Memories : files[m] # Inactive})

\* The reference: a memory is listed exactly when it fits after the memories
\* listed before it.
FirstFit(ms, chosen, length, budget) ==
  \A m \in ms : m \in chosen <=> Lines(chosen, length, m - 1) + length[m] <= budget

\* One memory too long for what is left does not keep out the shorter ones after
\* it, and none is left out that still fits in its turn.
TakesWhatFits ==
  LET b == Block
  IN  /\ FirstFit(In("always"), Range(b.always), AlwaysLength, AlwaysChars)
      /\ \A g \in Globs :
           FirstFit(InScope(g), Range(b.scoped[g]), ScopedLength, ScopedChars)

\* A change to one file never moves a memory before it, in the order of the
\* block, in or out of the block: a teammate's new memory cannot crowd it out.
EarlierStand ==
  [][LET before == Listed
         after  == Listed'
     IN  \A n \in Memories :
           (\A m \in Memories : files'[m] # files[m] => n < m)
             => (n \in before <=> n \in after)]_files
=============================================================================
