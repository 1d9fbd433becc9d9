------------------------------- MODULE Target -------------------------------
(***************************************************************************)
(* An instruction file (AGENTS.md) and the block jedimem keeps in it:      *)
(* splice, strip_section and merge_driver of src/compiler.rs, as two       *)
(* clones of a repository use them that edit the text around the block,    *)
(* change memories, compile, and merge each other's work.                  *)
(*                                                                         *)
(* A text is a sequence of tokens: line ends, spaces, words of the user,   *)
(* the two markers, and what render made of a set of memories.  The merge  *)
(* of the memory files, `git merge-file`, and when git calls the driver    *)
(* and the hooks are git's.                                                *)
(***************************************************************************)
EXTENDS Naturals, Sequences

CONSTANTS Memories,
          Words,      \* words a user may write; each is in a text at most once
          Clones,     \* two clones
          Hooked,     \* those with jedimem's git hooks
          Texts,      \* the instruction files a repository may start with
          MaxChanges  \* bound: edits of texts and changes of memories

ASSUME ClonesAssumption ==
  (\E c, d \in Clones : c # d /\ Clones = {c, d}) /\ Hooked \subseteq Clones
ASSUME ChangesAssumption == MaxChanges \in Nat

VARIABLES
  text,     \* each clone's instruction file
  mems,     \* each clone's active memories
  base,     \* the text and the memories of the last common commit
  merge,    \* how far each clone is with a merge
  changes,  \* edits and changes of memories so far
  unshown   \* clones whose memory files changed with nobody to compile them

\* History, read by the properties only.
VARIABLE stopped  \* clones whose last merge stopped, until they compile

vars == <<text, mems, base, merge, changes, unshown, stopped>>

-----------------------------------------------------------------------------
\* Tokens and texts.

NL    == <<"line end">>
SP    == <<"space">>
BEGIN == <<"BEGIN jedimem">>
END   == <<"END jedimem">>
Word(w) == <<"word", w>>
Body(ms) == <<"body", ms>>

\* What stands around the markers, and all that may stand in a text.
Tokens == {NL, SP} \cup {Word(w) : w \in Words}
Alphabet == Tokens \cup {BEGIN, END} \cup {Body(ms) : ms \in SUBSET Memories}

\* At i begins the block of some memories, and there is no second marker.
BlockAt(s, i, ms) ==
  /\ s[i] = BEGIN /\ s[i + 1] = Body(ms) /\ s[i + 2] = END
  /\ \A j \in (1..Len(s)) \ (i..(i + 2)) : s[j] \in Tokens

Once(s) ==
  \A i, j \in 1..Len(s), w \in Words : s[i] = Word(w) /\ s[j] = Word(w) => i = j

\* One block between two markers, or none, and no word twice.
WellFormed(s) ==
  /\ s \in Seq(Alphabet) /\ Once(s)
  /\ \/ s \in Seq(Tokens)
     \/ \E i \in 1..(Len(s) - 2), ms \in SUBSET Memories : BlockAt(s, i, ms)

ASSUME TextsAssumption == \A t \in Texts : WellFormed(t)

Section(ms) == <<BEGIN, Body(ms), END, NL>>

Has(s, token) == \E i \in 1..Len(s) : s[i] = token
First(s, token) ==
  CHOOSE i \in 1..Len(s) : s[i] = token /\ \A j \in 1..(i - 1) : s[j] # token
Before(s, token) == SubSeq(s, 1, First(s, token) - 1)
After(s, token) == SubSeq(s, First(s, token) + 1, Len(s))

\* str::trim().is_empty()
Blank(s) == \A i \in 1..Len(s) : s[i] \in {NL, SP}

\* The token before the trailing line ends, and the last of the leading ones.
LastInk(s) == CHOOSE n \in 0..Len(s) : /\ n = 0 \/ s[n] # NL
                                       /\ \A i \in (n + 1)..Len(s) : s[i] = NL
LeadNL(s)  == CHOOSE n \in 0..Len(s) : /\ n = Len(s) \/ s[n + 1] # NL
                                       /\ \A i \in 1..n : s[i] = NL
TrimEnd(s) == SubSeq(s, 1, LastInk(s))
TrimStart(s) == SubSeq(s, LeadNL(s) + 1, Len(s))

Marked(s) == Has(s, BEGIN) /\ Has(s, END)

\* Mutant: the naive join the comment of splice warns of.
MutSpliceNaively(existing, section) ==
  IF Marked(existing)
    THEN Before(existing, BEGIN) \o <<NL, NL>> \o section \o After(existing, END)
    ELSE existing \o <<NL, NL>> \o section

\* Mutant: the block is appended every time.
MutSpliceAppends(existing, section) ==
  IF Blank(existing) THEN section
  ELSE TrimEnd(existing) \o <<NL, NL>> \o section

\* The text with the section in place of its block, or at its end.
Splice(existing, section) ==
  IF Marked(existing)
    THEN LET pre  == Before(existing, BEGIN)
             head == IF Blank(pre) THEN << >> ELSE TrimEnd(pre) \o <<NL, NL>>
             tail == TrimStart(After(existing, END))
         IN  head \o section \o (IF tail = << >> THEN << >> ELSE <<NL>> \o tail)
    ELSE IF Blank(existing) THEN section
    ELSE TrimEnd(existing) \o <<NL, NL>> \o section

\* strip_section: the text without the block.
StripSection(s) ==
  IF Marked(s) THEN TrimEnd(Before(s, BEGIN)) \o After(s, END) ELSE s

\* compile_repo for one target: it writes the file when that changes it.
Compiled(s, ms) == Splice(s, Section(ms))

-----------------------------------------------------------------------------
\* Git's three-way merges: of sets of files, and of the stripped texts, where
\* changes on both sides may conflict or not, as their lines happen to meet.

Merged(b, ours, theirs) == (ours \cap theirs) \cup ((ours \cup theirs) \ b)

WordsOf(s) == {w \in Words : Has(s, Word(w))}

\* What a text holds of some tokens, in its order.
Among(s, tokens) ==
  LET upTo[n \in 0..Len(s)] ==
        IF n = 0 THEN << >>
        ELSE IF s[n] \in tokens THEN Append(upTo[n - 1], s[n]) ELSE upTo[n - 1]
  IN  upTo[Len(s)]

MergeFile(b, ours, theirs) ==
  IF ours = theirs \/ theirs = b THEN {[text |-> ours, clean |-> TRUE]}
  ELSE IF ours = b THEN {[text |-> theirs, clean |-> TRUE]}
  ELSE LET kept == {NL, SP} \cup
                   {Word(w) : w \in Merged(WordsOf(b), WordsOf(ours), WordsOf(theirs))}
           new  == {Word(w) : w \in WordsOf(theirs) \ WordsOf(ours)}
       IN  {[text |-> Among(ours, kept) \o Among(theirs, new \cap kept), clean |-> TRUE],
            [text |-> ours \o Among(theirs, new), clean |-> FALSE]}

\* Mutant: in a conflict our side is kept.
MutDriverKeepsOurs(b, ours, theirs, ms) ==
  {[text |-> Compiled(IF m.clean THEN m.text ELSE StripSection(ours), ms),
    clean |-> m.clean] :
     m \in MergeFile(StripSection(b), StripSection(ours), StripSection(theirs))}

\* merge_driver: the text around the block is merged, the block made anew of the
\* memories in the working tree.
MergeDriver(b, ours, theirs, ms) ==
  {[m EXCEPT !.text = Compiled(@, ms)] :
     m \in MergeFile(StripSection(b), StripSection(ours), StripSection(theirs))}

\* Git calls the driver where both sides changed the file.
MergeTexts(b, ours, theirs, ms) ==
  IF ours = theirs \/ theirs = b THEN {[text |-> ours, clean |-> TRUE]}
  ELSE IF ours = b THEN {[text |-> theirs, clean |-> TRUE]}
  ELSE MergeDriver(b, ours, theirs, ms)

-----------------------------------------------------------------------------
Quiet == \A c \in Clones : merge[c] = "none"
GoesTo(c, step) == merge' = [merge EXCEPT ![c] = step]
Shown(c) == unshown' = unshown \ {c} /\ stopped' = stopped \ {c}
Change == Quiet /\ changes < MaxChanges /\ changes' = changes + 1

\* A user types a line end, a space or a word outside the markers.
Insert(c, i, token) ==
  /\ Change
  /\ Marked(text[c]) => i < First(text[c], BEGIN) \/ i >= First(text[c], END)
  /\ ~(\E w \in Words : token = Word(w) /\ Has(text[c], token))
  /\ text' = [text EXCEPT ![c] =
                SubSeq(@, 1, i) \o <<token>> \o SubSeq(@, i + 1, Len(@))]
  /\ UNCHANGED <<mems, base, merge, unshown, stopped>>

\* ... or deletes one.
Delete(c, i) ==
  /\ Change
  /\ Marked(text[c]) => i < First(text[c], BEGIN) \/ i > First(text[c], END)
  /\ text' = [text EXCEPT ![c] = SubSeq(@, 1, i - 1) \o SubSeq(@, i + 1, Len(@))]
  /\ UNCHANGED <<mems, base, merge, unshown, stopped>>

\* review or contest: a memory becomes active or ceases to be, and they compile.
Command(c, ms) ==
  /\ Change
  /\ mems' = [mems EXCEPT ![c] = ms]
  /\ text' = [text EXCEPT ![c] = Compiled(@, ms)]
  /\ Shown(c)
  /\ UNCHANGED <<base, merge>>

\* A memory file is written or edited by hand.
EditMemory(c, ms) ==
  /\ Change
  /\ mems' = [mems EXCEPT ![c] = ms]
  /\ unshown' = unshown \cup {c}
  /\ UNCHANGED <<text, base, merge, stopped>>

Compile(c) ==
  /\ Quiet
  /\ text' = [text EXCEPT ![c] = Compiled(@, mems[c])]
  /\ Shown(c)
  /\ UNCHANGED <<mems, base, merge, changes>>

Diverged(c) == text[c] # base.text \/ mems[c] # base.mems

\* `git merge` of the other clone's work, where both have some.  The driver may run before or after the
\* merged memory files are in the working tree.  The merge stops on a conflict
\* in this file, or in some other one.
Merge(c, d) ==
  /\ Quiet /\ Diverged(c) /\ Diverged(d)
  /\ LET ms == Merged(base.mems, mems[c], mems[d])
     IN  /\ mems' = [mems EXCEPT ![c] = ms]
         /\ \E seen \in {mems[c], ms} :
            \E m \in MergeTexts(base.text, text[c], text[d], seen) :
              /\ text' = [text EXCEPT ![c] = m.text]
              /\ \/ /\ m.clean
                    /\ GoesTo(c, "merged") /\ UNCHANGED stopped
                 \/ /\ GoesTo(c, "stopped")
                    /\ stopped' = stopped \cup {c}
  /\ unshown' = IF d \in unshown THEN unshown \cup {c} ELSE unshown
  /\ UNCHANGED <<base, changes>>

\* Mutant: the hook does nothing.
MutPostMergeIdle(c) ==
  /\ merge[c] = "merged"
  /\ GoesTo(c, "done")
  /\ UNCHANGED <<text, mems, base, changes, unshown, stopped>>

\* The merge is committed, and the post-merge hook, if there is one, compiles.
PostMerge(c) ==
  /\ merge[c] = "merged"
  /\ GoesTo(c, "done")
  /\ IF c \in Hooked
       THEN text' = [text EXCEPT ![c] = Compiled(@, mems[c])] /\ Shown(c)
       ELSE unshown' = unshown \cup {c} /\ UNCHANGED <<text, stopped>>
  /\ UNCHANGED <<mems, base, changes>>

\* The user settles the conflicts, keeping both sides, and commits: git runs no
\* post-merge hook.
Resolve(c) ==
  /\ merge[c] = "stopped"
  /\ GoesTo(c, "done")
  /\ UNCHANGED <<text, mems, base, changes, unshown, stopped>>

\* The other clone pulls the merge, or new work where it has none of its own: a
\* fast-forward, after which its hook runs.
Pull(c, d) ==
  /\ merge[c] = "done" \/ (Quiet /\ Diverged(c) /\ ~Diverged(d))
  /\ mems' = [mems EXCEPT ![d] = mems[c]]
  /\ base' = [text |-> text[c], mems |-> mems[c]]
  /\ IF d \in Hooked
       THEN text' = [text EXCEPT ![d] = Compiled(text[c], mems[c])] /\ Shown(d)
       ELSE /\ text' = [text EXCEPT ![d] = text[c]]
            /\ unshown' = unshown \cup {d} /\ UNCHANGED stopped
  /\ GoesTo(c, "none")
  /\ UNCHANGED changes

-----------------------------------------------------------------------------
Init ==
  /\ \E t \in Texts :
       /\ text = [c \in Clones |-> t]
       /\ base = [text |-> t, mems |-> {}]
  /\ mems = [c \in Clones |-> {}]
  /\ merge = [c \in Clones |-> "none"]
  /\ changes = 0
  /\ unshown = Clones
  /\ stopped = {}

Next ==
  \/ \E c \in Clones :
       \/ \E i \in 0..Len(text[c]), token \in Tokens : Insert(c, i, token)
       \/ \E i \in 1..Len(text[c]) : Delete(c, i)
       \/ \E m \in Memories : \E ms \in {mems[c] \cup {m}, mems[c] \ {m}} :
            ms # mems[c] /\ (Command(c, ms) \/ EditMemory(c, ms))
       \/ Compile(c) \/ PostMerge(c) \/ Resolve(c)
  \/ \E c \in Clones : \E d \in Clones \ {c} : Merge(c, d) \/ Pull(c, d)

Spec == Init /\ [][Next]_vars

-----------------------------------------------------------------------------
\* Properties.

\* Every variable has its type; above all, edits, compiles and merges in any
\* order leave one block in each text at most, with nothing but render's output
\* between its markers.
TypeOK ==
  /\ DOMAIN text = Clones /\ \A c \in Clones : WellFormed(text[c])
  /\ mems \in [Clones -> SUBSET Memories]
  /\ WellFormed(base.text) /\ base.mems \subseteq Memories
  /\ merge \in [Clones -> {"none", "merged", "stopped", "done"}]
  /\ changes \in 0..MaxChanges
  /\ unshown \subseteq Clones /\ stopped \subseteq Clones

\* "splice(splice(x)) == splice(x)" (splice): compiling a second time changes
\* nothing, or CI would call the file stale for ever.
Settles ==
  \A c \in Clones :
    LET once == Compiled(text[c], mems[c])
    IN  Compiled(once, mems[c]) = once

\* A merge of d's work makes the words around the block of c those of both sides less
\* those that one side deleted; one that stops may leave the user some of these, but
\* nothing that neither side has.  Else they stay, or become those of d that c pulls.
KeepsWords(c, d) ==
  LET ours   == WordsOf(text[c])
      theirs == WordsOf(text[d])
      both   == Merged(WordsOf(base.text), ours, theirs)
      now    == WordsOf(text'[c])
  IN  IF Quiet /\ merge'[c] # "none"
        THEN /\ both \subseteq now
             /\ now \subseteq (IF merge'[c] = "stopped" THEN ours \cup theirs ELSE both)
        ELSE now = ours \/ (Quiet /\ now = both) \/ (~Quiet /\ now = theirs)

\* "Content outside the markers is yours" (BANNER): without an edit, they change in no
\* other way, compiles, conflicts in the user's own text and hooks included.
UserTextKept ==
  [][changes' = changes => \A c, d \in Clones : c # d => KeepsWords(c, d)]_vars

\* What the agents of a clone read is the memories of that clone.
Shows(s, ms) ==
  /\ Marked(s)
  /\ SubSeq(s, First(s, BEGIN), First(s, END)) = <<BEGIN, Body(ms), END>>

\* Wherever compile, a command or a merge with its hook was the last to touch the
\* memory files, the block shows them, even if the driver ran on an old tree.
BlockShows ==
  \A c \in Clones \ (unshown \cup stopped) :
    merge[c] # "merged" => Shows(text[c], mems[c])

\* "the correct merged section is simply the section regenerated from the merged
\* memories" (merge_driver): a merge that is concluded leaves such a section,
\* where no memory was changed by hand.
MergeShowsAll ==
  \A c \in Clones \ unshown :
    merge[c] \in {"none", "done"} => Shows(text[c], mems[c])
=============================================================================
