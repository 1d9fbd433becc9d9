-------------------------- MODULE StagingRefProofs --------------------------
(***************************************************************************)
(* Proofs about StagingRef, for every set of memories and processes, every *)
(* number of attempts, calls and failures, with or without kills.  None    *)
(* needs fairness: the theorems are about SafetySpec, which Spec implies.  *)
(***************************************************************************)
EXTENDS StagingRef, TLAPS

-----------------------------------------------------------------------------
\* Commits.

\* The tree of a commit holds memories.
LEMMA TipType ==
  ASSUME NEW commit \in Commits
  PROVE  Tip(commit) \in SUBSET Memories
BY DEF Tip, Commits, NoCommit

\* commit-tree makes a commit one longer than its parent, with the given files
\* as its own tree and the parent's history before it.
LEMMA CommitTreeProperties ==
  ASSUME NEW parent \in Commits, NEW files \in SUBSET Memories
  PROVE  /\ CommitTree(files, parent) \in Commits
         /\ Len(CommitTree(files, parent)) = Len(parent) + 1
         /\ Len(parent) \in Nat
         /\ Tip(CommitTree(files, parent)) = files
         /\ CommitTree(files, parent)[Len(parent) + 1] = files
         /\ \A i \in 1..Len(parent) : CommitTree(files, parent)[i] = parent[i]
<1>1. /\ CommitTree(files, parent) \in Commits
      /\ Len(CommitTree(files, parent)) = Len(parent) + 1
      /\ Len(parent) \in Nat
      /\ CommitTree(files, parent)[Len(parent) + 1] = files
      /\ \A i \in 1..Len(parent) : CommitTree(files, parent)[i] = parent[i]
  BY DEF CommitTree, Commits
<1>2. CommitTree(files, parent) # NoCommit
  BY <1>1 DEF NoCommit
<1> QED
  BY <1>1, <1>2 DEF Tip

-----------------------------------------------------------------------------
\* Types.

\* What the calls in progress were given: a stager's files have an id of their
\* own and a pass left, a dropper's ids come from staged memories.
ArgsKnown ==
  /\ \A p \in Stagers : pc[p] \in StageLabels =>
       arg[p] \subseteq minted /\ tries[p] < MaxAttempts
  /\ \A p \in Droppers : pc[p] \in DropLabels => arg[p] \subseteq stored

TypeInv == TypeOK /\ ArgsKnown

USE RolesAssumption, BoundsAssumption

LEMMA InitTypes == Init => TypeInv
<1> SUFFICES ASSUME Init PROVE TypeInv
  OBVIOUS
<1>1. NoCommit \in Commits
  BY DEF NoCommit, Commits
<1>2. pc \in [Procs -> {"idle"}]
  BY DEF Init
<1>3. ArgsKnown
  BY <1>2 DEF ArgsKnown, StageLabels, DropLabels, Procs
<1>4. /\ pc \in [Procs -> Labels]
      /\ \A p \in Stagers : pc[p] \notin DropLabels
      /\ \A p \in Droppers : pc[p] \notin StageLabels
  BY <1>2 DEF Labels, StageLabels, DropLabels, Procs
<1>5. /\ ref \in Commits
      /\ seen \in [Procs -> Commits]
      /\ listed \in [Procs -> Commits]
  BY <1>1 DEF Init
<1>6. /\ arg \in [Procs -> SUBSET Memories]
      /\ tree \in [Procs -> SUBSET Memories]
      /\ toShow \in [Procs -> SUBSET Memories]
      /\ minted \subseteq Memories
      /\ stored \subseteq minted
      /\ removed \subseteq stored
      /\ torn \in BOOLEAN
  BY DEF Init
<1>7. /\ tries \in [Procs -> 0..MaxAttempts]
      /\ calls \in [Procs -> 0..MaxCalls]
      /\ faults \in 0..MaxGitFailures
      /\ started \in [Procs -> Nat]
  BY DEF Init
<1> QED
  BY <1>3, <1>4, <1>5, <1>6, <1>7 DEF TypeInv, TypeOK

\* Every step preserves the types.
LEMMA NextTypes == TypeInv /\ [Next]_vars => TypeInv'
<1> SUFFICES ASSUME TypeInv, [Next]_vars
             PROVE  TypeInv'
  OBVIOUS
<1> USE DEF TypeInv, TypeOK, ArgsKnown, Labels, Returned, StageLabels, DropLabels,
            Goto, Procs, sharedVars, auxVars, localVars
<1>1. CASE UNCHANGED vars
  BY <1>1 DEF vars
<1>2. CASE Next
  <2> PICK p \in Procs : NewCall(p) \/ Step(p) \/ Failure(p) \/ Crash(p)
    BY <1>2 DEF Next
  <2>1. ASSUME p \in Stagers, NEW files \in SUBSET (Memories \ minted),
               StageFiles(p, files)
        PROVE  TypeInv'
    <3>1. Len(ref) \in Nat
      BY DEF Commits
    <3> QED
      BY <2>1, <3>1 DEF StageFiles, Ready
  <2>2. ASSUME p \in Droppers, NEW ids \in SUBSET stored, DropStaged(p, ids)
        PROVE  TypeInv'
    <3>1. Len(ref) \in Nat
      BY DEF Commits
    <3> QED
      BY <2>2, <3>1 DEF DropStaged, Ready
  <2>3. CASE RefExists(p)
    BY <2>3 DEF RefExists
  <2>4. CASE BuildTree(p)
    <3>1. Tip(seen[p]) \in SUBSET Memories
      BY TipType
    <3> QED
      BY <2>4, <3>1 DEF BuildTree
  <2>5. CASE StagePublish(p)
    <3>1. ref' \in Commits
      BY <2>5, CommitTreeProperties DEF StagePublish, Published
    <3> QED
      BY <2>5, <3>1 DEF StagePublish
  <2>6. CASE StageRetry(p)
    BY <2>6 DEF StageRetry, Refused
  <2>7. CASE StagedFiles(p)
    <3>1. Tip(ref) \in SUBSET Memories
      BY TipType
    <3> QED
      BY <2>7, <3>1 DEF StagedFiles, Pending
  <2>8. ASSUME NEW m \in Memories, StagedContent(p, m)
        PROVE  TypeInv'
    BY <2>8 DEF StagedContent
  <2>9. CASE RebuildTree(p)
    BY <2>9 DEF RebuildTree
  <2>10. CASE DropPublish(p)
    <3>1. ref' \in Commits
      BY <2>10, CommitTreeProperties DEF DropPublish, Published
    <3> QED
      BY <2>10, <3>1 DEF DropPublish
  <2>11. CASE DropRefused(p)
    BY <2>11 DEF DropRefused
  <2>12. CASE GitError(p)
    BY <2>12 DEF GitError, Fault
  <2>13. CASE RefExistsFails(p)
    <3>1. NoCommit \in Commits
      BY DEF NoCommit, Commits
    <3> QED
      BY <2>13, <3>1 DEF RefExistsFails, Fault
  <2>14. CASE StagedFilesFails(p)
    <3>1. NoCommit \in Commits
      BY DEF NoCommit, Commits
    <3> QED
      BY <2>14, <3>1 DEF StagedFilesFails, Fault
  <2>15. CASE UpdateRefFails(p)
    BY <2>15 DEF UpdateRefFails, Fault, Refused
  <2>16. CASE Crash(p)
    BY <2>16 DEF Crash, Busy
  <2> QED
    BY <2>1, <2>2, <2>3, <2>4, <2>5, <2>6, <2>7, <2>8, <2>9, <2>10, <2>11, <2>12,
       <2>13, <2>14, <2>15, <2>16
    DEF NewCall, Step, StageStep, DropStep, Failure
<1> QED
  BY <1>1, <1>2

\* The variables keep their types.
THEOREM Typing == SafetySpec => []TypeOK
<1>1. TypeInv => TypeOK
  BY DEF TypeInv
<1> QED
  BY InitTypes, NextTypes, <1>1, PTL DEF SafetySpec

-----------------------------------------------------------------------------
\* What the ref holds.

\* A stage_files call in progress holds files no one has stored and no other call
\* in progress holds.
FreshFiles ==
  /\ \A p \in Stagers : pc[p] \in StageLabels => arg[p] \cap stored = {}
  /\ \A p, q \in Stagers :
       p # q /\ pc[p] \in StageLabels /\ pc[q] \in StageLabels =>
         arg[p] \cap arg[q] = {}

\* The tree a stager is about to publish is its parent's with its files added.
StagerPrepared ==
  \A p \in Stagers : pc[p] = "cas" => tree[p] = Tip(seen[p]) \cup arg[p]

\* What a dropper keeps, and has yet to read, is what it listed without its ids.
DropperPrepared ==
  \A p \in Droppers :
    /\ pc[p] \in {"show", "dtree", "dcas"} =>
         /\ Tip(listed[p]) \subseteq stored
         /\ tree[p] \cup toShow[p] = Tip(listed[p]) \ arg[p]
    /\ pc[p] = "list" => tree[p] = {}
    /\ pc[p] \in {"dtree", "dcas"} => toShow[p] = {}

Prepared == FreshFiles /\ StagerPrepared /\ DropperPrepared

Contents == PendingIsExact /\ HistoryKeepsAll /\ NothingUnstaged

\* The files on the ref were all stored.
LEMMA PendingStored ==
  ASSUME ref \in Commits, NothingUnstaged
  PROVE  Pending \subseteq stored
<1>1. CASE ref = NoCommit
  BY <1>1 DEF Pending, Tip
<1>2. CASE ref # NoCommit
  <2>1. Len(ref) \in 1..Len(ref)
    BY <1>2 DEF Commits, NoCommit
  <2> QED
    BY <1>2, <2>1 DEF Pending, Tip, NothingUnstaged
<1> QED
  BY <1>1, <1>2

\* A step that leaves the ref and its history alone leaves its contents alone.
LEMMA QuietContents ==
  Contents /\ UNCHANGED <<ref, stored, removed, torn>> => Contents'
BY DEF Contents, PendingIsExact, HistoryKeepsAll, NothingUnstaged, Pending, Tip

LEMMA InitContents == Init => Prepared /\ Contents
<1> SUFFICES ASSUME Init PROVE Prepared /\ Contents
  OBVIOUS
<1>1. pc \in [Procs -> {"idle"}]
  BY DEF Init
<1>2. Prepared
  BY <1>1 DEF Prepared, FreshFiles, StagerPrepared, DropperPrepared,
     StageLabels, Procs
<1>3. Contents
  <2>1. Pending = {}
    BY DEF Init, Pending, Tip
  <2>2. Len(ref) = 0
    BY DEF Init, NoCommit
  <2> QED
    BY <2>1, <2>2 DEF Init, Contents, PendingIsExact, HistoryKeepsAll,
       NothingUnstaged
<1> QED
  BY <1>2, <1>3

\* The tree of a stager that publishes: the files on the ref and its own.
LEMMA StagePublishContents ==
  ASSUME TypeInv, Prepared, Contents, NEW p \in Stagers, StagePublish(p)
  PROVE  Contents'
<1>1. /\ pc[p] = "cas" /\ p \in Procs /\ ref \in Commits
      /\ ref = seen[p] /\ tree[p] \in SUBSET Memories
  BY DEF StagePublish, Published, TypeInv, TypeOK, Procs
<1>2. /\ Len(ref') = Len(ref) + 1
      /\ Len(ref) \in Nat
      /\ Tip(ref') = tree[p]
      /\ ref'[Len(ref) + 1] = tree[p]
      /\ \A i \in 1..Len(ref) : ref'[i] = ref[i]
  BY <1>1, CommitTreeProperties DEF StagePublish, Published
<1>3. /\ tree[p] = Pending \cup arg[p]
      /\ arg[p] \cap stored = {}
  BY <1>1 DEF Prepared, StagerPrepared, FreshFiles, StageLabels, Pending
<1>4. /\ stored' = stored \cup arg[p]
      /\ removed' = removed /\ removed \subseteq stored
      /\ torn' = torn
  BY DEF StagePublish, TypeInv, TypeOK
<1>5. PendingIsExact'
  <2>1. Pending' = Pending \cup arg[p]
    BY <1>2, <1>3 DEF Pending
  <2> QED
    BY <1>3, <1>4, <2>1 DEF Contents, PendingIsExact
<1>6. HistoryKeepsAll'
  <2> SUFFICES ASSUME NEW m \in stored \cup arg[p]
               PROVE  \E i \in 1..Len(ref') : m \in ref'[i]
    BY <1>4 DEF HistoryKeepsAll
  <2>1. CASE m \in stored
    <3>1. PICK i \in 1..Len(ref) : m \in ref[i]
      BY <2>1 DEF Contents, HistoryKeepsAll
    <3> QED
      BY <1>2, <3>1
  <2>2. CASE m \in arg[p]
    <3>1. m \in ref'[Len(ref) + 1]
      BY <1>2, <1>3, <2>2
    <3> QED
      BY <1>2, <3>1
  <2> QED
    BY <2>1, <2>2
<1>7. NothingUnstaged'
  <2>1. Pending \subseteq stored
    BY <1>1, PendingStored DEF Contents
  <2> SUFFICES ASSUME NEW i \in 1..Len(ref')
               PROVE  ref'[i] \subseteq stored \cup arg[p]
    BY <1>4 DEF NothingUnstaged
  <2>2. CASE i \in 1..Len(ref)
    BY <1>2, <2>2 DEF Contents, NothingUnstaged
  <2>3. CASE i = Len(ref) + 1
    BY <1>2, <1>3, <2>1, <2>3
  <2> QED
    BY <1>2, <2>2, <2>3
<1> QED
  BY <1>5, <1>6, <1>7 DEF Contents

\* The tree of a dropper that publishes: what it listed without its ids.
LEMMA DropPublishContents ==
  ASSUME TypeInv, Prepared, Contents, NEW p \in Droppers, DropPublish(p)
  PROVE  Contents'
<1>1. /\ pc[p] = "dcas" /\ p \in Procs /\ ref \in Commits
      /\ ref = seen[p] /\ tree[p] \in SUBSET Memories
  BY DEF DropPublish, Published, TypeInv, TypeOK, Procs
<1>2. /\ Len(ref') = Len(ref) + 1
      /\ Len(ref) \in Nat
      /\ Tip(ref') = tree[p]
      /\ ref'[Len(ref) + 1] = tree[p]
      /\ \A i \in 1..Len(ref) : ref'[i] = ref[i]
  BY <1>1, CommitTreeProperties DEF DropPublish, Published
<1>3. /\ tree[p] = Tip(listed[p]) \ arg[p]
      /\ Tip(listed[p]) \subseteq stored
  BY <1>1 DEF Prepared, DropperPrepared
<1>4. /\ stored' = stored
      /\ removed' = removed \cup arg[p]
      /\ ~torn' => ~torn /\ listed[p] = ref
  BY <1>1 DEF DropPublish
<1>5. PendingIsExact'
  BY <1>2, <1>3, <1>4 DEF Contents, PendingIsExact, Pending
<1>6. HistoryKeepsAll'
  BY <1>2, <1>4 DEF Contents, HistoryKeepsAll
<1>7. NothingUnstaged'
  <2> SUFFICES ASSUME NEW i \in 1..Len(ref')
               PROVE  ref'[i] \subseteq stored
    BY <1>4 DEF NothingUnstaged
  <2>1. CASE i \in 1..Len(ref)
    BY <1>2, <2>1 DEF Contents, NothingUnstaged
  <2>2. CASE i = Len(ref) + 1
    BY <1>2, <1>3, <2>2
  <2> QED
    BY <1>2, <2>1, <2>2
<1> QED
  BY <1>5, <1>6, <1>7 DEF Contents

\* Every step preserves what the calls have prepared and what the ref holds.
LEMMA NextContents ==
  TypeInv /\ Prepared /\ Contents /\ [Next]_vars => Prepared' /\ Contents'
<1> SUFFICES ASSUME TypeInv, Prepared, Contents, [Next]_vars
             PROVE  Prepared' /\ Contents'
  OBVIOUS
<1>t. /\ pc \in [Procs -> Labels]
      /\ \A p \in Stagers : pc[p] \notin DropLabels
      /\ \A p \in Droppers : pc[p] \notin StageLabels
      /\ ref \in Commits
      /\ arg \in [Procs -> SUBSET Memories]
      /\ seen \in [Procs -> Commits]
      /\ tree \in [Procs -> SUBSET Memories]
      /\ toShow \in [Procs -> SUBSET Memories]
      /\ listed \in [Procs -> Commits]
      /\ stored \subseteq minted
      /\ ArgsKnown
  BY DEF TypeInv, TypeOK
<1> USE DEF Prepared, FreshFiles, StagerPrepared, DropperPrepared, StageLabels,
            DropLabels, Goto, Procs, sharedVars, auxVars, localVars
<1>1. CASE UNCHANGED vars
  <2>1. Contents'
    BY <1>1, QuietContents DEF vars
  <2> QED
    BY <1>1, <2>1 DEF vars, Tip
<1>2. CASE Next
  <2> PICK p \in Procs : NewCall(p) \/ Step(p) \/ Failure(p) \/ Crash(p)
    BY <1>2 DEF Next
  <2>1. ASSUME p \in Stagers, NEW files \in SUBSET (Memories \ minted),
               StageFiles(p, files)
        PROVE  Prepared' /\ Contents'
    <3>1. Contents'
      BY <2>1, QuietContents DEF StageFiles
    <3>2. FreshFiles'
      BY <1>t, <2>1 DEF StageFiles, ArgsKnown
    <3>3. StagerPrepared' /\ DropperPrepared'
      BY <1>t, <2>1 DEF StageFiles, Tip
    <3> QED
      BY <3>1, <3>2, <3>3
  <2>2. ASSUME p \in Droppers, NEW ids \in SUBSET stored, DropStaged(p, ids)
        PROVE  Prepared' /\ Contents'
    <3>1. Contents'
      BY <2>2, QuietContents DEF DropStaged
    <3> QED
      BY <1>t, <2>2, <3>1 DEF DropStaged, Tip
  <2>3. CASE RefExists(p)
    <3>1. Contents'
      BY <2>3, QuietContents DEF RefExists
    <3> QED
      BY <1>t, <2>3, <3>1 DEF RefExists, Tip
  <2>4. CASE BuildTree(p)
    <3>1. Contents'
      BY <2>4, QuietContents DEF BuildTree
    <3> QED
      BY <1>t, <2>4, <3>1 DEF BuildTree, Tip
  <2>5. CASE StagePublish(p)
    <3>0. p \in Stagers
      BY <1>t, <2>5 DEF StagePublish
    <3>1. Contents'
      BY <2>5, <3>0, StagePublishContents
    <3> QED
      BY <1>t, <2>5, <3>0, <3>1 DEF StagePublish, Tip
  <2>6. CASE StageRetry(p)
    <3>1. Contents'
      BY <2>6, QuietContents DEF StageRetry
    <3> QED
      BY <1>t, <2>6, <3>1 DEF StageRetry, Refused, Tip
  <2>7. CASE StagedFiles(p)
    <3>1. Contents'
      BY <2>7, QuietContents DEF StagedFiles
    <3>2. Pending \subseteq stored
      BY <1>t, PendingStored DEF Contents
    <3> QED
      BY <1>t, <2>7, <3>1, <3>2 DEF StagedFiles, Pending, Tip
  <2>8. ASSUME NEW m \in Memories, StagedContent(p, m)
        PROVE  Prepared' /\ Contents'
    <3>1. Contents'
      BY <2>8, QuietContents DEF StagedContent
    <3> QED
      BY <1>t, <2>8, <3>1 DEF StagedContent, Tip
  <2>9. CASE RebuildTree(p)
    <3>1. Contents'
      BY <2>9, QuietContents DEF RebuildTree
    <3> QED
      BY <1>t, <2>9, <3>1 DEF RebuildTree, Tip
  <2>10. CASE DropPublish(p)
    <3>0. p \in Droppers
      BY <1>t, <2>10 DEF DropPublish
    <3>1. Contents'
      BY <2>10, <3>0, DropPublishContents
    <3> QED
      BY <1>t, <2>10, <3>0, <3>1 DEF DropPublish, Tip
  <2>11. CASE DropRefused(p)
    <3>1. Contents'
      BY <2>11, QuietContents DEF DropRefused
    <3> QED
      BY <1>t, <2>11, <3>1 DEF DropRefused, Tip
  <2>12. CASE GitError(p)
    <3>1. Contents'
      BY <2>12, QuietContents DEF GitError
    <3> QED
      BY <1>t, <2>12, <3>1 DEF GitError, Tip
  <2>13. CASE RefExistsFails(p)
    <3>1. Contents'
      BY <2>13, QuietContents DEF RefExistsFails
    <3> QED
      BY <1>t, <2>13, <3>1 DEF RefExistsFails, Tip
  <2>14. CASE StagedFilesFails(p)
    <3>1. Contents'
      BY <2>14, QuietContents DEF StagedFilesFails
    <3> QED
      BY <1>t, <2>14, <3>1 DEF StagedFilesFails, Tip
  <2>15. CASE UpdateRefFails(p)
    <3>1. Contents'
      BY <2>15, QuietContents DEF UpdateRefFails
    <3> QED
      BY <1>t, <2>15, <3>1 DEF UpdateRefFails, Refused, Tip
  <2>16. CASE Crash(p)
    <3>1. Contents'
      BY <2>16, QuietContents DEF Crash
    <3> QED
      BY <1>t, <2>16, <3>1 DEF Crash, Tip
  <2> QED
    BY <2>1, <2>2, <2>3, <2>4, <2>5, <2>6, <2>7, <2>8, <2>9, <2>10, <2>11, <2>12,
       <2>13, <2>14, <2>15, <2>16
    DEF NewCall, Step, StageStep, DropStep, Failure
<1> QED
  BY <1>1, <1>2

\* The inductive invariant of the ref: types, what the calls in progress have
\* prepared, and what the ref holds.
RefInv == TypeInv /\ Prepared /\ Contents

LEMMA RefInvariant == SafetySpec => []RefInv
<1>1. Init => RefInv
  BY InitTypes, InitContents DEF RefInv
<1>2. RefInv /\ [Next]_vars => RefInv'
  BY NextTypes, NextContents DEF RefInv
<1> QED
  BY <1>1, <1>2, PTL DEF SafetySpec

\* While no drop_staged is torn, the ref holds exactly the memories staged and
\* not dropped (src/repo.rs, stage_files and drop_staged).
THEOREM ExactPending == SafetySpec => []PendingIsExact
<1>1. RefInv => PendingIsExact
  BY DEF RefInv, Contents
<1> QED
  BY <1>1, RefInvariant, PTL

\* A memory reported staged is in the history of the ref for good, torn drops,
\* kills and git failures included.
THEOREM KeptInHistory == SafetySpec => []HistoryKeepsAll
<1>1. RefInv => HistoryKeepsAll
  BY DEF RefInv, Contents
<1> QED
  BY <1>1, RefInvariant, PTL

\* No commit of the ref holds a memory that was not staged.
THEOREM OnlyStaged == SafetySpec => []NothingUnstaged
<1>1. RefInv => NothingUnstaged
  BY DEF RefInv, Contents
<1> QED
  BY <1>1, RefInvariant, PTL

\* Only the two publishing steps move the ref, or add to its history.
LEMMA WhoMovesTheRef ==
  ASSUME [Next]_vars, <<ref, stored, removed>>' # <<ref, stored, removed>>
  PROVE  \E p \in Procs : StagePublish(p) \/ DropPublish(p)
<1>1. PICK p \in Procs : NewCall(p) \/ Step(p) \/ Failure(p) \/ Crash(p)
  BY DEF Next, vars, sharedVars, auxVars
<1>2. ~NewCall(p)
  BY DEF NewCall, StageFiles, DropStaged, sharedVars
<1>3. ~Failure(p) /\ ~Crash(p)
  BY DEF Failure, GitError, RefExistsFails, StagedFilesFails, UpdateRefFails,
     Crash, sharedVars, auxVars
<1>4. ~RefExists(p) /\ ~BuildTree(p) /\ ~StageRetry(p) /\ ~StagedFiles(p)
      /\ ~RebuildTree(p) /\ ~DropRefused(p)
      /\ \A m \in Memories : ~StagedContent(p, m)
  BY DEF RefExists, BuildTree, StageRetry, StagedFiles, StagedContent,
     RebuildTree, DropRefused, sharedVars, auxVars
<1> QED
  BY <1>1, <1>2, <1>3, <1>4 DEF Step, StageStep, DropStep

\* The ref only ever moves to a descendant of the commit it names
\* (`update-ref r commit parent` with the commit made on that parent).
THEOREM NeverRewinds == SafetySpec => FastForward
<1>1. ASSUME TypeInv, [Next]_vars, ref' # ref
      PROVE  Len(ref') > Len(ref) /\ \A i \in 1..Len(ref) : ref'[i] = ref[i]
  <2>1. PICK p \in Procs : StagePublish(p) \/ DropPublish(p)
    BY <1>1, WhoMovesTheRef
  <2>2. ref \in Commits /\ tree[p] \in SUBSET Memories
    BY <1>1 DEF TypeInv, TypeOK
  <2>3. ref' = CommitTree(tree[p], ref)
    BY <2>1 DEF StagePublish, DropPublish, Published
  <2> QED
    BY <2>2, <2>3, CommitTreeProperties
<1>2. TypeInv /\ [Next]_vars =>
        [Len(ref') > Len(ref) /\ \A i \in 1..Len(ref) : ref'[i] = ref[i]]_ref
  BY <1>1
<1>3. RefInv => TypeInv
  BY DEF RefInv
<1> QED
  BY <1>2, <1>3, RefInvariant, PTL DEF SafetySpec, FastForward

\* Staging never takes a memory off the ref: only a drop_staged does.
THEOREM StagingEvictsNothing == SafetySpec => OnlyDropsRemove
<1>1. ASSUME RefInv, [Next]_vars, ~(Pending \subseteq Pending')
      PROVE  \E p \in Droppers : pc[p] = "dcas"
  <2>1. ref' # ref
    BY <1>1 DEF Pending, Tip
  <2>2. PICK p \in Procs : StagePublish(p) \/ DropPublish(p)
    BY <1>1, <2>1, WhoMovesTheRef
  <2>3. CASE StagePublish(p)
    <3>1. p \in Stagers /\ ref \in Commits /\ tree[p] \in SUBSET Memories
      BY <1>1, <2>3 DEF RefInv, TypeInv, TypeOK, StagePublish, StageLabels, Procs
    <3>2. tree[p] = Pending \cup arg[p]
      BY <1>1, <2>3, <3>1 DEF RefInv, Prepared, StagerPrepared, StagePublish,
         Published, Pending
    <3>3. Pending' = tree[p]
      BY <2>3, <3>1, CommitTreeProperties DEF StagePublish, Published, Pending
    <3> QED
      BY <1>1, <3>2, <3>3
  <2>4. CASE DropPublish(p)
    <3>1. pc[p] = "dcas" /\ p \in Droppers
      BY <1>1, <2>4 DEF RefInv, TypeInv, TypeOK, DropPublish, DropLabels, Procs
    <3> QED
      BY <3>1
  <2> QED
    BY <2>2, <2>3, <2>4
<1>2. RefInv /\ [Next]_vars =>
        [~(Pending \subseteq Pending') => \E p \in Droppers : pc[p] = "dcas"]_vars
  BY <1>1
<1> QED
  BY <1>2, RefInvariant, PTL DEF SafetySpec, OnlyDropsRemove

-----------------------------------------------------------------------------
\* The abstract staging area.

\* A publishing step is a step of the abstract staging area, unless it is torn.
LEMMA PublishRefines ==
  ASSUME RefInv, [Next]_vars, ~torn',
         <<Pending, stored, removed>>' # <<Pending, stored, removed>>
  PROVE  Promise!Next
<1>1. <<ref, stored, removed>>' # <<ref, stored, removed>>
  BY DEF Pending, Tip
<1>2. PICK p \in Procs : StagePublish(p) \/ DropPublish(p)
  BY <1>1, WhoMovesTheRef
<1>3. CASE StagePublish(p)
  <2>1. /\ p \in Stagers /\ ref \in Commits /\ tree[p] \in SUBSET Memories
        /\ arg[p] \in SUBSET Memories /\ pc[p] = "cas"
    BY <1>3 DEF RefInv, TypeInv, TypeOK, StagePublish, StageLabels, Procs
  <2>2. tree[p] = Pending \cup arg[p] /\ arg[p] \cap stored = {}
    BY <1>3, <2>1 DEF RefInv, Prepared, StagerPrepared, FreshFiles, StageLabels,
       StagePublish, Published, Pending
  <2>3. Pending' = tree[p]
    BY <1>3, <2>1, CommitTreeProperties DEF StagePublish, Published, Pending
  <2>4. Promise!Stage(arg[p])
    BY <1>3, <2>2, <2>3 DEF Promise!Stage, StagePublish
  <2> QED
    BY <2>1, <2>4 DEF Promise!Next
<1>4. CASE DropPublish(p)
  <2>1. /\ p \in Droppers /\ ref \in Commits /\ tree[p] \in SUBSET Memories
        /\ arg[p] \in SUBSET Memories /\ pc[p] = "dcas"
    BY <1>4 DEF RefInv, TypeInv, TypeOK, DropPublish, DropLabels, Procs
  <2>2. arg[p] \subseteq stored
    BY <2>1 DEF RefInv, TypeInv, ArgsKnown, DropLabels
  <2>3. tree[p] = Pending \ arg[p]
    BY <1>4, <2>1 DEF RefInv, Prepared, DropperPrepared, DropPublish, Published,
       Pending
  <2>4. Pending' = tree[p]
    BY <1>4, <2>1, CommitTreeProperties DEF DropPublish, Published, Pending
  <2>5. Promise!Drop(arg[p])
    BY <1>4, <2>2, <2>3, <2>4 DEF Promise!Drop, DropPublish
  <2> QED
    BY <2>1, <2>5 DEF Promise!Next
<1> QED
  BY <1>2, <1>3, <1>4

\* The ref implements the abstract staging area step by step as long as no
\* drop_staged is torn.
THEOREM PromiseKept == SafetySpec => KeepsPromise
<1>1. RefInv /\ [Next]_vars =>
        [torn' \/ Promise!Next]_<<Pending, stored, removed>>
  BY PublishRefines
<1> QED
  BY <1>1, RefInvariant, PTL DEF SafetySpec, KeepsPromise

\* Without droppers nothing is torn and nothing is removed.
NothingDropped == ~torn /\ removed = {}

LEMMA OnlyDroppersDrop ==
  ASSUME Droppers = {}, TypeInv, [Next]_vars, NothingDropped
  PROVE  NothingDropped'
<1>1. CASE UNCHANGED vars
  BY <1>1 DEF vars, auxVars, NothingDropped
<1>2. CASE Next
  <2>1. PICK p \in Procs : NewCall(p) \/ Step(p) \/ Failure(p) \/ Crash(p)
    BY <1>2 DEF Next
  <2>2. ~DropPublish(p)
    BY DEF TypeInv, TypeOK, DropPublish, DropLabels, Procs
  <2> QED
    BY <2>1, <2>2 DEF NothingDropped, NewCall, StageFiles, DropStaged, Step,
       RefExists, StageStep, BuildTree, StagePublish, StageRetry, DropStep,
       StagedFiles, StagedContent, RebuildTree, DropRefused, Failure, GitError,
       RefExistsFails, StagedFilesFails, UpdateRefFails, Crash, auxVars
<1> QED
  BY <1>1, <1>2

\* With writers only, however many, the ref implements the abstract staging area:
\* the promise the test concurrent_writers_lose_nothing samples.
THEOREM WritersImplementPromise == Droppers = {} /\ SafetySpec => ImplementsPromise
<1> SUFFICES ASSUME Droppers = {} PROVE SafetySpec => ImplementsPromise
  OBVIOUS
<1>1. Init => NothingDropped /\ Promise!Init
  BY DEF Init, NothingDropped, Promise!Init, Pending, Tip
<1>2. RefInv /\ NothingDropped /\ [Next]_vars =>
        NothingDropped' /\ [Promise!Next]_(Promise!vars)
  <2> SUFFICES ASSUME RefInv, NothingDropped, [Next]_vars
               PROVE  NothingDropped' /\ [Promise!Next]_(Promise!vars)
    OBVIOUS
  <2>1. NothingDropped'
    BY OnlyDroppersDrop DEF RefInv
  <2> QED
    BY <2>1, PublishRefines DEF NothingDropped, Promise!vars
<1> QED
  BY <1>1, <1>2, RefInvariant, PTL DEF SafetySpec, ImplementsPromise, Promise!Spec

\* With writers only no memory is ever lost.
THEOREM WritersLoseNothing == Droppers = {} /\ SafetySpec => []NeverLosesAMemory
<1> SUFFICES ASSUME Droppers = {} PROVE SafetySpec => []NeverLosesAMemory
  OBVIOUS
<1>1. Init => NothingDropped
  BY DEF Init, NothingDropped
<1>2. RefInv /\ NothingDropped /\ [Next]_vars => NothingDropped'
  BY OnlyDroppersDrop DEF RefInv
<1>3. RefInv /\ NothingDropped => NeverLosesAMemory
  BY DEF RefInv, Contents, PendingIsExact, NothingDropped, NeverLosesAMemory
<1> QED
  BY <1>1, <1>2, <1>3, RefInvariant, PTL DEF SafetySpec

-----------------------------------------------------------------------------
\* Contention.

\* A stager whose parent is no longer the ref's commit owes the pass it is about
\* to lose to a commit published, or a failure, since its call began.
StaleParent ==
  \A p \in Stagers :
    pc[p] \in {"tree", "cas"} /\ seen[p] # ref =>
      tries[p] + started[p] + 1 <= Len(ref) + faults

Contention == RefusalsAreContention /\ StaleParent /\ GivesUpOnlyWhenContended

LEMMA InitContention == Init => Contention
<1> SUFFICES ASSUME Init PROVE Contention
  OBVIOUS
<1>1. pc \in [Procs -> {"idle"}] /\ Len(ref) = 0
  BY DEF Init, NoCommit
<1> QED
  BY <1>1 DEF Init, Contention, RefusalsAreContention, StaleParent,
     GivesUpOnlyWhenContended, Procs

\* Every step preserves the account of refused passes.
LEMMA NextContention == TypeInv /\ Contention /\ [Next]_vars => Contention'
<1> SUFFICES ASSUME TypeInv, Contention, [Next]_vars
             PROVE  Contention'
  OBVIOUS
<1>t. /\ pc \in [Procs -> Labels]
      /\ \A p \in Stagers : pc[p] \notin DropLabels
      /\ \A p \in Stagers : pc[p] \in StageLabels => tries[p] < MaxAttempts
      /\ seen \in [Procs -> Commits]
      /\ tries \in [Procs -> Nat]
      /\ started \in [Procs -> Nat]
      /\ faults \in Nat /\ Len(ref) \in Nat
  <2>1. Len(ref) \in Nat
    BY DEF TypeInv, TypeOK, Commits
  <2> QED
    BY <2>1 DEF TypeInv, TypeOK, ArgsKnown
<1> USE DEF Contention, RefusalsAreContention, StaleParent,
            GivesUpOnlyWhenContended, StageLabels, DropLabels, Goto, Procs,
            sharedVars, auxVars, localVars
<1>1. CASE UNCHANGED vars
  BY <1>1 DEF vars
<1>2. CASE Next
  <2> PICK p \in Procs : NewCall(p) \/ Step(p) \/ Failure(p) \/ Crash(p)
    BY <1>2 DEF Next
  <2>1. ASSUME NEW files \in SUBSET (Memories \ minted), StageFiles(p, files)
        PROVE  Contention'
    BY <1>t, <2>1 DEF StageFiles
  <2>2. ASSUME p \in Droppers, NEW ids \in SUBSET stored, DropStaged(p, ids)
        PROVE  Contention'
    BY <1>t, <2>2 DEF DropStaged
  <2>3. CASE RefExists(p)
    BY <1>t, <2>3 DEF RefExists
  <2>4. CASE BuildTree(p)
    BY <1>t, <2>4 DEF BuildTree
  <2>5. CASE StagePublish(p) \/ DropPublish(p)
    <3>1. Len(ref') = Len(ref) + 1
      BY <2>5, CommitTreeProperties DEF StagePublish, DropPublish, Published,
         TypeInv, TypeOK
    <3>2. CASE StagePublish(p)
      BY <1>t, <3>1, <3>2 DEF StagePublish
    <3>3. CASE DropPublish(p)
      BY <1>t, <3>1, <3>3 DEF DropPublish
    <3> QED
      BY <2>5, <3>2, <3>3
  <2>6. CASE StageRetry(p)
    BY <1>t, <2>6 DEF StageRetry, Refused
  <2>7. CASE StagedFiles(p)
    BY <1>t, <2>7 DEF StagedFiles
  <2>8. ASSUME NEW m \in Memories, StagedContent(p, m)
        PROVE  Contention'
    BY <1>t, <2>8 DEF StagedContent
  <2>9. CASE RebuildTree(p)
    BY <1>t, <2>9 DEF RebuildTree
  <2>10. CASE DropRefused(p)
    BY <1>t, <2>10 DEF DropRefused
  <2>11. CASE GitError(p)
    BY <1>t, <2>11 DEF GitError, Fault
  <2>12. CASE RefExistsFails(p)
    BY <1>t, <2>12 DEF RefExistsFails, Fault
  <2>13. CASE StagedFilesFails(p)
    BY <1>t, <2>13 DEF StagedFilesFails, Fault
  <2>14. CASE UpdateRefFails(p)
    BY <1>t, <2>14 DEF UpdateRefFails, Fault, Refused
  <2>15. CASE Crash(p)
    BY <1>t, <2>15 DEF Crash
  <2> QED
    BY <2>1, <2>2, <2>3, <2>4, <2>5, <2>6, <2>7, <2>8, <2>9, <2>10, <2>11, <2>12,
       <2>13, <2>14, <2>15
    DEF NewCall, Step, StageStep, DropStep, Failure
<1> QED
  BY <1>1, <1>2

LEMMA ContentionInvariant == SafetySpec => []Contention
<1>1. RefInv => TypeInv
  BY DEF RefInv
<1> QED
  BY <1>1, InitContention, NextContention, RefInvariant, PTL DEF SafetySpec

\* Every refused pass is owed to another commit or to a git failure.
THEOREM RefusalsAccounted == SafetySpec => []RefusalsAreContention
<1>1. Contention => RefusalsAreContention
  BY DEF Contention
<1> QED
  BY <1>1, ContentionInvariant, PTL

\* A stage_files call gives up only when MaxAttempts other commits were published
\* while it ran, or git failed.
THEOREM GiveUpAccounted == SafetySpec => []GivesUpOnlyWhenContended
<1>1. Contention => GivesUpOnlyWhenContended
  BY DEF Contention
<1> QED
  BY <1>1, ContentionInvariant, PTL
=============================================================================
