----------------------------- MODULE StagingRef -----------------------------
(***************************************************************************)
(* The staging ref refs/jedimem/log (src/repo.rs): the side ref on which   *)
(* candidate memories wait for review.  `stage_files` adds files to it,    *)
(* `drop_staged` rewrites it without some of them; both publish a commit   *)
(* with `git update-ref <ref> <new> <old>`, a compare-and-swap.            *)
(*                                                                         *)
(* A memory is the file that holds it (pending/<id>.md); a tree is the set *)
(* of files it holds.  Git names a commit by its content, parent included, *)
(* so a commit is the sequence of the trees of its ancestors and of its    *)
(* own, oldest first: two commits are equal exactly when git gives them    *)
(* one name (author, message and second agreeing, the worst case).  The    *)
(* empty sequence is the empty string the code uses for "no such ref".     *)
(***************************************************************************)
EXTENDS Naturals, Sequences, FiniteSets

CONSTANTS Memories,        \* memory ids that may be staged
          Stagers,         \* processes that call stage_files
          Droppers,        \* processes that call drop_staged
          MaxAttempts,     \* passes of the retry loop (100 in the code)
          MaxCalls,        \* bound: calls one process makes
          MaxGitFailures,  \* bound: git commands that fail for outside reasons
          MayCrash         \* whether a process may be killed

ASSUME RolesAssumption == Stagers \cap Droppers = {}
ASSUME BoundsAssumption == /\ MaxAttempts \in Nat \ {0}
                           /\ MaxCalls \in Nat
                           /\ MaxGitFailures \in Nat
                           /\ MayCrash \in BOOLEAN

Procs == Stagers \cup Droppers

VARIABLES
  ref,      \* the commit the staging ref names
  pc,       \* where each process is
  arg,      \* the files of its stage_files call, the `drop` of its drop_staged call
  seen,     \* `parent`: the commit ref_exists gave it
  tree,     \* the tree it builds (`blobs` on the way in drop_staged)
  toShow,   \* drop_staged: listed files whose content is still to be read
  tries,    \* failed passes of its retry loop
  calls,    \* calls it has made
  faults    \* git commands that failed for outside reasons

\* History of the calls, read by the properties only.
VARIABLES
  minted,   \* memories some stage_files call was given: a ULID is used once
  stored,   \* memories whose stage_files call published its commit
  removed,  \* memories whose drop_staged call published its commit
  listed,   \* the commit a drop_staged call listed
  started,  \* the length of ref's history when the call began
  torn      \* some drop_staged published over a parent it had not listed

sharedVars == <<ref, faults>>
localVars  == <<pc, arg, seen, tree, toShow, tries, calls>>
auxVars    == <<minted, stored, removed, listed, started, torn>>
vars       == <<sharedVars, localVars, auxVars>>

-----------------------------------------------------------------------------
\* Commits.

NoCommit == << >>
Commits  == Seq(SUBSET Memories)

\* The files of a commit's own tree; none when there is no commit.
Tip(commit) == IF commit = NoCommit THEN {} ELSE commit[Len(commit)]

\* Mutant: -p is forgotten.
MutOrphanCommit(files, parent) == <<files>>

\* `git commit-tree <tree> -p <parent>`, or without -p when there is no parent.
CommitTree(files, parent) == Append(parent, files)

\* The candidates anyone who reads the ref now would find.
Pending == Tip(ref)

Returned == {"ok", "err"}
StageLabels == {"parent", "tree", "cas"}
DropLabels  == {"list", "show", "dtree", "dcas"}
Labels == {"idle", "dead"} \cup Returned \cup StageLabels \cup DropLabels

Busy(p) == pc[p] \in StageLabels \cup DropLabels
Ready(p) == pc[p] \in {"idle"} \cup Returned /\ calls[p] < MaxCalls

Goto(p, label) == pc' = [pc EXCEPT ![p] = label]

-----------------------------------------------------------------------------
\* stage_files

\* The call: the blobs of `files` are written to the object store.
StageFiles(p, files) ==
  /\ Ready(p)
  /\ Goto(p, "parent")
  /\ arg' = [arg EXCEPT ![p] = files]
  /\ tries' = [tries EXCEPT ![p] = 0]
  /\ calls' = [calls EXCEPT ![p] = @ + 1]
  /\ minted' = minted \cup files
  /\ started' = [started EXCEPT ![p] = Len(ref)]
  /\ UNCHANGED <<sharedVars, seen, tree, toShow, stored, removed, listed, torn>>

\* ref_exists: the ref's commit, or "" when the ref is absent.
RefExists(p) ==
  /\ \/ pc[p] = "parent" /\ Goto(p, "tree")
     \/ pc[p] = "show" /\ toShow[p] = {} /\ Goto(p, "dtree")
  /\ seen' = [seen EXCEPT ![p] = ref]
  /\ UNCHANGED <<sharedVars, arg, tree, toShow, tries, calls, auxVars>>

\* Mutant: the tree is built once, before the loop of retries.
MutBuildTreeOnce(p) ==
  /\ pc[p] = "tree"
  /\ Goto(p, "cas")
  /\ tree' = [tree EXCEPT ![p] = IF tries[p] = 0 THEN Tip(seen[p]) \cup arg[p] ELSE @]
  /\ UNCHANGED <<sharedVars, arg, seen, toShow, tries, calls, auxVars>>

\* build_tree on top of the parent just read, then commit-tree.
BuildTree(p) ==
  /\ pc[p] = "tree"
  /\ Goto(p, "cas")
  /\ tree' = [tree EXCEPT ![p] = Tip(seen[p]) \cup arg[p]]
  /\ UNCHANGED <<sharedVars, arg, seen, toShow, tries, calls, auxVars>>

\* Mutant: update-ref without the old value.
MutPublishedBlindly(p) == ref' = CommitTree(tree[p], seen[p])

\* `update-ref r commit parent` succeeds: the ref still names the parent.
Published(p) ==
  /\ ref = seen[p]
  /\ ref' = CommitTree(tree[p], seen[p])

StagePublish(p) ==
  /\ pc[p] = "cas"
  /\ Published(p)
  /\ Goto(p, "ok")
  /\ stored' = stored \cup arg[p]
  /\ UNCHANGED <<faults, arg, seen, tree, toShow, tries, calls,
                 minted, removed, listed, started, torn>>

\* Mutant: one pass too many.
MutRefusedLate(p) ==
  /\ tries' = [tries EXCEPT ![p] = @ + 1]
  /\ Goto(p, IF tries[p] + 1 <= MaxAttempts THEN "parent" ELSE "err")

\* Mutant: one pass too few.
MutRefusedEarly(p) ==
  /\ tries' = [tries EXCEPT ![p] = @ + 1]
  /\ Goto(p, IF tries[p] + 2 < MaxAttempts THEN "parent" ELSE "err")

\* Mutant: the parent is read before the loop of retries.
MutRefusedHoisted(p) ==
  /\ tries' = [tries EXCEPT ![p] = @ + 1]
  /\ Goto(p, IF tries[p] + 1 < MaxAttempts THEN "cas" ELSE "err")

\* The ref refused the swap: another pass, or an error after the last one.
Refused(p) ==
  /\ tries' = [tries EXCEPT ![p] = @ + 1]
  /\ Goto(p, IF tries[p] + 1 < MaxAttempts THEN "parent" ELSE "err")

\* Mutant: a refused swap is forced.
MutStageForce(p) ==
  /\ pc[p] = "cas"
  /\ ref # seen[p]
  /\ Refused(p)
  /\ ref' = CommitTree(tree[p], seen[p])
  /\ UNCHANGED <<faults, arg, seen, tree, toShow, calls, auxVars>>

StageRetry(p) ==
  /\ pc[p] = "cas"
  /\ ref # seen[p]
  /\ Refused(p)
  /\ UNCHANGED <<sharedVars, arg, seen, tree, toShow, calls, auxVars>>

-----------------------------------------------------------------------------
\* drop_staged

DropStaged(p, ids) ==
  /\ Ready(p)
  /\ Goto(p, "list")
  /\ arg' = [arg EXCEPT ![p] = ids]
  /\ tree' = [tree EXCEPT ![p] = {}]
  /\ calls' = [calls EXCEPT ![p] = @ + 1]
  /\ started' = [started EXCEPT ![p] = Len(ref)]
  /\ UNCHANGED <<sharedVars, seen, toShow, tries, minted, stored, removed,
                 listed, torn>>

\* Mutant: the files in `drop` are kept too.
MutStagedFilesAll(p) ==
  /\ pc[p] = "list"
  /\ Goto(p, "show")
  /\ toShow' = [toShow EXCEPT ![p] = Pending]
  /\ listed' = [listed EXCEPT ![p] = ref]
  /\ UNCHANGED <<sharedVars, arg, seen, tree, tries, calls, minted, stored,
                 removed, started, torn>>

\* staged_files: the names of the tip's files; those in `drop` are passed over.
StagedFiles(p) ==
  /\ pc[p] = "list"
  /\ Goto(p, "show")
  /\ toShow' = [toShow EXCEPT ![p] = Pending \ arg[p]]
  /\ listed' = [listed EXCEPT ![p] = ref]
  /\ UNCHANGED <<sharedVars, arg, seen, tree, tries, calls, minted, stored,
                 removed, started, torn>>

\* staged_content: the file is read through the ref as it is now, and a file
\* that has gone since the listing is an error.
StagedContent(p, m) ==
  /\ pc[p] = "show"
  /\ m \in toShow[p]
  /\ \/ /\ m \in Pending
        /\ toShow' = [toShow EXCEPT ![p] = @ \ {m}]
        /\ tree' = [tree EXCEPT ![p] = @ \cup {m}]
        /\ UNCHANGED pc
     \/ /\ m \notin Pending
        /\ Goto(p, "err")
        /\ UNCHANGED <<toShow, tree>>
  /\ UNCHANGED <<sharedVars, arg, seen, tries, calls, auxVars>>

\* build_tree from nothing but the kept files (the empty tree when there are
\* none), then commit-tree on the parent read after the listing.
RebuildTree(p) ==
  /\ pc[p] = "dtree"
  /\ Goto(p, "dcas")
  /\ UNCHANGED <<sharedVars, arg, seen, tree, toShow, tries, calls, auxVars>>

DropPublish(p) ==
  /\ pc[p] = "dcas"
  /\ Published(p)
  /\ Goto(p, "ok")
  /\ removed' = removed \cup arg[p]
  /\ torn' = (torn \/ listed[p] # seen[p])
  /\ UNCHANGED <<faults, arg, seen, tree, toShow, tries, calls,
                 minted, stored, listed, started>>

\* One attempt only: a refused swap is an error.
DropRefused(p) ==
  /\ pc[p] = "dcas"
  /\ ref # seen[p]
  /\ Goto(p, "err")
  /\ UNCHANGED <<sharedVars, arg, seen, tree, toShow, tries, calls, auxVars>>

-----------------------------------------------------------------------------
\* Git commands that fail for reasons outside the protocol.

Fault == faults < MaxGitFailures /\ faults' = faults + 1

\* hash-object, read-tree, update-index, write-tree, commit-tree, show, an
\* update-ref that cannot be run or is drop_staged's: the error is returned.
GitError(p) ==
  /\ Fault
  /\ \/ pc[p] = "parent" /\ tries[p] = 0
     \/ pc[p] \in {"tree", "cas", "show", "dtree", "dcas"}
  /\ Goto(p, "err")
  /\ UNCHANGED <<ref, arg, seen, tree, toShow, tries, calls, auxVars>>

\* rev-parse: ref_exists answers as for an absent ref.
RefExistsFails(p) ==
  /\ Fault
  /\ \/ pc[p] = "parent" /\ Goto(p, "tree")
     \/ pc[p] = "show" /\ toShow[p] = {} /\ Goto(p, "dtree")
  /\ seen' = [seen EXCEPT ![p] = NoCommit]
  /\ UNCHANGED <<ref, arg, tree, toShow, tries, calls, auxVars>>

\* rev-parse or ls-tree: staged_files answers as for an empty tree.
StagedFilesFails(p) ==
  /\ Fault
  /\ pc[p] = "list"
  /\ Goto(p, "show")
  /\ toShow' = [toShow EXCEPT ![p] = {}]
  /\ listed' = [listed EXCEPT ![p] = NoCommit]
  /\ UNCHANGED <<ref, arg, seen, tree, tries, calls, minted, stored, removed,
                 started, torn>>

\* update-ref of stage_files, e.g. the ref's lock file is held: a refusal.
UpdateRefFails(p) ==
  /\ Fault
  /\ pc[p] = "cas"
  /\ Refused(p)
  /\ UNCHANGED <<ref, arg, seen, tree, toShow, calls, auxVars>>

\* The process is killed.  Objects it wrote stay unreferenced.
Crash(p) ==
  /\ MayCrash
  /\ Busy(p)
  /\ Goto(p, "dead")
  /\ UNCHANGED <<sharedVars, arg, seen, tree, toShow, tries, calls, auxVars>>

-----------------------------------------------------------------------------
Init ==
  /\ ref = NoCommit
  /\ pc = [p \in Procs |-> "idle"]
  /\ arg = [p \in Procs |-> {}]
  /\ seen = [p \in Procs |-> NoCommit]
  /\ tree = [p \in Procs |-> {}]
  /\ toShow = [p \in Procs |-> {}]
  /\ tries = [p \in Procs |-> 0]
  /\ calls = [p \in Procs |-> 0]
  /\ faults = 0
  /\ minted = {} /\ stored = {} /\ removed = {}
  /\ listed = [p \in Procs |-> NoCommit]
  /\ started = [p \in Procs |-> 0]
  /\ torn = FALSE

\* A memory is staged under an id of its own; ids to drop come from `pending`.
NewCall(p) ==
  \/ /\ p \in Stagers
     /\ \E files \in (SUBSET (Memories \ minted)) \ {{}} : StageFiles(p, files)
  \/ /\ p \in Droppers
     /\ \E ids \in (SUBSET stored) \ {{}} : DropStaged(p, ids)

StageStep(p) == BuildTree(p) \/ StagePublish(p) \/ StageRetry(p)

DropStep(p) ==
  \/ StagedFiles(p)
  \/ \E m \in Memories : StagedContent(p, m)
  \/ RebuildTree(p) \/ DropPublish(p) \/ DropRefused(p)

\* What the process does by itself, once called.
Step(p) == RefExists(p) \/ StageStep(p) \/ DropStep(p)

Failure(p) ==
  GitError(p) \/ RefExistsFails(p) \/ StagedFilesFails(p) \/ UpdateRefFails(p)

Next == \E p \in Procs : NewCall(p) \/ Step(p) \/ Failure(p) \/ Crash(p)

\* The operating system runs every live process; nobody has to make a call, and
\* neither a failing git nor a kill is owed to anyone.
Fairness == \A p \in Procs : WF_vars(Step(p))

SafetySpec == Init /\ [][Next]_vars

Spec == SafetySpec /\ Fairness

-----------------------------------------------------------------------------
\* Properties.

\* Every variable has its type, and a process is only ever at a label of its
\* own operation (stage_files for a stager, drop_staged for a dropper).
TypeOK ==
  /\ ref \in Commits
  /\ pc \in [Procs -> Labels]
  /\ \A p \in Stagers : pc[p] \notin DropLabels
  /\ \A p \in Droppers : pc[p] \notin StageLabels
  /\ arg \in [Procs -> SUBSET Memories]
  /\ seen \in [Procs -> Commits]
  /\ tree \in [Procs -> SUBSET Memories]
  /\ toShow \in [Procs -> SUBSET Memories]
  /\ tries \in [Procs -> 0..MaxAttempts]
  /\ calls \in [Procs -> 0..MaxCalls]
  /\ faults \in 0..MaxGitFailures
  /\ minted \subseteq Memories
  /\ stored \subseteq minted
  /\ removed \subseteq stored
  /\ listed \in [Procs -> Commits]
  /\ started \in [Procs -> Nat]
  /\ torn \in BOOLEAN

\* Whatever the interleaving, crashes and failing commands: as long as no
\* drop_staged published over a parent it had not listed, the candidates on the
\* ref are exactly the memories staged and not dropped.  Retried stage_files
\* calls build on what the others published meanwhile.
PendingIsExact == ~torn => Pending = stored \ removed

\* A memory that stage_files reported staged stays in the history of the ref for
\* good, even when a torn drop_staged took it off the tip: it can be recovered.
HistoryKeepsAll ==
  \A m \in stored : \E i \in 1..Len(ref) : m \in ref[i]

\* Nothing reaches the ref but what a stage_files call published: no commit of
\* the history holds a memory whose call failed, crashed or is still running.
NothingUnstaged ==
  \A i \in 1..Len(ref) : ref[i] \subseteq stored

\* The ref only moves forward: every commit it names has the one it named
\* before as an ancestor, so no update rewinds another process's commit.
FastForward ==
  [][Len(ref') > Len(ref) /\ \A i \in 1..Len(ref) : ref'[i] = ref[i]]_ref

\* A memory leaves the ref only by a drop_staged: staging never evicts one.
OnlyDropsRemove ==
  [][~(Pending \subseteq Pending') => \E p \in Droppers : pc[p] = "dcas"]_vars

\* Each refused pass of a stage_files call is owed to a commit published by
\* someone else since the call began, or to a git failure: the loop never burns
\* passes on a parent it could have known to be stale.
RefusalsAreContention ==
  \A p \in Stagers : tries[p] + started[p] <= Len(ref) + faults

\* "could not update ... after 100 attempts" is only ever reported when that many
\* other commits got in, or git failed: a quiet ref never refuses a memory.
GivesUpOnlyWhenContended ==
  \A p \in Stagers :
    pc[p] = "err" => faults > 0 \/ Len(ref) >= started[p] + MaxAttempts

\* The abstract staging area this one implements.
Promise == INSTANCE StagingPromise WITH pending <- Pending

\* As long as no drop_staged is torn, each step of the processes is a whole stage
\* or a whole drop of the abstract staging area, or none of either.
KeepsPromise == [][torn' \/ Promise!Next]_<<Pending, stored, removed>>

\* With writers only, the ref implements the abstract staging area outright.
ImplementsPromise == Promise!Spec

\* README: "staging: lock-free, invisible, never loses a memory".  A memory whose
\* stage_files succeeded is on the ref until a drop_staged call names it.
NeverLosesAMemory ==
  \A m \in stored :
    m \in Pending \/ \E p \in Droppers : m \in removed \cup arg[p]
=============================================================================
