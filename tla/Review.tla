------------------------------- MODULE Review -------------------------------
(***************************************************************************)
(* The life of a memory after capture: `import --stage` puts it on the     *)
(* staging ref, `review` promotes it to a committed file or rejects it,    *)
(* `contest` withdraws it, and both compile the active files into the      *)
(* block the agents read (src/store.rs, cmd_review and cmd_contest of      *)
(* src/main.rs, compile_repo of src/compiler.rs).                          *)
(*                                                                         *)
(* Every command is a process of its own on the same repository.  The      *)
(* staging ref is StagingRef's, whose calls the commands make.             *)
(***************************************************************************)
EXTENDS Naturals, Sequences, FiniteSets

CONSTANTS Memories, MaxAttempts, MaxCalls, MaxGitFailures, MayCrash,
          MaxMishaps,  \* bound: reads of `pending`, and writes of files, that fail
          Importers,   \* processes running `import --stage`
          Reviewers,   \* processes running `review --approve .. --reject ..`
          Contesters   \* processes running `contest`

ASSUME CommandsAssumption ==
  /\ Importers \cap Reviewers = {}
  /\ Contesters \cap (Importers \cup Reviewers) = {}
ASSUME LimitsAssumption ==
  /\ MaxAttempts \in Nat \ {0}
  /\ MaxCalls \in Nat /\ MaxCalls >= 2   \* a review may drop twice
  /\ MaxGitFailures \in Nat
  /\ MaxMishaps \in Nat
  /\ MayCrash \in BOOLEAN

VARIABLES ref, pc, arg, seen, tree, toShow, tries, calls, faults,
          minted, stored, removed, listed, started, torn

S == INSTANCE StagingRef WITH Stagers <- Importers, Droppers <- Reviewers

VARIABLES
  status,    \* each memory's file under .jedimem/memories: its status
  block,     \* the memories of the compiled block
  at,        \* where each command is
  mishaps,   \* git reads of `pending` and file writes that failed
  names,     \* pending(): listed files it has still to read
  found,     \* pending(): the memories it could read
  okIds,     \* the memories a review approves
  noIds,     \* the memories a review rejects
  target,    \* the memories a contest is about: one, once it is resolved
  snapshot   \* all(false): the active memories a compile renders

\* History, read by the properties only.
VARIABLES
  rejected,  \* memories some review was told to reject
  outdated   \* some compile wrote the block from files that had changed since

stagingHistory == <<minted, stored, removed, listed, started, torn>>
stagingCalls   == <<pc, arg, seen, tree, toShow, tries, calls>>
stagingVars    == <<ref, faults, stagingCalls, stagingHistory>>

commandVars == <<at, mishaps, names, found, okIds, noIds, target, snapshot>>
fileVars    == <<status, block, outdated>>
vars        == <<stagingVars, fileVars, commandVars, rejected>>

Users == Reviewers \cup Contesters

\* The file of a memory: none, of a status the commands give it, or cut short by
\* a kill in the middle of a write.
Statuses == {"absent", "active", "contested", "cut"}

Active == {m \in Memories : status[m] = "active"}

\* Store::all reads every file and fails on the first it cannot parse.
AllReadable == \A m \in Memories : status[m] # "cut"

Ended  == {"done", "failed", "killed"}
Labels == Ended \cup
  {"idle", "show", "relist", "reshow", "clearing", "reject", "rejecting",
   "contest", "compile", "splice"}

Move(p, label) == at' = [at EXCEPT ![p] = label]

-----------------------------------------------------------------------------
\* Store::pending, called by cmd_review and again by promote.

\* What fails for reasons outside the commands: a git read here, a file write below.
Mishap == mishaps < MaxMishaps /\ mishaps' = mishaps + 1

\* staged_files: the names on the ref; none when ls-tree fails.
PendingList(r) ==
  /\ \/ at[r] = "idle" /\ Move(r, "show")
     \/ at[r] = "relist" /\ Move(r, "reshow")
  /\ found' = [found EXCEPT ![r] = {}]
  /\ \/ names' = [names EXCEPT ![r] = S!Pending] /\ UNCHANGED mishaps
     \/ names' = [names EXCEPT ![r] = {}] /\ Mishap
  /\ UNCHANGED <<stagingVars, fileVars, okIds, noIds, target, snapshot,
                 rejected>>

\* staged_content of one of them: a file that has gone, or a git show that
\* fails, is passed over.
PendingShow(r, m) ==
  /\ at[r] \in {"show", "reshow"}
  /\ m \in names[r]
  /\ names' = [names EXCEPT ![r] = @ \ {m}]
  /\ \/ /\ m \in S!Pending
        /\ found' = [found EXCEPT ![r] = @ \cup {m}]
        /\ UNCHANGED mishaps
     \/ m \notin S!Pending /\ UNCHANGED <<found, mishaps>>
     \/ Mishap /\ UNCHANGED found
  /\ UNCHANGED <<stagingVars, fileVars, at, okIds, noIds, target, snapshot,
                 rejected>>

-----------------------------------------------------------------------------
\* cmd_review

\* The handles of the command line resolve to memories among those read, or the
\* command ends: nothing pending, nothing asked, or a handle that does not match.
Match(r) ==
  /\ at[r] = "show" /\ names[r] = {}
  /\ \/ Move(r, "done") /\ UNCHANGED <<okIds, noIds, rejected>>
     \/ \E ok, no \in SUBSET found[r] :
          /\ ok \cup no # {}
          /\ okIds' = [okIds EXCEPT ![r] = ok]
          /\ noIds' = [noIds EXCEPT ![r] = no]
          /\ rejected' = rejected \cup no
          /\ Move(r, IF ok # {} THEN "relist" ELSE "reject")
  /\ UNCHANGED <<stagingVars, fileVars, mishaps, names, found, target,
                 snapshot>>

\* Mutant: whatever is pending is written.
MutPromoteAll(r, m) ==
  /\ at[r] = "reshow" /\ names[r] = {}
  /\ m \in found[r]
  /\ status' = [status EXCEPT ![m] = "active"]
  /\ found' = [found EXCEPT ![r] = @ \ {m}]
  /\ UNCHANGED <<stagingVars, block, outdated, at, mishaps, names, okIds, noIds,
                 target, snapshot, rejected>>

\* promote, once it has read pending again: the file of an approved memory it
\* found, `active` whatever the file said before.
PromoteWrite(r, m) ==
  /\ at[r] = "reshow" /\ names[r] = {}
  /\ m \in okIds[r] \cap found[r]
  /\ status' = [status EXCEPT ![m] = "active"]
  /\ found' = [found EXCEPT ![r] = @ \ {m}]
  /\ UNCHANGED <<stagingVars, block, outdated, at, mishaps, names, okIds, noIds,
                 target, snapshot, rejected>>

\* Mutant: the ref is cleared before the files are written.
MutClearFirst(r) ==
  /\ at[r] = "reshow" /\ names[r] = {}
  /\ S!DropStaged(r, okIds[r])
  /\ Move(r, "clearing")
  /\ UNCHANGED <<fileVars, mishaps, names, found, okIds, noIds, target,
                 snapshot, rejected>>

\* clear_pending for every approved id, those promote did not find included.
PromoteClear(r) ==
  /\ at[r] = "reshow" /\ names[r] = {}
  /\ okIds[r] \cap found[r] = {}
  /\ S!DropStaged(r, okIds[r])
  /\ Move(r, "clearing")
  /\ UNCHANGED <<fileVars, mishaps, names, found, okIds, noIds, target,
                 snapshot, rejected>>

\* clear_pending for the rejected ids.
RejectClear(r) ==
  /\ at[r] = "reject"
  /\ noIds[r] # {}
  /\ S!DropStaged(r, noIds[r])
  /\ Move(r, "rejecting")
  /\ UNCHANGED <<fileVars, mishaps, names, found, okIds, noIds, target,
                 snapshot, rejected>>

\* Mutant: a review that only approves does not compile.
MutReturnsWithoutCompile(r) ==
  /\ at[r] \in {"clearing", "rejecting"}
  /\ \/ pc[r] = "err" /\ Move(r, "failed")
     \/ /\ pc[r] = "ok"
        /\ Move(r, IF at[r] = "rejecting" THEN "compile"
                   ELSE IF noIds[r] # {} THEN "reject" ELSE "done")
  /\ UNCHANGED <<stagingVars, fileVars, mishaps, names, found, okIds, noIds,
                 target, snapshot, rejected>>

\* Mutant: an error of drop_staged is waited out.
MutReturnsOnlyOk(r) ==
  /\ at[r] \in {"clearing", "rejecting"}
  /\ pc[r] = "ok"
  /\ Move(r, IF at[r] = "clearing" /\ noIds[r] # {} THEN "reject" ELSE "compile")
  /\ UNCHANGED <<stagingVars, fileVars, mishaps, names, found, okIds, noIds,
                 target, snapshot, rejected>>

\* drop_staged came back: "approved N" or "rejected N" is printed and the review
\* goes on, or its error ends the command.
DropReturns(r) ==
  /\ at[r] \in {"clearing", "rejecting"}
  /\ \/ pc[r] = "err" /\ Move(r, "failed")
     \/ /\ pc[r] = "ok"
        /\ Move(r, IF at[r] = "clearing" /\ noIds[r] # {} THEN "reject" ELSE "compile")
  /\ UNCHANGED <<stagingVars, fileVars, mishaps, names, found, okIds, noIds,
                 target, snapshot, rejected>>

-----------------------------------------------------------------------------
\* cmd_contest

\* all(true) and match_ids: the handle resolves to a memory that has a file.
ContestMatch(c, m) ==
  /\ at[c] = "idle"
  /\ AllReadable /\ status[m] # "absent"
  /\ target' = [target EXCEPT ![c] = {m}]
  /\ Move(c, "contest")
  /\ UNCHANGED <<stagingVars, fileVars, mishaps, names, found, okIds, noIds,
                 snapshot, rejected>>

\* set_status: by_id reads the one file and write puts it back, contested; a
\* file that cannot be read is "no such memory".
ContestWrite(c) ==
  /\ at[c] = "contest"
  /\ \E m \in target[c] :
       \/ /\ status[m] # "cut"
          /\ status' = [status EXCEPT ![m] = "contested"]
          /\ Move(c, "compile")
       \/ /\ status[m] = "cut"
          /\ Move(c, "failed")
          /\ UNCHANGED status
  /\ UNCHANGED <<stagingVars, block, outdated, mishaps, names, found, okIds,
                 noIds, target, snapshot, rejected>>

\* Store::write fails (validate, or the disk) in either command, which ends there.
WriteFails(p) ==
  /\ \/ at[p] = "reshow" /\ names[p] = {} /\ okIds[p] \cap found[p] # {}
     \/ at[p] = "contest"
  /\ Mishap
  /\ Move(p, "failed")
  /\ UNCHANGED <<stagingVars, fileVars, names, found, okIds, noIds, target,
                 snapshot, rejected>>

-----------------------------------------------------------------------------
\* Both commands end with all(false) and compile_repo.

CompileRead(p) ==
  /\ at[p] = "compile"
  /\ \/ AllReadable /\ Move(p, "splice") /\ snapshot' = [snapshot EXCEPT ![p] = Active]
     \/ ~AllReadable /\ Move(p, "failed") /\ UNCHANGED snapshot
  /\ UNCHANGED <<stagingVars, fileVars, mishaps, names, found, okIds, noIds,
                 target, rejected>>

CompileSplice(p) ==
  /\ at[p] = "splice"
  /\ block' = snapshot[p]
  /\ outdated' = (outdated \/ snapshot[p] # Active)
  /\ Move(p, "done")
  /\ UNCHANGED <<stagingVars, status, mishaps, names, found, okIds, noIds,
                 target, snapshot, rejected>>

-----------------------------------------------------------------------------
\* Kills.  fs::write truncates the file before it fills it.

\* Mutant: the staging call of a killed review runs on.
MutKilledOrphan(p) ==
  /\ MayCrash
  /\ at[p] \notin Ended \cup {"idle"}
  /\ Move(p, "killed")
  /\ UNCHANGED <<stagingVars, fileVars, mishaps, names, found, okIds, noIds,
                 target, snapshot, rejected>>

Killed(p) ==
  /\ MayCrash
  /\ at[p] \notin Ended \cup {"idle"}
  /\ Move(p, "killed")
  /\ IF p \in Reviewers /\ S!Busy(p) THEN S!Crash(p) ELSE UNCHANGED stagingVars
  /\ \/ UNCHANGED status
     \/ \E m \in Memories :
          /\ \/ at[p] = "reshow" /\ names[p] = {} /\ m \in okIds[p] \cap found[p]
             \/ at[p] = "contest" /\ m \in target[p]
          /\ status' = [status EXCEPT ![m] = "cut"]
  /\ UNCHANGED <<block, outdated, mishaps, names, found, okIds, noIds, target,
                 snapshot, rejected>>

-----------------------------------------------------------------------------
Init ==
  /\ S!Init
  /\ status = [m \in Memories |-> "absent"]
  /\ block = {} /\ outdated = FALSE
  /\ at = [p \in Users |-> "idle"]
  /\ mishaps = 0
  /\ names = [p \in Users |-> {}]
  /\ found = [p \in Users |-> {}]
  /\ okIds = [p \in Users |-> {}]
  /\ noIds = [p \in Users |-> {}]
  /\ target = [p \in Users |-> {}]
  /\ snapshot = [p \in Users |-> {}]
  /\ rejected = {}

\* An import, and the staging calls in progress.
Staging(p) ==
  /\ \/ /\ p \in Importers
        /\ \E files \in (SUBSET (Memories \ minted)) \ {{}} : S!StageFiles(p, files)
     \/ S!Step(p)
     \/ S!Failure(p)
     \/ p \in Importers /\ S!Crash(p)
  /\ UNCHANGED <<fileVars, commandVars, rejected>>

ReviewStep(r) ==
  \/ PendingList(r) \/ \E m \in Memories : PendingShow(r, m)
  \/ Match(r)
  \/ \E m \in Memories : PromoteWrite(r, m)
  \/ PromoteClear(r) \/ RejectClear(r) \/ DropReturns(r)

ContestStep(c) == ContestWrite(c) \/ \E m \in Memories : ContestMatch(c, m)

CompileStep(p) == CompileRead(p) \/ CompileSplice(p)

Next ==
  \/ \E p \in Importers \cup Reviewers : Staging(p)
  \/ \E r \in Reviewers : ReviewStep(r)
  \/ \E c \in Contesters : ContestStep(c)
  \/ \E p \in Users : CompileStep(p) \/ WriteFails(p) \/ Killed(p)

\* Every started command is scheduled; whether one is started is the users'.
Fairness ==
  /\ \A p \in Importers \cup Reviewers :
       WF_vars(S!Step(p) /\ UNCHANGED <<fileVars, commandVars, rejected>>)
  /\ \A r \in Reviewers : WF_vars(at[r] # "idle" /\ ReviewStep(r))
  /\ \A c \in Contesters : WF_vars(at[c] # "idle" /\ ContestStep(c))
  /\ \A p \in Users : WF_vars(CompileStep(p))

SafetySpec == Init /\ [][Next]_vars

Spec == SafetySpec /\ Fairness

-----------------------------------------------------------------------------
\* Properties.

\* Every variable of the commands has its type, and a command is in a staging
\* call exactly while it waits for one.
TypeOK ==
  /\ status \in [Memories -> Statuses]
  /\ block \subseteq Memories
  /\ at \in [Users -> Labels]
  /\ mishaps \in 0..MaxMishaps
  /\ names \in [Users -> SUBSET Memories]
  /\ found \in [Users -> SUBSET Memories]
  /\ okIds \in [Users -> SUBSET Memories]
  /\ noIds \in [Users -> SUBSET Memories]
  /\ target \in [Users -> SUBSET Memories]
  /\ snapshot \in [Users -> SUBSET Memories]
  /\ rejected \subseteq Memories
  /\ outdated \in BOOLEAN
  /\ \A r \in Reviewers : S!Busy(r) => at[r] \in {"clearing", "rejecting"}

\* Memories some review was told to approve.
Approved == UNION {okIds[r] : r \in Reviewers}

\* A staged memory leaves the ref only by a decision: while no drop is torn, it
\* is pending, or has a file, or was rejected.  Kills included: promote writes
\* the files before it clears the ref.
NothingLeavesUndecided ==
  ~torn => \A m \in stored :
    m \in S!Pending \/ status[m] # "absent" \/ m \in rejected

\* So it does as long as no git read of `pending` and no file write has failed.
DecidedUnlessMishap == mishaps = 0 => NothingLeavesUndecided

\* "only ever on an explicit human action" (Store::promote): a memory has a file,
\* and reaches the agents, only if a review was told to approve it.
OnlyApprovedServed ==
  /\ \A m \in Memories : status[m] # "absent" => m \in Approved
  /\ block \subseteq Approved

\* When every command has run to its end and no compile rendered files that had
\* changed meanwhile, the agents read exactly the active memories.
BlockIsActive ==
  ~outdated /\ (\A p \in Users : at[p] \in {"idle", "done"}) => block = Active

\* Every started command ends, an import's staging call included, whatever fails.
CommandsEnd ==
  /\ \A p \in Users : at[p] # "idle" ~> at[p] \in Ended
  /\ \A p \in Importers : S!Busy(p) ~> ~S!Busy(p)
=============================================================================
