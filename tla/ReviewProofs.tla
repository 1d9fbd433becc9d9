---------------------------- MODULE ReviewProofs ----------------------------
(***************************************************************************)
(* Proofs about Review, for every set of memories and commands.  What is   *)
(* proved of the staging ref alone (StagingRefProofs) is used through the  *)
(* instance P: the commands are shown to move the ref only by StagingRef's *)
(* steps, so its invariant holds here too.                                 *)
(***************************************************************************)
EXTENDS Review, TLAPS

P == INSTANCE StagingRefProofs WITH Stagers <- Importers, Droppers <- Reviewers

USE CommandsAssumption, LimitsAssumption

\* S and P are two instances of one module.
LEMMA OneStagingRef ==
  /\ S!Init = P!Init
  /\ S!Next = P!Next
  /\ S!vars = P!vars
  /\ stagingVars = <<ref, faults, stagingCalls, stagingHistory>>
BY DEF stagingVars,
     S!NoCommit, P!NoCommit, S!Tip, P!Tip, S!CommitTree, P!CommitTree,
     S!Pending, P!Pending, S!Returned, P!Returned, S!StageLabels,
     P!StageLabels, S!DropLabels, P!DropLabels, S!Busy, P!Busy, S!Ready,
     P!Ready, S!Goto, P!Goto, S!Procs, P!Procs, S!sharedVars,
     P!sharedVars, S!localVars, P!localVars, S!auxVars, P!auxVars, S!vars,
     P!vars, S!StageFiles, P!StageFiles, S!RefExists, P!RefExists,
     S!BuildTree, P!BuildTree, S!Published, P!Published, S!StagePublish,
     P!StagePublish, S!Refused, P!Refused, S!StageRetry, P!StageRetry,
     S!DropStaged, P!DropStaged, S!StagedFiles, P!StagedFiles,
     S!StagedContent, P!StagedContent, S!RebuildTree, P!RebuildTree,
     S!DropPublish, P!DropPublish, S!DropRefused, P!DropRefused, S!Fault,
     P!Fault, S!GitError, P!GitError, S!RefExistsFails, P!RefExistsFails,
     S!StagedFilesFails, P!StagedFilesFails, S!UpdateRefFails,
     P!UpdateRefFails, S!Crash, P!Crash, S!Init, P!Init, S!NewCall,
     P!NewCall, S!StageStep, P!StageStep, S!DropStep, P!DropStep, S!Step,
     P!Step, S!Failure, P!Failure, S!Next, P!Next

LEMMA OnePending ==
  /\ S!Pending = P!Pending
  /\ S!PendingIsExact = P!PendingIsExact
BY DEF
     S!Pending, P!Pending, S!Tip, P!Tip, S!NoCommit, P!NoCommit,
     S!PendingIsExact, P!PendingIsExact

-----------------------------------------------------------------------------
\* What a review knows was staged, and what it approves is not empty while it
\* promotes.
KnownIds ==
  \A r \in Reviewers :
    /\ names[r] \cup found[r] \cup okIds[r] \cup noIds[r] \subseteq stored
    /\ at[r] \in {"relist", "reshow"} => okIds[r] # {}

CommandInv == P!RefInv /\ TypeOK /\ KnownIds

\* The parts of the staging invariant the proofs below need.
LEMMA StagingFacts ==
  ASSUME P!RefInv
  PROVE  /\ S!Pending \subseteq stored
         /\ ~torn => S!Pending = stored \ removed
         /\ stored \subseteq Memories
         /\ removed \subseteq stored
         /\ pc \in [Importers \cup Reviewers -> P!Labels]
         /\ \A p \in Reviewers : pc[p] \notin P!StageLabels
         /\ \A p \in Importers : pc[p] \notin P!DropLabels
<1>1. P!TypeOK /\ P!NothingUnstaged /\ P!PendingIsExact
  BY DEF P!RefInv, P!TypeInv, P!Contents
<1>2. P!Pending \subseteq stored
  BY <1>1, P!PendingStored DEF P!TypeOK
<1> QED
  BY <1>1, <1>2, OnePending DEF P!TypeOK, P!PendingIsExact, P!Procs

\* Every step of the commands is a step of StagingRef, or leaves the ref alone.
LEMMA CommandsUseTheRef ==
  ASSUME KnownIds, [Next]_vars
  PROVE  [S!Next]_stagingVars
<1>1. CASE UNCHANGED vars
  BY <1>1 DEF vars
<1>2. ASSUME NEW p \in Importers \cup Reviewers, Staging(p)
      PROVE  S!Next
  BY <1>2 DEF Staging, S!Next, S!NewCall, S!Procs
<1>3. ASSUME NEW r \in Reviewers, PromoteClear(r)
      PROVE  S!Next
  <2>1. okIds[r] \in (SUBSET stored) \ {{}}
    BY <1>3 DEF KnownIds, PromoteClear
  <2> QED
    BY <1>3, <2>1 DEF PromoteClear, S!Next, S!NewCall, S!Procs
<1>4. ASSUME NEW r \in Reviewers, RejectClear(r)
      PROVE  S!Next
  <2>1. noIds[r] \in (SUBSET stored) \ {{}}
    BY <1>4 DEF KnownIds, RejectClear
  <2> QED
    BY <1>4, <2>1 DEF RejectClear, S!Next, S!NewCall, S!Procs
<1>5. ASSUME NEW p \in Users, Killed(p)
      PROVE  [S!Next]_stagingVars
  <2>1. CASE p \in Reviewers /\ S!Crash(p)
    BY <2>1 DEF S!Next, S!Procs
  <2> QED
    BY <1>5, <2>1 DEF Killed
<1>6. ASSUME NEW r \in Reviewers, ReviewStep(r), ~PromoteClear(r), ~RejectClear(r)
      PROVE  UNCHANGED stagingVars
  BY <1>6 DEF ReviewStep, PendingList, PendingShow, Match, PromoteWrite, DropReturns
<1>7. ASSUME NEW c \in Contesters, ContestStep(c)
      PROVE  UNCHANGED stagingVars
  BY <1>7 DEF ContestStep, ContestMatch, ContestWrite
<1>8. ASSUME NEW p \in Users, CompileStep(p) \/ WriteFails(p)
      PROVE  UNCHANGED stagingVars
  BY <1>8 DEF CompileStep, CompileRead, CompileSplice, WriteFails
<1> QED
  BY <1>1, <1>2, <1>3, <1>4, <1>5, <1>6, <1>7, <1>8 DEF Next

\* A staging step does not start a review's call, change what it drops, or
\* remove anything but what a review's call in progress drops.
LEMMA StagingEffect ==
  ASSUME P!RefInv, NEW p \in Importers \cup Reviewers, Staging(p)
  PROVE  /\ \A r \in Reviewers : S!Busy(r)' => S!Busy(r) /\ arg'[r] = arg[r]
         /\ stored \subseteq stored'
         /\ torn => torn'
         /\ \A m \in removed' :
              m \in removed \/ \E r \in Reviewers : S!Busy(r) /\ m \in arg[r]
<1> DEFINE Effect ==
      /\ \A r \in Reviewers : S!Busy(r)' => S!Busy(r) /\ arg'[r] = arg[r]
      /\ stored \subseteq stored'
      /\ torn => torn'
      /\ \A m \in removed' :
           m \in removed \/ \E r \in Reviewers : S!Busy(r) /\ m \in arg[r]
<1> SUFFICES Effect
  OBVIOUS
<1>t. /\ pc \in [Importers \cup Reviewers -> P!Labels]
      /\ arg \in [Importers \cup Reviewers -> SUBSET Memories]
      /\ \A q \in Reviewers : pc[q] \notin P!StageLabels
      /\ \A q \in Importers : pc[q] \notin P!DropLabels
  BY DEF P!RefInv, P!TypeInv, P!TypeOK, P!Procs
<1> USE DEF S!Busy, S!StageLabels, S!DropLabels, P!StageLabels, P!DropLabels,
            S!Goto, S!sharedVars, S!auxVars
<1>1. ASSUME p \in Importers, NEW files, S!StageFiles(p, files)
      PROVE  Effect
  BY <1>t, <1>1 DEF S!StageFiles
<1>2. ASSUME S!RefExists(p) \/ S!BuildTree(p) \/ S!StageRetry(p) \/ S!StagedFiles(p)
             \/ (\E m \in Memories : S!StagedContent(p, m))
             \/ S!RebuildTree(p) \/ S!DropRefused(p)
      PROVE  Effect
  BY <1>t, <1>2 DEF S!RefExists, S!BuildTree, S!StageRetry, S!Refused,
     S!StagedFiles, S!StagedContent, S!RebuildTree, S!DropRefused
<1>3. ASSUME S!Failure(p) \/ S!Crash(p)
      PROVE  Effect
  BY <1>t, <1>3 DEF S!Failure, S!GitError, S!RefExistsFails, S!StagedFilesFails,
     S!UpdateRefFails, S!Refused, S!Crash
<1>4. ASSUME S!StagePublish(p)
      PROVE  Effect
  BY <1>t, <1>4 DEF S!StagePublish
<1>5. ASSUME S!DropPublish(p)
      PROVE  Effect
  <2>1. p \in Reviewers /\ S!Busy(p)
    BY <1>t, <1>5 DEF S!DropPublish
  <2>2. /\ stored' = stored
        /\ torn => torn'
        /\ removed' = removed \cup arg[p]
    BY <1>5 DEF S!DropPublish
  <2>3. \A r \in Reviewers : S!Busy(r)' => S!Busy(r) /\ arg'[r] = arg[r]
    BY <1>t, <1>5 DEF S!DropPublish
  <2>4. ASSUME NEW m \in removed', m \notin removed
        PROVE  \E r \in Reviewers : S!Busy(r) /\ m \in arg[r]
    <3>1. m \in arg[p]
      BY <2>2, <2>4
    <3> HIDE DEF S!Busy
    <3> QED
      BY <2>1, <3>1
  <2> HIDE DEF S!Busy
  <2>5. \A m \in removed' :
          m \in removed \/ \E r \in Reviewers : S!Busy(r) /\ m \in arg[r]
    BY <2>4
  <2> QED
    BY <2>2, <2>3, <2>5
<1> HIDE DEF Effect
<1> QED
  BY <1>1, <1>2, <1>3, <1>4, <1>5 DEF Staging, S!Step, S!StageStep, S!DropStep

-----------------------------------------------------------------------------
\* Types, and what the reviews know.

LEMMA InitCommands == Init => CommandInv
<1> SUFFICES ASSUME Init PROVE CommandInv
  OBVIOUS
<1>1. P!RefInv
  BY OneStagingRef, P!InitTypes, P!InitContents DEF Init, P!RefInv
<1>2. /\ at \in [Users -> {"idle"}]
      /\ \A r \in Reviewers : ~S!Busy(r)
  BY DEF Init, S!Init, S!Busy, S!StageLabels, S!DropLabels, S!Procs
<1>3. TypeOK
  <2>1. at \in [Users -> Labels]
    BY <1>2 DEF Labels
  <2>2. status \in [Memories -> Statuses]
    BY DEF Init, Statuses
  <2>3. /\ block \subseteq Memories
        /\ rejected \subseteq Memories
        /\ outdated \in BOOLEAN
    BY DEF Init
  <2>5. mishaps \in 0..MaxMishaps
    BY DEF Init
  <2>4. /\ names \in [Users -> SUBSET Memories]
        /\ found \in [Users -> SUBSET Memories]
        /\ okIds \in [Users -> SUBSET Memories]
        /\ noIds \in [Users -> SUBSET Memories]
        /\ target \in [Users -> SUBSET Memories]
        /\ snapshot \in [Users -> SUBSET Memories]
    BY DEF Init
  <2> QED
    BY <1>2, <2>1, <2>2, <2>3, <2>4, <2>5 DEF TypeOK
<1>4. KnownIds
  BY <1>2 DEF Init, KnownIds, Users
<1> QED
  BY <1>1, <1>3, <1>4 DEF CommandInv

LEMMA NextCommandTypes ==
  ASSUME CommandInv, [Next]_vars
  PROVE  TypeOK'
<1>t. TypeOK /\ P!RefInv /\ S!Pending \subseteq Memories /\ stored \subseteq Memories
  BY StagingFacts DEF CommandInv
<1>b. ASSUME UNCHANGED pc
      PROVE  \A r \in Reviewers : S!Busy(r)' = S!Busy(r)
  BY <1>b DEF S!Busy
<1> USE DEF TypeOK, Labels, Ended, Statuses, Users, Move, fileVars, commandVars,
            stagingVars, stagingCalls
<1>1. CASE UNCHANGED vars
  BY <1>t, <1>1, <1>b DEF vars
<1>2. ASSUME NEW p \in Importers \cup Reviewers, Staging(p)
      PROVE  TypeOK'
  BY <1>t, <1>2, StagingEffect DEF Staging
<1>3. ASSUME NEW r \in Reviewers, PendingList(r)
      PROVE  TypeOK'
  BY <1>t, <1>3, <1>b DEF PendingList, Mishap
<1>4. ASSUME NEW r \in Reviewers, NEW m \in Memories, PendingShow(r, m)
      PROVE  TypeOK'
  BY <1>t, <1>4, <1>b DEF PendingShow, Mishap
<1>5. ASSUME NEW r \in Reviewers, Match(r)
      PROVE  TypeOK'
  BY <1>t, <1>5, <1>b DEF Match
<1>6. ASSUME NEW r \in Reviewers, NEW m \in Memories, PromoteWrite(r, m)
      PROVE  TypeOK'
  BY <1>t, <1>6, <1>b DEF PromoteWrite
<1>7. ASSUME NEW r \in Reviewers, PromoteClear(r) \/ RejectClear(r)
      PROVE  TypeOK'
  <2>1. \A q \in Reviewers : q # r /\ S!Busy(q)' => S!Busy(q)
    BY <1>t, <1>7 DEF PromoteClear, RejectClear, S!DropStaged, S!Goto, S!Busy,
       P!RefInv, P!TypeInv, P!TypeOK, P!Procs
  <2> QED
    BY <1>t, <1>7, <2>1 DEF PromoteClear, RejectClear
<1>8. ASSUME NEW r \in Reviewers, DropReturns(r)
      PROVE  TypeOK'
  BY <1>t, <1>8, <1>b DEF DropReturns, S!Busy, S!StageLabels, S!DropLabels
<1>9. ASSUME NEW c \in Contesters, NEW m \in Memories, ContestMatch(c, m)
      PROVE  TypeOK'
  BY <1>t, <1>9, <1>b DEF ContestMatch
<1>10. ASSUME NEW c \in Contesters, ContestWrite(c)
       PROVE  TypeOK'
  BY <1>t, <1>10, <1>b DEF ContestWrite
<1>11. ASSUME NEW p \in Users, CompileRead(p) \/ CompileSplice(p)
       PROVE  TypeOK'
  <2>1. outdated' \in BOOLEAN
    BY <1>t, <1>11 DEF CompileRead, CompileSplice
  <2> QED
    BY <1>t, <1>11, <1>b, <2>1 DEF CompileRead, CompileSplice, Active
<1>12. ASSUME NEW p \in Users, WriteFails(p)
       PROVE  TypeOK'
  BY <1>t, <1>12, <1>b DEF WriteFails, Mishap
<1>13. ASSUME NEW p \in Users, Killed(p)
       PROVE  TypeOK'
  <2>1. \A q \in Reviewers : S!Busy(q)' => S!Busy(q) /\ q # p
    BY <1>t, <1>13 DEF Killed, S!Crash, S!Goto, S!Busy, S!StageLabels,
       S!DropLabels, P!RefInv, P!TypeInv, P!TypeOK, P!Procs
  <2>2. /\ status' \in [Memories -> Statuses]
        /\ at' \in [Users -> Labels]
    BY <1>t, <1>13 DEF Killed
  <2> QED
    BY <1>t, <1>13, <2>1, <2>2 DEF Killed
<1> QED
  BY <1>1, <1>2, <1>3, <1>4, <1>5, <1>6, <1>7, <1>8, <1>9, <1>10, <1>11, <1>12,
     <1>13
  DEF Next, ReviewStep, ContestStep, CompileStep

LEMMA NextKnownIds ==
  ASSUME CommandInv, [Next]_vars
  PROVE  KnownIds'
<1>t. TypeOK /\ KnownIds /\ P!RefInv /\ S!Pending \subseteq stored
  BY StagingFacts DEF CommandInv
<1> USE DEF TypeOK, KnownIds, Users, Move, fileVars, commandVars, stagingVars,
            stagingHistory
<1>1. CASE UNCHANGED vars
  BY <1>t, <1>1 DEF vars
<1>2. ASSUME NEW p \in Importers \cup Reviewers, Staging(p)
      PROVE  KnownIds'
  BY <1>t, <1>2, StagingEffect DEF Staging
<1>3. ASSUME NEW r \in Reviewers, PendingList(r)
      PROVE  KnownIds'
  BY <1>t, <1>3 DEF PendingList
<1>4. ASSUME NEW r \in Reviewers, NEW m \in Memories, PendingShow(r, m)
      PROVE  KnownIds'
  BY <1>t, <1>4 DEF PendingShow
<1>5. ASSUME NEW r \in Reviewers, Match(r)
      PROVE  KnownIds'
  BY <1>t, <1>5 DEF Match
<1>6. ASSUME NEW r \in Reviewers, NEW m \in Memories, PromoteWrite(r, m)
      PROVE  KnownIds'
  BY <1>t, <1>6 DEF PromoteWrite
<1>7. ASSUME NEW r \in Reviewers, PromoteClear(r) \/ RejectClear(r)
      PROVE  KnownIds'
  BY <1>t, <1>7 DEF PromoteClear, RejectClear, S!DropStaged
<1>8. ASSUME NEW r \in Reviewers, DropReturns(r)
      PROVE  KnownIds'
  BY <1>t, <1>8 DEF DropReturns
<1>9. ASSUME NEW c \in Contesters, ContestStep(c)
      PROVE  KnownIds'
  BY <1>t, <1>9 DEF ContestStep, ContestMatch, ContestWrite
<1>10. ASSUME NEW p \in Users, CompileStep(p) \/ WriteFails(p)
       PROVE  KnownIds'
  BY <1>t, <1>10 DEF CompileStep, CompileRead, CompileSplice, WriteFails
<1>11. ASSUME NEW p \in Users, Killed(p)
       PROVE  KnownIds'
  <2>1. stored' = stored
    BY <1>11 DEF Killed, S!Crash, S!auxVars
  <2> QED
    BY <1>t, <1>11, <2>1 DEF Killed
<1> QED
  BY <1>1, <1>2, <1>3, <1>4, <1>5, <1>6, <1>7, <1>8, <1>9, <1>10, <1>11
  DEF Next, ReviewStep

LEMMA NextCommands == CommandInv /\ [Next]_vars => CommandInv'
<1> SUFFICES ASSUME CommandInv, [Next]_vars PROVE CommandInv'
  OBVIOUS
<1>1. [P!Next]_(P!vars)
  <2>1. [S!Next]_stagingVars
    BY CommandsUseTheRef DEF CommandInv
  <2> QED
    BY <2>1, OneStagingRef DEF stagingVars, stagingCalls, stagingHistory, P!vars,
       P!sharedVars, P!localVars, P!auxVars
<1>2. P!RefInv'
  BY <1>1, P!NextTypes, P!NextContents DEF CommandInv, P!RefInv
<1> QED
  BY <1>2, NextCommandTypes, NextKnownIds DEF CommandInv

LEMMA CommandInvariant == SafetySpec => []CommandInv
  BY InitCommands, NextCommands, PTL DEF SafetySpec

\* The variables of the commands keep their types.
THEOREM CommandTyping == SafetySpec => []TypeOK
<1>1. CommandInv => TypeOK
  BY DEF CommandInv
<1> QED
  BY <1>1, CommandInvariant, PTL

-----------------------------------------------------------------------------
\* Only approved memories are served.

ApprovedInv ==
  /\ OnlyApprovedServed
  /\ \A p \in Users : snapshot[p] \cup target[p] \subseteq Approved
  /\ \A r \in Reviewers : at[r] \in {"idle", "show"} => okIds[r] = {}
  /\ \A c \in Contesters : okIds[c] = {}

LEMMA InitApproved == Init => ApprovedInv
BY DEF Init, ApprovedInv, OnlyApprovedServed, Users

\* No step takes an approval back.
LEMMA ApprovalsStand ==
  ASSUME TypeOK, ApprovedInv, [Next]_vars
  PROVE  /\ \A r \in Reviewers : okIds[r] \subseteq okIds'[r]
         /\ Approved \subseteq Approved'
<1>1. ASSUME NEW r \in Reviewers, Match(r)
      PROVE  \A q \in Reviewers : okIds[q] \subseteq okIds'[q]
  BY <1>1 DEF Match, ApprovedInv, TypeOK, Users
<1>2. ASSUME ~\E r \in Reviewers : Match(r)
      PROVE  okIds' = okIds
  BY <1>2 DEF Next, vars, commandVars, Staging, ReviewStep, PendingList,
     PendingShow, PromoteWrite, PromoteClear, RejectClear, DropReturns,
     ContestStep, ContestMatch, ContestWrite, CompileStep, CompileRead,
     CompileSplice, WriteFails, Killed
<1>3. \A r \in Reviewers : okIds[r] \subseteq okIds'[r]
  BY <1>1, <1>2
<1> QED
  BY <1>3 DEF Approved

LEMMA NextApproved ==
  ASSUME TypeOK, ApprovedInv, [Next]_vars
  PROVE  ApprovedInv'
<1>t. /\ TypeOK /\ ApprovedInv /\ OnlyApprovedServed
      /\ Approved \subseteq Approved'
      /\ Active \subseteq Approved
  BY ApprovalsStand DEF ApprovedInv, OnlyApprovedServed, Active
<1> USE DEF TypeOK, ApprovedInv, OnlyApprovedServed, Users, Move, fileVars,
            commandVars
<1>1. CASE UNCHANGED vars
  BY <1>t, <1>1 DEF vars
<1>2. ASSUME NEW p \in Importers \cup Reviewers, Staging(p)
      PROVE  ApprovedInv'
  BY <1>t, <1>2 DEF Staging
<1>3. ASSUME NEW r \in Reviewers, PendingList(r)
      PROVE  ApprovedInv'
  BY <1>t, <1>3 DEF PendingList
<1>4. ASSUME NEW r \in Reviewers, NEW m \in Memories, PendingShow(r, m)
      PROVE  ApprovedInv'
  BY <1>t, <1>4 DEF PendingShow
<1>5. ASSUME NEW r \in Reviewers, Match(r)
      PROVE  ApprovedInv'
  BY <1>t, <1>5 DEF Match
<1>6. ASSUME NEW r \in Reviewers, NEW m \in Memories, PromoteWrite(r, m)
      PROVE  ApprovedInv'
  <2>1. m \in Approved
    BY <1>6 DEF PromoteWrite, Approved
  <2> QED
    BY <1>t, <1>6, <2>1 DEF PromoteWrite
<1>7. ASSUME NEW r \in Reviewers, PromoteClear(r) \/ RejectClear(r) \/ DropReturns(r)
      PROVE  ApprovedInv'
  BY <1>t, <1>7 DEF PromoteClear, RejectClear, DropReturns
<1>8. ASSUME NEW c \in Contesters, NEW m \in Memories, ContestMatch(c, m)
      PROVE  ApprovedInv'
  BY <1>t, <1>8 DEF ContestMatch
<1>9. ASSUME NEW c \in Contesters, ContestWrite(c)
      PROVE  ApprovedInv'
  BY <1>t, <1>9 DEF ContestWrite
<1>10. ASSUME NEW p \in Users, CompileRead(p) \/ CompileSplice(p) \/ WriteFails(p)
       PROVE  ApprovedInv'
  BY <1>t, <1>10 DEF CompileRead, CompileSplice, WriteFails
<1>11. ASSUME NEW p \in Users, Killed(p)
       PROVE  ApprovedInv'
  <2>1. ASSUME NEW m \in Memories, status'[m] # "absent"
        PROVE  m \in Approved
    <3>1. CASE status'[m] = status[m]
      BY <1>t, <2>1, <3>1
    <3>2. CASE status'[m] # status[m]
      <4>1. m \in target[p] \/ (p \in Reviewers /\ m \in okIds[p])
        BY <1>t, <1>11, <3>2 DEF Killed
      <4> QED
        BY <1>t, <4>1 DEF Approved
    <3> QED
      BY <3>1, <3>2
  <2> QED
    BY <1>t, <1>11, <2>1 DEF Killed
<1> QED
  BY <1>1, <1>2, <1>3, <1>4, <1>5, <1>6, <1>7, <1>8, <1>9, <1>10, <1>11
  DEF Next, ReviewStep, ContestStep, CompileStep

\* A memory has a file, and reaches the agents, only if a review approved it.
THEOREM ServedWasApproved == SafetySpec => []OnlyApprovedServed
<1>1. ApprovedInv => OnlyApprovedServed
  BY DEF ApprovedInv
<1>2. CommandInv => TypeOK
  BY DEF CommandInv
<1> QED
  BY <1>1, <1>2, InitApproved, NextApproved, CommandInvariant, PTL DEF SafetySpec

-----------------------------------------------------------------------------
\* The block follows the files.

\* Labels from which a command goes on to compile, or has failed before it could.
Owing == {"reshow", "clearing", "reject", "rejecting", "compile", "splice",
          "failed", "killed"}

\* A block that differs from the active files is owed by some command.
BlockOwed == ~outdated /\ block # Active => \E p \in Users : at[p] \in Owing

LEMMA InitBlock == Init => BlockOwed
BY DEF Init, BlockOwed, Active

LEMMA NextBlock ==
  ASSUME TypeOK, BlockOwed, [Next]_vars
  PROVE  BlockOwed'
<1>t. at \in [Users -> Labels] /\ outdated \in BOOLEAN
  BY DEF TypeOK
<1> USE DEF BlockOwed, Owing, Users, Move, fileVars, commandVars
<1>1. CASE UNCHANGED vars
  BY <1>t, <1>1 DEF vars, Active
<1>2. ASSUME NEW p \in Importers \cup Reviewers, Staging(p)
      PROVE  BlockOwed'
  BY <1>t, <1>2 DEF Staging, Active
<1>3. ASSUME NEW r \in Reviewers,
             PendingList(r) \/ \E m \in Memories : PendingShow(r, m)
      PROVE  BlockOwed'
  BY <1>t, <1>3 DEF PendingList, PendingShow, Active
<1>4. ASSUME NEW r \in Reviewers, Match(r)
      PROVE  BlockOwed'
  BY <1>t, <1>4 DEF Match, Active
<1>5. ASSUME NEW r \in Reviewers, NEW m \in Memories, PromoteWrite(r, m)
      PROVE  BlockOwed'
  BY <1>t, <1>5 DEF PromoteWrite
<1>6. ASSUME NEW r \in Reviewers, PromoteClear(r) \/ RejectClear(r) \/ DropReturns(r)
      PROVE  BlockOwed'
  BY <1>t, <1>6 DEF PromoteClear, RejectClear, DropReturns, Active
<1>7. ASSUME NEW c \in Contesters, NEW m \in Memories, ContestMatch(c, m)
      PROVE  BlockOwed'
  BY <1>t, <1>7 DEF ContestMatch, Active
<1>8. ASSUME NEW c \in Contesters, ContestWrite(c)
      PROVE  BlockOwed'
  <2>1. at'[c] \in {"compile", "failed"}
    BY <1>t, <1>8 DEF ContestWrite
  <2> QED
    BY <2>1
<1>9. ASSUME NEW p \in Users, CompileRead(p) \/ WriteFails(p)
      PROVE  BlockOwed'
  BY <1>t, <1>9 DEF CompileRead, WriteFails, Active
<1>10. ASSUME NEW p \in Users, CompileSplice(p)
       PROVE  BlockOwed'
  <2>1. Active' = Active
    BY <1>10 DEF CompileSplice, Active
  <2>2. ~outdated' => block' = Active
    BY <1>t, <1>10 DEF CompileSplice
  <2> QED
    BY <2>1, <2>2
<1>11. ASSUME NEW p \in Users, Killed(p)
       PROVE  BlockOwed'
  <2>1. at'[p] = "killed"
    BY <1>t, <1>11 DEF Killed
  <2> QED
    BY <2>1
<1> QED
  BY <1>1, <1>2, <1>3, <1>4, <1>5, <1>6, <1>7, <1>8, <1>9, <1>10, <1>11
  DEF Next, ReviewStep, ContestStep, CompileStep

\* When the commands have run to their end, the agents read the active memories,
\* unless some compile rendered files that changed before it wrote the block.
THEOREM BlockFollowsFiles == SafetySpec => []BlockIsActive
<1>1. BlockOwed => BlockIsActive
  BY DEF BlockOwed, BlockIsActive, Owing
<1>2. CommandInv => TypeOK
  BY DEF CommandInv
<1> QED
  BY <1>1, <1>2, InitBlock, NextBlock, CommandInvariant, PTL DEF SafetySpec

-----------------------------------------------------------------------------
\* Memories leave the ref by a decision.

Decided(m) == status[m] # "absent" \/ m \in rejected

\* While no drop is torn: what was removed was decided; what a promoting review
\* approves is still to be read, read and still to be written, or decided; what a
\* review's call drops was decided.
DecisionInv ==
  ~torn =>
    /\ \A m \in removed : Decided(m)
    /\ \A r \in Reviewers :
         /\ at[r] = "reshow" =>
              \A m \in okIds[r] : m \in names[r] \cup found[r] \/ Decided(m)
         /\ S!Busy(r) => \A m \in arg[r] : Decided(m)
         /\ noIds[r] \subseteq rejected

LEMMA InitDecision == Init => DecisionInv
BY DEF Init, S!Init, DecisionInv, S!Busy, S!StageLabels, S!DropLabels, S!Procs, Users

\* No decision is taken back.
LEMMA DecisionsStand ==
  ASSUME TypeOK, [Next]_vars, NEW m \in Memories, Decided(m)
  PROVE  Decided(m)'
<1>1. rejected \subseteq rejected'
  BY DEF Next, vars, Staging, ReviewStep, PendingList, PendingShow, Match,
     PromoteWrite, PromoteClear, RejectClear, DropReturns, ContestStep,
     ContestMatch, ContestWrite, CompileStep, CompileRead, CompileSplice,
     WriteFails, Killed
<1>2. status[m] # "absent" => status'[m] # "absent"
  BY DEF TypeOK, Next, vars, fileVars, Staging, ReviewStep, PendingList,
     PendingShow, Match, PromoteWrite, PromoteClear, RejectClear, DropReturns,
     ContestStep, ContestMatch, ContestWrite, CompileStep, CompileRead,
     CompileSplice, WriteFails, Killed
<1> QED
  BY <1>1, <1>2 DEF Decided

\* Every step preserves the decisions, as long as no git read of `pending` fails.
LEMMA NextDecision ==
  ASSUME mishaps' = 0, CommandInv, DecisionInv, [Next]_vars
  PROVE  DecisionInv'
<1> SUFFICES ASSUME ~torn'
             PROVE  /\ \A m \in removed' : Decided(m)'
                    /\ \A r \in Reviewers :
                         /\ at'[r] = "reshow" =>
                              \A m \in okIds'[r] :
                                m \in names'[r] \cup found'[r] \/ Decided(m)'
                         /\ S!Busy(r)' => \A m \in arg'[r] : Decided(m)'
                         /\ noIds'[r] \subseteq rejected'
  BY DEF DecisionInv
<1>t. /\ TypeOK /\ KnownIds /\ P!RefInv
      /\ removed \subseteq Memories
      /\ \A r \in Reviewers :
           okIds[r] \subseteq Memories /\ noIds[r] \subseteq Memories
  <2>1. removed \subseteq Memories
    BY StagingFacts DEF CommandInv
  <2> QED
    BY <2>1 DEF CommandInv, TypeOK, Users
<1>m. ~Mishap
  BY LimitsAssumption DEF Mishap, CommandInv, TypeOK
<1>a. \A r \in Reviewers : S!Busy(r) => arg[r] \subseteq Memories
  BY <1>t DEF P!RefInv, P!TypeInv, P!TypeOK, P!Procs
<1>d. \A m \in Memories : Decided(m) => Decided(m)'
  BY <1>t, DecisionsStand
<1>p. ASSUME ~torn
      PROVE  /\ S!Pending = stored \ removed
             /\ \A m \in removed : Decided(m)
             /\ \A r \in Reviewers :
                  /\ at[r] = "reshow" =>
                       \A m \in okIds[r] : m \in names[r] \cup found[r] \/ Decided(m)
                  /\ S!Busy(r) => \A m \in arg[r] : Decided(m)
                  /\ noIds[r] \subseteq rejected
  BY <1>p, StagingFacts DEF CommandInv, DecisionInv
<1>b. ASSUME UNCHANGED <<stagingVars, okIds, noIds>>, rejected \subseteq rejected'
      PROVE  /\ ~torn
             /\ \A m \in removed' : Decided(m)'
             /\ \A r \in Reviewers :
                  /\ S!Busy(r)' => \A m \in arg'[r] : Decided(m)'
                  /\ noIds'[r] \subseteq rejected'
  <2>1. ~torn /\ removed' = removed /\ arg' = arg /\ pc' = pc
    BY <1>b DEF stagingVars, stagingCalls, stagingHistory
  <2>2. \A r \in Reviewers : S!Busy(r)' = S!Busy(r)
    BY <2>1 DEF S!Busy
  <2> QED
    BY <1>t, <1>a, <1>b, <1>d, <1>p, <2>1, <2>2
<1> HIDE DEF Decided
<1>1. CASE UNCHANGED vars
  <2>1. /\ UNCHANGED <<stagingVars, okIds, noIds>> /\ rejected \subseteq rejected'
        /\ at' = at /\ names' = names /\ found' = found
    BY <1>1 DEF vars, commandVars
  <2> QED
    BY <1>t, <1>b, <1>d, <1>p, <2>1
<1>2. ASSUME NEW p \in Importers \cup Reviewers, Staging(p)
      PROVE  DecisionInv'
  <2>1. /\ rejected' = rejected /\ at' = at /\ names' = names /\ found' = found
        /\ okIds' = okIds /\ noIds' = noIds
    BY <1>2 DEF Staging, commandVars
  <2>2. ~torn /\ \A r \in Reviewers : S!Busy(r)' => S!Busy(r) /\ arg'[r] = arg[r]
    BY <1>2, <1>t, StagingEffect
  <2>3. \A m \in removed' :
          m \in removed \/ \E r \in Reviewers : S!Busy(r) /\ m \in arg[r]
    BY <1>2, <1>t, StagingEffect
  <2>4. \A m \in removed' : Decided(m)'
    BY <1>t, <1>a, <1>d, <1>p, <2>2, <2>3
  <2>5. \A r \in Reviewers : S!Busy(r)' => \A m \in arg'[r] : Decided(m)'
    BY <1>a, <1>d, <1>p, <2>2
  <2> QED
    BY <1>t, <1>d, <1>p, <2>1, <2>2, <2>4, <2>5 DEF DecisionInv
<1>3. ASSUME NEW r \in Reviewers, PendingList(r)
      PROVE  DecisionInv'
  <2>1. /\ UNCHANGED <<stagingVars, okIds, noIds>> /\ rejected' = rejected
        /\ names' = [names EXCEPT ![r] = S!Pending]
        /\ \A q \in Reviewers : q # r =>
             at'[q] = at[q] /\ found'[q] = found[q]
    BY <1>3, <1>m, <1>t DEF PendingList, fileVars, Move, TypeOK, Users
  <2>2. \A m \in okIds[r] : m \in names'[r] \/ Decided(m)
    BY <1>b, <1>p, <1>t, <2>1 DEF TypeOK, Users, KnownIds
  <2> QED
    BY <1>b, <1>d, <1>p, <1>t, <2>1, <2>2 DEF DecisionInv, TypeOK, Users
<1>4. ASSUME NEW r \in Reviewers, NEW n \in Memories, PendingShow(r, n)
      PROVE  DecisionInv'
  <2>1. /\ UNCHANGED <<stagingVars, okIds, noIds>> /\ rejected' = rejected
        /\ at' = at
        /\ names' = [names EXCEPT ![r] = @ \ {n}]
        /\ \/ n \in S!Pending /\ found' = [found EXCEPT ![r] = @ \cup {n}]
           \/ n \notin S!Pending /\ found' = found
    BY <1>4, <1>m DEF PendingShow, fileVars
  <2>2. n \in okIds[r] => n \in found'[r] \/ Decided(n)
    BY <1>b, <1>p, <1>t, <2>1 DEF TypeOK, Users, KnownIds
  <2> QED
    BY <1>b, <1>d, <1>p, <1>t, <2>1, <2>2 DEF DecisionInv, TypeOK, Users
<1>5. ASSUME NEW r \in Reviewers, Match(r)
      PROVE  DecisionInv'
  <2>1. /\ UNCHANGED stagingVars /\ rejected \subseteq rejected'
        /\ names' = names /\ found' = found /\ at'[r] # "reshow"
        /\ \A q \in Reviewers : q # r => at'[q] = at[q] /\ okIds'[q] = okIds[q]
        /\ \A q \in Reviewers : noIds'[q] \subseteq noIds[q] \cup rejected'
    BY <1>5, <1>t DEF Match, fileVars, Move, TypeOK, Users
  <2>2. ~torn /\ removed' = removed /\ arg' = arg /\ pc' = pc
    BY <2>1 DEF stagingVars, stagingCalls, stagingHistory
  <2>3. \A q \in Reviewers : S!Busy(q)' = S!Busy(q)
    BY <2>2 DEF S!Busy
  <2> QED
    BY <1>a, <1>d, <1>p, <1>t, <2>1, <2>2, <2>3 DEF DecisionInv
<1>6. ASSUME NEW r \in Reviewers, NEW n \in Memories, PromoteWrite(r, n)
      PROVE  DecisionInv'
  <2>1. /\ UNCHANGED <<stagingVars, okIds, noIds>> /\ rejected' = rejected
        /\ at' = at /\ names' = names
        /\ found' = [found EXCEPT ![r] = @ \ {n}]
        /\ status'[n] = "active"
    BY <1>6, <1>t DEF PromoteWrite, TypeOK
  <2>2. Decided(n)'
    BY <2>1 DEF Decided
  <2> QED
    BY <1>b, <1>d, <1>p, <1>t, <2>1, <2>2 DEF DecisionInv, TypeOK, Users
<1>7. ASSUME NEW r \in Reviewers, PromoteClear(r) \/ RejectClear(r)
      PROVE  DecisionInv'
  <2>1. /\ UNCHANGED <<okIds, noIds, names, found>> /\ rejected' = rejected
        /\ at'[r] # "reshow"
        /\ \A q \in Reviewers : q # r => at'[q] = at[q]
    BY <1>7, <1>t DEF PromoteClear, RejectClear, fileVars, Move, TypeOK, Users
  <2>2. /\ torn' = torn /\ removed' = removed
        /\ \A q \in Reviewers : q # r => arg'[q] = arg[q] /\ S!Busy(q)' = S!Busy(q)
    BY <1>7, <1>t DEF PromoteClear, RejectClear, S!DropStaged, S!Goto, S!Busy,
       P!RefInv, P!TypeInv, P!TypeOK, P!Procs
  <2>3. \A m \in arg'[r] : Decided(m) /\ m \in Memories
    <3>1. CASE PromoteClear(r)
      <4>1. /\ arg'[r] = okIds[r] /\ at[r] = "reshow" /\ names[r] = {}
            /\ okIds[r] \cap found[r] = {}
        BY <1>t, <3>1 DEF PromoteClear, S!DropStaged, P!RefInv, P!TypeInv,
           P!TypeOK, P!Procs
      <4> QED
        BY <1>p, <1>t, <2>2, <4>1
    <3>2. CASE RejectClear(r)
      <4>1. arg'[r] = noIds[r]
        BY <1>t, <3>2 DEF RejectClear, S!DropStaged, P!RefInv, P!TypeInv,
           P!TypeOK, P!Procs
      <4> QED
        BY <1>p, <1>t, <2>2, <4>1 DEF Decided
    <3> QED
      BY <1>7, <3>1, <3>2
  <2> QED
    BY <1>a, <1>d, <1>p, <1>t, <2>1, <2>2, <2>3 DEF DecisionInv
<1>8. ASSUME NEW r \in Reviewers, DropReturns(r)
      PROVE  DecisionInv'
  <2>1. /\ UNCHANGED <<stagingVars, okIds, noIds, names, found>>
        /\ rejected' = rejected /\ at'[r] # "reshow"
        /\ \A q \in Reviewers : q # r => at'[q] = at[q]
    BY <1>8, <1>t DEF DropReturns, Move, TypeOK, Users
  <2> QED
    BY <1>b, <1>d, <1>p, <1>t, <2>1 DEF DecisionInv
<1>9. ASSUME NEW p \in Users,
             ContestStep(p) \/ CompileStep(p) \/ WriteFails(p)
      PROVE  DecisionInv'
  <2>1. /\ UNCHANGED <<stagingVars, okIds, noIds, names, found>>
        /\ rejected' = rejected /\ at'[p] # "reshow"
        /\ \A q \in Reviewers : q # p => at'[q] = at[q]
    BY <1>9, <1>t DEF ContestStep, ContestMatch, ContestWrite, CompileStep,
       CompileRead, CompileSplice, WriteFails, Move, TypeOK, Users
  <2> QED
    BY <1>b, <1>d, <1>p, <1>t, <2>1 DEF DecisionInv
<1>10. ASSUME NEW p \in Users, Killed(p)
       PROVE  DecisionInv'
  <2>1. /\ UNCHANGED <<okIds, noIds, names, found>>
        /\ rejected' = rejected /\ at'[p] # "reshow"
        /\ \A q \in Reviewers : q # p => at'[q] = at[q]
    BY <1>10, <1>t DEF Killed, Move, TypeOK, Users
  <2>2. /\ torn' = torn /\ removed' = removed /\ arg' = arg
        /\ \A q \in Reviewers : S!Busy(q)' => S!Busy(q)
    BY <1>10, <1>t DEF Killed, stagingVars, stagingCalls, stagingHistory, S!Crash,
       S!Goto, S!Busy, S!StageLabels, S!DropLabels, S!auxVars, P!RefInv, P!TypeInv,
       P!TypeOK, P!Procs
  <2> QED
    BY <1>a, <1>d, <1>p, <1>t, <2>1, <2>2 DEF DecisionInv
<1> QED
  BY <1>1, <1>2, <1>3, <1>4, <1>5, <1>6, <1>7, <1>8, <1>9, <1>10
  DEF Next, ReviewStep, Users, DecisionInv

\* A failure is never forgotten.
LEMMA MishapsStand ==
  ASSUME TypeOK, [Next]_vars, mishaps' = 0
  PROVE  mishaps = 0
<1>1. mishaps \in Nat
  BY LimitsAssumption DEF TypeOK
<1>2. mishaps' = mishaps \/ mishaps' = mishaps + 1
  BY DEF Next, vars, commandVars, Staging, ReviewStep, PendingList, PendingShow, Match,
     PromoteWrite, PromoteClear, RejectClear, DropReturns, ContestStep, ContestMatch,
     ContestWrite, CompileStep, CompileRead, CompileSplice, WriteFails, Killed, Mishap
<1> QED
  BY <1>1, <1>2

\* As long as no git read of `pending` fails, a staged memory leaves the ref only by a
\* decision: it is pending, or has a file, or was rejected, while no drop is torn.
THEOREM LeavesOnlyDecided == SafetySpec => []DecidedUnlessMishap
<1> DEFINE Inv == mishaps = 0 => DecisionInv
<1>1. CommandInv /\ Inv /\ [Next]_vars => Inv'
  <2> SUFFICES ASSUME CommandInv, Inv, [Next]_vars, mishaps' = 0 PROVE DecisionInv'
    OBVIOUS
  <2>1. mishaps = 0
    BY MishapsStand DEF CommandInv
  <2> QED
    BY <2>1, NextDecision
<1>2. CommandInv /\ DecisionInv => NothingLeavesUndecided
  BY StagingFacts DEF CommandInv, DecisionInv, Decided, NothingLeavesUndecided
<1>3. CommandInv /\ Inv => DecidedUnlessMishap
  BY <1>2 DEF DecidedUnlessMishap
<1>4. Init => Inv
  BY InitDecision
<1> QED
  BY <1>1, <1>3, <1>4, CommandInvariant, PTL DEF SafetySpec
=============================================================================
