----------------------------- MODULE UpdateCheck -----------------------------
(***************************************************************************)
(* The update check (src/update.rs): `session-start` reads the machine's   *)
(* cache, and when it is stale claims the window and spawns a detached     *)
(* child, which asks the remote for its newest tag and records the answer  *)
(* for a later session.  `jedimem update` makes the same check in the      *)
(* foreground.  All of them share one file that fs::write truncates first. *)
(*                                                                         *)
(* Only differences of time matter, so a timestamp is kept as its age,     *)
(* which stops growing once it is stale: no bound on time is needed.       *)
(***************************************************************************)
EXTENDS Naturals

CONSTANTS Sessions,    \* `session-start` processes; each slot is used again and again
          Checkers,    \* slots for processes in check_now: children and `update`
          TTL,         \* TTL_SECS and the machine's jitter, in ticks
          Binary,      \* the version of the installed binary
          MaxRelease,  \* bound: the last version the remote releases
          MaxFaults    \* bound: failed fetches, spawns and writes of the cache, and kills

ASSUME SlotsAssumption == Sessions \cap Checkers = {}
ASSUME WorldAssumption ==
  /\ TTL \in Nat /\ MaxFaults \in Nat
  /\ Binary \in Nat \ {0} /\ MaxRelease \in Nat /\ Binary <= MaxRelease

Procs == Sessions \cup Checkers

VARIABLES
  cache,    \* what read_cache would return now
  newest,   \* the newest release tag of the remote
  at,       \* where each process is
  record,   \* the `Cached` a process is about to write
  faults    \* failures and kills so far

\* History, read by the properties only.
VARIABLES
  claimAge, \* time since the last session claimed a window
  twice,    \* a window was claimed before the last one had passed
  crossed   \* unfinished work on the cache was met or left behind (see below)

vars == <<cache, newest, at, record, faults, claimAge, twice, crossed>>

-----------------------------------------------------------------------------
Stale == TTL + 1
Older(age) == IF age = Stale THEN Stale ELSE age + 1

\* No release: the empty string of `latest`.
NoRelease == 0
Records == [age : 0..Stale, latest : 0..MaxRelease, error : BOOLEAN]

\* A missing or truncated file reads as the default: checked in 1970.
Blank == [age |-> Stale, latest |-> NoRelease, error |-> FALSE]

IsStale(c) == c.age = Stale

Goto(p, label) == at' = [at EXCEPT ![p] = label]
Holds(p, c) == record' = [record EXCEPT ![p] = c]
Fault == faults < MaxFaults /\ faults' = faults + 1

AtRest(p) == at[p] \in {"idle", "off"}

\* Sessions between the decision to check and the end of their claim.
Claiming(s) == at[s] \in {"claim", "truncate", "fill"}

\* What a session that starts may meet: another one claiming, or a cache that is
\* being written.
Unsettled(s) ==
  (\E o \in Sessions \ {s} : Claiming(o)) \/ (\E p \in Procs : at[p] = "fill")

-----------------------------------------------------------------------------
\* session-start

\* Mutant: errors are taken for an answer that lasts.
MutReadTrustsErrors(s) ==
  /\ at[s] = "idle"
  /\ IF IsStale(cache) /\ ~cache.error
       THEN Goto(s, "claim")
       ELSE UNCHANGED at
  /\ crossed' = (crossed \/ Unsettled(s))
  /\ UNCHANGED <<cache, newest, record, faults, claimAge, twice>>

\* A session starts: with a stale cache it goes on to check,
\* with a fresh one it reports what the cache says and is done.
SessionRead(s) ==
  /\ at[s] = "idle"
  /\ IF IsStale(cache)
       THEN Goto(s, "claim")
       ELSE UNCHANGED at
  /\ crossed' = (crossed \/ Unsettled(s))
  /\ UNCHANGED <<cache, newest, record, faults, claimAge, twice>>

\* Mutant: the window is not claimed, only the child writes.
MutClaimLeftToChild(s) ==
  /\ at[s] = "claim"
  /\ Goto(s, "spawn")
  /\ claimAge' = 0
  /\ twice' = (twice \/ claimAge < Stale)
  /\ UNCHANGED <<cache, newest, record, faults, crossed>>

\* spawn_background_check reads the cache again and dates it now.
Claim(s) ==
  /\ at[s] = "claim"
  /\ Goto(s, "truncate")
  /\ Holds(s, [cache EXCEPT !.age = 0])
  /\ claimAge' = 0
  /\ twice' = (twice \/ claimAge < Stale)
  /\ UNCHANGED <<cache, newest, faults, crossed>>

\* The child is spawned, or cannot be, which nobody notices.
Spawn(s) ==
  /\ at[s] = "spawn"
  /\ \/ \E k \in Checkers :
          /\ at[k] = "off"
          /\ at' = [at EXCEPT ![s] = "idle", ![k] = "start"]
          /\ UNCHANGED faults
     \/ Fault /\ Goto(s, "idle")
  /\ UNCHANGED <<cache, newest, record, claimAge, twice, crossed>>

-----------------------------------------------------------------------------
\* check_now, in a child or in `jedimem update`

\* `jedimem update` with --force, or when it finds the cache stale.
UpdateCommand(k) ==
  /\ at[k] = "off"
  /\ Goto(k, "start")
  /\ UNCHANGED <<cache, newest, record, faults, claimAge, twice, crossed>>

CheckStart(k) ==
  /\ at[k] = "start"
  /\ Goto(k, "fetch")
  /\ Holds(k, [Blank EXCEPT !.age = 0])
  /\ UNCHANGED <<cache, newest, faults, claimAge, twice, crossed>>

\* fetch_latest_tag: the newest tag, or an error, which leaves `latest` empty.
Fetch(k) ==
  /\ at[k] = "fetch"
  /\ Goto(k, "truncate")
  /\ \/ Holds(k, [record[k] EXCEPT !.latest = newest]) /\ UNCHANGED faults
     \/ Fault /\ Holds(k, [record[k] EXCEPT !.error = TRUE])
  /\ UNCHANGED <<cache, newest, claimAge, twice, crossed>>

-----------------------------------------------------------------------------
\* write_cache: the file is truncated, then filled.  What fails is not reported:
\* the process goes on as if the record were there.

WriteDone(p) == Goto(p, IF p \in Sessions THEN "spawn" ELSE "off") /\ Holds(p, Blank)

\* The directory or the file may be out of reach, and the cache stays as it is.
Truncate(p) ==
  /\ at[p] = "truncate"
  /\ \/ Goto(p, "fill") /\ cache' = Blank /\ UNCHANGED <<record, faults, crossed>>
     \/ /\ Fault /\ WriteDone(p)
        /\ crossed' = (crossed \/ p \in Sessions)
        /\ UNCHANGED cache
  /\ UNCHANGED <<newest, claimAge, twice>>

\* Mutant: a child goes on to spawn a child, like a session.
MutFillSpawns(p) ==
  /\ at[p] = "fill"
  /\ Goto(p, "spawn") /\ Holds(p, Blank)
  /\ cache' = record[p]
  /\ crossed' = (crossed \/ record[p].age > claimAge)
  /\ UNCHANGED <<newest, faults, claimAge, twice>>

\* A check that was overtaken by a later claim puts an older date back.  The few
\* bytes of a record go in at once, or, on a full disk, not at all.
Fill(p) ==
  /\ at[p] = "fill"
  /\ WriteDone(p)
  /\ \/ /\ cache' = record[p]
        /\ crossed' = (crossed \/ record[p].age > claimAge)
        /\ UNCHANGED faults
     \/ Fault /\ crossed' = TRUE /\ UNCHANGED cache
  /\ UNCHANGED <<newest, claimAge, twice>>

\* The hook's timeout, a logout or a shutdown.
Killed(p) ==
  /\ Fault
  /\ ~AtRest(p)
  /\ Goto(p, IF p \in Sessions THEN "idle" ELSE "off")
  /\ crossed' = (crossed \/ at[p] = "fill" \/ (p \in Sessions /\ at[p] = "truncate"))
  /\ Holds(p, Blank)
  /\ UNCHANGED <<cache, newest, claimAge, twice>>

-----------------------------------------------------------------------------
\* The world.

Tick ==
  /\ cache' = [cache EXCEPT !.age = Older(@)]
  /\ record' = [p \in Procs |-> [record[p] EXCEPT !.age = Older(@)]]
  /\ claimAge' = Older(claimAge)
  /\ UNCHANGED <<newest, at, faults, twice, crossed>>

Release ==
  /\ newest < MaxRelease
  /\ newest' = newest + 1
  /\ UNCHANGED <<cache, at, record, faults, claimAge, twice, crossed>>

Init ==
  /\ cache = Blank
  /\ newest = Binary
  /\ at = [p \in Procs |-> IF p \in Sessions THEN "idle" ELSE "off"]
  /\ record = [p \in Procs |-> Blank]
  /\ faults = 0
  /\ claimAge = Stale
  /\ twice = FALSE /\ crossed = FALSE

SessionStep(s) == Claim(s) \/ Spawn(s)
CheckStep(k) == CheckStart(k) \/ Fetch(k)
WriteStep(p) == Truncate(p) \/ Fill(p)

Next ==
  \/ \E s \in Sessions : SessionRead(s) \/ SessionStep(s)
  \/ \E k \in Checkers : UpdateCommand(k) \/ CheckStep(k)
  \/ \E p \in Procs : WriteStep(p) \/ Killed(p)
  \/ Tick \/ Release

\* Processes run, time passes, and someone goes on starting sessions; nobody has
\* to run `jedimem update`.  No fairness says how often sessions start.
Fairness ==
  /\ \A s \in Sessions :
       WF_vars(SessionRead(s)) /\ WF_vars(Claim(s)) /\ SF_vars(Spawn(s))
  /\ \A k \in Checkers : WF_vars(CheckStep(k))
  /\ \A p \in Procs : WF_vars(WriteStep(p))
  /\ WF_vars(Tick)

SafetySpec == Init /\ [][Next]_vars

Spec == SafetySpec /\ Fairness

-----------------------------------------------------------------------------
\* Properties.

SessionLabels == {"idle", "claim", "truncate", "fill", "spawn"}
CheckerLabels == {"off", "start", "fetch", "truncate", "fill"}

\* Every variable has its type, and each process is at a label of its own.
TypeOK ==
  /\ cache \in Records
  /\ newest \in Binary..MaxRelease
  /\ at \in [Procs -> SessionLabels \cup CheckerLabels]
  /\ \A s \in Sessions : at[s] \in SessionLabels
  /\ \A k \in Checkers : at[k] \in CheckerLabels
  /\ record \in [Procs -> Records]
  /\ faults \in 0..MaxFaults
  /\ claimAge \in 0..Stale
  /\ twice \in BOOLEAN /\ crossed \in BOOLEAN

\* "Claim the TTL window before spawning" (spawn_background_check): a second check
\* in one window takes two sessions that overlap, a read of a half-written cache,
\* a check overtaken by a later claim, or a write that was lost: a claim that was
\* killed or failed, or a check's write that failed or was killed after truncating
\* the cache.  Slow children, failed fetches and checks whose write never began
\* cause none.
OncePerWindow == ~crossed => ~twice

\* A release reaches the cache of a machine on which sessions go on being started,
\* whatever was offline, killed or overtaken before.
ReleaseIsLearned ==
  \A v \in Binary..MaxRelease : newest = v ~> cache.latest = v \/ newest > v
=============================================================================
