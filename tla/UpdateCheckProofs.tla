-------------------------- MODULE UpdateCheckProofs --------------------------
(***************************************************************************)
(* Proofs about UpdateCheck, for any number of sessions and checks, any    *)
(* window and any failures.                                                *)
(***************************************************************************)
EXTENDS UpdateCheck, TLAPS

Settled == \A p \in Procs : at[p] # "fill"

\* Why one claim is enough, as long as nothing crosses.  Only one session is ever
\* between its decision and its claim (Alone), the window it found stale has
\* passed (Decided), what it writes is dated by its claim (Dated), and at any
\* other moment the cache is dated no earlier than the last claim (Guarded), so
\* that a session finds it stale only when that window has passed.
Alone == \A s, o \in Sessions : Claiming(s) /\ Claiming(o) => s = o
Decided == \A s \in Sessions : at[s] = "claim" => claimAge = Stale
Dated == \A s \in Sessions : at[s] \in {"truncate", "fill"} => record[s].age = claimAge
Guarded ==
  Settled /\ (\A s \in Sessions : at[s] # "truncate") => cache.age <= claimAge

ClaimInv == ~crossed => Alone /\ Decided /\ Dated /\ Guarded /\ ~twice

-----------------------------------------------------------------------------
LEMMA OlderType == ASSUME NEW age \in 0..Stale PROVE Older(age) \in 0..Stale
BY WorldAssumption DEF Older, Stale

LEMMA OlderOrder ==
  ASSUME NEW a \in 0..Stale, NEW b \in 0..Stale, a <= b
  PROVE  Older(a) <= Older(b)
BY WorldAssumption DEF Older, Stale

LEMMA Bounds ==
  /\ 0 \in 0..Stale /\ Stale \in 0..Stale /\ NoRelease \in 0..MaxRelease
  /\ Binary \in Binary..MaxRelease /\ 0 \in 0..MaxFaults
  /\ Binary..MaxRelease \subseteq 0..MaxRelease
BY WorldAssumption DEF Stale, NoRelease

LEMMA BlankType == Blank \in Records /\ [Blank EXCEPT !.age = 0] \in Records
<1>1. FALSE \in BOOLEAN
  OBVIOUS
<1> QED
  BY <1>1, Bounds, Zenon DEF Blank, Records

LEMMA EditedType ==
  ASSUME NEW c \in Records, NEW v \in 0..MaxRelease
  PROVE  [c EXCEPT !.latest = v] \in Records /\ [c EXCEPT !.error = TRUE] \in Records
<1>1. TRUE \in BOOLEAN
  OBVIOUS
<1> QED
  BY <1>1, Zenon DEF Records

LEMMA InitType == Init => TypeOK
<1> SUFFICES ASSUME Init PROVE TypeOK
  OBVIOUS
<1>1. cache \in Records /\ record \in [Procs -> Records]
  BY BlankType DEF Init
<1>2. /\ at \in [Procs -> SessionLabels \cup CheckerLabels]
      /\ \A s \in Sessions : at[s] \in SessionLabels
      /\ \A k \in Checkers : at[k] \in CheckerLabels
  BY SlotsAssumption DEF Init, SessionLabels, CheckerLabels, Procs
<1>3. /\ newest \in Binary..MaxRelease /\ faults \in 0..MaxFaults
      /\ claimAge \in 0..Stale
  BY Bounds DEF Init
<1>4. twice \in BOOLEAN /\ crossed \in BOOLEAN
  BY Zenon DEF Init
<1> QED
  BY <1>1, <1>2, <1>3, <1>4 DEF TypeOK

LEMMA NextType == TypeOK /\ [Next]_vars => TypeOK'
<1> SUFFICES ASSUME TypeOK, [Next]_vars PROVE TypeOK'
  OBVIOUS
<1> USE WorldAssumption, SlotsAssumption, BlankType
        DEF TypeOK, SessionLabels, CheckerLabels, Procs, Goto, Holds, Fault
<1>0. 0 \in 0..Stale
  BY DEF Stale
<1>1. ASSUME NEW s \in Sessions, SessionRead(s) PROVE TypeOK'
  BY <1>1 DEF SessionRead
<1>2. ASSUME NEW s \in Sessions, Claim(s) PROVE TypeOK'
  <2>1. [cache EXCEPT !.age = 0] \in Records
    BY <1>0 DEF Records
  <2> QED BY <1>0, <1>2, <2>1 DEF Claim
<1>3. ASSUME NEW s \in Sessions, Spawn(s) PROVE TypeOK'
  BY <1>3 DEF Spawn
<1>4. ASSUME NEW k \in Checkers, UpdateCommand(k) PROVE TypeOK'
  BY <1>4 DEF UpdateCommand
<1>5. ASSUME NEW k \in Checkers, CheckStart(k) PROVE TypeOK'
  BY <1>5 DEF CheckStart
<1>6. ASSUME NEW k \in Checkers, Fetch(k) PROVE TypeOK'
  <2>1. record[k] \in Records /\ newest \in 0..MaxRelease
    BY Bounds
  <2>2. /\ [record[k] EXCEPT !.latest = newest] \in Records
        /\ [record[k] EXCEPT !.error = TRUE] \in Records
    BY <2>1, EditedType
  <2>3. record' \in [Procs -> Records]
    BY <1>6, <2>2 DEF Fetch
  <2>4. at' = [at EXCEPT ![k] = "truncate"] /\ faults' \in 0..MaxFaults
    BY <1>6 DEF Fetch
  <2>5. UNCHANGED <<cache, newest, claimAge, twice, crossed>>
    BY <1>6 DEF Fetch
  <2> QED BY <2>3, <2>4, <2>5
<1>7. ASSUME NEW p \in Procs, Truncate(p) PROVE TypeOK'
  <2>1. /\ cache' \in Records /\ record' \in [Procs -> Records]
        /\ faults' \in 0..MaxFaults
    BY <1>7 DEF Truncate, WriteDone
  <2>2. /\ at' \in [Procs -> SessionLabels \cup CheckerLabels]
        /\ \A s \in Sessions : at'[s] \in SessionLabels
        /\ \A k \in Checkers : at'[k] \in CheckerLabels
    BY <1>7 DEF Truncate, WriteDone
  <2>3. crossed' \in BOOLEAN /\ UNCHANGED <<newest, claimAge, twice>>
    BY <1>7 DEF Truncate
  <2> QED BY <2>1, <2>2, <2>3
<1>8. ASSUME NEW p \in Procs, Fill(p) PROVE TypeOK'
  <2>1. /\ cache' \in Records /\ record' \in [Procs -> Records]
        /\ faults' \in 0..MaxFaults
    BY <1>8 DEF Fill, WriteDone
  <2>2. /\ at' \in [Procs -> SessionLabels \cup CheckerLabels]
        /\ \A s \in Sessions : at'[s] \in SessionLabels
        /\ \A k \in Checkers : at'[k] \in CheckerLabels
    BY <1>8 DEF Fill, WriteDone
  <2>3. crossed' \in BOOLEAN /\ UNCHANGED <<newest, claimAge, twice>>
    BY <1>8 DEF Fill
  <2> QED BY <2>1, <2>2, <2>3
<1>9. ASSUME NEW p \in Procs, Killed(p) PROVE TypeOK'
  BY <1>9 DEF Killed
<1>10. ASSUME Tick PROVE TypeOK'
  <2>1. ASSUME NEW c \in Records PROVE [c EXCEPT !.age = Older(@)] \in Records
    BY OlderType DEF Records
  <2> QED BY <1>10, <2>1, OlderType DEF Tick
<1>11. ASSUME Release PROVE TypeOK'
  BY <1>11 DEF Release
<1>12. ASSUME UNCHANGED vars PROVE TypeOK'
  BY <1>12 DEF vars
<1> QED
  BY <1>1, <1>2, <1>3, <1>4, <1>5, <1>6, <1>7, <1>8, <1>9, <1>10, <1>11, <1>12
     DEF Next, SessionStep, CheckStep, WriteStep

\* Every variable keeps its type, whatever the sessions, checks and failures.
THEOREM Typing == SafetySpec => []TypeOK
BY InitType, NextType, PTL DEF SafetySpec

-----------------------------------------------------------------------------
LEMMA InitClaim == Init => ClaimInv
BY WorldAssumption, SlotsAssumption
   DEF Init, ClaimInv, Alone, Decided, Dated, Guarded, Settled, Claiming, Procs,
       Blank, Stale

LEMMA NextClaim == TypeOK /\ ClaimInv /\ [Next]_vars => ClaimInv'
<1> SUFFICES ASSUME TypeOK, ClaimInv, [Next]_vars, ~crossed' PROVE ClaimInv'
  BY DEF ClaimInv
<1> USE WorldAssumption, SlotsAssumption DEF Goto, Holds, Procs, Claiming
<1>0. /\ at \in [Procs -> SessionLabels \cup CheckerLabels]
      /\ \A k \in Checkers : at[k] \in CheckerLabels
      /\ record \in [Procs -> Records]
      /\ claimAge \in 0..Stale
      /\ cache \in Records
  BY DEF TypeOK
<1>1. ASSUME NEW s \in Sessions, SessionRead(s) PROVE ClaimInv'
  <2>1. ~crossed /\ ~Unsettled(s)
    BY <1>1 DEF SessionRead
  <2>2. Alone /\ Decided /\ Dated /\ Guarded /\ ~twice
    BY <2>1 DEF ClaimInv
  <2>3. CASE IsStale(cache)
    <3>1. at' = [at EXCEPT ![s] = "claim"]
      BY <1>1, <2>3 DEF SessionRead
    <3>2. claimAge = Stale
      <4>1. at[s] = "idle"
        BY <1>1 DEF SessionRead
      <4>2. Settled /\ \A o \in Sessions : at[o] # "truncate"
        BY <2>1, <4>1 DEF Settled, Unsettled
      <4>3. cache.age <= claimAge
        BY <2>2, <4>2 DEF Guarded
      <4> QED BY <1>0, <2>3, <4>3 DEF IsStale, Stale
    <3> QED
      BY <1>0, <1>1, <2>1, <2>2, <3>1, <3>2
         DEF SessionRead, ClaimInv, Alone, Decided, Dated, Guarded, Settled, Unsettled
  <2>4. CASE ~IsStale(cache)
    BY <1>1, <2>2, <2>4
       DEF SessionRead, ClaimInv, Alone, Decided, Dated, Guarded, Settled
  <2> QED BY <2>3, <2>4
<1>2. ASSUME NEW s \in Sessions, Claim(s) PROVE ClaimInv'
  <2>1. ~crossed
    BY <1>2 DEF Claim
  <2>2. Alone /\ Decided /\ Dated /\ Guarded /\ ~twice
    BY <2>1 DEF ClaimInv
  <2>3. claimAge = Stale /\ \A o \in Sessions \ {s} : ~Claiming(o)
    BY <1>2, <2>2 DEF Claim, Decided, Alone
  <2>4. ~twice'
    <3>1. ~(claimAge < Stale)
      BY <2>3 DEF Stale
    <3>2. twice' = (twice \/ claimAge < Stale)
      BY <1>2 DEF Claim
    <3> QED BY <2>2, <3>1, <3>2, Zenon
  <2>5. record'[s].age = 0 /\ claimAge' = 0 /\ at'[s] = "truncate"
    BY <1>0, <1>2 DEF Claim, Records
  <2>6. \A o \in Sessions \ {s} : at'[o] = at[o]
    BY <1>0, <1>2 DEF Claim
  <2> QED
    BY <2>3, <2>4, <2>5, <2>6 DEF ClaimInv, Alone, Decided, Dated, Guarded
<1>3. ASSUME NEW s \in Sessions, Spawn(s) PROVE ClaimInv'
  <2>1. /\ at[s] = "spawn" /\ at'[s] = "idle"
        /\ \A p \in Procs \ {s} : at'[p] = at[p] \/ (p \in Checkers /\ at'[p] = "start")
        /\ UNCHANGED <<cache, record, claimAge, twice, crossed>>
        /\ \A k \in Checkers : at[k] \notin {"fill"} \/ at'[k] = "fill"
    BY <1>0, <1>3 DEF Spawn
  <2> QED
    BY <2>1 DEF ClaimInv, Alone, Decided, Dated, Guarded, Settled
<1>4. ASSUME NEW k \in Checkers, UpdateCommand(k) \/ CheckStart(k) \/ Fetch(k)
      PROVE ClaimInv'
  <2>1. /\ \A p \in Procs \ {k} : at'[p] = at[p] /\ record'[p] = record[p]
        /\ at[k] # "fill" /\ at'[k] # "fill"
        /\ UNCHANGED <<cache, claimAge, twice, crossed>>
    BY <1>0, <1>4 DEF UpdateCommand, CheckStart, Fetch
  <2> QED
    BY <2>1 DEF ClaimInv, Alone, Decided, Dated, Guarded, Settled
<1>5. ASSUME NEW p \in Procs, Truncate(p) PROVE ClaimInv'
  <2>0. at[p] = "truncate" /\ ~crossed /\ UNCHANGED <<claimAge, twice>>
    <3>1. crossed' = crossed \/ crossed' = (crossed \/ p \in Sessions)
      BY <1>5, Zenon DEF Truncate
    <3>2. ~crossed
      BY <3>1, Zenon
    <3> QED BY <1>5, <3>2 DEF Truncate
  <2>1. \A o \in Procs \ {p} : at'[o] = at[o] /\ record'[o] = record[o]
    BY <1>0, <1>5 DEF Truncate, WriteDone
  <2>2. CASE at'[p] = "fill" /\ UNCHANGED record
    BY <2>0, <2>1, <2>2 DEF ClaimInv, Alone, Decided, Dated, Guarded, Settled
  <2>3. CASE p \notin Sessions /\ at'[p] = "off" /\ UNCHANGED cache
    BY <1>0, <2>0, <2>1, <2>3
       DEF TypeOK, CheckerLabels, ClaimInv, Alone, Decided, Dated, Guarded, Settled
  <2>4. \/ at'[p] = "fill" /\ UNCHANGED record
        \/ p \notin Sessions /\ at'[p] = "off" /\ UNCHANGED cache
    <3>1. CASE /\ Goto(p, "fill") /\ cache' = Blank
               /\ UNCHANGED <<record, faults, crossed>>
      BY <1>0, <3>1
    <3>2. CASE /\ Fault /\ WriteDone(p) /\ UNCHANGED cache
               /\ crossed' = (crossed \/ p \in Sessions)
      <4>1. p \notin Sessions
        BY <3>2, Zenon
      <4>2. at' = [at EXCEPT ![p] = "off"] /\ UNCHANGED cache
        BY <3>2, <4>1 DEF WriteDone
      <4> QED BY <1>0, <4>1, <4>2
    <3> QED BY <1>5, <3>1, <3>2 DEF Truncate
  <2> QED
    BY <2>2, <2>3, <2>4
<1>6. ASSUME NEW p \in Procs, Fill(p) PROVE ClaimInv'
  <2>1. /\ at[p] = "fill" /\ at'[p] \in {"spawn", "off"}
        /\ \A o \in Procs \ {p} : at'[o] = at[o] /\ record'[o] = record[o]
        /\ UNCHANGED <<claimAge, twice>>
        /\ cache' = record[p]
        /\ ~crossed /\ ~(record[p].age > claimAge)
    BY <1>0, <1>6 DEF Fill, WriteDone
  <2>2. cache'.age <= claimAge'
    BY <1>0, <2>1 DEF Records, Stale
  <2> QED
    BY <2>1, <2>2 DEF ClaimInv, Alone, Decided, Dated, Guarded
<1>7. ASSUME NEW p \in Procs, Killed(p) PROVE ClaimInv'
  <2>1. /\ at[p] # "fill" /\ (p \in Sessions => at[p] # "truncate")
        /\ at'[p] \in {"idle", "off"}
        /\ \A o \in Procs \ {p} : at'[o] = at[o] /\ record'[o] = record[o]
        /\ UNCHANGED <<cache, claimAge, twice>> /\ ~crossed
    BY <1>0, <1>7 DEF Killed
  <2> QED
    BY <2>1 DEF ClaimInv, Alone, Decided, Dated, Guarded, Settled
<1>8. ASSUME Tick PROVE ClaimInv'
  <2>1. /\ UNCHANGED <<at, twice, crossed>>
        /\ cache'.age = Older(cache.age) /\ claimAge' = Older(claimAge)
        /\ \A p \in Procs : record'[p].age = Older(record[p].age)
    BY <1>0, <1>8 DEF Tick, Records
  <2>2. claimAge = Stale => claimAge' = Stale
    BY <2>1 DEF Older
  <2>3. cache.age <= claimAge => cache'.age <= claimAge'
    BY <1>0, <2>1, OlderOrder DEF Records
  <2>4. crossed \/ (Alone' /\ Decided' /\ Dated' /\ ~twice')
    BY <2>1, <2>2 DEF ClaimInv, Alone, Decided, Dated
  <2>5. Guarded' \/ crossed
    BY <2>1, <2>3 DEF ClaimInv, Guarded, Settled
  <2> QED
    BY <2>1, <2>4, <2>5 DEF ClaimInv
<1>9. ASSUME Release \/ UNCHANGED vars PROVE ClaimInv'
  BY <1>9 DEF Release, vars, ClaimInv, Alone, Decided, Dated, Guarded, Settled
<1> QED
  BY <1>1, <1>2, <1>3, <1>4, <1>5, <1>6, <1>7, <1>8, <1>9
     DEF Next, SessionStep, CheckStep, WriteStep

\* Where no session meets another's unfinished work on the cache and no write
\* that matters is lost, no window is claimed twice: the claim before the spawn
\* does what its comment says.
THEOREM ClaimedOnce == SafetySpec => []OncePerWindow
<1>1. ClaimInv => OncePerWindow
  BY DEF ClaimInv, OncePerWindow
<1> QED
  BY <1>1, Typing, InitClaim, NextClaim, PTL DEF SafetySpec
=============================================================================
