---------------------------- MODULE ImportProofs ----------------------------
(***************************************************************************)
(* What holds of Import for every set of texts, processes and trees.       *)
(* NoTwins rests on what an import knows between its steps: while it       *)
(* gathers, the hashes of all that is committed; while it writes, that     *)
(* what it still has to write is none of them; and, if it began when       *)
(* nothing was pending and nobody else imported, that this stays so.       *)
(***************************************************************************)
EXTENDS Import, TLAPS

Hashes == {Hash[t] : t \in Texts}

\* What an import that is not muddied knows of what is stored.
Knows(p) ==
  /\ at[p] # "idle" => pending = {} /\ \A q \in Procs : at[q] # "idle" => q = p
  /\ at[p] = "gather" => \A i \in Committed : Hash[Says(i)] \in seen[p]
  /\ \A t \in got[p], i \in Committed : Hash[Says(i)] # Hash[t]

\* As redaction leaves it, what some place may say.
Written(u) == \E T \in Trees, f \in Places : \E t \in T[f] : u = Redacted[t]

-----------------------------------------------------------------------------
\* Facts about the operators.

LEMMA IdFacts ==
  /\ \A i \in Ids : Says(i) \in Texts /\ Hash[Says(i)] \in Hashes
  /\ \A t \in Texts : NewId(t) \in Ids /\ Says(NewId(t)) = t
<1>1. \A i \in Ids : Says(i) \in Texts
  BY DEF Ids, Says
<1>2. ASSUME NEW t \in Texts PROVE NewId(t) \in Ids /\ Says(NewId(t)) = t
  <2> DEFINE unused == {k \in 1..MaxCopies : file[<<t, k>>] = "none" /\ <<t, k>> \notin pending}
             new == CHOOSE k \in 1..MaxCopies : unused # {} => k \in unused
  <2>1. \E k \in 1..MaxCopies : unused # {} => k \in unused
    <3>1. MaxCopies \in 1..MaxCopies
      BY BoundsAssumption
    <3> QED
      BY <3>1
  <2>2. new \in 1..MaxCopies
    BY <2>1
  <2>3. NewId(t) = <<t, new>>
    BY DEF NewId
  <2> HIDE DEF new
  <2> QED
    BY <2>2, <2>3 DEF Ids, Says
<1> QED
  BY <1>1, <1>2 DEF Hashes

\* What is found is text.
LEMMA FoundTexts ==
  ASSUME TypeOK, NEW from \in Picks, NEW legible \in Readings
  PROVE  Found(from, legible) \subseteq Texts
<1>1. \A f \in Places : tree[f] \subseteq Texts
  BY SourcesAssumption DEF TypeOK
<1>2. \A t \in block : Rendered[t] \in Texts
  BY TextsAssumption DEF TypeOK
<1>3. Instructions(legible) \subseteq Texts
  BY <1>1, <1>2 DEF Instructions, Places
<1>4. Adrs(legible) \subseteq Texts
  BY <1>1 DEF Adrs, Places
<1>5. Owners(legible) \subseteq Texts
  BY <1>1 DEF Owners, Places
<1>6. Reverts(legible) \subseteq Texts
  BY <1>1 DEF Reverts, Places
<1>7. from \subseteq Sources
  BY SourcesAssumption
<1> QED
  BY <1>3, <1>4, <1>5, <1>6, <1>7 DEF Found, Sources

\* Under the default markers it is what the places say.
LEMMA FoundWritten ==
  ASSUME TypeOK, DefaultMarkers, NEW from \in Picks, NEW legible \in Readings,
         NEW t \in Found(from, legible)
  PROVE  Written(Redacted[t])
<1>1. Instructions(legible) \subseteq UNION {tree[f] : f \in Places}
  BY DEF Instructions, Places
<1>2. Adrs(legible) \subseteq UNION {tree[f] : f \in Places}
  BY DEF Adrs, Places
<1>3. Owners(legible) \subseteq UNION {tree[f] : f \in Places}
  BY DEF Owners, Places
<1>4. Reverts(legible) \subseteq UNION {tree[f] : f \in Places}
  BY DEF Reverts, Places
<1>5. from \subseteq Sources
  BY SourcesAssumption
<1>6. t \in UNION {tree[f] : f \in Places}
  BY <1>1, <1>2, <1>3, <1>4, <1>5 DEF Found, Sources
<1> QED
  BY <1>6 DEF Written, TypeOK

-----------------------------------------------------------------------------
\* Types.

LEMMA InitTypeOK == Init => TypeOK
<1> SUFFICES ASSUME Init PROVE TypeOK
  OBVIOUS
<1>1. edits \in 0..MaxEdits /\ mishaps \in 0..MaxMishaps
  BY BoundsAssumption DEF Init
<1>2. /\ seen \in [Procs -> SUBSET {Hash[t] : t \in Texts}]
      /\ got \in [Procs -> SUBSET Texts]
      /\ at \in [Procs -> {"idle", "gather", "commit", "stage"}]
  BY DEF Init
<1> QED
  BY <1>1, <1>2 DEF Init, TypeOK

LEMMA KnownTypes == Known \in SUBSET {Hash[t] : t \in Texts}
BY IdFacts DEF Known, Committed, Hashes

LEMMA CompiledTypes ==
  ASSUME TypeOK, NEW f
  PROVE  CompiledFrom(f) \subseteq Texts
BY IdFacts DEF CompiledFrom, ActiveIn, TypeOK

LEMMA EndsTypes ==
  ASSUME TypeOK, NEW p \in Procs, Ends(p)
  PROVE  /\ at' \in [Procs -> {"idle", "gather", "commit", "stage"}]
         /\ seen' \in [Procs -> SUBSET {Hash[t] : t \in Texts}]
         /\ got' \in [Procs -> SUBSET Texts]
         /\ muddied' \in BOOLEAN
         /\ \A q \in Procs : at'[q] = "idle" => got'[q] = {}
         /\ \A q \in Procs : \A t, u \in got'[q] : Hash[t] = Hash[u] => t = u
<1>1. /\ at' \in [Procs -> {"idle", "gather", "commit", "stage"}]
      /\ muddied' \in BOOLEAN
  BY DEF TypeOK, Ends
<1>2. seen' \in [Procs -> SUBSET {Hash[t] : t \in Texts}]
  BY DEF TypeOK, Ends
<1>3. got' \in [Procs -> SUBSET Texts]
  BY DEF TypeOK, Ends
<1>4. \A q \in Procs : \A t, u \in got'[q] : Hash[t] = Hash[u] => t = u
  BY DEF TypeOK, Ends
<1>5. \A q \in Procs : at'[q] = "idle" => got'[q] = {}
  BY DEF TypeOK, Ends
<1> QED
  BY <1>1, <1>2, <1>3, <1>4, <1>5

\* What run_import keeps is redacted text of one hash each, none of them known.
LEMMA TakesFacts ==
  ASSUME NEW found \in SUBSET Texts, NEW known, NEW room, NEW T,
         Takes(found, known, room, T)
  PROVE  /\ T \subseteq Texts
         /\ \A t \in T : \E u \in found : t = Redacted[u]
         /\ \A t \in T : Hash[t] \notin known
         /\ \A t, u \in T : Hash[t] = Hash[u] => t = u
<1> DEFINE new == {Redacted[t] : t \in {u \in found : Hash[Redacted[u]] \notin known}}
<1>1. T \subseteq new /\ \A t, u \in T : Hash[t] = Hash[u] => t = u
  BY DEF Takes
<1>2. \A t \in new : Hash[t] \notin known /\ \E u \in found : t = Redacted[u]
  OBVIOUS
<1>3. new \subseteq Texts
  BY TextsAssumption
<1> HIDE DEF new
<1> QED
  BY <1>1, <1>2, <1>3

\* Gather of p leaves it with the candidates T.
Holds(p, option, found, T) ==
  /\ \A t \in T : \E u \in found : t = Redacted[u]
  /\ \A t \in T : Hash[t] \notin seen[p]
  /\ \A t, u \in T : Hash[t] = Hash[u] => t = u
  /\ at' = [at EXCEPT ![p] = option]
  /\ seen' = [seen EXCEPT ![p] = {}]
  /\ got' = [got EXCEPT ![p] = T]

\* The outcome of Gather: the command is through, or holds such a T.
LEMMA GatherFacts ==
  ASSUME TypeOK, NEW p \in Procs, NEW option \in {"stage", "commit"}, NEW room,
         NEW found \in SUBSET Texts, Gather(p, option, room, found)
  PROVE  /\ UNCHANGED <<shared, mishaps, muddied>> /\ at[p] = "gather"
         /\ \/ Ends(p)
            \/ \E T \in SUBSET Texts : Holds(p, option, found, T)
<1>1. PICK T \in SUBSET {Redacted[t] : t \in found} :
        /\ Takes(found, seen[p], room, T)
        /\ IF T = {} THEN Ends(p)
           ELSE /\ at' = [at EXCEPT ![p] = option]
                /\ seen' = [seen EXCEPT ![p] = {}]
                /\ got' = [got EXCEPT ![p] = T]
                /\ UNCHANGED muddied
  BY DEF Gather
<1>2. /\ T \subseteq Texts
      /\ \A t \in T : \E u \in found : t = Redacted[u]
      /\ \A t \in T : Hash[t] \notin seen[p]
      /\ \A t, u \in T : Hash[t] = Hash[u] => t = u
  BY <1>1, TakesFacts
<1>3. UNCHANGED <<shared, mishaps>> /\ at[p] = "gather"
  BY DEF Gather
<1>4. UNCHANGED muddied
  BY <1>1 DEF Ends
<1>5. T # {} => Holds(p, option, found, T)
  BY <1>1, <1>2 DEF Holds
<1>6. T = {} => Ends(p)
  BY <1>1
<1> QED
  BY <1>2, <1>3, <1>4, <1>5, <1>6

\* The steps of processes and of everyone else, one by one.
LEMMA NextCases ==
  ASSUME [Next]_vars
  PROVE  \/ \E p \in Procs :
              \/ Begin(p) \/ DryRun(p) \/ Compile(p) \/ Stage(p) \/ Stops(p)
              \/ \E t \in Texts : Write(p, t)
              \/ \E option \in {"stage", "commit"}, room \in Limits,
                   from \in Picks, legible \in Readings :
                   Gather(p, option, room, Found(from, legible))
         \/ \E i \in Ids : Approve(i) \/ Reject(i) \/ Contest(i) \/ Mend(i)
         \/ Edit \/ UNCHANGED vars
<1>1. ASSUME NEW p \in Procs, Run(p)
      PROVE  \/ DryRun(p) \/ Compile(p) \/ Stage(p)
             \/ \E t \in Texts : Write(p, t)
             \/ \E option \in {"stage", "commit"}, room \in Limits,
                  from \in Picks, legible \in Readings :
                  Gather(p, option, room, Found(from, legible))
  BY <1>1 DEF Run
<1> QED
  BY <1>1 DEF Next

LEMMA NextTypeOK == TypeOK /\ [Next]_vars => TypeOK'
<1> SUFFICES ASSUME TypeOK, [Next]_vars PROVE TypeOK'
  OBVIOUS
<1>1. ASSUME NEW p \in Procs, Begin(p) PROVE TypeOK'
  <2>1. seen' \in [Procs -> SUBSET {Hash[t] : t \in Texts}]
    BY <1>1, KnownTypes DEF Begin, TypeOK
  <2>2. muddied' \in BOOLEAN
    BY <1>1 DEF Begin, TypeOK
  <2>3. at' \in [Procs -> {"idle", "gather", "commit", "stage"}]
    BY <1>1 DEF Begin, TypeOK
  <2>4. \A q \in Procs : at'[q] = "idle" => got'[q] = {}
    BY <1>1 DEF Begin, TypeOK
  <2> QED
    BY <1>1, <2>1, <2>2, <2>3, <2>4 DEF Begin, TypeOK, shared
<1>2. ASSUME NEW p \in Procs, DryRun(p) PROVE TypeOK'
  BY <1>2, EndsTypes DEF DryRun, TypeOK, shared
<1>3. ASSUME NEW p \in Procs, Compile(p) PROVE TypeOK'
  BY <1>3, EndsTypes, CompiledTypes DEF Compile, TypeOK
<1>4. ASSUME NEW p \in Procs, Stage(p) PROVE TypeOK'
  <2>1. pending' \subseteq Ids
    BY <1>4, IdFacts DEF Stage, TypeOK
  <2> QED
    BY <1>4, <2>1, EndsTypes DEF Stage, TypeOK
<1>5. ASSUME NEW p \in Procs, Stops(p) PROVE TypeOK'
  <2>1. mishaps' \in 0..MaxMishaps
    BY <1>5, BoundsAssumption DEF Stops, Mishap, TypeOK
  <2>2. file' \in [Ids -> {"none", "active", "contested", "cut"}]
    BY <1>5, IdFacts DEF Stops, TypeOK
  <2> QED
    BY <1>5, <2>1, <2>2, EndsTypes DEF Stops, TypeOK
<1>6. ASSUME NEW p \in Procs, NEW t \in Texts, Write(p, t) PROVE TypeOK'
  <2>1. file' \in [Ids -> {"none", "active", "contested", "cut"}]
    BY <1>6, IdFacts DEF Write, TypeOK
  <2>2. got' \in [Procs -> SUBSET Texts]
    BY <1>6 DEF Write, TypeOK
  <2>3. \A q \in Procs : got'[q] \subseteq got[q]
    BY <1>6 DEF Write, TypeOK
  <2>4. \A q \in Procs : at'[q] = "idle" => got'[q] = {}
    BY <1>6, <2>3 DEF Write, TypeOK
  <2> QED
    BY <1>6, <2>1, <2>2, <2>3, <2>4 DEF Write, TypeOK
<1>7. ASSUME NEW p \in Procs, NEW option \in {"stage", "commit"}, NEW room \in Limits,
             NEW from \in Picks, NEW legible \in Readings,
             Gather(p, option, room, Found(from, legible))
      PROVE  TypeOK'
  <2>1. UNCHANGED <<shared, mishaps, muddied>>
    BY <1>7, FoundTexts, GatherFacts
  <2>2. CASE Ends(p)
    BY <2>1, <2>2, EndsTypes DEF TypeOK, shared
  <2>3. CASE ~Ends(p)
    <3>0. Found(from, legible) \in SUBSET Texts
      BY FoundTexts
    <3>1. PICK T \in SUBSET Texts : Holds(p, option, Found(from, legible), T)
      BY <1>7, <2>3, <3>0, GatherFacts
    <3>2. at' \in [Procs -> {"idle", "gather", "commit", "stage"}]
      BY <3>1 DEF Holds, TypeOK
    <3>3. seen' \in [Procs -> SUBSET {Hash[t] : t \in Texts}]
      BY <3>1 DEF Holds, TypeOK
    <3>4. got' \in [Procs -> SUBSET Texts]
      BY <3>1 DEF Holds, TypeOK
    <3>5. \A q \in Procs : \A t, u \in got'[q] : Hash[t] = Hash[u] => t = u
      <4>1. \A q \in Procs : got'[q] = T \/ got'[q] = got[q]
        BY <3>1 DEF Holds, TypeOK
      <4> QED
        BY <3>1, <4>1 DEF Holds, TypeOK
    <3>6. \A q \in Procs : at'[q] = "idle" => got'[q] = {}
      BY <3>1 DEF Holds, TypeOK
    <3> QED
      BY <2>1, <3>2, <3>3, <3>4, <3>5, <3>6 DEF TypeOK, shared
  <2> QED
    BY <2>2, <2>3
<1>8. ASSUME NEW i \in Ids, Approve(i) \/ Reject(i) \/ Contest(i) \/ Mend(i) PROVE TypeOK'
  <2>1. file' \in [Ids -> {"none", "active", "contested", "cut"}]
    BY <1>8 DEF Approve, Reject, Contest, Mend, TypeOK
  <2>2. block' \subseteq Texts /\ pending' \subseteq Ids
    BY <1>8, CompiledTypes DEF Approve, Reject, Contest, Mend, TypeOK
  <2>3. UNCHANGED <<tree, edits, mishaps, locals, muddied>>
    BY <1>8 DEF Approve, Reject, Contest, Mend
  <2> QED
    BY <2>1, <2>2, <2>3 DEF TypeOK, locals
<1>9. CASE Edit
  BY <1>9, BoundsAssumption DEF Edit, TypeOK, locals
<1>10. CASE UNCHANGED vars
  BY <1>10 DEF vars, shared, locals, TypeOK
<1> QED
  BY <1>1, <1>2, <1>3, <1>4, <1>5, <1>6, <1>7, <1>8, <1>9, <1>10, NextCases

\* Types, and no import holds two candidates of one hash.
THEOREM TypesHold == Spec => []TypeOK
BY InitTypeOK, NextTypeOK, PTL DEF Spec

-----------------------------------------------------------------------------
\* What is stored was written.

IWritten ==
  DefaultMarkers =>
    /\ \A i \in Stored : Written(Says(i))
    /\ \A p \in Procs : \A t \in got[p] : Written(t)

\* The committed memories after one file changed.
LEMMA CommittedAfter ==
  ASSUME TypeOK, NEW i \in Ids, NEW s, file' = [file EXCEPT ![i] = s]
  PROVE  /\ s \in {"active", "contested"} => Committed' = Committed \cup {i}
         /\ s \in {"none", "cut"} => Committed' = Committed \ {i}
BY DEF Committed, TypeOK

\* Approving, rejecting, contesting and mending store nothing new.
LEMMA OthersStored ==
  ASSUME TypeOK, NEW i \in Ids, Approve(i) \/ Reject(i) \/ Contest(i) \/ Mend(i)
  PROVE  Stored' \subseteq Stored /\ pending' \subseteq pending
<1>1. CASE Approve(i)
  BY <1>1, CommittedAfter DEF Approve, Stored
<1>2. CASE Reject(i)
  BY <1>2 DEF Reject, Stored, Committed
<1>3. CASE Contest(i)
  <2>1. i \in Committed /\ Committed' = Committed \cup {i}
    BY <1>3, CommittedAfter DEF Contest, Committed
  <2> QED
    BY <1>3, <2>1 DEF Contest, Stored
<1>4. CASE Mend(i)
  <2>1. Committed' = Committed \ {i}
    BY <1>4, CommittedAfter DEF Mend
  <2> QED
    BY <1>4, <2>1 DEF Mend, Stored
<1> QED
  BY <1>1, <1>2, <1>3, <1>4

\* A write that fails loses what it writes over, at most.
LEMMA StopsStored ==
  ASSUME TypeOK, NEW p \in Procs, Stops(p)
  PROVE  Committed' \subseteq Committed /\ pending' = pending
<1>1. CASE file' = file
  BY <1>1 DEF Stops, Committed
<1>2. ASSUME NEW t \in got[p], file' = [file EXCEPT ![NewId(t)] = "cut"]
      PROVE  Committed' \subseteq Committed
  <2>1. NewId(t) \in Ids
    BY <1>2, IdFacts DEF TypeOK
  <2> QED
    BY <1>2, <2>1, CommittedAfter
<1> QED
  BY <1>1, <1>2 DEF Stops

LEMMA EndsGot ==
  ASSUME TypeOK, NEW p \in Procs, Ends(p)
  PROVE  \A q \in Procs :
           /\ got'[q] \subseteq got[q]
           /\ q # p => at'[q] = at[q] /\ seen'[q] = seen[q] /\ got'[q] = got[q]
           /\ q = p => at'[q] = "idle" /\ got'[q] = {}
BY DEF Ends, TypeOK

\* Fewer memories stored and fewer candidates held are as well written.
LEMMA FewerWritten ==
  ASSUME IWritten, Stored' \subseteq Stored, \A q \in Procs : got'[q] \subseteq got[q]
  PROVE  IWritten'
BY DEF IWritten, Written

LEMMA NextIWritten ==
  ASSUME TypeOK, IWritten, [Next]_vars
  PROVE  IWritten'
<1>1. ASSUME NEW p \in Procs, Begin(p) PROVE IWritten'
  BY <1>1 DEF Begin, IWritten, Written, Stored, Committed, shared
<1>2. ASSUME NEW p \in Procs, DryRun(p) \/ Compile(p) PROVE IWritten'
  <2>1. Ends(p) /\ Stored' = Stored
    BY <1>2 DEF DryRun, Compile, Stored, Committed, shared
  <2> QED
    BY <2>1, EndsGot, FewerWritten
<1>3. ASSUME NEW p \in Procs, Stage(p) PROVE IWritten'
  <2>1. Ends(p) /\ pending' = pending \cup {NewId(t) : t \in got[p]}
        /\ Committed' = Committed
    BY <1>3 DEF Stage, Committed
  <2>2. ASSUME DefaultMarkers, NEW t \in got[p] PROVE Written(Says(NewId(t)))
    <3>1. Says(NewId(t)) = t
      BY IdFacts DEF TypeOK
    <3> QED
      BY <2>2, <3>1 DEF IWritten
  <2>3. DefaultMarkers => \A i \in Stored' : Written(Says(i))
    BY <2>1, <2>2 DEF Stored, IWritten
  <2>4. DefaultMarkers => \A q \in Procs : \A t \in got'[q] : Written(t)
    BY <2>1, EndsGot DEF IWritten
  <2> QED
    BY <2>3, <2>4 DEF IWritten, Written, Says
<1>4. ASSUME NEW p \in Procs, Stops(p) PROVE IWritten'
  <2>1. Ends(p) /\ Stored' \subseteq Stored
    BY <1>4, StopsStored DEF Stops, Stored
  <2> QED
    BY <2>1, EndsGot, FewerWritten
<1>5. ASSUME NEW p \in Procs, NEW t \in Texts, Write(p, t) PROVE IWritten'
  <2>1. /\ NewId(t) \in Ids /\ Says(NewId(t)) = t
        /\ file' = [file EXCEPT ![NewId(t)] = "active"]
        /\ t \in got[p] /\ pending' = pending
    BY <1>5, IdFacts DEF Write
  <2>2. Stored' = Stored \cup {NewId(t)}
    BY <2>1, CommittedAfter DEF Stored
  <2>3. \A q \in Procs : got'[q] \subseteq got[q]
    BY <1>5 DEF Write, TypeOK
  <2>4. DefaultMarkers => Written(Says(NewId(t)))
    BY <2>1 DEF IWritten
  <2>5. DefaultMarkers => \A i \in Stored' : Written(Says(i))
    BY <2>2, <2>4 DEF IWritten
  <2>6. DefaultMarkers => \A q \in Procs : \A u \in got'[q] : Written(u)
    BY <2>3 DEF IWritten
  <2> QED
    BY <2>5, <2>6 DEF IWritten, Written, Says
<1>6. ASSUME NEW p \in Procs, NEW option \in {"stage", "commit"}, NEW room \in Limits,
             NEW from \in Picks, NEW legible \in Readings,
             Gather(p, option, room, Found(from, legible))
      PROVE  IWritten'
  <2>1. Stored' = Stored
    BY <1>6 DEF Gather, Stored, Committed, shared
  <2>2. CASE Ends(p)
    BY <2>1, <2>2, EndsGot, FewerWritten
  <2>3. CASE ~Ends(p)
    <3>0. Found(from, legible) \in SUBSET Texts
      BY FoundTexts
    <3>1. PICK T \in SUBSET Texts : Holds(p, option, Found(from, legible), T)
      BY <1>6, <2>3, <3>0, GatherFacts
    <3>2. DefaultMarkers => \A t \in T : Written(t)
      BY <3>1, FoundWritten DEF Holds
    <3>3. \A q \in Procs : got'[q] = T \/ got'[q] = got[q]
      BY <3>1 DEF Holds, TypeOK
    <3> QED
      BY <2>1, <3>2, <3>3 DEF IWritten, Written
  <2> QED
    BY <2>2, <2>3
<1>7. ASSUME NEW i \in Ids, Approve(i) \/ Reject(i) \/ Contest(i) \/ Mend(i)
      PROVE  IWritten'
  <2>1. got' = got
    BY <1>7 DEF Approve, Reject, Contest, Mend, locals
  <2> QED
    BY <1>7, <2>1, OthersStored, FewerWritten
<1>8. CASE Edit
  BY <1>8, FewerWritten DEF Edit, Stored, Committed, locals
<1>9. CASE UNCHANGED vars
  BY <1>9, FewerWritten DEF vars, shared, locals, Stored, Committed
<1> QED
  BY <1>1, <1>2, <1>3, <1>4, <1>5, <1>6, <1>7, <1>8, <1>9, NextCases

\* Under the default markers no bullet of the block comes back as a memory, and
\* nothing is stored but as redaction leaves it.
THEOREM NothingEchoes == Spec => []StoredIsWritten
<1>1. Init => IWritten
  BY DEF Init, IWritten, Stored, Committed
<1>2. TypeOK /\ IWritten /\ [Next]_vars => IWritten'
  BY NextIWritten
<1>3. IWritten => StoredIsWritten
  BY DEF IWritten, StoredIsWritten, Written
<1> QED
  BY TypesHold, <1>1, <1>2, <1>3, PTL DEF Spec

-----------------------------------------------------------------------------
\* No two memories say the same.

ITwins ==
  ~muddied =>
    /\ \A i, j \in Stored : Hash[Says(i)] = Hash[Says(j)] => i = j
    /\ \A p \in Procs : Knows(p)

\* Whoever stores nothing new and keeps to what was gathered makes no twins.
LEMMA FewerTwins ==
  ASSUME ITwins, muddied' = muddied, Committed' \subseteq Committed,
         pending' \subseteq pending,
         \A q \in Procs :
           /\ at'[q] # "idle" => at[q] # "idle"
           /\ at'[q] = "gather" => at[q] = "gather" /\ seen'[q] = seen[q]
           /\ got'[q] \subseteq got[q]
  PROVE  ITwins'
<1> SUFFICES ASSUME ~muddied' PROVE ITwins'
  BY DEF ITwins
<1>1. \A i, j \in Stored' : Hash[Says(i)] = Hash[Says(j)] => i = j
  BY DEF ITwins, Stored
<1>2. ASSUME NEW p \in Procs PROVE Knows(p)'
  <2>1. Knows(p)
    BY DEF ITwins
  <2>2. at'[p] # "idle" => pending' = {} /\ \A q \in Procs : at'[q] # "idle" => q = p
    BY <2>1 DEF Knows
  <2>3. at'[p] = "gather" => \A i \in Committed' : Hash[Says(i)] \in seen'[p]
    BY <2>1 DEF Knows
  <2>4. \A t \in got'[p], i \in Committed' : Hash[Says(i)] # Hash[t]
    BY <2>1 DEF Knows
  <2> QED
    BY <2>2, <2>3, <2>4 DEF Knows, Says
<1> QED
  BY <1>1, <1>2 DEF ITwins, Says

LEMMA BeginTwins ==
  ASSUME TypeOK, ITwins, NEW p \in Procs, Begin(p)
  PROVE  ITwins'
<1> SUFFICES ASSUME ~muddied' PROVE ITwins'
  BY DEF ITwins
<1>1. ~muddied /\ Readable /\ pending = {} /\ Busy = {}
  BY DEF Begin
<1>2. /\ Committed' = Committed /\ pending' = pending /\ got' = got
      /\ at' = [at EXCEPT ![p] = "gather"] /\ seen'[p] = Known
      /\ Stored' = Stored
  BY DEF Begin, shared, Committed, Stored, TypeOK
<1>3. \A i \in Committed : Hash[Says(i)] \in Known
  BY <1>1 DEF Known
<1>4. \A q \in Procs : at'[q] # "idle" => q = p
  BY <1>1, <1>2 DEF Busy, TypeOK
<1>5. ASSUME NEW q \in Procs PROVE Knows(q)'
  <2>1. Knows(q)
    BY <1>1 DEF ITwins
  <2>2. at'[q] # "idle" => pending' = {} /\ \A r \in Procs : at'[r] # "idle" => r = q
    BY <1>1, <1>2, <1>4
  <2>3. at'[q] = "gather" => \A i \in Committed' : Hash[Says(i)] \in seen'[q]
    BY <1>2, <1>3, <1>4
  <2>4. \A t \in got'[q], i \in Committed' : Hash[Says(i)] # Hash[t]
    BY <1>2, <2>1 DEF Knows
  <2> QED
    BY <2>2, <2>3, <2>4 DEF Knows, Says
<1> QED
  BY <1>1, <1>2, <1>5 DEF ITwins, Says

LEMMA GatherTwins ==
  ASSUME TypeOK, ITwins, NEW p \in Procs, at[p] = "gather",
         NEW option \in {"stage", "commit"}, NEW found, NEW T \in SUBSET Texts,
         Holds(p, option, found, T), UNCHANGED <<shared, mishaps, muddied>>
  PROVE  ITwins'
<1> SUFFICES ASSUME ~muddied' PROVE ITwins'
  BY DEF ITwins
<1>1. /\ ~muddied /\ Committed' = Committed /\ pending' = pending /\ Stored' = Stored
      /\ Knows(p)
  BY DEF shared, Committed, Stored, ITwins
<1>2. /\ at'[p] = option /\ got'[p] = T
      /\ \A q \in Procs : q # p =>
           at'[q] = at[q] /\ seen'[q] = seen[q] /\ got'[q] = got[q]
  BY DEF Holds, TypeOK
<1>3. \A t \in T, i \in Committed : Hash[Says(i)] # Hash[t]
  BY <1>1 DEF Knows, Holds
<1>4. ASSUME NEW q \in Procs PROVE Knows(q)'
  <2>1. Knows(q)
    BY <1>1 DEF ITwins
  <2>2. at'[q] # "idle" => pending' = {} /\ \A r \in Procs : at'[r] # "idle" => r = q
    BY <1>1, <1>2, <2>1 DEF Knows
  <2>3. at'[q] = "gather" => \A i \in Committed' : Hash[Says(i)] \in seen'[q]
    BY <1>1, <1>2, <2>1 DEF Knows
  <2>4. \A t \in got'[q], i \in Committed' : Hash[Says(i)] # Hash[t]
    BY <1>1, <1>2, <1>3, <2>1 DEF Knows
  <2> QED
    BY <2>2, <2>3, <2>4 DEF Knows, Says
<1> QED
  BY <1>1, <1>4 DEF ITwins, Says

LEMMA WriteTwins ==
  ASSUME TypeOK, ITwins, NEW p \in Procs, NEW t \in Texts, Write(p, t)
  PROVE  ITwins'
<1> SUFFICES ASSUME ~muddied' PROVE ITwins'
  BY DEF ITwins
<1>1. /\ NewId(t) \in Ids /\ Says(NewId(t)) = t
      /\ file' = [file EXCEPT ![NewId(t)] = "active"]
      /\ t \in got[p] /\ pending' = pending /\ at' = at /\ seen' = seen /\ ~muddied
      /\ at[p] = "commit"
  BY IdFacts DEF Write
<1>2. Committed' = Committed \cup {NewId(t)}
  BY <1>1, CommittedAfter
<1>3. Knows(p) /\ pending = {}
  BY <1>1 DEF ITwins, Knows
<1>4. got'[p] = got[p] \ {t} /\ \A q \in Procs : q # p => got'[q] = got[q]
  BY DEF Write, TypeOK
<1>5. \A i \in Committed : Hash[Says(i)] # Hash[t]
  BY <1>1, <1>3 DEF Knows
<1>6. \A i, j \in Stored' : Hash[Says(i)] = Hash[Says(j)] => i = j
  BY <1>1, <1>2, <1>3, <1>5 DEF ITwins, Stored
<1>7. \A u \in got'[p] : Hash[t] # Hash[u]
  BY <1>1, <1>4 DEF TypeOK
<1>8. ASSUME NEW q \in Procs PROVE Knows(q)'
  <2>1. CASE q = p
    <3>1. \A u \in got'[p], i \in Committed' : Hash[Says(i)] # Hash[u]
      BY <1>1, <1>2, <1>3, <1>4, <1>7 DEF Knows
    <3>2. \A r \in Procs : at[r] # "idle" => r = p
      BY <1>1, <1>3 DEF Knows
    <3> QED
      BY <1>1, <1>3, <2>1, <3>1, <3>2 DEF Knows, Says
  <2>2. CASE q # p
    <3>1. at[q] = "idle"
      BY <1>1, <1>3, <2>2 DEF Knows
    <3>2. got[q] = {}
      BY <3>1 DEF TypeOK
    <3> QED
      BY <1>1, <1>4, <2>2, <3>1, <3>2 DEF Knows
  <2> QED
    BY <2>1, <2>2
<1> QED
  BY <1>1, <1>6, <1>8 DEF ITwins, Says

LEMMA StageTwins ==
  ASSUME TypeOK, ITwins, NEW p \in Procs, Stage(p)
  PROVE  ITwins'
<1> SUFFICES ASSUME ~muddied' PROVE ITwins'
  BY DEF ITwins
<1>1. /\ pending' = pending \cup {NewId(t) : t \in got[p]} /\ Committed' = Committed
      /\ Ends(p) /\ ~muddied /\ at[p] = "stage"
  BY DEF Stage, Ends, Committed
<1>2. Knows(p) /\ pending = {}
  BY <1>1 DEF ITwins, Knows
<1>3. \A t \in got[p] : Says(NewId(t)) = t
  BY IdFacts DEF TypeOK
<1>4. \A i \in pending' : \E t \in got[p] : i = NewId(t) /\ Says(i) = t
  BY <1>1, <1>2, <1>3
<1>5. \A i, j \in pending' : Hash[Says(i)] = Hash[Says(j)] => i = j
  BY <1>4 DEF TypeOK
<1>6. \A i \in pending', j \in Committed : Hash[Says(i)] # Hash[Says(j)]
  BY <1>2, <1>4 DEF Knows
<1>7. \A i, j \in Committed : Hash[Says(i)] = Hash[Says(j)] => i = j
  BY <1>1 DEF ITwins, Stored
<1>8. \A i, j \in Stored' : Hash[Says(i)] = Hash[Says(j)] => i = j
  BY <1>1, <1>5, <1>6, <1>7 DEF Stored
<1>9. ASSUME NEW q \in Procs PROVE at'[q] = "idle" /\ got'[q] = {}
  <2>1. CASE q # p
    <3>1. at[q] = "idle"
      BY <1>1, <1>2, <2>1 DEF Knows
    <3> QED
      BY <1>1, <2>1, <3>1, EndsGot DEF TypeOK
  <2>2. CASE q = p
    BY <1>1, <2>2, EndsGot
  <2> QED
    BY <2>1, <2>2
<1>10. \A q \in Procs : Knows(q)'
  BY <1>9 DEF Knows
<1> QED
  BY <1>8, <1>10 DEF ITwins, Says

\* A command that is through without storing anything.
LEMMA EndsTwins ==
  ASSUME TypeOK, ITwins, NEW p \in Procs, Ends(p), Committed' \subseteq Committed,
         pending' = pending
  PROVE  ITwins'
<1>1. muddied' = muddied
  BY DEF Ends
<1>2. \A q \in Procs :
        /\ at'[q] # "idle" => at[q] # "idle"
        /\ at'[q] = "gather" => at[q] = "gather" /\ seen'[q] = seen[q]
        /\ got'[q] \subseteq got[q]
  BY EndsGot
<1> QED
  BY <1>1, <1>2, FewerTwins

\* Commands beside the imports, which store nothing new.
LEMMA OthersTwins ==
  ASSUME TypeOK, ITwins, UNCHANGED <<locals, muddied>>, Committed' \subseteq Committed,
         pending' \subseteq pending
  PROVE  ITwins'
BY FewerTwins DEF locals

\* An approval moves a memory from the candidates to the files, where no import runs.
LEMMA ApproveTwins ==
  ASSUME TypeOK, ITwins, NEW i \in Ids, Approve(i)
  PROVE  ITwins'
<1> SUFFICES ASSUME ~muddied' PROVE ITwins'
  BY DEF ITwins
<1>1. ~muddied /\ i \in pending /\ at' = at /\ seen' = seen /\ got' = got
  BY DEF Approve, locals
<1>2. Stored' \subseteq Stored /\ pending' \subseteq pending
  BY OthersStored
<1>3. \A q \in Procs : at[q] = "idle" /\ got[q] = {}
  BY <1>1 DEF ITwins, Knows, TypeOK
<1>4. \A q \in Procs : Knows(q)'
  BY <1>1, <1>3 DEF Knows
<1> QED
  BY <1>1, <1>2, <1>4 DEF ITwins, Says

LEMMA NextITwins ==
  ASSUME TypeOK, ITwins, [Next]_vars
  PROVE  ITwins'
<1>1. ASSUME NEW p \in Procs, DryRun(p) \/ Compile(p) PROVE ITwins'
  <2>1. Ends(p) /\ Committed' = Committed /\ pending' = pending
    BY <1>1 DEF DryRun, Compile, Committed, shared
  <2> QED
    BY <2>1, EndsTwins
<1>2. ASSUME NEW p \in Procs, Stops(p) PROVE ITwins'
  <2>1. Ends(p)
    BY <1>2 DEF Stops
  <2> QED
    BY <1>2, <2>1, StopsStored, EndsTwins
<1>3. ASSUME NEW p \in Procs, NEW option \in {"stage", "commit"}, NEW room \in Limits,
             NEW from \in Picks, NEW legible \in Readings,
             Gather(p, option, room, Found(from, legible))
      PROVE  ITwins'
  <2>1. Found(from, legible) \in SUBSET Texts
    BY FoundTexts
  <2>2. UNCHANGED <<shared, mishaps, muddied>> /\ at[p] = "gather"
    BY <1>3, <2>1, GatherFacts
  <2>3. CASE Ends(p)
    <3>1. Committed' = Committed /\ pending' = pending
      BY <2>2 DEF shared, Committed
    <3> QED
      BY <2>3, <3>1, EndsTwins
  <2>4. CASE ~Ends(p)
    <3>1. PICK T \in SUBSET Texts : Holds(p, option, Found(from, legible), T)
      BY <1>3, <2>1, <2>4, GatherFacts
    <3> QED
      BY <2>2, <3>1, GatherTwins
  <2> QED
    BY <2>3, <2>4
<1>4. ASSUME NEW i \in Ids, Reject(i) \/ Contest(i) \/ Mend(i) PROVE ITwins'
  <2>1. pending' \subseteq pending /\ UNCHANGED <<locals, muddied>>
    BY <1>4 DEF Reject, Contest, Mend
  <2>2. CASE Reject(i)
    BY <2>1, <2>2, OthersTwins DEF Reject, Committed
  <2>3. CASE Contest(i)
    <3>1. Committed' = Committed \cup {i} /\ i \in Committed
      BY <2>3, CommittedAfter DEF Contest, Committed
    <3>2. Committed' \subseteq Committed
      BY <3>1
    <3> QED
      BY <2>1, <3>2, OthersTwins
  <2>4. CASE Mend(i)
    <3>1. Committed' = Committed \ {i}
      BY <2>4, CommittedAfter DEF Mend
    <3>2. Committed' \subseteq Committed
      BY <3>1
    <3> QED
      BY <2>1, <3>2, OthersTwins
  <2> QED
    BY <1>4, <2>2, <2>3, <2>4
<1>5. CASE Edit \/ UNCHANGED vars
  <2>1. UNCHANGED <<locals, muddied>> /\ pending' = pending /\ Committed' = Committed
    BY <1>5 DEF Edit, vars, shared, locals, Committed
  <2> QED
    BY <2>1, OthersTwins
<1> QED
  BY <1>1, <1>2, <1>3, <1>4, <1>5, BeginTwins, WriteTwins, StageTwins, ApproveTwins,
     NextCases

\* "Re-running imports nothing new": as long as every import saw, as committed, all
\* there was, no two memories say the same.
THEOREM ImportsOnce == Spec => []NoTwins
<1>1. Init => ITwins
  BY DEF Init, ITwins, Knows, Stored, Committed
<1>2. TypeOK /\ ITwins /\ [Next]_vars => ITwins'
  BY NextITwins
<1>3. ITwins => NoTwins
  BY DEF ITwins, NoTwins
<1> QED
  BY TypesHold, <1>1, <1>2, <1>3, PTL DEF Spec

-----------------------------------------------------------------------------
\* The block shows what is active.

\* Until something fails every file can be read, and the block is behind only while
\* an import still has files to write.
IBlock ==
  mishaps = 0 =>
    Readable /\ ((\A p \in Procs : at[p] # "commit") => block = ActiveIn(file))

LEMMA NextIBlock ==
  ASSUME TypeOK, IBlock, [Next]_vars
  PROVE  IBlock'
<1> SUFFICES ASSUME mishaps' = 0 PROVE IBlock'
  BY DEF IBlock
<1>1. ASSUME NEW p \in Procs, Begin(p) PROVE IBlock'
  <2>1. /\ file' = file /\ block' = block /\ mishaps' = mishaps
        /\ at[p] = "idle" /\ \A q \in Procs : q # p => at'[q] = at[q]
    BY <1>1 DEF Begin, shared, TypeOK
  <2>2. (\A q \in Procs : at'[q] # "commit") => \A q \in Procs : at[q] # "commit"
    BY <2>1
  <2> QED
    BY <2>1, <2>2 DEF IBlock, Readable, ActiveIn, Says
<1>2. ASSUME NEW p \in Procs, DryRun(p) \/ Stage(p) PROVE IBlock'
  <2>1. /\ file' = file /\ block' = block /\ mishaps' = mishaps /\ Ends(p)
        /\ at[p] # "commit"
    BY <1>2 DEF DryRun, Stage, shared
  <2>2. (\A q \in Procs : at'[q] # "commit") => \A q \in Procs : at[q] # "commit"
    BY <2>1, EndsGot
  <2> QED
    BY <2>1, <2>2 DEF IBlock, Readable, ActiveIn, Says
<1>3. ASSUME NEW p \in Procs, Compile(p) PROVE IBlock'
  <2>1. file' = file /\ block' = CompiledFrom(file) /\ mishaps' = mishaps
    BY <1>3 DEF Compile
  <2>2. Readable
    BY <2>1 DEF IBlock
  <2>3. block' = ActiveIn(file)
    BY <2>1, <2>2 DEF CompiledFrom, Readable
  <2> QED
    BY <2>1, <2>2, <2>3 DEF IBlock, Readable, ActiveIn, Says
<1>4. ASSUME NEW p \in Procs, Stops(p) PROVE IBlock'
  <2>1. mishaps' = mishaps + 1 /\ mishaps \in Nat
    BY <1>4, BoundsAssumption DEF Stops, Mishap, TypeOK
  <2> QED
    BY <2>1
<1>5. ASSUME NEW p \in Procs, NEW t \in Texts, Write(p, t) PROVE IBlock'
  <2>1. /\ at' = at /\ at[p] = "commit" /\ mishaps' = mishaps
        /\ file' = [file EXCEPT ![NewId(t)] = "active"]
    BY <1>5 DEF Write
  <2>2. \A i \in Ids : file'[i] # "cut"
    BY <2>1 DEF IBlock, Readable, TypeOK
  <2> QED
    BY <2>1, <2>2 DEF IBlock, Readable
<1>6. ASSUME NEW p \in Procs, NEW option \in {"stage", "commit"}, NEW room \in Limits,
             NEW from \in Picks, NEW legible \in Readings,
             Gather(p, option, room, Found(from, legible))
      PROVE  IBlock'
  <2>1. Found(from, legible) \in SUBSET Texts
    BY FoundTexts
  <2>2. UNCHANGED <<shared, mishaps, muddied>> /\ at[p] = "gather"
    BY <1>6, <2>1, GatherFacts
  <2>3. \A q \in Procs : q # p => at'[q] = at[q]
    BY <1>6, <2>1, GatherFacts, EndsGot DEF Holds, TypeOK
  <2>4. (\A q \in Procs : at'[q] # "commit") => \A q \in Procs : at[q] # "commit"
    BY <2>2, <2>3
  <2> QED
    BY <2>2, <2>4 DEF IBlock, Readable, ActiveIn, Says, shared
<1>7. ASSUME NEW i \in Ids, Approve(i) \/ Reject(i) \/ Contest(i) PROVE IBlock'
  <2>1. /\ block' = CompiledFrom(file') /\ mishaps' = mishaps
        /\ \/ file' = file
           \/ \E s \in {"active", "contested"} : file' = [file EXCEPT ![i] = s]
    BY <1>7 DEF Approve, Reject, Contest
  <2>2. \A j \in Ids : file'[j] # "cut"
    BY <2>1 DEF IBlock, Readable, TypeOK
  <2>3. block' = ActiveIn(file')
    BY <2>1, <2>2 DEF CompiledFrom
  <2> QED
    BY <2>2, <2>3 DEF IBlock, Readable
<1>8. ASSUME NEW i \in Ids, Mend(i) PROVE IBlock'
  <2>1. file[i] = "cut" /\ mishaps' = mishaps
    BY <1>8 DEF Mend
  <2> QED
    BY <2>1 DEF IBlock, Readable
<1>9. CASE Edit \/ UNCHANGED vars
  BY <1>9 DEF Edit, vars, shared, locals, IBlock, Readable, ActiveIn, Says
<1> QED
  BY <1>1, <1>2, <1>3, <1>4, <1>5, <1>6, <1>7, <1>8, <1>9, NextCases

\* Unless something failed, the block shows the active memories when no import runs.
THEOREM BlockFollowsFiles == Spec => []BlockShowsAll
<1>1. Init => IBlock
  BY DEF Init, IBlock, Readable, ActiveIn
<1>2. TypeOK /\ IBlock /\ [Next]_vars => IBlock'
  BY NextIBlock
<1>3. IBlock => BlockShowsAll
  BY DEF IBlock, BlockShowsAll, Busy
<1> QED
  BY TypesHold, <1>1, <1>2, <1>3, PTL DEF Spec
=============================================================================
