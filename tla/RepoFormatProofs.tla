-------------------------- MODULE RepoFormatProofs --------------------------
(***************************************************************************)
(* What holds of RepoFormat for every set of releases, files and           *)
(* migrations.  The invariant says how far the files are while a migration *)
(* runs: up to the format that its next step upgrades from, or, inside of  *)
(* a step, past it but for the files still to be read or written.          *)
(***************************************************************************)
EXTENDS RepoFormat, TLAPS

\* A file is a stray, absent, or at the format that v stands for.
Reached(f, v) == f \in strays \/ fmt[f] = 0 \/ fmt[f] >= MemoryFormat[v]

Progress(p) ==
  /\ at[p] = "migrate" => \A f \in Files : Reached(f, next[p])
  /\ at[p] = "apply" =>
       \A f \in Files :
         \/ Reached(f, next[p] + 1)
         \/ f \in todo[p] \cup held[p] /\ fmt[f] = MemoryFormat[next[p]]
  /\ \A f \in held[p] : fmt[f] # 0 /\ held[p] = {f}

IInv == TypeOK /\ OnlyStraysLag /\ \A p \in Procs : Progress(p)

-----------------------------------------------------------------------------
\* Facts about the constants.

LEMMA ConstantTypes ==
  /\ Newest \in Nat /\ 1 \in Formats
  /\ \A p \in Procs : Supported[p] \in Formats
  /\ \A v \in Formats : MemoryFormat[v] \in Nat /\ MemoryFormat[v] > 0
  /\ \A v \in Formats : MemoryFormat[v] \in FileFormats
  /\ Cut \in Nat /\ \A v \in Formats : Cut > MemoryFormat[v]
BY FormatsAssumption DEF Procs, Formats, FileFormats, Cut

\* There is no file format between those of a release and of the next.
LEMMA NothingBetween ==
  ASSUME NEW v \in Formats, v + 1 \in Formats, NEW m \in FileFormats \cup {Cut},
         m > MemoryFormat[v]
  PROVE  m >= MemoryFormat[v + 1]
<1>0. CASE m = Cut
  BY <1>0, ConstantTypes
<1>1. CASE m # Cut
  <2>1. PICK w \in Formats : m = MemoryFormat[w]
    BY <1>1 DEF FileFormats
  <2>2. CASE w <= v
    <3>1. m <= MemoryFormat[v]
      BY <2>1, <2>2, FormatsAssumption
    <3> QED
      BY <3>1, <2>1, ConstantTypes
  <2>3. CASE w >= v + 1
    BY <2>1, <2>3, FormatsAssumption
  <2> QED
    BY <2>2, <2>3, ConstantTypes DEF Formats
<1> QED
  BY <1>0, <1>1

\* Steps without a migration change no file.
LEMMA Skips ==
  ASSUME NEW v \in Formats, NEW w \in Formats, v <= w,
         \A u \in Migrations : ~(v <= u /\ u < w)
  PROVE  MemoryFormat[v] = MemoryFormat[w]
<1>1. Migrations \cap (v..(w - 1)) = {}
  BY ConstantTypes DEF Formats
<1> QED
  BY <1>1, FormatsAssumption

\* While a migration is applied there is a format above it, which it leads to.
LEMMA ApplyTypes ==
  ASSUME TypeOK, NEW p \in Procs, at[p] = "apply"
  PROVE  next[p] \in Formats /\ next[p] + 1 \in Formats /\ next[p] + 1 <= Supported[p]
<1>1. next[p] \in Migrations /\ next[p] < Supported[p] /\ next[p] \in Formats
  BY FormatsAssumption DEF TypeOK
<1>2. Supported[p] \in Formats
  BY ConstantTypes
<1> QED
  BY <1>1, <1>2, ConstantTypes DEF Formats

-----------------------------------------------------------------------------
\* Types.

LEMMA InitTypeOK == Init => TypeOK
BY ConstantTypes, BoundsAssumption DEF Init, TypeOK, Formats

\* A process that ends is idle, as to the types of its variables.
LEMMA EndsTypes ==
  ASSUME TypeOK, NEW p \in Procs, Ends(p)
  PROVE  /\ at' \in [Procs -> {"idle", "migrate", "apply"}]
         /\ next' \in [Procs -> {0} \cup Formats]
         /\ todo' \in [Procs -> SUBSET Files]
         /\ held' \in [Procs -> SUBSET Files]
         /\ \A q \in Procs :
              /\ held'[q] # {} => at'[q] = "apply"
              /\ at'[q] = "idle" => next'[q] = 0
              /\ at'[q] = "migrate" => next'[q] \in 1..Supported[q]
              /\ at'[q] = "apply" => next'[q] \in Migrations /\ next'[q] < Supported[q]
BY DEF TypeOK, Ends

\* Every step keeps the types.
LEMMA NextTypeOK == TypeOK /\ [Next]_vars => TypeOK'
<1> SUFFICES ASSUME TypeOK, [Next]_vars PROVE TypeOK'
  OBVIOUS
<1>1. CASE InitRepo
  <2>1. stamp' \in {0} \cup Formats
    BY <1>1, ConstantTypes DEF InitRepo
  <2>2. forces' \in 0..MaxForces
    BY <1>1, BoundsAssumption DEF InitRepo, TypeOK
  <2> QED
    BY <1>1, <2>1, <2>2 DEF InitRepo, run, TypeOK
<1>2. ASSUME NEW p \in Procs, Begin(p) PROVE TypeOK'
  <2>1. stamp \in Formats /\ stamp \in 1..Supported[p]
    BY <1>2, ConstantTypes DEF Begin, Pending, TypeOK, Formats
  <2> QED
    BY <1>2, <2>1 DEF Begin, TypeOK, tree, counts
<1>3. ASSUME NEW p \in Procs, Apply(p) PROVE TypeOK'
  <2>1. PICK m \in Due(p, next[p]) :
          /\ next' = [next EXCEPT ![p] = m]
          /\ todo' = [todo EXCEPT ![p] = {f \in Present : fmt[f] = MemoryFormat[m]}]
    BY <1>3 DEF Apply
  <2>2. m \in Migrations /\ m \in Formats /\ m < Supported[p]
    BY <2>1, FormatsAssumption DEF Due
  <2>3. {f \in Present : fmt[f] = MemoryFormat[m]} \in SUBSET Files
    BY DEF Present
  <2>4. todo' \in [Procs -> SUBSET Files]
    BY <2>1, <2>3 DEF TypeOK
  <2>5. next' \in [Procs -> {0} \cup Formats]
    BY <2>1, <2>2 DEF TypeOK
  <2> QED
    BY <1>3, <2>1, <2>2, <2>4, <2>5 DEF Apply, TypeOK, tree, counts
<1>4. ASSUME NEW p \in Procs, NEW f \in Files, Rewrite(p, f) PROVE TypeOK'
  <2>1. MemoryFormat[next[p] + 1] \in FileFormats
    BY <1>4, ApplyTypes, ConstantTypes DEF Rewrite
  <2>2. fmt' \in [Files -> {0, Cut} \cup FileFormats]
    BY <1>4, <2>1 DEF Rewrite, TypeOK
  <2>3. held' \in [Procs -> SUBSET Files]
        /\ \A q \in Procs : held'[q] # {} => held[q] # {}
    BY <1>4 DEF Rewrite, TypeOK
  <2>4. strays' \subseteq Files
    BY <1>4 DEF Rewrite, TypeOK
  <2> QED
    BY <1>4, <2>2, <2>3, <2>4 DEF Rewrite, TypeOK, counts
<1>11. ASSUME NEW p \in Procs, NEW f \in Files, Load(p, f) PROVE TypeOK'
  <2>1. todo' \in [Procs -> SUBSET Files]
    BY <1>11 DEF Load, TypeOK
  <2>2. held' \in [Procs -> SUBSET Files]
        /\ \A q \in Procs : held'[q] # {} => held[q] # {} \/ q = p
    BY <1>11 DEF Load, TypeOK
  <2> QED
    BY <1>11, <2>1, <2>2 DEF Load, TypeOK, tree, counts
<1>5. ASSUME NEW p \in Procs, Applied(p) PROVE TypeOK'
  <2>1. next[p] \in Formats /\ next[p] + 1 \in Formats /\ next[p] + 1 \in 1..Supported[p]
    BY <1>5, ApplyTypes, ConstantTypes DEF Applied, Formats
  <2> QED
    BY <1>5, <2>1 DEF Applied, TypeOK, tree, counts
<1>6. ASSUME NEW p \in Procs, Stamp(p) PROVE TypeOK'
  <2>1. stamp' \in {0} \cup Formats
    BY <1>6, ConstantTypes DEF Stamp
  <2>2. Ends(p)
    BY <1>6 DEF Stamp
  <2> QED
    BY <1>6, <2>1, EndsTypes, <2>2 DEF Stamp, TypeOK, counts
<1>7. ASSUME NEW p \in Procs, Stops(p) PROVE TypeOK'
  <2>1. stamp' \in {0} \cup Formats
    BY <1>7, ConstantTypes DEF Stops, TypeOK, tree
  <2>2. Ends(p)
    BY <1>7 DEF Stops
  <2>3. mishaps' \in 0..MaxMishaps
    BY <1>7, BoundsAssumption DEF Stops, TypeOK
  <2>4. fmt' \in [Files -> {0, Cut} \cup FileFormats]
    BY <1>7 DEF Stops, TypeOK, tree
  <2> QED
    BY <1>7, <2>1, EndsTypes, <2>2, <2>3, <2>4 DEF Stops, TypeOK
<1>8. ASSUME NEW p \in Procs, NEW f \in Files, Write(p, f) PROVE TypeOK'
  <2>1. fmt' \in [Files -> {0, Cut} \cup FileFormats]
    BY <1>8, ConstantTypes DEF Write, Own, TypeOK
  <2> QED
    BY <1>8, <2>1 DEF Write, Strays, TypeOK, run, counts
<1>9. ASSUME NEW f \in Files, NEW m \in FileFormats, NEW s \in Formats, Merge(f, m, s)
      PROVE  TypeOK'
  <2>1. merges' \in 0..MaxMerges
    BY <1>9, BoundsAssumption DEF Merge, TypeOK
  <2>2. fmt' \in [Files -> {0, Cut} \cup FileFormats]
    BY <1>9 DEF Merge, TypeOK
  <2>3. strays' \subseteq Files
    BY <1>9 DEF Merge, Strays, TypeOK
  <2> QED
    BY <1>9, <2>1, <2>2, <2>3 DEF Merge, TypeOK, run
<1>10. CASE UNCHANGED vars
  BY <1>10 DEF vars, tree, run, counts, TypeOK
<1> QED
  BY <1>1, <1>2, <1>3, <1>4, <1>5, <1>6, <1>7, <1>8, <1>9, <1>10, <1>11 DEF Next, Run

\* Types, and no binary applies a migration to a format it does not support.
THEOREM TypesHold == Spec => []TypeOK
<1> QED
  BY InitTypeOK, NextTypeOK, PTL DEF Spec

-----------------------------------------------------------------------------
\* Progress of the files.

LEMMA FileTypes ==
  ASSUME TypeOK, NEW f \in Files
  PROVE  fmt[f] \in Nat /\ (fmt[f] # 0 => fmt[f] \in FileFormats \cup {Cut})
BY ConstantTypes DEF TypeOK, FileFormats

\* Every file has reached the first format.
LEMMA FirstReached ==
  ASSUME TypeOK, NEW f \in Files
  PROVE  Reached(f, 1)
<1>1. CASE fmt[f] # 0
  <2>1. CASE fmt[f] = Cut
    BY <2>1, ConstantTypes DEF Reached
  <2>2. CASE fmt[f] # Cut
    <3>1. PICK w \in Formats : fmt[f] = MemoryFormat[w]
      BY <1>1, <2>2, FileTypes DEF FileFormats
    <3>2. 1 \in Formats /\ 1 <= w
      BY ConstantTypes DEF Formats
    <3>3. MemoryFormat[1] <= MemoryFormat[w]
      BY <3>2, FormatsAssumption
    <3> QED
      BY <3>1, <3>2, <3>3, ConstantTypes DEF Reached
  <2> QED
    BY <2>1, <2>2
<1> QED
  BY <1>1 DEF Reached

LEMMA StampReached ==
  ASSUME TypeOK
  PROVE  OnlyStraysLag <=> (stamp # 0 => \A f \in Files : Reached(f, stamp))
<1>1. \A f \in Files : fmt[f] \in Nat
  BY FileTypes
<1>2. stamp # 0 => MemoryFormat[stamp] \in Nat
  BY ConstantTypes DEF TypeOK
<1> QED
  BY <1>1, <1>2 DEF OnlyStraysLag, Older, Reached

\* What another process does to the files disturbs no migration: it leaves a file,
\* raises it, cuts it short, makes a stray of it or brings it in a format that is new
\* enough; and no file goes away.
LEMMA OthersKeep ==
  ASSUME TypeOK, TypeOK', NEW q \in Procs, Progress(q), strays \subseteq strays',
         at'[q] = at[q], next'[q] = next[q], todo'[q] = todo[q], held'[q] = held[q],
         \A f \in Files : fmt[f] # 0 => fmt'[f] # 0,
         \A f \in Files :
           \/ f \in strays'
           \/ at[q] # "idle" => fmt'[f] >= Own(q)
           \/ fmt'[f] = fmt[f]
           \/ fmt[f] # 0 /\ fmt'[f] > fmt[f]
  PROVE  Progress(q)'
<1>1. ASSUME NEW f \in Files, NEW v \in Formats, v <= Supported[q], at[q] # "idle",
             Reached(f, v)
      PROVE  Reached(f, v)'
  <2>1. fmt[f] \in Nat /\ fmt'[f] \in Nat
    <3>1. fmt'[f] \in {0, Cut} \cup FileFormats
      BY DEF TypeOK
    <3> QED
      BY <3>1, FileTypes, ConstantTypes DEF FileFormats
  <2>2. Own(q) >= MemoryFormat[v] /\ Own(q) \in Nat /\ MemoryFormat[v] \in Nat
    BY <1>1, ConstantTypes, FormatsAssumption DEF Own
  <2> QED
    BY <1>1, <2>1, <2>2 DEF Reached
<1>h. \A f \in held'[q] : fmt'[f] # 0 /\ held'[q] = {f}
  BY DEF Progress, TypeOK
<1>2. ASSUME at[q] = "migrate" PROVE Progress(q)'
  <2>1. next[q] \in Formats /\ next[q] <= Supported[q]
    BY <1>2, ConstantTypes DEF TypeOK, Formats
  <2> QED
    BY <1>1, <1>2, <1>h, <2>1 DEF Progress, Reached
<1>3. ASSUME at[q] = "apply" PROVE Progress(q)'
  <2>1. next[q] \in Formats /\ next[q] + 1 \in Formats /\ next[q] + 1 <= Supported[q]
    BY <1>3, ApplyTypes
  <2>2. ASSUME NEW f \in Files, fmt[f] = MemoryFormat[next[q]]
        PROVE  Reached(f, next[q] + 1)' \/ fmt'[f] = MemoryFormat[next[q]]
    <3>1. CASE at[q] # "idle" => fmt'[f] >= Own(q)
      <4>1. Own(q) >= MemoryFormat[next[q] + 1] /\ Own(q) \in Nat
        BY <2>1, ConstantTypes, FormatsAssumption DEF Own
      <4>2. MemoryFormat[next[q] + 1] \in Nat
        BY <2>1, ConstantTypes
      <4>3. fmt'[f] \in Nat
        BY ConstantTypes DEF TypeOK, FileFormats
      <4> QED
        BY <1>3, <3>1, <4>1, <4>2, <4>3 DEF Reached
    <3>2. CASE fmt[f] # 0 /\ fmt'[f] > fmt[f]
      <4>1. fmt'[f] \in FileFormats \cup {Cut}
        BY <3>2, FileTypes DEF TypeOK
      <4> QED
        BY <2>1, <2>2, <3>2, <4>1, NothingBetween DEF Reached
    <3> QED
      BY <2>2, <3>1, <3>2 DEF Reached
  <2>3. ASSUME NEW f \in Files
        PROVE  \/ Reached(f, next[q] + 1)'
               \/ f \in todo'[q] \cup held'[q] /\ fmt'[f] = MemoryFormat[next'[q]]
    BY <1>1, <1>3, <2>1, <2>2 DEF Progress
  <2> QED
    BY <1>3, <1>h, <2>3 DEF Progress, Reached
<1> QED
  BY <1>2, <1>3, <1>h DEF TypeOK, Progress

\* A process that is idle has no files to look after.
LEMMA IdleProgress == TypeOK' => \A p \in Procs : at'[p] = "idle" => Progress(p)'
BY DEF Progress, TypeOK

\* What the migrating process itself does.

LEMMA BeginProgress ==
  ASSUME TypeOK, OnlyStraysLag, NEW p \in Procs, Begin(p)
  PROVE  Progress(p)'
<1>0. held'[p] = {}
  BY DEF Begin, TypeOK
<1>1. \A f \in Files : Reached(f, stamp)
  BY StampReached DEF Begin, Pending
<1>2. at'[p] = "migrate" /\ next'[p] = stamp /\ fmt' = fmt /\ strays' = strays
  BY DEF Begin, tree, TypeOK
<1> QED
  BY <1>0, <1>1, <1>2 DEF Progress, Reached

LEMMA ApplyProgress ==
  ASSUME TypeOK, NEW p \in Procs, Progress(p), Apply(p)
  PROVE  Progress(p)'
<1>1. PICK m \in Due(p, next[p]) :
        /\ \A n \in Due(p, next[p]) : m <= n
        /\ next' = [next EXCEPT ![p] = m]
        /\ todo' = [todo EXCEPT ![p] = {f \in Present : fmt[f] = MemoryFormat[m]}]
  BY DEF Apply
<1>2. /\ m \in Formats /\ m + 1 \in Formats /\ m \in Migrations
      /\ next[p] \in Formats /\ next[p] <= m
  <2>1. m \in Migrations /\ m \in Formats /\ next[p] <= m /\ m < Supported[p]
    BY <1>1, FormatsAssumption DEF Due
  <2>2. Supported[p] \in Formats /\ next[p] \in 1..Supported[p]
    BY ConstantTypes DEF Apply, TypeOK
  <2> QED
    BY <2>1, <2>2, ConstantTypes DEF Formats
<1>3. \A u \in Migrations : ~(next[p] <= u /\ u < m)
  <2> SUFFICES ASSUME NEW u \in Migrations, next[p] <= u, u < m PROVE FALSE
    OBVIOUS
  <2>1. u \in Formats /\ m < Supported[p] /\ Supported[p] \in Formats
    BY <1>1, FormatsAssumption, ConstantTypes DEF Due
  <2>2. u \in Due(p, next[p])
    BY <1>2, <2>1 DEF Due, Formats
  <2> QED
    BY <1>1, <1>2, <2>1, <2>2 DEF Formats
<1>4. MemoryFormat[next[p]] = MemoryFormat[m]
  BY <1>2, <1>3, Skips
<1>5. /\ at'[p] = "apply" /\ fmt' = fmt /\ strays' = strays /\ next'[p] = m
      /\ todo'[p] = {f \in Present : fmt[f] = MemoryFormat[m]} /\ held'[p] = {}
  BY <1>1 DEF Apply, tree, TypeOK
<1>6. ASSUME NEW f \in Files
      PROVE  \/ Reached(f, m + 1)
             \/ f \in todo'[p] /\ fmt[f] = MemoryFormat[m]
  <2>1. Reached(f, m)
    BY <1>4 DEF Progress, Reached, Apply
  <2>2. CASE fmt[f] # 0 /\ fmt[f] = MemoryFormat[m]
    BY <2>2, <1>5 DEF Present
  <2>3. CASE fmt[f] # 0 /\ fmt[f] > MemoryFormat[m]
    BY <2>3, <1>2, FileTypes, NothingBetween DEF Reached
  <2> QED
    BY <2>1, <2>2, <2>3, <1>2, FileTypes, ConstantTypes DEF Reached
<1> QED
  BY <1>5, <1>6 DEF Progress, Reached

LEMMA LoadProgress ==
  ASSUME TypeOK, NEW p \in Procs, NEW f \in Files, Progress(p), Load(p, f)
  PROVE  Progress(p)'
<1>1. /\ next[p] \in Formats /\ next[p] + 1 \in Formats /\ at[p] = "apply"
      /\ MemoryFormat[next[p]] > 0
  BY ApplyTypes, ConstantTypes DEF Load
<1>2. /\ at'[p] = at[p] /\ next'[p] = next[p] /\ strays' = strays /\ fmt' = fmt
      /\ todo'[p] = todo[p] \ {f} /\ held[p] = {}
      /\ held'[p] = IF fmt[f] = MemoryFormat[next[p]] THEN {f} ELSE {}
  BY DEF Load, TypeOK, tree
<1>3. ASSUME NEW g \in Files
      PROVE  \/ Reached(g, next[p] + 1)'
             \/ g \in todo'[p] \cup held'[p] /\ fmt'[g] = MemoryFormat[next'[p]]
  BY <1>1, <1>2 DEF Progress, Reached
<1>4. \A g \in held'[p] : fmt'[g] # 0 /\ held'[p] = {g}
  BY <1>1, <1>2, ConstantTypes
<1> QED
  BY <1>1, <1>2, <1>3, <1>4 DEF Progress

LEMMA RewriteProgress ==
  ASSUME TypeOK, NEW p \in Procs, NEW f \in Files, Progress(p), Rewrite(p, f)
  PROVE  Progress(p)'
<1>1. /\ next[p] \in Formats /\ next[p] + 1 \in Formats /\ at[p] = "apply"
      /\ MemoryFormat[next[p] + 1] \in Nat
  BY ApplyTypes, ConstantTypes DEF Rewrite
<1>2. /\ at'[p] = at[p] /\ next'[p] = next[p] /\ strays \subseteq strays'
      /\ todo'[p] = todo[p] /\ held'[p] = {}
      /\ \A g \in Files : g # f => fmt'[g] = fmt[g]
      /\ fmt'[f] = MemoryFormat[next[p] + 1]
  BY DEF Rewrite, TypeOK
<1>3. held[p] = {f}
  BY DEF Rewrite, Progress
<1>4. ASSUME NEW g \in Files
      PROVE  \/ Reached(g, next[p] + 1)'
             \/ g \in todo'[p] \cup held'[p] /\ fmt'[g] = MemoryFormat[next'[p]]
  <2>1. CASE g = f
    BY <2>1, <1>1, <1>2 DEF Reached
  <2>2. CASE g # f
    BY <2>2, <1>1, <1>2, <1>3 DEF Progress, Reached
  <2> QED
    BY <2>1, <2>2
<1> QED
  BY <1>1, <1>2, <1>4 DEF Progress

LEMMA AppliedProgress ==
  ASSUME TypeOK, NEW p \in Procs, Progress(p), Applied(p)
  PROVE  Progress(p)'
<1>1. /\ at'[p] = "migrate" /\ next'[p] = next[p] + 1 /\ fmt' = fmt
      /\ strays' = strays /\ held'[p] = {}
  BY DEF Applied, tree, TypeOK
<1>2. \A f \in Files : Reached(f, next[p] + 1)
  BY DEF Applied, Progress
<1> QED
  BY <1>1, <1>2 DEF Progress, Reached

\* When nothing is due any more, every file has the format that is stamped.
LEMMA StampLags ==
  ASSUME TypeOK, TypeOK', NEW p \in Procs, Progress(p), Stamp(p)
  PROVE  OnlyStraysLag'
<1>1. Supported[p] \in Formats /\ next[p] \in Formats /\ next[p] <= Supported[p]
  BY ConstantTypes DEF Stamp, TypeOK, Formats
<1>2. \A u \in Migrations : ~(next[p] <= u /\ u < Supported[p])
  BY DEF Stamp, Due
<1>3. MemoryFormat[next[p]] = MemoryFormat[Supported[p]]
  BY <1>1, <1>2, Skips
<1>4. \A f \in Files : Reached(f, Supported[p])
  BY <1>3 DEF Progress, Reached, Stamp
<1>5. stamp' = Supported[p] /\ fmt' = fmt /\ strays' = strays
  BY DEF Stamp
<1>6. \A f \in Files : fmt[f] \in Nat
  BY FileTypes
<1>7. MemoryFormat[Supported[p]] \in Nat
  BY <1>1, ConstantTypes
<1> QED
  BY <1>4, <1>5, <1>6, <1>7 DEF OnlyStraysLag, Older, Reached

-----------------------------------------------------------------------------
\* The invariant.

LEMMA InitIInv == Init => IInv
<1> SUFFICES ASSUME Init PROVE IInv
  OBVIOUS
<1>1. TypeOK
  BY InitTypeOK
<1>2. OnlyStraysLag
  BY DEF Init, OnlyStraysLag, Older
<1>3. \A p \in Procs : Progress(p)
  BY DEF Init, Progress
<1> QED
  BY <1>1, <1>2, <1>3 DEF IInv

\* A step of p that leaves the files alone leaves the other migrations alone.
LEMMA AloneKeeps ==
  ASSUME IInv, TypeOK', NEW p \in Procs, Progress(p)', fmt' = fmt, strays' = strays,
         \A q \in Procs \ {p} :
           at'[q] = at[q] /\ next'[q] = next[q] /\ todo'[q] = todo[q]
             /\ held'[q] = held[q]
  PROVE  \A q \in Procs : Progress(q)'
<1>1. ASSUME NEW q \in Procs \ {p} PROVE Progress(q)'
  BY <1>1, OthersKeep DEF IInv
<1> QED
  BY <1>1

\* A step that only raises files, or makes strays of those it lowers, keeps the stamp
\* true.
LEMMA StampKeeps ==
  ASSUME TypeOK, OnlyStraysLag, stamp' = stamp, strays \subseteq strays',
         \A g \in Files : fmt'[g] \in Nat,
         \A g \in Files :
           g \in strays' \/ fmt'[g] = fmt[g] \/ (fmt[g] # 0 /\ fmt'[g] > fmt[g])
  PROVE  OnlyStraysLag'
<1>1. stamp # 0 => MemoryFormat[stamp] \in Nat
  BY ConstantTypes DEF TypeOK
<1>2. \A f \in Files : fmt[f] \in Nat
  BY FileTypes
<1> QED
  BY <1>1, <1>2 DEF OnlyStraysLag, Older

LEMMA NextIInv == IInv /\ [Next]_vars => IInv'
<1> SUFFICES ASSUME IInv, [Next]_vars PROVE IInv'
  OBVIOUS
<1>0. TypeOK /\ TypeOK' /\ OnlyStraysLag /\ \A p \in Procs : Progress(p)
  BY NextTypeOK DEF IInv
<1>f. \A f \in Files : fmt[f] \in Nat
  BY <1>0, FileTypes
<1>m. \A v \in Formats : MemoryFormat[v] \in Nat /\ MemoryFormat[v] > 0
  BY ConstantTypes
<1>1. CASE InitRepo
  <2>1. fmt' = fmt /\ strays' = strays /\ at' = at /\ next' = next /\ todo' = todo
        /\ held' = held /\ stamp' = 1
    BY <1>1 DEF InitRepo, run
  <2>2. \A f \in Files : Reached(f, 1)
    BY <1>0, FirstReached
  <2>3. OnlyStraysLag'
    BY <2>1, <2>2, <1>f, <1>m, ConstantTypes DEF OnlyStraysLag, Older, Reached
  <2> QED
    BY <1>0, <2>1, <2>3 DEF IInv, Progress, Reached
<1>2. ASSUME NEW p \in Procs, Begin(p) PROVE IInv'
  <2>1. Progress(p)'
    BY <1>0, <1>2, BeginProgress
  <2>2. fmt' = fmt /\ strays' = strays /\ stamp' = stamp
        /\ \A q \in Procs \ {p} :
             at'[q] = at[q] /\ next'[q] = next[q] /\ todo'[q] = todo[q]
             /\ held'[q] = held[q]
    BY <1>0, <1>2 DEF Begin, tree, TypeOK
  <2> QED
    BY <1>0, <2>1, <2>2, AloneKeeps DEF IInv, OnlyStraysLag
<1>3. ASSUME NEW p \in Procs, Apply(p) PROVE IInv'
  <2>1. Progress(p)'
    BY <1>0, <1>3, ApplyProgress
  <2>2. fmt' = fmt /\ strays' = strays /\ stamp' = stamp
        /\ \A q \in Procs \ {p} :
             at'[q] = at[q] /\ next'[q] = next[q] /\ todo'[q] = todo[q]
             /\ held'[q] = held[q]
    BY <1>0, <1>3 DEF Apply, tree, TypeOK
  <2> QED
    BY <1>0, <2>1, <2>2, AloneKeeps DEF IInv, OnlyStraysLag
<1>4. ASSUME NEW p \in Procs, NEW f \in Files, Rewrite(p, f) PROVE IInv'
  <2>1. Progress(p)'
    BY <1>0, <1>4, RewriteProgress
  <2>2. /\ stamp' = stamp
        /\ \A q \in Procs \ {p} :
             at'[q] = at[q] /\ next'[q] = next[q] /\ todo'[q] = todo[q]
             /\ held'[q] = held[q]
        /\ \A g \in Files : g # f => fmt'[g] = fmt[g]
        /\ fmt'[f] = MemoryFormat[next[p] + 1]
        /\ strays \subseteq strays'
        /\ f \notin strays' => ~(fmt[f] > MemoryFormat[next[p] + 1])
    BY <1>0, <1>4 DEF Rewrite, TypeOK
  <2>3. MemoryFormat[next[p] + 1] \in Nat /\ MemoryFormat[next[p] + 1] > 0
    BY <1>0, <1>4, <1>m, ApplyTypes DEF Rewrite
  <2>4. fmt[f] # 0
    BY <1>0, <1>4 DEF Progress, Rewrite
  <2>5. /\ \A g \in Files : fmt'[g] \in Nat /\ (fmt[g] # 0 => fmt'[g] # 0)
        /\ \A g \in Files :
             g \in strays' \/ fmt'[g] = fmt[g] \/ (fmt[g] # 0 /\ fmt'[g] > fmt[g])
    BY <2>2, <2>3, <2>4, <1>f
  <2>6. \A q \in Procs \ {p} : Progress(q)'
    BY <1>0, <2>2, <2>5, OthersKeep
  <2>7. OnlyStraysLag'
    BY <1>0, <2>2, <2>5, StampKeeps
  <2> QED
    BY <1>0, <2>1, <2>6, <2>7 DEF IInv
<1>11. ASSUME NEW p \in Procs, NEW f \in Files, Load(p, f) PROVE IInv'
  <2>1. Progress(p)'
    BY <1>0, <1>11, LoadProgress
  <2>2. fmt' = fmt /\ strays' = strays /\ stamp' = stamp
        /\ \A q \in Procs \ {p} :
             at'[q] = at[q] /\ next'[q] = next[q] /\ todo'[q] = todo[q]
             /\ held'[q] = held[q]
    BY <1>0, <1>11 DEF Load, tree, TypeOK
  <2> QED
    BY <1>0, <2>1, <2>2, AloneKeeps DEF IInv, OnlyStraysLag
<1>5. ASSUME NEW p \in Procs, Applied(p) PROVE IInv'
  <2>1. Progress(p)'
    BY <1>0, <1>5, AppliedProgress
  <2>2. fmt' = fmt /\ strays' = strays /\ stamp' = stamp
        /\ \A q \in Procs \ {p} :
             at'[q] = at[q] /\ next'[q] = next[q] /\ todo'[q] = todo[q]
             /\ held'[q] = held[q]
    BY <1>0, <1>5 DEF Applied, tree, TypeOK
  <2> QED
    BY <1>0, <2>1, <2>2, AloneKeeps DEF IInv, OnlyStraysLag
<1>6. ASSUME NEW p \in Procs, Stamp(p) PROVE IInv'
  <2>1. OnlyStraysLag'
    BY <1>0, <1>6, StampLags
  <2>2. fmt' = fmt /\ strays' = strays /\ at'[p] = "idle"
        /\ \A q \in Procs \ {p} :
             at'[q] = at[q] /\ next'[q] = next[q] /\ todo'[q] = todo[q]
             /\ held'[q] = held[q]
    BY <1>0, <1>6 DEF Stamp, Ends, TypeOK
  <2> QED
    BY <1>0, <2>1, <2>2, AloneKeeps, IdleProgress DEF IInv
<1>7. ASSUME NEW p \in Procs, Stops(p) PROVE IInv'
  <2>1. strays' = strays /\ at'[p] = "idle"
        /\ \A q \in Procs \ {p} :
             at'[q] = at[q] /\ next'[q] = next[q] /\ todo'[q] = todo[q]
             /\ held'[q] = held[q]
    BY <1>0, <1>7 DEF Stops, Ends, TypeOK
  <2>2. CASE fmt' = fmt /\ (stamp' = stamp \/ stamp' = 0 \/ stamp' = 1)
    <3>1. \A f \in Files : Reached(f, 1)
      BY <1>0, FirstReached
    <3>2. OnlyStraysLag'
      BY <1>0, <2>1, <2>2, <3>1, <1>f, <1>m, ConstantTypes
      DEF OnlyStraysLag, Older, Reached
    <3> QED
      BY <1>0, <2>1, <2>2, <3>2, AloneKeeps, IdleProgress DEF IInv
  <2>3. ASSUME NEW f \in held[p], fmt' = [fmt EXCEPT ![f] = Cut], stamp' = stamp
        PROVE  IInv'
    <3>0. f \in Files /\ fmt'[f] = Cut /\ \A g \in Files : g # f => fmt'[g] = fmt[g]
      BY <1>0, <2>3 DEF TypeOK
    <3>1. fmt[f] # 0 /\ (fmt[f] = Cut \/ fmt[f] < Cut) /\ Cut \in Nat /\ Cut > 0
      <4>1. fmt[f] # 0
        BY <1>0 DEF Progress
      <4>2. fmt[f] \in FileFormats \cup {Cut}
        BY <1>0, <3>0, <4>1, FileTypes
      <4> QED
        BY <4>1, <4>2, ConstantTypes DEF FileFormats, Formats, Cut
    <3>2. /\ \A g \in Files : fmt'[g] \in Nat /\ (fmt[g] # 0 => fmt'[g] # 0)
          /\ \A g \in Files :
               g \in strays' \/ fmt'[g] = fmt[g] \/ (fmt[g] # 0 /\ fmt'[g] > fmt[g])
      BY <3>0, <3>1, <1>f
    <3>3. \A q \in Procs \ {p} : Progress(q)'
      BY <1>0, <2>1, <3>2, OthersKeep
    <3>4. Progress(p)'
      BY <1>0, <2>1, IdleProgress
    <3>5. OnlyStraysLag'
      BY <1>0, <2>1, <2>3, <3>2, StampKeeps
    <3> QED
      BY <1>0, <3>3, <3>4, <3>5 DEF IInv
  <2> QED
    BY <1>7, <2>2, <2>3 DEF Stops, tree
<1>8. ASSUME NEW p \in Procs, NEW f \in Files, Write(p, f) PROVE IInv'
  <2>1. /\ stamp' = stamp /\ at' = at /\ next' = next /\ todo' = todo /\ held' = held
        /\ strays' = strays \cup Strays(f, Own(p), stamp)
        /\ fmt'[f] = Own(p) /\ \A g \in Files : g # f => fmt'[g] = fmt[g]
    BY <1>0, <1>8 DEF Write, run, TypeOK
  <2>2. f \notin strays' =>
          ~Older(Own(p), stamp) /\ \A q \in Migrating : ~(Own(p) < Own(q))
    BY <2>1 DEF Strays
  <2>3. /\ \A q \in Procs : Own(q) \in Nat
        /\ \A g \in Files : fmt[g] # 0 => fmt'[g] # 0
    BY <2>1, ConstantTypes DEF Own
  <2>4. ASSUME NEW q \in Procs PROVE Progress(q)'
    <3>1. f \in strays' \/ (at[q] # "idle" => fmt'[f] >= Own(q))
      BY <2>1, <2>2, <2>3 DEF Migrating
    <3> QED
      BY <1>0, <2>1, <2>3, <3>1, OthersKeep
  <2>5. OnlyStraysLag'
    BY <1>0, <2>1, <2>2 DEF OnlyStraysLag
  <2> QED
    BY <1>0, <2>4, <2>5 DEF IInv
<1>9. ASSUME NEW f \in Files, NEW m \in FileFormats, NEW s \in Formats, Merge(f, m, s)
      PROVE  IInv'
  <2>1. /\ stamp' = s /\ at' = at /\ next' = next /\ todo' = todo /\ held' = held
        /\ strays' = strays \cup Strays(f, m, s) \cup {g \in Files : Older(fmt[g], s)}
        /\ fmt'[f] = m /\ \A g \in Files : g # f => fmt'[g] = fmt[g]
    BY <1>0, <1>9 DEF Merge, run, TypeOK
  <2>2. f \notin strays' => ~Older(m, s) /\ \A q \in Migrating : ~(m < Own(q))
    BY <2>1 DEF Strays
  <2>3. /\ m \in Nat /\ \A q \in Procs : Own(q) \in Nat
        /\ \A g \in Files : fmt[g] # 0 => fmt'[g] # 0
    BY <2>1, ConstantTypes DEF Own, FileFormats
  <2>4. ASSUME NEW q \in Procs PROVE Progress(q)'
    <3>1. f \in strays' \/ (at[q] # "idle" => fmt'[f] >= Own(q))
      BY <2>1, <2>2, <2>3 DEF Migrating
    <3> QED
      BY <1>0, <2>1, <2>3, <3>1, OthersKeep
  <2>5. OnlyStraysLag'
    BY <2>1, <2>2 DEF OnlyStraysLag
  <2> QED
    BY <1>0, <2>4, <2>5 DEF IInv
<1>10. CASE UNCHANGED vars
  BY <1>0, <1>10 DEF IInv, vars, tree, run, counts, OnlyStraysLag, Progress, Reached
<1> QED
  BY <1>1, <1>2, <1>3, <1>4, <1>5, <1>6, <1>7, <1>8, <1>9, <1>10, <1>11 DEF Next, Run

\* Migrations stamp last: whatever fails, is killed or overlaps, a file that parses is
\* older than the stamp says only when a merge or an older binary left it so, or a
\* migration wrote it back from a reading older than another's work.
THEOREM StampTellsTheTruth == Spec => []OnlyStraysLag
<1>1. IInv => OnlyStraysLag
  BY DEF IInv
<1> QED
  BY InitIInv, NextIInv, <1>1, PTL DEF Spec
=============================================================================
