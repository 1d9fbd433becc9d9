------------------------------- MODULE Import -------------------------------
(***************************************************************************)
(* `jedimem import` beside the other commands of a clone: run_import of    *)
(* src/importers.rs gathers what the repository already says, leaves out   *)
(* what is committed, and cmd_import of src/main.rs stages the rest for    *)
(* review or, with --commit, writes and compiles it.                       *)
(*                                                                         *)
(* Of a text only this matters: what is left of it without secrets, which  *)
(* other texts hash alike, and the bullet it becomes in the compiled block,*)
(* which stands in a file that import reads.                               *)
(***************************************************************************)
EXTENDS Naturals, FiniteSets, Sequences

CONSTANTS
  Texts,
  Redacted,    \* redact: a text without its secrets
  Hash,        \* content_hash: texts that differ in case and spacing hash alike
  Rendered,    \* the bullet that compile makes of a memory
  MaxCopies,   \* bound: memories that say the same and are told apart
  Trees,       \* what the user's part of the files may say
  Picks,       \* values of --from
  Readings,    \* bound: which places are there and can be read
  DefaultMarkers,  \* whether the block has the markers that config.rs defaults to
  Limits,      \* values of --limit; 0 is none
  Procs,       \* processes running `import`, one command after another
  MaxEdits,    \* bound: edits of the sources
  MaxMishaps   \* bound: sources and writes that fail, and kills

ASSUME TextsAssumption ==
  /\ Redacted \in [Texts -> Texts]
  /\ \A t \in Texts : Redacted[Redacted[t]] = Redacted[t]
  /\ Rendered \in [Texts -> Texts]
  /\ DOMAIN Hash = Texts

Sources == {"instructions", "adr", "codeowners", "git"}

\* Some of the places that are searched.  CLAUDE.md is also compiled into.
InstructionFiles == {"CLAUDE.md", ".cursor/rules"}
AdrDirs == {"docs/adr"}
OwnerFiles == <<"CODEOWNERS", ".github/CODEOWNERS">>
Places ==
  InstructionFiles \cup AdrDirs \cup {OwnerFiles[k] : k \in 1..2} \cup {"git log"}

ASSUME SourcesAssumption ==
  /\ Trees \subseteq [Places -> SUBSET Texts]
  /\ Sources \in Picks /\ Picks \subseteq SUBSET Sources
  /\ Places \in Readings /\ Readings \subseteq SUBSET Places
  /\ DefaultMarkers \in BOOLEAN
ASSUME BoundsAssumption ==
  /\ MaxCopies \in Nat \ {0}
  /\ Limits \subseteq Nat /\ 0 \in Limits
  /\ MaxEdits \in Nat /\ MaxMishaps \in Nat

VARIABLES
  tree,     \* what each place says, the compiled block apart
  file,     \* the committed file of each memory
  pending,  \* the candidates on the staging ref
  block,    \* the texts of the compiled block
  edits, mishaps,
  \* of each process:
  at,
  seen,     \* the hashes that are no news
  got       \* the candidates: redacted texts

\* History, read by the properties only.
VARIABLE muddied  \* some import could not see, as committed, all there was

locals == <<at, seen, got>>
shared == <<tree, file, pending, block, edits>>
vars   == <<shared, mishaps, locals, muddied>>

\* A memory is what it says and which of the memories that say so it is: ids are
\* never the same (ulid), whatever is imported twice.
Ids == Texts \X (1..MaxCopies)
Says(i) == i[1]

\* Store::all fails on the first file it cannot parse.
Readable == \A i \in Ids : file[i] # "cut"
Committed == {i \in Ids : file[i] \in {"active", "contested"}}
Stored == Committed \cup pending

\* The memory that a candidate becomes: one more that says the same, or one of those
\* there are when the bound is met.
NewId(t) ==
  LET unused == {k \in 1..MaxCopies : file[<<t, k>>] = "none" /\ <<t, k>> \notin pending}
  IN <<t, CHOOSE k \in 1..MaxCopies : unused # {} => k \in unused>>

ActiveIn(f) == {Says(i) : i \in {j \in Ids : f[j] = "active"}}

\* compile_repo, which is not reached when the files cannot be read.  Its race
\* with the other commands is Review's.
CompiledFrom(f) == IF \A i \in Ids : f[i] # "cut" THEN ActiveIn(f) ELSE block

\* Mutant: hashes() passes over contested memories, as all(false) does.
MutKnown == {Hash[Says(i)] : i \in {j \in Ids : file[j] = "active"}}

\* Store::hashes: those of all committed memories, or none when a file is
\* unreadable (unwrap_or_default).
Known == IF Readable THEN {Hash[Says(i)] : i \in Committed} ELSE {}

-----------------------------------------------------------------------------
\* importers.rs

\* Mutant: the generated section is read like the rest.
MutInstructions(legible) ==
  (UNION {tree[f] : f \in InstructionFiles \cap legible})
    \cup IF "CLAUDE.md" \in legible THEN {Rendered[t] : t \in block} ELSE {}

\* from_instructions on the files that are there and can be read: the bullets outside
\* the generated section, which is known by the default markers only.
Instructions(legible) ==
  (UNION {tree[f] : f \in InstructionFiles \cap legible})
    \cup IF "CLAUDE.md" \in legible /\ ~DefaultMarkers
          THEN {Rendered[t] : t \in block} ELSE {}

\* from_adrs: a decision of each record.
Adrs(legible) == UNION {tree[d] : d \in AdrDirs \cap legible}

\* from_codeowners: the lines of the first file that can be read, and of no other.
Owners(legible) ==
  UNION {tree[OwnerFiles[k]] : k \in {n \in 1..2 :
           /\ OwnerFiles[n] \in legible
           /\ \A m \in 1..(n - 1) : OwnerFiles[m] \notin legible}}

\* from_git_history: the reverts, when git answers.
Reverts(legible) == IF "git log" \in legible THEN tree["git log"] ELSE {}

\* What the sources that --from picks yield.
Found(from, legible) ==
  LET of == [instructions |-> Instructions(legible), adr |-> Adrs(legible),
             codeowners |-> Owners(legible), git |-> Reverts(legible)]
  IN UNION {of[s] : s \in from}

\* Mutant: what is a duplicate uses up the limit too.
MutTakes(found, known, room, T) ==
  LET new == {Redacted[t] : t \in {u \in found : Hash[Redacted[u]] \notin known}}
      old == {Redacted[t] : t \in found} \ new
  IN /\ T \subseteq new
     /\ \A t, u \in T : Hash[t] = Hash[u] => t = u
     /\ room > 0 => Cardinality(T) + Cardinality(old) <= room
     /\ \/ \A t \in new : \E u \in T : Hash[u] = Hash[t]
        \/ room > 0 /\ Cardinality(T) + Cardinality(old) >= room

\* Mutant: a hash that was met is not added to those seen.
MutTakesAgain(found, known, room, T) ==
  LET new == {Redacted[t] : t \in {u \in found : Hash[Redacted[u]] \notin known}}
  IN /\ T \subseteq new
     /\ room > 0 => Cardinality(T) <= room
     /\ T = new \/ (room > 0 /\ Cardinality(T) = room)

\* The loop of run_import over what a source yields keeps the texts T: redacted
\* first and hashed then, one for each hash that is not known, while there is room
\* (0: no limit).  Which ones, when it ends early, is the order of the tree.
Takes(found, known, room, T) ==
  LET new == {Redacted[t] : t \in {u \in found : Hash[Redacted[u]] \notin known}}
  IN /\ T \subseteq new
     /\ \A t, u \in T : Hash[t] = Hash[u] => t = u
     /\ room > 0 => Cardinality(T) <= room
     /\ \/ \A t \in new : \E u \in T : Hash[u] = Hash[t]
        \/ room > 0 /\ Cardinality(T) = room

\* Something fails that nobody asked for: a read, a write, a process's life.
Mishap == mishaps < MaxMishaps /\ mishaps' = mishaps + 1

-----------------------------------------------------------------------------
\* cmd_import

Busy == {p \in Procs : at[p] # "idle"}

\* The command is through, and what it held of it gone.
Ends(p) ==
  /\ at' = [at EXCEPT ![p] = "idle"]
  /\ seen' = [seen EXCEPT ![p] = {}] /\ got' = [got EXCEPT ![p] = {}]
  /\ UNCHANGED muddied

\* hashes(), before anything is gathered.
Begin(p) ==
  /\ at[p] = "idle"
  /\ at' = [at EXCEPT ![p] = "gather"]
  /\ seen' = [seen EXCEPT ![p] = Known]
  /\ muddied' = (muddied \/ ~Readable \/ pending # {} \/ Busy # {})
  /\ UNCHANGED <<shared, mishaps, got>>

\* run_import on what is found; a file that cannot be decoded is passed over.
Gather(p, option, room, found) ==
  /\ at[p] = "gather"
  /\ \E T \in SUBSET {Redacted[t] : t \in found} :
       /\ Takes(found, seen[p], room, T)
       /\ IF T = {} THEN Ends(p)
          ELSE /\ at' = [at EXCEPT ![p] = option]
               /\ seen' = [seen EXCEPT ![p] = {}]
               /\ got' = [got EXCEPT ![p] = T]
               /\ UNCHANGED muddied
  /\ UNCHANGED <<shared, mishaps>>

\* Neither --commit nor --stage, or a --from that names no source: nothing is done.
DryRun(p) ==
  /\ at[p] = "gather" /\ Ends(p)
  /\ UNCHANGED <<shared, mishaps>>

\* Store::write of one candidate, as active.
Write(p, t) ==
  /\ at[p] = "commit" /\ t \in got[p]
  /\ file' = [file EXCEPT ![NewId(t)] = "active"]
  /\ got' = [got EXCEPT ![p] = @ \ {t}]
  /\ UNCHANGED <<tree, pending, block, edits, mishaps, at, seen, muddied>>

\* Mutant: --commit leaves the compile to the user.
MutCompile(p) ==
  /\ at[p] = "commit" /\ got[p] = {}
  /\ Ends(p)
  /\ UNCHANGED <<shared, mishaps>>

\* all(false) and compile_repo, when every candidate is written.
Compile(p) ==
  /\ at[p] = "commit" /\ got[p] = {}
  /\ block' = CompiledFrom(file)
  /\ Ends(p)
  /\ UNCHANGED <<tree, file, pending, edits, mishaps>>

\* Store::stage: one update of the ref, as StagingPromise promises.
Stage(p) ==
  /\ at[p] = "stage"
  /\ pending' = pending \cup {NewId(t) : t \in got[p]}
  /\ Ends(p)
  /\ UNCHANGED <<tree, file, block, edits, mishaps>>

\* A write or the staging call fails, or the process is killed, which may leave
\* the file it writes cut short.
Stops(p) ==
  /\ at[p] # "idle" /\ Mishap
  /\ \/ UNCHANGED file
     \/ \E t \in got[p] :
          at[p] = "commit" /\ file' = [file EXCEPT ![NewId(t)] = "cut"]
  /\ Ends(p)
  /\ UNCHANGED <<tree, pending, block, edits>>

-----------------------------------------------------------------------------
\* Everyone else.  Review models these commands step by step.

\* review --approve of one candidate.
Approve(i) ==
  /\ i \in pending
  /\ pending' = pending \ {i}
  /\ file' = [file EXCEPT ![i] = "active"]
  /\ block' = CompiledFrom(file')
  /\ UNCHANGED <<tree, edits, mishaps, locals, muddied>>

\* review --reject.
Reject(i) ==
  /\ i \in pending
  /\ pending' = pending \ {i}
  /\ block' = CompiledFrom(file)
  /\ UNCHANGED <<tree, file, edits, mishaps, locals, muddied>>

Contest(i) ==
  /\ Readable /\ file[i] = "active"
  /\ file' = [file EXCEPT ![i] = "contested"]
  /\ block' = CompiledFrom(file')
  /\ UNCHANGED <<tree, pending, edits, mishaps, locals, muddied>>

\* The user removes a file that was cut short.
Mend(i) ==
  /\ file[i] = "cut"
  /\ file' = [file EXCEPT ![i] = "none"]
  /\ UNCHANGED <<tree, pending, block, edits, mishaps, locals, muddied>>

Edit ==
  /\ edits < MaxEdits /\ edits' = edits + 1
  /\ tree' \in Trees
  /\ UNCHANGED <<file, pending, block, mishaps, locals, muddied>>

Init ==
  /\ tree \in Trees
  /\ file = [i \in Ids |-> "none"] /\ pending = {} /\ block = {}
  /\ edits = 0 /\ mishaps = 0
  /\ at = [p \in Procs |-> "idle"]
  /\ seen = [p \in Procs |-> {}] /\ got = [p \in Procs |-> {}]
  /\ muddied = FALSE

Run(p) ==
  \/ /\ at[p] = "gather"
     /\ \E found \in {Found(from, legible) : from \in Picks, legible \in Readings},
           option \in {"stage", "commit"}, room \in Limits :
          Gather(p, option, room, found)
  \/ DryRun(p)
  \/ \E t \in Texts : Write(p, t)
  \/ Compile(p) \/ Stage(p)

Next ==
  \/ \E p \in Procs : Begin(p) \/ Run(p) \/ Stops(p)
  \/ \E i \in Ids : Approve(i) \/ Reject(i) \/ Contest(i) \/ Mend(i)
  \/ Edit

\* Processes run; a file that was cut short is mended; and someone goes on
\* importing everything with --commit, with a limit or without.
Fairness ==
  /\ \A p \in Procs :
       /\ WF_vars(Begin(p)) /\ WF_vars(Run(p))
       /\ SF_vars(\E room \in Limits :
                    Gather(p, "commit", room, Found(Sources, Places)))
  /\ WF_vars(\E i \in Ids : Mend(i))

Spec == Init /\ [][Next]_vars /\ Fairness

-----------------------------------------------------------------------------
\* Properties.

\* Types, and no import holds two candidates of one hash.
TypeOK ==
  /\ tree \in Trees
  /\ file \in [Ids -> {"none", "active", "contested", "cut"}]
  /\ pending \subseteq Ids /\ block \subseteq Texts
  /\ edits \in 0..MaxEdits /\ mishaps \in 0..MaxMishaps
  /\ at \in [Procs -> {"idle", "gather", "commit", "stage"}]
  /\ seen \in [Procs -> SUBSET {Hash[t] : t \in Texts}]
  /\ got \in [Procs -> SUBSET Texts]
  /\ muddied \in BOOLEAN
  /\ \A p \in Procs :
       /\ at[p] = "idle" => got[p] = {}
       /\ \A t, u \in got[p] : Hash[t] = Hash[u] => t = u

\* "Re-running imports nothing new" (importers.rs): no two memories say the same,
\* whatever is edited, redacted, contested, rejected or killed in the middle, as
\* long as every import could read all memory files, began when no candidate was
\* pending and was alone.  Those are compared with nothing.
NoTwins ==
  ~muddied => \A i, j \in Stored : Hash[Says(i)] = Hash[Says(j)] => i = j

\* "Never re-import our own generated output", and redaction "before ANY write":
\* under the default markers, what is stored is the redacted form of what some
\* tree says, never a bullet of the block come back.
StoredIsWritten ==
  DefaultMarkers =>
    \A i \in Stored :
      \E T \in Trees, f \in Places : \E t \in T[f] : Says(i) = Redacted[t]

\* When nothing has failed and no import runs, the block shows the active memories.
BlockShowsAll == mishaps = 0 /\ Busy = {} => block = ActiveIn(file)

\* Slices get through: with --limit or without, and whatever failed on the way,
\* importing again and again commits all that the sources say.
EverythingLands ==
  <>[](\A t \in Found(Sources, Places) :
         \E i \in Committed : Hash[Says(i)] = Hash[Redacted[t]])
=============================================================================
