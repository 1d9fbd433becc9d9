----------------------------- MODULE RepoFormat -----------------------------
(***************************************************************************)
(* The format of a repository: the stamp that `init` writes and `migrate`  *)
(* raises (src/migrate.rs, cmd_init and cmd_migrate of src/main.rs), and   *)
(* the format line of every memory file, which must be the binary's own    *)
(* for Memory::validate to take the file.                                  *)
(*                                                                         *)
(* One working tree, with binaries of several releases at work on it, and  *)
(* teammates whose commits are merged into it.                             *)
(***************************************************************************)
EXTENDS Naturals

CONSTANTS
  Newest,        \* bound: the last format there is
  Supported,     \* SUPPORTED_FORMAT of the binary that each process runs
  MemoryFormat,  \* FORMAT_VERSION of the release that supports a repository format
  Migrations,    \* the formats that a registered migration upgrades from
  Files,         \* memory files
  MaxMerges,     \* bound: merges
  MaxForces,     \* bound: uses of `init --force`, unless no format can be read
  MaxMishaps     \* bound: migrations that fail or are killed

Formats == 1..Newest
FileFormats == {MemoryFormat[v] : v \in Formats}

\* What a memory file cut short has for a format line: it does not parse, so no
\* migration finds it in the format that it upgrades from.
Cut == Newest + 1

\* Where no migration is registered the memory files stay as they are ("stamp-only").
ASSUME FormatsAssumption ==
  /\ Newest \in Nat \ {0}
  /\ Supported \in [DOMAIN Supported -> Formats]
  /\ MemoryFormat \in [Formats -> Formats]
  /\ Migrations \subseteq Formats
  /\ \A v, w \in Formats : v <= w => MemoryFormat[v] <= MemoryFormat[w]
  /\ \A v, w \in Formats :
       v <= w /\ Migrations \cap (v..(w - 1)) = {} => MemoryFormat[v] = MemoryFormat[w]
ASSUME BoundsAssumption ==
  MaxMerges \in Nat /\ MaxForces \in Nat /\ MaxMishaps \in Nat

VARIABLES
  stamp,   \* what repo_format reads in config.yml; 0 is None: no file, or no number
  fmt,     \* the format line of each memory file; 0 is no file
  merges, forces, mishaps,
  \* of each process:
  at,
  next,    \* the migrations from here on are still to run
  todo,    \* the files that the current one has not come to
  held     \* the file, if any, that it has read and not yet written

\* History, read by the properties only.
VARIABLE strays  \* files that came, from a merge or an older binary, in a format
                 \* that was left, or was just being left; and those that a
                 \* migration wrote back from a reading older than another's work

tree   == <<stamp, fmt>>
run    == <<at, next, todo, held>>
counts == <<merges, forces, mishaps>>
vars   == <<tree, run, counts, strays>>

Procs == DOMAIN Supported

\* FORMAT_VERSION of the binary that p runs.
Own(p) == MemoryFormat[Supported[p]]

Present == {f \in Files : fmt[f] # 0}
Migrating == {p \in Procs : at[p] # "idle"}

-----------------------------------------------------------------------------
\* migrate::status: whoever asks is told to migrate.
Pending(p) == stamp # 0 /\ stamp < Supported[p]

-----------------------------------------------------------------------------
\* cmd_init

\* A config that is there is written over with --force only, which is also the way
\* out of one without a number; what is written always says format 1.
InitRepo ==
  /\ \/ stamp = 0 /\ UNCHANGED forces
     \/ forces < MaxForces /\ forces' = forces + 1
  /\ stamp' = 1
  /\ UNCHANGED <<fmt, run, merges, mishaps, strays>>

-----------------------------------------------------------------------------
\* migrate::run

\* Mutant: all migrations of the registry, also those to a format not supported.
MutDue(p, v) == {m \in Migrations : v <= m}

\* The loop leaves out the migrations before the stamp that was read, and those that
\* this binary does not need.
Due(p, v) == {m \in Migrations : v <= m /\ m < Supported[p]}

\* Mutant: the migration of the stamped format itself is left out (`>` for `>=`).
MutBegin(p) ==
  /\ at[p] = "idle"
  /\ Pending(p)
  /\ at' = [at EXCEPT ![p] = "migrate"]
  /\ next' = [next EXCEPT ![p] = stamp + 1]
  /\ UNCHANGED <<tree, counts, todo, held, strays>>

\* The stamp is read and compared, once.  --dry-run and --check, like a stamp that is
\* not Pending, end here with nothing written.
Begin(p) ==
  /\ at[p] = "idle"
  /\ Pending(p)
  /\ at' = [at EXCEPT ![p] = "migrate"]
  /\ next' = [next EXCEPT ![p] = stamp]
  /\ UNCHANGED <<tree, counts, todo, held, strays>>

\* apply of the next migration.  None is registered yet, so that what one does is
\* modelled from what `run` and Migration ask of it, "safe to run twice", and from how
\* this program writes its files: each is read, and written with fs::write when it is
\* in the format left behind.  First it lists them.
Apply(p) ==
  /\ at[p] = "migrate"
  /\ \E m \in Due(p, next[p]) :
       /\ \A n \in Due(p, next[p]) : m <= n
       /\ next' = [next EXCEPT ![p] = m]
       /\ todo' = [todo EXCEPT ![p] = {f \in Present : fmt[f] = MemoryFormat[m]}]
  /\ at' = [at EXCEPT ![p] = "apply"]
  /\ UNCHANGED <<tree, counts, held, strays>>

\* It reads one of them.  A file that is not of that format any more needs nothing.
Load(p, f) ==
  /\ at[p] = "apply" /\ held[p] = {} /\ f \in todo[p]
  /\ todo' = [todo EXCEPT ![p] = @ \ {f}]
  /\ held' = [held EXCEPT ![p] = IF fmt[f] = MemoryFormat[next[p]] THEN {f} ELSE {}]
  /\ UNCHANGED <<tree, at, next, counts, strays>>

\* It writes what it made of that reading, whatever the file holds by now.
Rewrite(p, f) ==
  /\ at[p] = "apply" /\ f \in held[p]
  /\ fmt' = [fmt EXCEPT ![f] = MemoryFormat[next[p] + 1]]
  /\ held' = [held EXCEPT ![p] = {}]
  /\ strays' = strays \cup IF fmt[f] > MemoryFormat[next[p] + 1] THEN {f} ELSE {}
  /\ UNCHANGED <<stamp, at, next, todo, counts>>

Applied(p) ==
  /\ at[p] = "apply" /\ todo[p] = {} /\ held[p] = {}
  /\ at' = [at EXCEPT ![p] = "migrate"]
  /\ next' = [next EXCEPT ![p] = @ + 1]
  /\ UNCHANGED <<tree, counts, todo, held, strays>>

Ends(p) ==
  /\ at' = [at EXCEPT ![p] = "idle"]
  /\ next' = [next EXCEPT ![p] = 0]
  /\ todo' = [todo EXCEPT ![p] = {}]
  /\ held' = [held EXCEPT ![p] = {}]

\* Mutant: what is stamped is the format that the last migration led to.
MutStamp(p) ==
  /\ at[p] = "migrate" /\ Due(p, next[p]) = {}
  /\ stamp' = next[p]
  /\ Ends(p)
  /\ UNCHANGED <<fmt, counts, strays>>

\* set_format_stamp, when every migration ran.
Stamp(p) ==
  /\ at[p] = "migrate" /\ Due(p, next[p]) = {}
  /\ stamp' = Supported[p]
  /\ Ends(p)
  /\ UNCHANGED <<fmt, counts, strays>>

\* A migration returns an error or is killed.  What it was writing is cut short: a
\* memory file, or the config, which is left empty, and reads as format 1, or without
\* a number.
Stops(p) ==
  /\ at[p] # "idle"
  /\ mishaps < MaxMishaps /\ mishaps' = mishaps + 1
  /\ \/ UNCHANGED tree
     \/ /\ \E f \in held[p] : fmt' = [fmt EXCEPT ![f] = Cut]
        /\ UNCHANGED stamp
     \/ /\ at[p] = "migrate" /\ Due(p, next[p]) = {}
        /\ stamp' \in {0, 1}
        /\ UNCHANGED fmt
  /\ Ends(p)
  /\ UNCHANGED <<merges, forces, strays>>

-----------------------------------------------------------------------------
\* Everyone else.

\* A file of format m is there, and behind the stamp s.
Older(m, s) == m # 0 /\ s # 0 /\ m < MemoryFormat[s]

\* A file that is not of the format it is, or is being, raised to.
Strays(f, m, s) ==
  IF Older(m, s) \/ \E p \in Migrating : m < Own(p) THEN {f} ELSE {}

\* `review --approve` or `import --commit` writes a new memory in its binary's format.
\* Neither looks at the stamp.
Write(p, f) ==
  /\ at[p] = "idle" /\ fmt[f] = 0
  /\ fmt' = [fmt EXCEPT ![f] = Own(p)]
  /\ strays' = strays \cup Strays(f, Own(p), stamp)
  /\ UNCHANGED <<stamp, run, counts>>

\* A merge brings a memory file and, it may be, the stamp of a team that went ahead,
\* which leaves the files of this branch behind.
Merge(f, m, s) ==
  /\ merges < MaxMerges /\ merges' = merges + 1
  /\ stamp <= s /\ stamp' = s
  /\ fmt' = [fmt EXCEPT ![f] = m]
  /\ strays' = strays \cup Strays(f, m, s) \cup {g \in Files : Older(fmt[g], s)}
  /\ UNCHANGED <<run, forces, mishaps>>

Init ==
  /\ stamp = 0 /\ fmt = [f \in Files |-> 0]
  /\ merges = 0 /\ forces = 0 /\ mishaps = 0
  /\ at = [p \in Procs |-> "idle"]
  /\ next = [p \in Procs |-> 0] /\ todo = [p \in Procs |-> {}]
  /\ held = [p \in Procs |-> {}]
  /\ strays = {}

Run(p) ==
  \/ Apply(p) \/ Applied(p) \/ Stamp(p)
  \/ \E f \in Files : Load(p, f) \/ Rewrite(p, f)

Next ==
  \/ InitRepo
  \/ \E p \in Procs : Begin(p) \/ Run(p) \/ Stops(p) \/ \E f \in Files : Write(p, f)
  \/ \E f \in Files, m \in FileFormats, s \in Formats : Merge(f, m, s)

\* Whoever is told to migrate does so in the end, and runs `init --force` when no
\* format can be read.
Fairness ==
  /\ \A p \in Procs : WF_vars(Begin(p)) /\ WF_vars(Run(p))
  /\ WF_vars(stamp = 0 /\ InitRepo)

Spec == Init /\ [][Next]_vars /\ Fairness

-----------------------------------------------------------------------------
\* Properties.

\* Types; and a binary runs no migration to a format that it does not support.
TypeOK ==
  /\ stamp \in {0} \cup Formats
  /\ fmt \in [Files -> {0, Cut} \cup FileFormats]
  /\ merges \in 0..MaxMerges /\ forces \in 0..MaxForces /\ mishaps \in 0..MaxMishaps
  /\ at \in [Procs -> {"idle", "migrate", "apply"}]
  /\ next \in [Procs -> {0} \cup Formats]
  /\ todo \in [Procs -> SUBSET Files]
  /\ held \in [Procs -> SUBSET Files]
  /\ strays \subseteq Files
  /\ \A p \in Procs :
       /\ held[p] # {} => at[p] = "apply"
       /\ at[p] = "idle" => next[p] = 0
       /\ at[p] = "migrate" => next[p] \in 1..Supported[p]
       /\ at[p] = "apply" => next[p] \in Migrations /\ next[p] < Supported[p]

\* The stamp is written last: however a migration fails, is killed, is run again, or
\* overlaps with that of another release, no file that parses is older than the stamp
\* says, unless it came so, or an overlapping migration wrote it back from what it had
\* read before the other one raised it.  (One that did stays so: migrate finds the
\* stamp up to date.)
OnlyStraysLag == \A f \in Files \ strays : ~Older(fmt[f], stamp)

\* Migrating, again when it failed, leaves nobody with a repository to migrate.
CatchesUp == <>[](stamp # 0 /\ \A p \in Procs : ~Pending(p))
=============================================================================
