# jedimem: formal specification

TLA+ modules for the core logic of jedimem (`src/src/*.rs`), the TLC runs that
check them on small instances, and TLAPS proofs about them for every value of
their constants. `PROJECT.json` lists the components, the runs, the mutants that
each property must catch, the source lines each definition stands for, the
findings, the hazards and the theorems.

## 1. The system

jedimem keeps what a team has learned as one Markdown file per memory under
`.jedimem/memories/`, and compiles the active ones into a block of the
instruction files (`AGENTS.md`, `CLAUDE.md`) that coding agents read. There is no
server and no lock: every command is a short process on a git repository, and
several may run at once in one clone, in several clones, and while git itself
works.

    import --stage ──> refs/jedimem/log ──review──> .jedimem/memories/*.md
                        (staging ref)    approve/       │        ▲ contest
                                         reject         │ compile
                                                        ▼
                                AGENTS.md: user's text + generated block
                                                        ▲
                             git merge: merge driver, post-merge hook

| Component | State | Operations | Talks to |
|---|---|---|---|
| Staging ref (`repo.rs`) | the commit that `refs/jedimem/log` names; git's objects | `stage_files`, `staged_files`, `staged_content`, `drop_staged` | git, one child process per step; `update-ref` is a compare-and-swap |
| Store (`store.rs`) | memory files and their status | `all`, `by_id`, `hashes`, `write`, `set_status`, `stage`, `pending`, `clear_pending`, `promote` | staging ref, file system |
| Review, contest (`main.rs`) | none of their own | `cmd_review`, `cmd_contest` | store, compiler |
| Import (`main.rs`, `importers.rs`) | none | `run_import`, `cmd_import` | store, staging ref |
| Compiler (`compiler.rs`) | the instruction files | `render`, `splice`, `compile_repo` | store, file system |
| Merge driver (`compiler.rs`, `main.rs`) | temporary files | `strip_section`, `merge_driver` | git calls it; it calls `git merge-file` |
| Update check (`update.rs`, `main.rs`) | a cache file per machine | `read_cache`, `write_cache`, `spawn_background_check`, `check_now`; `session-start`, `update` | the remote's tags, detached children |
| Repo format (`migrate.rs`, `main.rs`) | the format stamp in `config.yml` | `init`, `init --force`, `migrate` | memory files |
| Install (`install.rs`, `main.rs`) | agents' settings, git hooks, git config, `.gitattributes` | `install`, `uninstall` | git, JSON files that users and agents edit too |
| Memory files (`memory.rs`) | — | parse, print, hash, validate | store |
| Config, redaction | — | pure functions of text | all |
| Reports: status, doctor, lint, list, why | — | read and print | store |

What is hard here, and what each part must guarantee:

- **Staging ref.** Callers interleave at every git command, are killed between any
  two, and git commands fail. A memory reported staged must not be lost; nothing
  of a call that failed may be seen; history must not be rewritten; a quiet ref
  must never refuse.
- **Store, review, contest.** `promote` spans two places (files, then ref) with no
  transaction, and reads `pending` a second time after the user has chosen. Every
  candidate must end in one place or the other, only what was approved may be
  served, and the block must follow the files.
- **Compiler.** Budgets must hold, nothing may be left out without a word, and the
  block must be a function of the memories, whatever surrounds it, or CI calls the
  file stale for ever. The user's text is not jedimem's to lose.
- **Merge driver.** It runs in the middle of a git merge, perhaps before the memory
  files are merged; a merge may stop on a conflict.
- **Update check.** Sessions, detached children and a manual command share one
  file that is truncated before it is filled. A window must be claimed once, and a
  release must be learned in spite of failures.
- **Install.** Settings are read, changed and written back whole, while users,
  agents and other commands write them too. The user's entries must survive, ours
  be there once or not at all, and uninstall take back what install added.
- **Import.** It reads, among others, the files that compile writes, and is run again
  and again, in slices, on sources that change. What it stores must be new and
  redacted, never the block come back, and every slice must get through.
- **Repo format.** Binaries of several releases work on one tree, each with a format
  of its own. A migration fails halfway, overlaps with that of another release, or is
  undone by `init --force`. The stamp must not claim more than the files hold, and
  whoever is told to migrate must get to the end of it.

## 2. Modules

| Module | Models | State ↔ code |
|---|---|---|
| `StagingPromise` | what callers of the ref rely on | a set of pending memories |
| `StagingRef` | `repo.rs`, one action per git command | `ref` the commit; per process `seen` (`parent`), `tree`, `toShow` (blobs still to be read), `tries` |
| `StagingRefProofs` | its invariants | |
| `Review` | `store.rs`, `cmd_review`, `cmd_contest`, the compile at their end | `status` the files, `block` the delivered memories, per command its place `at` and what it has read; INSTANCEs `StagingRef`, whose calls the commands make |
| `ReviewProofs` | its invariants, on those of `StagingRefProofs` | |
| `UpdateCheck` | `update.rs`, `session-start`, `update` | `cache` what `read_cache` returns, `record` the `Cached` to be written, ages in place of dates |
| `UpdateCheckProofs` | its invariants | |
| `Render` | `render` | `files` the memory files by tier, scope and length |
| `RenderProofs` | its invariants | |
| `Target` | `splice`, `compile_repo`, `strip_section`, `merge_driver` in two clones | `text`, `mems` per clone, `base` the common commit, `merge` how far git is |
| `TargetProofs` | theorems about `splice`, and its invariants on them | |
| `Install` | `install.rs`, `cmd_install` in one clone | `files` the agents' settings, `attrs` and `githooks` whose text is where, per command `todo` (agents, then git hooks, left to visit), `doc` (the settings it has read) and `seen` (the attributes or the hook it has read and is to write) |
| `InstallProofs` | its invariants | |
| `Import` | `importers.rs`, `cmd_import`, `hashes`, beside the other commands | `tree` what the sources say, `file` the memory files, `pending`, `block`; per import `seen` (`existing`) and `got` (`mems`) |
| `ImportProofs` | its invariants | |
| `RepoFormat` | `migrate.rs`, `cmd_init`, `cmd_migrate` | `stamp` what `repo_format` returns, `fmt` the format line of each file; per `migrate` the migrations (`next`) and files (`todo`) still to come, and the file it holds between reading and writing it (`held`) |
| `RepoFormatProofs` | its invariants | |
| `MC*` | constants and symmetry for TLC | |

**StagingRef.** Git names a commit by its content, so a commit is the sequence of
the trees of its ancestors and itself; two equal sequences have one name, the worst
case for a compare-and-swap. A stager goes through `parent` (`RefExists`), `tree`
(`BuildTree`, `commit-tree`) and `cas` (`StagePublish`, or `StageRetry` when the
swap is refused, `Refused` counting the passes). A dropper lists (`StagedFiles`),
reads each kept file (`StagedContent`), and only then reads the parent, rebuilds
and swaps once: the order of `drop_staged`. Failing commands are actions of their
own because the code answers them differently: an error from `check`, an absent
ref from `ref_exists`, an empty list from `staged_files`, a refused pass from
`update-ref`. `Crash` kills a process anywhere. The object store is external and
loses nothing.

**Review.** `PendingList`/`PendingShow` are `Store::pending`, which passes over
what it cannot read. `Match` resolves the handles among the memories found.
`PromoteWrite` writes one file per step, `PromoteClear` calls `drop_staged`,
`RejectClear` does so for the rejected ones, `DropReturns` continues when that call
has returned. `CompileRead` and `CompileSplice` are the read of all files and the
write of the block, with everyone else in between. `Killed` may leave a file cut
short, which makes `Store::all` fail for everyone.

**UpdateCheck.** `SessionRead` finds the cache stale or tells of news; `Claim`
dates the cache now, `Truncate`/`Fill` are `write_cache`, either of which may fail
without the process noticing, since its errors are dropped, `Spawn` starts the child;
`CheckStart`/`Fetch` are `check_now`, whose record begins empty and dated at its
start. Only differences of time matter, so timestamps are ages that stop at stale:
time needs no bound.

**Render.** Memories are numbered in the order of the block within a tier, globs in
the order of their texts; of an entry only its length matters. `Taken` is the loop of
the always tier and of each scope, a recursive function of the memories visited so
far; `Block` puts the sections and the notice together. `WriteFile` and
`Withdraw` are what the other commands and editors do to files.

**Target.** A text is a sequence of tokens: line ends, spaces, words, the two
markers, and the body rendered from a set of memories. `Splice` is translated line
by line, since its properties are about line ends. Git is external: which files
it merges, `git merge-file` (both sides' changes, with or without a conflict, as
lines happen to meet), whether the merged memory files are already in the working
tree when the driver runs (both are allowed; `install.rs` says both occur), and
that a merge which stops on a conflict and is committed by hand runs no
`post-merge` hook.

**Install.** A settings file is a function from its keys to values: lists of
entries, or `Odd` for JSON of a form the code does not expect and passes over or
refuses. An entry is what it is to `is_ours`: the user's, or one that mentions
jedimem (`Hook`, a pinned package, an older one, or a user's own that names it).
`Read` is `read_json` with all that is decided on it, `Write` is `write_json` or the
removal of the file, and anyone may come in between. `SetDriver`,
`ReadAttributes`/`WriteAttributes` and `ReadHook`/`WriteHook` are the clone's part of an
install, each of which may fail and be passed over. `.gitattributes` and the hooks, too, are
read in one step and written in another, from what was read (`seen`); `fs::write`
truncates, so a write that fails midway leaves a beginning of the new content
(`Beginnings`, `HookBeginnings`), which may hold part of the user's text, or none.
`Edit`, `EditAttributes` and `EditHook` are anyone who saves these files; `Killed` may
leave the file that is being written empty or cut short. `last` is history: what the last command promised about each agent. The code
for Codex is that for Claude Code, so the run has one of them and pi.

**Import.** Of a text only this matters: what redaction leaves of it, its hash, and
the bullet that compile makes of it, which stands in a file that import reads.
`Begin` is `hashes()`, `Gather` is `run_import` on what the chosen sources yield
(`Instructions`, `Adrs`, `Owners`, `Reverts`; places may be absent or undecodable),
`Takes` its loop with the hashes met and the limit, `Write` writes one file,
`Compile` and `Stage` end the command. `Approve`, `Reject` and `Contest` are whole
here and step by step in `Review`; `Stage` is one step, as `StagingPromise`
promises. `muddied` is history: some import could not see, as committed, all there
was, because a file was unreadable, a candidate pending or another import running.
The places are some of the twenty-odd that are searched, at least one for each
importer, and two where their order matters.

**RepoFormat.** A release supports a repository format and reads memory files of one
format only (`validate`); a later repository format may keep the memories as they
are. No migration is registered at this commit (`MIGRATIONS` is empty), so which
formats have one is a constant, and what `apply` does is external: its contract
(`migrate.rs:29`, "Must be safe to run twice"), written the way this program writes
every file, unlocked. `Apply` lists the files, `Load` reads one, `Rewrite` writes what
was made of that reading, whatever the file holds by then, and `Stamp` is
`set_format_stamp`. `Stops` is an error or a kill, which may leave the file that is
being written cut short, so that it does not parse (`Cut`), or the config without its
number. `Write` is any command that writes a memory, which none does with an eye on the
stamp; `Merge` brings a file and perhaps a later stamp. `strays` is history: files that
came in a format that was left, or was just being left, and those that a migration
wrote back from a reading older than what another had made of them.

## 3. Runs

Every property of a passing run has a mutant of the code that breaks it
(`Mut...` operators, kept beside the definition they replace).

| Run | Shows | Bounds |
|---|---|---|
| `staging_safety` | types; the ref is exactly what was staged and not dropped while no drop is torn; history keeps everything; nothing unstaged is seen; fast-forwards only; refusals and give-ups are accounted for by commits or failures; each step is a step of `StagingPromise` unless a drop is torn | 2 stagers, 2 droppers, 3 memories, one call each, 2 passes, 1 git failure, kills |
| `staging_loss` | *violation*: a drop loses a concurrent stage | 1 + 1 processes |
| `review_batch` | types and calls in their places; without a mishap nothing leaves the ref undecided; only what was approved is served; the block follows the files; every command and import ends | 2 memories, 1 importer, 1 reviewer, 1 contest, kills, 1 git failure, 1 failing read or write |
| `review_undecided` | *violation*: a failing read in the second `pending` loses the candidate | 1 reviewer |
| `update_window` | one claim per window unless sessions or writers met on the cache, or a write to it was lost; a release is learned | 2 sessions, 1 check at a time and `update`, 1 fault (a failed fetch, spawn or write, or a kill), slow processes, 1 release |
| `render_budget` | budgets hold, nothing is silent, first fit, earlier memories stand | all 17³ arrangements of 3 memories, 2 globs (one of them `**`), 2 lengths |
| `target_block` | one block per text, stable, showing the clone's memories, user's words kept, also in merges that stop | 2 clones, 2 memories, 2 words, 8 starting texts, 2 edits or changes, any number of compiles, merges and pulls |
| `target_merge` | *violation*: a concluded merge lacks a teammate's memory | the same |
| `install_settings` | our entry is there once or not at all, as the last command says; install is idempotent and uninstall its inverse, up to empty lists and objects; users' entries survive, and a command replaces no text of git hooks or attributes but what was saved after its reading | 2 agents, 2 commands, 5 settings each, 2 versions, 1 edit, kill or write cut short, 1 git hook, 1 clone with a user's `.gitattributes` |
| `install_clobbers` | *violation*: a hook that is not UTF-8 is overwritten | the same, in a clone with such a hook |
| `import_again` | one candidate per hash; no two stored memories hash alike unless an import was muddied; what is stored is the redacted form of what a source says; the block shows all that is active; imports that are repeated commit everything | 5 texts (2 differ in case, 1 has a secret, 1 is a bullet), 6 places in 2 trees and 3 readings, 2 choices of `--from`, `--limit` none or 1, 1 import at a time, 1 edit, 1 mishap |
| `format_migrate` | no migration past what is supported; no file that parses, but a stray, is behind the stamp; the repository catches up | 4 formats, 2 migrations, 2 releases, the newer twice, 2 files, 1 merge, 1 `init --force`, 1 failure |

Why the bounds are enough. A retry needs one rival commit, so two passes show a
retry that succeeds and a loop that gives up; two droppers and a stager show each
pair of calls overlapping. A second memory makes a batch. One failure at any point shows what the code
makes of it; the code keeps no state from failure to failure. A window of one tick
separates "fresh" from "stale". In `Render` two entries of the lengths 2 and 3
fit a budget of 6 and two of 3 do not, line ends counted, and a third memory comes
before, between or after. Two changes in `Target` let each clone make one, which is
what a merge needs; compiles, merges and pulls are not bounded. In `Install` two
commands meet at every step or follow one another, one edit falls into the window
between a read and a write, and the settings hold each form that the code tells
apart, lists of up to three entries under two events. In `Import` a limit of 1 makes a slice of
any two texts, the texts hold each pair that redaction or hashing equates, and one
edit changes every source between two imports; a text is stored once (`MaxCopies`), so
twins show as two texts that hash alike, one in each tree; several imports at once are what
`muddied` excludes, and the theorems hold for any number. In `RepoFormat` two releases
overlap, a release overlaps with itself, one migration is not needed by the older
binary and the last format has none; two files let one be rewritten before a failure
and one after it. Two reviewers of one memory at once, beyond `review_batch`, and
writers without drops, beyond `staging_safety`, are covered by the theorems. `MaxAttempts` is
100 in the code, `TTL` a day, budgets 6000 and 4000 characters: the theorems hold
for these values where the runs use small ones.

**Fairness.** Processes that were started are scheduled by the operating system:
weak fairness of each process's own steps. Nobody has to run a command, release a
version or fail, and no fairness makes git succeed. In `UpdateCheck` someone goes
on starting sessions (or nothing could ever be learned) and time passes; `Spawn`
is strongly fair because a slot for a child is free again and again, which stands
for the unbounded supply of processes. In `Import` someone goes on importing everything
with `--commit` (strongly fair, for a dry run or a choice of sources is always
possible in its place), and a file that was cut short is mended. In `RepoFormat`
whoever is told to migrate does so in the end, and whoever finds no format in the
config runs `init`, with `--force` where there is one: the code's messages tell them to.
`CHECK_DEADLOCK FALSE` appears where processes run out of calls, commands end, or the
repository is up to date and the bounds are spent.

## 4. Proofs

All proofs are for arbitrary constants, from the named assumptions only: roles are
disjoint, bounds are naturals, a reviewer may call twice; the files a repository starts
with, a user saves or a clone brings have the form that the code can meet
(`TextsAssumption`, `DraftsAssumption`, `ClonesAssumption`); in `Target` there are two
clones; in `Install` the marks for "no file", "not JSON" and "of another form" are not
themselves settings (`FormsAssumption`). TLC evaluates each on the run's values.

*Loops.* `render`'s loop, the filtering of a list and `git merge-file`'s choice of lines
are recursive functions over the numbers up to some `n`. No installed prover can use the
library's induction theorems, so the induction is done by hand. `LeastNumber`, the
well-ordering of the naturals, comes from the well-foundedness of finite sets under
inclusion; `CountingUp`, that a set which holds 0 and with each number the next holds all
up to `n`, follows by looking at the least number it lacks. `Recursion` uses it to show
that a function with the loop's equations exists (`Unfolds`), hence that the `CHOOSE`
behind the definition picks one. From there a loop is proved as an invariant: true at the
start, kept by a step.

- **StagingRefProofs.** `Typing` strengthens the types by `ArgsKnown` (a call in
  progress has fresh ids and a pass left). The contents of the ref need `RefInv` ==
  types, `Prepared`, and the three content invariants together: `PendingIsExact` is
  not inductive alone, because it is the compare-and-swap that makes the tree a
  process prepared earlier right for the ref it replaces. `Prepared` therefore says
  what such a tree is worth: it is the tree of the parent it was built on, plus the
  call's files (`StagerPrepared`), or the listed tree less the dropped ids
  (`DropperPrepared`), and no two callers stage the same id (`FreshFiles`). From
  `RefInv` follow `ExactPending`, `KeptInHistory`, `OnlyStaged`, `NeverRewinds`,
  `StagingEvictsNothing` and the refinement `PromiseKept`; with no droppers,
  `WritersImplementPromise` and `WritersLoseNothing`. `Contention` adds
  `StaleParent`: a stager whose parent is out of date already owes the pass it will
  lose; `RefusalsAccounted` and `GiveUpAccounted` follow.
- **ReviewProofs.** `CommandInv` puts the ref's invariant, through an INSTANCE of
  `StagingRefProofs`, beside the commands' types and `KnownIds` (what a command
  holds was staged); `CommandsUseTheRef` carries the ref's theorems over to the
  commands. `ServedWasApproved` needs the snapshots of compiles in
  flight; `BlockFollowsFiles` that a block which differs from the files is owed by
  a command still running, failed or killed; `LeavesOnlyDecided` speaks
  of behaviours without a mishap, kills apart (the finding shows why it must), and needs
  `DecisionInv`: what a promoting review approves is still to be read, still to be written, or decided.
- **UpdateCheckProofs.** `ClaimedOnce` needs `ClaimInv`: while nobody has met on the
  cache and no write to it was lost, at most one session claims, it decided on an expired
  window, what it writes is as old as its claim, and the cache is never older than the last
  claim unless a claim is being made. It covers failed fetches and spawns, and checks
  that are killed or fail before their write.
- **RenderProofs.** `LoopInv` says of the loop after `n` memories that its entries are
  distinct and among the first `n` of the section (`InItsSection`), that `used` counts
  their characters and line ends and exceeds the budget by the last line end at most
  (`CountsChars`), that `demoted` counts the others (`CountsRest`), and that each of the
  `n` is listed exactly if it fitted after those before it (`FitsFirst`). The last is
  what makes `TakenInTurn` and `NoneCrowdedOut` follow: two sections that agree up to `n`
  are the same up to `n`. `NothingSilent` adds the sections up: they are disjoint, and
  the sum over the globs counts their union (`Together`).
- **TargetProofs.** First `splice` alone, for texts over any alphabet and of any length.
  `SpliceShape`: what it leaves of a tidy text (no marker, or a begin marker before the
  first end marker) is a head that ends in ink and an empty line, the section, and
  a tail that begins with a line end and ink. `SplicedAgain`: splicing such a text
  finds the same head and tail. Hence `SpliceSettles` (idempotence), `SpliceForgets`
  (other memories change the section only) and `SpliceShows`.
  Then what each operation does to a well-formed text, one with at most one block
  between two markers, filled by render, and no word twice: `InsertKeeps` and
  `DeleteKeeps` (typing around the block leaves it whole and what it shows unchanged),
  `StripKeeps`, `CompileKeeps` (the words stay, the block shows what it was compiled
  from), `MergeFileKeeps` and `MergeTextsKeep` (a merge has the words of both sides less what
  either deleted; one with a conflict has these and perhaps others of the two sides). Words are counted by cutting a text in two and gluing it
  together again (`Halves`, `GlueWords`, `GlueSingly`).
  With these, `Typing` is inductive as it stands, `TextsSettle` follows from it, and
  `BlockIsShown` is inductive beside it: a merge leaves its clone "merged", `stopped` or
  `unshown` until something compiles, and a pull takes only what is concluded or quiet.
  `WordsAreKept` goes through the steps once more; that a fast-forward brings a merge of
  words needs that the clone it reaches still has the words of the common commit.
- **InstallProofs.** Lists are filtered and appended to, so each change of a settings file
  is described place by place: what an entry list holds of other people's entries
  (`Rest`, `KeptOf`) is the same before and after, and ours is its last entry or absent
  (`EndsWithOurs`, `PutsOurs`). `InstallIsIdempotent` and `InstallIsReversible` are
  laws of the two functions for every file a user can save, of any length. `Typing` rests
  on `CommandOK`: what a command holds between its read and its write is settings it can take
  apart, or writing them back could leave anything. `ToldIsSo` is inductive beside it, since only the step that
  records what was told can make it false. `UserEntriesAreKept` holds of every step.
  `ReadableTextIsKept` needs `SeenFree`: a command only holds, to be written, a hook that was
  absent or read as blank, so what it replaces was either that, or saved since.
- **ImportProofs.** Three invariants on top of the types. `IWritten`: what is stored, and
  what any import holds, is the redacted form of what some tree says; it holds because
  under the default markers the bullets of the block are not among what is found.
  `ITwins` adds to `NoTwins` what an import knows between its steps (`Knows`): nothing
  is pending and nobody else imports, while it gathers it has seen the hashes of all
  that is committed, and what it still has to write is none of them. `IBlock`: until
  something fails every file can be read, and the block is behind only while an import
  writes. Hence `NothingEchoes`, `ImportsOnce` and `BlockFollowsFiles`, for any texts,
  trees, limits and number of imports.
- **RepoFormatProofs.** `OnlyStraysLag` is not inductive: it says nothing of a migration
  halfway through. `Progress` does: before a step every file has reached the format
  that the step upgrades from, and inside it every file has reached the next or is
  still to be read or is held, unchanged, for its rewriting; a file that another
  migration wrote back from an older reading is a stray from then on. Two facts about the constants carry it: no file format lies
  between those of a release and the next (`NothingBetween`), and steps without a
  migration change no file (`Skips`).

Only model-checked: everything about liveness (`CommandsEnd`, `ReleaseIsLearned`,
`EverythingLands`, `CatchesUp`), which needs fairness and `ENABLED`. Every other property
of a passing run is a theorem.

## 5. Findings

Runs that show the code doing what its documents or comments deny:

1. `staging_loss`. `drop_staged` reads its parent after it has listed what to keep
   (`repo.rs:326`): a `stage_files` that publishes in between is erased by a swap
   that succeeds. README:187 promises "never loses a memory". It stays in the ref's
   history, which no command reads.
2. `review_undecided`. `promote` clears every id it was given, also those its own
   read of `pending` failed to find (`store.rs:142`).
3. `target_merge`. A merge that stops on a conflict after the driver ran on the old
   working tree is committed with a block that lacks the teammate's memories
   (`main.rs:1427`, `install.rs:254`).
4. `install_clobbers`. A git hook that is not UTF-8 is read as `""`, taken for blank
   and overwritten (`install.rs:266`); a `.gitattributes` too (`install.rs:203`).

Seen while modelling, not kept as runs of their own:

- Two `drop_staged` calls that listed the same commit can both succeed; the later
  puts back what the other dropped (`repo.rs:326`).
- A review's compile that read the files before a contest writes the contested
  memory back into the block (`main.rs:559`); `BlockIsActive` excludes it by
  `outdated`.
- `promote` writes a candidate as active over a file that was contested since it was
  read (`store.rs:136`), although ARCHITECTURE.md:265 says of contest "stop serving
  it".
- A stale update cache is never reported, only replaced (`main.rs:1142`): sessions
  more than a window apart never announce a release, although README.md:85 says
  "result is read from cache next session".
- `uninstall` "removes exactly what we added" (`install.rs:13`), but it leaves the git
  hooks, the driver's registration and the lines of `.gitattributes`, and it takes a
  user's own entry that mentions jedimem, or a whole entry of which one command does
  (`install.rs:124`), and a settings file that was `{}` before.
- A kill inside `fs::write`, or an agent that saves its settings between jedimem's read
  and write, costs the user's entries (`install.rs:116`, `install.rs:333`), and likewise
  the user's lines of `.gitattributes` (`install.rs:203`, `install.rs:222`) or a git hook
  saved just then (`install.rs:266`, `install.rs:276`); the properties except these cases
  by name.
- A hook of ours that was cut short before it names jedimem reads as the user's own and is
  never repaired (`install.rs:271`).
- `write_cache` drops the errors of `create_dir_all` and `fs::write` (`update.rs:72`,
  `update.rs:74`): with a cache that cannot be written every session claims the window again
  and starts a check. `OncePerWindow` excludes writes that are lost by `crossed`.
- `approved N` counts handles, not files written (`main.rs:548`).
- Two sessions that start together both spawn a check (`update.rs:183-185` argues
  that they do not); `OncePerWindow` excludes it by `crossed`.
- A failing check erases the release an earlier one recorded (`update.rs:161`).
- Memories demoted by a budget are not listed under "Available on request", though
  the notice says "demoted to on-request. Run `jedimem status` to see which"
  (`compiler.rs:117-125`), and `cmd_status` estimates entries by another formula.
- A text with one marker only is not what splice expects (`compiler.rs:158`): after a
  lone begin marker the next compile but one drops the user's text between it and the
  new block; after a lone end marker each compile adds a block. The model's edits
  leave markers whole, and the theorems assume tidy texts.
- `import --stage` that is run twice before a review stages everything twice, and what was
  rejected is staged again: candidates are compared with the committed files only
  (`main.rs:268`), although "Re-running imports nothing new" (`importers.rs:21`).
  `NoTwins` excludes it by `muddied`. For the same reason `--limit` offers the same first
  slice again until it is approved.
- The block is known by the markers that `config.rs:31` defaults to (`importers.rs:114`):
  with others configured, import reads its own block, "the file-level version of the
  self-amplification loop" (`importers.rs:254`). `StoredIsWritten` assumes the default.
- A killed `import --commit` leaves memories that are in no block, and its repetition says
  "Nothing new to import" and returns before it compiles (`main.rs:285`, `main.rs:393`).
- Only the first CODEOWNERS file that can be read counts (`importers.rs:388`), as for its
  hosts, but one that exists and is empty hides the others too.
- A memory of an older format that comes under a current stamp, from an older binary or a
  merged branch, is never migrated: `status` says up to date and `Store::all` fails on the
  file (`migrate.rs:82`, `memory.rs:295`). session-start has no word about formats then; it
  calls the instruction files stale, since it compiles an empty list in place of what it
  cannot read (`main.rs:1122`), and the `jedimem compile` it advises fails. These are the
  strays. An older binary refuses to migrate, but reviews and imports all the same.
- Nothing keeps two migrations apart: one that read a file before another raised it would
  write it back in the older format, under the newer stamp, and no later run looks at it.
- `init --force` stamps format 1 whatever the files are, and makes a new `repo_id`, which
  the file it writes calls "Written once" (`main.rs:222`). A migration of an older
  release that overlaps with a newer one lowers the stamp; migrating again mends both.
- A config whose format is no number is "not initialised" to `migrate` and "already
  initialised" to `init` (`migrate.rs:60`, `main.rs:210`).
- The migration machinery is "tested with a synthetic migration" (`migrate.rs:36`); the
  tests hold none. `docs/REPO-PLAN.md:242` has `migrate` commit, README:111 not.
- The driver merges stripped texts, so a base without a block and sides with one
  can conflict over the line ends that strip_section leaves (`compiler.rs:202`).

## 6. Not modelled

- The text of memory files (`memory.rs`), the layers and syntax of the configuration
  (`config.rs`) and the patterns of redaction (`redact.rs`): pure functions of text.
  Redaction and the hash are functions in `Import`, the format rule of `validate` is in
  `RepoFormat`; the other rules reject a file as a whole, which is the status "cut" of
  `Review`. `may_be_superseded_by` is called by no command.
- What importers make of a line (kinds, scopes, lengths, evidence): `Import` keeps which
  place a text comes from and no more of it.
- Entries' wording, and instruction files that are cut by a kill in the middle of
  `fs::write`: a text is written in one step in `Target`.
- A clock that is set back: `UpdateCheck` keeps ages.
- A clone in which the merge driver is not registered: `Target` has every clone with the
  driver, where `install` ran, since without it git merges the text by itself.
- Migrations as such: none exists. `RepoFormat` has what `run` and the comments ask of one.
- Edits inside or of the markers.
- Reports (status, doctor, lint, list, why), `pause`, which writes one line of the user's own
  configuration, the launcher, plugins and the CI
  workflow: they keep no state.

## 7. Plan

Done, in this order: the staging ref and its proofs; review and contest on it and
their proofs; the update check and its proofs; render; the target file, merges and
the proofs about splice; install and uninstall; import and its proofs; the repository
format and its proofs; the proofs of render's loop, of install and uninstall, and of the
target file under edits and merges.

Left, for whoever extends this:

1. Edits of the markers, and kills in the middle of a write, in `Target`: what splice
   still promises of a text that is not tidy.
2. `import` and `review` on one staging ref command by command, as a composition of
   `Import` with `Review`, and the refinement of `StagingPromise` by that.
