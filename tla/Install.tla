------------------------------- MODULE Install -------------------------------
(***************************************************************************)
(* `jedimem install` and `jedimem uninstall` (src/install.rs) in one       *)
(* clone: the agents' JSON settings, which users and agents edit as well,  *)
(* the merge driver with its lines in .gitattributes, and the git hooks.   *)
(* Nothing is locked: a file is read, and later truncated and written,     *)
(* while other commands run and the file may be edited.                    *)
(*                                                                         *)
(* A settings file is a function from its keys to values.  Of the values,  *)
(* `packages` is a list of entries and `hooks` a function from events to   *)
(* lists of entries; whatever has another form is Odd.                     *)
(***************************************************************************)
EXTENDS Sequences, Naturals

CONSTANTS
  AllAgents,   \* ALL_AGENTS: the order in which a command visits the agents
  Hook,        \* jedimem_hook_entry(SessionStart)
  Pins,        \* the package references of the versions that may be installed
  NoPin,       \* no such reference
  Mentions,    \* other entries that name jedimem: older ones, or a user's own
  Entries,     \* all that a list of a settings file may hold
  Events,      \* the events an agent has hooks for
  Absent, Bad, \* no file; one that is not JSON or cannot be read
  Odd,         \* JSON of a form that jedimem does not expect
  Drafts,      \* bound: the settings files that users write
  Clones,      \* bound: .gitattributes and git hooks as they are at first
  Targets,     \* the instruction files, config's compile_targets
  Texts,       \* bound: what users write into .gitattributes
  HookNames,   \* post-merge, post-checkout, post-rewrite
  Procs,       \* processes, each of which runs one command
  MaxEdits     \* bound: edits while commands run, kills, and writes cut short

VARIABLES
  files,    \* the settings file of each agent
  attrs,    \* .gitattributes: our lines, and whose text is around them
  githooks, \* the content of each git hook
  driver,   \* whether this clone's git config names the merge driver
  at,       \* where each command is
  mode,     \* install or uninstall
  pin,      \* --pin
  todo,     \* agents, later git hooks, that the command has yet to visit
  doc,      \* the settings it has read
  seen,     \* the attributes or the git hook it has read and is to write
  edits

\* History: what the last command that dealt with an agent's file promised.
VARIABLE last

command == <<at, mode, pin, todo, doc, seen>>
vars == <<files, attrs, githooks, driver, command, edits, last>>

-----------------------------------------------------------------------------
(* Settings. *)

Agents == {AllAgents[i] : i \in DOMAIN AllAgents}
Names == {HookNames[i] : i \in DOMAIN HookNames}
IsPi(a) == a = "pi"

\* An entry is ours if one of its commands contains "jedimem", whoever wrote it.
Ours == {Hook} \cup Pins \cup Mentions

\* The keys of a settings file; "rest" is for all that jedimem does not look at.
Keys == {"hooks", "packages", "rest"}

\* A list of entries, or something else; hooks map events to such values.
Values == Seq(Entries) \cup {Odd}
IsHooks(hooks) == \E es \in SUBSET Events : hooks \in [es -> Values]
IsSettings(d) ==
  /\ DOMAIN d \subseteq Keys /\ d = [k \in DOMAIN d |-> d[k]]
  /\ "hooks" \in DOMAIN d => d["hooks"] = Odd \/ IsHooks(d["hooks"])
  /\ "packages" \in DOMAIN d => d["packages"] \in Values
  /\ "rest" \in DOMAIN d => d["rest"] = Odd
IsFile(file) == file \in {Absent, Bad, Odd} \/ IsSettings(file)

\* What .gitattributes and git hooks may hold: text of users', what a write that was
\* cut short has left, and bytes that are not UTF-8.
Unread == {"none", "cut", "undecodable"}
Attrs == [text : Texts \cup Unread, lines : SUBSET Targets]
Hooks == {"absent", "blank", "undecodable", "mentions", "theirs", "cut"}

ASSUME AgentsAssumption == AllAgents \in Seq(Agents) /\ HookNames \in Seq(Names)
ASSUME EntriesAssumption == Ours \subseteq Entries /\ NoPin \notin Pins
ASSUME EventsAssumption == "SessionStart" \in Events /\ Events \cap Keys = {}
ASSUME FormsAssumption ==
  /\ Absent # Bad /\ Absent # Odd /\ Bad # Odd
  /\ \A form \in {Absent, Bad, Odd}, ks \in SUBSET Keys, es \in SUBSET Events :
       form \notin [ks -> [es -> Values] \cup Values]
  /\ Odd \notin Seq(Entries) /\ ~IsHooks(Odd)
ASSUME DraftsAssumption == \A file \in Drafts : IsFile(file)
ASSUME ClonesAssumption ==
  \A clone \in Clones : clone.attrs \in Attrs /\ clone.githooks \in [Names -> Hooks]

\* What a list holds besides some entries, in its order.
Without(list, entries) ==
  LET upTo[n \in 0..Len(list)] ==
        IF n = 0 THEN << >>
        ELSE IF list[n] \in entries THEN upTo[n - 1] ELSE Append(upTo[n - 1], list[n])
  IN  upTo[Len(list)]

Others(list) == Without(list, Ours)

\* The empty JSON object.
Empty == [k \in {} |-> Odd]

IsDoc(file) == file \notin {Absent, Bad, Odd}
Get(f, key, default) == IF key \in DOMAIN f THEN f[key] ELSE default
Put(f, key, value) == [k \in DOMAIN f \cup {key} |-> IF k = key THEN value ELSE f[k]]

MutMergeHooksAppends(hooks) ==
  LET list == Get(hooks, "SessionStart", << >>)
  IN  IF list = Odd THEN hooks ELSE Put(hooks, "SessionStart", Append(list, Hook))

MutMergeHooksReplaces(hooks) == Put(hooks, "SessionStart", <<Hook>>)

\* Our entry comes last and replaces those of before; an Odd value stays.
MergeHooks(hooks) ==
  LET list == Get(hooks, "SessionStart", << >>)
  IN  IF list = Odd THEN hooks ELSE Put(hooks, "SessionStart", Append(Others(list), Hook))

\* Only the event that is registered today, not those of earlier versions.
MutStripHooksOfToday(hooks) ==
  LET today == Others(Get(hooks, "SessionStart", << >>))
      mine  == IF Get(hooks, "SessionStart", Odd) = Odd \/ today # << >> THEN {} ELSE {"SessionStart"}
  IN  [e \in DOMAIN hooks \ mine |->
         IF e # "SessionStart" \/ hooks[e] = Odd THEN hooks[e] ELSE today]

StripHooks(hooks) ==
  [e \in {e \in DOMAIN hooks : hooks[e] = Odd \/ Others(hooks[e]) # << >>} |->
     IF hooks[e] = Odd THEN Odd ELSE Others(hooks[e])]

\* The error returns of install_agent.
Accepts(a, d) ==
  LET key == IF IsPi(a) THEN "packages" ELSE "hooks" IN Get(d, key, << >>) # Odd

Installed(a, d, version) ==
  IF IsPi(a) THEN Put(d, "packages", Append(Others(Get(d, "packages", << >>)), version))
             ELSE Put(d, "hooks", MergeHooks(Get(d, "hooks", Empty)))

MutStrippedHooksOnly(d) ==
  IF Get(d, "hooks", Odd) = Odd THEN d
  ELSE LET kept == StripHooks(d["hooks"])
       IN  [k \in {k \in DOMAIN d : k # "hooks" \/ kept # Empty} |-> IF k = "hooks" THEN kept ELSE d[k]]

\* uninstall_agent takes our entries out of either key, and keys that are empty.
Stripped(d) ==
  LET kept == [k \in DOMAIN d |-> IF d[k] = Odd THEN Odd
                                  ELSE IF k = "hooks" THEN StripHooks(d[k]) ELSE Others(d[k])]
  IN  [k \in {k \in DOMAIN d : kept[k] = Odd \/ DOMAIN kept[k] # {}} |-> kept[k]]

\* What settings hold at a key or for an event; nothing there is the empty list.
Places == Events \cup Keys
Under(d, place) ==
  LET hooks == Get(d, "hooks", Odd)
  IN  IF place \in Events THEN IF hooks = Odd THEN << >> ELSE Get(hooks, place, << >>)
      ELSE IF place = "hooks" /\ hooks # Odd THEN << >>
      ELSE Get(d, place, << >>)

\* Whether uninstall_agent takes an entry out.
Shrinks(d) ==
  \E place \in Places : Under(d, place) # Odd /\ Others(Under(d, place)) # Under(d, place)

-----------------------------------------------------------------------------
(* The commands. *)

\* cmd_install: some agents are named, present or all wanted.
Start(p, how, wanted, version) ==
  /\ at[p] = "idle"
  /\ IF how = "install" THEN version \in Pins ELSE version = NoPin /\ wanted # {}
  /\ mode' = [mode EXCEPT ![p] = how]
  /\ pin' = [pin EXCEPT ![p] = version]
  /\ todo' = [todo EXCEPT ![p] = Without(AllAgents, Agents \ wanted)]
  /\ at' = [at EXCEPT ![p] = IF wanted = {} THEN "driver" ELSE "read"]
  /\ UNCHANGED <<files, attrs, githooks, driver, doc, seen, edits, last>>

\* The end of a process, which forgets all it has in memory.
Exit(p, how) ==
  /\ at' = [at EXCEPT ![p] = how]
  /\ mode' = [mode EXCEPT ![p] = "none"]
  /\ pin' = [pin EXCEPT ![p] = NoPin]
  /\ todo' = [todo EXCEPT ![p] = << >>]
  /\ doc' = [doc EXCEPT ![p] = Empty]
  /\ seen' = [seen EXCEPT ![p] = "nothing"]

Ends(p) == Exit(p, "done")

\* Mutant: the last agent of an uninstall is visited again.
MutNextAgentStays(p) ==
  /\ todo' = [todo EXCEPT ![p] = Tail(@)]
  /\ doc' = [doc EXCEPT ![p] = Empty]
  /\ at' = [at EXCEPT ![p] = IF mode[p] = "install" /\ Len(todo[p]) = 1 THEN "driver" ELSE "read"]
  /\ UNCHANGED <<mode, pin, seen>>

NextAgent(p) ==
  IF Len(todo[p]) = 1 /\ mode[p] = "uninstall" THEN Ends(p)
  ELSE /\ todo' = [todo EXCEPT ![p] = Tail(@)]
       /\ doc' = [doc EXCEPT ![p] = Empty]
       /\ at' = [at EXCEPT ![p] = IF Len(todo[p]) > 1 THEN "read" ELSE "driver"]
       /\ UNCHANGED <<mode, pin, seen>>

WillWrite(p, d) ==
  /\ at' = [at EXCEPT ![p] = "write"]
  /\ doc' = [doc EXCEPT ![p] = d]
  /\ UNCHANGED <<mode, pin, todo, seen, last>>

\* read_json, and all that install_agent or uninstall_agent decide on it.
ReadInstall(p, file) ==
  LET a == Head(todo[p])
      d == IF file = Absent THEN Empty ELSE file
  IN  IF file \in {Bad, Odd} \/ ~Accepts(a, d) THEN Ends(p) /\ UNCHANGED last
      ELSE WillWrite(p, d)

ReadUninstall(p, file) ==
  IF file = Bad THEN Ends(p) /\ UNCHANGED last
  ELSE IF IsDoc(file) /\ (Stripped(file) = Empty \/ Shrinks(file)) THEN WillWrite(p, file)
  ELSE NextAgent(p) /\ last' = [last EXCEPT ![Head(todo[p])] = "uninstalled"]

Read(p) ==
  /\ at[p] = "read"
  /\ LET file == files[Head(todo[p])]
     IN  IF mode[p] = "install" THEN ReadInstall(p, file) ELSE ReadUninstall(p, file)
  /\ UNCHANGED <<files, attrs, githooks, driver, edits>>

WriteInstalled(p, a) ==
  /\ files' = [files EXCEPT ![a] = Installed(a, doc[p], pin[p])]
  /\ last' = [last EXCEPT ![a] = "installed"]
  /\ NextAgent(p)

\* A file with nothing else in it is removed, which fails when it is gone.
WriteStripped(p, a) ==
  LET d == Stripped(doc[p])
  IN  IF d = Empty /\ files[a] = Absent THEN Ends(p) /\ UNCHANGED <<files, last>>
      ELSE /\ files' = [files EXCEPT ![a] = IF d = Empty THEN Absent ELSE d]
           /\ last' = [last EXCEPT ![a] = "uninstalled"]
           /\ NextAgent(p)

Write(p) ==
  /\ at[p] = "write"
  /\ IF mode[p] = "install" THEN WriteInstalled(p, Head(todo[p])) ELSE WriteStripped(p, Head(todo[p]))
  /\ UNCHANGED <<attrs, githooks, driver, edits>>

\* Something happens that no command means to do.
Mishap == edits < MaxEdits /\ edits' = edits + 1

ToGitHooks(p) ==
  /\ at' = [at EXCEPT ![p] = "githooks"]
  /\ todo' = [todo EXCEPT ![p] = HookNames]
  /\ seen' = [seen EXCEPT ![p] = "nothing"]
  /\ UNCHANGED <<mode, pin, doc>>

\* Two `git config` commands, in every clone; an error skips the attributes.
SetDriver(p) ==
  /\ at[p] = "driver"
  /\ \/ driver' = TRUE /\ at' = [at EXCEPT ![p] = "attributes"]
        /\ UNCHANGED <<mode, pin, todo, doc, seen>>
     \/ ToGitHooks(p) /\ UNCHANGED driver
  /\ UNCHANGED <<files, attrs, githooks, edits, last>>

\* The lines that are missing are added; a file that is not UTF-8 reads as empty.
Readable(a) == IF a.text = "undecodable" THEN [text |-> "none", lines |-> {}] ELSE a
WithLines(a) == [Readable(a) EXCEPT !.lines = @ \cup Targets]

ReadAttributes(p) ==
  /\ at[p] = "attributes"
  /\ IF Targets \subseteq Readable(attrs).lines THEN ToGitHooks(p)
     ELSE /\ at' = [at EXCEPT ![p] = "attrwrite"]
          /\ seen' = [seen EXCEPT ![p] = attrs]
          /\ UNCHANGED <<mode, pin, todo, doc>>
  /\ UNCHANGED <<files, attrs, githooks, driver, edits, last>>

\* fs::write truncates first: a write that is cut short leaves a beginning, of the
\* user's text as well, and perhaps of a character.
Beginnings(a) ==
  [text : IF a.text = "none" THEN {"none"} ELSE {a.text} \cup Unread, lines : SUBSET a.lines]

\* It may also fail before it begins.  The command goes on in each case.
WriteAttributes(p) ==
  /\ at[p] = "attrwrite"
  /\ \/ attrs' \in {attrs, WithLines(seen[p])} /\ UNCHANGED edits
     \/ attrs' \in Beginnings(WithLines(seen[p])) /\ Mishap
  /\ ToGitHooks(p)
  /\ UNCHANGED <<files, githooks, driver, last>>

\* Mutant: any hook that does not mention jedimem is replaced.
MutFree(hook) == hook # "mentions"

\* A hook is written if there is none or it reads as blank.
Free(hook) == hook \in {"absent", "blank", "undecodable"}

\* The next hook is looked at; there may be none left, or no hooks directory at all.
ReadHook(p) ==
  /\ at[p] = "githooks"
  /\ \/ /\ todo[p] # << >>
        /\ IF Free(githooks[Head(todo[p])])
             THEN /\ at' = [at EXCEPT ![p] = "hookwrite"]
                  /\ seen' = [seen EXCEPT ![p] = githooks[Head(todo[p])]]
                  /\ UNCHANGED todo
             ELSE todo' = [todo EXCEPT ![p] = Tail(@)] /\ UNCHANGED <<at, seen>>
        /\ UNCHANGED <<mode, pin, doc>>
     \/ todo[p] \in {<< >>, HookNames} /\ Ends(p)
  /\ UNCHANGED <<files, attrs, githooks, driver, edits, last>>

\* The beginnings of our hook: it names jedimem in its second line.
HookBeginnings == {"blank", "cut", "mentions"}

WriteHook(p) ==
  /\ at[p] = "hookwrite"
  /\ \/ /\ githooks' = [githooks EXCEPT ![Head(todo[p])] = "mentions"]
        /\ at' = [at EXCEPT ![p] = "githooks"]
        /\ todo' = [todo EXCEPT ![p] = Tail(@)]
        /\ seen' = [seen EXCEPT ![p] = "nothing"]
        /\ UNCHANGED <<mode, pin, doc, edits>>
     \/ Ends(p) /\ UNCHANGED <<githooks, edits>>
     \/ /\ Ends(p) /\ Mishap
        /\ \E content \in HookBeginnings : githooks' = [githooks EXCEPT ![Head(todo[p])] = content]
  /\ UNCHANGED <<files, attrs, driver, last>>

-----------------------------------------------------------------------------
(* Everyone else. *)

\* A user, or the agent itself, saves its settings.
Edit(a, file) ==
  /\ Mishap
  /\ files' = [files EXCEPT ![a] = file]
  /\ last' = [last EXCEPT ![a] = "none"]
  /\ UNCHANGED <<attrs, githooks, driver, command>>

\* A user, or a pull, saves .gitattributes.
EditAttributes(text, lines) ==
  /\ Mishap
  /\ attrs' = [text |-> text, lines |-> lines]
  /\ UNCHANGED <<files, githooks, driver, command, last>>

\* A user, or another tool, saves or removes a git hook.
EditHook(h, content) ==
  /\ Mishap
  /\ githooks' = [githooks EXCEPT ![h] = content]
  /\ UNCHANGED <<files, attrs, driver, command, last>>

\* A command is killed; in fs::write it leaves the file empty or cut short.  For
\* settings this is also a write that fails, since that ends the command.
Killed(p) ==
  /\ Mishap
  /\ at[p] \notin {"idle", "done", "killed"}
  /\ Exit(p, "killed")
  /\ \/ UNCHANGED <<files, attrs, githooks, last>>
     \/ /\ at[p] = "write"
        /\ \E file \in {Empty, Bad} : files' = [files EXCEPT ![Head(todo[p])] = file]
        /\ last' = [last EXCEPT ![Head(todo[p])] = "none"]
        /\ UNCHANGED <<attrs, githooks>>
     \/ /\ at[p] = "attrwrite"
        /\ attrs' \in Beginnings(WithLines(seen[p]))
        /\ UNCHANGED <<files, githooks, last>>
     \/ /\ at[p] = "hookwrite"
        /\ \E content \in HookBeginnings : githooks' = [githooks EXCEPT ![Head(todo[p])] = content]
        /\ UNCHANGED <<files, attrs, last>>
  /\ UNCHANGED driver

-----------------------------------------------------------------------------
Init ==
  /\ files \in [Agents -> Drafts]
  /\ \E clone \in Clones : attrs = clone.attrs /\ githooks = clone.githooks
  /\ driver = FALSE
  /\ at = [p \in Procs |-> "idle"]
  /\ mode = [p \in Procs |-> "none"]
  /\ pin = [p \in Procs |-> NoPin]
  /\ todo = [p \in Procs |-> << >>]
  /\ doc = [p \in Procs |-> Empty]
  /\ seen = [p \in Procs |-> "nothing"]
  /\ edits = 0
  /\ last = [a \in Agents |-> "none"]

Step(p) ==
  \/ Read(p) \/ Write(p) \/ SetDriver(p)
  \/ ReadAttributes(p) \/ WriteAttributes(p) \/ ReadHook(p) \/ WriteHook(p)

Next ==
  \/ \E p \in Procs : Step(p) \/ Killed(p)
  \/ \E p \in Procs, how \in {"install", "uninstall"}, wanted \in SUBSET Agents, version \in Pins \cup {NoPin} :
       Start(p, how, wanted, version)
  \/ \E a \in Agents, file \in Drafts : Edit(a, file)
  \/ \E text \in Texts, lines \in SUBSET Targets : EditAttributes(text, lines)
  \/ \E h \in Names, content \in {"absent", "theirs"} : EditHook(h, content)

Spec == Init /\ [][Next]_vars

-----------------------------------------------------------------------------
(* Properties. *)

Labels ==
  {"idle", "done", "killed", "read", "write", "driver", "attributes", "attrwrite", "githooks", "hookwrite"}

\* Settings are of a form that uninstall can take apart; a command visits agents,
\* then git hooks, and writes what it has read and can change.
TypeOK ==
  /\ DOMAIN files = Agents /\ \A a \in Agents : IsFile(files[a])
  /\ attrs \in Attrs
  /\ githooks \in [Names -> Hooks]
  /\ driver \in BOOLEAN
  /\ at \in [Procs -> Labels]
  /\ mode \in [Procs -> {"none", "install", "uninstall"}]
  /\ pin \in [Procs -> Pins \cup {NoPin}]
  /\ DOMAIN doc = Procs /\ DOMAIN seen = Procs /\ todo \in [Procs -> Seq(Agents) \cup Seq(Names)]
  /\ \A p \in Procs :
       /\ IsSettings(doc[p])
       /\ todo[p] \in Seq(IF at[p] \in {"githooks", "hookwrite"} THEN Names ELSE Agents)
       /\ at[p] \in {"read", "write"} => todo[p] # << >> /\ mode[p] # "none"
       /\ at[p] = "hookwrite" => todo[p] # << >> /\ seen[p] \in Hooks
       /\ at[p] = "attrwrite" => seen[p] \in Attrs
       /\ mode[p] = "install" => pin[p] \in Pins
       /\ at[p] = "write" /\ mode[p] = "install" => Accepts(Head(todo[p]), doc[p])
  /\ last \in [Agents -> {"none", "installed", "uninstalled"}]
  /\ edits \in Nat

\* What a command tells of an agent is so until the file is edited, however
\* commands overlap: after install our entry is there once, replacing those of
\* other versions, and after uninstall no list mentions jedimem.
AsLastTold ==
  \A a \in Agents : IsDoc(files[a]) =>
    /\ last[a] = "installed" =>
         LET list == Under(files[a], IF IsPi(a) THEN "packages" ELSE "SessionStart")
         IN  list # Odd => Len(list) = Len(Others(list)) + 1 /\ list[Len(list)] \in Ours
    /\ last[a] = "uninstalled" => ~Shrinks(files[a])

\* "Running install twice equals running it once", and it forgets the version
\* before, for every settings file that comes about.
Idempotent ==
  \A a \in Agents : IsDoc(files[a]) /\ Accepts(a, files[a]) =>
    \A v1, v2 \in Pins : Installed(a, Installed(a, files[a], v1), v2) = Installed(a, files[a], v2)

\* uninstall takes back what install added: after both, the file holds what it
\* holds after uninstall alone, and uninstalling again finds nothing.
Reversible ==
  \A a \in Agents : IsDoc(files[a]) /\ Accepts(a, files[a]) =>
    /\ \A v \in Pins : Stripped(Installed(a, files[a], v)) = Stripped(files[a])
    /\ ~Shrinks(Stripped(files[a]))

\* A user's own entries, in order, at each key and for each event.
Theirs(list) == IF list = Odd THEN Odd ELSE Without(list, {Hook} \cup Pins \cup Mentions)
UserPart(file) ==
  IF file \in {Bad, Odd} THEN file
  ELSE LET d == IF file = Absent THEN Empty ELSE file
       IN  [place \in Places |-> Theirs(Under(d, place))]

\* "Never clobber": a command changes no entry of a user's, unless the file was
\* saved by someone else after the command had read it, or it is killed while it
\* writes.
UserEntriesKept ==
  [][\A a \in Agents :
       command' # command /\ (\A p \in Procs : at'[p] = "killed" => at[p] = "killed") =>
         \/ UserPart(files'[a]) = UserPart(files[a])
         \/ \E p \in Procs : at[p] = "write" /\ at'[p] # "write" /\ Head(todo[p]) = a
              /\ doc[p] # (IF files[a] = Absent THEN Empty ELSE files[a])]_vars

\* Text that jedimem can read is left as it is: a user's git hook, or one that
\* mentions jedimem already, and the user's lines of .gitattributes.  A command
\* that goes its way loses such text only when it was saved after the command had
\* read the file; what an edit, a kill or a write cut short does is not its doing.
KeepsHook(h) ==
  githooks[h] \in {"mentions", "theirs", "cut"} =>
    \/ githooks'[h] = githooks[h]
    \/ \E p \in Procs : /\ at[p] = "hookwrite" /\ at'[p] # "hookwrite"
                        /\ Head(todo[p]) = h /\ seen[p] # githooks[h]
KeepsAttributes ==
  attrs.text # "undecodable" =>
    \/ attrs'.text = attrs.text /\ attrs.lines \subseteq attrs'.lines
    \/ \E p \in Procs : at[p] = "attrwrite" /\ at'[p] # "attrwrite" /\ seen[p] # attrs
KeepsText == edits' = edits => (\A h \in DOMAIN githooks : KeepsHook(h)) /\ KeepsAttributes

ReadableTextKept == [][KeepsText]_vars

\* "Never clobber someone's existing hook" (install_git_hooks).
NeverClobbersAHook ==
  [][\A h \in DOMAIN githooks :
       githooks[h] \in {"mentions", "theirs", "undecodable", "cut"} => githooks'[h] = githooks[h]]_vars
=============================================================================
