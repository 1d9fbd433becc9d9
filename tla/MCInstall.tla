------------------------------ MODULE MCInstall ------------------------------
\* A small instance of Install for TLC.
EXTENDS Install, FiniteSets, TLC

CONSTANTS user, old, hook, v1, v2, t1, p1, p2

MCAgents == <<"claude-code", "pi">>
MCHookNames == <<"post-merge">>
MCEvents == {"SessionStart", "Stop"}

\* A hook that is not UTF-8.
MCForeignClones ==
  {[attrs |-> [text |-> "none", lines |-> {}], githooks |-> [h \in {"post-merge"} |-> "undecodable"]]}

\* Settings as users, agents and other versions of jedimem leave them.
MCDrafts ==
  {Absent, Odd,
   ("hooks" :> ("SessionStart" :> <<old, user>> @@ "Stop" :> <<old>>)) @@ ("packages" :> Odd) @@ ("rest" :> Odd),
   ("hooks" :> ("SessionStart" :> Odd @@ "Stop" :> << >>)) @@ ("packages" :> << >>),
   ("hooks" :> Odd) @@ ("packages" :> <<user, old>>)}

\* A user's .gitattributes; hooks are saved and lines are cut short as commands run.
MCClones ==
  {[attrs |-> [text |-> "theirs", lines |-> {}], githooks |-> [h \in {"post-merge"} |-> "absent"]]}

Symmetry == Permutations(Procs)
=============================================================================
