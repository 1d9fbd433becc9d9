------------------------------ MODULE MCImport ------------------------------
\* A small instance of Import for TLC.
EXTENDS Import, TLC

CONSTANTS plain, shout, leak, other, bullet, p1

\* `shout` is `plain` in capitals, `leak` is `shout` with a secret in it, and compile
\* makes a `bullet` of any memory.
MCRedacted == [t \in Texts |-> IF t = leak THEN shout ELSE t]
MCHash     == [t \in Texts |-> IF t = shout THEN plain ELSE t]
MCRendered == [t \in Texts |-> bullet]

Tree(F) == [f \in Places |-> IF f \in DOMAIN F THEN F[f] ELSE {}]

MCTrees ==
  {Tree("CLAUDE.md" :> {plain, leak} @@ ".github/CODEOWNERS" :> {other}),
   Tree(".cursor/rules" :> {leak} @@ "CODEOWNERS" :> {other} @@
        ".github/CODEOWNERS" :> {plain} @@ "docs/adr" :> {plain} @@ "git log" :> {shout})}

\* One place fails at a time.
MCReadings == {Places} \cup {Places \ {f} : f \in {"CLAUDE.md", "CODEOWNERS"}}

MCPicks == {Sources, {"codeowners", "git"}}
=============================================================================
