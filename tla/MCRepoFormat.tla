---------------------------- MODULE MCRepoFormat ----------------------------
\* A small instance of RepoFormat for TLC.
EXTENDS RepoFormat, TLC

CONSTANTS old, new, new2, f1, f2

\* Four formats; the last step changes no memory file.
MCSupported == old :> 2 @@ new :> 4 @@ new2 :> 4
MCMemoryFormat == <<1, 2, 3, 3>>
MCMigrations == {1, 2}
=============================================================================
