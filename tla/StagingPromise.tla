--------------------------- MODULE StagingPromise ---------------------------
(***************************************************************************)
(* What the staging ref promises its callers, without commits, retries or  *)
(* processes: a set of pending memories to which a call adds memories and  *)
(* from which a call takes exactly the memories it names, each at once     *)
(* ("staging: lock-free, invisible, never loses a memory", README;         *)
(* "Rewrite the staging ref without `drop`", src/repo.rs).                 *)
(***************************************************************************)
CONSTANT Memories

VARIABLES pending,   \* the candidates waiting for review
          stored,    \* memories that were ever staged
          removed    \* memories that were ever dropped

vars == <<pending, stored, removed>>

Init == pending = {} /\ stored = {} /\ removed = {}

\* stage_files: new memories, all of them or none.
Stage(files) ==
  /\ files \cap stored = {}
  /\ pending' = pending \cup files
  /\ stored' = stored \cup files
  /\ UNCHANGED removed

\* drop_staged: the named memories and no other.
Drop(ids) ==
  /\ ids \subseteq stored
  /\ pending' = pending \ ids
  /\ removed' = removed \cup ids
  /\ UNCHANGED stored

Next == \/ \E files \in SUBSET Memories : Stage(files)
        \/ \E ids \in SUBSET Memories : Drop(ids)

Spec == Init /\ [][Next]_vars
=============================================================================
