--------------------------- MODULE MCDagExecutor ---------------------------
(* Instances of DagExecutor for TLC.  Join: two independent tasks and one   *)
(* that needs both.  Skew: two roots, one with a child, and a task needing  *)
(* that child and the other root, so that batches overlap unevenly.         *)
EXTENDS DagExecutor, TLC

CONSTANTS a, b, c, d

JoinParents == a :> {} @@ b :> {} @@ c :> {a, b}
SkewParents == a :> {} @@ b :> {} @@ c :> {a} @@ d :> {b, c}
============================================================================
