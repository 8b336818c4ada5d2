----------------------------- MODULE MCPlanFsm -----------------------------
(* Instances of PlanFsm for TLC: interchangeable plan and task IDs. *)
EXTENDS PlanFsm, TLC

Symmetry == Permutations(PlanIds) \cup Permutations(TaskIds)
=============================================================================
