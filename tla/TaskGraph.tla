----------------------------- MODULE TaskGraph -----------------------------
(***************************************************************************)
(* The dependency graph of a plan and the pure operations the plan store    *)
(* computes on it (memory/working/working.go).  A task names its parents in *)
(* ParentTaskID; a status function gives each task its lifecycle status.    *)
(* Tasks and Parents are parameters: replanning, which edits the graph, is  *)
(* the business of module PlanFsm; one ExecuteBatch call works on one graph.*)
(***************************************************************************)
EXTENDS Naturals, FiniteSets

CONSTANTS Tasks,     \* the task IDs of the plan
          Parents    \* Parents[t]: the IDs listed in t's ParentTaskID

Status == {"pending", "doing", "done", "failed"}

(* allParentsDone of a task, against a status map. *)
AllParentsDone(s, t) == \A p \in Parents[t] : s[p] = "done"

(* Mutant: the status of the task itself is not looked at. *)
ReadyTasks_AnyStatus(s) == {t \in Tasks : AllParentsDone(s, t)}

(* ReadyTasks: pending tasks all of whose parents are done. *)
ReadyTasks(s) == {t \in Tasks : s[t] = "pending" /\ AllParentsDone(s, t)}

(* What Plan.Validate accepts: at least one task, every parent exists, no   *)
(* cycle (hence no self-loop): what the coloured depth-first search of      *)
(* dfsValidate looks for, stated as the absence of a set without a source.  *)
NoDangling == \A t \in Tasks : Parents[t] \subseteq Tasks
Acyclic    == \A S \in SUBSET Tasks :
                 S # {} => \E t \in S : Parents[t] \cap S = {}
Valid      == Tasks # {} /\ NoDangling /\ Acyclic

(* The state machine enters Doing only with a plan that passed Validate     *)
(* (InitState and UpdatingState), and SubTasks is a slice, hence finite.    *)
ASSUME GraphAssumption == /\ IsFiniteSet(Tasks)
                          /\ Parents \in [Tasks -> SUBSET Tasks]
                          /\ Valid
============================================================================
