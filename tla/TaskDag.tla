------------------------------ MODULE TaskDag ------------------------------
(***************************************************************************)
(* What executing a task graph promises, without workers, locks, files or   *)
(* callbacks: a task is started only when all its parents are done, a       *)
(* started task ends done or failed, and an ended task is never touched     *)
(* again.  A cancelled execution may fail tasks it never started.           *)
(***************************************************************************)
EXTENDS TaskGraph

VARIABLES status,      \* status[t]: the lifecycle status of task t
          cancelled    \* the execution has been cancelled

dagVars == <<status, cancelled>>

Init == /\ status \in [Tasks -> {"pending", "done", "failed"}]
        /\ cancelled \in BOOLEAN

(* A batch of ready tasks starts together. *)
Start(B) == /\ B # {} /\ B \subseteq ReadyTasks(status)
            /\ status' = [t \in Tasks |-> IF t \in B THEN "doing" ELSE status[t]]
            /\ UNCHANGED cancelled

Finish(t, r) == /\ status[t] = "doing"
                /\ status' = [status EXCEPT ![t] = r]
                /\ UNCHANGED cancelled

(* Once cancelled, ready tasks are given up instead of started. *)
GiveUp(B) == /\ cancelled
             /\ B # {} /\ B \subseteq ReadyTasks(status)
             /\ status' = [t \in Tasks |-> IF t \in B THEN "failed" ELSE status[t]]
             /\ UNCHANGED cancelled

(* Cancellation, and a fresh execution of the same plan. *)
SetCancelled == cancelled' \in BOOLEAN /\ UNCHANGED status

Next == \/ \E B \in SUBSET Tasks : Start(B) \/ GiveUp(B)
        \/ \E t \in Tasks, r \in {"done", "failed"} : Finish(t, r)
        \/ SetCancelled

Spec == Init /\ [][Next]_dagVars
============================================================================
