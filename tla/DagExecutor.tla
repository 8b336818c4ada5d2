---------------------------- MODULE DagExecutor ----------------------------
(***************************************************************************)
(* DAGTaskExecutor.ExecuteBatch (runtime/engine/dag/dag.go) with its        *)
(* concurrent workers, the failure callback of the Doing state              *)
(* (fsm/action.go: TaskFails, shouldReview, the review) and the drift       *)
(* rollback it may run (fsm/machine.go, handleDrift).                       *)
(*                                                                          *)
(* One process is the runner (the loop of ExecuteBatch); every task of the  *)
(* batch has a worker goroutine.  A task is found by FindTask, which        *)
(* returns a pointer into the plan's SubTasks array; a rollback replaces    *)
(* the array, so a pointer taken before it is stale and writes through it   *)
(* are lost.  PutPlan is one step here: it holds the plan mutex throughout  *)
(* (module PlanStore opens it up).  What a worker does inside ExecuteTask   *)
(* is module HumanGate's; here it returns ok or an error, whether or not    *)
(* the context was cancelled meanwhile (an abort token makes the ReAct loop *)
(* return without an error, ctx.Done with one, and select picks either).    *)
(***************************************************************************)
EXTENDS TaskGraph

CONSTANTS ReviewInterval,            \* TargetDriftConfig; 0 = off
          MaxFailuresBeforeReview,   \* TargetDriftConfig; 0 = off
          BaseVersion,               \* Plan.Version when Doing is first entered
          MaxRuns,                   \* bound: ExecuteBatch calls per FSM run
          MaxToolCalls               \* bound: task_status_update calls

ASSUME ConfigAssumption ==
  /\ ReviewInterval \in Nat /\ MaxFailuresBeforeReview \in Nat
  /\ BaseVersion \in Nat /\ MaxRuns \in Nat /\ MaxToolCalls \in Nat

VARIABLES
  status,      \* status[t], in the SubTasks array the plan now holds
  version,     \* Plan.Version
  ckpt,        \* ckpt[v]: the statuses in checkpoint file v
  disk,        \* plan.jsonl: the version and the statuses it holds
  runner,      \* the loop of ExecuteBatch: "check", "wait", "returned"
  batch,       \* the tasks of the batch last spawned
  pc,          \* pc[t]: where the worker goroutine of t stands
  res,         \* res[t]: what ExecuteTask returned to the worker of t
  stale,       \* workers whose task pointer addresses a replaced array
  failCount,   \* failures of the current batch
  cancel,      \* who cancelled the call's context: nobody, the user, a drift
  taskFails,   \* fsm.Context.TaskFails
  seen,        \* seen[t]: TaskFails as loaded by the callback of t's worker
  target,      \* target[t]: the checkpoint version handleDrift loaded
  buf,         \* buf[t]: the plan as marshalled by handleDrift's Persist
  hasFailed,   \* BatchResult.HasFailed
  runs,        \* ExecuteBatch calls so far
  toolCalls,   \* task_status_update calls so far
  arg,         \* arg[t]: the task and status such a call of t's worker names
  execs        \* history: executions of t that returned no error

planVars   == <<status, version, ckpt, disk>>
workerVars == <<pc, res, stale, failCount>>
driftVars  == <<taskFails, seen, target, buf>>
callVars   == <<runner, batch, hasFailed, runs>>
toolVars   == <<toolCalls, arg>>
vars == <<planVars, workerVars, driftVars, callVars, cancel, toolVars, execs>>

Statuses == [Tasks -> Status]

WorkerPc == {"idle", "spawned", "skipping", "running", "updating", "updated",
             "located", "recorded", "counting", "counted", "reviewing",
             "drifting", "cancelling", "rolled", "restored", "marshalled",
             "put", "finished"}

(* The child context handed to the workers is cancelled. *)
Cancelled == cancel # "none"

(* A worker between a FindTask and its last use of the pointer. *)
HoldsPointer(t) == pc[t] \in {"skipping", "updating", "located"}

NoPlan == [version |-> 0, status |-> [t \in Tasks |-> "pending"]]
NoArg  == <<>>

(* saveCheckpoint, on statuses s: bump the version, write plan.jsonl, write *)
(* the checkpoint, all under the plan mutex.                                *)
PutPlan(s) ==
  /\ version' = version + 1
  /\ disk' = [version |-> version + 1, status |-> s]
  /\ ckpt' = [v \in DOMAIN ckpt \cup {version + 1} |->
                IF v = version + 1 THEN s ELSE ckpt[v]]

Init ==
  /\ status = [t \in Tasks |-> "pending"]
  /\ version = BaseVersion
  /\ ckpt = [v \in {BaseVersion} |-> status]
  /\ disk = [version |-> BaseVersion, status |-> status]
  /\ runner = "check" /\ batch = {}
  /\ pc = [t \in Tasks |-> "idle"] /\ res = [t \in Tasks |-> "none"]
  /\ stale = {} /\ failCount = 0 /\ cancel = "none"
  /\ taskFails = 0 /\ seen = [t \in Tasks |-> 0]
  /\ target = [t \in Tasks |-> 0]
  /\ buf = [t \in Tasks |-> NoPlan]
  /\ hasFailed = FALSE /\ runs = 1
  /\ toolCalls = 0 /\ arg = [t \in Tasks |-> NoArg]
  /\ execs = [t \in Tasks |-> 0]

-----------------------------------------------------------------------------
(* The runner. *)

Return(f) == /\ runner' = "returned" /\ hasFailed' = f
             /\ UNCHANGED <<batch, runs>>

(* No task is ready: return, reporting no failure. *)
ReturnIdle ==
  /\ runner = "check" /\ ReadyTasks(status) = {}
  /\ Return(FALSE)
  /\ UNCHANGED <<planVars, workerVars, driftVars, cancel, toolVars, execs>>

(* Ready tasks but a cancelled context: fail them, save, report a failure. *)
ReturnCancelled ==
  /\ runner = "check" /\ ReadyTasks(status) # {} /\ Cancelled
  /\ status' = [t \in Tasks |-> IF t \in ReadyTasks(status) THEN "failed" ELSE status[t]]
  /\ PutPlan(status')
  /\ Return(TRUE)
  /\ UNCHANGED <<workerVars, driftVars, cancel, toolVars, execs>>

(* Mutant: every pending task is spawned, whatever its parents. *)
SpawnBatch_AllPending ==
  /\ runner = "check" /\ ReadyTasks(status) # {} /\ ~Cancelled
  /\ batch' = {t \in Tasks : status[t] = "pending"}
  /\ status' = [t \in Tasks |-> IF t \in batch' THEN "doing" ELSE status[t]]
  /\ PutPlan(status')
  /\ pc' = [t \in Tasks |-> IF t \in batch' THEN "spawned" ELSE "idle"]
  /\ res' = [t \in Tasks |-> "none"]
  /\ stale' = {} /\ failCount' = 0
  /\ runner' = "wait"
  /\ UNCHANGED <<driftVars, cancel, hasFailed, runs, toolVars, execs>>

(* Mark the ready tasks doing, save, and spawn a worker for each.  No other *)
(* goroutine touches the plan before the workers start.                     *)
SpawnBatch ==
  /\ runner = "check" /\ ReadyTasks(status) # {} /\ ~Cancelled
  /\ batch' = ReadyTasks(status)
  /\ status' = [t \in Tasks |-> IF t \in batch' THEN "doing" ELSE status[t]]
  /\ PutPlan(status')
  /\ pc' = [t \in Tasks |-> IF t \in batch' THEN "spawned" ELSE "idle"]
  /\ res' = [t \in Tasks |-> "none"]
  /\ stale' = {} /\ failCount' = 0
  /\ runner' = "wait"
  /\ UNCHANGED <<driftVars, cancel, hasFailed, runs, toolVars, execs>>

(* Mutants: the join forgets the failures; it waits for tasks that have no  *)
(* worker in this batch.                                                    *)
JoinBatch_NoFailures ==
  /\ runner = "wait" /\ \A t \in batch : pc[t] = "finished"
  /\ runner' = "check" /\ UNCHANGED <<batch, hasFailed, runs>>
  /\ UNCHANGED <<planVars, workerVars, driftVars, cancel, toolVars, execs>>

(* g.Wait returns: stop if a worker failed, otherwise look for a new batch. *)
JoinBatch ==
  /\ runner = "wait" /\ \A t \in batch : pc[t] = "finished"
  /\ IF failCount > 0 THEN Return(TRUE)
                      ELSE runner' = "check" /\ UNCHANGED <<batch, hasFailed, runs>>
  /\ UNCHANGED <<planVars, workerVars, driftVars, cancel, toolVars, execs>>
-----------------------------------------------------------------------------
(* The worker of task t. *)

Goto(t, l) == pc' = [pc EXCEPT ![t] = l]

(* Write through the pointer of t's worker: lost when the array was replaced. *)
SetStatus(t, s) ==
  status' = IF t \in stale THEN status ELSE [status EXCEPT ![t] = s]

(* The goroutine's first test: run the worker, or find the task to fail it. *)
Begin(t) ==
  /\ pc[t] = "spawned"
  /\ Goto(t, IF Cancelled THEN "skipping" ELSE "running")
  /\ UNCHANGED <<planVars, res, stale, failCount, driftVars, callVars,
                 cancel, toolVars, execs>>

(* Mutant: a worker that finds its context cancelled just returns. *)
Skip_Unmarked(t) ==
  /\ pc[t] = "skipping"
  /\ Goto(t, "put")
  /\ UNCHANGED <<planVars, res, stale, failCount, driftVars, callVars, cancel,
                 toolVars, execs>>

(* The cancelled path marks the task without the plan mutex and without     *)
(* counting a failure.                                                      *)
Skip(t) ==
  /\ pc[t] = "skipping"
  /\ SetStatus(t, "failed")
  /\ Goto(t, "put")
  /\ UNCHANGED <<version, ckpt, disk, res, stale, failCount, driftVars,
                 callVars, cancel, toolVars, execs>>

(* ExecuteTask returns r; GetPlan and FindTask follow, the latter with a    *)
(* pointer into the array the plan now holds.                               *)
Finish(t, r) ==
  /\ pc[t] = "running"
  /\ res' = [res EXCEPT ![t] = r]
  /\ Goto(t, "located") /\ stale' = stale \ {t}
  /\ execs' = IF r = "ok" THEN [execs EXCEPT ![t] = @ + 1] ELSE execs
  /\ UNCHANGED <<planVars, failCount, driftVars, callVars, cancel, toolVars>>

(* Mutant: an error is counted but the task keeps its status. *)
Record_KeepStatus(t) ==
  /\ pc[t] = "located"
  /\ IF res[t] = "ok" THEN SetStatus(t, "done") ELSE UNCHANGED status
  /\ failCount' = IF res[t] = "ok" THEN failCount ELSE failCount + 1
  /\ Goto(t, IF res[t] = "ok" THEN "put" ELSE "recorded")
  /\ UNCHANGED <<version, ckpt, disk, res, stale, driftVars, callVars,
                 cancel, toolVars, execs>>

(* Under the plan mutex: the final status, and the failure count. *)
Record(t) ==
  /\ pc[t] = "located"
  /\ SetStatus(t, IF res[t] = "ok" THEN "done" ELSE "failed")
  /\ failCount' = IF res[t] = "ok" THEN failCount ELSE failCount + 1
  /\ Goto(t, IF res[t] = "ok" THEN "put" ELSE "recorded")
  /\ UNCHANGED <<version, ckpt, disk, res, stale, driftVars, callVars,
                 cancel, toolVars, execs>>

(* PutPlan at the end of a worker; the goroutine's locals die with it. *)
Save(t) ==
  /\ pc[t] = "put"
  /\ PutPlan(status)
  /\ Goto(t, "finished")
  /\ res' = [res EXCEPT ![t] = "none"]
  /\ seen' = [seen EXCEPT ![t] = 0]
  /\ target' = [target EXCEPT ![t] = 0]
  /\ buf' = [buf EXCEPT ![t] = NoPlan]
  /\ UNCHANGED <<status, stale, failCount, taskFails, callVars, cancel, toolVars,
                 execs>>

(* task_status_update, called by the LLM of w's running worker on any task  *)
(* of the plan: FindTask, the write under the plan mutex, PutPlan.          *)
FindForUpdate(w, t, s) ==
  /\ pc[w] = "running" /\ toolCalls < MaxToolCalls
  /\ toolCalls' = toolCalls + 1
  /\ arg' = [arg EXCEPT ![w] = <<t, s>>]
  /\ Goto(w, "updating") /\ stale' = stale \ {w}
  /\ UNCHANGED <<planVars, res, failCount, driftVars, callVars, cancel, execs>>

UpdateStatus(w) ==
  /\ pc[w] = "updating"
  /\ status' = IF w \in stale THEN status ELSE [status EXCEPT ![arg[w][1]] = arg[w][2]]
  /\ Goto(w, "updated")
  /\ UNCHANGED <<version, ckpt, disk, res, stale, failCount, driftVars,
                 callVars, cancel, toolVars, execs>>

SaveUpdate(w) ==
  /\ pc[w] = "updated"
  /\ PutPlan(status)
  /\ arg' = [arg EXCEPT ![w] = NoArg]
  /\ Goto(w, "running")
  /\ UNCHANGED <<status, res, stale, failCount, driftVars, callVars, cancel,
                 toolCalls, execs>>

-----------------------------------------------------------------------------
(* The failure callback of t's worker, outside the plan mutex. *)

(* ctx.TaskFails++ is not synchronised: a load, then a store. *)
LoadFails(t) ==
  /\ pc[t] = "recorded"
  /\ seen' = [seen EXCEPT ![t] = taskFails]
  /\ Goto(t, "counting")
  /\ UNCHANGED <<planVars, res, stale, failCount, taskFails, target, buf,
                 callVars, cancel, toolVars, execs>>

StoreFails(t) ==
  /\ pc[t] = "counting"
  /\ taskFails' = seen[t] + 1
  /\ Goto(t, "counted")
  /\ UNCHANGED <<planVars, res, stale, failCount, seen, target, buf, callVars,
                 cancel, toolVars, execs>>

ShouldReview == \/ ReviewInterval > 0 /\ taskFails % ReviewInterval = 0
                \/ MaxFailuresBeforeReview > 0 /\ taskFails >= MaxFailuresBeforeReview

Decide(t) ==
  /\ pc[t] = "counted"
  /\ Goto(t, IF ShouldReview THEN "reviewing" ELSE "put")
  /\ UNCHANGED <<planVars, res, stale, failCount, driftVars, callVars,
                 cancel, toolVars, execs>>

(* Mutant: the worker ends after a review without drift, unsaved. *)
Review_NoSave(t) ==
  /\ pc[t] = "reviewing"
  /\ Goto(t, "drifting") \/ Goto(t, "finished")
  /\ UNCHANGED <<planVars, res, stale, failCount, driftVars, callVars,
                 cancel, toolVars, execs>>

(* Reviewer.Review answers; an error counts as no drift. *)
Review(t) ==
  /\ pc[t] = "reviewing"
  /\ Goto(t, "drifting") \/ Goto(t, "put")
  /\ UNCHANGED <<planVars, res, stale, failCount, driftVars, callVars,
                 cancel, toolVars, execs>>

(* Mutant: the rollback goes one version further back. *)
LoadTarget_Older(t) ==
  /\ pc[t] = "drifting"
  /\ IF version > 2 /\ version - 2 \in DOMAIN ckpt
     THEN target' = [target EXCEPT ![t] = version - 2] /\ Goto(t, "cancelling")
     ELSE UNCHANGED target /\ Goto(t, "put")
  /\ UNCHANGED <<planVars, res, stale, failCount, taskFails, seen, buf, callVars,
                 cancel, toolVars, execs>>

(* handleDrift reads the version without the mutex and loads the checkpoint *)
(* before it.  At version 1, or with no such checkpoint, it does nothing.   *)
LoadTarget(t) ==
  /\ pc[t] = "drifting"
  /\ IF version > 1 /\ version - 1 \in DOMAIN ckpt
     THEN target' = [target EXCEPT ![t] = version - 1] /\ Goto(t, "cancelling")
     ELSE UNCHANGED target /\ Goto(t, "put")
  /\ UNCHANGED <<planVars, res, stale, failCount, taskFails, seen, buf, callVars,
                 cancel, toolVars, execs>>

(* Mutant: DAG.Cancel waits for the batch it cancels. *)
CancelBatch_Waits(t) ==
  /\ pc[t] = "cancelling" /\ \A u \in batch : pc[u] = "finished"
  /\ cancel' = IF Cancelled THEN cancel ELSE "drift"
  /\ Goto(t, "rolled")
  /\ UNCHANGED <<planVars, res, stale, failCount, driftVars, callVars,
                 toolVars, execs>>

(* DAG.Cancel, then the unlocked replacement of the SubTasks array. *)
CancelBatch(t) ==
  /\ pc[t] = "cancelling"
  /\ cancel' = IF Cancelled THEN cancel ELSE "drift"
  /\ Goto(t, "rolled")
  /\ UNCHANGED <<planVars, res, stale, failCount, driftVars, callVars,
                 toolVars, execs>>

(* Mutant: the rollback also takes the version counter back. *)
Restore_Version(t) ==
  /\ pc[t] = "rolled"
  /\ status' = ckpt[target[t]] /\ version' = target[t]
  /\ stale' = stale \cup {u \in batch : HoldsPointer(u)}
  /\ Goto(t, "restored")
  /\ UNCHANGED <<ckpt, disk, res, failCount, driftVars, callVars,
                 cancel, toolVars, execs>>

Restore(t) ==
  /\ pc[t] = "rolled"
  /\ status' = ckpt[target[t]]
  /\ stale' = stale \cup {u \in batch : HoldsPointer(u)}
  /\ Goto(t, "restored")
  /\ UNCHANGED <<version, ckpt, disk, res, failCount, driftVars, callVars,
                 cancel, toolVars, execs>>

(* Persist outside the mutex: marshal, and later write, no new version. *)
Marshal(t) ==
  /\ pc[t] = "restored"
  /\ buf' = [buf EXCEPT ![t] = [version |-> version, status |-> status]]
  /\ Goto(t, "marshalled")
  /\ UNCHANGED <<planVars, res, stale, failCount, taskFails, seen, target,
                 callVars, cancel, toolVars, execs>>

WritePlan(t) ==
  /\ pc[t] = "marshalled"
  /\ disk' = buf[t]
  /\ Goto(t, "put")
  /\ UNCHANGED <<status, version, ckpt, res, stale, failCount, driftVars,
                 callVars, cancel, toolVars, execs>>

-----------------------------------------------------------------------------
(* The surroundings. *)

(* AgentLoop.Cancel / Kernel.Cancel while the call is in progress. *)
Cancel ==
  /\ runner # "returned" /\ cancel # "user"
  /\ cancel' = "user"
  /\ UNCHANGED <<planVars, workerVars, driftVars, callVars, toolVars, execs>>

(* After a failed call the machine goes through Updating and Confirmed back *)
(* to Doing: three transitions and confirm_plan, each a PutPlan, and a new  *)
(* child context.  The LLM leaves the tasks as they are.  After a user's    *)
(* cancel the parent context is dead and Updating returns its error.        *)
Rerun ==
  /\ runner = "returned" /\ hasFailed /\ cancel # "user" /\ runs < MaxRuns
  /\ runner' = "check" /\ batch' = {} /\ runs' = runs + 1 /\ hasFailed' = FALSE
  /\ cancel' = "none"
  /\ version' = version + 4
  /\ ckpt' = [v \in DOMAIN ckpt \cup (version + 1 .. version + 4) |->
               IF v > version THEN status ELSE ckpt[v]]
  /\ disk' = [version |-> version + 4, status |-> status]
  /\ pc' = [t \in Tasks |-> "idle"] /\ stale' = {} /\ failCount' = 0
  /\ UNCHANGED <<status, res, driftVars, toolVars, execs>>

Runner == ReturnIdle \/ ReturnCancelled \/ SpawnBatch \/ JoinBatch

Callback(t) == \/ LoadFails(t) \/ StoreFails(t) \/ Decide(t) \/ Review(t)
               \/ LoadTarget(t) \/ CancelBatch(t) \/ Restore(t) \/ Marshal(t)
               \/ WritePlan(t)

Worker(t) == \/ Begin(t) \/ Skip(t) \/ Finish(t, "ok") \/ Finish(t, "err")
             \/ Record(t) \/ Save(t) \/ Callback(t)
             \/ UpdateStatus(t) \/ SaveUpdate(t)

Next == \/ Runner
        \/ \E t \in Tasks : Worker(t)
        \/ Cancel
        \/ \E w, t \in Tasks, s \in Status : FindForUpdate(w, t, s)
        \/ Rerun

Spec == Init /\ [][Next]_vars

(* Every goroutine that can move eventually does; ExecuteTask returns       *)
(* because the worker's ReAct loop is bounded by maxSteps.  Nobody has to   *)
(* cancel, to call a tool or to run the plan again.                         *)
Fairness == WF_vars(Runner) /\ \A t \in Tasks : WF_vars(Worker(t))

FairSpec == Spec /\ Fairness
-----------------------------------------------------------------------------
(* Properties. *)

Returned == runner = "returned"

(* A worker whose task may be executing, or whose outcome is being handled. *)
Working(t) == pc[t] \notin {"idle", "spawned", "skipping", "finished"}

TypeOK ==
  /\ status \in Statuses /\ version \in Nat /\ version >= BaseVersion
  /\ ckpt \in [BaseVersion .. version -> Statuses]
  /\ disk \in [version : Nat, status : Statuses]
  /\ runner \in {"check", "wait", "returned"}
  /\ batch \subseteq Tasks /\ stale \subseteq Tasks
  /\ pc \in [Tasks -> WorkerPc] /\ res \in [Tasks -> {"none", "ok", "err"}]
  /\ failCount \in Nat /\ cancel \in {"none", "user", "drift"}
  /\ taskFails \in Nat /\ seen \in [Tasks -> Nat] /\ target \in [Tasks -> Nat]
  /\ buf \in [Tasks -> [version : Nat, status : Statuses]]
  /\ hasFailed \in BOOLEAN /\ runs \in Nat /\ toolCalls \in Nat
  /\ arg \in [Tasks -> (Tasks \X Status) \cup {NoArg}]
  /\ execs \in [Tasks -> Nat]

(* A worker works only while every parent of its task is done, even when a  *)
(* sibling's drift rollback has put older statuses back meanwhile: what it  *)
(* restores is never older than the start of the batch.  (A task_status_    *)
(* update may set any status, and so break this.)                           *)
ParentsDone ==
  toolCalls = 0 => \A t \in Tasks : Working(t) => AllParentsDone(status, t)

(* When a call returns, plan.jsonl holds the plan that is in memory,        *)
(* whatever unlocked writes, stale pointers and late Persist calls raced.   *)
DurableAtReturn == Returned => disk = [version |-> version, status |-> status]

(* A checkpoint, once written, is never overwritten: a rollback moves the   *)
(* statuses back but never the version counter.                             *)
CheckpointsImmutable ==
  [][\A v \in DOMAIN ckpt : v \in DOMAIN ckpt' /\ ckpt'[v] = ckpt[v]]_vars

(* Failure isolation: between the first failure of a batch and the return   *)
(* of the call nothing new is spawned.                                      *)
FailureStopsBatches == [][failCount > 0 /\ ~Returned => batch' = batch]_vars

(* As long as no rollback happens, no task is executed successfully twice,  *)
(* over all the runs of the plan.                                           *)
ExecutedOnce == \A t \in Tasks : execs[t] <= 1

(* As long as no rollback happens, a returned call leaves no task "doing":  *)
(* no worker is left that could end it, and ReadyTasks skips it forever.    *)
NoOrphan == Returned => \A t \in Tasks : status[t] # "doing"

(* "It repeats batch-by-batch until the DAG reaches a terminal state - all  *)
(* tasks done, any task failed, or context cancelled" (dag.go:126-128).     *)
(* Holds without rollbacks; a rollback can leave an orphan that breaks it.  *)
TerminalAtReturn ==
  Returned => \/ \A t \in Tasks : status[t] = "done"
              \/ \E t \in Tasks : status[t] = "failed"
              \/ Cancelled

(* "HasFailed bool // at least one task in this batch failed" (engine/types *)
(* types.go:11), for the batch that ran last.  Workers that skipped their   *)
(* task on a cancelled context are not counted.                             *)
HasFailedOfBatch ==
  Returned /\ (\E t \in batch : status[t] = "failed") => hasFailed

(* Every call returns, whatever fails, drifts or is cancelled on the way.   *)
AllCallsReturn == (runner = "check") ~> Returned

(* The executor keeps the promise of module TaskDag. *)
Dag == INSTANCE TaskDag WITH cancelled <- Cancelled
DagSpec == Dag!Spec
============================================================================
