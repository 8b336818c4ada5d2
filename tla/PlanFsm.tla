------------------------------ MODULE PlanFsm ------------------------------
(***************************************************************************)
(* The plan state machine (runtime/engine/fsm: machine.go, state.go) over   *)
(* one agent loop (runtime/agent_loop.go), with what the LLM's tool calls   *)
(* do to the plans (tools/internals/plan.go) and the user's cancel.         *)
(*                                                                          *)
(* A state's Execute is one conversation of the main ReAct agent            *)
(* (infra/react.go, ExecuteWithTools), except Doing, which is one           *)
(* ExecuteBatch call, seen here batch by batch (module DagExecutor has its  *)
(* workers), and Rejected, which does nothing.  A conversation is a list of *)
(* messages, a message a list of tool calls.  PutPlan is one step, and does *)
(* not fail.                                                                *)
(***************************************************************************)
EXTENDS Naturals, FiniteSets

CONSTANTS PlanIds,       \* IDs plan_create may generate
          TaskIds,       \* IDs task_insert may generate
          Unknown,       \* a parent ID that names no task
          NoPlan,        \* the empty plan ID
          ForceMode,     \* MachineConfig.ForceMode
          MaxCycles,     \* MachineConfig.MaxCycles
          MaxAttempts,   \* MachineConfig.CompressMaxAttempts
          Unlisted,      \* tools the LLM may call without being offered them
          MayCancel,     \* the user may cancel
          MayDrift,      \* a failing batch may be rolled back
          MaxCalls,      \* bound: tool calls in one conversation
          MaxRuns        \* bound: AgentLoop.Run calls

ASSUME PlanFsmAssumption ==
  /\ NoPlan \notin PlanIds /\ Unknown \notin TaskIds
  /\ ForceMode \in {"auto", "plan", "simple"}
  /\ MaxCycles \in Nat /\ MaxAttempts \in Nat /\ MaxCalls \in Nat /\ MaxRuns \in Nat
  /\ {MayCancel, MayDrift} \subseteq BOOLEAN

VARIABLES
  machine,     \* Machine.currentState
  phase,       \* where Machine.Run stands, see Phases
  cycles,      \* its loop counter
  plan,        \* plan[p]: the plan with ID p in the plan store
  saved,       \* saved[p]: its checkpoints, see PutPlans
  used,        \* the task IDs generated so far
  ctxPlan,     \* the ID of the plan fsm.Context.Plan points to
  ctxPlanID,   \* fsm.Context.PlanID
  created,     \* the first plan_create result of the conversation
  mode,        \* its first set_work_mode result
  calls,       \* tool calls in it
  attempts,    \* its restarts after a full context
  batch,       \* the tasks the executor is working on
  token,       \* an abort token waits in ReactAgent.abortSignal
  cancelled,   \* the run's context is cancelled
  stopping,    \* AgentLoop.Cancel has yet to interrupt the main agent
  result,      \* what Machine.Run returned
  runs,        \* AgentLoop.Run calls so far
  approved,    \* history: its last decision on the plan is an approval
  shown,       \* history: the task graph the plan had when it was presented
  consulted    \* history: the LLM was asked in this conversation

storeVars  == <<plan, saved, used>>
ctxVars    == <<ctxPlan, ctxPlanID>>
talkVars   == <<created, mode, calls, attempts>>
stopVars   == <<token, cancelled, stopping>>
history    == <<approved, shown, consulted>>
vars == <<machine, phase, cycles, storeVars, ctxVars, talkVars, batch, stopVars,
          result, runs, history>>

(* enter: top of Machine.Run's loop; top, think, act, end: a conversation   *)
(* (top of its loop, waiting for the LLM, after a tool call, after a        *)
(* terminating one); leave: Execute's code after it; check, wait: the       *)
(* executor; returned: Machine.Run has; over: the loop's goroutine has.     *)
Phases == {"enter", "top", "think", "act", "end", "leave", "check", "wait",
           "returned", "over"}
Talking == phase \in {"top", "think", "act", "end", "leave"}

Machines == {"intent", "direct", "init", "confirmed", "doing", "update",
             "done", "failed", "rejected"}
Terminal == {"direct", "done", "failed", "rejected"}
Status   == {"pending", "doing", "done", "failed"}
Tools    == {"set_work_mode", "plan_create", "task_insert", "task_delete",
             "ask_human", "confirm_plan", "plan_rollback"}

Fresh   == [state |-> "none", tasks |-> {}, parents |-> [t \in TaskIds |-> {}],
            status |-> [t \in TaskIds |-> "pending"]]
Exists(p) == plan[p].state # "none"

Graph(p) == [tasks |-> plan[p].tasks, parents |-> plan[p].parents]
NoGraph  == [tasks |-> {}, parents |-> Fresh.parents]

(* Plan.Validate and ReadyTasks of plan p, as in module TaskGraph.  The     *)
(* parents of a task are fixed before its ID is known, so a cycle cannot    *)
(* arise here and is not looked for.                                        *)
Valid(p) == /\ plan[p].tasks # {}
            /\ \A t \in plan[p].tasks : plan[p].parents[t] \subseteq plan[p].tasks

Ready(p) == {t \in plan[p].tasks : /\ plan[p].status[t] = "pending"
                                   /\ \A u \in plan[p].parents[t] :
                                        u \in plan[p].tasks /\ plan[p].status[u] = "done"}

(* stateToolsMap, as far as the tools change plans or the machine's course. *)
Offered(m) == CASE m = "intent"    -> {"set_work_mode"}
                [] m = "direct"    -> {"ask_human"}
                [] m = "init"      -> {"plan_create", "task_insert"}
                [] m = "confirmed" -> {"ask_human", "confirm_plan"}
                [] m = "update"    -> {"task_insert", "task_delete"}
                [] OTHER           -> {}

InitialState == CASE ForceMode = "plan"   -> "init"
                  [] ForceMode = "simple" -> "direct"
                  [] OTHER                -> "intent"

Init ==
  /\ machine = InitialState /\ phase = "enter" /\ cycles = 0
  /\ plan = [p \in PlanIds |-> Fresh] /\ used = {}
  /\ saved = [p \in PlanIds |-> {}]
  /\ ctxPlan = NoPlan /\ ctxPlanID = NoPlan
  /\ created = NoPlan /\ mode = "none" /\ calls = 0 /\ attempts = 0
  /\ batch = {}
  /\ token = FALSE /\ cancelled = FALSE /\ stopping = FALSE
  /\ result = "none" /\ runs = 1
  /\ approved = FALSE /\ shown = NoGraph /\ consulted = FALSE

(* PutPlan, by every step that changes a plan: the new version is           *)
(* checkpointed.  Kept only where plan_rollback can read it, without order. *)
PutPlans ==
  saved' = IF "plan_rollback" \in Unlisted
           THEN [p \in PlanIds |-> saved[p] \cup {q \in {plan'[p]} : q.state # "none"}]
           ELSE saved

-----------------------------------------------------------------------------
(* Machine.Run. *)

(* Set the state of the run's plan, if it has one, and PutPlan. *)
StorePlanState(m) ==
  /\ plan' = IF ctxPlan' = NoPlan THEN plan ELSE [plan EXCEPT ![ctxPlan'].state = m]
  /\ PutPlans

(* Mutants: the plan's state is not brought up to date; the cycle is not    *)
(* counted.                                                                 *)
Move_Unstored(next) ==
  /\ machine' = next /\ phase' = "enter" /\ cycles' = cycles + 1
  /\ UNCHANGED <<storeVars, talkVars, batch, stopVars, result, runs, history>>

Move_Uncounted(next) ==
  /\ machine' = next /\ phase' = "enter" /\ UNCHANGED cycles
  /\ StorePlanState(next)
  /\ UNCHANGED <<used, talkVars, batch, stopVars, result, runs, history>>

(* Execute returned next without an error, and the run goes on: transition. *)
Move(next) ==
  /\ machine' = next /\ phase' = "enter" /\ cycles' = cycles + 1
  /\ StorePlanState(next)
  /\ UNCHANGED <<used, talkVars, batch, stopVars, result, runs, history>>

(* Mutant: an error leaves the plan's state alone. *)
Fail_KeepState ==
  /\ phase' = "returned" /\ result' = "error"
  /\ UNCHANGED <<ctxVars, storeVars, machine, cycles, talkVars, batch, stopVars,
                 runs, history>>

(* Execute returned an error: the plan keeps the state of the machine. *)
Fail ==
  /\ phase' = "returned" /\ result' = "error"
  /\ UNCHANGED ctxVars /\ StorePlanState(machine)
  /\ UNCHANGED <<machine, cycles, used, talkVars, batch, stopVars, runs, history>>

EndOfCycles ==
  /\ phase = "enter" /\ cycles = MaxCycles
  /\ phase' = "returned" /\ result' = "cycles"
  /\ UNCHANGED <<machine, cycles, storeVars, ctxVars, talkVars, batch, stopVars,
                 runs, history>>

(* ReactAction starts a conversation; in Confirmed its prompt shows the plan. *)
Enter ==
  /\ phase = "enter" /\ cycles < MaxCycles
  /\ machine \notin {"doing", "rejected"}
  /\ phase' = "top"
  /\ created' = NoPlan /\ mode' = "none" /\ calls' = 0 /\ attempts' = 0
  /\ consulted' = FALSE /\ approved' = FALSE
  /\ shown' = IF machine = "confirmed" THEN Graph(ctxPlan) ELSE NoGraph
  /\ UNCHANGED <<machine, cycles, storeVars, ctxVars, batch, stopVars, result, runs>>

EnterDoing ==
  /\ phase = "enter" /\ cycles < MaxCycles /\ machine = "doing"
  /\ phase' = "check"
  /\ UNCHANGED <<machine, cycles, storeVars, ctxVars, talkVars, batch, stopVars,
                 result, runs, history>>

(* A terminal state returned itself. *)
Finish ==
  /\ \/ phase = "leave" /\ machine \in Terminal
     \/ phase = "enter" /\ machine = "rejected" /\ cycles < MaxCycles
  /\ phase' = "returned" /\ result' = "ok"
  /\ UNCHANGED ctxVars /\ StorePlanState(machine)
  /\ UNCHANGED <<machine, cycles, used, talkVars, batch, stopVars, runs, history>>

-----------------------------------------------------------------------------
(* A conversation: ReactAgent.ExecuteWithTools. *)

Converse(next) ==
  /\ phase' = next
  /\ UNCHANGED <<machine, cycles, ctxVars, batch, cancelled, stopping, result, runs>>

(* The abort token ends it without an error, the context with one; when     *)
(* both are there, select takes either.                                     *)
Abort ==
  /\ phase = "top" /\ token
  /\ token' = FALSE
  /\ Converse("leave") /\ UNCHANGED <<storeVars, talkVars, history>>

ContextDone == phase = "top" /\ cancelled /\ Fail

Generate ==
  /\ phase = "top" /\ ~token /\ ~cancelled
  /\ consulted' = TRUE
  /\ Converse("think") /\ UNCHANGED <<storeVars, talkVars, token, approved, shown>>

ModelFails == phase = "think" /\ Fail

(* The context is full: compress and start the conversation over; what the  *)
(* tools returned in the old one is lost, what they did is not.             *)
ContextFull ==
  /\ phase = "think"
  /\ \/ /\ attempts < MaxAttempts
        /\ attempts' = attempts + 1
        /\ created' = NoPlan /\ mode' = "none" /\ UNCHANGED calls
        /\ Converse("top") /\ UNCHANGED <<storeVars, token, history>>
     \/ attempts = MaxAttempts /\ Fail

Answer ==
  /\ phase = "think"
  /\ Converse("leave") /\ UNCHANGED <<storeVars, talkVars, token, history>>

NextMessage ==
  /\ phase \in {"act", "end"}
  /\ Converse(IF phase = "end" THEN "leave" ELSE "top")
  /\ UNCHANGED <<storeVars, talkVars, token, history>>

(* callTool runs whatever registered tool the LLM names; it was told of the *)
(* offered ones only.  After a terminating tool the message is the last.    *)
UseTool(tool) ==
  /\ phase \in {"think", "act", "end"} /\ calls < MaxCalls
  /\ tool \in Offered(machine) \cup Unlisted
  /\ calls' = calls + 1
  /\ Converse(IF tool = "set_work_mode" \/ phase = "end" THEN "end" ELSE "act")
  /\ UNCHANGED <<attempts, token, shown, consulted>>

SetWorkMode(m) ==
  /\ UseTool("set_work_mode")
  /\ mode' = IF mode = "none" THEN m ELSE mode
  /\ UNCHANGED <<storeVars, created, approved>>

AskHuman ==
  /\ UseTool("ask_human")
  /\ UNCHANGED <<storeVars, created, mode, approved>>

PlanCreate(p) ==
  /\ UseTool("plan_create") /\ ~Exists(p)
  /\ plan' = [plan EXCEPT ![p] = [Fresh EXCEPT !.state = "init"]] /\ PutPlans
  /\ created' = IF created = NoPlan THEN p ELSE created
  /\ UNCHANGED <<used, mode, approved>>

(* Plan q with a task more. *)
WithTask(q, t, parents) ==
  [q EXCEPT !.tasks = @ \cup {t}, !.parents = [q.parents EXCEPT ![t] = parents]]

TaskInsert(p, t, parents) ==
  /\ UseTool("task_insert") /\ Exists(p) /\ t \notin used
  /\ plan' = [plan EXCEPT ![p] = WithTask(@, t, parents)]
  /\ PutPlans
  /\ used' = used \cup {t}
  /\ UNCHANGED <<created, mode, approved>>

TaskDelete(p, t) ==
  /\ UseTool("task_delete") /\ t \in plan[p].tasks
  /\ plan' = [plan EXCEPT ![p].tasks = @ \ {t}] /\ PutPlans
  /\ UNCHANGED <<used, created, mode, approved>>

ConfirmPlan(p, s) ==
  /\ UseTool("confirm_plan") /\ Exists(p)
  /\ plan' = [plan EXCEPT ![p].state = s] /\ PutPlans
  /\ approved' = IF p = ctxPlan THEN s = "doing" ELSE approved
  /\ UNCHANGED <<used, created, mode>>

(* The plan becomes what it was in an earlier version, its state included.  *)
PlanRollback(p, old) ==
  /\ UseTool("plan_rollback") /\ old \in saved[p]
  /\ plan' = [plan EXCEPT ![p] = old] /\ PutPlans
  /\ UNCHANGED <<used, created, mode, approved>>

-----------------------------------------------------------------------------
(* What each state makes of its conversation. *)

(* Without a work mode: Direct. *)
LeaveIntent ==
  /\ phase = "leave" /\ machine = "intent"
  /\ UNCHANGED ctxVars
  /\ Move(IF mode = "plan" THEN "init" ELSE "direct")

(* No plan: Direct.  An invalid one: Updating, without Context.Plan. *)
LeaveInit ==
  /\ phase = "leave" /\ machine = "init"
  /\ ctxPlanID' = created
  /\ IF created = NoPlan THEN UNCHANGED ctxPlan /\ Move("direct")
     ELSE IF Valid(created) THEN ctxPlan' = created /\ Move("confirmed")
     ELSE UNCHANGED ctxPlan /\ Move("update")

(* The state that confirm_plan has set, if it was called. *)
LeaveConfirmed ==
  /\ phase = "leave" /\ machine = "confirmed"
  /\ UNCHANGED ctxVars
  /\ Move(plan[ctxPlanID].state)

(* Mutant: a valid replanned plan is executed at once. *)
LeaveUpdating_Doing ==
  /\ phase = "leave" /\ machine = "update"
  /\ UNCHANGED ctxPlanID
  /\ IF Valid(ctxPlanID) THEN ctxPlan' = ctxPlanID /\ Move("doing")
                         ELSE UNCHANGED ctxPlan /\ Move("direct")

(* The replanned plan is presented again; an invalid one is given up. *)
LeaveUpdating ==
  /\ phase = "leave" /\ machine = "update"
  /\ UNCHANGED ctxPlanID
  /\ IF Valid(ctxPlanID) THEN ctxPlan' = ctxPlanID /\ Move("confirmed")
                         ELSE UNCHANGED ctxPlan /\ Move("direct")

-----------------------------------------------------------------------------
(* Doing: DAGTaskExecutor.ExecuteBatch on the run's plan. *)

Mark(T, s) == /\ plan' = [plan EXCEPT ![ctxPlan].status =
                            [t \in TaskIds |-> IF t \in T THEN s ELSE @[t]]]
              /\ PutPlans

SpawnBatch ==
  /\ phase = "check" /\ Ready(ctxPlan) # {} /\ ~cancelled
  /\ batch' = Ready(ctxPlan) /\ Mark(batch', "doing")
  /\ phase' = "wait"
  /\ UNCHANGED <<machine, cycles, used, ctxVars, talkVars, stopVars, result, runs,
                 history>>

Outcomes == [batch -> {"done", "failed"}]
RolledBack == [batch -> Status]

(* The batch ends with outcomes f.  After a failure ExecuteBatch returns;   *)
(* workers that a cancel kept from starting fail their task without         *)
(* counting, and the executor looks for more.                               *)
JoinBatch(f, failed) ==
  /\ phase = "wait"
  /\ failed => \E t \in batch : f[t] = "failed"
  /\ ~failed => cancelled \/ \A t \in batch : f[t] = "done"
  /\ plan' = [plan EXCEPT ![ctxPlan].status =
                [t \in TaskIds |-> IF t \in batch THEN f[t] ELSE @[t]]]
  /\ PutPlans
  /\ batch' = {}
  /\ phase' = IF failed THEN "leave" ELSE "check"
  /\ UNCHANGED <<machine, cycles, used, ctxVars, talkVars, stopVars, result, runs,
                 history>>

(* The batch is rolled back: its tasks may be in any status afterwards.     *)
Drift(f) ==
  /\ phase = "wait" /\ MayDrift
  /\ plan' = [plan EXCEPT ![ctxPlan].status =
                [t \in TaskIds |-> IF t \in batch THEN f[t] ELSE @[t]],
                          ![ctxPlan].state = "update"]
  /\ PutPlans
  /\ batch' = {}
  /\ phase' = "leave"
  /\ UNCHANGED <<machine, cycles, used, ctxVars, talkVars, stopVars, result, runs,
                 history>>

(* Cancelled with tasks ready: they fail. *)
GiveUp ==
  /\ phase = "check" /\ Ready(ctxPlan) # {} /\ cancelled
  /\ Mark(Ready(ctxPlan), "failed")
  /\ phase' = "leave"
  /\ UNCHANGED <<machine, cycles, used, ctxVars, talkVars, batch, stopVars, result,
                 runs, history>>

LeaveDoingFailed ==
  /\ phase = "leave" /\ machine = "doing"
  /\ UNCHANGED ctxVars /\ Move("update")

(* Nothing is ready: no failure to report. *)
LeaveDoingDone ==
  /\ phase = "check" /\ Ready(ctxPlan) = {}
  /\ UNCHANGED ctxVars /\ Move("done")

-----------------------------------------------------------------------------
(* AgentLoop. *)

(* The user's Cancel: end the context, then interrupt the main agent. *)
CancelRun ==
  /\ MayCancel /\ ~stopping /\ ~cancelled /\ phase \notin {"returned", "over"}
  /\ cancelled' = TRUE /\ stopping' = TRUE
  /\ UNCHANGED <<machine, phase, cycles, storeVars, ctxVars, talkVars, batch, token,
                 result, runs, history>>

Interrupt ==
  /\ stopping
  /\ stopping' = FALSE /\ token' = TRUE
  /\ UNCHANGED <<machine, phase, cycles, storeVars, ctxVars, talkVars, batch,
                 cancelled, result, runs, history>>

(* Run's goroutine ends with the deferred a.Cancel(). *)
EndRun ==
  /\ phase = "returned"
  /\ phase' = "over" /\ cancelled' = TRUE /\ token' = TRUE
  /\ UNCHANGED <<machine, cycles, storeVars, ctxVars, talkVars, batch, stopping,
                 result, runs, history>>

(* The caller waits for Done, and calls Run again: a new context, reset. *)
Run ==
  /\ phase = "over" /\ ~stopping /\ runs < MaxRuns
  /\ runs' = runs + 1
  /\ machine' = InitialState /\ phase' = "enter" /\ cycles' = 0
  /\ ctxPlan' = NoPlan /\ ctxPlanID' = NoPlan
  /\ cancelled' = FALSE /\ result' = "none"
  /\ UNCHANGED <<storeVars, talkVars, batch, token, stopping, history>>

Conversation ==
  \/ Abort \/ ContextDone \/ Generate \/ ModelFails \/ ContextFull
  \/ Answer \/ NextMessage
  \/ \E m \in {"plan", "simple"} : SetWorkMode(m)
  \/ AskHuman
  \/ \E p \in PlanIds :
       \/ PlanCreate(p)
       \/ \E t \in TaskIds, S \in SUBSET (used \cup {Unknown}) : TaskInsert(p, t, S)
       \/ \E t \in TaskIds : TaskDelete(p, t)
       \/ \E s \in {"doing", "rejected", "update"} : ConfirmPlan(p, s)
       \/ \E old \in saved[p] : PlanRollback(p, old)

Executor ==
  \/ SpawnBatch \/ GiveUp
  \/ \E f \in Outcomes, failed \in BOOLEAN : JoinBatch(f, failed)
  \/ \E f \in RolledBack : Drift(f)

Machinery == \/ EndOfCycles \/ Enter \/ EnterDoing \/ Finish
             \/ LeaveIntent \/ LeaveInit \/ LeaveConfirmed \/ LeaveUpdating
             \/ LeaveDoingFailed \/ LeaveDoingDone \/ EndRun

Next == Machinery \/ Conversation \/ Executor \/ CancelRun \/ Interrupt \/ Run

Spec == Init /\ [][Next]_vars

(* Machine.Run's goroutine goes on: the LLM answers, the human answers, and *)
(* ExecuteBatch returns.  A cancel, once begun, is completed.               *)
FairSpec == Spec /\ WF_vars(Machinery \/ Conversation \/ Executor) /\ WF_vars(Interrupt)
-----------------------------------------------------------------------------
(* Properties. *)

PlanType == [state : Machines \cup {"none"}, tasks : SUBSET TaskIds,
             parents : [TaskIds -> SUBSET (TaskIds \cup {Unknown})],
             status : [TaskIds -> Status]]
GraphType == [tasks : SUBSET TaskIds,
              parents : [TaskIds -> SUBSET (TaskIds \cup {Unknown})]]

TypeOK ==
  /\ machine \in Machines /\ phase \in Phases /\ cycles \in 0 .. MaxCycles
  /\ plan \in [PlanIds -> PlanType] /\ used \subseteq TaskIds
  /\ saved \in [PlanIds -> SUBSET PlanType]
  /\ {ctxPlan, ctxPlanID} \subseteq PlanIds \cup {NoPlan}
  /\ created \in PlanIds \cup {NoPlan} /\ mode \in {"none", "plan", "simple"}
  /\ calls \in Nat /\ attempts \in 0 .. MaxAttempts
  /\ batch \subseteq TaskIds
  /\ token \in BOOLEAN /\ cancelled \in BOOLEAN /\ stopping \in BOOLEAN
  /\ result \in {"none", "ok", "error", "cycles"} /\ runs \in Nat
  /\ approved \in BOOLEAN /\ consulted \in BOOLEAN
  /\ shown \in GraphType

Returned == phase \in {"returned", "over"}

(* Nothing is executed that was not approved: tasks run only in the state    *)
(* Doing, and Doing is entered only from Confirmed, after a confirm_plan on  *)
(* this very plan that said so and was not taken back, in the same visit of  *)
(* Confirmed.  That is so even if the LLM calls tools it was not offered:    *)
(* an approval given at any other time is overwritten by the next            *)
(* transition.  Only plan_rollback to an approved version breaks it, against *)
(* "Transitions are enforced by the harness - the LLM cannot skip or alter   *)
(* the flow" (README.md:655-656).                                            *)
ApprovedBeforeDoing ==
  [][machine' = "doing" /\ machine # "doing" => machine = "confirmed" /\ approved]_vars

(* What is executed is what was presented, and valid: the graph the executor *)
(* works on is the one Confirmed last showed.  A tool that edits plans and   *)
(* is called outside the states that offer it can break that, against "LLM   *)
(* cannot modify the plan while awaiting user decision" (README.md:671).     *)
RunsWhatWasShown ==
  phase \in {"check", "wait"} => Graph(ctxPlan) = shown /\ Valid(ctxPlan)

(* Between two states, and after the run, the plan's stored state is the     *)
(* machine's, also when confirm_plan or a rollback set another one and an    *)
(* error or a cancel came before the machine looked.                         *)
PlanStateAgrees ==
  ctxPlan # NoPlan /\ phase \in {"enter", "returned"} => plan[ctxPlan].state = machine

(* Every run returns, and the loop can be used again. *)
RunReturns == (phase = "enter") ~> (phase = "over")

(* "Before any plan is created, the agent enters the Intent state.  A single *)
(* ReAct step with only the set_work_mode tool determines the execution      *)
(* path" (README.md:163-164), unless the user cancels.                       *)
IntentConsults ==
  [][machine = "intent" /\ machine' = "direct" /\ ~cancelled => consulted]_vars
=============================================================================
