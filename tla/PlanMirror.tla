----------------------------- MODULE PlanMirror -----------------------------
(***************************************************************************)
(* The plan a user sees in the web UI (cmd/kugelblitz-ui/chat.go).  The UI *)
(* reads no plan: it derives one from the outputs of the plan tools        *)
(* (derivePlanUpdate), resends it on events of the engine, and archives the*)
(* last one with the turn.  The plans themselves change in the tools       *)
(* (tools/internals/plan.go) and in the engine, which no output tells of.  *)
(***************************************************************************)
EXTENDS Naturals, Sequences, FiniteSets

CONSTANTS PlanIds, TaskIds,
          MaxTurns, MaxToolEnds   \* bounds of the model

(* The IDs of plans are UUIDs. *)
ASSUME MirrorAssumption == PlanIds \cap {"none", ""} = {}

VARIABLES plans,      \* what the store holds: id -> [status, tasks]
          touched,    \* history: plans the engine, a rollback or a failing save changed
          mirror,     \* session.currentPlan
          sent,       \* the last plan_update, or NoPlan
          turnPlans,  \* archived with the turn
          turnOpen, mirrorCount   \* [turns, tools]

mirrorVars == <<plans, touched, mirror, sent, turnPlans, turnOpen, mirrorCount>>

NoPlan == [plan |-> "none", status |-> "", tasks |-> {}]
\* What a tool returns: an absent or mistyped key reads as "".
NoOutput == [id |-> "", status |-> ""]
Extend(f, k, v) == [x \in DOMAIN f \cup {k} |-> IF x = k THEN v ELSE f[x]]

MirrorInit ==
    /\ plans = [i \in {} |-> NoPlan] /\ touched = {} /\ mirror = NoPlan /\ sent = NoPlan
    /\ turnPlans = <<>> /\ turnOpen = FALSE /\ mirrorCount = [turns |-> 0, tools |-> 0]

(* The turn forgets the plan of the one before it. *)
Forgotten == mirror' = NoPlan
TurnStarts ==
    /\ ~turnOpen /\ mirrorCount.turns < MaxTurns
    /\ turnOpen' = TRUE /\ turnPlans' = <<>> /\ Forgotten /\ sent' = NoPlan
    /\ mirrorCount' = [mirrorCount EXCEPT !.turns = @ + 1]
    /\ UNCHANGED <<plans, touched>>

(* addTurnPlan: a plan of the same id is replaced. *)
WithPlan(archived, p) ==
    LET same == {i \in DOMAIN archived : archived[i].plan = p.plan}
    IN IF same = {} THEN Append(archived, p)
       ELSE [archived EXCEPT ![CHOOSE i \in same : \A j \in same : i <= j] = p]
TurnEnds ==
    /\ turnOpen /\ turnOpen' = FALSE
    /\ turnPlans' = IF mirror = NoPlan THEN turnPlans ELSE WithPlan(turnPlans, mirror)
    /\ UNCHANGED <<plans, touched, mirror, sent, mirrorCount>>

(* The client is gone: the handler returns and archives nothing. *)
TurnDropped ==
    /\ turnOpen /\ turnOpen' = FALSE
    /\ UNCHANGED <<plans, touched, mirror, sent, turnPlans, mirrorCount>>

-----------------------------------------------------------------------------
(* derivePlanUpdate.  The subtasks of plan_create's output are a           *)
(* []map[string]any, which is no []any: none are taken.                    *)
Created(out) == [plan |-> out.id, status |-> "init", tasks |-> {}]
Confirmed_AnyPlan(out) == IF mirror # NoPlan THEN [mirror EXCEPT !.status = out.status] ELSE mirror
Confirmed(out) == IF mirror # NoPlan /\ mirror.plan = out.id THEN [mirror EXCEPT !.status = out.status] ELSE mirror
Inserted(out) ==
    IF mirror # NoPlan /\ out.id # "" THEN [mirror EXCEPT !.tasks = @ \cup {[id |-> out.id, status |-> "pending"]}] ELSE mirror
StatusSet(out) ==
    [mirror EXCEPT !.tasks = {IF mirror # NoPlan /\ t.id = out.id /\ out.id # "" THEN [t EXCEPT !.status = out.status] ELSE t : t \in @}]
Deleted(out) == [mirror EXCEPT !.tasks = {t \in @ : t.id # out.id \/ out.id = ""}]

DerivePlanUpdate(tool, out) ==
    /\ mirror' = CASE tool = "plan_create" -> Created(out)
                   [] tool = "confirm_plan" -> Confirmed(out)
                   [] tool = "task_insert" -> Inserted(out)
                   [] tool = "task_status_update" -> StatusSet(out)
                   [] tool = "task_delete" -> Deleted(out)
                   [] OTHER -> mirror
    /\ sent' = IF mirror' = NoPlan THEN sent ELSE mirror'

ToolEnds(tool, out) ==
    /\ turnOpen /\ mirrorCount.tools < MaxToolEnds
    /\ DerivePlanUpdate(tool, out)
    /\ mirrorCount' = [mirrorCount EXCEPT !.tools = @ + 1]
    /\ UNCHANGED <<turnPlans, turnOpen>>

PlanCreate ==
    \E id \in PlanIds \ DOMAIN plans :
        /\ plans' = Extend(plans, id, [status |-> "init", tasks |-> {}])
        /\ ToolEnds("plan_create", [id |-> id, status |-> ""])
        /\ UNCHANGED touched

ConfirmPlan ==
    \E id \in DOMAIN plans, s \in {"doing", "rejected", "update"} :
        /\ plans' = [plans EXCEPT ![id].status = s]
        /\ ToolEnds("confirm_plan", [id |-> id, status |-> s])
        /\ touched' = touched \ {id}

(* The output calls the new task's id task_id. *)
TaskInsert ==
    \E id \in DOMAIN plans, t \in TaskIds :
        /\ \A p \in DOMAIN plans : \A x \in plans[p].tasks : x.id # t
        /\ plans' = [plans EXCEPT ![id].tasks = @ \cup {[id |-> t, status |-> "pending"]}]
        /\ ToolEnds("task_insert", NoOutput)
        /\ UNCHANGED touched

TaskStatusUpdate ==
    \E id \in DOMAIN plans, s \in {"pending", "doing", "done", "failed"} : \E t \in plans[id].tasks :
        /\ plans' = [plans EXCEPT ![id].tasks = (@ \ {t}) \cup {[t EXCEPT !.status = s]}]
        /\ ToolEnds("task_status_update", [id |-> t.id, status |-> s])
        /\ UNCHANGED touched

(* The output says only that it was deleted. *)
TaskDelete ==
    \E id \in DOMAIN plans : \E t \in plans[id].tasks :
        /\ plans' = [plans EXCEPT ![id].tasks = @ \ {t}]
        /\ ToolEnds("task_delete", NoOutput)
        /\ UNCHANGED touched

(* A tool that refuses its arguments, and one whose save fails after the   *)
(* plan in memory is changed.  A worker's tools end here too.              *)
ToolFails ==
    \E tool \in {"plan_create", "confirm_plan", "task_insert", "task_status_update", "task_delete", "worker_spawn"} :
        /\ ToolEnds(tool, NoOutput)
        /\ UNCHANGED <<plans, touched>>
SaveFails ==
    \E id \in DOMAIN plans, s \in {"doing", "rejected", "update"} :
        /\ plans' = [plans EXCEPT ![id].status = s] /\ touched' = touched \cup {id}
        /\ ToolEnds("confirm_plan", NoOutput)

(* The engine moves a plan, or goes back to an earlier version of it; the  *)
(* hooks OnPlanRollback and OnTaskUpdated resend what the UI has.          *)
EngineMoves ==
    /\ turnOpen
    /\ \E id \in DOMAIN plans \ touched, s \in {"done", "failed", "init"} :
         /\ plans' = [plans EXCEPT ![id].status = s] /\ touched' = touched \cup {id}
    /\ sent' = IF mirror = NoPlan THEN sent ELSE mirror
    /\ UNCHANGED <<mirror, turnPlans, turnOpen, mirrorCount>>

MirrorNext == TurnStarts \/ TurnEnds \/ TurnDropped \/ PlanCreate \/ ConfirmPlan \/ TaskInsert \/ TaskStatusUpdate \/ TaskDelete
                \/ ToolFails \/ SaveFails \/ EngineMoves

-----------------------------------------------------------------------------
(* The status the user sees of a plan is the one the store holds, whichever*)
(* plans the agent creates and confirms and whatever fails in between      *)
(* (chat.go:395), unless the engine moved the plan since, which no tool    *)
(* output tells the UI (chat.go:281, 291).                                 *)
ShownIsStored ==
    mirror.plan \in DOMAIN plans \ touched => mirror.status = plans[mirror.plan].status

(* What the turn archives is what the user saw last, even when a tool      *)
(* failed after it (session.go:407, chat.go:338).                          *)
ArchivedIsSent ==
    [][TurnEnds => (IF sent = NoPlan THEN turnPlans' = <<>> ELSE turnPlans' = <<sent>>)]_mirrorVars

(* The page is behind the mirror at no time: whatever changed it was sent  *)
(* (chat.go:281, 361), also when a tool failed or a plan was replaced.     *)
PageIsMirror == mirror # NoPlan => sent = mirror

(* The plan on the page is the plan (chat.go:361), as far as the results of *)
(* the tools tell, and the one a turn ends with is the one archived.        *)
PlanShown == [](ShownIsStored /\ PageIsMirror) /\ ArchivedIsSent
=============================================================================
