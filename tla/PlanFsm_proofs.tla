-------------------------- MODULE PlanFsm_proofs --------------------------
(***************************************************************************)
(* Theorems about module PlanFsm, for any number of plans, tasks, runs and  *)
(* cycles.                                                                  *)
(***************************************************************************)
EXTENDS PlanFsm, TLAPS

(* Nothing but the conversation phases and the executor's is under way when *)
(* the loop counter has reached its limit.                                  *)
Bounded == phase \notin {"enter", "returned", "over"} => cycles < MaxCycles

(* Checkpoints are of plans that exist. *)
Snapshots == saved \in [PlanIds -> SUBSET {q \in PlanType : q.state # "none"}]

(* The plan IDs the machine holds name plans of the store. *)
Named == \A p \in {created, ctxPlan, ctxPlanID} : p # NoPlan => Exists(p)

(* From Confirmed on the machine has a plan, the one with its plan ID;      *)
(* Updating at least has the ID.  The executor's phases belong to Doing,    *)
(* which has no conversation.                                               *)
Placed == /\ machine = "update" => ctxPlanID # NoPlan
          /\ machine \in {"confirmed", "doing"} => ctxPlan = ctxPlanID /\ ctxPlan # NoPlan
          /\ phase \in {"check", "wait"} => machine = "doing"
          /\ phase \in {"top", "think", "act", "end"} =>
               machine \notin {"doing", "rejected"}

(* PlanStateAgrees, also after the loop's goroutine has ended. *)
Agrees == ctxPlan # NoPlan /\ phase \in {"enter", "returned", "over"}
            => plan[ctxPlan].state = machine

(* In Confirmed, the plan's state is "doing" only while an approval stands. *)
Approval == "plan_rollback" \notin Unlisted /\ machine = "confirmed" /\ Talking
              => (plan[ctxPlan].state = "doing" => approved)

IInv == TypeOK /\ Snapshots /\ Bounded /\ Named /\ Placed /\ Agrees /\ Approval

-----------------------------------------------------------------------------
(* Setting the state of a plan, or its tasks' statuses, gives a plan. *)
LEMMA SetState ==
  ASSUME NEW f \in [PlanIds -> PlanType], NEW p \in PlanIds, NEW s \in Machines
  PROVE  LET q == [f EXCEPT ![p].state = s] IN
         /\ q \in [PlanIds -> PlanType]
         /\ q[p].state = s
         /\ \A r \in PlanIds : r # p => q[r] = f[r]
         /\ \A r \in PlanIds : /\ q[r].tasks = f[r].tasks
                               /\ q[r].parents = f[r].parents
                               /\ q[r].status = f[r].status
  BY DEF PlanType

(* Replacing the statuses of a plan changes nothing else. *)
LEMMA SetStatuses ==
  ASSUME NEW f \in [PlanIds -> PlanType], NEW p \in PlanIds,
         NEW s \in [TaskIds -> Status]
  PROVE  LET q == [f EXCEPT ![p].status = s] IN
         /\ q \in [PlanIds -> PlanType]
         /\ \A r \in PlanIds : /\ q[r].state = f[r].state
                               /\ q[r].tasks = f[r].tasks
                               /\ q[r].parents = f[r].parents
  BY DEF PlanType

(* So does a task more, with its parents. *)
LEMMA AddTask ==
  ASSUME NEW q \in PlanType, NEW t \in TaskIds,
         NEW S \in SUBSET (TaskIds \cup {Unknown})
  PROVE  WithTask(q, t, S) \in PlanType /\ WithTask(q, t, S).state = q.state
<1> DEFINE P == [q.parents EXCEPT ![t] = S]
<1>1. P \in [TaskIds -> SUBSET (TaskIds \cup {Unknown})]
  BY DEF PlanType
<1> DEFINE r == [q EXCEPT !.tasks = q.tasks \cup {t}]
<1>2. WithTask(q, t, S) = [r EXCEPT !.parents = P]
  BY DEF WithTask
<1>3. r \in PlanType /\ r.state = q.state
  BY DEF PlanType
<1> HIDE DEF P, r
<1>4. [r EXCEPT !.parents = P] \in PlanType /\ [r EXCEPT !.parents = P].state = r.state
  BY <1>1, <1>3 DEF PlanType
<1> QED  BY <1>2, <1>3, <1>4

(* A plan that does not exist yet has the fields of one. *)
LEMMA FreshType == Fresh \in [state : {"none"}, tasks : SUBSET TaskIds,
                     parents : [TaskIds -> SUBSET (TaskIds \cup {Unknown})],
                     status : [TaskIds -> Status]]
  BY DEF Fresh, Status

(* No graph is of the type of graphs. *)
LEMMA NoGraphType == NoGraph \in GraphType
  BY FreshType DEF NoGraph, GraphType, Fresh

(* Where a run starts. *)
LEMMA InitialStateType == InitialState \in {"init", "direct", "intent"}
  BY DEF InitialState

(* Keeping the plan or setting its state keeps the invariant's types. *)
LEMMA StoreType ==
  ASSUME plan \in [PlanIds -> PlanType], NEW m \in Machines,
         ctxPlan' \in PlanIds \cup {NoPlan},
         StorePlanState(m)
  PROVE  /\ plan' \in [PlanIds -> PlanType]
         /\ ctxPlan' # NoPlan => plan'[ctxPlan'].state = m
         /\ \A r \in PlanIds : /\ plan'[r].tasks = plan[r].tasks
                               /\ plan'[r].parents = plan[r].parents
                               /\ plan[r].state # "none" => plan'[r].state # "none"
<1>1. CASE ctxPlan' # NoPlan
  <2>1. plan' = [plan EXCEPT ![ctxPlan'].state = m] /\ ctxPlan' \in PlanIds
    BY <1>1 DEF StorePlanState
  <2>2. m # "none"  BY DEF Machines
  <2> QED  BY <1>1, <2>1, <2>2, SetState
<1>2. CASE ctxPlan' = NoPlan
  BY <1>2 DEF StorePlanState
<1> QED  BY <1>1, <1>2

(* A step that checkpoints what it changes, or changes nothing. *)
LEMMA SnapshotStep ==
  ASSUME Snapshots, plan' \in [PlanIds -> PlanType], PutPlans \/ UNCHANGED saved
  PROVE  Snapshots' /\ saved' \in [PlanIds -> SUBSET PlanType]
  BY DEF Snapshots, PutPlans

-----------------------------------------------------------------------------
(* The invariant holds at the start. *)
LEMMA InitInv == Init => IInv
<1> SUFFICES ASSUME Init PROVE IInv  OBVIOUS
<1> USE PlanFsmAssumption, InitialStateType
<1>1. plan \in [PlanIds -> PlanType]  BY FreshType DEF Init, PlanType
<1>0. Snapshots /\ saved \in [PlanIds -> SUBSET PlanType]  BY DEF Init, Snapshots
<1>2. TypeOK
  <2>1. 0 \in 0 .. MaxCycles /\ 0 \in 0 .. MaxAttempts  OBVIOUS
  <2> QED  BY <1>0, <1>1, <2>1, NoGraphType DEF Init, TypeOK, Machines, Phases
<1>3. Bounded /\ Named /\ Placed /\ Agrees /\ Approval
  BY DEF Init, Bounded, Named, Placed, Agrees, Approval, Talking
<1> QED  BY <1>0, <1>2, <1>3 DEF IInv

(* What is common to all ends of a state's Execute that go on. *)
LEMMA MoveStep ==
  ASSUME IInv, NEW next \in Machines, Move(next),
         phase \in {"leave", "check"},
         {ctxPlan', ctxPlanID'} \subseteq PlanIds \cup {NoPlan},
         ctxPlan' # NoPlan => Exists(ctxPlan'),
         ctxPlanID' # NoPlan => Exists(ctxPlanID'),
         next = "update" => ctxPlanID' # NoPlan,
         next \in {"confirmed", "doing"} => ctxPlan' = ctxPlanID' /\ ctxPlan' # NoPlan
  PROVE  IInv'
<1> USE PlanFsmAssumption
<1>1. /\ plan' \in [PlanIds -> PlanType]
      /\ ctxPlan' # NoPlan => plan'[ctxPlan'].state = next
      /\ \A r \in PlanIds : plan[r].state # "none" => plan'[r].state # "none"
  BY StoreType DEF Move, IInv, TypeOK
<1>2. cycles' \in 0 .. MaxCycles  BY DEF Move, IInv, Bounded, TypeOK
<1>0. Snapshots' /\ saved' \in [PlanIds -> SUBSET PlanType]
  BY <1>1, SnapshotStep DEF IInv, Move, StorePlanState
<1>3. TypeOK'
  BY <1>0, <1>1, <1>2 DEF Move, IInv, TypeOK, talkVars, stopVars, history, Phases
<1>4. Bounded'  BY DEF Move, Bounded
<1>5. Named'  BY <1>1 DEF Move, IInv, TypeOK, Named, Exists, talkVars
<1>6. Placed'  BY DEF Move, Placed
<1>7. Agrees'  BY <1>1 DEF Move, Agrees
<1>8. Approval'  BY DEF Move, Approval, Talking
<1> QED  BY <1>0, <1>3, <1>4, <1>5, <1>6, <1>7, <1>8 DEF IInv

(* ... and of those that return an error or finish. *)
LEMMA StoreStep ==
  ASSUME IInv, phase' = "returned", StorePlanState(machine), UNCHANGED ctxVars,
         result' \in {"ok", "error"},
         UNCHANGED <<machine, cycles, used, talkVars, batch, stopVars, runs, history>>
  PROVE  IInv'
<1> USE PlanFsmAssumption
<1>1. /\ plan' \in [PlanIds -> PlanType]
      /\ ctxPlan' # NoPlan => plan'[ctxPlan'].state = machine
      /\ \A r \in PlanIds : plan[r].state # "none" => plan'[r].state # "none"
  BY StoreType DEF IInv, TypeOK, ctxVars
<1>0. Snapshots' /\ saved' \in [PlanIds -> SUBSET PlanType]
  BY <1>1, SnapshotStep DEF IInv, StorePlanState
<1>2. TypeOK'
  BY <1>0, <1>1 DEF IInv, TypeOK, ctxVars, talkVars, stopVars, history, Phases
<1>3. Bounded'  BY DEF Bounded
<1>4. Named'  BY <1>1 DEF IInv, TypeOK, Named, Exists, talkVars, ctxVars
<1>5. Placed'  BY DEF IInv, Placed, ctxVars
<1>6. Agrees'  BY <1>1 DEF Agrees
<1>7. Approval'  BY DEF Approval, Talking
<1> QED  BY <1>0, <1>2, <1>3, <1>4, <1>5, <1>6, <1>7 DEF IInv

(* Steps of Machine.Run, the conversation's ends included. *)
LEMMA MachineryStep ==
  ASSUME IInv, Machinery
  PROVE  IInv'
<1> USE PlanFsmAssumption
<1>0. /\ {ctxPlan, ctxPlanID} \subseteq PlanIds \cup {NoPlan}
      /\ created \in PlanIds \cup {NoPlan}
      /\ ctxPlan # NoPlan => Exists(ctxPlan)
      /\ ctxPlanID # NoPlan => Exists(ctxPlanID)
      /\ created # NoPlan => Exists(created)
  BY DEF IInv, TypeOK, Named
<1>1. CASE EndOfCycles
  BY <1>1 DEF EndOfCycles, IInv, TypeOK, Snapshots, Bounded, Named, Placed, Agrees,
       Approval, Talking, Exists, storeVars, ctxVars, talkVars, stopVars, history, Phases
<1>2. CASE Enter
  <2>1. TypeOK'
    <3>1. machine = "confirmed" => Graph(ctxPlan) \in GraphType
      <4>1. machine = "confirmed" => ctxPlan \in PlanIds  BY <1>0 DEF IInv, Placed
      <4> QED  BY <4>1 DEF IInv, TypeOK, PlanType, GraphType, Graph
    <3>2. shown' \in GraphType  BY <1>2, <3>1, NoGraphType DEF Enter
    <3>3. 0 \in 0 .. MaxAttempts  OBVIOUS
    <3> QED  BY <1>2, <3>2, <3>3 DEF Enter, IInv, TypeOK, storeVars, ctxVars,
                                    stopVars, Phases
  <2>2. Snapshots' /\ Bounded' /\ Named' /\ Placed' /\ Agrees'
    BY <1>2 DEF Enter, IInv, TypeOK, Snapshots, Bounded, Named, Placed, Agrees, Exists,
         storeVars, ctxVars
  <2>3. Approval'
    <3>1. machine = "confirmed" => plan[ctxPlan].state = "confirmed"
      BY <1>2 DEF Enter, IInv, Placed, Agrees
    <3> QED  BY <1>2, <3>1 DEF Enter, Approval, storeVars, ctxVars
  <2> QED  BY <2>1, <2>2, <2>3 DEF IInv
<1>3. CASE EnterDoing
  BY <1>3 DEF EnterDoing, IInv, TypeOK, Snapshots, Bounded, Named, Placed, Agrees,
       Approval, Talking, Exists, storeVars, ctxVars, talkVars, stopVars, history, Phases
<1>4. CASE Finish  BY <1>4, StoreStep DEF Finish
<1>5. CASE LeaveIntent
  <2>1. (IF mode = "plan" THEN "init" ELSE "direct")
          \in Machines \ {"update", "confirmed", "doing"}
    BY DEF Machines
  <2> QED  BY <1>0, <1>5, <2>1, MoveStep DEF LeaveIntent, ctxVars
<1>6. CASE LeaveInit
  <2>1. /\ "direct" \in Machines /\ "confirmed" \in Machines /\ "update" \in Machines
    BY DEF Machines
  <2>3. phase = "leave" /\ ctxPlanID' = created  BY <1>6 DEF LeaveInit
  <2>4. CASE created = NoPlan
    <3>1. ctxPlan' = ctxPlan /\ Move("direct")  BY <1>6, <2>4 DEF LeaveInit
    <3> QED  BY <1>0, <2>1, <2>3, <2>4, <3>1, MoveStep
  <2>5. CASE created # NoPlan /\ Valid(created)
    <3>1. ctxPlan' = created /\ Move("confirmed")  BY <1>6, <2>5 DEF LeaveInit
    <3> QED  BY <1>0, <2>1, <2>3, <2>5, <3>1, MoveStep
  <2>6. CASE created # NoPlan /\ ~Valid(created)
    <3>1. ctxPlan' = ctxPlan /\ Move("update")  BY <1>6, <2>6 DEF LeaveInit
    <3> QED  BY <1>0, <2>1, <2>3, <2>6, <3>1, MoveStep
  <2> QED  BY <2>4, <2>5, <2>6
<1>7. CASE LeaveConfirmed
  <2>1. ctxPlan = ctxPlanID /\ ctxPlanID \in PlanIds /\ Exists(ctxPlanID)
    BY <1>0, <1>7 DEF LeaveConfirmed, IInv, Placed
  <2>2. plan[ctxPlanID].state \in Machines
    BY <2>1 DEF IInv, TypeOK, PlanType, Exists
  <2> QED  BY <1>0, <1>7, <2>1, <2>2, MoveStep DEF LeaveConfirmed, ctxVars
<1>8. CASE LeaveUpdating
  <2>1. /\ "direct" \in Machines /\ "confirmed" \in Machines  BY DEF Machines
  <2>2. ctxPlanID # NoPlan  BY <1>8 DEF LeaveUpdating, IInv, Placed
  <2> QED  BY <1>0, <1>8, <2>1, <2>2, MoveStep DEF LeaveUpdating
<1>9. CASE LeaveDoingFailed
  <2>1. ctxPlanID # NoPlan /\ "update" \in Machines
    BY <1>9 DEF LeaveDoingFailed, IInv, Placed, Machines
  <2> QED  BY <1>0, <1>9, <2>1, MoveStep DEF LeaveDoingFailed, ctxVars
<1>10. CASE LeaveDoingDone
  <2>1. "done" \in Machines  BY DEF Machines
  <2> QED  BY <1>0, <1>10, <2>1, MoveStep DEF LeaveDoingDone, ctxVars
<1>11. CASE EndRun
  BY <1>11 DEF EndRun, IInv, TypeOK, Snapshots, Bounded, Named, Placed, Agrees, Approval,
       Talking, Exists, storeVars, ctxVars, talkVars, history, Phases
<1> QED  BY <1>1, <1>2, <1>3, <1>4, <1>5, <1>6, <1>7, <1>8, <1>9, <1>10, <1>11
         DEF Machinery

(* Steps of a conversation.  Those that do not touch the plans first. *)
LEMMA TalkStep ==
  ASSUME IInv, phase \in {"top", "think", "act", "end"},
         phase' \in {"top", "think", "act", "end", "leave"},
         UNCHANGED <<machine, cycles, plan, saved, used, ctxVars, batch, cancelled,
                     stopping, result, runs, approved, shown>>,
         created' \in PlanIds \cup {NoPlan}, created' # NoPlan => Exists(created'),
         mode' \in {"none", "plan", "simple"}, calls' \in Nat,
         attempts' \in 0 .. MaxAttempts,
         token' \in BOOLEAN, consulted' \in BOOLEAN
  PROVE  IInv'
<1>1. TypeOK'  BY DEF IInv, TypeOK, ctxVars, Phases
<1>2. Snapshots' /\ Bounded' /\ Placed' /\ Agrees'
  BY DEF IInv, Snapshots, Bounded, Placed, Agrees, ctxVars
<1>3. Named'  BY DEF IInv, Named, Exists, ctxVars
<1>4. Approval'  BY DEF IInv, Approval, Talking, ctxVars
<1> QED  BY <1>1, <1>2, <1>3, <1>4 DEF IInv

(* A tool call that edits plans: an approval changes only with the state of *)
(* the run's plan, unless a rollback does.                                  *)
LEMMA EditStep ==
  ASSUME IInv, NEW tool \in Tools, UseTool(tool), PutPlans,
         plan' \in [PlanIds -> PlanType], used' \subseteq TaskIds,
         \A r \in PlanIds : Exists(r) => Exists(r)',
         created' \in PlanIds \cup {NoPlan}, created' # NoPlan => Exists(created)',
         UNCHANGED mode, approved' \in BOOLEAN,
         "plan_rollback" \notin Unlisted /\ ctxPlan \in PlanIds /\ Exists(ctxPlan)
           /\ plan'[ctxPlan].state = "doing"
             => approved' \/ (plan[ctxPlan].state = "doing" /\ approved' = approved)
  PROVE  IInv'
<1> USE PlanFsmAssumption
<1>0. Snapshots' /\ saved' \in [PlanIds -> SUBSET PlanType]  BY SnapshotStep DEF IInv
<1>1. TypeOK'
  BY <1>0 DEF IInv, TypeOK, UseTool, Converse, ctxVars, Phases
<1>2. Bounded' /\ Placed' /\ Agrees'
  BY DEF IInv, Bounded, Placed, Agrees, UseTool, Converse, ctxVars
<1>3. Named'
  BY DEF IInv, TypeOK, Named, Exists, UseTool, Converse, ctxVars
<1>4. Approval'
  <2> SUFFICES ASSUME "plan_rollback" \notin Unlisted, machine' = "confirmed",
                      (plan[ctxPlan].state)' = "doing"
               PROVE  approved'
    BY DEF Approval
  <2>1. UNCHANGED <<machine, ctxPlan>> /\ Talking
    BY DEF UseTool, Converse, ctxVars, Talking
  <2>2. ctxPlan \in PlanIds /\ Exists(ctxPlan)
    BY <2>1 DEF IInv, TypeOK, Placed, Named
  <2>3. plan[ctxPlan].state = "doing" => approved
    BY <2>1 DEF IInv, Approval
  <2> QED  BY <2>1, <2>2, <2>3
<1> QED  BY <1>0, <1>1, <1>2, <1>3, <1>4 DEF IInv

(* The conversation and its tools keep the invariant. *)
LEMMA ConversationStep ==
  ASSUME IInv, Conversation
  PROVE  IInv'
<1> USE PlanFsmAssumption
<1>0. /\ created \in PlanIds \cup {NoPlan} /\ (created # NoPlan => Exists(created))
      /\ mode \in {"none", "plan", "simple"} /\ calls \in Nat
      /\ attempts \in 0 .. MaxAttempts
      /\ token \in BOOLEAN /\ consulted \in BOOLEAN
  BY DEF IInv, TypeOK, Named
<1>1. CASE Abort
  BY <1>0, <1>1, TalkStep DEF Abort, Converse, talkVars, storeVars, history
<1>2. CASE ContextDone  BY <1>2, StoreStep DEF ContextDone, Fail
<1>3. CASE Generate
  BY <1>0, <1>3, TalkStep DEF Generate, Converse, talkVars, storeVars
<1>4. CASE ModelFails  BY <1>4, StoreStep DEF ModelFails, Fail
<1>5. CASE ContextFull
  <2>1. CASE attempts = MaxAttempts /\ Fail  BY <2>1, StoreStep DEF Fail
  <2>2. CASE ~(attempts = MaxAttempts /\ Fail)
    <3>1. attempts' \in 0 .. MaxAttempts  BY <1>0, <1>5, <2>2 DEF ContextFull
    <3> QED  BY <1>0, <1>5, <2>2, <3>1, TalkStep
             DEF ContextFull, Converse, storeVars, history
  <2> QED  BY <2>1, <2>2
<1>6. CASE Answer
  BY <1>0, <1>6, TalkStep DEF Answer, Converse, talkVars, storeVars, history
<1>7. CASE NextMessage
  BY <1>0, <1>7, TalkStep DEF NextMessage, Converse, talkVars, storeVars, history
<1>8. ASSUME NEW m \in {"plan", "simple"}, SetWorkMode(m)
      PROVE  IInv'
  <2>1. calls' \in Nat  BY <1>0, <1>8 DEF SetWorkMode, UseTool
  <2> QED  BY <1>0, <1>8, <2>1, TalkStep
           DEF SetWorkMode, UseTool, Converse, storeVars
<1>9. CASE AskHuman
  <2>1. calls' \in Nat  BY <1>0, <1>9 DEF AskHuman, UseTool
  <2> QED  BY <1>0, <1>9, <2>1, TalkStep DEF AskHuman, UseTool, Converse, storeVars
<1>10. ASSUME NEW p \in PlanIds, PlanCreate(p)
       PROVE  IInv'
  <2>1. plan \in [PlanIds -> PlanType]  BY DEF IInv, TypeOK
  <2>2. [Fresh EXCEPT !.state = "init"] \in PlanType /\ [Fresh EXCEPT !.state = "init"].state = "init"
    BY FreshType DEF PlanType, Machines
  <2>3. /\ plan' \in [PlanIds -> PlanType] /\ plan'[p].state = "init"
        /\ \A r \in PlanIds : r # p => plan'[r] = plan[r]
    BY <1>10, <2>1, <2>2 DEF PlanCreate
  <2>4. \A r \in PlanIds : Exists(r) => r # p /\ Exists(r)'
    BY <1>10, <2>3 DEF PlanCreate, Exists
  <2>5. Exists(p)'  BY <2>3 DEF Exists
  <2>6. UseTool("plan_create") /\ "plan_create" \in Tools  BY <1>10 DEF PlanCreate, Tools
  <2>7. used' \subseteq TaskIds /\ approved' \in BOOLEAN /\ UNCHANGED <<mode, approved>>
    BY <1>10 DEF PlanCreate, IInv, TypeOK
  <2>8. created' \in PlanIds \cup {NoPlan} /\ (created' # NoPlan => Exists(created)')
    BY <1>0, <1>10, <2>4, <2>5 DEF PlanCreate, Exists
  <2> QED  BY <1>10, <2>3, <2>4, <2>6, <2>7, <2>8, EditStep DEF PlanCreate
<1>11. ASSUME NEW p \in PlanIds, NEW t \in TaskIds,
              NEW S \in SUBSET (used \cup {Unknown}), TaskInsert(p, t, S)
       PROVE  IInv'
  <2>1. plan \in [PlanIds -> PlanType] /\ used \subseteq TaskIds  BY DEF IInv, TypeOK
  <2>2. /\ plan' \in [PlanIds -> PlanType]
        /\ \A r \in PlanIds : plan'[r].state = plan[r].state
    <3>1. plan[p] \in PlanType  BY <2>1
    <3>2. S \in SUBSET (TaskIds \cup {Unknown})  BY <2>1
    <3> QED  BY <1>11, <2>1, <3>1, <3>2, AddTask DEF TaskInsert
  <2>3. \A r \in PlanIds : Exists(r) => Exists(r)'  BY <2>2 DEF Exists
  <2>4. UseTool("task_insert") /\ "task_insert" \in Tools  BY <1>11 DEF TaskInsert, Tools
  <2>5. used' \subseteq TaskIds /\ approved' \in BOOLEAN
        /\ UNCHANGED <<mode, approved, created>>
    BY <1>11 DEF TaskInsert, IInv, TypeOK
  <2>6. created' # NoPlan => Exists(created)'  BY <1>0, <2>3, <2>5 DEF Exists
  <2> QED  BY <1>0, <1>11, <2>2, <2>3, <2>4, <2>5, <2>6, EditStep DEF TaskInsert
<1>12. ASSUME NEW p \in PlanIds, NEW t \in TaskIds, TaskDelete(p, t)
       PROVE  IInv'
  <2>1. plan \in [PlanIds -> PlanType]  BY DEF IInv, TypeOK
  <2>2. /\ plan' \in [PlanIds -> PlanType]
        /\ \A r \in PlanIds : plan'[r].state = plan[r].state
    BY <1>12, <2>1 DEF TaskDelete, PlanType
  <2>3. \A r \in PlanIds : Exists(r) => Exists(r)'  BY <2>2 DEF Exists
  <2>4. UseTool("task_delete") /\ "task_delete" \in Tools  BY <1>12 DEF TaskDelete, Tools
  <2>5. used' \subseteq TaskIds /\ approved' \in BOOLEAN
        /\ UNCHANGED <<mode, approved, created>>
    BY <1>12 DEF TaskDelete, IInv, TypeOK
  <2>6. created' # NoPlan => Exists(created)'  BY <1>0, <2>3, <2>5 DEF Exists
  <2> QED  BY <1>0, <1>12, <2>2, <2>3, <2>4, <2>5, <2>6, EditStep DEF TaskDelete
<1>13. ASSUME NEW p \in PlanIds, NEW s \in {"doing", "rejected", "update"},
              ConfirmPlan(p, s)
       PROVE  IInv'
  <2>1. plan \in [PlanIds -> PlanType] /\ s \in Machines /\ s # "none"
    BY DEF IInv, TypeOK, Machines
  <2>2. /\ plan' \in [PlanIds -> PlanType] /\ plan'[p].state = s
        /\ \A r \in PlanIds : r # p => plan'[r] = plan[r]
    BY <1>13, <2>1, SetState DEF ConfirmPlan
  <2>3. \A r \in PlanIds : Exists(r) => Exists(r)'  BY <2>1, <2>2 DEF Exists
  <2>4. UseTool("confirm_plan") /\ "confirm_plan" \in Tools  BY <1>13 DEF ConfirmPlan, Tools
  <2>5. used' \subseteq TaskIds /\ UNCHANGED <<mode, created>>
    BY <1>13 DEF ConfirmPlan, IInv, TypeOK
  <2>6. created' # NoPlan => Exists(created)'  BY <1>0, <2>3, <2>5 DEF Exists
  <2>7. CASE p = ctxPlan
    <3>1. approved' = (s = "doing")  BY <1>13, <2>7 DEF ConfirmPlan
    <3>2. approved' \in BOOLEAN /\ (plan'[ctxPlan].state = "doing" => approved')
      BY <2>2, <2>7, <3>1
    <3> QED  BY <1>0, <1>13, <2>2, <2>3, <2>4, <2>5, <2>6, <3>2, EditStep DEF ConfirmPlan
  <2>8. CASE p # ctxPlan
    <3>1. approved' = approved /\ approved \in BOOLEAN
      BY <1>13, <2>8 DEF ConfirmPlan, IInv, TypeOK
    <3>2. ctxPlan \in PlanIds => plan'[ctxPlan].state = plan[ctxPlan].state
      BY <2>2, <2>8
    <3> QED  BY <1>0, <1>13, <2>2, <2>3, <2>4, <2>5, <2>6, <3>1, <3>2, EditStep
             DEF ConfirmPlan
  <2> QED  BY <2>7, <2>8
<1>14. ASSUME NEW p \in PlanIds, NEW old \in saved[p], PlanRollback(p, old)
       PROVE  IInv'
  <2>1. plan \in [PlanIds -> PlanType] /\ old \in PlanType /\ old.state # "none"
    BY DEF IInv, TypeOK, Snapshots
  <2>2. /\ plan' \in [PlanIds -> PlanType] /\ plan'[p] = old
        /\ \A r \in PlanIds : r # p => plan'[r] = plan[r]
    BY <1>14, <2>1 DEF PlanRollback
  <2>3. \A r \in PlanIds : Exists(r) => Exists(r)'  BY <2>1, <2>2 DEF Exists
  <2>4. UseTool("plan_rollback") /\ "plan_rollback" \in Tools
    BY <1>14 DEF PlanRollback, Tools
  <2>5. used' \subseteq TaskIds /\ approved' \in BOOLEAN
        /\ UNCHANGED <<mode, approved, created>>
    BY <1>14 DEF PlanRollback, IInv, TypeOK
  <2>6. created' # NoPlan => Exists(created)'  BY <1>0, <2>3, <2>5 DEF Exists
  <2>7. "plan_rollback" \in Unlisted  BY <2>4 DEF UseTool, Offered
  <2> QED  BY <1>0, <1>14, <2>2, <2>3, <2>4, <2>5, <2>6, <2>7, EditStep DEF PlanRollback
<1> QED  BY <1>1, <1>2, <1>3, <1>4, <1>5, <1>6, <1>7, <1>8, <1>9, <1>10, <1>11,
            <1>12, <1>13, <1>14 DEF Conversation

(* A step of the executor: it sets statuses of the run's plan, and perhaps  *)
(* its state, and stays in Doing.                                           *)
LEMMA BatchStep ==
  ASSUME IInv, machine = "doing", phase \in {"check", "wait"},
         phase' \in {"check", "wait", "leave"}, batch' \subseteq TaskIds,
         plan' \in [PlanIds -> PlanType], PutPlans,
         \A r \in PlanIds : Exists(r) => Exists(r)',
         UNCHANGED <<machine, cycles, used, ctxVars, talkVars, stopVars, result, runs,
                     history>>
  PROVE  IInv'
<1>0. Snapshots' /\ saved' \in [PlanIds -> SUBSET PlanType]  BY SnapshotStep DEF IInv
<1>1. TypeOK'
  BY <1>0 DEF IInv, TypeOK, ctxVars, talkVars, stopVars, history, Phases
<1>2. Bounded' /\ Placed' /\ Agrees' /\ Approval'
  BY DEF IInv, Bounded, Placed, Agrees, Approval, ctxVars
<1>3. Named'
  BY DEF IInv, TypeOK, Named, Exists, ctxVars, talkVars
<1> QED  BY <1>0, <1>1, <1>2, <1>3 DEF IInv

(* The executor keeps the invariant. *)
LEMMA ExecutorStep ==
  ASSUME IInv, Executor
  PROVE  IInv'
<1> DEFINE Merged(f) == [t \in TaskIds |-> IF t \in batch THEN f[t]
                                           ELSE plan[ctxPlan].status[t]]
           Marked(T, s) == [t \in TaskIds |-> IF t \in T THEN s
                                              ELSE plan[ctxPlan].status[t]]
<1>1. phase \in {"check", "wait"}
  BY DEF Executor, SpawnBatch, GiveUp, JoinBatch, Drift
<1>2. /\ machine = "doing" /\ ctxPlan \in PlanIds
      /\ plan \in [PlanIds -> PlanType] /\ batch \subseteq TaskIds
  BY <1>1 DEF IInv, TypeOK, Placed
<1>3. plan[ctxPlan].status \in [TaskIds -> Status] /\ Ready(ctxPlan) \subseteq TaskIds
  BY <1>2 DEF PlanType, Ready
<1>4. CASE SpawnBatch
  <2>1. plan' = [plan EXCEPT ![ctxPlan].status = Marked(batch', "doing")]
    BY <1>2, <1>4 DEF SpawnBatch, Mark
  <2>2. Marked(batch', "doing") \in [TaskIds -> Status]  BY <1>3 DEF Status
  <2> HIDE DEF Marked
  <2>3. plan' \in [PlanIds -> PlanType] /\ \A r \in PlanIds : plan'[r].state = plan[r].state
    BY <1>2, <2>1, <2>2, SetStatuses
  <2>4. \A r \in PlanIds : Exists(r) => Exists(r)'  BY <2>3 DEF Exists
  <2> QED  BY <1>1, <1>2, <1>3, <1>4, <2>3, <2>4, BatchStep DEF SpawnBatch, Mark
<1>5. CASE GiveUp
  <2>1. plan' = [plan EXCEPT ![ctxPlan].status = Marked(Ready(ctxPlan), "failed")]
    BY <1>2, <1>5 DEF GiveUp, Mark
  <2>2. Marked(Ready(ctxPlan), "failed") \in [TaskIds -> Status]  BY <1>3 DEF Status
  <2> HIDE DEF Marked
  <2>3. plan' \in [PlanIds -> PlanType] /\ \A r \in PlanIds : plan'[r].state = plan[r].state
    BY <1>2, <2>1, <2>2, SetStatuses
  <2>4. \A r \in PlanIds : Exists(r) => Exists(r)'  BY <2>3 DEF Exists
  <2> QED  BY <1>1, <1>2, <1>5, <2>3, <2>4, BatchStep DEF GiveUp, Mark
<1>6. ASSUME NEW f \in Outcomes, NEW failed \in BOOLEAN, JoinBatch(f, failed)
      PROVE  IInv'
  <2>1. plan' = [plan EXCEPT ![ctxPlan].status = Merged(f)]
    BY <1>2, <1>6 DEF JoinBatch
  <2>2. Merged(f) \in [TaskIds -> Status]  BY <1>2, <1>3 DEF Status, Outcomes
  <2> HIDE DEF Merged
  <2>3. plan' \in [PlanIds -> PlanType] /\ \A r \in PlanIds : plan'[r].state = plan[r].state
    BY <1>2, <2>1, <2>2, SetStatuses
  <2>4. \A r \in PlanIds : Exists(r) => Exists(r)'  BY <2>3 DEF Exists
  <2>5. phase' \in {"check", "leave"} /\ batch' \subseteq TaskIds  BY <1>6 DEF JoinBatch
  <2> QED  BY <1>1, <1>2, <1>6, <2>3, <2>4, <2>5, BatchStep DEF JoinBatch
<1>7. ASSUME NEW f \in RolledBack, Drift(f)
      PROVE  IInv'
  <2> DEFINE q == [plan EXCEPT ![ctxPlan].status = Merged(f)]
  <2>1. Merged(f) \in [TaskIds -> Status]  BY <1>2, <1>3 DEF Status, RolledBack
  <2>2. plan' = [q EXCEPT ![ctxPlan].state = "update"]
    BY <1>2, <1>7 DEF Drift
  <2>3. q \in [PlanIds -> PlanType] /\ \A r \in PlanIds : q[r].state = plan[r].state
    <3> HIDE DEF Merged
    <3> QED  BY <1>2, <2>1, SetStatuses
  <2> HIDE DEF q
  <2>4. /\ plan' \in [PlanIds -> PlanType] /\ plan'[ctxPlan].state = "update"
        /\ \A r \in PlanIds : r # ctxPlan => plan'[r] = q[r]
    <3>1. "update" \in Machines  BY DEF Machines
    <3> QED  BY <1>2, <2>2, <2>3, <3>1, SetState
  <2>5. \A r \in PlanIds : Exists(r) => Exists(r)'  BY <2>3, <2>4 DEF Exists
  <2> QED  BY <1>1, <1>2, <1>7, <2>4, <2>5, BatchStep DEF Drift
<1> QED  BY <1>4, <1>5, <1>6, <1>7 DEF Executor

(* Each step keeps the invariant. *)
LEMMA InvStep == IInv /\ [Next]_vars => IInv'
<1> SUFFICES ASSUME IInv, [Next]_vars PROVE IInv'  OBVIOUS
<1> USE PlanFsmAssumption
<1> USE DEF IInv, TypeOK, Snapshots, Bounded, Named, Placed, Agrees, Approval, Talking,
            Exists, storeVars, ctxVars, talkVars, stopVars, history
<1>1. CASE Machinery  BY <1>1, MachineryStep
<1>2. CASE Conversation  BY <1>2, ConversationStep
<1>3. CASE Executor  BY <1>3, ExecutorStep
<1>4. CASE CancelRun  BY <1>4 DEF CancelRun
<1>5. CASE Interrupt
  <2>1. UNCHANGED <<machine, phase, cycles, storeVars, ctxPlan, ctxPlanID, talkVars,
                    batch, cancelled, result, runs, history>>
        /\ stopping' = FALSE /\ token' = TRUE
    BY <1>5 DEF Interrupt
  <2>2. TypeOK'  BY <2>1
  <2>3. Snapshots' /\ Bounded' /\ Named' /\ Placed' /\ Agrees' /\ Approval'  BY <2>1
  <2> QED  BY <2>2, <2>3
<1>6. CASE Run
  <2>1. InitialState \in Machines \ {"update", "confirmed", "doing"}
    BY InitialStateType DEF Machines
  <2>2. 0 \in 0 .. MaxCycles /\ runs + 1 \in Nat  OBVIOUS
  <2> QED  BY <1>6, <2>1, <2>2 DEF Run, Phases
<1>7. CASE UNCHANGED vars  BY <1>7 DEF vars
<1> QED  BY <1>1, <1>2, <1>3, <1>4, <1>5, <1>6, <1>7 DEF Next

-----------------------------------------------------------------------------
(* Types, and the agreement of the plan's stored state with the machine's   *)
(* (machine.go: the transition, the error path and the terminal path all    *)
(* write it), whatever the LLM, the user and the executor do.               *)
THEOREM StateAgrees == Spec => [](TypeOK /\ PlanStateAgrees)
<1>1. IInv => TypeOK /\ PlanStateAgrees  BY DEF IInv, Agrees, PlanStateAgrees
<1> QED  BY <1>1, InitInv, InvStep, PTL DEF Spec

(* Doing is entered from Confirmed only, with a standing approval of this   *)
(* very plan, whatever tools the LLM calls, offered or not, plan_rollback   *)
(* excepted.                                                                *)
THEOREM Approved == "plan_rollback" \notin Unlisted => (Spec => ApprovedBeforeDoing)
<1> SUFFICES ASSUME "plan_rollback" \notin Unlisted PROVE Spec => ApprovedBeforeDoing
  OBVIOUS
<1> DEFINE A == machine' = "doing" /\ machine # "doing" => machine = "confirmed" /\ approved
<1>1. ASSUME IInv, [Next]_vars PROVE [A]_vars
  <2> SUFFICES ASSUME Next, machine' = "doing", machine # "doing"
               PROVE  machine = "confirmed" /\ approved
    BY <1>1
  <2>1. CASE LeaveConfirmed
    BY <1>1, <2>1 DEF LeaveConfirmed, Move, IInv, Placed, Approval, Talking
  <2>2. CASE Run  BY <2>2, InitialStateType DEF Run
  <2>3. CASE Machinery /\ ~LeaveConfirmed
    BY <2>3 DEF Machinery, EndOfCycles, Enter, EnterDoing, Finish, LeaveIntent, LeaveInit,
         LeaveUpdating, LeaveDoingFailed, LeaveDoingDone, EndRun, Move
  <2>4. CASE Conversation
    BY <2>4 DEF Conversation, Abort, ContextDone, Generate, ModelFails, ContextFull,
         Answer, NextMessage, SetWorkMode, AskHuman, PlanCreate, TaskInsert, TaskDelete,
         ConfirmPlan, PlanRollback, UseTool, Converse, Fail
  <2>5. CASE Executor
    BY <2>5 DEF Executor, SpawnBatch, GiveUp, JoinBatch, Drift
  <2>6. CASE CancelRun \/ Interrupt  BY <2>6 DEF CancelRun, Interrupt
  <2> QED  BY <2>1, <2>2, <2>3, <2>4, <2>5, <2>6 DEF Next
<1> QED  BY <1>1, InitInv, InvStep, PTL DEF Spec, ApprovedBeforeDoing

-----------------------------------------------------------------------------
(* The task graph that was presented stays what it was until it is executed: *)
(* it is valid when Confirmed is entered, and no tool offered in Confirmed   *)
(* changes it.                                                              *)
Editing == {"plan_create", "task_insert", "task_delete", "plan_rollback"}
AsShown == Graph(ctxPlan) = shown /\ Valid(ctxPlan)
Kept == /\ machine = "confirmed" /\ phase = "enter" => Valid(ctxPlan)
        /\ machine = "confirmed" /\ Talking => AsShown
        /\ machine = "doing" /\ ~Returned => AsShown

(* The graphs of the plans are left alone. *)
SameGraphs == \A r \in PlanIds : /\ plan'[r].tasks = plan[r].tasks
                                 /\ plan'[r].parents = plan[r].parents

(* A graph that is left alone stays valid, and the one that was shown. *)
LEMMA SameShown ==
  ASSUME SameGraphs, ctxPlan \in PlanIds, UNCHANGED ctxPlan
  PROVE  /\ Valid(ctxPlan)' = Valid(ctxPlan)
         /\ Graph(ctxPlan)' = Graph(ctxPlan)
  BY DEF SameGraphs, Valid, Graph

(* Steps that edit no graph and stay in the conversation or the executor. *)
LEMMA QuietStep ==
  ASSUME IInv, Kept, SameGraphs, UNCHANGED <<machine, ctxVars, shown>>,
         phase' = "enter" => phase = "enter",
         Talking' => Talking,
         Returned => Returned'
  PROVE  Kept'
<1>1. machine \in {"confirmed", "doing"} => ctxPlan \in PlanIds
  BY DEF IInv, TypeOK, Placed, Named
<1> QED  BY <1>1, SameShown DEF Kept, AsShown, ctxVars

(* A transition keeps the graph that was shown. *)
LEMMA MovedStep ==
  ASSUME IInv, Kept, NEW next \in Machines, Move(next), ctxPlan' \in PlanIds \cup {NoPlan},
         next = "confirmed" => ctxPlan' # NoPlan,
         next = "confirmed" => \A p \in PlanIds : p = ctxPlan' => Valid(p),
         next = "doing" => machine = "confirmed" /\ Talking /\ UNCHANGED ctxVars
  PROVE  Kept'
<1>1. plan \in [PlanIds -> PlanType]  BY DEF IInv, TypeOK
<1>2. SameGraphs  BY <1>1, StoreType DEF Move, SameGraphs
<1>3. next = "confirmed" => Valid(ctxPlan)'
  BY <1>2 DEF SameGraphs, Valid
<1>4. next = "doing" => AsShown'
  <2>1. machine = "confirmed" => ctxPlan \in PlanIds  BY DEF IInv, TypeOK, Placed
  <2> QED  BY <1>2, <2>1, SameShown DEF Kept, AsShown, ctxVars, Move, history
<1> QED  BY <1>3, <1>4 DEF Kept, Move, Talking, Returned

(* At the start nothing is shown. *)
LEMMA KeptInit == Init => Kept
  BY InitialStateType DEF Init, Kept

(* Each step keeps the graph that was shown. *)
LEMMA KeptStep ==
  ASSUME Unlisted \cap Editing = {}, IInv, IInv', Kept, [Next]_vars
  PROVE  Kept'
<1> USE PlanFsmAssumption
<1>0. /\ plan \in [PlanIds -> PlanType] /\ machine \in Machines
      /\ ctxPlan \in PlanIds \cup {NoPlan}
  BY DEF IInv, TypeOK, Named
<1>1. CASE phase' = "returned" /\ Next  BY <1>1 DEF Kept, Talking, Returned
<1>2. CASE Machinery /\ phase' # "returned"
  <2>1. CASE Enter
    BY <2>1 DEF Enter, Kept, AsShown, Talking, Returned, storeVars, ctxVars, Graph, Valid
  <2>2. CASE EnterDoing
    <3>1. SameGraphs  BY <2>2 DEF EnterDoing, SameGraphs, storeVars
    <3> QED  BY <2>2, <3>1, QuietStep DEF EnterDoing, Talking, Returned, history
  <2>3. CASE LeaveIntent
    BY <1>0, <2>3, MovedStep DEF LeaveIntent, Machines, ctxVars
  <2>4. CASE LeaveInit
    <3>1. created \in PlanIds \cup {NoPlan}
      BY DEF IInv, TypeOK
    <3>2. CASE created # NoPlan /\ Valid(created)
      <4>1. Move("confirmed") /\ ctxPlan' = created
        BY <2>4, <3>2 DEF LeaveInit
      <4> QED  BY <3>1, <3>2, <4>1, MovedStep DEF Machines
    <3>3. CASE ~(created # NoPlan /\ Valid(created))
      <4>1. ctxPlan' = ctxPlan /\ (Move("direct") \/ Move("update"))
        BY <2>4, <3>3 DEF LeaveInit
      <4> QED  BY <1>0, <4>1, MovedStep DEF Machines
    <3> QED  BY <3>2, <3>3
  <2>5. CASE LeaveConfirmed
    <3>1. ctxPlan = ctxPlanID /\ ctxPlan \in PlanIds /\ Exists(ctxPlan) /\ Talking
      BY <1>0, <2>5 DEF LeaveConfirmed, IInv, Placed, Named, Talking
    <3>3. plan[ctxPlan].state \in Machines  BY <1>0, <3>1 DEF PlanType, Exists
    <3>2. Valid(ctxPlan)  BY <2>5, <3>1 DEF LeaveConfirmed, Kept, AsShown
    <3> QED  BY <1>0, <2>5, <3>1, <3>2, <3>3, MovedStep DEF LeaveConfirmed, ctxVars
  <2>6. CASE LeaveUpdating
    <3>1. ctxPlanID \in PlanIds
      BY <2>6 DEF LeaveUpdating, IInv, TypeOK, Placed
    <3> QED  BY <1>0, <2>6, <3>1, MovedStep DEF LeaveUpdating, Machines
  <2>7. CASE LeaveDoingFailed
    BY <1>0, <2>7, MovedStep DEF LeaveDoingFailed, Machines, ctxVars
  <2>8. CASE LeaveDoingDone
    BY <1>0, <2>8, MovedStep DEF LeaveDoingDone, Machines, ctxVars
  <2>9. CASE EndRun  BY <2>9 DEF EndRun, Kept, Talking, Returned
  <2>10. CASE EndOfCycles \/ Finish  BY <1>2, <2>10 DEF EndOfCycles, Finish
  <2> QED  BY <1>2, <2>1, <2>2, <2>3, <2>4, <2>5, <2>6, <2>7, <2>8, <2>9, <2>10
           DEF Machinery
<1>3. CASE Conversation /\ phase' # "returned"
  <2>1. /\ UNCHANGED <<machine, ctxVars, shown>> /\ Talking /\ phase' # "enter"
        /\ ~Returned
    BY <1>3 DEF Conversation, Abort, ContextDone, Generate, ModelFails, ContextFull,
         Answer, NextMessage, SetWorkMode, AskHuman, PlanCreate, TaskInsert, TaskDelete,
         ConfirmPlan, PlanRollback, UseTool, Converse, Fail, Talking, Returned, history
  <2>2. CASE machine \notin {"confirmed", "doing"}  BY <2>1, <2>2 DEF Kept
  <2>3. CASE machine \in {"confirmed", "doing"}
    <3>1. SameGraphs
      <4>1. CASE UNCHANGED plan  BY <4>1 DEF SameGraphs
      <4>2. ASSUME NEW p \in PlanIds, NEW s \in {"doing", "rejected", "update"},
                   ConfirmPlan(p, s)
            PROVE  SameGraphs
        <5>1. s \in Machines  BY DEF Machines
        <5> QED  BY <1>0, <4>2, <5>1, SetState DEF ConfirmPlan, SameGraphs
      <4> QED
        BY <1>3, <2>3, <4>1, <4>2
        DEF Conversation, Abort, ContextDone, Generate, ModelFails, ContextFull,
            Answer, NextMessage, SetWorkMode, AskHuman, PlanCreate, TaskInsert,
            TaskDelete, PlanRollback, UseTool, Offered, Editing, Converse, Fail, storeVars
    <3> QED  BY <2>1, <3>1, QuietStep
  <2> QED  BY <2>2, <2>3
<1>4. CASE Executor
  <2>1. /\ phase \in {"check", "wait"} /\ phase' \in {"check", "wait", "leave"}
        /\ UNCHANGED <<machine, ctxVars, shown>>
    BY <1>4 DEF Executor, SpawnBatch, GiveUp, JoinBatch, Drift, history
  <2>2. machine = "doing" /\ ctxPlan \in PlanIds
    BY <2>1 DEF IInv, TypeOK, Placed, Named
  <2>3. SameGraphs
    <3>1. ASSUME NEW f, plan' = [plan EXCEPT ![ctxPlan].status = f]
          PROVE  SameGraphs
      BY <1>0, <2>2, <3>1 DEF SameGraphs, PlanType
    <3>2. ASSUME NEW f, plan' = [plan EXCEPT ![ctxPlan].status = f,
                                             ![ctxPlan].state = "update"]
          PROVE  SameGraphs
      <4> DEFINE g == [plan EXCEPT ![ctxPlan].status = f]
      <4>1. plan' = [g EXCEPT ![ctxPlan].state = "update"]  BY <3>2
      <4>2. /\ DOMAIN g = PlanIds
            /\ g[ctxPlan] = [plan[ctxPlan] EXCEPT !.status = f]
            /\ \A r \in PlanIds : r # ctxPlan => g[r] = plan[r]
        BY <1>0, <2>2
      <4> HIDE DEF g
      <4>3. /\ plan'[ctxPlan] = [g[ctxPlan] EXCEPT !.state = "update"]
            /\ \A r \in PlanIds : r # ctxPlan => plan'[r] = plan[r]
        BY <2>2, <4>1, <4>2
      <4>4. plan[ctxPlan] \in PlanType  BY <1>0, <2>2
      <4>5. g[ctxPlan].tasks = plan[ctxPlan].tasks
            /\ g[ctxPlan].parents = plan[ctxPlan].parents
            /\ DOMAIN g[ctxPlan] = {"state", "tasks", "parents", "status"}
        BY <4>2, <4>4 DEF PlanType
      <4>6. plan'[ctxPlan].tasks = g[ctxPlan].tasks
            /\ plan'[ctxPlan].parents = g[ctxPlan].parents
        BY <4>3, <4>5
      <4> QED  BY <4>2, <4>3, <4>5, <4>6 DEF SameGraphs
    <3> QED
      BY <1>4, <3>1, <3>2 DEF Executor, SpawnBatch, GiveUp, JoinBatch, Drift, Mark
  <2> QED
    BY <2>1, <2>2, <2>3, SameShown DEF Kept, AsShown, Returned, ctxVars
<1>5. CASE CancelRun \/ Interrupt
  <2>1. SameGraphs /\ UNCHANGED <<machine, phase, ctxVars, shown>>
    BY <1>5 DEF CancelRun, Interrupt, SameGraphs, storeVars, history
  <2> QED  BY <2>1, QuietStep DEF Talking, Returned
<1>6. CASE Run  BY <1>6, InitialStateType DEF Run, Kept
<1>7. CASE UNCHANGED vars
  <2>1. SameGraphs /\ UNCHANGED <<machine, phase, ctxVars, shown>>
    BY <1>7 DEF vars, SameGraphs, storeVars, history
  <2> QED  BY <2>1, QuietStep DEF Talking, Returned
<1> QED  BY <1>1, <1>2, <1>3, <1>4, <1>5, <1>6, <1>7 DEF Next

(* As long as the LLM calls no tool that edits plans but those it is offered, *)
(* what the executor runs is the valid graph that Confirmed last presented.  *)
THEOREM Shown == Unlisted \cap Editing = {} => (Spec => []RunsWhatWasShown)
<1> SUFFICES ASSUME Unlisted \cap Editing = {} PROVE Spec => []RunsWhatWasShown
  OBVIOUS
<1>1. IInv /\ Kept => RunsWhatWasShown
  BY DEF IInv, Placed, Kept, AsShown, RunsWhatWasShown, Returned
<1>2. IInv /\ Kept /\ [Next]_vars => (IInv /\ Kept)'  BY InvStep, KeptStep
<1> QED  BY <1>1, <1>2, InitInv, KeptInit, PTL DEF Spec
=============================================================================
