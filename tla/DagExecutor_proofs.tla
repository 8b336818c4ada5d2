------------------------- MODULE DagExecutor_proofs -------------------------
(***************************************************************************)
(* Theorems about ExecuteBatch, for every finite acyclic task graph, every  *)
(* review configuration and every number of runs; and, where no rollback    *)
(* happens, that it implements TaskDag.                                     *)
(***************************************************************************)
EXTENDS DagExecutor, TLAPS

(* A worker that wrote a status and has not saved the plan since. *)
UnsavedPc == {"updated", "recorded", "counting", "counted", "reviewing", "drifting",
              "cancelling", "rolled", "restored", "marshalled", "put"}

(* handleDrift loaded the checkpoint it is about to restore. *)
Loaded(t) == pc[t] \in {"cancelling", "rolled"}

TargetsExist == \A t \in Tasks : Loaded(t) => target[t] \in BaseVersion .. version

(* A worker that updates a status has a task and a status to write. *)
ArgsGiven == \A t \in Tasks : pc[t] = "updating" => arg[t] \in Tasks \X Status

TypeInv == TypeOK /\ TargetsExist /\ ArgsGiven

-----------------------------------------------------------------------------
(* What PutPlan(s) does: one more version, whose checkpoint holds s, and    *)
(* every older checkpoint as it was.                                        *)
LEMMA PutPlanEffect ==
  ASSUME NEW s \in Statuses, TypeOK, PutPlan(s)
  PROVE  /\ version' = version + 1 /\ version' \in Nat /\ version' >= BaseVersion
         /\ ckpt' \in [BaseVersion .. version' -> Statuses]
         /\ \A v \in BaseVersion .. version : ckpt'[v] = ckpt[v]
         /\ ckpt'[version'] = s
         /\ disk' = [version |-> version', status |-> s]
         /\ disk' \in [version : Nat, status : Statuses]
<1> USE ConfigAssumption DEF TypeOK, PutPlan
<1>1. /\ version' = version + 1 /\ version' \in Nat /\ version' >= BaseVersion
      /\ disk' = [version |-> version', status |-> s]
      /\ disk' \in [version : Nat, status : Statuses]
  OBVIOUS
<1>2. DOMAIN ckpt \cup {version + 1} = BaseVersion .. version'
  BY <1>1
<1>3. ckpt' = [v \in BaseVersion .. version' |->
                 IF v = version + 1 THEN s ELSE ckpt[v]]
  BY <1>2
<1>4. ASSUME NEW v \in BaseVersion .. version
      PROVE  v # version + 1 /\ v \in BaseVersion .. version'
  BY <1>1
<1>5. \A v \in BaseVersion .. version' : v # version + 1 => v \in BaseVersion .. version
  BY <1>1
<1>6. QED
  BY <1>1, <1>3, <1>4, <1>5

(* A saved plan keeps the checkpoints that pending rollbacks have loaded.   *)
LEMMA PutPlanTypes ==
  ASSUME NEW s \in Statuses, TypeInv, PutPlan(s),
         \A t \in Tasks : Loaded(t)' => Loaded(t) /\ target'[t] = target[t]
  PROVE  /\ version' \in Nat /\ version' >= BaseVersion
         /\ ckpt' \in [BaseVersion .. version' -> Statuses]
         /\ disk' \in [version : Nat, status : Statuses]
         /\ TargetsExist'
<1>1. /\ version' = version + 1 /\ version' \in Nat /\ version' >= BaseVersion
      /\ ckpt' \in [BaseVersion .. version' -> Statuses]
      /\ disk' \in [version : Nat, status : Statuses]
  BY PutPlanEffect DEF TypeInv
<1>2. BaseVersion .. version \subseteq BaseVersion .. version'
  BY <1>1, ConfigAssumption DEF TypeInv, TypeOK
<1>3. TargetsExist'
  <2> SUFFICES ASSUME NEW t \in Tasks, Loaded(t)'
               PROVE  target'[t] \in BaseVersion .. version'
    BY DEF TargetsExist
  <2>1. target[t] \in BaseVersion .. version
    BY DEF TypeInv, TargetsExist
  <2>2. QED
    BY <1>2, <2>1
<1>4. QED
  BY <1>1, <1>3

(* Type correctness, with the fact that a rollback only restores a version  *)
(* that has a checkpoint.                                                   *)
LEMMA TypeInit == Init => TypeInv
<1> SUFFICES ASSUME Init PROVE TypeInv
  OBVIOUS
<1>1. status \in Statuses
  BY DEF Init, Statuses, Status
<1>2. BaseVersion .. BaseVersion = {BaseVersion}
  BY ConfigAssumption
<1>3. ckpt \in [BaseVersion .. version -> Statuses]
  BY <1>1, <1>2 DEF Init
<1>4. NoPlan \in [version : Nat, status : Statuses]
  BY DEF NoPlan, Statuses, Status
<1>5. disk \in [version : Nat, status : Statuses]
  BY <1>1, ConfigAssumption DEF Init
<1>6. buf \in [Tasks -> [version : Nat, status : Statuses]]
  BY <1>4 DEF Init
<1>7. pc \in [Tasks -> WorkerPc] /\ res \in [Tasks -> {"none", "ok", "err"}]
  BY DEF Init, WorkerPc
<1>8. TargetsExist /\ ArgsGiven
  BY DEF Init, TargetsExist, Loaded, ArgsGiven
<1>9. version \in Nat /\ version >= BaseVersion
  BY ConfigAssumption DEF Init
<1>10. QED
  BY <1>1, <1>3, <1>5, <1>6, <1>7, <1>8, <1>9 DEF Init, TypeInv, TypeOK
(* The statuses a rolled-back plan gets, and a write through any pointer,   *)
(* are statuses of the plan's tasks.                                        *)
LEMMA SetStatusType ==
  ASSUME TypeOK, NEW t \in Tasks, NEW s \in Status, SetStatus(t, s)
  PROVE  status' \in Statuses
BY DEF SetStatus, TypeOK, Statuses

(* Each action keeps the types and the targets. *)
LEMMA TypeStep == TypeInv /\ [Next]_vars => TypeInv'
<1> SUFFICES ASSUME TypeInv, [Next]_vars PROVE TypeInv'
  OBVIOUS
<1> USE DEF TypeInv, planVars, workerVars, driftVars, callVars, toolVars
<1>1. ASSUME ReturnIdle PROVE TypeInv'
  BY <1>1 DEF ReturnIdle, Return, TypeOK, TargetsExist, Loaded, ArgsGiven
<1>2. ASSUME ReturnCancelled PROVE TypeInv'
  <2>1. status' \in Statuses /\ PutPlan(status')
    BY <1>2 DEF ReturnCancelled, TypeOK, Statuses, Status
  <2>2. \A t \in Tasks : Loaded(t)' => Loaded(t) /\ target'[t] = target[t]
    BY <1>2 DEF ReturnCancelled, Loaded
  <2>3. /\ version' \in Nat /\ version' >= BaseVersion
        /\ ckpt' \in [BaseVersion .. version' -> Statuses]
        /\ disk' \in [version : Nat, status : Statuses]
        /\ TargetsExist'
    BY <2>1, <2>2, PutPlanTypes
  <2>4. QED
    BY <1>2, <2>1, <2>3 DEF ReturnCancelled, Return, TypeOK, ArgsGiven
<1>3. ASSUME SpawnBatch PROVE TypeInv'
  <2>1. status' \in Statuses /\ PutPlan(status')
    BY <1>3 DEF SpawnBatch, TypeOK, Statuses, Status
  <2>2. /\ batch' \subseteq Tasks
        /\ pc' \in [Tasks -> {"idle", "spawned"}]
        /\ res' \in [Tasks -> {"none", "ok", "err"}]
    BY <1>3 DEF SpawnBatch, ReadyTasks
  <2>3. \A t \in Tasks : ~Loaded(t)'
    BY <2>2 DEF Loaded
  <2>4. /\ version' \in Nat /\ version' >= BaseVersion
        /\ ckpt' \in [BaseVersion .. version' -> Statuses]
        /\ disk' \in [version : Nat, status : Statuses]
        /\ TargetsExist'
    BY <2>1, <2>3, PutPlanTypes
  <2>5. QED
    BY <1>3, <2>1, <2>2, <2>4 DEF SpawnBatch, TypeOK, ArgsGiven, WorkerPc
<1>4. ASSUME JoinBatch PROVE TypeInv'
  BY <1>4 DEF JoinBatch, Return, TypeOK, TargetsExist, Loaded, ArgsGiven
<1>5. ASSUME NEW t \in Tasks, Begin(t) PROVE TypeInv'
  BY <1>5 DEF Begin, Goto, TypeOK, TargetsExist, Loaded, ArgsGiven, WorkerPc
<1>6. ASSUME NEW t \in Tasks, Skip(t) PROVE TypeInv'
  <2>1. status' \in Statuses
    BY <1>6, SetStatusType DEF Skip, Status
  <2>2. QED
    BY <1>6, <2>1 DEF Skip, Goto, TypeOK, TargetsExist, Loaded, ArgsGiven, WorkerPc
<1>7. ASSUME NEW t \in Tasks, NEW r \in {"ok", "err"}, Finish(t, r) PROVE TypeInv'
  BY <1>7 DEF Finish, Goto, TypeOK, TargetsExist, Loaded, ArgsGiven, WorkerPc
<1>8. ASSUME NEW t \in Tasks, Record(t) PROVE TypeInv'
  <2>1. status' \in Statuses
    BY <1>8, SetStatusType DEF Record, Status
  <2>2. QED
    BY SMTT(30), <1>8, <2>1 DEF Record, Goto, TypeOK, TargetsExist, Loaded, ArgsGiven, WorkerPc
<1>9. ASSUME NEW t \in Tasks, Save(t) PROVE TypeInv'
  <2>1. status \in Statuses /\ PutPlan(status)
    BY <1>9 DEF Save, TypeOK
  <2>2. NoPlan \in [version : Nat, status : Statuses]
    BY DEF NoPlan, Statuses, Status
  <2>3. \A u \in Tasks : Loaded(u)' => Loaded(u) /\ target'[u] = target[u]
    BY <1>9 DEF Save, Goto, Loaded, TypeOK
  <2>4. /\ version' \in Nat /\ version' >= BaseVersion
        /\ ckpt' \in [BaseVersion .. version' -> Statuses]
        /\ disk' \in [version : Nat, status : Statuses]
        /\ TargetsExist'
    BY <2>1, <2>3, PutPlanTypes
  <2>5. /\ pc' \in [Tasks -> WorkerPc] /\ res' \in [Tasks -> {"none", "ok", "err"}]
        /\ seen' \in [Tasks -> Nat] /\ target' \in [Tasks -> Nat]
    BY <1>9 DEF Save, Goto, TypeOK, WorkerPc
  <2>6. buf' \in [Tasks -> [version : Nat, status : Statuses]]
    BY <1>9, <2>2 DEF Save, TypeOK
  <2>7. QED
    BY ZenonT(30), <1>9, <2>1, <2>4, <2>5, <2>6 DEF Save, Goto, TypeOK, ArgsGiven
<1>10. ASSUME NEW t \in Tasks, LoadFails(t) PROVE TypeInv'
  BY <1>10 DEF LoadFails, Goto, TypeOK, TargetsExist, Loaded, ArgsGiven, WorkerPc
<1>11. ASSUME NEW t \in Tasks, StoreFails(t) PROVE TypeInv'
  BY SMTT(30), <1>11 DEF StoreFails, Goto, TypeOK, TargetsExist, Loaded, ArgsGiven, WorkerPc
<1>12. ASSUME NEW t \in Tasks, Decide(t) PROVE TypeInv'
  BY <1>12 DEF Decide, Goto, TypeOK, TargetsExist, Loaded, ArgsGiven, WorkerPc
<1>13. ASSUME NEW t \in Tasks, Review(t) PROVE TypeInv'
  BY <1>13 DEF Review, Goto, TypeOK, TargetsExist, Loaded, ArgsGiven, WorkerPc
<1>14. ASSUME NEW t \in Tasks, LoadTarget(t) PROVE TypeInv'
  <2>1. CASE version > 1 /\ version - 1 \in DOMAIN ckpt
    <3>1. version - 1 \in Nat /\ version - 1 \in BaseVersion .. version
      BY <2>1 DEF TypeOK
    <3>2. target' = [target EXCEPT ![t] = version - 1] /\ Goto(t, "cancelling")
      BY <1>14, <2>1 DEF LoadTarget
    <3>3. TargetsExist'
      BY <1>14, <3>1, <3>2 DEF LoadTarget, Goto, TypeOK, TargetsExist, Loaded, ArgsGiven
    <3>4. pc' \in [Tasks -> WorkerPc] /\ target' \in [Tasks -> Nat]
      BY <3>1, <3>2 DEF Goto, TypeOK, WorkerPc
    <3>5. QED
      BY <1>14, <3>3, <3>4 DEF LoadTarget, Goto, TypeOK, ArgsGiven
  <2>2. CASE ~(version > 1 /\ version - 1 \in DOMAIN ckpt)
    <3>1. UNCHANGED target /\ Goto(t, "put")
      BY <1>14, <2>2 DEF LoadTarget
    <3>2. TargetsExist' /\ pc' \in [Tasks -> WorkerPc]
      BY <1>14, <3>1 DEF LoadTarget, Goto, TypeOK, TargetsExist, Loaded, ArgsGiven, WorkerPc
    <3>3. QED
      BY <1>14, <3>1, <3>2 DEF LoadTarget, Goto, TypeOK, ArgsGiven
  <2>3. QED
    BY <2>1, <2>2
<1>15. ASSUME NEW t \in Tasks, CancelBatch(t) PROVE TypeInv'
  BY <1>15 DEF CancelBatch, Goto, TypeOK, TargetsExist, Loaded, ArgsGiven, WorkerPc
<1>16. ASSUME NEW t \in Tasks, Restore(t) PROVE TypeInv'
  <2>1. status' \in Statuses
    BY <1>16 DEF Restore, TypeOK, TargetsExist, Loaded, ArgsGiven
  <2>2. stale' \subseteq Tasks
    BY <1>16 DEF Restore, TypeOK
  <2>3. QED
    BY <1>16, <2>1, <2>2 DEF Restore, Goto, TypeOK, TargetsExist, Loaded, ArgsGiven, WorkerPc
<1>17. ASSUME NEW t \in Tasks, Marshal(t) PROVE TypeInv'
  BY <1>17 DEF Marshal, Goto, TypeOK, TargetsExist, Loaded, ArgsGiven, WorkerPc
<1>18. ASSUME NEW t \in Tasks, WritePlan(t) PROVE TypeInv'
  BY <1>18 DEF WritePlan, Goto, TypeOK, TargetsExist, Loaded, ArgsGiven, WorkerPc
<1>19. ASSUME Cancel PROVE TypeInv'
  BY <1>19 DEF Cancel, TypeOK, TargetsExist, Loaded, ArgsGiven
<1>20. ASSUME NEW w \in Tasks, NEW t \in Tasks, NEW s \in Status, FindForUpdate(w, t, s)
       PROVE  TypeInv'
  <2>1. arg' \in [Tasks -> (Tasks \X Status) \cup {NoArg}]
    BY <1>20 DEF FindForUpdate, TypeOK
  <2>2. stale' \subseteq Tasks /\ toolCalls' \in Nat
    BY <1>20 DEF FindForUpdate, TypeOK
  <2>3. QED
    BY <1>20, <2>1, <2>2 DEF FindForUpdate, Goto, TypeOK, TargetsExist, Loaded, ArgsGiven, WorkerPc
<1>24. ASSUME NEW w \in Tasks, UpdateStatus(w) PROVE TypeInv'
  <2>1. status' \in Statuses
    BY <1>24 DEF UpdateStatus, TypeOK, ArgsGiven, Statuses
  <2>2. QED
    BY <1>24, <2>1 DEF UpdateStatus, Goto, TypeOK, TargetsExist, Loaded, ArgsGiven, WorkerPc
<1>25. ASSUME NEW w \in Tasks, SaveUpdate(w) PROVE TypeInv'
  <2>1. status \in Statuses /\ PutPlan(status)
    BY <1>25 DEF SaveUpdate, TypeOK
  <2>2. \A u \in Tasks : Loaded(u)' => Loaded(u) /\ target'[u] = target[u]
    BY <1>25 DEF SaveUpdate, Goto, Loaded, TypeOK
  <2>3. /\ version' \in Nat /\ version' >= BaseVersion
        /\ ckpt' \in [BaseVersion .. version' -> Statuses]
        /\ disk' \in [version : Nat, status : Statuses]
        /\ TargetsExist'
    BY <2>1, <2>2, PutPlanTypes
  <2>4. pc' \in [Tasks -> WorkerPc] /\ arg' \in [Tasks -> (Tasks \X Status) \cup {NoArg}]
    BY <1>25 DEF SaveUpdate, Goto, TypeOK, WorkerPc
  <2>5. QED
    BY <1>25, <2>1, <2>3, <2>4 DEF SaveUpdate, Goto, TypeOK, ArgsGiven
<1>21. ASSUME Rerun PROVE TypeInv'
  <2>1. /\ version' = version + 4 /\ version' \in Nat /\ version' >= BaseVersion
        /\ disk' \in [version : Nat, status : Statuses]
    <3>1. version + 4 \in Nat /\ version + 4 >= BaseVersion /\ status \in Statuses
      BY ConfigAssumption DEF TypeOK
    <3>2. version' = version + 4 /\ disk' = [version |-> version + 4, status |-> status]
      BY <1>21 DEF Rerun
    <3>3. QED
      BY <3>1, <3>2
  <2>2. ckpt' \in [BaseVersion .. version' -> Statuses]
    <3>1. DOMAIN ckpt \cup (version + 1 .. version + 4) = BaseVersion .. version'
      BY <1>21, ConfigAssumption DEF Rerun, TypeOK
    <3>2. \A v \in BaseVersion .. version' : ~(v > version) => v \in BaseVersion .. version
      BY <1>21, ConfigAssumption DEF Rerun, TypeOK
    <3>3. ckpt' = [v \in BaseVersion .. version' |->
                     IF v > version THEN status ELSE ckpt[v]]
      BY <1>21, <3>1 DEF Rerun
    <3>4. QED
      BY <3>2, <3>3 DEF TypeOK
  <2>3. pc' \in [Tasks -> WorkerPc] /\ \A t \in Tasks : ~Loaded(t)' /\ pc'[t] = "idle"
    BY <1>21 DEF Rerun, WorkerPc, Loaded
  <2>4. /\ runner' = "check" /\ batch' = {} /\ runs' \in Nat /\ hasFailed' = FALSE
        /\ cancel' = "none" /\ stale' = {} /\ failCount' = 0
        /\ UNCHANGED <<status, res, driftVars, toolVars, execs>>
    BY <1>21 DEF Rerun, TypeOK
  <2>5. QED
    BY <2>1, <2>2, <2>3, <2>4 DEF TypeOK, TargetsExist, ArgsGiven
<1>22. CASE UNCHANGED vars
  BY <1>22 DEF vars, TypeOK, TargetsExist, Loaded, ArgsGiven
<1>23. QED
  BY <1>1, <1>2, <1>3, <1>4, <1>5, <1>6, <1>7, <1>8, <1>9, <1>10, <1>11, <1>12,
     <1>13, <1>14, <1>15, <1>16, <1>17, <1>18, <1>19, <1>20, <1>21, <1>22, <1>24, <1>25
  DEF Next, Runner, Worker, Callback

(* Type correctness of ExecuteBatch's state, for every plan and every       *)
(* configuration (TypeOK of DagExecutor).                                   *)
THEOREM TypeCorrect == Spec => []TypeOK
<1>1. TypeInv => TypeOK
  BY DEF TypeInv
<1>2. QED
  BY <1>1, TypeInit, TypeStep, PTL DEF Spec
-----------------------------------------------------------------------------
(* The join: a goroutine that has not ended belongs to the batch g.Wait     *)
(* waits for.                                                               *)
Ended(t) == pc[t] \in {"idle", "finished"}

Joined == \A t \in Tasks : Ended(t) \/ (runner = "wait" /\ t \in batch)

(* Whoever leaves memory ahead of plan.jsonl, or plan.jsonl behind memory,  *)
(* still has a PutPlan in front of it.                                      *)
InSync == /\ disk = [version |-> version, status |-> status]
          /\ ckpt[version] = status

Saved == (\A t \in Tasks : pc[t] \notin UnsavedPc) => InSync

SavedInv == Joined /\ Saved

(* PutPlan leaves memory and disk in agreement. *)
LEMMA PutPlanInSync ==
  ASSUME TypeInv, NEW s \in Statuses, PutPlan(s), status' = s
  PROVE  InSync'
<1>1. disk' = [version |-> version', status |-> s] /\ ckpt'[version'] = s
  BY PutPlanEffect DEF TypeInv
<1>2. QED
  BY <1>1 DEF InSync

(* At the start memory and disk agree. *)
LEMMA SavedInit == Init => SavedInv
BY DEF Init, SavedInv, Joined, Saved, InSync, Ended

(* Each action keeps that memory and disk agree once all have saved. *)
LEMMA SavedStep == TypeInv /\ SavedInv /\ [Next]_vars => SavedInv'
<1> SUFFICES ASSUME TypeInv, SavedInv, [Next]_vars PROVE SavedInv'
  OBVIOUS
<1> USE DEF SavedInv, planVars, workerVars, driftVars, callVars, toolVars
<1>0. pc \in [Tasks -> WorkerPc]
  BY DEF TypeInv, TypeOK
<1>1. ASSUME UNCHANGED <<status, version, ckpt, disk, pc, batch>>,
             UNCHANGED runner \/ \A t \in Tasks : Ended(t)
      PROVE  SavedInv'
  BY <1>1 DEF Joined, Saved, InSync, Ended
<1>2. ASSUME runner = "check" PROVE \A t \in Tasks : Ended(t)
  BY <1>2 DEF Joined
<1>3. ASSUME ReturnIdle PROVE SavedInv'
  BY <1>1, <1>2, <1>3 DEF ReturnIdle, Return
<1>4. ASSUME ReturnCancelled PROVE SavedInv'
  <2>1. status' \in Statuses /\ PutPlan(status')
    BY <1>4 DEF ReturnCancelled, TypeInv, TypeOK, Statuses, Status
  <2>2. InSync'
    BY <2>1, PutPlanInSync
  <2>3. Joined'
    BY <1>2, <1>4 DEF ReturnCancelled, Joined, Ended
  <2>4. QED
    BY <2>2, <2>3 DEF Saved
<1>5. ASSUME SpawnBatch PROVE SavedInv'
  <2>1. status' \in Statuses /\ PutPlan(status')
    BY <1>5 DEF SpawnBatch, TypeInv, TypeOK, Statuses, Status
  <2>2. InSync'
    BY <2>1, PutPlanInSync
  <2>3. Joined'
    BY <1>5 DEF SpawnBatch, Joined, Ended
  <2>4. QED
    BY <2>2, <2>3 DEF Saved
<1>6. ASSUME JoinBatch PROVE SavedInv'
  <2>1. \A t \in Tasks : Ended(t)
    BY <1>6 DEF JoinBatch, Joined, Ended
  <2>2. QED
    BY <1>1, <1>6, <2>1 DEF JoinBatch, Return
<1>7. ASSUME NEW t \in Tasks, ~Ended(t), UNCHANGED <<runner, batch>>,
             \A u \in Tasks \ {t} : pc'[u] = pc[u]
      PROVE  Joined'
  BY <1>7 DEF Joined, Ended
<1>8. ASSUME NEW t \in Tasks, Begin(t) \/ Finish(t, "ok") \/ Finish(t, "err")
      PROVE  SavedInv'
  <2>1. Joined'
    BY <1>0, <1>7, <1>8 DEF Begin, Finish, Goto, Ended
  <2>2. Saved'
    BY <1>0, <1>8 DEF Begin, Finish, Goto, Saved, InSync, UnsavedPc
  <2>3. QED
    BY <2>1, <2>2
<1>9. ASSUME NEW t \in Tasks, Skip(t) \/ Record(t) \/ UpdateStatus(t) \/ Callback(t)
      PROVE  SavedInv'
  <2>1. Joined'
    BY <1>0, <1>7, <1>9
    DEF Skip, Record, UpdateStatus, Callback, LoadFails, StoreFails, Decide, Review, LoadTarget,
        CancelBatch, Restore, Marshal, WritePlan, Goto, Ended
  <2>2. pc'[t] \in UnsavedPc
    BY <1>0, <1>9
    DEF Skip, Record, UpdateStatus, Callback, LoadFails, StoreFails, Decide, Review, LoadTarget,
        CancelBatch, Restore, Marshal, WritePlan, Goto, UnsavedPc
  <2>3. QED
    BY <2>1, <2>2 DEF Saved
<1>10. ASSUME NEW t \in Tasks, Save(t) PROVE SavedInv'
  <2>1. status' = status /\ status \in Statuses /\ PutPlan(status)
    BY <1>10 DEF Save, TypeInv, TypeOK
  <2>2. InSync'
    BY <2>1, PutPlanInSync
  <2>3. Joined'
    BY <1>0, <1>7, <1>10 DEF Save, Goto, Ended
  <2>4. QED
    BY <2>2, <2>3 DEF Saved
<1>11. ASSUME Cancel PROVE SavedInv'
  BY <1>1, <1>11 DEF Cancel
<1>12. ASSUME NEW w \in Tasks, SaveUpdate(w) PROVE SavedInv'
  <2>1. status' = status /\ status \in Statuses /\ PutPlan(status)
    BY <1>12 DEF SaveUpdate, TypeInv, TypeOK
  <2>2. InSync'
    BY <2>1, PutPlanInSync
  <2>3. Joined'
    BY <1>0, <1>7, <1>12 DEF SaveUpdate, Goto, Ended
  <2>4. QED
    BY <2>2, <2>3 DEF Saved
<1>16. ASSUME NEW w \in Tasks, NEW t \in Tasks, NEW s \in Status, FindForUpdate(w, t, s)
       PROVE  SavedInv'
  <2>1. Joined'
    BY <1>0, <1>7, <1>16 DEF FindForUpdate, Goto, Ended
  <2>2. Saved'
    BY <1>0, <1>16 DEF FindForUpdate, Goto, Saved, InSync, UnsavedPc
  <2>3. QED
    BY <2>1, <2>2
<1>13. ASSUME Rerun PROVE SavedInv'
  <2>1. Joined'
    BY <1>13 DEF Rerun, Joined, Ended
  <2>2. ckpt'[version'] = status'
    BY <1>13 DEF Rerun, TypeInv, TypeOK
  <2>3. disk' = [version |-> version', status |-> status']
    BY <1>13 DEF Rerun
  <2>4. QED
    BY <2>1, <2>2, <2>3 DEF Saved, InSync
<1>14. CASE UNCHANGED vars
  BY <1>1, <1>14 DEF vars
<1>15. QED
  BY <1>3, <1>4, <1>5, <1>6, <1>8, <1>9, <1>10, <1>11, <1>12, <1>13, <1>14, <1>16
  DEF Next, Runner, Worker

(* When ExecuteBatch returns, plan.jsonl holds what memory holds, whatever  *)
(* rollbacks, unlocked Persists, stale pointers, cancellations and tool     *)
(* calls were interleaved (DurableAtReturn of DagExecutor).                 *)
THEOREM Durability == Spec => []DurableAtReturn
<1>1. SavedInv => DurableAtReturn
  BY DEF SavedInv, Joined, Saved, Ended, InSync, DurableAtReturn, Returned, UnsavedPc
<1>2. QED
  BY <1>1, TypeInit, TypeStep, SavedInit, SavedStep, PTL DEF Spec
-----------------------------------------------------------------------------
(* A rollback moves the statuses back, but the version counter only grows:  *)
(* no checkpoint is written twice (CheckpointsImmutable of DagExecutor).    *)
LEMMA CheckpointsStep ==
  TypeInv /\ [Next]_vars => \A v \in DOMAIN ckpt : v \in DOMAIN ckpt' /\ ckpt'[v] = ckpt[v]
<1> SUFFICES ASSUME TypeInv, [Next]_vars, NEW v \in DOMAIN ckpt
             PROVE  v \in DOMAIN ckpt' /\ ckpt'[v] = ckpt[v]
  OBVIOUS
<1>1. v \in BaseVersion .. version /\ DOMAIN ckpt = BaseVersion .. version
  BY DEF TypeInv, TypeOK
<1>2. ASSUME NEW s \in Statuses, PutPlan(s)
      PROVE  v \in DOMAIN ckpt' /\ ckpt'[v] = ckpt[v]
  <2>1. v # version + 1
    BY <1>1, ConfigAssumption DEF TypeInv, TypeOK
  <2>2. QED
    BY <1>2, <2>1 DEF PutPlan
<1>3. ASSUME Rerun PROVE v \in DOMAIN ckpt' /\ ckpt'[v] = ckpt[v]
  <2>1. ~(v > version)
    BY <1>1, ConfigAssumption DEF TypeInv, TypeOK
  <2>2. QED
    BY <1>3, <2>1 DEF Rerun
<1>4. CASE ReturnCancelled
  BY <1>2, <1>4 DEF ReturnCancelled, TypeInv, TypeOK, Statuses, Status
<1>5. CASE SpawnBatch
  BY <1>2, <1>5 DEF SpawnBatch, TypeInv, TypeOK, Statuses, Status
<1>6. ASSUME NEW t \in Tasks, Save(t)
      PROVE  v \in DOMAIN ckpt' /\ ckpt'[v] = ckpt[v]
  BY <1>2, <1>6 DEF Save, TypeInv, TypeOK
<1>7. ASSUME NEW w \in Tasks, SaveUpdate(w)
      PROVE  v \in DOMAIN ckpt' /\ ckpt'[v] = ckpt[v]
  BY <1>2, <1>7 DEF SaveUpdate, TypeInv, TypeOK
<1>8. CASE UNCHANGED ckpt
  BY <1>8
<1>9. ASSUME NEW t \in Tasks, Worker(t), ~Save(t), ~SaveUpdate(t) PROVE UNCHANGED ckpt
  BY <1>9
  DEF Worker, Begin, Skip, Finish, Record, UpdateStatus, Callback, LoadFails, StoreFails, Decide,
      Review, LoadTarget, CancelBatch, Restore, Marshal, WritePlan, planVars
<1>10. CASE ReturnIdle \/ JoinBatch \/ Cancel \/ UNCHANGED vars
  BY <1>8, <1>10 DEF ReturnIdle, JoinBatch, Cancel, planVars, vars
<1>12. ASSUME NEW w \in Tasks, NEW t \in Tasks, NEW s \in Status, FindForUpdate(w, t, s)
       PROVE  UNCHANGED ckpt
  BY <1>12 DEF FindForUpdate, planVars
<1>11. QED
  BY <1>3, <1>4, <1>5, <1>6, <1>7, <1>8, <1>9, <1>10, <1>12 DEF Next, Runner

(* No checkpoint is overwritten or removed (CheckpointsImmutable of *)
(* DagExecutor): a new one is of a version that has none.           *)
THEOREM CheckpointsNeverChange == Spec => CheckpointsImmutable
<1>1. TypeInv /\ [Next]_vars
      => [\A v \in DOMAIN ckpt : v \in DOMAIN ckpt' /\ ckpt'[v] = ckpt[v]]_vars
  BY CheckpointsStep
<1>2. QED
  BY <1>1, TypeInit, TypeStep, PTL DEF Spec, CheckpointsImmutable

-----------------------------------------------------------------------------
(* Why a rollback never un-does the parents of a running batch: they are    *)
(* done in memory, in the last two checkpoints, the only ones a rollback    *)
(* that starts now can load, and in every checkpoint already loaded.        *)
Rollbackable(v) == v \in BaseVersion .. version
                   /\ (v = version \/ v = version - 1 \/ \E u \in Tasks : Loaded(u) /\ target[u] = v)

DoneEverywhere(p) == /\ status[p] = "done"
                     /\ \A v \in BaseVersion .. version :
                          Rollbackable(v) => ckpt[v][p] = "done"

ParentsSettled ==
  runner = "wait" => \A t \in batch : \A p \in Parents[t] :
                        p \notin batch /\ DoneEverywhere(p)

(* A save of a plan in which p is done leaves p done in memory and in every *)
(* checkpoint a rollback can reach.                                         *)
LEMMA ParentsDoneSaved ==
  ASSUME TypeInv, NEW s \in Statuses, PutPlan(s), NEW p \in Tasks, DoneEverywhere(p),
         s[p] = "done", status' = s,
         \A t \in Tasks : Loaded(t)' => Loaded(t) /\ target'[t] = target[t]
  PROVE  DoneEverywhere(p)'
<1> SUFFICES ASSUME NEW v \in BaseVersion .. version', Rollbackable(v)'
             PROVE  ckpt'[v][p] = "done"
  BY DEF DoneEverywhere
<1>1. version' = version + 1 /\ ckpt'[version'] = s
      /\ \A w \in BaseVersion .. version : ckpt'[w] = ckpt[w]
  BY PutPlanEffect DEF TypeInv
<1>2. CASE v = version'
  BY <1>1, <1>2
<1>3. CASE v # version'
  <2>1. v \in BaseVersion .. version
    BY <1>1, <1>3, ConfigAssumption DEF TypeInv, TypeOK
  <2>2. v = version \/ \E u \in Tasks : Loaded(u) /\ target[u] = v
    BY <1>1, <1>3, <2>1, ConfigAssumption DEF Rollbackable, TypeInv, TypeOK
  <2>3. Rollbackable(v)
    BY <2>1, <2>2 DEF Rollbackable
  <2>4. QED
    BY <1>1, <2>1, <2>3 DEF DoneEverywhere
<1>4. QED
  BY <1>2, <1>3

(* As long as no tool call was made, no worker is inside one. *)
NoToolCall == \A t \in Tasks : pc[t] \notin {"updating", "updated"}

(* Without status edits nobody has one in hand. *)
LEMMA NoToolCallStep ==
  TypeInv /\ NoToolCall /\ [Next]_vars /\ toolCalls' = 0 => NoToolCall'
<1> SUFFICES ASSUME TypeInv, NoToolCall, [Next]_vars, toolCalls' = 0 PROVE NoToolCall'
  OBVIOUS
<1>0. pc \in [Tasks -> WorkerPc] /\ toolCalls \in Nat
  BY DEF TypeInv, TypeOK
<1>1. CASE Runner \/ Cancel \/ Rerun \/ UNCHANGED vars
  BY <1>1 DEF Runner, ReturnIdle, ReturnCancelled, SpawnBatch, JoinBatch, Cancel, Rerun,
              workerVars, vars, NoToolCall
<1>2. ASSUME NEW t \in Tasks, Worker(t) PROVE NoToolCall'
  BY <1>0, <1>2
  DEF Worker, Begin, Skip, Finish, Record, Save, UpdateStatus, SaveUpdate, Callback,
      LoadFails, StoreFails, Decide, Review, LoadTarget, CancelBatch, Restore, Marshal,
      WritePlan, Goto, NoToolCall
<1>3. ASSUME NEW w \in Tasks, NEW t \in Tasks, NEW s \in Status, FindForUpdate(w, t, s)
      PROVE  FALSE
  BY <1>0, <1>3 DEF FindForUpdate
<1>4. QED
  BY <1>1, <1>2, <1>3 DEF Next

(* Each action keeps the parents of the running batch done, in memory and *)
(* in every checkpoint a rollback can reach.                              *)
LEMMA ParentsStep ==
  TypeInv /\ SavedInv /\ NoToolCall /\ ParentsSettled /\ [Next]_vars /\ toolCalls' = 0
     => ParentsSettled'
<1> SUFFICES ASSUME TypeInv, SavedInv, NoToolCall, ParentsSettled, [Next]_vars, toolCalls' = 0
             PROVE  ParentsSettled'
  OBVIOUS
<1> USE DEF planVars, workerVars, driftVars, callVars, toolVars
<1>0. pc \in [Tasks -> WorkerPc] /\ Parents \in [Tasks -> SUBSET Tasks] /\ batch \subseteq Tasks
      /\ status \in Statuses /\ target \in [Tasks -> Nat] /\ version \in Nat /\ BaseVersion \in Nat
  BY GraphAssumption, ConfigAssumption DEF TypeInv, TypeOK
<1>1. ASSUME NEW t \in Tasks, ~Ended(t) PROVE runner = "wait" /\ t \in batch
  BY <1>1 DEF SavedInv, Joined
<1>2. ASSUME UNCHANGED <<version, ckpt, batch, runner>>,
             \A t \in batch : \A p \in Parents[t] :
                runner = "wait" /\ p \notin batch /\ DoneEverywhere(p) => status'[p] = "done",
             \A t \in Tasks : Loaded(t)' =>
                \/ Loaded(t) /\ target'[t] = target[t]
                \/ target'[t] = version - 1
      PROVE  ParentsSettled'
  <2> SUFFICES ASSUME runner' = "wait", NEW t \in batch', NEW p \in Parents[t]
               PROVE  p \notin batch' /\ DoneEverywhere(p)'
    BY DEF ParentsSettled
  <2>1. runner = "wait" /\ t \in batch /\ p \notin batch' /\ DoneEverywhere(p)
    BY <1>2 DEF ParentsSettled
  <2>2. ASSUME NEW v \in BaseVersion .. version, Rollbackable(v)' PROVE Rollbackable(v)
    BY <1>2, <2>2 DEF Rollbackable
  <2>3. QED
    BY <1>2, <2>1, <2>2 DEF DoneEverywhere, ParentsSettled
<1>3. ASSUME NEW t \in Tasks,
             Begin(t) \/ Finish(t, "ok") \/ Finish(t, "err") \/ LoadFails(t) \/ StoreFails(t)
             \/ Decide(t) \/ Review(t) \/ CancelBatch(t) \/ Marshal(t) \/ WritePlan(t)
      PROVE  ParentsSettled'
  <2>1. UNCHANGED <<status, version, ckpt, batch, runner, target>>
    BY <1>3 DEF Begin, Finish, LoadFails, StoreFails, Decide, Review, CancelBatch, Marshal, WritePlan
  <2>2. \A u \in Tasks : Loaded(u)' => Loaded(u)
    BY <1>0, <1>3
    DEF Begin, Finish, LoadFails, StoreFails, Decide, Review, CancelBatch, Marshal, WritePlan,
        Goto, Loaded
  <2>3. QED
    BY <1>2, <2>1, <2>2 DEF DoneEverywhere
<1>4. ASSUME NEW t \in Tasks, Skip(t) \/ Record(t) PROVE ParentsSettled'
  <2>1. UNCHANGED <<version, ckpt, batch, runner, target>>
    BY <1>4 DEF Skip, Record
  <2>2. \A u \in Tasks : Loaded(u)' => Loaded(u)
    BY <1>0, <1>4 DEF Skip, Record, Goto, Loaded
  <2>3. t \in batch
    BY <1>0, <1>1, <1>4 DEF Skip, Record, Ended
  <2>4. \A p \in Tasks : p # t => status'[p] = status[p]
    BY <1>0, <1>4 DEF Skip, Record, SetStatus, Statuses
  <2>5. \A u \in batch : \A p \in Parents[u] :
           p \notin batch /\ DoneEverywhere(p) => status'[p] = "done"
    BY <1>0, <2>3, <2>4 DEF DoneEverywhere
  <2>6. QED
    BY <1>2, <2>1, <2>2, <2>5
<1>5. ASSUME NEW t \in Tasks, LoadTarget(t) PROVE ParentsSettled'
  <2>1. UNCHANGED <<status, version, ckpt, batch, runner>>
    BY <1>5 DEF LoadTarget
  <2>2. \A u \in Tasks : Loaded(u)' =>
                \/ Loaded(u) /\ target'[u] = target[u]
                \/ target'[u] = version - 1
    BY <1>0, <1>5 DEF LoadTarget, Goto, Loaded
  <2>3. QED
    BY <1>2, <2>1, <2>2 DEF DoneEverywhere
<1>6. ASSUME NEW t \in Tasks, Restore(t) PROVE ParentsSettled'
  <2>1. UNCHANGED <<version, ckpt, batch, runner, target>> /\ status' = ckpt[target[t]]
    BY <1>6 DEF Restore
  <2>2. \A u \in Tasks : Loaded(u)' => Loaded(u)
    BY <1>0, <1>6 DEF Restore, Goto, Loaded
  <2>3. Loaded(t) /\ target[t] \in BaseVersion .. version
    BY <1>6 DEF Restore, Loaded, TypeInv, TargetsExist
  <2>4. Rollbackable(target[t])
    BY <2>3 DEF Rollbackable
  <2>5. \A p : DoneEverywhere(p) => status'[p] = "done"
    BY <2>1, <2>3, <2>4 DEF DoneEverywhere
  <2>6. QED
    BY <1>2, <2>1, <2>2, <2>5
<1>7. ASSUME NEW t \in Tasks, Save(t) PROVE ParentsSettled'
  <2>1. UNCHANGED <<status, batch, runner>> /\ status \in Statuses /\ PutPlan(status)
    BY <1>0, <1>7 DEF Save
  <2>2. \A u \in Tasks : Loaded(u)' => Loaded(u) /\ target'[u] = target[u]
    BY <1>0, <1>7 DEF Save, Goto, Loaded
  <2>3. ASSUME NEW p \in Tasks, DoneEverywhere(p) PROVE DoneEverywhere(p)'
    BY <2>1, <2>2, <2>3, ParentsDoneSaved DEF DoneEverywhere
  <2>4. QED
    BY <1>0, <2>1, <2>3 DEF ParentsSettled
<1>8. ASSUME SpawnBatch PROVE ParentsSettled'
  <2>1. \A t \in Tasks : Ended(t) /\ ~Loaded(t)
    BY <1>1, <1>8 DEF SpawnBatch, Ended, Loaded
  <2>2. ckpt[version] = status
    BY <1>0, <2>1 DEF SavedInv, Saved, InSync, Ended, UnsavedPc
  <2>3. batch' = ReadyTasks(status) /\ PutPlan(status') /\ status' \in Statuses
    BY <1>0, <1>8 DEF SpawnBatch, Statuses, Status
  <2>4. \A u \in Tasks : ~Loaded(u)'
    BY <1>8 DEF SpawnBatch, Loaded
  <2>5. SUFFICES ASSUME NEW t \in batch', NEW p \in Parents[t]
                 PROVE  p \notin batch' /\ DoneEverywhere(p)'
    BY DEF ParentsSettled
  <2>6. p \in Tasks /\ status[p] = "done" /\ p \notin batch'
    BY <1>0, <2>3, <2>5 DEF ReadyTasks, AllParentsDone
  <2>7. status'[p] = "done"
    BY <1>8, <2>6 DEF SpawnBatch
  <2>8. /\ version' = version + 1 /\ ckpt'[version'] = status'
        /\ \A w \in BaseVersion .. version : ckpt'[w] = ckpt[w]
    BY <2>3, PutPlanEffect DEF TypeInv
  <2>9. version \in BaseVersion .. version
    BY ConfigAssumption DEF TypeInv, TypeOK
  <2>10. ASSUME NEW v \in BaseVersion .. version', Rollbackable(v)'
         PROVE  ckpt'[v][p] = "done"
    <3>1. v = version' \/ v = version
      BY <1>0, <2>4, <2>8, <2>10 DEF Rollbackable
    <3>2. QED
      BY <2>2, <2>6, <2>7, <2>8, <2>9, <3>1
  <2>11. QED
    BY <2>6, <2>7, <2>10 DEF DoneEverywhere
<1>9. CASE ReturnIdle \/ ReturnCancelled \/ JoinBatch \/ Rerun
  <2>1. runner' # "wait"
    BY <1>9 DEF ReturnIdle, ReturnCancelled, JoinBatch, Rerun, Return
  <2>2. QED
    BY <2>1 DEF ParentsSettled
<1>10. CASE Cancel \/ UNCHANGED vars
  <2>1. UNCHANGED <<status, version, ckpt, batch, runner, target, pc>>
    BY <1>10 DEF Cancel, vars
  <2>2. QED
    BY <1>2, <2>1 DEF Loaded, DoneEverywhere
<1>11. ASSUME NEW w \in Tasks, UpdateStatus(w) \/ SaveUpdate(w) PROVE FALSE
  BY <1>11 DEF UpdateStatus, SaveUpdate, NoToolCall
<1>13. ASSUME NEW w \in Tasks, NEW t \in Tasks, NEW s \in Status, FindForUpdate(w, t, s)
       PROVE  FALSE
  BY <1>13 DEF FindForUpdate, TypeInv, TypeOK
<1>12. QED
  BY <1>3, <1>4, <1>5, <1>6, <1>7, <1>8, <1>9, <1>10, <1>11, <1>13
  DEF Next, Runner, Worker, Callback

(* Tool calls are only ever counted up. *)
LEMMA ToolCallsGrow == TypeInv /\ [Next]_vars /\ toolCalls' = 0 => toolCalls = 0
<1> SUFFICES ASSUME TypeInv, [Next]_vars, toolCalls' = 0 PROVE toolCalls = 0
  OBVIOUS
<1>0. toolCalls \in Nat
  BY DEF TypeInv, TypeOK
<1>1. CASE Runner \/ Cancel \/ Rerun \/ UNCHANGED vars
  BY <1>1 DEF Runner, ReturnIdle, ReturnCancelled, SpawnBatch, JoinBatch, Cancel, Rerun,
              toolVars, vars
<1>2. ASSUME NEW t \in Tasks, Worker(t) PROVE toolCalls = 0
  BY <1>2
  DEF Worker, Begin, Skip, Finish, Record, Save, UpdateStatus, SaveUpdate, Callback,
      LoadFails, StoreFails, Decide, Review, LoadTarget, CancelBatch, Restore, Marshal,
      WritePlan, toolVars
<1>3. ASSUME NEW w \in Tasks, NEW t \in Tasks, NEW s \in Status, FindForUpdate(w, t, s)
      PROVE  FALSE
  BY <1>0, <1>3 DEF FindForUpdate
<1>4. QED
  BY <1>1, <1>2, <1>3 DEF Next

SettledUntouched == toolCalls = 0 => NoToolCall /\ ParentsSettled

(* As long as no worker's LLM has edited a status, no worker works before   *)
(* the parents of its task are done, even across concurrent drift           *)
(* rollbacks (ParentsDone of DagExecutor).                                  *)
THEOREM ParentsAreDone == Spec => []ParentsDone
<1>1. Init => SettledUntouched
  BY DEF Init, ParentsSettled, NoToolCall, SettledUntouched
<1>2. TypeInv /\ SavedInv /\ SettledUntouched => ParentsDone
  <2> SUFFICES ASSUME TypeInv, SavedInv, ParentsSettled, NEW t \in Tasks, Working(t)
               PROVE  AllParentsDone(status, t)
    BY DEF ParentsDone, SettledUntouched
  <2>1. runner = "wait" /\ t \in batch
    BY DEF Working, SavedInv, Joined, Ended
  <2>2. QED
    BY <2>1 DEF ParentsSettled, DoneEverywhere, AllParentsDone
<1>3. TypeInv /\ SavedInv /\ SettledUntouched /\ [Next]_vars => SettledUntouched'
  BY NoToolCallStep, ParentsStep, ToolCallsGrow DEF SettledUntouched
<1>4. QED
  BY <1>1, <1>2, <1>3, TypeInit, TypeStep, SavedInit, SavedStep, PTL DEF Spec
-----------------------------------------------------------------------------
(* Failure isolation.  The runner only ever looks for a new batch when the  *)
(* last one had no failure: a worker that counts one is still being waited  *)
(* for, and the join that sees it returns.                                  *)
NoneCounted == runner = "check" => failCount = 0

(* A failure is counted while the runner waits, and the join that sees it   *)
(* returns.                                                                 *)
LEMMA NoneCountedStep ==
  TypeInv /\ Joined /\ NoneCounted /\ [Next]_vars => NoneCounted'
<1> SUFFICES ASSUME TypeInv, Joined, NoneCounted, [Next]_vars PROVE NoneCounted'
  OBVIOUS
<1> USE DEF planVars, workerVars, driftVars, callVars, toolVars, NoneCounted
<1>0. failCount \in Nat
  BY DEF TypeInv, TypeOK
<1>1. CASE ReturnIdle \/ ReturnCancelled \/ SpawnBatch
  BY <1>1 DEF ReturnIdle, ReturnCancelled, SpawnBatch, Return
<1>2. CASE JoinBatch
  BY <1>0, <1>2 DEF JoinBatch, Return
<1>3. ASSUME NEW t \in Tasks, Record(t) PROVE NoneCounted'
  <2>1. runner = "wait"
    BY <1>3 DEF Record, Joined, Ended
  <2> QED BY <1>3, <2>1 DEF Record
<1>4. ASSUME NEW t \in Tasks, Worker(t), ~Record(t) PROVE NoneCounted'
  BY <1>4
  DEF Worker, Begin, Skip, Finish, Save, UpdateStatus, SaveUpdate, Callback, LoadFails,
      StoreFails, Decide, Review, LoadTarget, CancelBatch, Restore, Marshal, WritePlan
<1>5. ASSUME NEW w \in Tasks, NEW t \in Tasks, NEW s \in Status, FindForUpdate(w, t, s)
      PROVE  NoneCounted'
  BY <1>5 DEF FindForUpdate
<1>6. CASE Cancel \/ Rerun \/ UNCHANGED vars
  BY <1>6 DEF Cancel, Rerun, vars
<1> QED BY <1>1, <1>2, <1>3, <1>4, <1>5, <1>6 DEF Next, Runner

(* Between the first failure of a batch and the return of the call nothing  *)
(* new is spawned, whatever rollbacks, cancellations and tool calls are     *)
(* interleaved (FailureStopsBatches of DagExecutor).                        *)
THEOREM FailureIsolated == Spec => FailureStopsBatches
<1>1. Init => NoneCounted
  BY DEF Init, NoneCounted
<1>2. NoneCounted /\ [Next]_vars => [failCount > 0 /\ ~Returned => batch' = batch]_vars
  <2> SUFFICES ASSUME NoneCounted, Next, failCount > 0, ~Returned PROVE batch' = batch
    OBVIOUS
  <2> USE DEF callVars, NoneCounted, Returned
  <2>1. CASE Runner
    BY <2>1 DEF Runner, ReturnIdle, ReturnCancelled, SpawnBatch, JoinBatch, Return
  <2>2. ASSUME NEW t \in Tasks, Worker(t) PROVE batch' = batch
    BY <2>2
    DEF Worker, Begin, Skip, Finish, Record, Save, UpdateStatus, SaveUpdate, Callback,
        LoadFails, StoreFails, Decide, Review, LoadTarget, CancelBatch, Restore, Marshal,
        WritePlan
  <2>3. ASSUME NEW w \in Tasks, NEW t \in Tasks, NEW s \in Status, FindForUpdate(w, t, s)
        PROVE  batch' = batch
    BY <2>3 DEF FindForUpdate
  <2>4. CASE Cancel \/ Rerun
    BY <2>4 DEF Cancel, Rerun
  <2> QED BY <2>1, <2>2, <2>3, <2>4 DEF Next
<1>3. SavedInv => Joined
  BY DEF SavedInv
<1> QED BY <1>1, <1>2, <1>3, NoneCountedStep, TypeInit, TypeStep, SavedInit, SavedStep, PTL
    DEF Spec, FailureStopsBatches

-----------------------------------------------------------------------------
(* What ExecuteBatch guarantees when nothing rolls the plan back: reviews   *)
(* are switched off and no LLM edits statuses.  It then implements TaskDag, *)
(* executes no task twice, leaves none behind and ends in a terminal state. *)
Undisturbed == ReviewInterval = 0 /\ MaxFailuresBeforeReview = 0 /\ MaxToolCalls = 0

(* The worker of t owes task t its final status. *)
Owes(t) == pc[t] \in {"spawned", "skipping", "running", "located"}

(* Nobody is on the way to a rollback and every pointer is good. *)
NoRollback == /\ stale = {}
              /\ \A t \in Tasks : pc[t] \in {"idle", "spawned", "skipping", "running", "located",
                                            "recorded", "counting", "counted", "put", "finished"}

OwedIsDoing == \A t \in Tasks : status[t] = "doing" <=> Owes(t)

(* A successful execution is recorded, or about to be. *)
Executed(t) == status[t] = "done" \/ (pc[t] = "located" /\ res[t] = "ok")

ExecutionsRecorded == \A t \in Tasks : \/ execs[t] = 0
                                       \/ execs[t] = 1 /\ Executed(t)

FailuresRecorded == failCount > 0 => \E t \in Tasks : status[t] = "failed"

ReturnsTerminal == Returned => \/ \A t \in Tasks : status[t] = "done"
                               \/ \E t \in Tasks : status[t] = "failed"

PlainInv == /\ NoRollback /\ OwedIsDoing
            /\ ExecutionsRecorded /\ FailuresRecorded /\ ReturnsTerminal

-----------------------------------------------------------------------------
(* With no task being done by anybody, a plan in which nothing is ready and *)
(* nothing failed is finished: this is where the graph must be acyclic.     *)
LEMMA NothingReady ==
  ASSUME NEW s \in Statuses, \A t \in Tasks : s[t] # "doing" /\ s[t] # "failed",
         ReadyTasks(s) = {}
  PROVE  \A t \in Tasks : s[t] = "done"
<1> DEFINE P == {t \in Tasks : s[t] = "pending"}
<1>1. SUFFICES ASSUME P # {} PROVE FALSE
  BY DEF Statuses, Status
<1>2. PICK t \in P : Parents[t] \cap P = {}
  <2>1. P \in SUBSET Tasks
    OBVIOUS
  <2> HIDE DEF P
  <2>2. QED
    BY <1>1, <2>1, GraphAssumption DEF Valid, Acyclic
<1>3. \A p \in Parents[t] : s[p] = "done"
  BY <1>2, GraphAssumption DEF Statuses, Status
<1>4. t \in ReadyTasks(s)
  BY <1>2, <1>3 DEF ReadyTasks, AllParentsDone
<1>5. QED
  BY <1>4

(* At the start nothing is executed or counted. *)
LEMMA PlainInit == Init => PlainInv
BY DEF Init, PlainInv, NoRollback, OwedIsDoing, Owes, ExecutionsRecorded, Executed,
       FailuresRecorded, ReturnsTerminal, Returned

(* Each action of an undisturbed execution keeps its invariants. *)
LEMMA PlainStep ==
  ASSUME Undisturbed
  PROVE  TypeInv /\ Joined /\ PlainInv /\ [Next]_vars => PlainInv'
<1> SUFFICES ASSUME TypeInv, Joined, PlainInv, [Next]_vars PROVE PlainInv'
  OBVIOUS
<1> USE DEF PlainInv, planVars, workerVars, driftVars, callVars, toolVars
<1>0. /\ pc \in [Tasks -> WorkerPc] /\ status \in Statuses /\ res \in [Tasks -> {"none", "ok", "err"}]
      /\ execs \in [Tasks -> Nat] /\ failCount \in Nat /\ toolCalls \in Nat
  BY DEF TypeInv, TypeOK
<1>1. ASSUME runner # "wait"
      PROVE  \A t \in Tasks : Ended(t) /\ ~Owes(t) /\ status[t] # "doing"
  BY <1>1 DEF Joined, Ended, Owes, OwedIsDoing
<1>2. ASSUME NEW t \in Tasks, ~Ended(t) PROVE ~Returned
  BY <1>2 DEF Joined, Returned
<1>3. CASE ReturnIdle
  <2>1. UNCHANGED <<status, stale, pc, res, execs, failCount>> /\ ReadyTasks(status) = {}
        /\ \A t \in Tasks : status[t] # "doing"
    BY <1>1, <1>3 DEF ReturnIdle
  <2>2. ReturnsTerminal'
    BY <1>0, <2>1, NothingReady DEF ReturnsTerminal
  <2>3. QED
    BY <2>1, <2>2 DEF NoRollback, OwedIsDoing, Owes, ExecutionsRecorded, Executed, FailuresRecorded
<1>4. CASE ReturnCancelled
  <2>1. UNCHANGED <<stale, pc, res, execs, failCount>> /\ runner = "check"
    BY <1>4 DEF ReturnCancelled
  <2>2. \A t \in Tasks : \/ status'[t] = status[t]
                         \/ status[t] = "pending" /\ status'[t] = "failed"
    BY <1>4 DEF ReturnCancelled, ReadyTasks
  <2>3. \E t \in Tasks : status'[t] = "failed"
    BY <1>4 DEF ReturnCancelled, ReadyTasks
  <2>4. OwedIsDoing'
    BY <1>1, <2>1, <2>2 DEF OwedIsDoing, Owes
  <2>5. ExecutionsRecorded'
    BY <2>1, <2>2 DEF ExecutionsRecorded, Executed
  <2>6. QED
    BY <2>1, <2>3, <2>4, <2>5 DEF NoRollback, FailuresRecorded, ReturnsTerminal
<1>5. CASE SpawnBatch
  <2>1. /\ UNCHANGED execs /\ runner = "check" /\ stale' = {} /\ failCount' = 0
        /\ runner' = "wait"
    BY <1>5 DEF SpawnBatch
  <2>2. \A t \in Tasks : \/ status'[t] = status[t] /\ pc'[t] = "idle"
                         \/ status[t] = "pending" /\ status'[t] = "doing" /\ pc'[t] = "spawned"
    BY <1>5 DEF SpawnBatch, ReadyTasks
  <2>3. NoRollback' /\ FailuresRecorded' /\ ReturnsTerminal'
    BY <2>1, <2>2 DEF NoRollback, FailuresRecorded, ReturnsTerminal, Returned
  <2>4. OwedIsDoing'
    BY <1>1, <2>1, <2>2 DEF OwedIsDoing, Owes
  <2>5. ExecutionsRecorded'
    BY <1>1, <2>1, <2>2 DEF ExecutionsRecorded, Executed, Ended
  <2>6. QED
    BY <2>3, <2>4, <2>5
<1>6. CASE JoinBatch
  <2>1. UNCHANGED <<status, stale, pc, res, execs, failCount>>
    BY <1>6 DEF JoinBatch
  <2>2. ReturnsTerminal'
    BY <1>6, <2>1 DEF JoinBatch, Return, ReturnsTerminal, Returned, FailuresRecorded
  <2>3. QED
    BY <2>1, <2>2 DEF NoRollback, OwedIsDoing, Owes, ExecutionsRecorded, Executed, FailuresRecorded
<1>7. ASSUME NEW t \in Tasks, Begin(t) PROVE PlainInv'
  <2>1. UNCHANGED <<status, stale, res, execs, failCount, runner>> /\ pc[t] = "spawned"
        /\ (pc'[t] = "skipping" \/ pc'[t] = "running") /\ \A u \in Tasks \ {t} : pc'[u] = pc[u]
    BY <1>0, <1>7 DEF Begin, Goto
  <2>2. QED
    BY <2>1 DEF NoRollback, OwedIsDoing, Owes, ExecutionsRecorded, Executed, FailuresRecorded,
                ReturnsTerminal, Returned
<1>8. ASSUME NEW t \in Tasks, Skip(t) PROVE PlainInv'
  <2>1. UNCHANGED <<stale, res, execs, failCount, runner>> /\ pc[t] = "skipping"
        /\ pc'[t] = "put" /\ \A u \in Tasks \ {t} : pc'[u] = pc[u]
    BY <1>0, <1>8 DEF Skip, Goto
  <2>2. status'[t] = "failed" /\ \A u \in Tasks \ {t} : status'[u] = status[u]
    BY <1>0, <1>8 DEF Skip, SetStatus, Statuses, NoRollback
  <2>3. status[t] = "doing" /\ ~Returned
    BY <1>2, <2>1 DEF OwedIsDoing, Owes, Ended
  <2>4. OwedIsDoing' /\ NoRollback'
    BY <2>1, <2>2 DEF OwedIsDoing, Owes, NoRollback
  <2>5. ExecutionsRecorded'
    BY <2>1, <2>2, <2>3 DEF ExecutionsRecorded, Executed
  <2>6. FailuresRecorded' /\ ReturnsTerminal'
    BY <2>1, <2>2, <2>3 DEF FailuresRecorded, ReturnsTerminal, Returned
  <2>7. QED
    BY <2>4, <2>5, <2>6
<1>9. ASSUME NEW t \in Tasks, NEW r \in {"ok", "err"}, Finish(t, r) PROVE PlainInv'
  <2>1. UNCHANGED <<status, failCount, runner>> /\ stale' = stale \ {t} /\ pc[t] = "running"
        /\ pc'[t] = "located" /\ \A u \in Tasks \ {t} : pc'[u] = pc[u]
    BY <1>0, <1>9 DEF Finish, Goto
  <2>2. res'[t] = r /\ \A u \in Tasks \ {t} : res'[u] = res[u] /\ execs'[u] = execs[u]
    BY <1>0, <1>9 DEF Finish
  <2>3. status[t] = "doing"
    BY <2>1 DEF OwedIsDoing, Owes
  <2>4. execs[t] = 0
    BY <2>1, <2>3 DEF ExecutionsRecorded, Executed
  <2>5. execs'[t] = (IF r = "ok" THEN 1 ELSE 0)
    BY <1>0, <1>9, <2>4 DEF Finish
  <2>6. ExecutionsRecorded'
    BY <2>1, <2>2, <2>5 DEF ExecutionsRecorded, Executed
  <2>7. QED
    BY <2>1, <2>6 DEF NoRollback, OwedIsDoing, Owes, FailuresRecorded, ReturnsTerminal, Returned
<1>10. ASSUME NEW t \in Tasks, Record(t) PROVE PlainInv'
  <2>1. UNCHANGED <<stale, res, execs, runner>> /\ pc[t] = "located"
        /\ pc'[t] \in {"put", "recorded"} /\ \A u \in Tasks \ {t} : pc'[u] = pc[u]
    BY <1>0, <1>10 DEF Record, Goto
  <2>2. /\ status'[t] = (IF res[t] = "ok" THEN "done" ELSE "failed")
        /\ \A u \in Tasks \ {t} : status'[u] = status[u]
    BY <1>0, <1>10 DEF Record, SetStatus, Statuses, NoRollback
  <2>3. status[t] = "doing" /\ ~Returned
    BY <1>2, <2>1 DEF OwedIsDoing, Owes, Ended
  <2>4. OwedIsDoing' /\ NoRollback'
    BY <2>1, <2>2 DEF OwedIsDoing, Owes, NoRollback
  <2>5. ExecutionsRecorded'
    BY <2>1, <2>2, <2>3 DEF ExecutionsRecorded, Executed
  <2>6. res[t] = "ok" => failCount' = failCount
    BY <1>10 DEF Record
  <2>7. FailuresRecorded' /\ ReturnsTerminal'
    BY <2>1, <2>2, <2>3, <2>6 DEF FailuresRecorded, ReturnsTerminal, Returned
  <2>8. QED
    BY <2>4, <2>5, <2>7
<1>11. ASSUME NEW t \in Tasks, Save(t) PROVE PlainInv'
  <2>1. UNCHANGED <<status, stale, execs, failCount, runner>> /\ pc[t] = "put"
        /\ pc'[t] = "finished" /\ \A u \in Tasks \ {t} : pc'[u] = pc[u] /\ res'[u] = res[u]
    BY <1>0, <1>11 DEF Save, Goto
  <2>2. QED
    BY <2>1 DEF NoRollback, OwedIsDoing, Owes, ExecutionsRecorded, Executed, FailuresRecorded,
                ReturnsTerminal, Returned
<1>12. ASSUME NEW t \in Tasks, Callback(t) PROVE PlainInv'
  <2>1. ~Review(t) /\ ~LoadTarget(t) /\ ~CancelBatch(t) /\ ~Restore(t) /\ ~Marshal(t) /\ ~WritePlan(t)
    BY DEF NoRollback, Review, LoadTarget, CancelBatch, Restore, Marshal, WritePlan
  <2>2. ~ShouldReview
    BY DEF Undisturbed, ShouldReview
  <2>3. UNCHANGED <<status, stale, res, execs, failCount, runner>> /\ ~Owes(t) /\ ~Owes(t)'
        /\ pc'[t] \in {"counting", "counted", "put"} /\ \A u \in Tasks \ {t} : pc'[u] = pc[u]
    BY <1>0, <1>12, <2>1, <2>2 DEF Callback, LoadFails, StoreFails, Decide, Goto, Owes
  <2>4. QED
    BY <2>3 DEF NoRollback, OwedIsDoing, Owes, ExecutionsRecorded, Executed, FailuresRecorded,
                ReturnsTerminal, Returned
<1>13. CASE Rerun
  <2>1. UNCHANGED <<status, execs>> /\ stale' = {} /\ failCount' = 0 /\ runner' = "check"
        /\ runner = "returned" /\ pc' = [t \in Tasks |-> "idle"]
    BY <1>13 DEF Rerun
  <2>2. \A t \in Tasks : status[t] # "doing" /\ (Executed(t) => status[t] = "done")
    BY <1>1, <2>1 DEF Executed, Ended
  <2>3. QED
    BY <2>1, <2>2 DEF NoRollback, OwedIsDoing, Owes, ExecutionsRecorded, Executed, FailuresRecorded,
                ReturnsTerminal, Returned
<1>14. CASE Cancel \/ UNCHANGED vars
  <2>1. UNCHANGED <<status, stale, pc, res, execs, failCount, runner>>
    BY <1>14 DEF Cancel, vars
  <2>2. QED
    BY <2>1 DEF NoRollback, OwedIsDoing, Owes, ExecutionsRecorded, Executed, FailuresRecorded,
                ReturnsTerminal, Returned
<1>15. ASSUME NEW w \in Tasks, NEW t \in Tasks, NEW s \in Status, FindForUpdate(w, t, s)
       PROVE  FALSE
  BY <1>0, <1>15 DEF FindForUpdate, Undisturbed
<1>17. ASSUME NEW w \in Tasks, UpdateStatus(w) \/ SaveUpdate(w) PROVE FALSE
  BY <1>17 DEF UpdateStatus, SaveUpdate, NoRollback
<1>16. QED
  BY <1>3, <1>4, <1>5, <1>6, <1>7, <1>8, <1>9, <1>10, <1>11, <1>12, <1>13, <1>14, <1>15, <1>17
  DEF Next, Runner, Worker

(* The invariants of an undisturbed execution hold throughout. *)
LEMMA PlainAlways ==
  ASSUME Undisturbed
  PROVE  Spec => [](Joined /\ PlainInv)
<1>1. SavedInv => Joined
  BY DEF SavedInv
<1> QED BY <1>1, TypeInit, TypeStep, SavedInit, SavedStep, PlainInit, PlainStep, PTL DEF Spec

(* Without rollbacks no task is executed successfully twice, over all the   *)
(* runs of the plan (ExecutedOnce of DagExecutor).                          *)
THEOREM NothingRepeated ==
  ASSUME Undisturbed
  PROVE  Spec => []ExecutedOnce
<1>1. PlainInv => ExecutedOnce
  BY DEF PlainInv, ExecutionsRecorded, ExecutedOnce
<1> QED BY <1>1, PlainAlways, PTL

(* Without rollbacks a returned call leaves no task "doing" (NoOrphan of    *)
(* DagExecutor).                                                            *)
THEOREM NobodyOrphaned ==
  ASSUME Undisturbed
  PROVE  Spec => []NoOrphan
<1>1. Joined /\ PlainInv => NoOrphan
  BY DEF Joined, Ended, PlainInv, OwedIsDoing, Owes, Returned, NoOrphan
<1> QED BY <1>1, PlainAlways, PTL

(* Without rollbacks the call returns in a terminal state: this is where    *)
(* the graph must be acyclic (TerminalAtReturn of DagExecutor).             *)
THEOREM EndsTerminal ==
  ASSUME Undisturbed
  PROVE  Spec => []TerminalAtReturn
<1>1. PlainInv => TerminalAtReturn
  BY DEF PlainInv, ReturnsTerminal, TerminalAtReturn
<1> QED BY <1>1, PlainAlways, PTL

-----------------------------------------------------------------------------
(* Every step of the executor is a step of TaskDag or leaves it unchanged.  *)
LEMMA DagInit == Init => Dag!Init
BY DEF Init, Dag!Init, Cancelled

(* Each step of an undisturbed execution is a step of TaskDag or a stutter. *)
LEMMA DagStep ==
  ASSUME Undisturbed
  PROVE  TypeInv /\ PlainInv /\ [Next]_vars => [Dag!Next]_(Dag!dagVars)
<1> SUFFICES ASSUME TypeInv, PlainInv, [Next]_vars, ~UNCHANGED <<status, Cancelled>>
             PROVE  Dag!Next
  BY DEF Dag!dagVars
<1> USE DEF planVars, workerVars, driftVars, callVars, toolVars
<1>0. status \in Statuses /\ stale = {} /\ toolCalls \in Nat
  BY DEF TypeInv, TypeOK, PlainInv, NoRollback
<1>1. CASE ReturnCancelled
  <2>1. Dag!GiveUp(ReadyTasks(status))
    BY <1>1 DEF ReturnCancelled, Dag!GiveUp, ReadyTasks, Dag!ReadyTasks, AllParentsDone,
                Dag!AllParentsDone, Cancelled
  <2>2. QED
    BY <2>1 DEF Dag!Next, ReadyTasks
<1>2. CASE SpawnBatch
  <2>1. Dag!Start(ReadyTasks(status))
    BY <1>2 DEF SpawnBatch, Dag!Start, ReadyTasks, Dag!ReadyTasks, AllParentsDone,
                Dag!AllParentsDone, Cancelled
  <2>2. QED
    BY <2>1 DEF Dag!Next, ReadyTasks
<1>3. ASSUME NEW t \in Tasks, Skip(t) \/ Record(t) PROVE Dag!Next
  <2>1. status[t] = "doing"
    BY <1>3 DEF Skip, Record, PlainInv, OwedIsDoing, Owes
  <2>2. UNCHANGED cancel /\ \E r \in {"done", "failed"} : status' = [status EXCEPT ![t] = r]
    BY <1>0, <1>3 DEF Skip, Record, SetStatus
  <2>3. \E r \in {"done", "failed"} : Dag!Finish(t, r)
    BY <2>1, <2>2 DEF Dag!Finish, Cancelled
  <2>4. QED
    BY <2>3 DEF Dag!Next
<1>4. CASE Cancel \/ Rerun
  BY <1>4 DEF Cancel, Rerun, Dag!Next, Dag!SetCancelled, Cancelled
<1>5. CASE ReturnIdle \/ JoinBatch \/ UNCHANGED vars
  BY <1>5 DEF ReturnIdle, JoinBatch, vars, Cancelled
<1>6. ASSUME NEW t \in Tasks, Begin(t) \/ Finish(t, "ok") \/ Finish(t, "err") \/ Save(t)
      PROVE  FALSE
  BY <1>6 DEF Begin, Finish, Save, Cancelled
<1>7. ASSUME NEW t \in Tasks, Callback(t) PROVE FALSE
  BY <1>7 DEF Callback, LoadFails, StoreFails, Decide, Review, LoadTarget, CancelBatch,
              Restore, Marshal, WritePlan, PlainInv, NoRollback, Cancelled
<1>8. ASSUME NEW w \in Tasks, NEW t \in Tasks, NEW s \in Status, FindForUpdate(w, t, s)
      PROVE  FALSE
  BY <1>0, <1>8 DEF FindForUpdate, Undisturbed
<1>10. ASSUME NEW w \in Tasks, UpdateStatus(w) \/ SaveUpdate(w) PROVE FALSE
  BY <1>10 DEF UpdateStatus, SaveUpdate, PlainInv, NoRollback
<1>9. QED
  BY <1>1, <1>2, <1>3, <1>4, <1>5, <1>6, <1>7, <1>8, <1>10 DEF Next, Runner, Worker

(* Without rollbacks ExecuteBatch implements TaskDag (DagSpec of            *)
(* DagExecutor), for every task graph.                                      *)
THEOREM ImplementsTaskDag ==
  ASSUME Undisturbed
  PROVE  Spec => DagSpec
<1>1. QED
  BY TypeInit, TypeStep, SavedInit, SavedStep, PlainInit, PlainStep, DagInit, DagStep, PTL
  DEF Spec, SavedInv, DagSpec, Dag!Spec
============================================================================
