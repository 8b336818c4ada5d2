------------------------------ MODULE PlanStore ------------------------------
(***************************************************************************)
(* One plan in the in-memory store and on disk (memory/working/working.go,  *)
(* persist/plan.go, persist/checkpoint.go), edited and rolled back by       *)
(* concurrent tool calls (tools/internals/plan.go), with failing writes,    *)
(* crashes and LoadPlan after a restart.                                    *)
(*                                                                          *)
(* DagExecutor takes saveCheckpoint as one step; here its write of          *)
(* plan.jsonl and its write of the checkpoint are steps of their own, under *)
(* the plan mutex.  The contents of a plan is a revision: every edit makes  *)
(* a new one.                                                               *)
(***************************************************************************)
EXTENDS Naturals, FiniteSets

CONSTANTS Procs,         \* goroutines that call plan tools
          MaxCalls,      \* bound: tool calls that change the plan
          MaxCrashes,    \* bound: process crashes
          MaxFailures,   \* bound: failing file writes
          NoProc         \* nobody (a free mutex)

ASSUME PlanStoreAssumption ==
  /\ NoProc \notin Procs
  /\ MaxCalls \in Nat /\ MaxCrashes \in Nat /\ MaxFailures \in Nat

VARIABLES
  up,        \* the plan is in planStore
  version,   \* Plan.Version
  rev,       \* the rest of the plan
  planFile,  \* plan.jsonl
  ckpt,      \* the checkpoint files
  mu,        \* who holds Plan.mu
  pc,        \* pc[p]: where the tool call of p stands
  target,    \* target[p]: the version plan_rollback is to restore
  loaded,    \* loaded[p]: the revision it has read from the checkpoint
  snapshot,  \* snapshot[p]: the copy saveCheckpoint makes
  calls, crashes, failures,
  alone,     \* history: no other call has changed the plan since p began
  acked      \* history: versions whose saveCheckpoint succeeded

memVars  == <<up, version, rev>>
fileVars == <<planFile, ckpt>>
callVars == <<target, loaded, snapshot>>
boundVars == <<calls, crashes, failures>>
vars == <<memVars, fileVars, mu, pc, callVars, boundVars, alone, acked>>

Pc == {"idle", "load", "restore", "put", "writePlan", "writeCkpt"}

Goto(p, l) == pc' = [pc EXCEPT ![p] = l]

(* The plan has just been created: version 1, saved. *)
Init ==
  /\ up = TRUE /\ version = 1 /\ rev = 1
  /\ planFile = [version |-> 1, rev |-> 1]
  /\ ckpt = [v \in {1} |-> 1]
  /\ mu = NoProc
  /\ pc = [p \in Procs |-> "idle"]
  /\ target = [p \in Procs |-> 0] /\ loaded = [p \in Procs |-> 0]
  /\ snapshot = [p \in Procs |-> 0]
  /\ calls = 0 /\ crashes = 0 /\ failures = 0
  /\ alone = {} /\ acked = {1}

Failure == failures < MaxFailures /\ failures' = failures + 1
-----------------------------------------------------------------------------
(* The tool calls. *)

(* task_insert, task_delete, task_status_update, confirm_plan: the edit,    *)
(* under the mutex; PutPlan takes the mutex again.                          *)
Edit(p) ==
  /\ pc[p] = "idle" /\ up /\ mu = NoProc /\ calls < MaxCalls
  /\ calls' = calls + 1 /\ rev' = calls + 2
  /\ alone' = {p}
  /\ target' = [target EXCEPT ![p] = 0]
  /\ Goto(p, "put")
  /\ UNCHANGED <<up, version, fileVars, mu, loaded, snapshot, crashes, failures, acked>>

(* plan_rollback reads the version under the mutex and checks its target. *)
BeginRollback(p, v) ==
  /\ pc[p] = "idle" /\ up /\ mu = NoProc /\ calls < MaxCalls
  /\ calls' = calls + 1
  /\ v \in 1 .. version - 1
  /\ target' = [target EXCEPT ![p] = v]
  /\ alone' = alone \cup {p}
  /\ Goto(p, "load")
  /\ UNCHANGED <<memVars, fileVars, mu, loaded, snapshot, crashes, failures, acked>>

(* The checkpoint is read without the mutex; it may be missing. *)
LoadCheckpoint(p) ==
  /\ pc[p] = "load"
  /\ IF target[p] \in DOMAIN ckpt
     THEN loaded' = [loaded EXCEPT ![p] = ckpt[target[p]]] /\ Goto(p, "restore")
     ELSE Goto(p, "idle") /\ UNCHANGED loaded
  /\ UNCHANGED <<memVars, fileVars, mu, target, snapshot, boundVars, alone, acked>>

Restore(p) ==
  /\ pc[p] = "restore" /\ mu = NoProc
  /\ rev' = loaded[p]
  /\ alone' = alone \cap {p}
  /\ Goto(p, "put")
  /\ UNCHANGED <<up, version, fileVars, mu, callVars, boundVars, acked>>
-----------------------------------------------------------------------------
(* saveCheckpoint. *)

(* The mutex, the new version, the deep copy, the entry in planStore. *)
Bump(p) ==
  /\ pc[p] = "put" /\ mu = NoProc
  /\ mu' = p
  /\ version' = version + 1 /\ up' = TRUE
  /\ snapshot' = [snapshot EXCEPT ![p] = rev]
  /\ Goto(p, "writePlan")
  /\ UNCHANGED <<rev, fileVars, target, loaded, boundVars, alone, acked>>

(* Mutant: the checkpoint is written first. *)
WritePlan_Later(p) ==
  /\ pc[p] = "writePlan"
  /\ ckpt' = [v \in DOMAIN ckpt \cup {version} |->
                IF v = version THEN snapshot[p] ELSE ckpt[v]]
  /\ Goto(p, "writeCkpt")
  /\ UNCHANGED <<memVars, planFile, mu, callVars, boundVars, alone, acked>>

WritePlan(p) ==
  /\ pc[p] = "writePlan"
  /\ planFile' = [version |-> version, rev |-> rev]
  /\ Goto(p, "writeCkpt")
  /\ UNCHANGED <<memVars, ckpt, mu, callVars, boundVars, alone, acked>>

(* Mutant: a failed write of plan.jsonl is only logged. *)
WriteFails_GoOn(p) ==
  /\ pc[p] \in {"writePlan", "writeCkpt"} /\ Failure
  /\ IF pc[p] = "writePlan" THEN Goto(p, "writeCkpt") /\ UNCHANGED mu
     ELSE Goto(p, "idle") /\ mu' = NoProc
  /\ UNCHANGED <<memVars, fileVars, callVars, calls, crashes, alone, acked>>

(* Mutant: the error path keeps the mutex. *)
WriteFails_Locked(p) ==
  /\ pc[p] \in {"writePlan", "writeCkpt"} /\ Failure
  /\ Goto(p, "idle")
  /\ UNCHANGED <<memVars, fileVars, mu, callVars, calls, crashes, alone, acked>>

(* Either write fails: the call returns the error, the version stays. *)
WriteFails(p) ==
  /\ pc[p] \in {"writePlan", "writeCkpt"} /\ Failure
  /\ Goto(p, "idle") /\ mu' = NoProc
  /\ UNCHANGED <<memVars, fileVars, callVars, calls, crashes, alone, acked>>

WriteCheckpoint(p) ==
  /\ pc[p] = "writeCkpt"
  /\ ckpt' = [v \in DOMAIN ckpt \cup {version} |->
                IF v = version THEN snapshot[p] ELSE ckpt[v]]
  /\ Goto(p, "idle") /\ mu' = NoProc
  /\ acked' = acked \cup {version}
  /\ UNCHANGED <<memVars, planFile, callVars, boundVars, alone>>
-----------------------------------------------------------------------------
(* The process dies; the files stay (FilePersist.Store renames). *)
Crash ==
  /\ up /\ crashes < MaxCrashes /\ crashes' = crashes + 1
  /\ up' = FALSE /\ mu' = NoProc
  /\ pc' = [p \in Procs |-> "idle"]
  /\ UNCHANGED <<version, rev, fileVars, callVars, calls, failures, alone, acked>>

(* The application loads the plan again. *)
LoadPlan ==
  /\ ~up
  /\ up' = TRUE /\ version' = planFile.version /\ rev' = planFile.rev
  /\ UNCHANGED <<fileVars, mu, pc, callVars, boundVars, alone, acked>>

Call(p) == \/ LoadCheckpoint(p) \/ Restore(p) \/ Bump(p)
           \/ WritePlan(p) \/ WriteCheckpoint(p) \/ WriteFails(p)

Next == \/ \E p \in Procs : \/ Edit(p) \/ Call(p)
                            \/ \E v \in 1 .. version : BeginRollback(p, v)
        \/ Crash
        \/ LoadPlan

Spec == Init /\ [][Next]_vars

(* Goroutines run, and a mutex that is free again and again is got. *)
FairSpec == Spec /\ \A p \in Procs : SF_vars(Call(p))
-----------------------------------------------------------------------------
(* Properties. *)

Saving(p) == pc[p] \in {"writePlan", "writeCkpt"}

TypeOK ==
  /\ up \in BOOLEAN /\ version \in Nat /\ rev \in Nat
  /\ planFile \in [version : Nat, rev : Nat]
  /\ DOMAIN ckpt \subseteq Nat /\ \A v \in DOMAIN ckpt : ckpt[v] \in Nat
  /\ mu \in Procs \cup {NoProc}
  /\ pc \in [Procs -> Pc]
  /\ target \in [Procs -> Nat] /\ loaded \in [Procs -> Nat]
  /\ snapshot \in [Procs -> Nat]
  /\ calls \in Nat /\ crashes \in Nat /\ failures \in Nat
  /\ alone \subseteq Procs /\ acked \subseteq Nat

(* A checkpoint never changes, also not after a restart: the version that   *)
(* plan.jsonl brings back is never older than the newest checkpoint.        *)
NeverOverwritten ==
  [][\A v \in DOMAIN ckpt : v \in DOMAIN ckpt' /\ ckpt'[v] = ckpt[v]]_vars

(* What a tool call has reported as saved is there after any later failure, *)
(* rollback or restart: its checkpoint, and a plan.jsonl at least as new.   *)
AckedOnDisk == \A v \in acked : v \in DOMAIN ckpt /\ v <= planFile.version

(* plan.jsonl and the checkpoint of the same version hold the same plan,    *)
(* whichever tool calls edit it while they are written.                     *)
FilesAgree ==
  planFile.version \in DOMAIN ckpt => ckpt[planFile.version] = planFile.rev

(* A rollback that no other call disturbs checkpoints, under the new        *)
(* version, exactly what it was asked to restore.                           *)
RollbackRestores ==
  \A p \in Procs : pc[p] = "writeCkpt" /\ p \in alone /\ target[p] # 0
                     => snapshot[p] = ckpt[target[p]]

(* Every call ends, also when writes fail: no error path keeps the mutex.   *)
CallsReturn == \A p \in Procs : pc[p] # "idle" ~> pc[p] = "idle"

(* What plan.jsonl and the checkpoints keep of a plan (working.go:97):      *)
(* every acknowledged version, two files that agree, and rollbacks that     *)
(* restore what they were asked for, over failing writes and crashes.       *)
DiskKept == AckedOnDisk /\ FilesAgree /\ RollbackRestores
============================================================================
