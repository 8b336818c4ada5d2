--------------------------- MODULE Services_proofs ---------------------------
(***************************************************************************)
(* Theorems about the stores and the server beside the agent: what is kept  *)
(* on disk, the plan (PlanStore) and the memory of a session (SessionStore),*)
(* for any number of tool calls, agent loops, applications, crashes and     *)
(* failing writes; and the ACP server (AcpServer), whose sessions share one *)
(* agent, for any number of sessions, prompts, questions and cancels, with  *)
(* deletes and failing calls of the model.                                  *)
(***************************************************************************)
EXTENDS PlanStore, SessionStore, AcpServer, SequenceTheorems, FiniteSetTheorems, TLAPS

-----------------------------------------------------------------------------
(***************************************************************************)
(* The plan.  All rests on one inductive invariant: whoever saves holds the *)
(* mutex, plan.jsonl is never behind a checkpoint, and the version that is  *)
(* being saved has no checkpoint yet.                                       *)
(***************************************************************************)

(* Where a saving call stands, with respect to the files. *)
SavingInv(p) ==
  /\ pc[p] = "writePlan" => planFile.version < version
  /\ pc[p] = "writeCkpt" => planFile.version = version /\ planFile.rev = rev
  /\ Saving(p) => /\ mu = p /\ up /\ snapshot[p] = rev
                  /\ version \notin DOMAIN ckpt

FilesInv ==
  /\ \A v \in DOMAIN ckpt : v <= planFile.version
  /\ acked \subseteq DOMAIN ckpt
  /\ FilesAgree
  /\ up => planFile.version <= version
  /\ ~up => \A p \in Procs : pc[p] = "idle"

IInv == TypeOK /\ FilesInv /\ \A p \in Procs : SavingInv(p)

(* The invariant holds at the start. *)
LEMMA InvInit == Init => IInv
BY PlanStoreAssumption
DEF Init, IInv, TypeOK, FilesInv, FilesAgree, SavingInv, Saving, Pc

(* Each step of the plan store keeps the types. *)
LEMMA TypeStep == TypeOK /\ (\A p \in Procs : SavingInv(p)) /\ [Next]_vars => TypeOK'
<1> SUFFICES ASSUME TypeOK, \A p \in Procs : SavingInv(p), [Next]_vars PROVE TypeOK'
  OBVIOUS
<1> USE PlanStoreAssumption
    DEF TypeOK, Pc, Goto, Failure, memVars, fileVars, callVars, boundVars
<1>1. ASSUME NEW p \in Procs, Edit(p) PROVE TypeOK'
  BY <1>1 DEF Edit
<1>2. ASSUME NEW p \in Procs, NEW v \in 1 .. version, BeginRollback(p, v) PROVE TypeOK'
  BY <1>2 DEF BeginRollback
<1>3. ASSUME NEW p \in Procs, LoadCheckpoint(p) PROVE TypeOK'
  BY <1>3 DEF LoadCheckpoint
<1>4. ASSUME NEW p \in Procs, Restore(p) PROVE TypeOK'
  BY <1>4 DEF Restore
<1>5. ASSUME NEW p \in Procs, Bump(p) PROVE TypeOK'
  BY <1>5 DEF Bump
<1>6. ASSUME NEW p \in Procs, WritePlan(p) PROVE TypeOK'
  BY <1>6 DEF WritePlan
<1>7. ASSUME NEW p \in Procs, WriteCheckpoint(p) PROVE TypeOK'
  <2>1. snapshot[p] \in Nat /\ version \in Nat
    OBVIOUS
  <2>2. DOMAIN ckpt' \subseteq Nat /\ \A v \in DOMAIN ckpt' : ckpt'[v] \in Nat
    BY <1>7, <2>1 DEF WriteCheckpoint
  <2>3. QED
    BY <1>7, <2>1, <2>2 DEF WriteCheckpoint
<1>8. ASSUME NEW p \in Procs, WriteFails(p) PROVE TypeOK'
  BY <1>8 DEF WriteFails
<1>9. CASE Crash
  <2>1. crashes' \in Nat
    BY <1>9 DEF Crash
  <2>2. pc' \in [Procs -> Pc] /\ mu' \in Procs \cup {NoProc} /\ up' \in BOOLEAN
    BY <1>9 DEF Crash
  <2>3. UNCHANGED <<version, rev, fileVars, callVars, calls, failures, alone, acked>>
    BY <1>9 DEF Crash
  <2>4. QED
    BY <2>1, <2>2, <2>3
<1>10. CASE LoadPlan
  BY <1>10 DEF LoadPlan
<1>11. CASE UNCHANGED vars
  BY <1>11 DEF vars
<1>12. QED
  BY <1>1, <1>2, <1>3, <1>4, <1>5, <1>6, <1>7, <1>8, <1>9, <1>10, <1>11 DEF Next, Call

(* Each step of the plan store keeps files and memory in order. *)
LEMMA InvStep == IInv /\ [Next]_vars => IInv'
<1> SUFFICES ASSUME IInv, [Next]_vars PROVE FilesInv' /\ \A q \in Procs : SavingInv(q)'
  BY TypeStep DEF IInv
<1>0. TypeOK /\ FilesInv /\ \A p \in Procs : SavingInv(p)
  BY DEF IInv
<1>a. pc \in [Procs -> Pc] /\ version \in Nat /\ planFile \in [version : Nat, rev : Nat]
      /\ snapshot \in [Procs -> Nat] /\ DOMAIN ckpt \subseteq Nat /\ NoProc \notin Procs
  BY <1>0, PlanStoreAssumption DEF TypeOK
<1> USE DEF Goto, memVars, fileVars, callVars, boundVars
<1>1. ASSUME NEW p \in Procs, UNCHANGED <<up, version, fileVars, mu, snapshot, acked>>,
             up, mu = NoProc \/ UNCHANGED rev,
             \/ \E l \in Pc \ {"writePlan", "writeCkpt"} : Goto(p, l)
             \/ UNCHANGED pc
      PROVE  FilesInv' /\ \A q \in Procs : SavingInv(q)'
  BY <1>0, <1>1, <1>a DEF FilesInv, FilesAgree, SavingInv, Saving, Pc
<1>2. ASSUME NEW p \in Procs, Edit(p) \/ Restore(p) \/ LoadCheckpoint(p)
                              \/ \E v \in 1 .. version : BeginRollback(p, v)
      PROVE  FilesInv' /\ \A q \in Procs : SavingInv(q)'
  <2>1. up
    BY <1>0, <1>2 DEF FilesInv, Edit, Restore, LoadCheckpoint, BeginRollback
  <2>2. QED
    BY <1>1, <1>2, <2>1 DEF Edit, Restore, LoadCheckpoint, BeginRollback, Pc
<1>3. ASSUME NEW p \in Procs, Bump(p)
      PROVE  FilesInv' /\ \A q \in Procs : SavingInv(q)'
  <2>1. up /\ mu = NoProc /\ \A q \in Procs : ~Saving(q)
    BY <1>0, <1>3, <1>a DEF FilesInv, SavingInv, Bump
  <2>2. \A q \in Procs : q # p => ~Saving(q)'
    BY <1>3, <1>a, <2>1 DEF Bump, Saving
  <2>3. version' \notin DOMAIN ckpt'
    BY <1>0, <1>3, <1>a, <2>1 DEF FilesInv, Bump
  <2>4. SavingInv(p)'
    BY <1>0, <1>3, <1>a, <2>1, <2>3 DEF FilesInv, SavingInv, Saving, Bump
  <2>5. QED
    BY <1>0, <1>3, <1>a, <2>1, <2>2, <2>4 DEF FilesInv, FilesAgree, SavingInv, Saving, Bump
<1>4. ASSUME NEW p \in Procs, WritePlan(p)
      PROVE  FilesInv' /\ \A q \in Procs : SavingInv(q)'
  <2>1. SavingInv(p) /\ mu = p /\ up /\ version \notin DOMAIN ckpt /\ planFile.version < version
    BY <1>0, <1>4 DEF SavingInv, Saving, WritePlan
  <2>2. \A q \in Procs : q # p => ~Saving(q) /\ ~Saving(q)'
    BY <1>0, <1>4, <1>a, <2>1 DEF SavingInv, Saving, WritePlan
  <2>3. QED
    BY <1>0, <1>4, <1>a, <2>1, <2>2 DEF FilesInv, FilesAgree, SavingInv, Saving, WritePlan
<1>5. ASSUME NEW p \in Procs, WriteCheckpoint(p)
      PROVE  FilesInv' /\ \A q \in Procs : SavingInv(q)'
  <2>1. mu = p /\ up /\ snapshot[p] = rev /\ planFile.version = version /\ planFile.rev = rev
    BY <1>0, <1>5 DEF SavingInv, Saving, WriteCheckpoint
  <2>2. \A q \in Procs : ~Saving(q)'
    BY <1>0, <1>5, <1>a, <2>1 DEF SavingInv, Saving, WriteCheckpoint
  <2>3. DOMAIN ckpt' = DOMAIN ckpt \cup {version} /\ ckpt'[version] = rev
    BY <1>5, <2>1 DEF WriteCheckpoint
  <2>4. QED
    BY <1>0, <1>5, <1>a, <2>1, <2>2, <2>3
    DEF FilesInv, FilesAgree, SavingInv, Saving, WriteCheckpoint
<1>6. ASSUME NEW p \in Procs, WriteFails(p)
      PROVE  FilesInv' /\ \A q \in Procs : SavingInv(q)'
  <2>1. mu = p /\ up
    BY <1>0, <1>6 DEF SavingInv, Saving, WriteFails
  <2>2. \A q \in Procs : ~Saving(q)'
    BY <1>0, <1>6, <1>a, <2>1 DEF SavingInv, Saving, WriteFails
  <2>3. QED
    BY <1>0, <1>6, <2>1, <2>2 DEF FilesInv, FilesAgree, SavingInv, Saving, WriteFails
<1>7. CASE Crash \/ LoadPlan \/ UNCHANGED vars
  BY <1>0, <1>7, <1>a DEF FilesInv, FilesAgree, SavingInv, Saving, Crash, LoadPlan, vars
<1>8. QED
  BY <1>2, <1>3, <1>4, <1>5, <1>6, <1>7 DEF Next, Call

(* A checkpoint that is there stays as it is. *)
LEMMA CheckpointsStep ==
  IInv /\ [Next]_vars => \A v \in DOMAIN ckpt : v \in DOMAIN ckpt' /\ ckpt'[v] = ckpt[v]
<1> SUFFICES ASSUME IInv, [Next]_vars
             PROVE  \A v \in DOMAIN ckpt : v \in DOMAIN ckpt' /\ ckpt'[v] = ckpt[v]
  OBVIOUS
<1>1. CASE UNCHANGED ckpt
  BY <1>1
<1>2. ASSUME NEW p \in Procs, WriteCheckpoint(p)
      PROVE  \A v \in DOMAIN ckpt : v \in DOMAIN ckpt' /\ ckpt'[v] = ckpt[v]
  <2>1. version \notin DOMAIN ckpt
    BY <1>2 DEF IInv, SavingInv, Saving, WriteCheckpoint
  <2>2. QED
    BY <1>2, <2>1 DEF WriteCheckpoint
<1>3. QED
  BY <1>1, <1>2
  DEF Next, Call, Edit, BeginRollback, LoadCheckpoint, Restore, Bump, WritePlan, WriteFails,
      Crash, LoadPlan, fileVars, vars

(* What a rollback carries from its checkpoint to the next one: the loaded  *)
(* revision, then, while no other call interferes, the plan and its copy.   *)
Carried(p) ==
  /\ pc[p] = "restore" =>
       target[p] \in DOMAIN ckpt /\ loaded[p] = ckpt[target[p]]
  /\ pc[p] = "put" /\ p \in alone /\ target[p] # 0 =>
       target[p] \in DOMAIN ckpt /\ rev = ckpt[target[p]]
  /\ Saving(p) /\ p \in alone /\ target[p] # 0 =>
       target[p] \in DOMAIN ckpt /\ snapshot[p] = ckpt[target[p]]

RollbackInv == \A p \in Procs : Carried(p)

(* At the start nobody rolls back. *)
LEMMA RollbackInit == Init => RollbackInv
BY DEF Init, RollbackInv, Carried, Saving

(* Each step leaves an undisturbed rollback its revision. *)
LEMMA RollbackStep == IInv /\ RollbackInv /\ [Next]_vars => RollbackInv'
<1> SUFFICES ASSUME IInv, RollbackInv, [Next]_vars, NEW q \in Procs PROVE Carried(q)'
  BY DEF RollbackInv
<1>0. Carried(q) /\ pc \in [Procs -> Pc] /\ target \in [Procs -> Nat]
      /\ loaded \in [Procs -> Nat] /\ snapshot \in [Procs -> Nat]
  BY DEF RollbackInv, IInv, TypeOK
<1>a. \A v \in DOMAIN ckpt : v \in DOMAIN ckpt' /\ ckpt'[v] = ckpt[v]
  BY CheckpointsStep
<1> USE DEF Goto, memVars, fileVars, callVars, boundVars
<1>1. ASSUME NEW p \in Procs, Edit(p) PROVE Carried(q)'
  BY <1>0, <1>a, <1>1 DEF Edit, Carried, Saving
<1>2. ASSUME NEW p \in Procs, NEW v \in 1 .. version, BeginRollback(p, v) PROVE Carried(q)'
  BY <1>0, <1>a, <1>2 DEF BeginRollback, Carried, Saving
<1>3. ASSUME NEW p \in Procs, LoadCheckpoint(p) PROVE Carried(q)'
  BY <1>0, <1>a, <1>3 DEF LoadCheckpoint, Carried, Saving
<1>4. ASSUME NEW p \in Procs, Restore(p) PROVE Carried(q)'
  BY <1>0, <1>a, <1>4 DEF Restore, Carried, Saving
<1>5. ASSUME NEW p \in Procs, Bump(p) PROVE Carried(q)'
  BY <1>0, <1>a, <1>5 DEF Bump, Carried, Saving
<1>6. ASSUME NEW p \in Procs, WritePlan(p) PROVE Carried(q)'
  BY <1>0, <1>a, <1>6 DEF WritePlan, Carried, Saving
<1>7. ASSUME NEW p \in Procs, WriteCheckpoint(p) \/ WriteFails(p) PROVE Carried(q)'
  BY <1>0, <1>a, <1>7 DEF WriteCheckpoint, WriteFails, Carried, Saving
<1>8. CASE Crash \/ LoadPlan
  <2>1. pc'[q] = "idle"
    BY <1>0, <1>8 DEF Crash, LoadPlan, IInv, FilesInv
  <2>2. QED
    BY <2>1 DEF Carried, Saving
<1>9. CASE UNCHANGED vars
  BY <1>0, <1>9 DEF vars, Carried, Saving
<1>10. QED
  BY <1>1, <1>2, <1>3, <1>4, <1>5, <1>6, <1>7, <1>8, <1>9 DEF Next, Call

(* The types of all state (TypeOK of PlanStore). *)
THEOREM TypeCorrect == Spec => []TypeOK
BY InvInit, InvStep, PTL DEF Spec, IInv

(* What plan.jsonl and the checkpoints keep of a plan (DiskKept of          *)
(* PlanStore: saveCheckpoint, PlanRollback, LoadPlan): what was reported as *)
(* saved is on disk whatever fails or crashes later, plan.jsonl and its     *)
(* checkpoint agree, and an undisturbed rollback checkpoints its target.    *)
THEOREM Kept == Spec => []DiskKept
<1>1. IInv => AckedOnDisk /\ FilesAgree
  BY DEF IInv, FilesInv, AckedOnDisk
<1>2. RollbackInv => RollbackRestores
  BY DEF RollbackInv, Carried, Saving, RollbackRestores
<1>3. IInv /\ RollbackInv => DiskKept
  BY <1>1, <1>2 DEF DiskKept
<1>4. QED
  BY <1>3, InvInit, InvStep, RollbackInit, RollbackStep, PTL DEF Spec

(* No checkpoint is ever overwritten or removed, also across a restart      *)
(* (NeverOverwritten of PlanStore: plan.jsonl is written first).            *)
THEOREM CheckpointsStay == Spec => NeverOverwritten
<1>1. IInv /\ [Next]_vars => [\A v \in DOMAIN ckpt : v \in DOMAIN ckpt' /\ ckpt'[v] = ckpt[v]]_vars
  BY CheckpointsStep
<1>2. QED
  BY <1>1, InvInit, InvStep, PTL DEF Spec, NeverOverwritten

-----------------------------------------------------------------------------
(***************************************************************************)
(* The session: what a run has persisted stays in the file, and the memory *)
(* with its file implements SessionLog.  Both hold as long as no two        *)
(* compressions overlapped and no two loops loaded the session at once      *)
(* (raced).                                                                 *)
(***************************************************************************)

Memory == [summary : Seq(Nat), history : Seq(Nat)]
Snapshots == [total : Nat, old : Seq(Nat), recent : Seq(Nat), summary : Seq(Nat)]

-----------------------------------------------------------------------------
(* Loading what was saved. *)

(* The events of a type that stand in one stretch of a file are found in    *)
(* that stretch, in order.                                                  *)
LEMMA OfTypeStretch ==
  ASSUME NEW f, NEW t, NEW a \in Nat, NEW b \in Nat, b >= a - 1,
         {i \in DOMAIN f : f[i].type = t} = a .. b
  PROVE  /\ OfType(f, t) = [k \in DOMAIN OfType(f, t) |-> OfType(f, t)[k]]
         /\ DOMAIN OfType(f, t) = 1 .. b - a + 1
         /\ \A k \in 1 .. b - a + 1 : OfType(f, t)[k] = f[a + k - 1]
<1> DEFINE I == {i \in DOMAIN f : f[i].type = t}
           Nth(k) == CHOOSE i \in I : Cardinality({j \in I : j <= i}) = k
<1>1. I = a .. b
  OBVIOUS
<1>2. OfType(f, t) = [k \in 1 .. Cardinality(I) |-> f[Nth(k)]]
  BY DEF OfType
<1> HIDE DEF I
<1>3. Cardinality(I) = b - a + 1
  <2>1. Cardinality(a .. b) = IF a > b THEN 0 ELSE b - a + 1
    BY FS_Interval
  <2> QED BY <1>1, <2>1
<1>4. ASSUME NEW i \in I PROVE Cardinality({j \in I : j <= i}) = i - a + 1
  <2>1. {j \in I : j <= i} = a .. i
    BY <1>1
  <2>2. i \in Int /\ a <= i
    BY <1>1
  <2>3. Cardinality(a .. i) = IF a > i THEN 0 ELSE i - a + 1
    BY <2>2, FS_Interval
  <2>4. Cardinality(a .. i) = i - a + 1
    BY <2>2, <2>3
  <2> QED BY <2>1, <2>4
<1>5. ASSUME NEW k \in 1 .. b - a + 1 PROVE Nth(k) = a + k - 1
  <2>1. a + k - 1 \in I /\ (a + k - 1) - a + 1 = k
    BY <1>1
  <2>2. \A i \in I : Cardinality({j \in I : j <= i}) = k => i = a + k - 1
    <3> TAKE i \in I
    <3>1. i \in Int /\ Cardinality({j \in I : j <= i}) = i - a + 1
      BY <1>1, <1>4
    <3> QED BY <3>1
  <2>3. Cardinality({j \in I : j <= a + k - 1}) = k
    BY <1>4, <2>1
  <2> QED BY <2>1, <2>2, <2>3
<1> HIDE DEF Nth
<1> QED BY <1>2, <1>3, <1>5

(* No event of a type, or just one.                                         *)
LEMMA OfTypeFew ==
  ASSUME NEW f, NEW t
  PROVE  /\ {i \in DOMAIN f : f[i].type = t} = {} => OfType(f, t) = <<>>
         /\ \A a \in Nat : {i \in DOMAIN f : f[i].type = t} = {a}
                             => Len(OfType(f, t)) = 1 /\ OfType(f, t)[1] = f[a]
<1> DEFINE o == OfType(f, t)
<1>1. ASSUME {i \in DOMAIN f : f[i].type = t} = {} PROVE o = <<>>
  <2>1. {i \in DOMAIN f : f[i].type = t} = 1 .. 0
    BY <1>1
  <2>2. /\ o = [k \in DOMAIN o |-> o[k]]
        /\ DOMAIN o = 1 .. 0 - 1 + 1
    BY <2>1, OfTypeStretch
  <2> HIDE DEF o
  <2> QED BY <2>2
<1>2. ASSUME NEW a \in Nat, {i \in DOMAIN f : f[i].type = t} = {a}
      PROVE  Len(o) = 1 /\ o[1] = f[a]
  <2>1. {i \in DOMAIN f : f[i].type = t} = a .. a /\ a >= a - 1
    BY <1>2
  <2>2. /\ o = [k \in DOMAIN o |-> o[k]]
        /\ DOMAIN o = 1 .. a - a + 1
        /\ \A k \in 1 .. a - a + 1 : o[k] = f[a + k - 1]
    BY <2>1, OfTypeStretch
  <2>3. a - a + 1 = 1 /\ a + 1 - 1 = a
    OBVIOUS
  <2> HIDE DEF o
  <2> QED BY <2>2, <2>3
<1> QED BY <1>1, <1>2

(* A saved file: the opening event, a summary if there is one, and then the *)
(* messages, each in its place.                                             *)
LEMMA EventsShape ==
  ASSUME NEW m \in Memory, NEW a, a = IF m.summary = <<>> THEN 1 ELSE 2
  PROVE  /\ DOMAIN Events(m) = 1 .. a + Len(m.history)
         /\ Events(m)[1].type = "init"
         /\ a = 2 => Events(m)[2].type = "summary" /\ Events(m)[2].body = m.summary
         /\ \A i \in 1 .. Len(m.history) :
              Events(m)[a + i].type = "msg" /\ Events(m)[a + i].body = m.history[i]
<1> DEFINE n == Len(m.history)
           open == [type |-> "init", body |-> <<>>]
           sum == [type |-> "summary", body |-> m.summary]
           s == IF m.summary = <<>> THEN <<>> ELSE <<sum>>
           msg(i) == [type |-> "msg", body |-> m.history[i]]
           g == [i \in 1 .. n |-> msg(i)]
           E == {open, sum} \cup {msg(i) : i \in 1 .. n}
<1>1. n \in Nat /\ DOMAIN m.history = 1 .. n
  BY DEF Memory
<1>2. open.type = "init"
  OBVIOUS
<1>4. Events(m) = <<open>> \o s \o g
  BY <1>1 DEF Events
<1> HIDE DEF open, sum, msg, n
<1>3. open \in E /\ sum \in E /\ \A i \in 1 .. n : msg(i) \in E
  OBVIOUS
<1> HIDE DEF E
<1>5. s \in Seq(E) /\ Len(s) = a - 1 /\ (a = 2 => s[1] = sum)
  BY <1>3
<1>6. g \in Seq(E) /\ Len(g) = n /\ \A i \in 1 .. n : g[i] = msg(i)
  BY <1>1, <1>3
<1>7. <<open>> \in Seq(E) /\ Len(<<open>>) = 1 /\ <<open>>[1] = open
  BY <1>3
<1> HIDE DEF s, g
<1>8. /\ <<open>> \o s \in Seq(E) /\ Len(<<open>> \o s) = a
      /\ (<<open>> \o s)[1] = open /\ (a = 2 => (<<open>> \o s)[2] = sum)
  BY <1>5, <1>7
<1>9. /\ DOMAIN Events(m) = 1 .. a + n
      /\ Events(m)[1] = open /\ (a = 2 => Events(m)[2] = sum)
      /\ \A i \in 1 .. n : Events(m)[a + i] = msg(i)
  <2> DEFINE b == <<open>> \o s
  <2>1. b \in Seq(E) /\ Len(b) = a /\ b[1] = open /\ (a = 2 => b[2] = sum)
    BY <1>8
  <2>2. Events(m) = b \o g /\ a \in {1, 2}
    BY <1>4
  <2> HIDE DEF b
  <2>3. /\ b \o g \in Seq(E) /\ Len(b \o g) = Len(b) + Len(g)
        /\ \A i \in 1 .. Len(b) + Len(g) :
             (b \o g)[i] = IF i <= Len(b) THEN b[i] ELSE g[i - Len(b)]
    BY <2>1, <1>6, ConcatProperties
  <2> QED BY <2>1, <2>2, <2>3, <1>1, <1>6
<1>10. /\ sum.type = "summary" /\ sum.body = m.summary
       /\ \A i \in 1 .. n : msg(i).type = "msg" /\ msg(i).body = m.history[i]
  BY DEF sum, msg
<1> QED BY <1>2, <1>9, <1>10 DEF n

(* LoadSessionJSONL reads back what SaveSessionJSONL wrote. *)
LEMMA ParsedEvents ==
  ASSUME NEW m \in Memory
  PROVE  Parsed(Events(m)) = m
<1> DEFINE a == IF m.summary = <<>> THEN 1 ELSE 2
           n == Len(m.history)
           f == Events(m)
<1>1. /\ m = [summary |-> m.summary, history |-> m.history]
      /\ m.history \in Seq(Nat) /\ m.summary \in Seq(Nat) /\ n \in Nat
      /\ a \in {1, 2} /\ (a = 1 <=> m.summary = <<>>)
  BY DEF Memory
<1>2. /\ DOMAIN f = 1 .. a + n /\ f[1].type = "init"
      /\ a = 2 => f[2].type = "summary" /\ f[2].body = m.summary
      /\ \A i \in 1 .. n : f[a + i].type = "msg" /\ f[a + i].body = m.history[i]
  BY ZenonT(30), EventsShape
<1>3. m.history = [k \in 1 .. n |-> m.history[k]]
  BY DEF Memory
<1> HIDE DEF a, n, f
<1>4. OfType(f, "msg") = [k \in 1 .. n |-> f[a + k]]
  <2>1. ASSUME NEW i \in a + 1 .. a + n PROVE i \in 1 .. a + n /\ f[i].type = "msg"
    <3>1. i - a \in 1 .. n /\ a + (i - a) = i /\ i \in 1 .. a + n
      BY <1>1
    <3> QED BY <3>1, <1>2
  <2>2. ASSUME NEW i \in 1 .. a + n, f[i].type = "msg" PROVE i \in a + 1 .. a + n
    BY <2>2, <1>1, <1>2
  <2>3. {i \in DOMAIN f : f[i].type = "msg"} = a + 1 .. a + n
    BY <2>1, <2>2, <1>2
  <2>4. a + 1 \in Nat /\ a + n \in Nat /\ a + n >= (a + 1) - 1
    BY <1>1
  <2> DEFINE o == OfType(f, "msg")
  <2>5. /\ o = [k \in DOMAIN o |-> o[k]]
        /\ DOMAIN o = 1 .. (a + n) - (a + 1) + 1
        /\ \A k \in 1 .. (a + n) - (a + 1) + 1 : o[k] = f[(a + 1) + k - 1]
    BY <2>3, <2>4, OfTypeStretch
  <2>6. (a + n) - (a + 1) + 1 = n /\ \A k \in 1 .. n : (a + 1) + k - 1 = a + k
    BY <1>1
  <2> QED BY <2>5, <2>6
<1>5. a = 1 => OfType(f, "summary") = <<>>
  <2> SUFFICES ASSUME a = 1 PROVE OfType(f, "summary") = <<>>
    OBVIOUS
  <2>1. ASSUME NEW i \in DOMAIN f PROVE f[i].type # "summary"
    <3>1. CASE i = 1
      BY <3>1, <1>2
    <3>2. CASE i # 1
      <4>1. i - a \in 1 .. n /\ a + (i - a) = i
        BY <3>2, <1>1, <1>2
      <4> QED BY <4>1, <1>2
    <3> QED BY <3>1, <3>2
  <2>2. {i \in DOMAIN f : f[i].type = "summary"} = {}
    BY <2>1
  <2> QED BY <2>2, OfTypeFew
<1>6. a = 2 => Len(OfType(f, "summary")) = 1 /\ OfType(f, "summary")[1] = f[2]
  <2> SUFFICES ASSUME a = 2 PROVE Len(OfType(f, "summary")) = 1 /\ OfType(f, "summary")[1] = f[2]
    OBVIOUS
  <2>1. ASSUME NEW i \in DOMAIN f PROVE f[i].type = "summary" <=> i = 2
    <3>1. CASE i = 1 \/ i = 2
      BY <3>1, <1>2
    <3>2. CASE i # 1 /\ i # 2
      <4>1. i - a \in 1 .. n /\ a + (i - a) = i
        BY SMTT(30), <3>2, <1>1, <1>2
      <4> QED BY <4>1, <3>2, <1>2
    <3> QED BY <3>1, <3>2
  <2>2. 2 \in DOMAIN f
    BY <1>1, <1>2
  <2>3. {i \in DOMAIN f : f[i].type = "summary"} = {2}
    BY <2>1, <2>2
  <2> QED BY <2>3, OfTypeFew
<1>7. [i \in DOMAIN OfType(f, "msg") |-> OfType(f, "msg")[i].body] = m.history
  <2> DEFINE o == OfType(f, "msg")
  <2>1. DOMAIN o = 1 .. n /\ \A k \in 1 .. n : o[k] = f[a + k]
    BY <1>4
  <2> HIDE DEF o
  <2>2. [i \in DOMAIN o |-> o[i].body] = [k \in 1 .. n |-> m.history[k]]
    BY <2>1, <1>2
  <2> QED BY <2>2, <1>3 DEF o
<1>8. (IF OfType(f, "summary") = <<>> THEN <<>> ELSE Last(OfType(f, "summary")).body) = m.summary
  <2>1. CASE a = 1
    BY <2>1, <1>1, <1>5
  <2>2. CASE a = 2
    <3> DEFINE o == OfType(f, "summary")
    <3>1. Len(o) = 1 /\ o[1] = f[2]
      BY <2>2, <1>6
    <3>2. o # <<>> /\ o[Len(o)] = f[2]
      BY <3>1
    <3>3. f[2].body = m.summary
      BY <1>2, <2>2
    <3> QED BY <3>2, <3>3 DEF Last
  <2> QED BY <1>1, <2>1, <2>2
<1> QED BY <1>1, <1>7, <1>8 DEF Parsed, f

(* A session without a file has nothing to load. *)
LEMMA ParsedNothing == Parsed(<<>>) = Blank
<1>1. \A t : OfType(<<>>, t) = <<>>
  <2> TAKE t
  <2>1. {i \in DOMAIN <<>> : <<>>[i].type = t} = {}
    OBVIOUS
  <2> DEFINE f == <<>>
  <2>2. f = <<>> /\ {i \in DOMAIN f : f[i].type = t} = {}
    BY <2>1
  <2> HIDE DEF f
  <2> QED BY <2>2, OfTypeFew
<1> QED BY <1>1 DEF Parsed, Blank
-----------------------------------------------------------------------------
(* What the operations do to the conversation a memory stands for.          *)

(* The fields of a memory. *)
LEMMA MemoryFields ==
  ASSUME NEW m \in Memory
  PROVE  /\ m.summary \in Seq(Nat) /\ m.history \in Seq(Nat) /\ Len(m.history) \in Nat
         /\ m = [summary |-> m.summary, history |-> m.history]
         /\ \A h : [m EXCEPT !.history = h] = [summary |-> m.summary, history |-> h]
BY DEF Memory

(* The fields of a snapshot. *)
LEMMA SnapshotFields ==
  ASSUME NEW s \in Snapshots
  PROVE  /\ s.total \in Nat /\ s.old \in Seq(Nat)
         /\ s.recent \in Seq(Nat) /\ s.summary \in Seq(Nat)
BY DEF Snapshots

(* What a memory stands for is a sequence of messages. *)
LEMMA CoveredType ==
  ASSUME NEW m \in Memory
  PROVE  Covered(m) \in Seq(Nat) /\ Len(Covered(m)) = Len(m.summary) + Len(m.history)
BY DEF Memory, Covered

(* An appended message comes at its end.                                    *)
LEMMA AppendCovered ==
  ASSUME NEW m \in Memory, NEW n \in Nat
  PROVE  /\ [m EXCEPT !.history = Append(@, n)] \in Memory
         /\ Covered([m EXCEPT !.history = Append(@, n)]) = Append(Covered(m), n)
<1> DEFINE s == m.summary
           h == m.history
<1>1. s \in Seq(Nat) /\ h \in Seq(Nat) /\ <<n>> \in Seq(Nat)
  BY MemoryFields
<1>2. [m EXCEPT !.history = Append(@, n)] = [summary |-> s, history |-> Append(h, n)]
  BY MemoryFields
<1> HIDE DEF s, h
<1>3. Append(h, n) = h \o <<n>> /\ Append(s \o h, n) = (s \o h) \o <<n>>
  BY <1>1, AppendIsConcat, ConcatProperties
<1>4. s \o (h \o <<n>>) = (s \o h) \o <<n>>
  BY <1>1, ConcatAssociative
<1>5. Append(h, n) \in Seq(Nat)
  BY <1>1
<1> QED BY <1>1, <1>2, <1>3, <1>4, <1>5 DEF Covered, Memory, s, h

(* What a compression puts in the place of a memory, from its snapshot s.   *)
Installed(m, s) == [summary |-> s.summary \o s.old,
                    history |-> s.recent \o Since(m.history, s.total)]

(* The snapshot s is of the memory m, to which messages may have been       *)
(* appended since.                                                          *)
Of(s, m) ==
  /\ s.total <= Len(m.history) /\ s.total = Len(s.old) + Len(s.recent)
  /\ SubSeq(m.history, 1, s.total) = s.old \o s.recent
  /\ s.summary = m.summary
  /\ Len(s.recent) = KeepLast

(* It is a memory again. *)
LEMMA InstalledType ==
  ASSUME NEW m \in Memory, NEW s \in Snapshots
  PROVE  Installed(m, s) \in Memory
<1>1. /\ s.summary \in Seq(Nat) /\ s.old \in Seq(Nat) /\ s.recent \in Seq(Nat) /\ s.total \in Nat
      /\ m.history \in Seq(Nat)
  BY MemoryFields, SnapshotFields
<1>2. Since(m.history, s.total) \in Seq(Nat)
  BY <1>1 DEF Since
<1>3. s.summary \o s.old \in Seq(Nat) /\ s.recent \o Since(m.history, s.total) \in Seq(Nat)
  BY <1>1, <1>2
<1> QED BY <1>3 DEF Installed, Memory

(* A compression does not change what the memory stands for.                *)
LEMMA InstallCovered ==
  ASSUME NEW m \in Memory, NEW s \in Snapshots, Of(s, m)
  PROVE  /\ Installed(m, s) \in Memory
         /\ Covered(Installed(m, s)) = Covered(m)
         /\ Len(Installed(m, s).history) >= KeepLast
<1> DEFINE h == m.history
           rest == SubSeq(h, s.total + 1, Len(h))
<1>1. /\ m.summary \in Seq(Nat) /\ h \in Seq(Nat) /\ Len(h) \in Nat
      /\ s.total \in Nat /\ s.old \in Seq(Nat) /\ s.recent \in Seq(Nat)
      /\ s.summary = m.summary /\ s.total <= Len(h)
      /\ SubSeq(h, 1, s.total) = s.old \o s.recent
      /\ Len(s.recent) = KeepLast
  BY MemoryFields, SnapshotFields DEF Of
<1> HIDE DEF h
<1>2. Since(h, s.total) = rest
  <2>1. CASE Len(h) > s.total
    BY <2>1 DEF Since
  <2>2. CASE ~(Len(h) > s.total)
    <3>1. Len(h) < s.total + 1 /\ Len(h) \in Int /\ s.total + 1 \in Int
      BY <2>2, <1>1
    <3>2. rest = <<>>
      BY <3>1, SubSeqEmpty
    <3> QED BY <2>2, <3>2 DEF Since
  <2> QED BY <2>1, <2>2
<1>3. rest \in Seq(Nat)
  BY <1>1
<1>4. h = SubSeq(h, 1, s.total) \o rest
  <2>1. 1 \in 1 .. Len(h) + 1 /\ s.total \in 1 - 1 .. Len(h) /\ Len(h) \in s.total .. Len(h)
    BY <1>1
  <2>2. SubSeq(h, 1, s.total) \o SubSeq(h, s.total + 1, Len(h)) = SubSeq(h, 1, Len(h))
    BY <2>1, <1>1, ConcatAdjacentSubSeq
  <2> QED BY <2>2, <1>1, SubSeqFull
<1> HIDE DEF rest
<1>5. (s.old \o s.recent) \o rest = s.old \o (s.recent \o rest)
  <2>1. \A a, b, c \in Seq(Nat) : (a \o b) \o c = a \o (b \o c)
    BY ConcatAssociative
  <2> QED BY <2>1, <1>1, <1>3
<1>6. /\ s.recent \o rest \in Seq(Nat) /\ Len(s.recent \o rest) >= KeepLast
      /\ m.summary \o s.old \in Seq(Nat)
  BY <1>1, <1>3
<1>7. (m.summary \o s.old) \o (s.recent \o rest) = m.summary \o (s.old \o (s.recent \o rest))
  <2>1. \A a, b, c \in Seq(Nat) : (a \o b) \o c = a \o (b \o c)
    BY ConcatAssociative
  <2> QED BY ZenonT(30), <2>1, <1>1, <1>6
<1> QED BY <1>1, <1>2, <1>4, <1>5, <1>6, <1>7 DEF Covered, Installed, Memory, h

(* A snapshot of a memory stays one when a message is appended.             *)
LEMMA AppendOf ==
  ASSUME NEW m \in Memory, NEW n \in Nat, NEW s \in Snapshots, Of(s, m)
  PROVE  Of(s, [m EXCEPT !.history = Append(@, n)])
<1> DEFINE a == [m EXCEPT !.history = Append(@, n)]
<1>1. m.history \in Seq(Nat) /\ s.total \in Nat /\ s.total <= Len(m.history)
  BY MemoryFields, SnapshotFields DEF Of
<1>2. a.history = Append(m.history, n) /\ a.summary = m.summary
  BY MemoryFields
<1> HIDE DEF a
<1>3. /\ a.history \in Seq(Nat) /\ Len(a.history) = Len(m.history) + 1
      /\ \A i \in 1 .. Len(m.history) : a.history[i] = m.history[i]
  BY <1>1, <1>2
<1>4. SubSeq(a.history, 1, s.total) = SubSeq(m.history, 1, s.total)
  BY <1>1, <1>3
<1>5. s.total <= Len(a.history)
  BY <1>1, <1>3
<1>6. Of(s, a)
  BY <1>2, <1>4, <1>5 DEF Of
<1> QED BY <1>6 DEF a

(* What a memory or a file must stand for when n messages have been         *)
(* appended: some of them, in order; and a summary only of messages before  *)
(* the last KeepLast.                                                       *)
Good(m, n) ==
  /\ m.summary # <<>> => Len(m.history) >= KeepLast
  /\ Increasing(Covered(m))
  /\ \A i \in 1 .. Len(Covered(m)) : Covered(m)[i] <= n

(* It still is when the next message has been appended. *)
LEMMA AppendGood ==
  ASSUME NEW m \in Memory, NEW n \in Nat, Good(m, n)
  PROVE  Good([m EXCEPT !.history = Append(@, n + 1)], n + 1)
<1> DEFINE a == [m EXCEPT !.history = Append(@, n + 1)]
           c == Covered(m)
<1>1. Covered(a) = Append(c, n + 1) /\ c \in Seq(Nat)
  <2>1. n + 1 \in Nat
    OBVIOUS
  <2> QED BY <2>1, AppendCovered, CoveredType
<1>2. a.summary # <<>> => Len(a.history) >= KeepLast
  BY StoreAssumption DEF Good, Memory
<1>3. Increasing(c) /\ \A i \in 1 .. Len(c) : c[i] <= n
  BY DEF Good
<1> HIDE DEF c, a
<1>4. /\ Len(Append(c, n + 1)) = Len(c) + 1
      /\ \A i \in 1 .. Len(c) : Append(c, n + 1)[i] = c[i]
      /\ Append(c, n + 1)[Len(c) + 1] = n + 1
      /\ Len(c) \in Nat /\ \A i \in 1 .. Len(c) : c[i] \in Nat
  BY <1>1
<1>5. \A i \in 1 .. Len(c) + 1 : Append(c, n + 1)[i] <= n + 1
  BY <1>3, <1>4
<1>6. Increasing(Append(c, n + 1))
  <2> SUFFICES ASSUME NEW i \in 1 .. Len(c) + 1, NEW j \in 1 .. Len(c) + 1, i < j
               PROVE  Append(c, n + 1)[i] < Append(c, n + 1)[j]
    BY <1>4 DEF Increasing
  <2>1. i \in 1 .. Len(c) /\ c[i] <= n
    BY <1>3, <1>4
  <2>2. CASE j = Len(c) + 1
    BY <2>1, <2>2, <1>4
  <2>3. CASE j # Len(c) + 1
    <3>1. j \in 1 .. Len(c)
      BY <2>3, <1>4
    <3> QED BY <2>1, <3>1, <1>3, <1>4 DEF Increasing
  <2> QED BY <2>2, <2>3
<1> QED BY <1>1, <1>2, <1>4, <1>5, <1>6 DEF Good, a
-----------------------------------------------------------------------------
(* The state, whatever happened.                                            *)
Held == Memory \cup Snapshots \cup {NoSnap, "answered", "compressed"}

Shape ==
  /\ mems \in Seq(Memory) /\ table \in DOMAIN mems \cup {NoMem}
  /\ at \in [parties -> Stations] /\ snap \in [parties -> Held]
  /\ mem \in [parties -> DOMAIN mems \cup {NoMem}]
  /\ messages \in Nat /\ raced \in BOOLEAN

Holding ==
  /\ \A p \in parties : at[p] \notin {"closed", "miss", "create"} => mem[p] # NoMem
  /\ \A p \in parties : at[p] = "miss" => snap[p] \in Memory
  /\ \A p \in parties : at[p] = "summarising" => snap[p] \in Snapshots

FileWhole == file = <<>> \/ \E m \in Memory : file = Events(m)

Counts == /\ \A p, q \in Writing : p = q
          /\ litter \in Nat /\ deaths \in Nat /\ litter <= deaths

ShapeInv == Shape /\ Holding /\ FileWhole /\ Counts

(* A file that was written whole can be loaded.                             *)
LEMMA FileLoads ==
  ASSUME FileWhole
  PROVE  Parsed(file) \in Memory /\ (file = <<>> => Parsed(file) = Blank)
<1>1. Blank \in Memory
  BY DEF Blank, Memory
<1>2. CASE file = <<>>
  BY <1>1, <1>2, ParsedNothing
<1>3. CASE file # <<>>
  BY <1>3, ParsedEvents DEF FileWhole
<1> QED BY <1>2, <1>3

(* Objects are created and changed, never taken away, but by a crash.       *)
LEMMA NewMemShape ==
  ASSUME Shape, NEW l \in parties, NEW m \in Memory, NewMem(l, m)
  PROVE  /\ mems' \in Seq(Memory) /\ DOMAIN mems' = DOMAIN mems \cup {Len(mems) + 1}
         /\ table' \in DOMAIN mems'
         /\ mem' \in [parties -> DOMAIN mems' \cup {NoMem}]
         /\ mem'[l] # NoMem /\ \A p \in parties : p # l => mem'[p] = mem[p]
<1>1. Len(mems) \in Nat /\ DOMAIN mems = 1 .. Len(mems)
  BY DEF Shape
<1>2. /\ mems' \in Seq(Memory) /\ DOMAIN mems' = 1 .. Len(mems) + 1
      /\ mem' = [mem EXCEPT ![l] = Len(mems) + 1] /\ table' = Len(mems) + 1
  BY DEF NewMem, Hold, Shape
<1>3. DOMAIN mems' = DOMAIN mems \cup {Len(mems) + 1} /\ Len(mems) + 1 \in DOMAIN mems'
  BY <1>1, <1>2
<1>4. Len(mems) + 1 # NoMem
  BY <1>1, StoreAssumption
<1>5. mem \in [parties -> DOMAIN mems \cup {NoMem}]
  BY DEF Shape
<1> QED BY <1>2, <1>3, <1>4, <1>5

(* A changed object leaves the others and their number as they are. *)
LEMMA ChangedMem ==
  ASSUME Shape, NEW i \in DOMAIN mems, NEW m \in Memory, mems' = [mems EXCEPT ![i] = m]
  PROVE  mems' \in Seq(Memory) /\ DOMAIN mems' = DOMAIN mems
BY DEF Shape

(* All this at the start. *)
LEMMA ShapeInit == SessionInit => ShapeInv
<1> SUFFICES ASSUME SessionInit PROVE ShapeInv
  OBVIOUS
<1> USE DEF SessionInit
<1>1. NoSnap \in Held
  BY DEF Held
<1>2. mems = <<>> /\ <<>> \in Seq(Memory)
  OBVIOUS
<1>3. Shape
  BY <1>1, <1>2 DEF Shape, Stations
<1>4. Holding
  BY DEF Holding
<1>5. Counts
  BY DEF Counts, Writing
<1> QED BY <1>3, <1>4, <1>5 DEF ShapeInv, FileWhole

(* A party goes on to station s, holding the value v and the object x.      *)
Moves(p, s, v, x) ==
  /\ at' = [at EXCEPT ![p] = s]
  /\ snap' = [snap EXCEPT ![p] = v] /\ mem' = [mem EXCEPT ![p] = x]
  /\ s \in Stations /\ v \in Held /\ x \in DOMAIN mems' \cup {NoMem}
  /\ s \notin {"closed", "miss", "create"} => x # NoMem
  /\ s = "miss" => v \in Memory
  /\ s = "summarising" => v \in Snapshots
  /\ s = "writing" => Writing = {}

(* A move keeps the shape of the state, whatever happens to the objects. *)
LEMMA MoveShape ==
  ASSUME ShapeInv, NEW p \in parties, NEW s, NEW v, NEW x, Moves(p, s, v, x),
         mems' \in Seq(Memory), DOMAIN mems \subseteq DOMAIN mems',
         table' \in DOMAIN mems' \cup {NoMem}, FileWhole',
         messages' \in Nat, raced' \in BOOLEAN, UNCHANGED <<litter, deaths>>
  PROVE  ShapeInv'
<1> USE DEF ShapeInv
<1>1. /\ at \in [parties -> Stations] /\ snap \in [parties -> Held]
      /\ mem \in [parties -> DOMAIN mems \cup {NoMem}]
  BY DEF Shape
<1>2. /\ at' = [at EXCEPT ![p] = s] /\ s \in Stations
      /\ snap' = [snap EXCEPT ![p] = v] /\ v \in Held
      /\ mem' = [mem EXCEPT ![p] = x] /\ x \in DOMAIN mems' \cup {NoMem}
  BY DEF Moves
<1>3. /\ at' \in [parties -> Stations] /\ snap' \in [parties -> Held]
      /\ mem' \in [parties -> DOMAIN mems' \cup {NoMem}]
  BY <1>1, <1>2
<1>4. Shape'
  BY <1>3 DEF Shape
<1>5. /\ at'[p] = s /\ snap'[p] = v /\ mem'[p] = x
      /\ \A q \in parties \ {p} : at'[q] = at[q] /\ snap'[q] = snap[q] /\ mem'[q] = mem[q]
  BY <1>1, <1>2
<1>6. Holding'
  BY <1>5 DEF Holding, Moves
<1>7. \A q, r \in Writing' : q = r
  BY <1>5 DEF Counts, Moves, Writing
<1> QED BY <1>4, <1>6, <1>7 DEF Counts

(* A party that keeps what it holds. *)
LEMMA Keeps ==
  ASSUME Shape, NEW p \in parties
  PROVE  /\ snap = [snap EXCEPT ![p] = snap[p]] /\ snap[p] \in Held
         /\ mem = [mem EXCEPT ![p] = mem[p]] /\ mem[p] \in DOMAIN mems \cup {NoMem}
         /\ NoSnap \in Held /\ "answered" \in Held /\ "compressed" \in Held
         /\ \A l : Hold(p, l) => mem' = [mem EXCEPT ![p] = l]
         /\ at[p] \in Stations
BY DEF Shape, Held, Hold

(* The steps that create or change no object and do not touch the file.     *)
Quiet(p) == UNCHANGED <<mapVars, file, messages, litter, deaths, kept>>

(* So does a move that leaves them alone. *)
LEMMA QuietShape ==
  ASSUME ShapeInv, NEW p \in parties, NEW s, NEW v, NEW x, Moves(p, s, v, x),
         Quiet(p), raced' \in BOOLEAN
  PROVE  ShapeInv'
<1>1. /\ mems' = mems /\ mems \in Seq(Memory) /\ table' = table /\ file' = file
      /\ messages' = messages /\ messages \in Nat /\ UNCHANGED <<litter, deaths>>
  BY DEF Quiet, mapVars, ShapeInv, Shape
<1>2. mems' \in Seq(Memory) /\ DOMAIN mems \subseteq DOMAIN mems' /\ FileWhole'
      /\ table' \in DOMAIN mems' \cup {NoMem}
  BY <1>1 DEF ShapeInv, Shape, FileWhole
<1> QED BY <1>1, <1>2, MoveShape

(* Opening a session keeps the shape. *)
LEMMA OpenShape ==
  ASSUME ShapeInv, NEW l \in AgentLoops,
         OpenHit(l) \/ OpenMiss(l) \/ OpenUnreadable(l) \/ StoreLoaded(l) \/ LoadOrStore(l)
  PROVE  ShapeInv'
<1> USE DEF GoOn, Quiet, Stations, procVars, mapVars, faultVars
<1>0. l \in parties /\ Shape /\ Holding
  BY DEF parties, ShapeInv
<1>1. CASE OpenHit(l)
  <2>1. Moves(l, "open", snap[l], table) /\ Quiet(l) /\ raced' \in BOOLEAN
    BY <1>0, <1>1, Keeps DEF OpenHit, Moves, Shape
  <2> QED BY <1>0, <2>1, QuietShape
<1>2. CASE OpenMiss(l)
  <2>1. Parsed(file) \in Memory
    BY FileLoads DEF ShapeInv
  <2>2. /\ Moves(l, IF Parsed(file) = Blank THEN "create" ELSE "miss", Parsed(file), mem[l])
        /\ Quiet(l) /\ raced' \in BOOLEAN
    BY <1>0, <1>2, <2>1, Keeps DEF OpenMiss, Moves, Shape, Held
  <2> QED BY <1>0, <2>2, QuietShape
<1>3. CASE OpenUnreadable(l)
  <2>1. Moves(l, "create", snap[l], mem[l]) /\ Quiet(l) /\ raced' \in BOOLEAN
    BY <1>0, <1>3, Keeps DEF OpenUnreadable, Moves, Shape
  <2> QED BY <1>0, <2>1, QuietShape
<1>4. ASSUME NEW m \in Memory, NewMem(l, m), snap' = [snap EXCEPT ![l] = NoSnap],
             GoOn(l, "open"), UNCHANGED <<file, messages, litter, deaths>>, raced' \in BOOLEAN
      PROVE  ShapeInv'
  <2>1. /\ mems' \in Seq(Memory) /\ DOMAIN mems \subseteq DOMAIN mems'
        /\ table' \in DOMAIN mems' /\ mem'[l] # NoMem
        /\ mem' = [mem EXCEPT ![l] = Len(mems) + 1] /\ Len(mems) + 1 \in DOMAIN mems'
    BY <1>0, <1>4, NewMemShape DEF NewMem, Hold
  <2>2. Len(mems) + 1 # NoMem
    BY <1>0, StoreAssumption DEF Shape
  <2>3. Moves(l, "open", NoSnap, Len(mems) + 1) /\ FileWhole'
    BY <1>0, <1>4, <2>1, <2>2, Keeps DEF Moves, ShapeInv, FileWhole
  <2> QED BY <1>0, <1>4, <2>1, <2>3, MoveShape DEF Shape
<1>5. CASE StoreLoaded(l)
  <2>1. snap[l] \in Memory
    BY <1>0, <1>5 DEF StoreLoaded, Holding
  <2> QED BY <1>0, <1>4, <1>5, <2>1 DEF StoreLoaded, Shape
<1>6. CASE LoadOrStore(l) /\ table = NoMem
  <2>1. Blank \in Memory
    BY DEF Blank, Memory
  <2> QED BY <1>0, <1>4, <1>6, <2>1 DEF LoadOrStore, Shape
<1>7. CASE LoadOrStore(l) /\ table # NoMem
  <2>1. Moves(l, "open", NoSnap, table) /\ Quiet(l) /\ raced' \in BOOLEAN
    BY <1>0, <1>7, Keeps DEF LoadOrStore, Moves, Shape
  <2> QED BY <1>0, <2>1, QuietShape
<1> QED BY <1>1, <1>2, <1>3, <1>5, <1>6, <1>7

(* The party has an object, and a step of its run changes it. *)
LEMMA Works ==
  ASSUME ShapeInv, NEW p \in parties, at[p] \notin {"closed", "miss", "create"}
  PROVE  mem[p] \in DOMAIN mems /\ mems[mem[p]] \in Memory
<1>1. mem[p] \in DOMAIN mems
  BY DEF ShapeInv, Shape, Holding
<1> QED BY <1>1 DEF ShapeInv, Shape

(* So does a move that changes the party's object. *)
LEMMA ChangeShape ==
  ASSUME ShapeInv, NEW p \in parties, NEW s, NEW v, Moves(p, s, v, mem[p]),
         NEW i \in DOMAIN mems, NEW m \in Memory, mems' = [mems EXCEPT ![i] = m],
         messages' \in Nat, UNCHANGED <<table, file, litter, deaths, raced>>
  PROVE  ShapeInv'
<1>1. mems' \in Seq(Memory) /\ DOMAIN mems' = DOMAIN mems
  BY ChangedMem DEF ShapeInv
<1>2. table' \in DOMAIN mems' \cup {NoMem} /\ raced' \in BOOLEAN /\ FileWhole'
  BY <1>1 DEF ShapeInv, Shape, FileWhole
<1> QED BY <1>1, <1>2, MoveShape

(* The steps of a run keep the shape. *)
LEMMA RunShape ==
  ASSUME ShapeInv, NEW l \in AgentLoops, StartRun(l) \/ ContextFull(l) \/ EndRun(l)
  PROVE  ShapeInv'
<1> USE DEF GoOn, Quiet, Stations, procVars, mapVars, faultVars
<1>0. l \in parties /\ Shape /\ Holding
  BY DEF parties, ShapeInv
<1>1. ASSUME NEW s \in {"running", "answered"}, AppendMessage(mem[l]), GoOn(l, s),
             at[l] \in {"open", "running"},
             UNCHANGED <<table, file, mem, snap, litter, faultVars, raced, kept>>
      PROVE  ShapeInv'
  <2>1. mem[l] \in DOMAIN mems /\ mems[mem[l]] \in Memory
    BY <1>0, <1>1, Works
  <2> DEFINE m == [mems[mem[l]] EXCEPT !.history = Append(@, messages + 1)]
  <2>2. messages + 1 \in Nat
    BY <1>0 DEF Shape
  <2>3. m \in Memory /\ mems' = [mems EXCEPT ![mem[l]] = m]
    BY <1>1, <2>1, <2>2, AppendCovered DEF AppendMessage
  <2> HIDE DEF m
  <2>4. mem[l] # NoMem /\ DOMAIN mems' = DOMAIN mems
    BY <1>0, <1>1, <2>1, <2>3, ChangedMem DEF Holding
  <2>5. Moves(l, s, snap[l], mem[l])
    BY <1>0, <1>1, <2>4, Keeps DEF Moves
  <2>6. messages' \in Nat
    BY <1>1, <2>2 DEF AppendMessage
  <2> QED BY <1>0, <1>1, <2>1, <2>3, <2>5, <2>6, ChangeShape
<1>2. CASE StartRun(l)
  BY <1>1, <1>2 DEF StartRun
<1>3. CASE ContextFull(l)
  <2>1. Moves(l, "full", snap[l], mem[l]) /\ Quiet(l) /\ raced' \in BOOLEAN
    BY <1>0, <1>3, Keeps DEF ContextFull, Moves, Shape, Holding
  <2> QED BY <1>0, <2>1, QuietShape
<1>4. CASE EndRun(l) /\ AppendMessage(mem[l])
  BY <1>1, <1>4 DEF EndRun
<1>5. CASE EndRun(l) /\ UNCHANGED <<mems, messages>>
  <2>1. Moves(l, "answered", snap[l], mem[l]) /\ Quiet(l) /\ raced' \in BOOLEAN
    BY <1>0, <1>5, Keeps DEF EndRun, Moves, Shape, Holding
  <2> QED BY <1>0, <2>1, QuietShape
<1> QED BY <1>2, <1>3, <1>4, <1>5 DEF EndRun

(* The snapshot that a compression takes of the object m, when it goes on.  *)
Enough(m) == Len(m.history) > KeepLast /\ Len(m.history) - KeepLast >= MinMessagesToCompress
Taken(m) == [total |-> Len(m.history), old |-> SubSeq(m.history, 1, Len(m.history) - KeepLast),
             recent |-> SubSeq(m.history, Len(m.history) - KeepLast + 1, Len(m.history)),
             summary |-> m.summary]

(* What a compression takes is a snapshot of the object. *)
LEMMA TakenOf ==
  ASSUME NEW m \in Memory, Enough(m)
  PROVE  Taken(m) \in Snapshots /\ Of(Taken(m), m)
<1> DEFINE h == m.history
           n == Len(h) - KeepLast
<1>1. h \in Seq(Nat) /\ Len(h) \in Nat /\ m.summary \in Seq(Nat) /\ KeepLast \in Nat
  BY MemoryFields, StoreAssumption
<1> HIDE DEF h
<1>2. n \in 1 .. Len(h)
  BY <1>1, StoreAssumption DEF Enough, h
<1>3. /\ SubSeq(h, 1, n) \in Seq(Nat) /\ Len(SubSeq(h, 1, n)) = n
      /\ SubSeq(h, n + 1, Len(h)) \in Seq(Nat) /\ Len(SubSeq(h, n + 1, Len(h))) = KeepLast
  BY <1>1, <1>2
<1>4. SubSeq(h, 1, n) \o SubSeq(h, n + 1, Len(h)) = SubSeq(h, 1, Len(h))
  <2>1. 1 \in 1 .. Len(h) + 1 /\ n \in 1 - 1 .. Len(h) /\ Len(h) \in n .. Len(h)
    BY <1>1, <1>2
  <2> QED BY <2>1, <1>1, ConcatAdjacentSubSeq
<1>5. Len(h) = n + KeepLast
  BY <1>1
<1>6. Taken(m) = [total |-> Len(h), old |-> SubSeq(h, 1, n),
                  recent |-> SubSeq(h, n + 1, Len(h)), summary |-> m.summary]
  BY DEF Taken, h
<1>7. SubSeq(h, 1, Len(h)) = h
  BY <1>1, SubSeqFull
<1> HIDE DEF n
<1> DEFINE old == SubSeq(h, 1, n)
           recent == SubSeq(h, n + 1, Len(h))
           t == [total |-> Len(h), old |-> old, recent |-> recent, summary |-> m.summary]
<1>8. old \in Seq(Nat) /\ Len(old) = n /\ recent \in Seq(Nat) /\ Len(recent) = KeepLast
      /\ old \o recent = SubSeq(h, 1, Len(h))
  BY <1>3, <1>4
<1> HIDE DEF old, recent
<1>9. /\ t \in Snapshots /\ t.total = Len(h) /\ t.old = old /\ t.recent = recent
      /\ t.summary = m.summary
  BY <1>1, <1>8 DEF Snapshots
<1>10. Taken(m) = t
  BY <1>6 DEF old, recent
<1> HIDE DEF t
<1>11. Of(t, m)
  <2>1. t.total <= Len(m.history) /\ t.total = Len(t.old) + Len(t.recent)
    BY <1>1, <1>5, <1>8, <1>9 DEF h
  <2>2. SubSeq(m.history, 1, t.total) = t.old \o t.recent
    BY <1>8, <1>9 DEF h
  <2> QED BY <2>1, <2>2, <1>8, <1>9 DEF Of
<1> QED BY <1>9, <1>10, <1>11

(* Step 1 of a compression takes it and goes on, or gives up. *)
LEMMA SnapshotTakes ==
  ASSUME ShapeInv, NEW p \in parties, NEW m \in DOMAIN mems, Snapshot(p, m)
  PROVE  /\ Quiet(p) /\ m # NoMem /\ mems[m] \in Memory /\ Compressor(p, m)
         /\ \/ /\ Moves(p, "summarising", Taken(mems[m]), m) /\ Enough(mems[m])
               /\ raced' = (raced \/ Summarising(m) # {})
            \/ Moves(p, BackTo(p), snap[p], mem[p]) /\ raced' = raced
<1>1. /\ Shape /\ Holding /\ mems[m] \in Memory /\ m # NoMem /\ Compressor(p, m)
  BY DEF ShapeInv, Shape, Snapshot
<1>2. Quiet(p) /\ DOMAIN mems' = DOMAIN mems
  BY DEF Snapshot, Quiet, mapVars, faultVars
<1>3. CASE Enough(mems[m])
  <2>1. Taken(mems[m]) \in Snapshots
    BY <1>1, <1>3, TakenOf
  <2>2. /\ snap' = [snap EXCEPT ![p] = Taken(mems[m])] /\ GoOn(p, "summarising") /\ Hold(p, m)
        /\ raced' = (raced \/ Summarising(m) # {})
    BY <1>3 DEF Snapshot, Enough, Taken
  <2>3. Moves(p, "summarising", Taken(mems[m]), m)
    BY <1>1, <1>2, <2>1, <2>2, Keeps DEF Moves, Held, Stations, GoOn
  <2> QED BY <1>1, <1>2, <1>3, <2>2, <2>3
<1>4. CASE ~Enough(mems[m])
  <2>1. GoOn(p, BackTo(p)) /\ UNCHANGED <<snap, mem, raced>>
    BY <1>4 DEF Snapshot, Enough
  <2>2. BackTo(p) = "running" => p \in AgentLoops
    BY DEF BackTo
  <2>3. p \in AgentLoops => mem[p] # NoMem
    BY <1>1 DEF Compressor
  <2>4. Moves(p, BackTo(p), snap[p], mem[p])
    BY <1>1, <1>2, <2>1, <2>2, <2>3, Keeps DEF Moves, Stations, GoOn, BackTo
  <2> QED BY <1>1, <1>2, <2>1, <2>4
<1> QED BY <1>3, <1>4

(* Where the end of a compression or of a Persist leaves a party. *)
LEMMA EndMoves ==
  ASSUME ShapeInv, NEW p \in parties, at[p] \notin {"closed", "miss", "create"},
         DOMAIN mems' = DOMAIN mems
  PROVE  /\ GoOn(p, BackTo(p)) /\ snap' = [snap EXCEPT ![p] = NoSnap] /\ mem' = mem
              => Moves(p, BackTo(p), NoSnap, mem[p])
         /\ GoOn(p, "compressed") /\ snap' = [snap EXCEPT ![p] = NoSnap] /\ mem' = mem
              => Moves(p, "compressed", NoSnap, mem[p])
         /\ EndOfPersist(p) => Moves(p, "closed", NoSnap, NoMem)
                                 \/ Moves(p, BackTo(p), NoSnap, mem[p])
<1>1. Shape /\ mem[p] # NoMem
  BY DEF ShapeInv, Holding
<1>2. GoOn(p, BackTo(p)) /\ snap' = [snap EXCEPT ![p] = NoSnap] /\ mem' = mem
        => Moves(p, BackTo(p), NoSnap, mem[p])
  BY <1>1, Keeps DEF Moves, Stations, GoOn, BackTo
<1>3. GoOn(p, "compressed") /\ snap' = [snap EXCEPT ![p] = NoSnap] /\ mem' = mem
        => Moves(p, "compressed", NoSnap, mem[p])
  BY <1>1, Keeps DEF Moves, Stations, GoOn
<1>4. EndOfPersist(p) /\ snap[p] = "answered" => Moves(p, "closed", NoSnap, NoMem)
  BY <1>1, Keeps DEF EndOfPersist, Moves, Stations, GoOn
<1>5. EndOfPersist(p) /\ snap[p] # "answered" => Moves(p, BackTo(p), NoSnap, mem[p])
  BY <1>2 DEF EndOfPersist
<1> QED BY <1>2, <1>3, <1>4, <1>5

(* The steps of a compression keep the shape. *)
LEMMA CompressShape ==
  ASSUME ShapeInv, NEW p \in parties, Compress(p)
  PROVE  ShapeInv'
<1> USE DEF Quiet, mapVars, faultVars
<1>0. Shape
  BY DEF ShapeInv
<1>1. ASSUME NEW m \in DOMAIN mems, Snapshot(p, m) PROVE ShapeInv'
  <2>1. raced' \in BOOLEAN
    BY <1>0, <1>1, SnapshotTakes DEF Shape
  <2> QED BY <1>1, <2>1, SnapshotTakes, QuietShape
<1>2. CASE SummariseFails(p)
  <2>1. Moves(p, BackTo(p), NoSnap, mem[p]) /\ Quiet(p) /\ raced' \in BOOLEAN
    BY <1>0, <1>2, EndMoves DEF SummariseFails, Shape
  <2> QED BY <2>1, QuietShape
<1>3. CASE Install(p)
  <2>1. /\ at[p] = "summarising" /\ mem[p] \in DOMAIN mems /\ mems[mem[p]] \in Memory
        /\ snap[p] \in Snapshots
    BY <1>3, Works DEF Install, ShapeInv, Holding
  <2> DEFINE m == Installed(mems[mem[p]], snap[p])
  <2>2. mems' = [mems EXCEPT ![mem[p]] = m]
    BY <1>3 DEF Install, Installed
  <2>3. m \in Memory
    BY <2>1, InstalledType
  <2> HIDE DEF m
  <2>4. DOMAIN mems' = DOMAIN mems
    BY <2>2
  <2>5. Moves(p, "compressed", NoSnap, mem[p])
    BY <1>3, <2>1, <2>4, EndMoves DEF Install
  <2> QED BY <1>0, <1>3, <2>1, <2>2, <2>3, <2>5, ChangeShape DEF Install, Shape
<1> QED BY <1>1, <1>2, <1>3 DEF Compress

(* The steps of Persist keep the shape. *)
LEMMA StoreShape ==
  ASSUME ShapeInv, NEW p \in parties, Store(p)
  PROVE  ShapeInv'
<1> USE DEF Quiet, mapVars, faultVars
<1>0. Shape
  BY DEF ShapeInv
<1>1. CASE BeginPersist(p)
  <2>1. at[p] \in Held /\ mem[p] # NoMem
    BY <1>1 DEF BeginPersist, Held, ShapeInv, Holding
  <2>2. Moves(p, "writing", at[p], mem[p]) /\ Quiet(p) /\ raced' \in BOOLEAN
    BY <1>0, <1>1, <2>1, Keeps DEF BeginPersist, Moves, GoOn, Stations, Shape
  <2> QED BY <2>2, QuietShape
<1>2. CASE Rename(p)
  <2>1. at[p] = "writing" /\ DOMAIN mems' = DOMAIN mems
    BY <1>2 DEF Rename
  <2>2. mems[mem[p]] \in Memory
    BY <2>1, Works
  <2>3. FileWhole'
    BY <1>2, <2>2 DEF Rename, FileWhole
  <2>4. PICK s, x : Moves(p, s, NoSnap, x)
    BY <1>2, <2>1, EndMoves DEF Rename
  <2> QED BY <1>0, <1>2, <2>3, <2>4, MoveShape DEF Rename, Shape
<1>3. CASE PersistBreaks(p)
  <2>1. PICK s, x : Moves(p, s, NoSnap, x)
    BY <1>3, EndMoves DEF PersistBreaks
  <2> QED BY <1>0, <1>3, <2>1, QuietShape DEF PersistBreaks, Shape
<1> QED BY <1>1, <1>2, <1>3 DEF Store

(* At most one Persist writes. *)
LEMMA OneWriter ==
  ASSUME Counts
  PROVE  Cardinality(Writing) \in {0, 1}
<1>1. CASE Writing = {}
  BY <1>1, FS_EmptySet
<1>2. CASE Writing # {}
  <2>1. PICK p \in Writing : TRUE
    BY <1>2
  <2>2. \A q \in Writing : q = p
    BY <2>1 DEF Counts
  <2>3. Writing = {p}
    BY <2>1, <2>2
  <2> QED BY <2>3, FS_Singleton
<1> QED BY <1>1, <1>2

(* A crash keeps the shape. *)
LEMMA DieShape == ASSUME ShapeInv, Die PROVE ShapeInv'
<1> USE DEF Die
<1>1. NoSnap \in Held /\ <<>> \in Seq(Memory)
  BY DEF Held
<1>2. Shape' /\ Holding' /\ FileWhole'
  BY <1>1 DEF Shape, Holding, Stations, ShapeInv, FileWhole
<1>3. Writing' = {}
  BY DEF Writing
<1>4. Cardinality(Writing) \in {0, 1}
  BY OneWriter DEF ShapeInv
<1>5. Counts'
  BY <1>3, <1>4 DEF Counts, ShapeInv
<1> QED BY <1>2, <1>5 DEF ShapeInv

(* Every step keeps the shape. *)
LEMMA ShapeStep == ShapeInv /\ [SessionNext]_sessionVars => ShapeInv'
<1> SUFFICES ASSUME ShapeInv, [SessionNext]_sessionVars PROVE ShapeInv'
  OBVIOUS
<1>1. CASE \E p \in parties : Compress(p) \/ Store(p)
  BY <1>1, CompressShape, StoreShape
<1>2. CASE \E l \in AgentLoops : Run(l)
  BY <1>2, OpenShape, RunShape DEF Run
<1>3. CASE Die
  BY <1>3, DieShape
<1>4. CASE UNCHANGED sessionVars
  BY <1>4 DEF sessionVars, mapVars, procVars, faultVars, ShapeInv, Shape, Holding, FileWhole,
              Counts, Writing
<1> QED BY <1>1, <1>2, <1>3, <1>4 DEF SessionNext
-----------------------------------------------------------------------------
(* The state as long as nobody raced: one object, the cached one; one       *)
(* compression, whose snapshot is of that object; and a file that holds     *)
(* what was persisted and nothing that the memory does not hold too.        *)
LoadsFile ==
  \A p \in parties :
    /\ at[p] = "create" => Parsed(file) = Blank
    /\ at[p] = "miss" => snap[p] = Parsed(file)

Alone ==
  /\ \A p \in parties : mem[p] \in {table, NoMem}
  /\ table # NoMem => DOMAIN mems = {table}
  /\ table = NoMem => mems = <<>> /\ LoadsFile

OneSummary ==
  /\ \A p, q \in parties : at[p] = "summarising" /\ at[q] = "summarising" => p = q
  /\ \A p \in parties : at[p] = "summarising" => Of(snap[p], mems[mem[p]])

Contents ==
  /\ \A m \in DOMAIN mems : Good(mems[m], messages)
  /\ Good(Parsed(file), messages)
  /\ kept \subseteq ToSet(Covered(Parsed(file)))
  /\ ToSet(Covered(Parsed(file))) \subseteq ToSet(Live)

Unraced == Alone /\ OneSummary /\ Contents
SessionInv == ShapeInv /\ (~raced => Unraced)

(* Nothing happened to the conversation or its file. *)
Still == Live' = Live /\ file' = file

(* A memory that is good stays so when more messages are counted. *)
LEMMA GoodLater ==
  ASSUME NEW m \in Memory, NEW n \in Nat, NEW k \in Nat, n <= k, Good(m, n)
  PROVE  Good(m, k)
<1> DEFINE c == Covered(m)
<1>1. c \in Seq(Nat)
  BY CoveredType
<1>2. \A i \in 1 .. Len(c) : c[i] <= n
  BY DEF Good
<1> HIDE DEF c
<1>3. \A i \in 1 .. Len(c) : c[i] <= k
  <2>1. \A i \in 1 .. Len(c) : c[i] \in Nat
    BY <1>1
  <2> QED BY <1>2, <2>1
<1> QED BY <1>3 DEF Good, c

(* A step that changes no object keeps all this, when the party holds the   *)
(* cached object, and what it takes along is right.                         *)
LEMMA QuietUnraced ==
  ASSUME ShapeInv, Unraced, NEW p \in parties, NEW s, NEW v, NEW x, Moves(p, s, v, x), Quiet(p),
         x \in {table, NoMem},
         table = NoMem /\ s = "create" => Parsed(file) = Blank,
         table = NoMem /\ s = "miss" => v = Parsed(file),
         s = "summarising" => Of(v, mems[x]) /\ \A q \in parties : at[q] # "summarising"
  PROVE  Unraced' /\ Still
<1>1. /\ mems' = mems /\ table' = table /\ file' = file /\ messages' = messages /\ kept' = kept
  BY DEF Quiet, mapVars
<1>2. /\ at'[p] = s /\ snap'[p] = v /\ mem'[p] = x
      /\ \A q \in parties \ {p} : at'[q] = at[q] /\ snap'[q] = snap[q] /\ mem'[q] = mem[q]
  BY DEF Moves, ShapeInv, Shape
<1>3. Alone'
  <2>1. \A q \in parties : mem'[q] \in {table', NoMem}
    BY <1>1, <1>2 DEF Unraced, Alone
  <2>2. table' = NoMem => LoadsFile'
    BY <1>1, <1>2 DEF Unraced, Alone, LoadsFile
  <2>3. /\ table' # NoMem => DOMAIN mems' = {table'}
        /\ table' = NoMem => mems' = <<>>
    BY <1>1 DEF Unraced, Alone
  <2> QED BY <2>1, <2>2, <2>3 DEF Alone
<1>4. OneSummary'
  BY <1>1, <1>2 DEF Unraced, OneSummary
<1>5. Still
  BY <1>1 DEF Still, Live
<1>6. Contents'
  BY <1>1, <1>5 DEF Unraced, Contents, Still
<1> QED BY <1>3, <1>4, <1>5, <1>6 DEF Unraced

(* A step that changes the object keeps it, when what it puts there is good *)
(* and holds what was there.                                                *)
LEMMA ChangeUnraced ==
  ASSUME ShapeInv, Unraced, NEW p \in parties, at[p] \notin {"closed", "miss", "create"},
         NEW s, s \notin {"miss", "create", "summarising"}, NEW v, Moves(p, s, v, mem[p]),
         NEW m \in Memory, mems' = [mems EXCEPT ![mem[p]] = m], Good(m, messages'),
         messages' \in Nat, messages <= messages',
         ToSet(Covered(mems[mem[p]])) \subseteq ToSet(Covered(m)),
         \A q \in parties \ {p} : at[q] = "summarising" => Of(snap[q], m),
         UNCHANGED <<table, file, kept>>
  PROVE  Unraced' /\ Live = Covered(mems[mem[p]]) /\ Live' = Covered(m)
<1>1. mem[p] \in DOMAIN mems /\ mem[p] = table /\ table # NoMem /\ DOMAIN mems = {table}
  BY Works DEF ShapeInv, Holding, Unraced, Alone
<1>2. /\ at'[p] = s /\ mem'[p] = mem[p]
      /\ \A q \in parties \ {p} : at'[q] = at[q] /\ snap'[q] = snap[q] /\ mem'[q] = mem[q]
  BY DEF Moves, ShapeInv, Shape
<1>3. mems'[table] = m /\ DOMAIN mems' = {table} /\ table' = table /\ file' = file /\ kept' = kept
  BY <1>1
<1>4. Alone'
  BY <1>1, <1>2, <1>3 DEF Unraced, Alone
<1>5. OneSummary'
  <2>1. ASSUME NEW q \in parties, at'[q] = "summarising" PROVE Of(snap'[q], mems'[mem'[q]])
    <3>1. q \in parties \ {p} /\ at[q] = "summarising" /\ snap'[q] = snap[q] /\ mem'[q] = mem[q]
      BY <1>2, <2>1
    <3>2. mem[q] = table
      BY <3>1 DEF ShapeInv, Holding, Unraced, Alone
    <3> QED BY <1>3, <3>1, <3>2
  <2>2. \A q, r \in parties : at'[q] = "summarising" /\ at'[r] = "summarising" => q = r
    BY <1>2 DEF Unraced, OneSummary
  <2> QED BY <2>1, <2>2 DEF OneSummary
<1>6. Live = Covered(mems[mem[p]]) /\ Live' = Covered(m)
  BY <1>1, <1>3 DEF Live
<1>7. Good(Parsed(file), messages')
  <2>1. Parsed(file) \in Memory
    BY FileLoads DEF ShapeInv
  <2>2. messages \in Nat /\ Good(Parsed(file), messages)
    BY DEF ShapeInv, Shape, Unraced, Contents
  <2> QED BY <2>1, <2>2, GoodLater
<1>8. Contents'
  BY <1>3, <1>6, <1>7 DEF Unraced, Contents
<1> QED BY <1>4, <1>5, <1>6, <1>8 DEF Unraced

(* The first loop puts what the file holds into the cache. *)
LEMMA CreateUnraced ==
  ASSUME ShapeInv, Unraced, NEW l \in parties, table = NoMem, NewMem(l, Parsed(file)),
         snap' = [snap EXCEPT ![l] = NoSnap], GoOn(l, "open"), UNCHANGED <<file, messages, kept>>
  PROVE  Unraced' /\ Still
<1>1. mems = <<>> /\ \A p \in parties : mem[p] = NoMem
  BY DEF Unraced, Alone
<1>2. Parsed(file) \in Memory /\ Good(Parsed(file), messages)
  BY FileLoads DEF ShapeInv, Unraced, Contents
<1> DEFINE m == Parsed(file)
<1> HIDE DEF m
<1>3. mems' = <<m>> /\ table' = 1 /\ mem' = [mem EXCEPT ![l] = 1] /\ file' = file
  BY <1>1 DEF NewMem, Hold, m
<1>4. DOMAIN mems' = {1} /\ mems'[1] = m /\ 1 # NoMem
  BY <1>3, StoreAssumption
<1>5. \A p \in parties : mem'[p] \in {1, NoMem}
  BY <1>1, <1>3 DEF ShapeInv, Shape
<1>6. Alone'
  BY <1>3, <1>4, <1>5 DEF Alone
<1>7. \A p \in parties : at'[p] # "summarising"
  <2>1. \A p \in parties : at[p] # "summarising"
    BY <1>1 DEF ShapeInv, Holding
  <2> QED BY <2>1 DEF GoOn, ShapeInv, Shape
<1>8. OneSummary'
  BY <1>7 DEF OneSummary
<1>9. Still
  BY <1>3, <1>4 DEF Still, Live, m
<1>10. Contents'
  <2>1. Good(m, messages) /\ messages' = messages
    BY <1>2 DEF m
  <2>2. (\A i \in DOMAIN mems : Good(mems[i], messages))'
    BY <1>4, <2>1
  <2> QED BY <2>2, <1>9 DEF Contents, Unraced, Still
<1> QED BY <1>6, <1>8, <1>9, <1>10 DEF Unraced

(* Opening a session without a race changes nothing in the conversation. *)
LEMMA OpenUnraced ==
  ASSUME ShapeInv, Unraced, ~raced', NEW l \in AgentLoops,
         OpenHit(l) \/ OpenMiss(l) \/ OpenUnreadable(l) \/ StoreLoaded(l) \/ LoadOrStore(l)
  PROVE  Unraced' /\ Still
<1> USE DEF GoOn, Quiet, Stations, procVars, mapVars, faultVars
<1>0. l \in parties /\ Shape /\ Holding /\ mem[l] \in {table, NoMem}
  BY DEF parties, ShapeInv, Unraced, Alone
<1>1. CASE OpenHit(l)
  <2>1. Moves(l, "open", snap[l], table) /\ Quiet(l)
    BY <1>0, <1>1, Keeps DEF OpenHit, Moves, Shape
  <2> QED BY <1>0, <2>1, QuietUnraced
<1>2. CASE OpenMiss(l)
  <2>1. Parsed(file) \in Memory
    BY FileLoads DEF ShapeInv
  <2> DEFINE s == IF Parsed(file) = Blank THEN "create" ELSE "miss"
  <2>2. Moves(l, s, Parsed(file), mem[l]) /\ Quiet(l)
    BY <1>0, <1>2, <2>1, Keeps DEF OpenMiss, Moves, Shape, Held
  <2>3. (s = "create" => Parsed(file) = Blank) /\ s # "summarising"
    OBVIOUS
  <2> HIDE DEF s
  <2> QED BY <1>0, <2>2, <2>3, QuietUnraced
<1>3. CASE OpenUnreadable(l)
  BY <1>3 DEF OpenUnreadable
<1>4. CASE StoreLoaded(l)
  <2>1. table = NoMem /\ snap[l] = Parsed(file)
    BY <1>0, <1>4 DEF StoreLoaded, Shape, Unraced, Alone, LoadsFile
  <2> QED BY <1>0, <1>4, <2>1, CreateUnraced DEF StoreLoaded
<1>5. CASE LoadOrStore(l) /\ table = NoMem
  <2>1. Blank = Parsed(file)
    BY <1>0, <1>5 DEF LoadOrStore, Unraced, Alone, LoadsFile
  <2> QED BY <1>0, <1>5, <2>1, CreateUnraced DEF LoadOrStore
<1>6. CASE LoadOrStore(l) /\ table # NoMem
  <2>1. Moves(l, "open", NoSnap, table) /\ Quiet(l)
    BY <1>0, <1>6, Keeps DEF LoadOrStore, Moves, Shape
  <2> QED BY <1>0, <2>1, QuietUnraced
<1> QED BY <1>1, <1>2, <1>3, <1>4, <1>5, <1>6

(* The conversation grows by a message. *)
Grows == file' = file /\ \E n \in Nat : Live' = Append(Live, n)

(* An appended message replaces none. *)
LEMMA AppendedSet ==
  ASSUME NEW s \in Seq(Nat), NEW n \in Nat
  PROVE  ToSet(s) \subseteq ToSet(Append(s, n))
BY DEF ToSet

(* A run leaves the conversation alone, or makes it grow by a message. *)
LEMMA RunUnraced ==
  ASSUME ShapeInv, Unraced, NEW l \in AgentLoops, StartRun(l) \/ ContextFull(l) \/ EndRun(l)
  PROVE  Unraced' /\ (Still \/ Grows)
<1> USE DEF GoOn, Quiet, Stations, procVars, mapVars, faultVars
<1>0. l \in parties /\ Shape /\ Holding /\ mem[l] \in {table, NoMem}
  BY DEF parties, ShapeInv, Unraced, Alone
<1>1. ASSUME NEW s \in {"running", "answered"}, AppendMessage(mem[l]), GoOn(l, s),
             at[l] \in {"open", "running"},
             UNCHANGED <<table, file, mem, snap, litter, faultVars, raced, kept>>
      PROVE  Unraced' /\ Grows
  <2>1. /\ mem[l] \in DOMAIN mems /\ mems[mem[l]] \in Memory
        /\ at[l] \notin {"closed", "miss", "create"}
    BY <1>0, <1>1, Works
  <2> DEFINE c == mems[mem[l]]
             m == [c EXCEPT !.history = Append(@, messages + 1)]
  <2>2. messages \in Nat /\ messages + 1 \in Nat /\ messages' = messages + 1 /\ c \in Memory
    BY <1>0, <1>1, <2>1 DEF Shape, AppendMessage
  <2>3. mems' = [mems EXCEPT ![mem[l]] = m]
    BY <1>1 DEF AppendMessage
  <2>4. mem[l] # NoMem /\ Good(c, messages)
    BY <1>0, <2>1 DEF Holding, Unraced, Contents
  <2> HIDE DEF c
  <2>5. m \in Memory /\ Covered(m) = Append(Covered(c), messages + 1) /\ Good(m, messages + 1)
    BY <2>2, <2>4, AppendCovered, AppendGood
  <2>6. ToSet(Covered(c)) \subseteq ToSet(Covered(m))
    <3>1. Covered(c) \in Seq(Nat)
      BY <2>2, CoveredType
    <3> QED BY <2>2, <2>5, <3>1, AppendedSet
  <2>7. \A q \in parties \ {l} : at[q] = "summarising" => Of(snap[q], m)
    <3> SUFFICES ASSUME NEW q \in parties, at[q] = "summarising" PROVE Of(snap[q], m)
      OBVIOUS
    <3>1. snap[q] \in Snapshots /\ mem[q] = mem[l] /\ Of(snap[q], mems[mem[q]])
      BY <1>0, <2>4 DEF Holding, Unraced, Alone, OneSummary
    <3>2. Of(snap[q], c)
      BY <3>1 DEF c
    <3> QED BY <2>2, <3>1, <3>2, AppendOf
  <2> HIDE DEF m
  <2>8. Moves(l, s, snap[l], mem[l]) /\ s \notin {"miss", "create", "summarising"}
    <3>1. DOMAIN mems' = DOMAIN mems
      BY <2>3
    <3> QED BY <1>0, <1>1, <2>4, <3>1, Keeps DEF Moves
  <2>9. Good(m, messages') /\ messages' \in Nat /\ messages <= messages'
    BY <2>2, <2>5
  <2>10. Unraced' /\ Live = Covered(c) /\ Live' = Covered(m)
    BY <1>0, <1>1, <2>1, <2>3, <2>5, <2>6, <2>7, <2>8, <2>9, ChangeUnraced DEF c
  <2> QED BY <1>1, <2>2, <2>5, <2>10 DEF Grows
<1>2. CASE StartRun(l)
  BY <1>1, <1>2 DEF StartRun
<1>3. CASE ContextFull(l)
  <2>1. Moves(l, "full", snap[l], mem[l]) /\ Quiet(l)
    BY <1>0, <1>3, Keeps DEF ContextFull, Moves, Shape, Holding
  <2> QED BY <1>0, <2>1, QuietUnraced
<1>4. CASE EndRun(l) /\ AppendMessage(mem[l])
  BY <1>1, <1>4 DEF EndRun
<1>5. CASE EndRun(l) /\ UNCHANGED <<mems, messages>>
  <2>1. Moves(l, "answered", snap[l], mem[l]) /\ Quiet(l)
    BY <1>0, <1>5, Keeps DEF EndRun, Moves, Shape, Holding
  <2> QED BY <1>0, <2>1, QuietUnraced
<1> QED BY <1>2, <1>3, <1>4, <1>5 DEF EndRun

(* Step 1 of a compression finds nobody else compressing. *)
LEMMA SnapshotUnraced ==
  ASSUME ShapeInv, Unraced, NEW p \in parties, NEW m \in DOMAIN mems, Snapshot(p, m), ~raced'
  PROVE  Unraced' /\ Still
<1>1. m = table /\ m # NoMem /\ mem[p] \in {table, NoMem} /\ Quiet(p) /\ mems[m] \in Memory
  BY SnapshotTakes DEF Unraced, Alone
<1>2. CASE Moves(p, BackTo(p), snap[p], mem[p])
  <2>1. BackTo(p) \notin {"create", "miss", "summarising"}
    BY DEF BackTo
  <2> QED BY <1>1, <1>2, <2>1, QuietUnraced
<1>3. CASE /\ Moves(p, "summarising", Taken(mems[m]), m) /\ Enough(mems[m])
           /\ raced' = (raced \/ Summarising(m) # {})
  <2>1. \A q \in parties : at[q] # "summarising"
    <3> SUFFICES ASSUME NEW q \in parties, at[q] = "summarising" PROVE FALSE
      OBVIOUS
    <3>1. mem[q] = m
      BY <1>1 DEF Unraced, Alone, ShapeInv, Holding
    <3>2. q \in Summarising(m)
      BY <3>1 DEF Summarising
    <3> QED BY <1>3, <3>2
  <2>2. Of(Taken(mems[m]), mems[m])
    BY <1>1, <1>3, TakenOf
  <2> QED BY <1>1, <1>3, <2>1, <2>2, QuietUnraced
<1> QED BY <1>2, <1>3, SnapshotTakes

(* Step 3 of a compression does not change the conversation. *)
LEMMA InstallUnraced ==
  ASSUME ShapeInv, Unraced, NEW p \in parties, Install(p)
  PROVE  Unraced' /\ Still
<1>1. /\ at[p] = "summarising" /\ mem[p] \in DOMAIN mems /\ mems[mem[p]] \in Memory
      /\ snap[p] \in Snapshots /\ Of(snap[p], mems[mem[p]])
  BY Works DEF Install, ShapeInv, Holding, Unraced, OneSummary
<1> DEFINE c == mems[mem[p]]
           m == Installed(c, snap[p])
<1>2. mems' = [mems EXCEPT ![mem[p]] = m] /\ messages' = messages
  BY DEF Install, Installed
<1>3. Good(c, messages) /\ messages \in Nat
  BY <1>1 DEF Unraced, Contents, ShapeInv, Shape
<1>4. c \in Memory /\ Of(snap[p], c)
  BY <1>1
<1> HIDE DEF c
<1>5. m \in Memory /\ Covered(m) = Covered(c) /\ Len(m.history) >= KeepLast
  BY <1>1, <1>4, InstallCovered
<1> HIDE DEF m
<1>6. Good(m, messages')
  BY <1>2, <1>3, <1>5 DEF Good
<1>7. Moves(p, "compressed", NoSnap, mem[p])
  <2>1. DOMAIN mems' = DOMAIN mems
    BY <1>2
  <2> QED BY <1>1, <2>1, EndMoves DEF Install
<1>8. \A q \in parties \ {p} : at[q] = "summarising" => Of(snap[q], m)
  BY <1>1 DEF Unraced, OneSummary
<1>9. UNCHANGED <<table, file, kept>>
  BY DEF Install
<1>10. Unraced' /\ Live = Covered(c) /\ Live' = Covered(m)
  <2>1. ToSet(Covered(c)) \subseteq ToSet(Covered(m)) /\ messages <= messages' /\ messages' \in Nat
    BY <1>2, <1>3, <1>5
  <2> QED BY <1>1, <1>2, <1>5, <1>6, <1>7, <1>8, <1>9, <2>1, ChangeUnraced DEF c
<1> QED BY <1>5, <1>9, <1>10 DEF Still

(* No step of a compression does. *)
LEMMA CompressUnraced ==
  ASSUME ShapeInv, Unraced, NEW p \in parties, Compress(p), ~raced'
  PROVE  Unraced' /\ Still
<1>1. CASE SummariseFails(p)
  <2>1. Moves(p, BackTo(p), NoSnap, mem[p]) /\ Quiet(p)
    BY <1>1, EndMoves DEF SummariseFails, Quiet, mapVars
  <2>2. BackTo(p) \notin {"create", "miss", "summarising"} /\ mem[p] \in {table, NoMem}
    BY DEF BackTo, Unraced, Alone
  <2> QED BY <2>1, <2>2, QuietUnraced
<1> QED BY <1>1, SnapshotUnraced, InstallUnraced DEF Compress

(* The conversation is in the file. *)
Saves == Live' = Live /\ Covered(Parsed(file))' = Live

(* The rename of a Persist puts the conversation into the file. *)
LEMMA RenameUnraced ==
  ASSUME ShapeInv, Unraced, NEW p \in parties, Rename(p)
  PROVE  Unraced' /\ Saves
<1>1. /\ at[p] = "writing" /\ mem[p] = table /\ table # NoMem /\ DOMAIN mems = {table}
      /\ mems[table] \in Memory
  BY Works DEF Rename, ShapeInv, Holding, Unraced, Alone
<1>2. /\ file' = Events(mems[table]) /\ mems' = mems /\ table' = table /\ messages' = messages
      /\ kept' \subseteq kept \cup ToSet(Covered(mems[table]))
  BY <1>1 DEF Rename, mapVars
<1>3. Parsed(file)' = mems[table]
  BY <1>1, <1>2, ParsedEvents
<1>4. Live = Covered(mems[table]) /\ Live' = Live
  BY <1>1, <1>2 DEF Live
<1>5. PICK s, x : /\ Moves(p, s, NoSnap, x) /\ s \notin {"create", "miss", "summarising"}
                  /\ x \in {table, NoMem}
  BY <1>1, <1>2, EndMoves DEF Rename, BackTo
<1>6. /\ at'[p] = s /\ snap'[p] = NoSnap /\ mem'[p] = x
      /\ \A q \in parties \ {p} : at'[q] = at[q] /\ snap'[q] = snap[q] /\ mem'[q] = mem[q]
  BY <1>5 DEF Moves, ShapeInv, Shape
<1>7. Alone'
  BY <1>1, <1>2, <1>5, <1>6 DEF Alone, Unraced
<1>8. OneSummary'
  BY <1>2, <1>5, <1>6 DEF OneSummary, Unraced
<1>9. Good(mems[table], messages)
  BY <1>1 DEF Unraced, Contents
<1>10. Contents'
  <2>1. Good(Parsed(file)', messages')
    BY <1>2, <1>3, <1>9
  <2>2. kept' \subseteq ToSet(Covered(mems[table]))
    BY <1>2, <1>4 DEF Unraced, Contents
  <2>3. (\A m \in DOMAIN mems : Good(mems[m], messages))'
    BY <1>2 DEF Unraced, Contents
  <2> QED BY <1>3, <1>4, <2>1, <2>2, <2>3 DEF Contents
<1> QED BY <1>3, <1>4, <1>7, <1>8, <1>10 DEF Unraced, Saves

(* The other steps of a Persist change nothing. *)
LEMMA StoreUnraced ==
  ASSUME ShapeInv, Unraced, NEW p \in parties, Store(p)
  PROVE  Unraced' /\ (Still \/ Saves)
<1> USE DEF Quiet, mapVars, faultVars
<1>0. Shape /\ mem[p] \in {table, NoMem}
  BY DEF ShapeInv, Unraced, Alone
<1>1. CASE BeginPersist(p)
  <2>1. at[p] \in Held /\ mem[p] # NoMem
    BY <1>1 DEF BeginPersist, Held, ShapeInv, Holding
  <2>2. Moves(p, "writing", at[p], mem[p]) /\ Quiet(p)
    BY <1>0, <1>1, <2>1, Keeps DEF BeginPersist, Moves, GoOn, Stations, Shape
  <2> QED BY <1>0, <2>2, QuietUnraced
<1>2. CASE PersistBreaks(p)
  <2>1. PICK s, x : /\ Moves(p, s, NoSnap, x) /\ s \notin {"create", "miss", "summarising"}
                    /\ x \in {table, NoMem}
    BY <1>0, <1>2, EndMoves DEF PersistBreaks, BackTo
  <2>2. Quiet(p)
    BY <1>2 DEF PersistBreaks
  <2> QED BY <2>1, <2>2, QuietUnraced
<1> QED BY <1>1, <1>2, RenameUnraced DEF Store

(* The conversation is back to what the file holds. *)
Restarts == file' = file /\ Live' = Covered(Parsed(file))

(* A crash takes the conversation back to the file. *)
LEMMA DieUnraced ==
  ASSUME ShapeInv, Unraced, Die
  PROVE  Unraced' /\ Restarts
<1> USE DEF Die
<1>1. Alone' /\ OneSummary'
  BY DEF Alone, LoadsFile, OneSummary
<1>2. Restarts
  BY DEF Restarts, Live
<1>3. DOMAIN mems' = {}
  OBVIOUS
<1>4. Contents'
  BY <1>2, <1>3 DEF Contents, Unraced, Restarts
<1> QED BY <1>1, <1>2, <1>4 DEF Unraced

(* Every step, as long as nobody raced. *)
LEMMA UnracedStep ==
  ASSUME ShapeInv, Unraced, [SessionNext]_sessionVars, ~raced'
  PROVE  Unraced' /\ (Still \/ Grows \/ Saves \/ Restarts)
<1>1. CASE \E p \in parties : Compress(p) \/ Store(p)
  BY <1>1, CompressUnraced, StoreUnraced
<1>2. CASE \E l \in AgentLoops : Run(l)
  BY <1>2, OpenUnraced, RunUnraced DEF Run
<1>3. CASE Die
  BY <1>3, DieUnraced
<1>4. CASE UNCHANGED sessionVars
  <2>1. UNCHANGED <<mems, table, file, at, mem, snap, messages, kept>>
    BY <1>4 DEF sessionVars, mapVars, procVars
  <2>2. Still
    BY <2>1 DEF Still, Live
  <2>3. Alone' /\ OneSummary'
    BY <2>1 DEF Unraced, Alone, LoadsFile, OneSummary
  <2>4. Contents'
    BY <2>1, <2>2 DEF Unraced, Contents, Still
  <2> QED BY <2>2, <2>3, <2>4 DEF Unraced
<1> QED BY <1>1, <1>2, <1>3, <1>4 DEF SessionNext

(* A race is remembered. *)
LEMMA RacedStays ==
  ASSUME ShapeInv, [SessionNext]_sessionVars, raced
  PROVE  raced'
<1>1. ASSUME NEW p \in parties, Compress(p) PROVE raced'
  <2>1. ASSUME NEW m \in DOMAIN mems, Snapshot(p, m) PROVE raced'
    BY <2>1, SnapshotTakes
  <2> QED BY <1>1, <2>1 DEF Compress, SummariseFails, Install
<1>2. ASSUME NEW p \in parties, Store(p) PROVE raced'
  BY <1>2 DEF Store, BeginPersist, Rename, PersistBreaks
<1>3. ASSUME NEW l \in AgentLoops, Run(l) PROVE raced'
  BY <1>3 DEF Run, OpenHit, OpenMiss, OpenUnreadable, StoreLoaded, LoadOrStore, StartRun,
              ContextFull, EndRun
<1>4. CASE Die
  BY <1>4 DEF Die
<1>5. CASE UNCHANGED sessionVars
  BY <1>5 DEF sessionVars
<1> QED BY <1>1, <1>2, <1>3, <1>4, <1>5 DEF SessionNext

(* A new session stands for no message. *)
LEMMA NothingSaid == Covered(Blank) = <<>> /\ \A n \in Nat : Good(Blank, n)
<1>1. Blank.summary = <<>> /\ Blank.history = <<>>
  BY DEF Blank
<1>2. Covered(Blank) = <<>>
  BY <1>1 DEF Covered
<1> QED BY <1>1, <1>2 DEF Good, Increasing

(* The invariant holds at the start. *)
LEMMA SessionInitInv == SessionInit => SessionInv
<1> SUFFICES ASSUME SessionInit PROVE ShapeInv /\ Unraced
  BY DEF SessionInv
<1> USE DEF SessionInit
<1>1. Parsed(file) = Blank /\ Live = Covered(Blank)
  BY ParsedNothing DEF Live
<1>2. Alone /\ OneSummary
  BY DEF Alone, LoadsFile, OneSummary
<1>3. DOMAIN mems = {}
  OBVIOUS
<1>4. Contents
  BY <1>1, <1>3, NothingSaid DEF Contents
<1> QED BY <1>2, <1>4, ShapeInit DEF Unraced

(* Every step keeps the invariant. *)
LEMMA SessionStep == SessionInv /\ [SessionNext]_sessionVars => SessionInv'
<1> SUFFICES ASSUME SessionInv, [SessionNext]_sessionVars PROVE SessionInv'
  OBVIOUS
<1>1. ShapeInv'
  BY ShapeStep DEF SessionInv
<1>2. ~raced' => Unraced'
  BY RacedStays, UnracedStep DEF SessionInv
<1> QED BY <1>1, <1>2 DEF SessionInv

(* The invariant always holds. *)
LEMMA SessionAlways == SessionSpec => []SessionInv
BY SessionInitInv, SessionStep, PTL DEF SessionSpec
-----------------------------------------------------------------------------
(* The session of every run (session_memory.go, session.go): what a run has *)
(* persisted stays, one object serves all loops, a compression summarises   *)
(* only what lies before the last KeepLast messages, in order.              *)
THEOREM SessionIsKept == SessionSpec => []SessionKept
<1>1. SessionInv => SessionKept
  <2> SUFFICES ASSUME SessionInv PROVE SessionKept
    OBVIOUS
  <2>1. SessionTypeOK
    BY OneWriter DEF SessionInv, ShapeInv, Shape, Holding, Counts, SessionTypeOK
  <2>2. OneInstance
    BY DEF SessionInv, Unraced, Alone, OneInstance, parties
  <2>3. RecentVerbatim
    BY DEF SessionInv, Unraced, Contents, Good, RecentVerbatim
  <2>4. PersistedSurvives
    BY DEF SessionInv, Unraced, Contents, PersistedSurvives
  <2> QED BY <2>1, <2>2, <2>3, <2>4 DEF SessionKept
<1> QED BY <1>1, SessionAlways, PTL

(* The memory and its JSONL file, with compression, failing writes and      *)
(* crashes, implement SessionLog: the conversation only grows, a save keeps *)
(* all of it, and a restart comes back to the last save.                    *)
THEOREM ImplementsLog == SessionSpec => LogSpec
<1>1. SessionInit => Log!Init
  <2> SUFFICES ASSUME SessionInit PROVE Log!Init
    OBVIOUS
  <2>1. Parsed(file) = Blank /\ table = NoMem /\ raced = FALSE
    BY ParsedNothing DEF SessionInit
  <2> QED BY <2>1, NothingSaid DEF Log!Init, Live
<1>2. ASSUME SessionInv, [SessionNext]_sessionVars PROVE [Log!Next]_Log!vars
  <2>1. CASE raced'
    BY <2>1 DEF Log!Next
  <2>2. CASE ~raced'
    <3>1. ShapeInv /\ Unraced /\ ~raced /\ raced' = raced
      BY <1>2, <2>2, RacedStays, ShapeStep DEF SessionInv, ShapeInv, Shape
    <3>2. Still \/ Grows \/ Saves \/ Restarts
      BY <1>2, <2>2, <3>1, UnracedStep
    <3>3. CASE Still
      BY <3>1, <3>3 DEF Still, Log!vars
    <3>4. CASE Grows
      <4>1. Live \in Seq(Nat)
        <5>1. Parsed(file) \in Memory /\ (table # NoMem => mems[table] \in Memory)
          BY <3>1, FileLoads DEF ShapeInv, Shape
        <5>2. Covered(Parsed(file)) \in Seq(Nat) /\ (table # NoMem => Covered(mems[table]) \in Seq(Nat))
          BY <5>1, CoveredType
        <5> QED BY <5>2 DEF Live
      <4>2. PICK n \in Nat : Live' = Append(Live, n)
        BY <3>4 DEF Grows
      <4>3. Len(Live') = Len(Live) + 1 /\ SubSeq(Live', 1, Len(Live)) = Live
        BY <4>1, <4>2
      <4>4. Covered(Parsed(file))' = Covered(Parsed(file))
        BY <3>4 DEF Grows
      <4> QED BY <4>3, <4>4 DEF Log!Next, Log!Grow
    <3>5. CASE Saves
      BY <3>5 DEF Saves, Log!Next, Log!Save
    <3>6. CASE Restarts
      BY <3>6 DEF Restarts, Log!Next, Log!Restart
    <3> QED BY <3>2, <3>3, <3>4, <3>5, <3>6
  <2> QED BY <2>1, <2>2
<1> QED BY <1>1, <1>2, SessionAlways, PTL DEF SessionSpec, LogSpec, Log!Spec

-----------------------------------------------------------------------------
(***************************************************************************)
(* The ACP server: the sessions do not disturb each other.                  *)
(***************************************************************************)

Roles == {"user", "assistant"}
Stages == {"unsent", "sent", "began", "step", "model", "asking", "waiting",
           "appendUser", "appendReply", "ended"}

Types ==
  /\ exists \in SUBSET Sessions /\ history \in [Sessions -> Seq(Prompts \X Roles)]
  /\ cancelFn \in [Sessions -> Prompts \cup {None}]
  /\ of \in [Prompts -> Sessions \cup {None}] /\ stage \in [Prompts -> Stages]
  /\ answer \in [Prompts -> Answers \cup {None}]
  /\ hooks \in Prompts \cup {None} /\ by \in [Prompts -> Prompts \cup {None}]
  /\ isWaiting \in BOOLEAN /\ responseCh \in BOOLEAN /\ resumers \in [Prompts -> Nat]
  /\ questions \in 0 .. MaxQuestions /\ cancelled \in SUBSET Prompts /\ wanted \in SUBSET Prompts

(* The steps of the ReAct loop. *)
Loop == {"step", "model", "asking", "waiting"}

(* A prompt has a session once it is sent and an answer once it has ended,  *)
(* its loop runs with somebody's hooks, and every question has at most one  *)
(* goroutine that answers it.                                               *)
Placed ==
  /\ \A p \in Prompts : /\ of[p] = None <=> stage[p] = "unsent"
                        /\ answer[p] # None <=> stage[p] = "ended"
                        /\ stage[p] \in Loop => hooks # None
                        /\ resumers[p] <= questions
  /\ \A s \in Sessions : cancelFn[s] # None => of[cancelFn[s]] = s
  /\ \A u \in updates : u[1] \in Prompts /\ stage[u[1]] # "unsent"

(* Until prompts overlap, the one in flight has the agent to itself. *)
Shared ==
  /\ \A p, q \in InFlight : p = q
  /\ \A p \in Prompts : /\ stage[p] \in Loop => hooks = p
                        /\ stage[p] = "model" => by[p] = p
  /\ isWaiting => \E p \in Prompts : stage[p] = "waiting"
  /\ \A u \in updates : u[2] = of[u[1]]

(* Until two prompts are in flight on a session, the one that is can be     *)
(* cancelled from where it begins.                                          *)
OneAtATime ==
  /\ \A p, q \in InFlight : of[p] = of[q] => p = q
  /\ \A p \in InFlight : stage[p] # "sent" => cancelFn[of[p]] = p

Reached == wanted \subseteq cancelled

(* The history of s, in terms of the prompts on it. *)
Ended(s)  == {p \in Prompts : of[p] = s /\ answer[p] = "end_turn"}
Half(s)   == {p \in Prompts : of[p] = s /\ stage[p] = "appendReply"}
Paired(h) ==
  /\ \A i \in DOMAIN h : h[i][2] = IF i % 2 = 1 THEN "user" ELSE "assistant"
  /\ \A i \in DOMAIN h : i % 2 = 0 => h[i][1] = h[i - 1][1]
Writers(h) == {h[i][1] : i \in DOMAIN h}
Told(s) ==
  /\ Paired(history[s]) /\ Writers(history[s]) = Ended(s) \cup Half(s)
  /\ Len(history[s]) = 2 * Cardinality(Ended(s)) + Cardinality(Half(s))
  /\ \A p \in Half(s) : Len(history[s]) > 0 /\ history[s][Len(history[s])][1] = p
Histories ==
  \A s \in Sessions : /\ s \in exists => Told(s)
                      /\ (\A p \in Prompts : of[p] # s) => history[s] = <<>>

AcpInv ==
  /\ Types /\ Placed
  /\ ~Mishap({"overlap"}) => Shared
  /\ ~Mishap({"sameSession"}) => OneAtATime /\ Histories
  /\ ~Mishap({"missed", "sameSession"}) => Reached
-----------------------------------------------------------------------------
(* What every step keeps, one part of the invariant after the other. *)

(* The types. *)
LEMMA TypesStep ==
  ASSUME Types, Placed, [AcpServerNext]_acpServerVars
  PROVE  Types'
<1> USE DEF acpServerVars, sessVars, agentVars, histVars, Proceed, Reply, Types, Placed, Loop,
   Stages, Roles, Answers
<1>1. ASSUME NEW s \in Sessions, New(s) PROVE Types'
  BY <1>1 DEF New
<1>2. ASSUME NEW s \in Sessions, Cancel(s) PROVE Types'
  BY <1>2 DEF Cancel, InFlight
<1>3. ASSUME NEW s \in Sessions, Delete(s) PROVE Types'
  BY <1>3 DEF Delete
<1>4. ASSUME NEW p \in Prompts, NEW s \in Sessions, Send(p, s) PROVE Types'
  BY <1>4 DEF Send
<1>5. ASSUME NEW p \in Prompts, Begin(p) PROVE Types'
  BY <1>5 DEF Begin
<1>6. ASSUME NEW p \in Prompts, NotFound(p) PROVE Types'
  BY <1>6 DEF NotFound
<1>7. ASSUME NEW p \in Prompts, Hook(p) PROVE Types'
  BY <1>7 DEF Hook
<1>8. ASSUME NEW p \in Prompts, CallModel(p) PROVE Types'
  BY <1>8 DEF CallModel
<1>9. ASSUME NEW p \in Prompts, Ask(p) PROVE Types'
  <2>1. questions + 1 \in 0 .. MaxQuestions
    BY <1>9, AcpAssumption DEF Ask
  <2>2. hooks \in Prompts
    <3>1. stage[p] = "model"
      BY <1>9 DEF Ask
    <3> QED BY <3>1
  <2>3. resumers[hooks] + 1 \in Nat
    BY <2>2
  <2> QED BY <1>9, <2>1, <2>3 DEF Ask
<1>10. ASSUME NEW p \in Prompts, Finish(p) PROVE Types'
  BY <1>10 DEF Finish
<1>11. ASSUME NEW p \in Prompts, Arm(p) PROVE Types'
  BY <1>11 DEF Arm
<1>12. ASSUME NEW p \in Prompts, Wake(p) PROVE Types'
  BY <1>12 DEF Wake
<1>13. ASSUME NEW p \in Prompts, Abort(p) PROVE Types'
  BY <1>13 DEF Abort
<1>14. ASSUME NEW p \in Prompts, Fail(p) PROVE Types'
  BY <1>14 DEF Fail
<1>15. ASSUME NEW p \in Prompts, AppendUser(p) PROVE Types'
  <2>1. Appended(p, "user") \in [Sessions -> Seq(Prompts \X Roles)]
    BY DEF Appended
  <2> QED BY <1>15, <2>1 DEF AppendUser
<1>16. ASSUME NEW p \in Prompts, AppendReply(p) PROVE Types'
  <2>1. Appended(p, "assistant") \in [Sessions -> Seq(Prompts \X Roles)]
    BY DEF Appended
  <2> QED BY <1>16, <2>1 DEF AppendReply
<1>17. ASSUME NEW p \in Prompts, Resume(p) PROVE Types'
  <2>1. resumers[p] - 1 \in Nat
    BY <1>17 DEF Resume
  <2> QED BY <1>17, <2>1 DEF Resume
<1>18. CASE UNCHANGED acpServerVars
  BY <1>18
<1> QED BY <1>1, <1>2, <1>3, <1>4, <1>5, <1>6, <1>7, <1>8, <1>9, <1>10, <1>11, <1>12, <1>13,
   <1>14, <1>15, <1>16, <1>17, <1>18 DEF AcpServerNext, Client, Handler

(* Where the prompts are. *)
LEMMA PlacedStep ==
  ASSUME Types, Placed, [AcpServerNext]_acpServerVars
  PROVE  Placed'
<1> USE DEF acpServerVars, sessVars, agentVars, histVars, Proceed, Reply, Types, Placed, Loop,
   Stages, Answers
<1>1. ASSUME NEW s \in Sessions, New(s) PROVE Placed'
  BY <1>1 DEF New
<1>2. ASSUME NEW s \in Sessions, Cancel(s) PROVE Placed'
  BY <1>2 DEF Cancel
<1>3. ASSUME NEW s \in Sessions, Delete(s) PROVE Placed'
  BY <1>3 DEF Delete
<1>4. ASSUME NEW p \in Prompts, NEW s \in Sessions, Send(p, s) PROVE Placed'
  <2>1. /\ stage[p] = "unsent" /\ of' = [of EXCEPT ![p] = s]
        /\ stage' = [stage EXCEPT ![p] = "sent"] /\ s # None
        /\ UNCHANGED <<answer, hooks, resumers, questions, cancelFn, updates>>
    BY <1>4, AcpAssumption DEF Send
  <2>2. of[p] = None /\ \A t \in Sessions : cancelFn[t] # None => cancelFn[t] # p
    BY <2>1, AcpAssumption
  <2> QED BY <2>1, <2>2
<1>5. ASSUME NEW p \in Prompts, Begin(p) PROVE Placed'
  BY <1>5 DEF Begin
<1>6. ASSUME NEW p \in Prompts, NotFound(p) PROVE Placed'
  BY <1>6, AcpAssumption DEF NotFound
<1>7. ASSUME NEW p \in Prompts, Hook(p) PROVE Placed'
  BY <1>7, AcpAssumption DEF Hook
<1>8. ASSUME NEW p \in Prompts, CallModel(p) PROVE Placed'
  BY <1>8 DEF CallModel
<1>9. ASSUME NEW p \in Prompts, Ask(p) PROVE Placed'
  BY <1>9 DEF Ask
<1>10. ASSUME NEW p \in Prompts, Finish(p) PROVE Placed'
  BY <1>10 DEF Finish
<1>11. ASSUME NEW p \in Prompts, Arm(p) PROVE Placed'
  BY <1>11 DEF Arm
<1>12. ASSUME NEW p \in Prompts, Wake(p) PROVE Placed'
  BY <1>12 DEF Wake
<1>13. ASSUME NEW p \in Prompts, Abort(p) PROVE Placed'
  BY <1>13, AcpAssumption DEF Abort
<1>14. ASSUME NEW p \in Prompts, Fail(p) PROVE Placed'
  BY <1>14, AcpAssumption DEF Fail
<1>15. ASSUME NEW p \in Prompts, AppendUser(p) PROVE Placed'
  BY <1>15 DEF AppendUser, Appended
<1>16. ASSUME NEW p \in Prompts, AppendReply(p) PROVE Placed'
  BY <1>16, AcpAssumption DEF AppendReply, Appended
<1>17. ASSUME NEW p \in Prompts, Resume(p) PROVE Placed'
  BY <1>17 DEF Resume
<1>18. CASE UNCHANGED acpServerVars
  BY <1>18
<1> QED BY <1>1, <1>2, <1>3, <1>4, <1>5, <1>6, <1>7, <1>8, <1>9, <1>10, <1>11, <1>12, <1>13,
   <1>14, <1>15, <1>16, <1>17, <1>18 DEF AcpServerNext, Client, Handler

(* What went wrong is remembered. *)
LEMMA MishapsStay ==
  ASSUME [AcpServerNext]_acpServerVars
  PROVE  mishaps \subseteq mishaps'
<1> USE DEF acpServerVars, sessVars, agentVars, histVars, Proceed, Reply, Mishap
<1>1. ASSUME NEW s \in Sessions, New(s) PROVE mishaps \subseteq mishaps'
  BY <1>1 DEF New
<1>2. ASSUME NEW s \in Sessions, Cancel(s) PROVE mishaps \subseteq mishaps'
  BY <1>2 DEF Cancel
<1>3. ASSUME NEW s \in Sessions, Delete(s) PROVE mishaps \subseteq mishaps'
  BY <1>3 DEF Delete
<1>4. ASSUME NEW p \in Prompts, NEW s \in Sessions, Send(p, s) PROVE mishaps \subseteq mishaps'
  BY <1>4 DEF Send
<1>5. ASSUME NEW p \in Prompts, Begin(p) PROVE mishaps \subseteq mishaps'
  BY <1>5 DEF Begin
<1>6. ASSUME NEW p \in Prompts, NotFound(p) PROVE mishaps \subseteq mishaps'
  BY <1>6 DEF NotFound
<1>7. ASSUME NEW p \in Prompts, Hook(p) PROVE mishaps \subseteq mishaps'
  BY <1>7 DEF Hook
<1>8. ASSUME NEW p \in Prompts, CallModel(p) PROVE mishaps \subseteq mishaps'
  BY <1>8 DEF CallModel
<1>9. ASSUME NEW p \in Prompts, Ask(p) PROVE mishaps \subseteq mishaps'
  BY <1>9 DEF Ask
<1>10. ASSUME NEW p \in Prompts, Finish(p) PROVE mishaps \subseteq mishaps'
  BY <1>10 DEF Finish
<1>11. ASSUME NEW p \in Prompts, Arm(p) PROVE mishaps \subseteq mishaps'
  BY <1>11 DEF Arm
<1>12. ASSUME NEW p \in Prompts, Wake(p) PROVE mishaps \subseteq mishaps'
  BY <1>12 DEF Wake
<1>13. ASSUME NEW p \in Prompts, Abort(p) PROVE mishaps \subseteq mishaps'
  BY <1>13 DEF Abort
<1>14. ASSUME NEW p \in Prompts, Fail(p) PROVE mishaps \subseteq mishaps'
  BY <1>14 DEF Fail
<1>15. ASSUME NEW p \in Prompts, AppendUser(p) PROVE mishaps \subseteq mishaps'
  BY <1>15 DEF AppendUser, Appended
<1>16. ASSUME NEW p \in Prompts, AppendReply(p) PROVE mishaps \subseteq mishaps'
  BY <1>16 DEF AppendReply, Appended
<1>17. ASSUME NEW p \in Prompts, Resume(p) PROVE mishaps \subseteq mishaps'
  BY <1>17 DEF Resume
<1>18. CASE UNCHANGED acpServerVars
  BY <1>18
<1> QED BY <1>1, <1>2, <1>3, <1>4, <1>5, <1>6, <1>7, <1>8, <1>9, <1>10, <1>11, <1>12, <1>13,
   <1>14, <1>15, <1>16, <1>17, <1>18 DEF AcpServerNext, Client, Handler

(* One prompt has the agent. *)
LEMMA SharedStep ==
  ASSUME Types, Placed, Shared, [AcpServerNext]_acpServerVars, ~Mishap({"overlap"})'
  PROVE  Shared'
<1> USE DEF acpServerVars, sessVars, agentVars, histVars, Proceed, Reply, Types, Placed, Shared,
   Loop, InFlight, Mishap
<1>1. ASSUME NEW s \in Sessions, New(s) PROVE Shared'
  BY <1>1 DEF New
<1>2. ASSUME NEW s \in Sessions, Cancel(s) PROVE Shared'
  BY <1>2 DEF Cancel
<1>3. ASSUME NEW s \in Sessions, Delete(s) PROVE Shared'
  BY <1>3 DEF Delete
<1>4. ASSUME NEW p \in Prompts, NEW s \in Sessions, Send(p, s) PROVE Shared'
  BY <1>4 DEF Send
<1>5. ASSUME NEW p \in Prompts, Begin(p) PROVE Shared'
  BY <1>5 DEF Begin
<1>6. ASSUME NEW p \in Prompts, NotFound(p) PROVE Shared'
  BY <1>6 DEF NotFound
<1>7. ASSUME NEW p \in Prompts, Hook(p) PROVE Shared'
  <2>1. stage[p] = "began" /\ hooks' = p /\ stage' = [stage EXCEPT ![p] = "step"]
    BY <1>7 DEF Hook
  <2>2. \A q \in Prompts : q # p => stage[q] \notin Loop
    BY <2>1
  <2> QED BY <1>7, <2>1, <2>2 DEF Hook
<1>8. ASSUME NEW p \in Prompts, CallModel(p) PROVE Shared'
  BY <1>8 DEF CallModel
<1>9. ASSUME NEW p \in Prompts, Ask(p) PROVE Shared'
  <2>1. of' = of /\ updates' = updates \cup {<<p, of[p]>>}
    <3>1. stage[p] = "model" /\ of' = of /\ updates' = updates \cup {<<p, of[by[p]]>>}
      BY <1>9 DEF Ask
    <3>2. by[p] = p
      BY <3>1
    <3> QED BY <3>1, <3>2
  <2>2. \A u \in updates' : u[2] = of'[u[1]]
    BY <2>1
  <2> QED BY <1>9, <2>2 DEF Ask
<1>10. ASSUME NEW p \in Prompts, Finish(p) PROVE Shared'
  <2>1. of' = of /\ updates' = updates \cup {<<p, of[p]>>}
    <3>1. stage[p] = "model" /\ of' = of /\ updates' = updates \cup {<<p, of[by[p]]>>}
      BY <1>10 DEF Finish
    <3>2. by[p] = p
      BY <3>1
    <3> QED BY <3>1, <3>2
  <2>2. \A u \in updates' : u[2] = of'[u[1]]
    BY <2>1
  <2> QED BY <1>10, <2>2 DEF Finish
<1>11. ASSUME NEW p \in Prompts, Arm(p) PROVE Shared'
  BY <1>11 DEF Arm
<1>12. ASSUME NEW p \in Prompts, Wake(p) PROVE Shared'
  BY <1>12 DEF Wake
<1>13. ASSUME NEW p \in Prompts, Abort(p) PROVE Shared'
  BY <1>13 DEF Abort
<1>14. ASSUME NEW p \in Prompts, Fail(p) PROVE Shared'
  BY <1>14 DEF Fail
<1>15. ASSUME NEW p \in Prompts, AppendUser(p) PROVE Shared'
  BY <1>15 DEF AppendUser, Appended
<1>16. ASSUME NEW p \in Prompts, AppendReply(p) PROVE Shared'
  BY <1>16 DEF AppendReply, Appended
<1>17. ASSUME NEW p \in Prompts, Resume(p) PROVE Shared'
  BY <1>17 DEF Resume
<1>18. CASE UNCHANGED acpServerVars
  BY <1>18
<1> QED BY <1>1, <1>2, <1>3, <1>4, <1>5, <1>6, <1>7, <1>8, <1>9, <1>10, <1>11, <1>12, <1>13,
   <1>14, <1>15, <1>16, <1>17, <1>18 DEF AcpServerNext, Client, Handler

(* One prompt has the session. *)
LEMMA AloneStep ==
  ASSUME Types, Placed, OneAtATime, [AcpServerNext]_acpServerVars, ~Mishap({"sameSession"})'
  PROVE  OneAtATime'
<1> USE DEF acpServerVars, sessVars, agentVars, histVars, Proceed, Reply, Types, Placed, OneAtATime,
   InFlight, Mishap
<1>1. ASSUME NEW s \in Sessions, New(s) PROVE OneAtATime'
  BY <1>1 DEF New
<1>2. ASSUME NEW s \in Sessions, Cancel(s) PROVE OneAtATime'
  BY <1>2 DEF Cancel
<1>3. ASSUME NEW s \in Sessions, Delete(s) PROVE OneAtATime'
  BY <1>3 DEF Delete
<1>4. ASSUME NEW p \in Prompts, NEW s \in Sessions, Send(p, s) PROVE OneAtATime'
  BY <1>4 DEF Send
<1>5. ASSUME NEW p \in Prompts, Begin(p) PROVE OneAtATime'
  BY <1>5 DEF Begin
<1>6. ASSUME NEW p \in Prompts, NotFound(p) PROVE OneAtATime'
  BY <1>6 DEF NotFound
<1>7. ASSUME NEW p \in Prompts, Hook(p) PROVE OneAtATime'
  BY <1>7 DEF Hook
<1>8. ASSUME NEW p \in Prompts, CallModel(p) PROVE OneAtATime'
  BY <1>8 DEF CallModel
<1>9. ASSUME NEW p \in Prompts, Ask(p) PROVE OneAtATime'
  BY <1>9 DEF Ask
<1>10. ASSUME NEW p \in Prompts, Finish(p) PROVE OneAtATime'
  BY <1>10 DEF Finish
<1>11. ASSUME NEW p \in Prompts, Arm(p) PROVE OneAtATime'
  BY <1>11 DEF Arm
<1>12. ASSUME NEW p \in Prompts, Wake(p) PROVE OneAtATime'
  BY <1>12 DEF Wake
<1>13. ASSUME NEW p \in Prompts, Abort(p) PROVE OneAtATime'
  BY <1>13 DEF Abort
<1>14. ASSUME NEW p \in Prompts, Fail(p) PROVE OneAtATime'
  BY <1>14 DEF Fail
<1>15. ASSUME NEW p \in Prompts, AppendUser(p) PROVE OneAtATime'
  BY <1>15 DEF AppendUser, Appended
<1>16. ASSUME NEW p \in Prompts, AppendReply(p) PROVE OneAtATime'
  BY <1>16 DEF AppendReply, Appended
<1>17. ASSUME NEW p \in Prompts, Resume(p) PROVE OneAtATime'
  BY <1>17 DEF Resume
<1>18. CASE UNCHANGED acpServerVars
  BY <1>18
<1> QED BY <1>1, <1>2, <1>3, <1>4, <1>5, <1>6, <1>7, <1>8, <1>9, <1>10, <1>11, <1>12, <1>13,
   <1>14, <1>15, <1>16, <1>17, <1>18 DEF AcpServerNext, Client, Handler

(* Cancels reach it. *)
LEMMA ReachedStep ==
  ASSUME Types, Placed, OneAtATime, Reached, [AcpServerNext]_acpServerVars, ~Mishap({"missed", "sameSession"})'
  PROVE  Reached'
<1> USE DEF acpServerVars, sessVars, agentVars, histVars, Proceed, Reply, Types, Placed, OneAtATime,
   Reached, InFlight, Mishap
<1>1. ASSUME NEW s \in Sessions, New(s) PROVE Reached'
  BY <1>1 DEF New
<1>2. ASSUME NEW s \in Sessions, Cancel(s) PROVE Reached'
  <2>1. ~\E p \in InFlight : of[p] = s /\ stage[p] = "sent"
    BY <1>2 DEF Cancel
  <2>2. \A p \in InFlight : of[p] = s => p = cancelFn[s]
    BY <2>1
  <2>3. /\ cancelled' = cancelled \cup ({cancelFn[s]} \cap InFlight)
        /\ wanted' = wanted \cup {p \in InFlight : of[p] = s}
    BY <1>2 DEF Cancel
  <2>4. {p \in InFlight : of[p] = s} \subseteq {cancelFn[s]} \cap InFlight
    BY <2>2
  <2> HIDE DEF InFlight
  <2> QED BY <2>3, <2>4
<1>3. ASSUME NEW s \in Sessions, Delete(s) PROVE Reached'
  BY <1>3 DEF Delete
<1>4. ASSUME NEW p \in Prompts, NEW s \in Sessions, Send(p, s) PROVE Reached'
  BY <1>4 DEF Send
<1>5. ASSUME NEW p \in Prompts, Begin(p) PROVE Reached'
  BY <1>5 DEF Begin
<1>6. ASSUME NEW p \in Prompts, NotFound(p) PROVE Reached'
  BY <1>6 DEF NotFound
<1>7. ASSUME NEW p \in Prompts, Hook(p) PROVE Reached'
  BY <1>7 DEF Hook
<1>8. ASSUME NEW p \in Prompts, CallModel(p) PROVE Reached'
  BY <1>8 DEF CallModel
<1>9. ASSUME NEW p \in Prompts, Ask(p) PROVE Reached'
  BY <1>9 DEF Ask
<1>10. ASSUME NEW p \in Prompts, Finish(p) PROVE Reached'
  BY <1>10 DEF Finish
<1>11. ASSUME NEW p \in Prompts, Arm(p) PROVE Reached'
  BY <1>11 DEF Arm
<1>12. ASSUME NEW p \in Prompts, Wake(p) PROVE Reached'
  BY <1>12 DEF Wake
<1>13. ASSUME NEW p \in Prompts, Abort(p) PROVE Reached'
  BY <1>13 DEF Abort
<1>14. ASSUME NEW p \in Prompts, Fail(p) PROVE Reached'
  BY <1>14 DEF Fail
<1>15. ASSUME NEW p \in Prompts, AppendUser(p) PROVE Reached'
  BY <1>15 DEF AppendUser, Appended
<1>16. ASSUME NEW p \in Prompts, AppendReply(p) PROVE Reached'
  BY <1>16 DEF AppendReply, Appended
<1>17. ASSUME NEW p \in Prompts, Resume(p) PROVE Reached'
  BY <1>17 DEF Resume
<1>18. CASE UNCHANGED acpServerVars
  BY <1>18
<1> QED BY <1>1, <1>2, <1>3, <1>4, <1>5, <1>6, <1>7, <1>8, <1>9, <1>10, <1>11, <1>12, <1>13,
   <1>14, <1>15, <1>16, <1>17, <1>18 DEF AcpServerNext, Client, Handler
-----------------------------------------------------------------------------
(* The histories. *)

(* a is h, of length l, and one more message: at an odd place from the user, *)
(* at an even one the reply to the message before it.                       *)
OneMore(a, h, l, p, r) ==
  /\ DOMAIN h = 1 .. l /\ DOMAIN a = 1 .. l + 1 /\ \A i \in 1 .. l : a[i] = h[i]
  /\ a[l + 1][1] = p /\ a[l + 1][2] = r /\ Paired(h)
  /\ \/ r = "user" /\ (l + 1) % 2 = 1
     \/ r = "assistant" /\ (l + 1) % 2 = 0 /\ h[l][1] = p /\ l > 0

(* Such a message keeps the pairs. *)
LEMMA PairedMore ==
  ASSUME NEW h, NEW a, NEW l \in Nat, NEW p, NEW r, OneMore(a, h, l, p, r)
  PROVE  Paired(a) /\ Writers(a) = Writers(h) \cup {p}
<1> USE DEF OneMore
<1>1. Writers(a) = Writers(h) \cup {p}
  <2>1. 1 .. l + 1 = 1 .. l \cup {l + 1}
    OBVIOUS
  <2>2. \A i \in 1 .. l + 1 : a[i][1] \in Writers(h) \cup {p}
    BY <2>1 DEF Writers
  <2>3. \A i \in 1 .. l : h[i][1] \in Writers(a)
    BY <2>1 DEF Writers
  <2>4. p \in Writers(a)
    BY <2>1 DEF Writers
  <2>5. Writers(a) \subseteq Writers(h) \cup {p}
    <3>1. SUFFICES ASSUME NEW i \in 1 .. l + 1 PROVE a[i][1] \in Writers(h) \cup {p}
      BY Zenon DEF Writers
    <3> QED BY <2>2
  <2>6. Writers(h) \subseteq Writers(a)
    <3>1. SUFFICES ASSUME NEW i \in 1 .. l PROVE h[i][1] \in Writers(a)
      BY Zenon DEF Writers
    <3> QED BY <2>3
  <2> QED BY <2>4, <2>5, <2>6
<1>2. ASSUME NEW i \in DOMAIN a PROVE a[i][2] = IF i % 2 = 1 THEN "user" ELSE "assistant"
  <2>1. CASE i = l + 1
    BY <2>1
  <2>2. CASE i # l + 1
    <3>1. i \in DOMAIN h /\ a[i] = h[i]
      BY <2>2
    <3> QED BY <3>1 DEF Paired
  <2> QED BY <2>1, <2>2
<1>3. ASSUME NEW i \in DOMAIN a, i % 2 = 0 PROVE a[i][1] = a[i - 1][1]
  <2>1. CASE i = l + 1
    <3>1. r = "assistant" /\ h[l][1] = p /\ l \in 1 .. l /\ i - 1 = l
      BY <1>3, <2>1
    <3> QED BY <2>1, <3>1
  <2>2. CASE i # l + 1
    <3>1. i \in DOMAIN h /\ i - 1 \in 1 .. l
      <4>1. i # 1
        BY <1>3
      <4> QED BY <2>2, <4>1
    <3> QED BY <1>3, <3>1 DEF Paired
  <2> QED BY <2>1, <2>2
<1> QED BY <1>1, <1>2, <1>3 DEF Paired

(* The message r of p comes in turn after n pairs: the user's, or the reply  *)
(* to what that user said.                                                  *)
InTurn(h, p, r, n) ==
  \/ r = "user" /\ Len(h) = 2 * n
  \/ r = "assistant" /\ Len(h) = 2 * n + 1 /\ h[Len(h)][1] = p

(* a is the history h and a last message of p. *)
Grown(a, h, p) ==
  /\ Paired(a) /\ Writers(a) = Writers(h) \cup {p} /\ Len(a) = Len(h) + 1 /\ a[Len(a)][1] = p

(* A message in turn is appended to a history. *)
LEMMA PairedAppend ==
  ASSUME NEW h \in Seq(Prompts \X Roles), Paired(h), NEW p \in Prompts, NEW n \in Nat, NEW r \in Roles,
         InTurn(h, p, r, n)
  PROVE  Grown(Append(h, <<p, r>>), h, p)
<1> USE DEF InTurn, Grown
<1> DEFINE a == Append(h, <<p, r>>)
<1>1. PICK l \in Nat : l = Len(h)
  OBVIOUS
<1>2. /\ DOMAIN h = 1 .. l /\ Len(a) = l + 1 /\ DOMAIN a = 1 .. l + 1
      /\ a[l + 1][1] = p /\ a[l + 1][2] = r /\ \A i \in 1 .. l : a[i] = h[i]
  BY <1>1
<1> HIDE DEF a
<1>3. OneMore(a, h, l, p, r)
  <2>1. \A x \in Nat : (2 * x + 1) % 2 = 1 /\ (2 * x + 2) % 2 = 0
    OBVIOUS
  <2>2. CASE r = "user" /\ l = 2 * n
    <3>1. l + 1 = 2 * n + 1
      BY <2>2
    <3>2. (l + 1) % 2 = 1
      BY <2>1, <3>1
    <3> QED BY <1>2, <2>2, <3>2, Zenon DEF OneMore
  <2>3. CASE r = "assistant" /\ l = 2 * n + 1 /\ h[l][1] = p
    <3>1. l + 1 = 2 * n + 2 /\ l > 0
      BY <2>3
    <3>2. (l + 1) % 2 = 0
      BY <2>1, <3>1
    <3> QED BY <1>2, <2>3, <3>1, <3>2, Zenon DEF OneMore
  <2> QED BY <1>1, <2>2, <2>3
<1>4. Paired(a) /\ Writers(a) = Writers(h) \cup {p}
  BY <1>3, PairedMore
<1> QED BY <1>1, <1>2, <1>4 DEF a

(* The steps that add no message and no session. *)
Aside ==
  /\ history' = history /\ exists' \subseteq exists
  /\ \A p \in Prompts : /\ answer'[p] = "end_turn" <=> answer[p] = "end_turn"
                        /\ stage'[p] = "appendReply" <=> stage[p] = "appendReply"
                        /\ of[p] # None => of'[p] = of[p]

(* They are all others. *)
LEMMA AsideStep ==
  ASSUME Types, Placed, [AcpServerNext]_acpServerVars,
         ~ \E s \in Sessions : New(s), ~ \E p \in Prompts : AppendUser(p) \/ AppendReply(p)
  PROVE  Aside
<1> USE DEF acpServerVars, sessVars, agentVars, histVars, Proceed, Reply, Types, Placed, Aside,
   Loop, Stages, Answers
<1>1. ASSUME NEW s \in Sessions, New(s) PROVE Aside
  BY <1>1
<1>2. ASSUME NEW s \in Sessions, Cancel(s) PROVE Aside
  BY <1>2 DEF Cancel
<1>3. ASSUME NEW s \in Sessions, Delete(s) PROVE Aside
  BY <1>3 DEF Delete
<1>4. ASSUME NEW p \in Prompts, NEW s \in Sessions, Send(p, s) PROVE Aside
  BY <1>4 DEF Send
<1>5. ASSUME NEW p \in Prompts, Begin(p) PROVE Aside
  BY <1>5 DEF Begin
<1>6. ASSUME NEW p \in Prompts, NotFound(p) PROVE Aside
  BY <1>6, AcpAssumption DEF NotFound
<1>7. ASSUME NEW p \in Prompts, Hook(p) PROVE Aside
  BY <1>7 DEF Hook
<1>8. ASSUME NEW p \in Prompts, CallModel(p) PROVE Aside
  BY <1>8 DEF CallModel
<1>9. ASSUME NEW p \in Prompts, Ask(p) PROVE Aside
  BY <1>9 DEF Ask
<1>10. ASSUME NEW p \in Prompts, Finish(p) PROVE Aside
  BY <1>10 DEF Finish
<1>11. ASSUME NEW p \in Prompts, Arm(p) PROVE Aside
  BY <1>11 DEF Arm
<1>12. ASSUME NEW p \in Prompts, Wake(p) PROVE Aside
  BY <1>12 DEF Wake
<1>13. ASSUME NEW p \in Prompts, Abort(p) PROVE Aside
  BY <1>13, AcpAssumption DEF Abort
<1>14. ASSUME NEW p \in Prompts, Fail(p) PROVE Aside
  BY <1>14, AcpAssumption DEF Fail
<1>15. ASSUME NEW p \in Prompts, AppendUser(p) PROVE Aside
  BY <1>15
<1>16. ASSUME NEW p \in Prompts, AppendReply(p) PROVE Aside
  BY <1>16
<1>17. ASSUME NEW p \in Prompts, Resume(p) PROVE Aside
  BY <1>17 DEF Resume
<1>18. CASE UNCHANGED acpServerVars
  BY <1>18
<1> QED BY <1>1, <1>2, <1>3, <1>4, <1>5, <1>6, <1>7, <1>8, <1>9, <1>10, <1>11, <1>12, <1>13,
   <1>14, <1>15, <1>16, <1>17, <1>18 DEF AcpServerNext, Client, Handler

(* They keep every session's history. *)
LEMMA HistoriesAside ==
  ASSUME Types, Types', Placed, Placed', Histories, Aside
  PROVE  Histories'
<1>1. ASSUME NEW s \in Sessions PROVE Ended(s)' = Ended(s) /\ Half(s)' = Half(s)
  <2>1. \A p \in Prompts : answer[p] = "end_turn" \/ stage[p] = "appendReply" => of'[p] = of[p]
    BY AcpAssumption DEF Placed, Aside, Answers
  <2> QED BY <2>1 DEF Ended, Half, Aside
<1>2. ASSUME NEW s \in Sessions, Told(s) PROVE Told(s)'
  BY <1>1, <1>2 DEF Told, Aside
<1>3. ASSUME NEW s \in Sessions, \A p \in Prompts : of'[p] # s PROVE \A p \in Prompts : of[p] # s
  BY <1>3, AcpAssumption DEF Aside
<1> QED BY <1>2, <1>3 DEF Histories, Aside

(* The prompt p appends to the history of its session and leaves the others.*)
Appends(p, r) ==
  /\ history' = Appended(p, r) /\ exists' = exists /\ of' = of
  /\ \A q \in Prompts \ {p} : answer'[q] = answer[q] /\ stage'[q] = stage[q]

(* The others stay as they are. *)
LEMMA OthersKept ==
  ASSUME Types, Placed, Histories, NEW p \in Prompts, NEW r, Appends(p, r), of[p] # None,
         NEW s, s = of[p], s \in exists => Told(s)'
  PROVE  Histories'
<1>1. s \in Sessions
  BY DEF Types
<1>2. ASSUME NEW t \in Sessions, t # s
      PROVE  history'[t] = history[t] /\ Ended(t)' = Ended(t) /\ Half(t)' = Half(t)
  <2>1. history'[t] = history[t]
    BY <1>1, <1>2 DEF Types, Appends, Appended
  <2> QED BY <1>2, <2>1 DEF Appends, Ended, Half
<1>3. ASSUME NEW t \in Sessions, t \in exists PROVE Told(t)'
  <2>1. CASE t = s
    BY <1>3, <2>1
  <2>2. CASE t # s
    <3>1. Told(t)
      BY <1>3 DEF Histories
    <3> QED BY <1>2, <2>2, <3>1 DEF Told
  <2> QED BY <2>1, <2>2
<1>4. ASSUME NEW t \in Sessions, \A q \in Prompts : of'[q] # t PROVE history'[t] = <<>>
  <2>1. t # s /\ \A q \in Prompts : of[q] # t
    BY <1>4 DEF Appends
  <2> QED BY <1>2, <2>1 DEF Histories
<1> QED BY <1>3, <1>4 DEF Histories, Appends

(* Messages join the histories as they should. *)
LEMMA HistoriesStep ==
  ASSUME Types, Types', Placed, Placed', OneAtATime, Histories, [AcpServerNext]_acpServerVars
  PROVE  Histories'
<1> USE DEF acpServerVars, sessVars, agentVars, histVars, Proceed, Reply
<1>1. ASSUME NEW s \in Sessions, New(s) PROVE Histories'
  <2>1. history' = history /\ of' = of /\ answer' = answer /\ stage' = stage /\ exists' = exists \cup {s}
    BY <1>1 DEF New
  <2>2. /\ \A p \in Prompts : of[p] # s
        /\ history[s] = <<>> /\ Ended(s) = {} /\ Half(s) = {}
    BY <1>1 DEF New, Histories, Ended, Half
  <2>3. Told(s)
    <3>1. DOMAIN <<>> = {} /\ Len(<<>>) = 0 /\ Cardinality({}) = 0
      BY FS_EmptySet
    <3> QED BY <2>2, <3>1 DEF Told, Paired, Writers
  <2>4. \A t \in Sessions : Ended(t)' = Ended(t) /\ Half(t)' = Half(t)
    BY <2>1 DEF Ended, Half
  <2>5. \A t \in Sessions : Told(t) => Told(t)'
    BY <2>1, <2>4 DEF Told
  <2> QED BY <2>1, <2>3, <2>5 DEF Histories
<1>2. ASSUME NEW p \in Prompts, AppendUser(p) PROVE Histories'
  <2>0. PICK s : s = of[p]
    OBVIOUS
  <2>1. /\ stage[p] = "appendUser" /\ stage' = [stage EXCEPT ![p] = "appendReply"]
        /\ answer' = answer /\ of' = of /\ s \in Sessions /\ Appends(p, "user")
    BY <1>2, <2>0 DEF AppendUser, Appends, Types, Placed
  <2>2. ASSUME s \in exists PROVE Told(s)'
    <3>1. p \in InFlight /\ Half(s) = {} /\ Half(s)' = {p} /\ Ended(s)' = Ended(s)
      <4>1. p \in InFlight /\ \A q \in Prompts : stage[q] = "appendReply" => q \in InFlight
        BY <2>1 DEF InFlight
      <4>2. Half(s) = {}
        BY <2>0, <2>1, <4>1 DEF OneAtATime, Half
      <4> QED BY <2>0, <2>1, <4>1, <4>2 DEF Half, Ended, Types
    <3>2. PICK h : h = history[s]
      OBVIOUS
    <3>3. Told(s) /\ h \in Seq(Prompts \X Roles) /\ history'[s] = Append(h, <<p, "user">>)
      BY <2>0, <2>1, <2>2, <3>2 DEF Histories, Types, Appends, Appended
    <3>4. Cardinality(Ended(s)) \in Nat
      BY AcpAssumption, FS_Subset, FS_CardinalityType DEF Ended
    <3>5. Cardinality({}) = 0 /\ Cardinality({p}) = 1
      BY FS_EmptySet, FS_Singleton
    <3>6. Len(h) = 2 * Cardinality(Ended(s)) /\ Paired(h) /\ Writers(h) = Ended(s)
      BY <3>1, <3>2, <3>3, <3>4, <3>5 DEF Told
    <3>7. PICK a : a = Append(h, <<p, "user">>) /\ Grown(a, h, p)
      <4>1. PICK n \in Nat : n = Cardinality(Ended(s))
        BY <3>4
      <4>2. /\ h \in Seq(Prompts \X Roles) /\ Paired(h) /\ "user" \in Roles
            /\ InTurn(h, p, "user", n)
        BY <3>3, <3>6, <4>1 DEF Roles, InTurn
      <4> QED BY <4>1, <4>2, PairedAppend
    <3>8. /\ history'[s] = a /\ Writers(a) = Ended(s)' \cup Half(s)'
          /\ Len(a) = 2 * Cardinality(Ended(s)') + Cardinality(Half(s)')
      BY <3>1, <3>3, <3>4, <3>5, <3>6, <3>7 DEF Grown
    <3> QED BY <3>1, <3>7, <3>8 DEF Told, Grown
  <2> QED BY <2>0, <2>1, <2>2, OthersKept, AcpAssumption
<1>3. ASSUME NEW p \in Prompts, AppendReply(p) PROVE Histories'
  <2>0. PICK s : s = of[p]
    OBVIOUS
  <2>1. /\ stage[p] = "appendReply" /\ stage' = [stage EXCEPT ![p] = "ended"]
        /\ answer' = [answer EXCEPT ![p] = "end_turn"] /\ of' = of /\ s \in Sessions
        /\ Appends(p, "assistant") /\ answer[p] = None
    BY <1>3, <2>0 DEF AppendReply, Appends, Types, Placed
  <2>2. ASSUME s \in exists PROVE Told(s)'
    <3>1. Half(s) = {p} /\ Half(s)' = {} /\ p \notin Ended(s) /\ Ended(s)' = Ended(s) \cup {p}
      <4>1. p \in InFlight /\ \A q \in Prompts : stage[q] = "appendReply" => q \in InFlight
        BY <2>1 DEF InFlight
      <4>2. Half(s) = {p}
        BY <2>0, <2>1, <4>1 DEF OneAtATime, Half
      <4>3. p \notin Ended(s)
        BY <2>0, <2>1, AcpAssumption DEF Ended, Answers
      <4> QED BY <2>0, <2>1, <4>2, <4>3 DEF Half, Ended, Types
    <3>2. PICK h : h = history[s]
      OBVIOUS
    <3>3. Told(s) /\ h \in Seq(Prompts \X Roles) /\ history'[s] = Append(h, <<p, "assistant">>)
      BY <2>0, <2>1, <2>2, <3>2 DEF Histories, Types, Appends, Appended
    <3>4. IsFiniteSet(Ended(s)) /\ Cardinality(Ended(s)) \in Nat
      BY AcpAssumption, FS_Subset, FS_CardinalityType DEF Ended
    <3>5. /\ Cardinality({}) = 0 /\ Cardinality({p}) = 1
          /\ Cardinality(Ended(s) \cup {p}) = Cardinality(Ended(s)) + 1
      BY <3>1, <3>4, FS_EmptySet, FS_Singleton, FS_AddElement
    <3>6. /\ Len(h) = 2 * Cardinality(Ended(s)) + 1 /\ Paired(h) /\ Writers(h) = Ended(s) \cup {p}
          /\ h[Len(h)][1] = p
      BY <3>1, <3>2, <3>3, <3>4, <3>5 DEF Told
    <3>7. PICK a : a = Append(h, <<p, "assistant">>) /\ Grown(a, h, p)
      <4>1. PICK n \in Nat : n = Cardinality(Ended(s))
        BY <3>4
      <4>2. /\ h \in Seq(Prompts \X Roles) /\ Paired(h) /\ "assistant" \in Roles
            /\ InTurn(h, p, "assistant", n)
        BY <3>3, <3>6, <4>1 DEF Roles, InTurn
      <4> QED BY <4>1, <4>2, PairedAppend
    <3>8. /\ history'[s] = a /\ Writers(a) = Ended(s)' \cup Half(s)'
          /\ Len(a) = 2 * Cardinality(Ended(s)') + Cardinality(Half(s)')
      <4>1. PICK n \in Nat : n = Cardinality(Ended(s))
        BY <3>4
      <4>2. Len(a) = (2 * n + 1) + 1 /\ (2 * n + 1) + 1 = 2 * (n + 1) + 0
        BY <3>6, <3>7, <4>1 DEF Grown
      <4>3. Cardinality(Ended(s)') = n + 1 /\ Cardinality(Half(s)') = 0
        BY <3>1, <3>5, <4>1
      <4>4. history'[s] = a /\ Writers(a) = Ended(s)' \cup Half(s)'
        BY <3>1, <3>3, <3>6, <3>7 DEF Grown
      <4> QED BY <4>2, <4>3, <4>4
    <3> QED BY <3>1, <3>7, <3>8 DEF Told, Grown
  <2> QED BY <2>0, <2>1, <2>2, OthersKept, AcpAssumption
<1> QED BY <1>1, <1>2, <1>3, AsideStep, HistoriesAside

-----------------------------------------------------------------------------
(* The invariant. *)

(* No session yet. *)
LEMMA AcpInit ==
  ASSUME AcpServerInit
  PROVE  AcpInv
<1>1. Types
  <2>1. <<>> \in Seq(Prompts \X Roles) /\ 0 \in 0 .. MaxQuestions
    BY AcpAssumption
  <2>2. history \in [Sessions -> Seq(Prompts \X Roles)]
    BY <2>1 DEF AcpServerInit
  <2> QED BY <2>1, <2>2 DEF AcpServerInit, Types, Stages
<1>2. Placed
  BY DEF AcpServerInit, Placed, Loop
<1>3. Shared /\ OneAtATime /\ Reached
  BY DEF AcpServerInit, Shared, OneAtATime, Reached, InFlight, Loop
<1>4. Histories
  BY DEF AcpServerInit, Histories
<1> QED BY <1>1, <1>2, <1>3, <1>4 DEF AcpInv

(* Every step keeps it. *)
LEMMA AcpStep ==
  ASSUME AcpInv, [AcpServerNext]_acpServerVars
  PROVE  AcpInv'
<1>1. Types /\ Placed
  BY DEF AcpInv
<1>2. Types' /\ Placed'
  BY <1>1, TypesStep, PlacedStep
<1>3. mishaps \subseteq mishaps'
  BY MishapsStay
<1>4. ASSUME ~Mishap({"overlap"})' PROVE Shared'
  <2>1. Shared
    BY <1>3, <1>4 DEF AcpInv, Mishap
  <2> QED BY <1>1, <1>4, <2>1, SharedStep
<1>5. ASSUME ~Mishap({"sameSession"})' PROVE OneAtATime' /\ Histories'
  <2>1. OneAtATime /\ Histories
    BY <1>3, <1>5 DEF AcpInv, Mishap
  <2> QED BY <1>1, <1>2, <1>5, <2>1, AloneStep, HistoriesStep
<1>6. ASSUME ~Mishap({"missed", "sameSession"})' PROVE Reached'
  <2>1. OneAtATime /\ Reached
    BY <1>3, <1>6 DEF AcpInv, Mishap
  <2> QED BY <1>1, <1>6, <2>1, ReachedStep
<1> QED BY <1>2, <1>4, <1>5, <1>6 DEF AcpInv

(* The sessions do not disturb each other: updates carry the session of     *)
(* their prompt, histories are exact, acknowledged cancels reach the prompt *)
(* in flight, each but for the mishaps it names.                            *)
THEOREM SessionsStayApart == AcpServerSpec => []SessionsApart
<1>1. AcpServerInit => AcpInv
  BY AcpInit
<1>2. AcpInv /\ [AcpServerNext]_acpServerVars => AcpInv'
  BY AcpStep
<1>3. AcpInv => SessionsApart
  <2> SUFFICES ASSUME AcpInv PROVE SessionsApart
    OBVIOUS
  <2>1. Types /\ Placed
    BY DEF AcpInv
  <2>2. ASSUME ~Mishap({"overlap"}), isWaiting PROVE \E p \in Prompts : stage[p] = "waiting"
    BY <2>2 DEF AcpInv, Shared
  <2>3. AcpServerTypeOK
    <3>1. \A p \in Prompts : resumers[p] \in 0 .. MaxQuestions
      BY <2>1, AcpAssumption DEF Types, Placed
    <3>2. \A s \in Sessions : cancelFn[s] = None \/ of[cancelFn[s]] = s
      BY <2>1 DEF Placed
    <3>3. \A p \in Prompts : stage[p] \in Stages /\ ((stage[p] = "ended") <=> (answer[p] # None))
      BY <2>1 DEF Types, Placed
    <3> QED BY <2>1, <2>2, <3>1, <3>2, <3>3 DEF AcpServerTypeOK, Types, Stages
  <2>4. UpdatesRouted
    BY DEF AcpInv, Shared, UpdatesRouted
  <2>5. ASSUME ~Mishap({"sameSession"}), NEW s \in exists PROVE Told(s)
    <3>1. s \in Sessions
      BY <2>1 DEF Types
    <3> QED BY <2>5, <3>1 DEF AcpInv, Histories
  <2>6. HistoryExact
    BY <2>5 DEF HistoryExact, Told, Paired, Writers, Ended, Half
  <2>7. CancelReaches
    BY DEF AcpInv, Reached, CancelReaches
  <2> QED BY <2>3, <2>4, <2>6, <2>7 DEF SessionsApart
<1> QED BY <1>1, <1>2, <1>3, PTL DEF AcpServerSpec

==============================================================================
