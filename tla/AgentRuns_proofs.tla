-------------------------- MODULE AgentRuns_proofs --------------------------
(***************************************************************************)
(* Theorems about the runs of agent loops: the questions that wait for a   *)
(* person (HumanGate), and the dreams that take place beside a run         *)
(* (DreamScheduler), for any number of calls, runs, loops and intervals.   *)
(***************************************************************************)
EXTENDS HumanGate, DreamScheduler, FiniteSetTheorems, TLAPS

-----------------------------------------------------------------------------
(***************************************************************************)
(* The gate, with or without cancellation.  The inductive invariant adds to *)
(* the account of the gate's count what places a worker in the register:    *)
(* a registering worker is in it, a worker past the gate is not.  That the  *)
(* latter is preserved when a worker passes the gate is the account itself: *)
(* a registered question of its own would have kept the gate closed.        *)
(***************************************************************************)

Places ==
  /\ \A w \in waiting : pc[w] \in {"waiting", "disarming"}
  /\ \A w \in Workers : pc[w] = "registered" => w \in hitl
  /\ \A w \in hitl : pc[w] \notin {"passed", "tool"}

GateInv == TypeOK /\ Places /\ PauseAccount

(* The workers and callers the count stands for are finitely many. *)
LEMMA Finite ==
  ASSUME TypeOK
  PROVE  /\ IsFiniteSet(OpenQuestions) /\ Cardinality(OpenQuestions) \in Nat
         /\ IsFiniteSet(OpenCalls) /\ Cardinality(OpenCalls) \in Nat
<1>1. OpenQuestions \subseteq Workers /\ OpenCalls \subseteq Callers
  BY DEF TypeOK, OpenQuestions, OpenCalls
<1>2. IsFiniteSet(OpenQuestions) /\ IsFiniteSet(OpenCalls)
  BY <1>1, GateAssumption, FS_Subset
<1> QED BY <1>2, FS_CardinalityType

(* A question or a call that is counted keeps the gate closed. *)
LEMMA Counted ==
  ASSUME TypeOK, PauseAccount
  PROVE  /\ \A w \in OpenQuestions : paused > 0
         /\ \A k \in OpenCalls : paused > 0
<1>1. OpenQuestions # {} => Cardinality(OpenQuestions) # 0
  BY Finite, FS_EmptySet
<1>2. OpenCalls # {} => Cardinality(OpenCalls) # 0
  BY Finite, FS_EmptySet
<1> QED BY <1>1, <1>2, Finite DEF PauseAccount

(* Initially nothing is counted and the gate is open. *)
LEMMA GateInit == Init => GateInv
<1> SUFFICES ASSUME Init PROVE GateInv
  OBVIOUS
<1> USE DEF Init
<1>1. TypeOK
  BY DEF TypeOK, WorkerPc, CallerPc
<1>2. Places
  BY DEF Places
<1>3. OpenQuestions = {} /\ OpenCalls = {}
  BY DEF OpenQuestions, OpenCalls
<1>4. PauseAccount
  BY <1>3, FS_EmptySet DEF PauseAccount
<1> QED BY <1>1, <1>2, <1>4 DEF GateInv

(* Types are preserved; the only subtraction is guarded. *)
LEMMA GateType == ASSUME TypeOK, [Next]_vars PROVE TypeOK'
<1> USE GateAssumption DEF TypeOK, WorkerPc, CallerPc, Goto, CallerGoto,
      gateVars, askVars, loopVars, callerVars, batchVars
<1>1. ASSUME NEW w \in Workers, Worker(w) PROVE TypeOK'
  <2>1. CASE Top(w)        BY <2>1 DEF Top
  <2>2. CASE Think(w)      BY <2>2 DEF Think, NextCall
  <2>3. CASE PassGate(w)   BY <2>3 DEF PassGate
  <2>4. CASE StartTool(w)  BY <2>4 DEF StartTool
  <2>5. CASE EndTool(w)    BY <2>5 DEF EndTool, Continue, NextCall
  <2>6. CASE Register(w)   BY <2>6 DEF Register
  <2>7. CASE Pause(w)      BY <2>7 DEF Pause
  <2>8. CASE Tell(w)       BY <2>8 DEF Tell
  <2>9. CASE Arm(w)        BY <2>9 DEF Arm
  <2>10. CASE TakeAnswer(w) BY <2>10 DEF TakeAnswer
  <2>11. CASE GiveUp(w)    BY <2>11 DEF GiveUp
  <2>12. CASE Disarm(w)    BY <2>12 DEF Disarm, Continue, NextCall
  <2> QED BY <1>1, <2>1, <2>2, <2>3, <2>4, <2>5, <2>6, <2>7, <2>8, <2>9,
             <2>10, <2>11, <2>12 DEF Worker
<1>2. ASSUME NEW k \in Callers, NEW w \in Workers, Find(k, w) PROVE TypeOK'
  BY <1>2 DEF Find
<1>3. ASSUME NEW k \in Callers, Caller(k) PROVE TypeOK'
  <2>1. CASE Check(k)  BY <2>1 DEF Check
  <2>2. CASE Send(k)   BY <2>2 DEF Send
  <2>3. CASE Resume(k) BY <2>3 DEF Resume
  <2> QED BY <1>3, <2>1, <2>2, <2>3 DEF Caller
<1>4. CASE Cancel   BY <1>4 DEF Cancel
<1>5. CASE NewBatch
  <2>1. caller' \in [Callers -> CallerPc]
    BY <1>5 DEF NewBatch
  <2>2. \A k \in Callers : caller'[k] \notin {"check", "send"}
    BY <1>5 DEF NewBatch
  <2>3. pc' \in [Workers -> WorkerPc]
    BY <1>5 DEF NewBatch
  <2>4. calls' \in [Workers -> Nat] /\ batches' \in Nat
    BY <1>5 DEF NewBatch
  <2>6. cancelled' \in BOOLEAN
    BY <1>5, Zenon DEF NewBatch
  <2>5. waiting' = {} /\ full' = {} /\ UNCHANGED <<paused, ahead, hitl, to>>
    BY <1>5 DEF NewBatch
  <2> HIDE DEF WorkerPc, CallerPc
  <2> QED BY <2>1, <2>2, <2>3, <2>4, <2>5, <2>6
<1>6. CASE UNCHANGED vars BY <1>6 DEF vars
<1> QED BY <1>1, <1>2, <1>3, <1>4, <1>5, <1>6 DEF Next

(* Where a worker stands and whether it is registered stay in step.  A      *)
(* worker passes the gate only when it is not registered, by the account.   *)
LEMMA GatePlaces == ASSUME GateInv, [Next]_vars PROVE Places'
<1> USE DEF GateInv, TypeOK, Places, WorkerPc, Goto, CallerGoto,
      gateVars, askVars, loopVars, callerVars, batchVars
<1>1. ASSUME NEW w \in Workers, Worker(w) PROVE Places'
  <2>1. CASE Top(w)        BY <2>1 DEF Top
  <2>2. CASE Think(w)      BY <2>2 DEF Think, NextCall
  <2>3. CASE PassGate(w)
    <3>1. w \notin hitl
      BY <2>3, Counted DEF PassGate, OpenQuestions
    <3> QED BY <2>3, <3>1 DEF PassGate
  <2>4. CASE StartTool(w)  BY <2>4 DEF StartTool
  <2>5. CASE EndTool(w)    BY <2>5 DEF EndTool, Continue, NextCall
  <2>6. CASE Register(w)   BY <2>6 DEF Register
  <2>7. CASE Pause(w)      BY <2>7 DEF Pause
  <2>8. CASE Tell(w)       BY <2>8 DEF Tell
  <2>9. CASE Arm(w)        BY <2>9 DEF Arm
  <2>10. CASE TakeAnswer(w) BY <2>10 DEF TakeAnswer
  <2>11. CASE GiveUp(w)    BY <2>11 DEF GiveUp
  <2>12. CASE Disarm(w)    BY <2>12 DEF Disarm, Continue, NextCall
  <2> QED BY <1>1, <2>1, <2>2, <2>3, <2>4, <2>5, <2>6, <2>7, <2>8, <2>9,
             <2>10, <2>11, <2>12 DEF Worker
<1>2. ASSUME NEW k \in Callers, NEW w \in Workers, Find(k, w) PROVE Places'
  BY <1>2 DEF Find, Answerable
<1>3. ASSUME NEW k \in Callers, Caller(k) PROVE Places'
  BY <1>3 DEF Caller, Check, Send, Resume
<1>4. CASE Cancel   BY <1>4 DEF Cancel
<1>5. CASE NewBatch BY <1>5 DEF NewBatch, Ended
<1>6. CASE UNCHANGED vars BY <1>6 DEF vars
<1> QED BY <1>1, <1>2, <1>3, <1>4, <1>5, <1>6 DEF Next

(* The account: Pause adds a question, Find turns a question into a call,   *)
(* Resume ends a call, and nothing else touches either side.                *)
LEMMA GateAccount == ASSUME GateInv, [Next]_vars PROVE PauseAccount'
<1> USE DEF gateVars, askVars, loopVars, callerVars, batchVars
<1>t. TypeOK /\ Places /\ PauseAccount
  BY DEF GateInv
<1>f. /\ IsFiniteSet(OpenQuestions) /\ Cardinality(OpenQuestions) \in Nat
      /\ IsFiniteSet(OpenCalls) /\ Cardinality(OpenCalls) \in Nat
  BY <1>t, Finite
<1>s. ASSUME UNCHANGED paused, OpenQuestions' = OpenQuestions, OpenCalls' = OpenCalls
      PROVE  PauseAccount'
  BY <1>s, <1>t DEF PauseAccount
<1>1. ASSUME NEW w \in Workers, Worker(w) PROVE PauseAccount'
  <2>c. OpenCalls' = OpenCalls
    BY <1>1 DEF Worker, Top, Think, PassGate, StartTool, EndTool, Register,
       Pause, Tell, Arm, TakeAnswer, GiveUp, Disarm, OpenCalls
  <2>1. CASE Pause(w)
    <3>1. OpenQuestions' = OpenQuestions \cup {w} /\ w \notin OpenQuestions
      BY <1>t, <2>1 DEF Pause, Goto, OpenQuestions, Places, TypeOK
    <3>2. Cardinality(OpenQuestions') = Cardinality(OpenQuestions) + 1
      BY <3>1, <1>f, FS_AddElement
    <3> QED BY <3>2, <2>1, <2>c, <1>t, <1>f DEF Pause, PauseAccount
  <2>2. CASE Register(w)
    <3>1. OpenQuestions' = OpenQuestions
      BY <1>t, <2>2 DEF Register, Goto, OpenQuestions, Places, TypeOK
    <3> QED BY <3>1, <2>2, <2>c, <1>s DEF Register
  <2>3. ASSUME ~Pause(w), ~Register(w)
        PROVE  OpenQuestions' = OpenQuestions /\ UNCHANGED paused
    BY <1>1, <1>t, <2>3 DEF Worker, Top, Think, PassGate, StartTool, EndTool,
       Tell, Arm, TakeAnswer, GiveUp, Disarm, Continue, NextCall, Goto,
       OpenQuestions, TypeOK
  <2> QED BY <2>1, <2>2, <2>3, <2>c, <1>s
<1>2. ASSUME NEW k \in Callers, NEW w \in Workers, Find(k, w) PROVE PauseAccount'
  <2>1. OpenQuestions' = OpenQuestions \ {w} /\ w \in OpenQuestions
    BY <1>t, <1>2 DEF Find, Answerable, OpenQuestions, Places
  <2>2. OpenCalls' = OpenCalls \cup {k} /\ k \notin OpenCalls
    BY <1>t, <1>2 DEF Find, CallerGoto, OpenCalls, TypeOK
  <2>3. Cardinality(OpenQuestions') = Cardinality(OpenQuestions) - 1
    BY <2>1, <1>f, FS_RemoveElement
  <2>4. Cardinality(OpenCalls') = Cardinality(OpenCalls) + 1
    BY <2>2, <1>f, FS_AddElement
  <2> QED BY <2>3, <2>4, <1>2, <1>t, <1>f DEF Find, PauseAccount
<1>3. ASSUME NEW k \in Callers, Caller(k) PROVE PauseAccount'
  <2>q. OpenQuestions' = OpenQuestions
    BY <1>3 DEF Caller, Check, Send, Resume, OpenQuestions
  <2>1. CASE Resume(k)
    <3>1. OpenCalls' = OpenCalls \ {k} /\ k \in OpenCalls
      BY <1>t, <2>1 DEF Resume, CallerGoto, OpenCalls, TypeOK
    <3>2. Cardinality(OpenCalls') = Cardinality(OpenCalls) - 1
      BY <3>1, <1>f, FS_RemoveElement
    <3>3. paused > 0
      BY <3>1, <1>t, Counted
    <3> QED BY <3>2, <3>3, <2>q, <2>1, <1>t, <1>f DEF Resume, PauseAccount, TypeOK
  <2>2. CASE Check(k) \/ Send(k)
    <3>1. OpenCalls' = OpenCalls
      BY <1>t, <2>2 DEF Check, Send, CallerGoto, OpenCalls, TypeOK
    <3> QED BY <3>1, <2>q, <2>2, <1>s DEF Check, Send
  <2> QED BY <1>3, <2>1, <2>2 DEF Caller
<1>4. CASE Cancel
  BY <1>4, <1>s DEF Cancel, OpenQuestions, OpenCalls
<1>5. CASE NewBatch
  <2>1. OpenQuestions' = OpenQuestions
    BY <1>t, <1>5 DEF NewBatch, Ended, OpenQuestions, TypeOK
  <2>2. OpenCalls' = OpenCalls
    BY <1>t, <1>5 DEF NewBatch, OpenCalls, TypeOK
  <2> QED BY <2>1, <2>2, <1>5, <1>s DEF NewBatch
<1>6. CASE UNCHANGED vars
  BY <1>6, <1>s DEF vars, OpenQuestions, OpenCalls
<1> QED BY <1>1, <1>2, <1>3, <1>4, <1>5, <1>6 DEF Next

(* The invariant of the gate holds throughout. *)
LEMMA GateAlways == Spec => []GateInv
<1>1. Init => GateInv
  BY GateInit
<1>2. GateInv /\ [Next]_vars => GateInv'
  BY GateType, GatePlaces, GateAccount DEF GateInv
<1> QED BY <1>1, <1>2, PTL DEF Spec

(* The gate's count is exactly the open questions and the calls in progress. *)
THEOREM GateCorrect == Spec => [](TypeOK /\ PauseAccount /\ GateClosed)
<1>1. GateInv => TypeOK /\ PauseAccount /\ GateClosed
  <2>1. ASSUME GateInv, NEW w \in Workers, pc[w] \in Asking, w \in hitl
        PROVE  paused > 0
    BY <2>1, Counted DEF GateInv, Asking, OpenQuestions
  <2> QED BY <2>1 DEF GateInv, GateClosed
<1> QED BY GateAlways, <1>1, PTL

(* While the gate is closed, a worker that has already started a tool since *)
(* it closed is not past the gate again.                                    *)
AheadInv == /\ \A w \in Workers : ahead[w] <= 1
            /\ \A w \in Workers : paused > 0 /\ ahead[w] = 1 => pc[w] # "passed"

(* A sibling runs ahead of the human by at most one tool call.              *)
LEMMA AheadStep == ASSUME TypeOK, AheadInv, [Next]_vars PROVE AheadInv'
<1> USE DEF TypeOK, AheadInv, WorkerPc, Goto, CallerGoto,
      gateVars, askVars, loopVars, callerVars, batchVars
<1>1. ASSUME NEW w \in Workers, Worker(w) PROVE AheadInv'
  <2>1. CASE Top(w)        BY <2>1 DEF Top
  <2>2. CASE Think(w)      BY <2>2 DEF Think, NextCall
  <2>3. CASE PassGate(w)   BY <2>3 DEF PassGate
  <2>4. CASE StartTool(w)
    <3>1. paused > 0 => ahead[w] = 0
      BY <2>4 DEF StartTool
    <3> QED BY <3>1, <2>4 DEF StartTool
  <2>5. CASE EndTool(w)    BY <2>5 DEF EndTool, Continue, NextCall
  <2>6. CASE Register(w)   BY <2>6 DEF Register
  <2>7. CASE Pause(w)      BY <2>7 DEF Pause
  <2>8. CASE Tell(w)       BY <2>8 DEF Tell
  <2>9. CASE Arm(w)        BY <2>9 DEF Arm
  <2>10. CASE TakeAnswer(w) BY <2>10 DEF TakeAnswer
  <2>11. CASE GiveUp(w)    BY <2>11 DEF GiveUp
  <2>12. CASE Disarm(w)    BY <2>12 DEF Disarm, Continue, NextCall
  <2> QED BY <1>1, <2>1, <2>2, <2>3, <2>4, <2>5, <2>6, <2>7, <2>8, <2>9,
             <2>10, <2>11, <2>12 DEF Worker
<1>2. ASSUME NEW k \in Callers, NEW w \in Workers, Find(k, w) PROVE AheadInv'
  BY <1>2 DEF Find
<1>3. ASSUME NEW k \in Callers, Caller(k) PROVE AheadInv'
  BY <1>3 DEF Caller, Check, Send, Resume
<1>4. CASE Cancel   BY <1>4 DEF Cancel
<1>5. CASE NewBatch BY <1>5 DEF NewBatch
<1>6. CASE UNCHANGED vars BY <1>6 DEF vars
<1> QED BY <1>1, <1>2, <1>3, <1>4, <1>5, <1>6 DEF Next

(* However many questions are asked, no sibling starts more than one tool   *)
(* while the gate is closed.                                                *)
THEOREM RunsAheadByOne == Spec => []AtMostOneAhead
<1>1. Init => AheadInv
  BY DEF Init, AheadInv
<1>2. TypeOK /\ AheadInv /\ [Next]_vars => AheadInv'
  BY AheadStep
<1>3. AheadInv => AtMostOneAhead
  BY DEF AheadInv, AtMostOneAhead
<1>4. Spec => []TypeOK
  BY GateCorrect, PTL
<1> QED BY <1>1, <1>2, <1>3, <1>4, PTL DEF Spec

(* Until somebody cancels: an answer under way, in a caller's hands or in a *)
(* channel, is for a worker that waits and is no longer registered; each    *)
(* such worker has one answer under way; and a worker that has taken its    *)
(* answer is out of the register.                                           *)
AnswersInv ==
  ~cancelled =>
    /\ \A w \in full : pc[w] = "waiting" /\ w \notin hitl
    /\ \A k \in Callers : caller[k] \in {"check", "send"} =>
         pc[to[k]] = "waiting" /\ to[k] \notin hitl /\ to[k] \notin full
    /\ \A k, l \in Callers :
         to[k] = to[l] /\ {caller[k], caller[l]} \subseteq {"check", "send"} => k = l
    /\ \A w \in Workers : pc[w] = "disarming" => w \notin hitl

(* Each step keeps the answers apart.  Find picks a registered worker, which *)
(* by the invariant nobody else serves and which has not yet been answered;  *)
(* a new batch starts with no answer under way.                              *)
LEMMA AnswersStep ==
  ASSUME TypeOK, Places, AnswersInv, [Next]_vars PROVE AnswersInv'
<1> USE DEF TypeOK, AnswersInv, WorkerPc, CallerPc, Goto, CallerGoto,
      gateVars, askVars, loopVars, callerVars, batchVars
<1>1. ASSUME NEW w \in Workers, Worker(w) PROVE AnswersInv'
  <2>1. CASE Top(w)        BY <2>1 DEF Top
  <2>2. CASE Think(w)      BY <2>2 DEF Think, NextCall
  <2>3. CASE PassGate(w)   BY <2>3 DEF PassGate
  <2>4. CASE StartTool(w)  BY <2>4 DEF StartTool
  <2>5. CASE EndTool(w)    BY <2>5 DEF EndTool, Continue, NextCall
  <2>6. CASE Register(w)   BY <2>6 DEF Register
  <2>7. CASE Pause(w)      BY <2>7 DEF Pause
  <2>8. CASE Tell(w)       BY <2>8 DEF Tell
  <2>9. CASE Arm(w)        BY <2>9 DEF Arm
  <2>10. CASE TakeAnswer(w) BY <2>10 DEF TakeAnswer
  <2>11. CASE GiveUp(w)    BY <2>11 DEF GiveUp
  <2>12. CASE Disarm(w)    BY <2>12 DEF Disarm, Continue, NextCall
  <2> QED BY <1>1, <2>1, <2>2, <2>3, <2>4, <2>5, <2>6, <2>7, <2>8, <2>9,
             <2>10, <2>11, <2>12 DEF Worker
<1>2. ASSUME NEW k \in Callers, NEW w \in Workers, Find(k, w) PROVE AnswersInv'
  <2>1. w \in hitl /\ pc[w] \in {"waiting", "disarming"}
    BY <1>2 DEF Find, Answerable, Places
  <2> QED BY <1>2, <2>1 DEF Find
<1>3. ASSUME NEW k \in Callers, Caller(k) PROVE AnswersInv'
  <2>1. CASE Check(k)  BY <2>1 DEF Check
  <2>2. CASE Send(k)   BY <2>2 DEF Send
  <2>3. CASE Resume(k) BY <2>3 DEF Resume
  <2> QED BY <1>3, <2>1, <2>2, <2>3 DEF Caller
<1>4. CASE Cancel   BY <1>4 DEF Cancel
<1>5. CASE NewBatch BY <1>5 DEF NewBatch
<1>6. CASE UNCHANGED vars BY <1>6 DEF vars
<1> QED BY <1>1, <1>2, <1>3, <1>4, <1>5, <1>6 DEF Next

(* Until somebody cancels, an answer reaches the question it was meant for: *)
(* it waits only in the channel of a worker about to take it, and no two    *)
(* callers of ResumeAnyWorkerWithHumanResponse serve one worker.            *)
THEOREM AnswersApart == Spec => []OneAnswerPerQuestion
<1>1. Init => AnswersInv
  BY DEF Init, AnswersInv
<1>2. GateInv /\ AnswersInv /\ [Next]_vars => AnswersInv'
  BY AnswersStep DEF GateInv
<1>3. AnswersInv => OneAnswerPerQuestion
  BY DEF AnswersInv, OneAnswerPerQuestion
<1> QED BY GateAlways, <1>1, <1>2, <1>3, PTL DEF Spec

-----------------------------------------------------------------------------
(***************************************************************************)
(* The dreams, for any number of loops, runs of them and intervals.  A     *)
(* poller runs only while a run does; the stop channel of a loop that runs *)
(* for the first time is open until the run closes it; and whoever is      *)
(* about to mark a dream has waited for the cooldown.                      *)
(***************************************************************************)

DreamTypes ==
  /\ now \in Nat /\ dead \in BOOLEAN
  /\ runAt \in [DreamLoops -> {"ready", "started", "executing", "closing", "waiting", "done"}]
  /\ poller \in [DreamLoops -> {"none", "new", "select", "check", "mark"} \cup Dreaming]
  /\ due \in [DreamLoops -> Int] /\ lastDreamed \in [DreamLoops -> Int] /\ lastActivity \in [DreamLoops -> Int]
  /\ stopClosed \in [DreamLoops -> BOOLEAN] /\ loopRuns \in [DreamLoops -> Nat]

LoopInv(l) ==
  /\ runAt[l] \in {"ready", "done"} => poller[l] = "none"
  /\ runAt[l] # "ready" => loopRuns[l] >= 1
  /\ stopClosed[l] => loopRuns[l] >= 1
  /\ stopClosed[l] /\ runAt[l] \notin {"waiting", "done"} => loopRuns[l] > 1
  /\ runAt[l] = "ready" => ~stopClosed[l]
  /\ poller[l] = "mark" => now - lastDreamed[l] >= Cooldown

DreamInv == DreamTypes /\ DiesOfReuseOnly /\ \A l \in DreamLoops : LoopInv(l)

(* At the start nothing runs. *)
LEMMA DreamStarts == DreamInit => DreamInv
<1> SUFFICES ASSUME DreamInit PROVE DreamInv
  OBVIOUS
<1>1. Never \in Int
  BY DreamAssumption DEF Never
<1>2. now \in Nat /\ dead = FALSE
  BY DEF DreamInit
<1>3. /\ runAt \in [DreamLoops -> {"ready", "started", "executing", "closing", "waiting", "done"}]
      /\ poller \in [DreamLoops -> {"none", "new", "select", "check", "mark"} \cup Dreaming]
      /\ due \in [DreamLoops -> Int] /\ lastDreamed \in [DreamLoops -> Int] /\ lastActivity \in [DreamLoops -> Int]
      /\ loopRuns \in [DreamLoops -> Nat]
  BY <1>1 DEF DreamInit
<1>4. stopClosed \in [DreamLoops -> BOOLEAN]
  BY DEF DreamInit
<1>5. ASSUME NEW l \in DreamLoops
      PROVE  LoopInv(l)
  <2>1. runAt[l] = "ready" /\ poller[l] = "none"
    BY DEF DreamInit
  <2>2. ~stopClosed[l]
    BY DEF DreamInit
  <2> QED BY <2>1, <2>2 DEF LoopInv
<1>6. DreamTypes
  BY <1>2, <1>3, <1>4 DEF DreamTypes
<1> QED BY <1>2, <1>5, <1>6 DEF DreamInv, DiesOfReuseOnly

(* Each step keeps the types. *)
LEMMA DreamTypesStep ==
  ASSUME DreamTypes, [DreamNext]_dreamVars
  PROVE  DreamTypes'
<1> USE DreamAssumption DEF DreamTypes, timeVars, RunGoes, PollGoes
<1>1. ASSUME NEW l \in DreamLoops, BeginRun(l) \/ RejectInput(l)
      PROVE  DreamTypes'
  BY <1>1 DEF BeginRun, RejectInput
<1>2. ASSUME NEW l \in DreamLoops, RunSteps(l)
      PROVE  DreamTypes'
  <2>1. CASE NotifyActivity(l)
    BY <2>1 DEF NotifyActivity
  <2>2. CASE Executed(l)
    BY <2>2 DEF Executed
  <2>3. CASE CloseStop(l)
    BY <2>3 DEF CloseStop
  <2>4. CASE RunDone(l)
    BY <2>4 DEF RunDone
  <2> QED BY <1>2, <2>1, <2>2, <2>3, <2>4 DEF RunSteps
<1>3. ASSUME NEW l \in DreamLoops, PollSteps(l) \/ PollStops(l)
      PROVE  DreamTypes'
  <2>1. CASE NewTicker(l)
    BY <2>1 DEF NewTicker
  <2>2. CASE Ticked(l)
    <3>1. due[l] + CheckInterval * ((now - due[l]) \div CheckInterval + 1) \in Int
      OBVIOUS
    <3> QED BY <2>2, <3>1 DEF Ticked
  <2>3. CASE MaybeDream(l)
    BY <2>3 DEF MaybeDream
  <2>4. CASE MarkDreamed(l)
    BY <2>4 DEF MarkDreamed, Dreaming
  <2>5. CASE DreamOn(l)
    BY <2>5 DEF DreamOn, Dreaming
  <2>6. CASE PollStops(l)
    BY <2>6 DEF PollStops
  <2> QED BY <1>3, <2>1, <2>2, <2>3, <2>4, <2>5, <2>6 DEF PollSteps
<1>4. CASE TimePasses
  BY <1>4 DEF TimePasses
<1>5. CASE UNCHANGED dreamVars
  BY <1>5 DEF dreamVars
<1> QED BY <1>1, <1>2, <1>3, <1>4, <1>5 DEF DreamNext

(* Each step keeps what the invariant says of a loop, and spaces its dreams. *)
LEMMA LoopStep ==
  ASSUME DreamInv, DreamTypes', DreamNext, NEW k \in DreamLoops
  PROVE  /\ LoopInv(k)'
         /\ loopRuns'[k] >= loopRuns[k]
         /\ lastDreamed'[k] # lastDreamed[k] => lastDreamed'[k] - lastDreamed[k] >= Cooldown
<1> DEFINE Goal == /\ LoopInv(k)'
                   /\ loopRuns'[k] >= loopRuns[k]
                   /\ lastDreamed'[k] # lastDreamed[k] => lastDreamed'[k] - lastDreamed[k] >= Cooldown
<1>0. DreamTypes /\ LoopInv(k)
  BY DEF DreamInv
<1> USE DreamAssumption DEF DreamTypes, LoopInv, timeVars, RunGoes, PollGoes
<1>1. ASSUME NEW l \in DreamLoops, BeginRun(l) \/ RejectInput(l)
      PROVE  Goal
  BY <1>0, <1>1 DEF BeginRun, RejectInput
<1>2. ASSUME NEW l \in DreamLoops, RunSteps(l)
      PROVE  Goal
  <2>1. CASE NotifyActivity(l)
    BY <1>0, <2>1 DEF NotifyActivity
  <2>2. CASE Executed(l)
    BY <1>0, <2>2 DEF Executed
  <2>3. CASE CloseStop(l)
    BY <1>0, <2>3 DEF CloseStop
  <2>4. CASE RunDone(l)
    BY <1>0, <2>4 DEF RunDone
  <2> QED BY <1>2, <2>1, <2>2, <2>3, <2>4 DEF RunSteps
<1>3. ASSUME NEW l \in DreamLoops, PollSteps(l) \/ PollStops(l)
      PROVE  Goal
  <2>1. CASE NewTicker(l)
    BY <1>0, <2>1 DEF NewTicker
  <2>2. CASE Ticked(l)
    BY <1>0, <2>2 DEF Ticked
  <2>3. CASE MaybeDream(l)
    BY <1>0, <2>3 DEF MaybeDream
  <2>4. CASE MarkDreamed(l)
    BY <1>0, <2>4 DEF MarkDreamed
  <2>5. CASE DreamOn(l)
    BY <1>0, <2>5 DEF DreamOn
  <2>6. CASE PollStops(l)
    BY <1>0, <2>6 DEF PollStops
  <2> QED BY <1>3, <2>1, <2>2, <2>3, <2>4, <2>5, <2>6 DEF PollSteps
<1>4. CASE TimePasses
  BY <1>0, <1>4 DEF TimePasses
<1> QED BY <1>1, <1>2, <1>3, <1>4 DEF DreamNext

(* The process dies in the loop that runs a second time.                   *)
LEMMA DeathStep ==
  ASSUME DreamInv, DreamNext, \A k \in DreamLoops : loopRuns'[k] >= loopRuns[k], DreamTypes'
  PROVE  DiesOfReuseOnly'
<1>1. ~dead
  BY DEF DreamNext
<1>2. ASSUME dead'
      PROVE  \E l \in DreamLoops : loopRuns[l] > 1
  <2>1. PICK l \in DreamLoops : CloseStop(l)
    BY <1>1, <1>2 DEF DreamNext, BeginRun, RejectInput, RunSteps, NotifyActivity, Executed, RunDone, PollSteps, PollStops,
       NewTicker, Ticked, MaybeDream, MarkDreamed, DreamOn, TimePasses
  <2>2. stopClosed[l] /\ runAt[l] = "closing"
    BY <1>1, <1>2, <2>1 DEF CloseStop
  <2> QED BY <2>2 DEF DreamInv, LoopInv
<1> QED BY <1>2 DEF DiesOfReuseOnly, DreamInv, DreamTypes

(* Run and Stop with a scheduler (agent_loop.go:196, dream.go:130): nothing *)
(* of it runs when the run is done, a loop that runs once does not bring   *)
(* the process down, and dreams are spaced by the cooldown.                *)
THEOREM DreamsStayQuiet == DreamSpec => DreamsQuiet
<1>1. ASSUME DreamInv, [DreamNext]_dreamVars
      PROVE  /\ DreamInv'
             /\ [\A l \in DreamLoops : lastDreamed'[l] # lastDreamed[l]
                    => lastDreamed'[l] - lastDreamed[l] >= Cooldown]_dreamVars
  <2>1. DreamTypes'
    BY <1>1, DreamTypesStep DEF DreamInv
  <2>2. CASE DreamNext
    BY <1>1, <2>1, <2>2, LoopStep, DeathStep DEF DreamInv
  <2>3. CASE UNCHANGED dreamVars
    <3>1. DreamInv'
      BY <1>1, <2>1, <2>3 DEF dreamVars, timeVars, DreamInv, DiesOfReuseOnly, LoopInv
    <3> QED BY <2>3, <3>1
  <2> QED BY <1>1, <2>2, <2>3
<1>2. DreamInv => DoneIsQuiet /\ DiesOfReuseOnly
  BY DEF DreamInv, LoopInv, DoneIsQuiet
<1> QED BY <1>1, <1>2, DreamStarts, PTL DEF DreamSpec, DreamsQuiet, DreamsSpaced
=============================================================================
