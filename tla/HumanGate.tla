----------------------------- MODULE HumanGate -----------------------------
(***************************************************************************)
(* The workers of one DAG asking a human (runtime/engine/infra/react.go,    *)
(* pause_gate.go; runtime/engine/dag/dag.go).  A worker that calls          *)
(* ask_human registers itself with the executor, closes the shared pause    *)
(* gate, notifies the user, and then waits on a channel of its own; every   *)
(* tool call of every worker first waits for the gate.  A caller of         *)
(* ResumeAnyWorkerWithHumanResponse takes some waiting worker out of the    *)
(* register, puts the answer into its channel and reopens the gate.         *)
(*                                                                          *)
(* The gate is a count under a mutex with a condition variable: waiting is  *)
(* a guard on the count.  The notification (OnWaitForHumanAction) runs the  *)
(* framework's hook before the user's (core.Chain).                         *)
(***************************************************************************)
EXTENDS Naturals, FiniteSets

CONSTANTS Workers,      \* the workers of a batch, by task
          Callers,      \* goroutines that deliver answers
          MaxCalls,     \* bound: tool calls of a worker (maxSteps in the code)
          MaxBatches,   \* bound: batches that share the gate
          MayCancel,    \* whether the context may be cancelled
          NoWorker      \* no worker (the nil of target)

ASSUME GateAssumption == /\ IsFiniteSet(Workers) /\ IsFiniteSet(Callers)
                         /\ NoWorker \notin Workers
                         /\ MaxCalls \in Nat /\ MaxBatches \in Nat
                         /\ MayCancel \in BOOLEAN

VARIABLES
  paused,      \* PauseGate.paused
  hitl,        \* the workers in DAGTaskExecutor.hitlAgents
  waiting,     \* the workers whose humanLoop.isWaiting is set
  full,        \* the workers whose responseCh (capacity 1) holds an answer
  pc,          \* pc[w]: where the ReAct loop of w stands
  calls,       \* tool calls w has made in this batch
  caller,      \* caller[k]: where a ResumeAnyWorkerWithHumanResponse stands
  to,          \* to[k]: the worker it has picked
  cancelled,   \* the context of the batch is cancelled
  batches,     \* batches so far
  ahead        \* history: tools w has started since the gate last closed

gateVars   == <<paused, ahead>>
askVars    == <<hitl, waiting, full>>
loopVars   == <<pc, calls>>
callerVars == <<caller, to>>
batchVars  == <<cancelled, batches>>
vars == <<gateVars, askVars, loopVars, callerVars, batchVars>>

WorkerPc == {"top", "thinking", "gated", "passed", "tool", "registered",
             "telling", "arming", "waiting", "disarming", "done"}
CallerPc == {"idle", "check", "send", "resume"}

Goto(w, l) == pc' = [pc EXCEPT ![w] = l]

Init ==
  /\ paused = 0 /\ ahead = [w \in Workers |-> 0]
  /\ hitl = {} /\ waiting = {} /\ full = {}
  /\ pc = [w \in Workers |-> "top"] /\ calls = [w \in Workers |-> 0]
  /\ caller = [k \in Callers |-> "idle"] /\ to = [k \in Callers |-> NoWorker]
  /\ cancelled = FALSE /\ batches = 1
-----------------------------------------------------------------------------
(* The ReAct loop of worker w. *)

(* The top of the loop looks at the abort signal and the context. *)
Top(w) ==
  /\ pc[w] = "top"
  /\ Goto(w, IF cancelled THEN "done" ELSE "thinking")
  /\ UNCHANGED <<gateVars, askVars, calls, callerVars, batchVars>>

(* The next tool call of a message; a call goes to callTool and the gate. *)
NextCall(w) ==
  /\ calls[w] < MaxCalls
  /\ calls' = [calls EXCEPT ![w] = @ + 1]
  /\ Goto(w, "gated")

(* The model answers with tool calls, or with none (or an error): the end. *)
Think(w) ==
  /\ pc[w] = "thinking"
  /\ \/ NextCall(w)
     \/ Goto(w, "done") /\ UNCHANGED calls
  /\ UNCHANGED <<gateVars, askVars, callerVars, batchVars>>

(* After a call: another one of the same message, without a look at the     *)
(* context; back to the top; or the end, after a terminating tool.          *)
Continue(w) == \/ NextCall(w)
               \/ Goto(w, "top") /\ UNCHANGED calls
               \/ Goto(w, "done") /\ UNCHANGED calls

(* Mutant: callTool does not look at the gate. *)
PassGate_Open(w) ==
  /\ pc[w] = "gated"
  /\ Goto(w, "passed")
  /\ UNCHANGED <<gateVars, askVars, calls, callerVars, batchVars>>

(* WaitIfPaused, which does not look at the context. *)
PassGate(w) ==
  /\ pc[w] = "gated" /\ paused = 0
  /\ Goto(w, "passed")
  /\ UNCHANGED <<gateVars, askVars, calls, callerVars, batchVars>>

(* An ordinary tool runs, without holding the gate. *)
StartTool(w) ==
  /\ pc[w] = "passed"
  /\ Goto(w, "tool")
  /\ ahead' = IF paused > 0 THEN [ahead EXCEPT ![w] = @ + 1] ELSE ahead
  /\ UNCHANGED <<paused, askVars, calls, callerVars, batchVars>>

EndTool(w) ==
  /\ pc[w] = "tool"
  /\ Continue(w)
  /\ UNCHANGED <<gateVars, askVars, callerVars, batchVars>>

(* ask_human: the executor's hook first enters the agent in hitlAgents ... *)
Register(w) ==
  /\ pc[w] = "passed"
  /\ hitl' = hitl \cup {w}
  /\ Goto(w, "registered")
  /\ UNCHANGED <<gateVars, waiting, full, calls, callerVars, batchVars>>

(* ... then closes the gate ... *)
Pause(w) ==
  /\ pc[w] = "registered"
  /\ paused' = paused + 1
  /\ ahead' = IF paused = 0 THEN [u \in Workers |-> 0] ELSE ahead
  /\ Goto(w, "telling")
  /\ UNCHANGED <<askVars, calls, callerVars, batchVars>>

(* ... and then the user's hook learns of the question. *)
Tell(w) ==
  /\ pc[w] = "telling"
  /\ Goto(w, "arming")
  /\ UNCHANGED <<gateVars, askVars, calls, callerVars, batchVars>>

(* Only now can an answer find the worker. *)
Arm(w) ==
  /\ pc[w] = "arming"
  /\ waiting' = waiting \cup {w}
  /\ Goto(w, "waiting")
  /\ UNCHANGED <<gateVars, hitl, full, calls, callerVars, batchVars>>

TakeAnswer(w) ==
  /\ pc[w] = "waiting" /\ w \in full
  /\ full' = full \ {w}
  /\ Goto(w, "disarming")
  /\ UNCHANGED <<gateVars, hitl, waiting, calls, callerVars, batchVars>>

(* The context ends the wait.  Neither the register nor the gate changes. *)
GiveUp(w) ==
  /\ pc[w] = "waiting" /\ cancelled
  /\ Goto(w, "disarming")
  /\ UNCHANGED <<gateVars, askVars, calls, callerVars, batchVars>>

Disarm(w) ==
  /\ pc[w] = "disarming"
  /\ waiting' = waiting \ {w}
  /\ Continue(w)
  /\ UNCHANGED <<gateVars, hitl, full, callerVars, batchVars>>
-----------------------------------------------------------------------------
(* A call of ResumeAnyWorkerWithHumanResponse. *)

CallerGoto(k, l) == caller' = [caller EXCEPT ![k] = l]

Answerable == hitl \cap waiting

(* Mutant: the agent stays registered. *)
Find_Keep(k, w) ==
  /\ caller[k] = "idle" /\ w \in Answerable
  /\ to' = [to EXCEPT ![k] = w]
  /\ CallerGoto(k, "check")
  /\ UNCHANGED <<gateVars, askVars, loopVars, batchVars>>

(* Under hitlMu: some registered agent that is waiting, whichever the map   *)
(* iteration meets first, leaves the register.  With none the call fails    *)
(* and changes nothing.                                                     *)
Find(k, w) ==
  /\ caller[k] = "idle" /\ w \in Answerable
  /\ to' = [to EXCEPT ![k] = w] /\ hitl' = hitl \ {w}
  /\ CallerGoto(k, "check")
  /\ UNCHANGED <<gateVars, waiting, full, loopVars, batchVars>>

(* The agent looks at isWaiting again: it may have given up meanwhile. *)
Check(k) ==
  /\ caller[k] = "check"
  /\ CallerGoto(k, IF to[k] \in waiting THEN "send" ELSE "resume")
  /\ UNCHANGED <<gateVars, askVars, loopVars, to, batchVars>>

Send(k) ==
  /\ caller[k] = "send" /\ to[k] \notin full
  /\ full' = full \cup {to[k]}
  /\ CallerGoto(k, "resume")
  /\ UNCHANGED <<gateVars, hitl, waiting, loopVars, to, batchVars>>

(* Mutants: one answer opens the gate for all; it does not open the gate. *)
Resume_All(k) ==
  /\ caller[k] = "resume"
  /\ paused' = 0
  /\ CallerGoto(k, "idle") /\ to' = [to EXCEPT ![k] = NoWorker]
  /\ UNCHANGED <<ahead, askVars, loopVars, batchVars>>

Resume_Never(k) ==
  /\ caller[k] = "resume"
  /\ CallerGoto(k, "idle") /\ to' = [to EXCEPT ![k] = NoWorker]
  /\ UNCHANGED <<gateVars, askVars, loopVars, batchVars>>

(* The gate is resumed whether or not the answer was delivered. *)
Resume(k) ==
  /\ caller[k] = "resume"
  /\ paused' = IF paused > 0 THEN paused - 1 ELSE 0
  /\ CallerGoto(k, "idle") /\ to' = [to EXCEPT ![k] = NoWorker]
  /\ UNCHANGED <<ahead, askVars, loopVars, batchVars>>
-----------------------------------------------------------------------------
(* The surroundings. *)

(* The user, or a sibling's drift rollback, cancels the batch's context. *)
Cancel ==
  /\ MayCancel /\ ~cancelled
  /\ cancelled' = TRUE
  /\ UNCHANGED <<gateVars, askVars, loopVars, callerVars, batches>>

Ended == \A w \in Workers : pc[w] = "done"

(* Another batch of the same executor, on the same gate and register, with  *)
(* new agents: an answer still on its way goes to an agent nobody reads.    *)
NewBatch ==
  /\ Ended /\ batches < MaxBatches
  /\ batches' = batches + 1 /\ cancelled' = FALSE
  /\ pc' = [w \in Workers |-> "top"] /\ calls' = [w \in Workers |-> 0]
  /\ waiting' = {} /\ full' = {}
  /\ caller' = [k \in Callers |-> IF caller[k] = "idle" THEN "idle" ELSE "resume"]
  /\ UNCHANGED <<gateVars, hitl, to>>

Worker(w) == \/ Top(w) \/ Think(w) \/ PassGate(w) \/ StartTool(w) \/ EndTool(w)
             \/ Register(w) \/ Pause(w) \/ Tell(w) \/ Arm(w)
             \/ TakeAnswer(w) \/ GiveUp(w) \/ Disarm(w)

Caller(k) == Check(k) \/ Send(k) \/ Resume(k)

Next == \/ \E w \in Workers : Worker(w)
        \/ \E k \in Callers : Caller(k) \/ \E w \in Workers : Find(k, w)
        \/ Cancel
        \/ NewBatch

Spec == Init /\ [][Next]_vars

(* Goroutines run; and the caller is patient: as long as some worker waits  *)
(* to be answered (HumanLoopWaiting), it calls again until one is.          *)
Fairness == /\ \A w \in Workers : WF_vars(Worker(w))
            /\ \A k \in Callers : WF_vars(Caller(k) \/ \E w \in Workers : Find(k, w))
            /\ WF_vars(NewBatch)

FairSpec == Spec /\ Fairness
-----------------------------------------------------------------------------
(* Properties. *)

Asking == {"telling", "arming", "waiting"}

TypeOK ==
  /\ paused \in Nat /\ ahead \in [Workers -> Nat]
  /\ hitl \subseteq Workers /\ waiting \subseteq Workers /\ full \subseteq Workers
  /\ pc \in [Workers -> WorkerPc] /\ calls \in [Workers -> Nat]
  /\ caller \in [Callers -> CallerPc] /\ to \in [Callers -> Workers \cup {NoWorker}]
  /\ \A k \in Callers : caller[k] \in {"check", "send"} => to[k] \in Workers
  /\ cancelled \in BOOLEAN /\ batches \in Nat

(* What the gate's count stands for: registered questions that have closed  *)
(* it, and calls in progress, which have yet to reopen it.                  *)
OpenQuestions == {w \in hitl : pc[w] # "registered"}
OpenCalls     == {k \in Callers : caller[k] # "idle"}

(* The gate's count is accounted for: one for every registered question     *)
(* that has closed it, one for every answer that has still to reopen it.    *)
(* So Resume never meets a count of zero, and nobody opens the gate early.  *)
PauseAccount == paused = Cardinality(OpenQuestions) + Cardinality(OpenCalls)

(* While a question is open and no answer is on its way to it, the gate is  *)
(* closed, however many other questions are answered meanwhile.             *)
GateClosed == \A w \in Workers : pc[w] \in Asking /\ w \in hitl => paused > 0

(* An answer waits only in the channel of a worker that is about to take    *)
(* it, never for that worker's next question, and no two callers carry an   *)
(* answer for one worker.  (Once the context is cancelled a worker may give *)
(* up just before its answer comes, which its next question then finds.)    *)
OneAnswerPerQuestion ==
  ~cancelled =>
    /\ \A w \in full : pc[w] = "waiting" /\ w \notin hitl
    /\ \A k, l \in Callers :
         to[k] = to[l] /\ {caller[k], caller[l]} \subseteq {"check", "send"} => k = l

(* A sibling runs ahead of the human by at most the call whose gate check   *)
(* it had passed when the gate closed (react.go:409-410: "a single check    *)
(* is enough").                                                             *)
AtMostOneAhead == \A w \in Workers : ahead[w] <= 1

(* Every batch ends: whoever asks is answered, whoever waits at the gate    *)
(* gets through, as long as nobody cancels.                                 *)
AllEnd == []~cancelled => []<>Ended

(* Also when the context is cancelled: README.md:529 says "pause is         *)
(* cancelled via context".  It fails: the gate stays closed when a wait is  *)
(* cancelled, and whoever is at the gate stays there.                       *)
AllEndCancelled == []<>Ended
============================================================================
