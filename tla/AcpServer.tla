----------------------------- MODULE AcpServer -----------------------------
(***************************************************************************)
(* The ACP server (cmd/acp_server: handler.go, session.go, acp.go).  The    *)
(* read loop answers session/new, session/cancel and session/delete itself  *)
(* and starts a goroutine for each session/prompt.  All sessions share one  *)
(* ReactAgent: its hooks are those registered last, and its human loop has  *)
(* one waiting flag and one channel.  ACP has no human in the loop: the     *)
(* hook answers "proceed" from another goroutine.                           *)
(*                                                                          *)
(* The agent asks as ReactAgent.WaitForHuman does (hook, then isWaiting,    *)
(* then the channel).  session/load and session/list change nothing.  What  *)
(* the code has no defence against is recorded in mishaps.                  *)
(***************************************************************************)
EXTENDS Naturals, Sequences, FiniteSets, SequencesExt

CONSTANTS Sessions, Prompts,   \* identifiers of sessions and session/prompt requests
          MaxQuestions,        \* bound: questions to the human, of all prompts
          MaxCancels,          \* bound: session/cancel requests
          MayDelete, MayFail,  \* whether sessions are deleted, model calls fail
          None                 \* no session, no prompt

Answers == {"error", "cancelled", "end_turn"}

ASSUME AcpAssumption == /\ IsFiniteSet(Prompts)
                        /\ None \notin Prompts \cup Sessions \cup Answers
                        /\ {MaxQuestions, MaxCancels} \subseteq Nat
                        /\ {MayDelete, MayFail} \subseteq BOOLEAN

VARIABLES
  exists,      \* the sessions in SessionManager.sessions
  history,     \* history[s]: Session.Messages
  cancelFn,    \* cancelFn[s]: the prompt whose context Session.cancelFn cancels
  of,          \* of[p]: the session that p is for
  stage,          \* stage[p]: where the goroutine of p stands
  answer,      \* answer[p]: the response to p
  hooks,       \* the prompt whose hooks the agent holds
  by,          \* by[p]: whose hooks the running model call of p has
  isWaiting, responseCh,   \* the agent's human loop; TRUE: an answer is in the channel
  resumers,    \* resumers[p]: goroutines that answer for the hooks of p
  questions, cancels,      \* counters of the bounds
  cancelled,   \* prompts whose context was cancelled by a request
  updates,     \* history: <<p, s>>: output of p was sent as an update of s
  wanted,      \* history: prompts in flight on a session when it was cancelled
  mishaps      \* history

sessVars  == <<exists, history, cancelFn>>
agentVars == <<hooks, by, isWaiting, responseCh, resumers, questions>>
histVars  == <<updates, wanted, mishaps>>
acpServerVars == <<sessVars, of, stage, answer, agentVars, cancels, cancelled, histVars>>

Proceed(p, l)  == stage' = [stage EXCEPT ![p] = l]
InFlight    == {p \in Prompts : stage[p] \notin {"unsent", "ended"}}
Reply(p, r) == answer' = [answer EXCEPT ![p] = r] /\ Proceed(p, "ended")
(* promptCtx is done: cancelled, or the handler has returned. *)
CtxDone(p)  == p \in cancelled \/ stage[p] = "ended"

AcpServerInit ==
  /\ exists = {} /\ history = [s \in Sessions |-> <<>>]
  /\ cancelFn = [s \in Sessions |-> None]
  /\ of = [p \in Prompts |-> None] /\ stage = [p \in Prompts |-> "unsent"]
  /\ answer = [p \in Prompts |-> None]
  /\ hooks = None /\ by = [p \in Prompts |-> None]
  /\ isWaiting = FALSE /\ responseCh = FALSE /\ resumers = [p \in Prompts |-> 0]
  /\ questions = 0 /\ cancels = 0 /\ cancelled = {}
  /\ updates = {} /\ wanted = {} /\ mishaps = {}
-----------------------------------------------------------------------------
(* The read loop. *)

New(s) ==
  /\ s \notin exists /\ \A p \in Prompts : of[p] # s
  /\ exists' = exists \cup {s}
  /\ UNCHANGED <<history, cancelFn, of, stage, answer, agentVars, cancels, cancelled, histVars>>

(* session/prompt is dispatched to a goroutine. *)
Send(p, s) ==
  /\ stage[p] = "unsent" /\ s \in exists
  /\ of' = [of EXCEPT ![p] = s] /\ Proceed(p, "sent")
  /\ mishaps' = mishaps \cup (IF InFlight # {} THEN {"overlap"} ELSE {})
                        \cup (IF \E q \in InFlight : of[q] = s THEN {"sameSession"} ELSE {})
  /\ UNCHANGED <<sessVars, answer, agentVars, cancels, cancelled, updates, wanted>>

(* session/cancel: a session that no prompt has begun on acknowledges it,   *)
(* and nothing happens.                                                     *)
Cancel(s) ==
  /\ s \in exists /\ cancels < MaxCancels
  /\ cancels' = cancels + 1
  /\ cancelled' = cancelled \cup ({cancelFn[s]} \cap InFlight)
  /\ wanted' = wanted \cup {p \in InFlight : of[p] = s}
  /\ mishaps' = mishaps \cup
       (IF \E p \in InFlight : of[p] = s /\ stage[p] = "sent" THEN {"missed"} ELSE {})
  /\ UNCHANGED <<sessVars, of, stage, answer, agentVars, updates>>

(* session/delete does not cancel what runs. *)
Delete(s) ==
  /\ MayDelete /\ s \in exists
  /\ exists' = exists \ {s}
  /\ UNCHANGED <<history, cancelFn, of, stage, answer, agentVars, cancels, cancelled, histVars>>
-----------------------------------------------------------------------------
(* handleSessionPrompt. *)

Begin(p) ==
  /\ stage[p] = "sent" /\ of[p] \in exists
  /\ cancelFn' = [cancelFn EXCEPT ![of[p]] = p]
  /\ Proceed(p, "began")
  /\ UNCHANGED <<exists, history, of, answer, agentVars, cancels, cancelled, histVars>>

NotFound(p) ==
  /\ stage[p] = "sent" /\ of[p] \notin exists
  /\ Reply(p, "error")
  /\ UNCHANGED <<sessVars, of, agentVars, cancels, cancelled, histVars>>

(* Mutant: the hooks of the first prompt stay. *)
Hook_Once(p) ==
  /\ stage[p] = "began"
  /\ hooks' = IF hooks = None THEN p ELSE hooks
  /\ Proceed(p, "step")
  /\ UNCHANGED <<sessVars, of, answer, by, isWaiting, responseCh, resumers, questions, cancels,
                 cancelled, histVars>>

(* RegisterEventHooks: on the shared agent. *)
Hook(p) ==
  /\ stage[p] = "began"
  /\ hooks' = p
  /\ Proceed(p, "step")
  /\ UNCHANGED <<sessVars, of, answer, by, isWaiting, responseCh, resumers, questions, cancels,
                 cancelled, histVars>>

(* A step of the ReAct loop: the model is called with the present hooks ... *)
CallModel(p) ==
  /\ stage[p] = "step" /\ p \notin cancelled
  /\ by' = [by EXCEPT ![p] = hooks]
  /\ Proceed(p, "model")
  /\ UNCHANGED <<sessVars, of, answer, hooks, isWaiting, responseCh, resumers, questions,
                 cancels, cancelled, histVars>>

(* Mutant: the hook does not answer. *)
Ask_NoResume(p) ==
  /\ stage[p] = "model" /\ questions < MaxQuestions
  /\ questions' = questions + 1
  /\ updates' = updates \cup {<<p, of[by[p]]>>}
  /\ Proceed(p, "asking")
  /\ UNCHANGED <<sessVars, of, answer, hooks, by, isWaiting, responseCh, resumers, cancels,
                 cancelled, wanted, mishaps>>

(* ... it streams, and asks the human: the hook starts a goroutine, or ... *)
Ask(p) ==
  /\ stage[p] = "model" /\ questions < MaxQuestions
  /\ questions' = questions + 1
  /\ updates' = updates \cup {<<p, of[by[p]]>>}
  /\ resumers' = [resumers EXCEPT ![hooks] = @ + 1]
  /\ Proceed(p, "asking")
  /\ UNCHANGED <<sessVars, of, answer, hooks, by, isWaiting, responseCh, cancels, cancelled,
                 wanted, mishaps>>

(* ... it streams its reply and has nothing more to do. *)
Finish(p) ==
  /\ stage[p] = "model"
  /\ updates' = updates \cup {<<p, of[by[p]]>>}
  /\ Proceed(p, "appendUser")
  /\ UNCHANGED <<sessVars, of, answer, agentVars, cancels, cancelled, wanted, mishaps>>

Arm(p) ==
  /\ stage[p] = "asking"
  /\ isWaiting' = TRUE
  /\ Proceed(p, "waiting")
  /\ UNCHANGED <<sessVars, of, answer, hooks, by, responseCh, resumers, questions, cancels,
                 cancelled, histVars>>

Wake(p) ==
  /\ stage[p] = "waiting" /\ responseCh
  /\ responseCh' = FALSE /\ isWaiting' = FALSE
  /\ Proceed(p, "step")
  /\ UNCHANGED <<sessVars, of, answer, hooks, by, resumers, questions, cancels, cancelled,
                 histVars>>

(* Execute returns the context's error. *)
Abort(p) ==
  /\ stage[p] \in {"step", "model", "waiting"} /\ p \in cancelled
  /\ isWaiting' = IF stage[p] = "waiting" THEN FALSE ELSE isWaiting
  /\ Reply(p, "cancelled")
  /\ UNCHANGED <<sessVars, of, hooks, by, responseCh, resumers, questions, cancels, cancelled,
                 histVars>>

Appended(p, role) ==
  IF of[p] \in exists THEN [history EXCEPT ![of[p]] = Append(@, <<p, role>>)] ELSE history

(* Every error of Execute is answered with the stop reason "cancelled". *)
Fail(p) ==
  /\ stage[p] = "model" /\ MayFail
  /\ Reply(p, "cancelled")
  /\ UNCHANGED <<sessVars, of, agentVars, cancels, cancelled, histVars>>

(* AppendMessage takes the lock for each message; that the session has been *)
(* deleted is a warning.                                                    *)
AppendUser(p) ==
  /\ stage[p] = "appendUser"
  /\ history' = Appended(p, "user")
  /\ Proceed(p, "appendReply")
  /\ UNCHANGED <<exists, cancelFn, of, answer, agentVars, cancels, cancelled, histVars>>

AppendReply(p) ==
  /\ stage[p] = "appendReply"
  /\ history' = Appended(p, "assistant")
  /\ Reply(p, "end_turn")
  /\ UNCHANGED <<exists, cancelFn, of, agentVars, cancels, cancelled, histVars>>
-----------------------------------------------------------------------------
(* The goroutine of OnWaitForHumanAction: ResumeWithHumanResponse refuses   *)
(* when nobody waits, fills the channel when there is room, and gives up    *)
(* when the context of its prompt is done.                                  *)
Resume(p) ==
  /\ resumers[p] > 0
  /\ \/ /\ ~isWaiting
        /\ mishaps' = mishaps \cup
             (IF \E q \in Prompts : stage[q] = "asking" THEN {"early"} ELSE {})
        /\ UNCHANGED responseCh
     \/ isWaiting /\ ~responseCh /\ responseCh' = TRUE /\ UNCHANGED mishaps
     \/ isWaiting /\ CtxDone(p) /\ UNCHANGED <<responseCh, mishaps>>
  /\ resumers' = [resumers EXCEPT ![p] = @ - 1]
  /\ UNCHANGED <<sessVars, of, stage, answer, hooks, by, isWaiting, questions, cancels, cancelled,
                 updates, wanted>>

Handler(p) == \/ Begin(p) \/ NotFound(p) \/ Hook(p) \/ CallModel(p) \/ Ask(p) \/ Finish(p)
              \/ Arm(p) \/ Wake(p) \/ Abort(p) \/ Fail(p)
              \/ AppendUser(p) \/ AppendReply(p)

Client == \E s \in Sessions : \/ New(s) \/ Cancel(s) \/ Delete(s)
                              \/ \E p \in Prompts : Send(p, s)

AcpServerNext == Client \/ \E p \in Prompts : Handler(p) \/ Resume(p)

AcpServerSpec == AcpServerInit /\ [][AcpServerNext]_acpServerVars

(* Goroutines run; a client need not do anything. *)
AcpServerFairSpec == AcpServerSpec /\ \A p \in Prompts : WF_acpServerVars(Handler(p)) /\ WF_acpServerVars(Resume(p))
-----------------------------------------------------------------------------
(* Properties. *)

Mishap(S) == mishaps \cap S # {}

AcpServerTypeOK ==
  /\ exists \subseteq Sessions /\ cancelled \subseteq Prompts
  /\ \A s \in Sessions : cancelFn[s] = None \/ of[cancelFn[s]] = s
  /\ hooks \in Prompts \cup {None}
  /\ \A p \in Prompts :
       /\ stage[p] \in {"unsent", "sent", "began", "step", "model", "asking", "waiting",
                     "appendUser", "appendReply", "ended"}
       /\ (stage[p] = "ended") <=> (answer[p] # None)
       /\ resumers[p] \in 0 .. MaxQuestions
  /\ isWaiting /\ ~Mishap({"overlap"}) => \E p \in Prompts : stage[p] = "waiting"

(* What the client is shown of a prompt carries the session of that prompt, *)
(* unless prompts overlapped: they share one agent, and its hooks.          *)
UpdatesRouted == ~Mishap({"overlap"}) => \A u \in updates : u[2] = of[u[1]]

(* A session's history holds, for each prompt that ended its turn and for   *)
(* no other, what the user said and then the reply, once and together:      *)
(* unless prompts overlapped on the session, or it was deleted.             *)
HistoryExact ==
  ~Mishap({"sameSession"}) =>
    \A s \in exists :
      LET h == history[s]
          Ended(r) == {p \in Prompts : of[p] = s /\ answer[p] = r}
          Half     == {p \in Prompts : of[p] = s /\ stage[p] = "appendReply"} IN
      /\ \A i \in DOMAIN h : h[i][2] = IF i % 2 = 1 THEN "user" ELSE "assistant"
      /\ \A i \in DOMAIN h : i % 2 = 0 => h[i][1] = h[i - 1][1]
      /\ {h[i][1] : i \in DOMAIN h} = Ended("end_turn") \cup Half
      /\ Len(h) = 2 * Cardinality(Ended("end_turn")) + Cardinality(Half)

(* A cancel that was acknowledged reached the prompt in flight, unless its  *)
(* goroutine had not begun, or two prompts were in flight on the session.   *)
CancelReaches ==
  ~Mishap({"missed", "sameSession"}) => \A p \in wanted : p \in cancelled

(* A cancelled prompt is answered, whatever else goes wrong. *)
CancelEnds == \A p \in Prompts : p \in cancelled ~> stage[p] = "ended"

(* Every prompt is answered, also when the agent asks a human, unless an    *)
(* automatic answer came before the agent listened, or prompts overlapped.  *)
AllAnswered == []~Mishap({"early", "overlap"}) =>
                 \A p \in Prompts : stage[p] = "sent" ~> stage[p] = "ended"

(* Sessions do not disturb each other although they share the agent         *)
(* (handleSessionPrompt): updates, histories and cancels go where they      *)
(* belong, but for the mishaps.                                             *)
SessionsApart == AcpServerTypeOK /\ UpdatesRouted /\ HistoryExact /\ CancelReaches

(* Every prompt is answered: when it is cancelled, and when the agent asks. *)
EveryPromptEnds == CancelEnds /\ AllAnswered
============================================================================
