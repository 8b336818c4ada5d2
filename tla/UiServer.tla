------------------------------ MODULE UiServer ------------------------------
(***************************************************************************)
(* One chat session of the web UI (cmd/kugelblitz-ui: chat.go, session.go,  *)
(* hitl.go).  Every POST /api/chat is a turn: its handler resets the        *)
(* session's turn state, runs an agent loop of its own, and in an event     *)
(* loop passes human answers to the loop until it is done and the turn is   *)
(* archived.  Other handlers answer, cancel and delete at any time.         *)
(*                                                                          *)
(* A loop is its main agent and, while it executes a plan, the workers of   *)
(* a batch.  The handler's hooks go to all of them (kernel.go:95), so all   *)
(* of them ask over the session's one flag, one question and one channel,   *)
(* and the loop gives an answer to whichever of them waits.  HumanGate has  *)
(* the register and the pause gate of the workers step by step; here a      *)
(* worker's question closes the gate and is shown in one step, and its      *)
(* answer is delivered and opens the gate in one step.                      *)
(*                                                                          *)
(* hitlCh is named by the turn that made it.  What the code has no defence  *)
(* against is recorded in mishaps, and the properties say which of them     *)
(* they exclude.                                                            *)
(***************************************************************************)
EXTENDS Naturals, Sequences, FiniteSets, SequencesExt

CONSTANTS Turns,          \* POST /api/chat requests on the session
          Main, Workers,  \* the agents of a loop: the main one, and one for each task
          Budgets,        \* bounds: what may happen, in one behaviour or another
          None            \* no turn, no question, no channel (nil)

Agents == Workers \cup {Main}

(* The turns that are sent, tool calls of all agents, batches of all loops, *)
(* clients whose connection closes, and whether deletes and errors happen.  *)
Budget == [turns : SUBSET Turns, calls : Nat, batches : Nat, drops : Nat,
           deletes : BOOLEAN, fails : BOOLEAN]

ASSUME UiAssumption == /\ IsFiniteSet(Turns) /\ None \notin Turns
                       /\ IsFiniteSet(Workers) /\ Main \notin Workers
                       /\ Budgets \subseteq Budget

VARIABLES
  present,    \* the session is in SessionManager.sessions
  file,       \* its JSON file: its state, turns and total usage
  chan,       \* session.hitlCh: the turn that made it
  box,        \* box[t]: what is in the channel made by t
  waiting, question,       \* session.hitlWaiting, hitlInfo
  messages, usage, goal,   \* turnMessages, turnUsage.Total, Goal
  framework,  \* FrameworkSessionID: the turn whose loop made it
  cancelFn,   \* session.cancelFn: whose context it cancels
  pc,         \* pc[t]: where the handler of t stands
  sel,        \* sel[t]: the channel its select reads
  agent,      \* agent[t][a]: what agent a of t does
  asked,      \* asked[t][a]: its questions
  got,        \* got[t][a]: the question whose answer reached it last
  paused,     \* paused[t]: the count of the workers' pause gate
  cut,        \* the turns whose batch a rollback has cancelled
  reports,    \* reports[t]: the usage of its calls of the model
  said,       \* said[t]: there is reply text, of any agent
  budget,     \* bound: what may still happen
  cancelled, gone,         \* turns whose context is cancelled; clients gone
  mishaps     \* history

storeVars == <<present, file>>
askVars   == <<chan, box, waiting, question>>
accVars   == <<messages, usage, goal>>
turnVars  == <<pc, sel, framework, cancelFn>>
agentVars == <<agent, asked, got>>
loopVars  == <<paused, cut, budget>>
talkVars  == <<reports, said>>
endVars   == <<cancelled, gone>>
vars == <<storeVars, askVars, accVars, turnVars, agentVars, loopVars, talkVars, endVars, mishaps>>

Goto(t, l) == pc' = [pc EXCEPT ![t] = l]
Active(t)  == pc[t] \notin {"idle", "ended"} \/ agent[t][Main] \notin {"none", "finished"}
NoFile     == [state |-> "none", turns |-> <<>>, usage |-> 0]

(* SessionManager.Create has saved an empty record. *)
Init ==
  /\ present = TRUE /\ file = [NoFile EXCEPT !.state = "good"]
  /\ chan = None /\ box = [t \in Turns |-> None] /\ waiting = FALSE /\ question = None
  /\ messages = {} /\ usage = 0 /\ goal = None
  /\ framework = None /\ cancelFn = None
  /\ pc = [t \in Turns |-> "idle"] /\ sel = [t \in Turns |-> None]
  /\ agent = [t \in Turns |-> [a \in Agents |-> "none"]]
  /\ asked = [t \in Turns |-> [a \in Agents |-> 0]]
  /\ got = [t \in Turns |-> [a \in Agents |-> None]]
  /\ paused = [t \in Turns |-> 0] /\ cut = {} /\ budget \in Budgets
  /\ reports = [t \in Turns |-> 0] /\ said = [t \in Turns |-> FALSE]
  /\ cancelled = {} /\ gone = {} /\ mishaps = {}
-----------------------------------------------------------------------------
(* handleChat up to the event loop. *)

(* Mutant: the turn's messages and usage are not reset. *)
Reset_KeepTurn(t) ==
  /\ pc[t] = "idle" /\ present /\ t \in budget.turns
  /\ chan' = t /\ box' = [box EXCEPT ![t] = None]
  /\ goal' = t /\ messages' = messages \cup {<<t, "user">>}
  /\ mishaps' = mishaps \cup (IF \E u \in Turns \ {t} : Active(u) THEN {"overlap"} ELSE {})
                        \cup (IF waiting THEN {"stale"} ELSE {})
  /\ Goto(t, "reset")
  /\ UNCHANGED <<storeVars, waiting, question, usage, sel, framework, cancelFn, agentVars,
                 loopVars, talkVars, endVars>>

(* GetOrCreate finds the session (a turn that does not find it gets a new   *)
(* one); the turn state is reset, under the session's lock, all but the     *)
(* waiting flag and its question.  Nothing stops a second turn.             *)
Reset(t) ==
  /\ pc[t] = "idle" /\ present /\ t \in budget.turns
  /\ chan' = t /\ box' = [box EXCEPT ![t] = None]
  /\ goal' = t /\ messages' = {<<t, "user">>} /\ usage' = 0
  /\ mishaps' = mishaps \cup (IF \E u \in Turns \ {t} : Active(u) THEN {"overlap"} ELSE {})
                        \cup (IF waiting THEN {"stale"} ELSE {})
  /\ Goto(t, "reset")
  /\ UNCHANGED <<storeVars, waiting, question, sel, framework, cancelFn, agentVars, loopVars,
                 talkVars, endVars>>

(* The agent loop cannot be made: the error goes to the client. *)
SetupFails(t) ==
  /\ pc[t] = "reset" /\ budget.fails
  /\ Goto(t, "ended")
  /\ UNCHANGED <<storeVars, askVars, accVars, sel, framework, cancelFn, agentVars, loopVars,
                 talkVars, endVars, mishaps>>

(* The cancel function, the hooks, and loop.Run. *)
Setup(t) ==
  /\ pc[t] = "reset"
  /\ cancelFn' = t
  /\ agent' = [agent EXCEPT ![t][Main] = "busy"]
  /\ sel' = [sel EXCEPT ![t] = chan]
  /\ Goto(t, "select")
  /\ UNCHANGED <<storeVars, askVars, accVars, framework, asked, got, loopVars, talkVars,
                 endVars, mishaps>>
-----------------------------------------------------------------------------
(* The agents and their hooks. *)

Become(t, a, s) == agent' = [agent EXCEPT ![t][a] = s]

(* A call of the model, and its hook OnUsageUpdated: addTokenReport.  Usage  *)
(* is counted in calls; one that fails is counted like another.             *)
Report(t) == reports' = [reports EXCEPT ![t] = @ + 1] /\ usage' = usage + 1

(* The main agent starts the ready tasks, and waits in g.Wait. *)
StartBatch(t) ==
  /\ agent[t][Main] = "busy" /\ t \notin cancelled /\ budget.batches > 0
  /\ agent' = [agent EXCEPT ![t] = [a \in Agents |-> IF a = Main THEN "batch" ELSE "busy"]]
  /\ cut' = cut \ {t} /\ budget' = [budget EXCEPT !.batches = @ - 1]
  /\ UNCHANGED <<storeVars, askVars, accVars, turnVars, asked, got, paused, talkVars, endVars,
                 mishaps>>

JoinBatch(t) ==
  /\ agent[t][Main] = "batch"
  /\ \A w \in Workers : agent[t][w] \in {"none", "finished"}
  /\ Become(t, Main, "busy")
  /\ UNCHANGED <<storeVars, askVars, accVars, turnVars, asked, got, loopVars, talkVars,
                 endVars, mishaps>>

(* A worker's model calls a tool ... *)
Call(t, w) ==
  /\ agent[t][w] = "busy" /\ w # Main /\ budget.calls > 0
  /\ budget' = [budget EXCEPT !.calls = @ - 1] /\ Report(t)
  /\ Become(t, w, "gated")
  /\ UNCHANGED <<storeVars, askVars, messages, goal, turnVars, asked, got, paused, cut,
                 said, endVars, mishaps>>

(* ... which waits for the gate, whether or not the context is cancelled. *)
PassGate(t, w) ==
  /\ agent[t][w] = "gated" /\ paused[t] = 0
  /\ Become(t, w, "passed")
  /\ UNCHANGED <<storeVars, askVars, accVars, turnVars, asked, got, loopVars, talkVars,
                 endVars, mishaps>>

UseTool(t, w) ==
  /\ agent[t][w] = "passed"
  /\ Become(t, w, "busy")
  /\ UNCHANGED <<storeVars, askVars, accVars, turnVars, asked, got, loopVars, talkVars,
                 endVars, mishaps>>

Questioning(t) == {a \in Agents : agent[t][a] \in {"asking", "waiting"}}

(* OnWaitForHumanAction shows the question, in the place of the one shown.  *)
Show(t, a) ==
  /\ asked' = [asked EXCEPT ![t][a] = @ + 1]
  /\ waiting' = TRUE /\ question' = <<t, a, asked[t][a] + 1>>
  /\ Become(t, a, "asking")
  /\ mishaps' = IF waiting \/ Questioning(t) # {} THEN mishaps \cup {"crowd"} ELSE mishaps
  /\ UNCHANGED <<storeVars, chan, box, messages, goal, turnVars, got, cut, said, endVars>>

(* ask_human: a worker closes the gate, the main agent has none.            *)
Ask(t, a) ==
  /\ Show(t, a)
  /\ \/ /\ agent[t][a] = "passed"
        /\ paused' = [paused EXCEPT ![t] = @ + 1]
        /\ UNCHANGED <<budget, reports, usage>>
     \/ /\ a = Main /\ agent[t][a] = "busy" /\ budget.calls > 0
        /\ budget' = [budget EXCEPT !.calls = @ - 1] /\ Report(t) /\ UNCHANGED paused

(* Only now can an answer find the agent. *)
Arm(t, a) ==
  /\ agent[t][a] = "asking"
  /\ Become(t, a, "waiting")
  /\ UNCHANGED <<storeVars, askVars, accVars, turnVars, asked, got, loopVars, talkVars,
                 endVars, mishaps>>

(* The context ends the wait; a worker's ends with the batch, too.  The     *)
(* gate stays as it is, and so do the flag and the question.                *)
GiveUp(t, a) ==
  /\ agent[t][a] = "waiting"
  /\ t \in cancelled \/ (a # Main /\ t \in cut)
  /\ Become(t, a, "busy")
  /\ mishaps' = IF a = Main THEN mishaps ELSE mishaps \cup {"shut"}
  /\ UNCHANGED <<storeVars, askVars, accVars, turnVars, asked, got, loopVars, talkVars, endVars>>

(* The agent's last message, an error, or a context that is cancelled; the  *)
(* agent has replied, or it has not.  A task that fails may lead to a       *)
(* rollback, which cancels the batch.                                       *)
End(t, a) ==
  /\ agent[t][a] = "busy"
  /\ Report(t)
  /\ said' \in {said, [said EXCEPT ![t] = TRUE]}
  /\ Become(t, a, "finished")
  /\ cut' = cut \/ (a # Main /\ cut' = cut \cup {t})
  /\ UNCHANGED <<storeVars, askVars, messages, goal, turnVars, asked, got, paused, budget,
                 endVars, mishaps>>
-----------------------------------------------------------------------------
(* The event loop of the handler. *)

(* The main agent, when it waits, or else any worker that does. *)
Listening(t) ==
  IF agent[t][Main] = "waiting" THEN {Main} ELSE {w \in Workers : agent[t][w] = "waiting"}

(* A reply is taken from the channel and passed to ResumeWithHumanResponse: *)
(* when no agent waits (any more, or yet) it refuses, the answer is lost,   *)
(* and the client sees an error event.  The next select reads               *)
(* session.hitlCh again.                                                    *)
Resume(t) ==
  /\ pc[t] = "select" /\ sel[t] # None /\ box[sel[t]] # None
  /\ box' = [box EXCEPT ![sel[t]] = None]
  /\ \/ \E a \in Listening(t) :
          /\ Become(t, a, "busy") /\ got' = [got EXCEPT ![t][a] = box[sel[t]]]
          /\ paused' = IF a = Main \/ paused[t] = 0 THEN paused
                       ELSE [paused EXCEPT ![t] = @ - 1]
          /\ UNCHANGED mishaps
     \/ /\ Listening(t) = {}
        /\ mishaps' = IF Questioning(t) # {} THEN mishaps \cup {"early"} ELSE mishaps
        /\ UNCHANGED <<agent, got, paused>>
  /\ sel' = [sel EXCEPT ![t] = chan]
  /\ UNCHANGED <<storeVars, chan, waiting, question, accVars, pc, framework, cancelFn, asked,
                 cut, budget, talkVars, endVars>>

(* loop.Done: the framework session is kept for the next turn, and reply    *)
(* text, if there is any, becomes a message of the turn.                    *)
Done(t) ==
  /\ pc[t] = "select" /\ agent[t][Main] = "finished"
  /\ framework' = IF framework = None THEN t ELSE framework
  /\ messages' = messages \cup (IF said[t] THEN {<<t, "assistant">>} ELSE {})
  /\ Goto(t, "archive")
  /\ UNCHANGED <<storeVars, askVars, usage, goal, sel, cancelFn, agentVars, loopVars, talkVars,
                 endVars, mishaps>>

(* The client has gone: the loop is cancelled, nothing is archived.         *)
Drop(t) ==
  /\ pc[t] = "select" /\ t \in gone
  /\ cancelFn' = None
  /\ Goto(t, "ended")
  /\ UNCHANGED <<storeVars, askVars, accVars, sel, framework, agentVars, loopVars, talkVars,
                 endVars, mishaps>>

Record == [goal |-> goal, messages |-> messages, usage |-> usage]

(* What ArchiveTurn builds on: an unreadable file counts as none. *)
Loaded == IF file.state = "good" THEN file ELSE NoFile

(* ArchiveTurn, under the manager's lock: the turn's record joins the file, *)
(* which os.WriteFile truncates and writes; the file of a deleted session   *)
(* comes back.                                                              *)
BeginArchive(t) ==
  /\ pc[t] = "archive" /\ \A u \in Turns : pc[u] # "writing"
  /\ file' = [state |-> "torn", turns |-> Append(Loaded.turns, Record),
              usage |-> Loaded.usage + usage]
  /\ mishaps' = IF present THEN mishaps ELSE mishaps \cup {"undeleted"}
  /\ Goto(t, "writing")
  /\ UNCHANGED <<present, askVars, accVars, sel, framework, cancelFn, agentVars, loopVars,
                 talkVars, endVars>>

(* The deferred function drops the cancel function, whoever set it. *)
EndArchive(t) ==
  /\ pc[t] = "writing"
  /\ file' = [file EXCEPT !.state = "good"]
  /\ cancelFn' = None
  /\ Goto(t, "ended")
  /\ UNCHANGED <<present, askVars, accVars, sel, framework, agentVars, loopVars, talkVars,
                 endVars, mishaps>>

(* The write fails half way: a warning in the log. *)
ArchiveFails(t) ==
  /\ pc[t] = "writing" /\ budget.fails
  /\ mishaps' = mishaps \cup {"torn"}
  /\ cancelFn' = None
  /\ Goto(t, "ended")
  /\ UNCHANGED <<storeVars, askVars, accVars, sel, framework, agentVars, loopVars, talkVars,
                 endVars>>
-----------------------------------------------------------------------------
(* The other handlers. *)

(* Mutant: the answer is accepted although the channel is full or missing. *)
RespondHITL_Lost == waiting' = FALSE /\ question' = None /\ UNCHANGED box

(* Mutant: the waiting flag stays set. *)
RespondHITL_Again ==
  /\ chan # None /\ box[chan] = None
  /\ box' = [box EXCEPT ![chan] = question]
  /\ UNCHANGED <<waiting, question>>

(* The answer goes to the present channel, if there is room. *)
RespondHITL ==
  /\ chan # None /\ box[chan] = None
  /\ box' = [box EXCEPT ![chan] = question]
  /\ waiting' = FALSE /\ question' = None

(* handleHITL: the answer to the question that the client was shown; it is  *)
(* refused when none is shown, or the channel is full.                      *)
Respond ==
  /\ present /\ waiting /\ RespondHITL
  /\ UNCHANGED <<storeVars, chan, accVars, turnVars, agentVars, loopVars, talkVars, endVars,
                 mishaps>>

(* handleCancel; a session that is deleted is not found. *)
Cancel ==
  /\ present /\ cancelFn # None
  /\ cancelled' = cancelled \cup {cancelFn} /\ cancelFn' = None
  /\ UNCHANGED <<storeVars, askVars, accVars, pc, sel, framework, agentVars, loopVars, talkVars,
                 gone, mishaps>>

(* The client's connection closes: the request's context is done. *)
Disconnect(t) ==
  /\ pc[t] = "select" /\ t \notin gone /\ Cardinality(gone) < budget.drops
  /\ gone' = gone \cup {t} /\ cancelled' = cancelled \cup {t}
  /\ UNCHANGED <<storeVars, askVars, accVars, turnVars, agentVars, loopVars, talkVars, mishaps>>

(* handleDeleteSession: from the map and from disk, also during a turn. *)
Delete ==
  /\ budget.deletes /\ present /\ \A t \in Turns : pc[t] # "writing"
  /\ present' = FALSE /\ file' = NoFile
  /\ UNCHANGED <<askVars, accVars, turnVars, agentVars, loopVars, talkVars, endVars, mishaps>>

(* What an agent does of itself, and what its model chooses. *)
AgentStep(t, a) == PassGate(t, a) \/ UseTool(t, a) \/ Arm(t, a) \/ GiveUp(t, a) \/ End(t, a)
Choice(t, a) == Call(t, a) \/ Ask(t, a)

Handler(t) == \/ Setup(t) \/ SetupFails(t) \/ Resume(t) \/ Done(t) \/ Drop(t)
              \/ BeginArchive(t) \/ EndArchive(t) \/ ArchiveFails(t)

Next == \/ \E t \in Turns : \/ Reset(t) \/ Handler(t)
                            \/ StartBatch(t) \/ JoinBatch(t)
                            \/ \E a \in Agents : AgentStep(t, a) \/ Choice(t, a)
                            \/ Disconnect(t)
        \/ Respond \/ Cancel \/ Delete

Spec == Init /\ [][Next]_vars

(* Handlers and agents run, and a user answers what is asked. *)
FairSpec == Spec /\ WF_vars(Respond)
                 /\ \A t \in Turns : /\ WF_vars(Handler(t)) /\ WF_vars(JoinBatch(t))
                                     /\ \A a \in Agents : WF_vars(AgentStep(t, a))
-----------------------------------------------------------------------------
(* Properties. *)

Mishap(S) == mishaps \cap S # {}

TypeOK ==
  /\ present \in BOOLEAN /\ waiting \in BOOLEAN
  /\ file.state \in {"none", "good", "torn"}
  /\ file.state = "torn" => Mishap({"torn"}) \/ \E t \in Turns : pc[t] = "writing"
  /\ {chan, goal, framework, cancelFn} \subseteq Turns \cup {None}
  /\ \A t \in Turns : /\ pc[t] \in {"idle", "reset", "select", "archive",
                                    "writing", "ended"}
                      /\ sel[t] \in Turns \cup {None} /\ paused[t] \in Nat
                      /\ \A a \in Agents : agent[t][a] \in
                           {"none", "busy", "batch", "gated", "passed", "asking", "waiting",
                            "finished"}
  /\ cancelled \subseteq Turns /\ gone \subseteq cancelled

(* An agent that proceeds after a question has the answer to that question, *)
(* unless its turn is cancelled, two questions are open (of one turn's      *)
(* agents, or of turns that overlap), a turn starts while an old question   *)
(* is shown, or a worker has given its question up: the flag, the question  *)
(* and the channel are those of the whole session.                          *)
RightAnswer ==
  ~Mishap({"overlap", "stale", "crowd", "shut"}) =>
    \A t \in Turns \ cancelled, a \in Agents :
      agent[t][a] \notin {"asking", "waiting"} /\ asked[t][a] > 0
        => got[t][a] = <<t, a, asked[t][a]>>

(* Whatever happens, one answer does not serve twice: no two agents have    *)
(* it, and none has it while it is still in a channel.                      *)
UsedOnce ==
  \A t \in Turns, a \in Agents : got[t][a] # None =>
    /\ \A u \in Turns, b \in Agents : got[u][b] = got[t][a] => u = t /\ b = a
    /\ \A u \in Turns : box[u] # got[t][a]

(* The answers of the web UI (RespondHITL, ResumeWithHumanResponse): each   *)
(* serves once, and the question it was given to.                           *)
EachQuestionOnce == RightAnswer /\ UsedOnce

(* While a turn runs, no other on the session, and the session is there, it *)
(* can be cancelled.                                                        *)
Cancellable ==
  ~Mishap({"overlap"}) /\ present =>
    \A t \in Turns : pc[t] \in {"select", "archive"} => cancelFn = t \/ t \in cancelled

Total(turns) ==
  LET upTo[n \in 0 .. Len(turns)] == IF n = 0 THEN 0 ELSE upTo[n - 1] + turns[n].usage
  IN  upTo[Len(turns)]

(* The messages of a whole turn: what the user sent, and the reply if any. *)
Talk(t) == {<<t, "user">>} \cup (IF said[t] THEN {<<t, "assistant">>} ELSE {})

(* The file is exact: every turn at most once, with its own messages and    *)
(* usage and nobody else's, and the total is their sum.                     *)
ArchiveExact ==
  ~Mishap({"overlap"}) =>
    /\ \A i \in DOMAIN file.turns :
         LET r == file.turns[i] IN
         /\ r.goal \in Turns /\ r.usage = reports[r.goal] /\ r.messages = Talk(r.goal)
         /\ \A j \in DOMAIN file.turns : file.turns[j].goal = r.goal => i = j
    /\ file.usage = Total(file.turns)

(* Archived turns stay, also when turns overlap, until the session is       *)
(* deleted; a torn file loses them (os.WriteFile is not atomic).            *)
TurnsStay ==
  [][~Mishap({"torn"}) /\ present' => IsPrefix(file.turns, file'.turns)]_vars

(* A deleted session has no file, unless a turn that was running is         *)
(* archived after the delete.                                               *)
StaysDeleted == ~present /\ ~Mishap({"undeleted"}) => file = NoFile

(* A turn whose client is gone ends, and so does one that is cancelled,     *)
(* unless a worker has given its question up: the gate it closed stays      *)
(* closed, and the workers that come to it never return (HumanGate).        *)
CancelEnds ==
  /\ \A t \in Turns : t \in gone ~> pc[t] = "ended"
  /\ []~Mishap({"shut"}) => \A t \in Turns : t \in cancelled ~> pc[t] = "ended"

(* With a user who answers, every turn ends, unless an answer comes before  *)
(* the agent listens, a worker gives its question up, or several questions  *)
(* are open: the second replaces the first, which nobody answers then.      *)
TurnsEnd ==
  []~Mishap({"overlap", "stale", "crowd", "early", "shut"}) /\ []present =>
    \A t \in Turns : pc[t] = "select" ~> pc[t] = "ended"

(* What a session of the web UI keeps (session.go, chat.go): a running turn *)
(* can be cancelled, its archive is exact and only grows, and a deleted     *)
(* session stays deleted.                                                   *)
ArchiveKept == [](TypeOK /\ Cancellable /\ ArchiveExact /\ StaysDeleted) /\ TurnsStay

(* Every turn ends (handleChat): when it is cancelled or its client leaves, *)
(* and when the user answers what the agents ask.                           *)
EveryTurnEnds == CancelEnds /\ TurnsEnd
============================================================================
