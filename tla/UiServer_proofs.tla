--------------------------- MODULE UiServer_proofs ---------------------------
(***************************************************************************)
(* Proofs about UiServer, for any number of turns, workers, questions,      *)
(* cancels, disconnects, and with deletes and failing writes: an answer     *)
(* serves one question, the one it was given to, and the archive is exact.  *)
(***************************************************************************)
EXTENDS UiServer, SequenceTheorems, FiniteSetTheorems, TLAPS

(* The types, with the question <<t, a, n>>: the n-th one of agent a of t. *)
Questions == Turns \X Agents \X Nat
Places == {"idle", "reset", "select", "archive", "writing", "ended"}
Doings == {"none", "busy", "batch", "gated", "passed", "asking", "waiting", "finished"}

AskTypes ==
  /\ chan \in Turns \cup {None} /\ box \in [Turns -> Questions \cup {None}]
  /\ waiting \in BOOLEAN /\ question \in Questions \cup {None}
  /\ agent \in [Turns -> [Agents -> Doings]] /\ asked \in [Turns -> [Agents -> Nat]]
  /\ got \in [Turns -> [Agents -> Questions \cup {None}]] /\ paused \in [Turns -> Nat]

TurnTypes ==
  /\ goal \in Turns \cup {None} /\ framework \in Turns \cup {None}
  /\ cancelFn \in Turns \cup {None}
  /\ pc \in [Turns -> Places] /\ sel \in [Turns -> Turns \cup {None}]
  /\ reports \in [Turns -> Nat] /\ usage \in Nat /\ said \in [Turns -> BOOLEAN]
  /\ cancelled \subseteq Turns /\ gone \subseteq cancelled
  /\ messages \in SUBSET (Turns \X {"user", "assistant"}) /\ present \in BOOLEAN

Types == AskTypes /\ TurnTypes

Alive(t) == agent[t][Main] \notin {"none", "finished"}

(* A turn's agents start with the handler and do not outlive the archive;   *)
(* its workers run within a batch.                                          *)
Phases ==
  \A t \in Turns :
    /\ pc[t] \in {"idle", "reset"} => /\ agent[t][Main] = "none" /\ reports[t] = 0
                                      /\ \A a \in Agents : asked[t][a] = 0
    /\ pc[t] \in {"archive", "writing"} => agent[t][Main] = "finished"
    /\ agent[t][Main] = "none" => pc[t] \in {"idle", "reset", "ended"}
    /\ \A w \in Workers : agent[t][w] \notin {"none", "finished"} => agent[t][Main] = "batch"
    /\ agent[t][Main] \notin {"gated", "passed"}

(* Until turns overlap, one turn is active. *)
Single == \A t, u \in Turns : Active(t) /\ Active(u) => t = u

(* The question an agent asked last. *)
Latest(t, a) == <<t, a, asked[t][a]>>

(* What an active turn t and the session agree on: one of its agents asks,  *)
(* and what is shown, or is in the channel, is its question.                *)
Pending(t) ==
  /\ \A a, b \in Questioning(t) : a = b
  /\ waiting => box[t] = None /\ \E a \in Questioning(t) : question = Latest(t, a)
  /\ box[t] # None => \E a \in Questioning(t) : box[t] = Latest(t, a)

Answered(t) ==
  \A a \in Agents : a \notin Questioning(t) /\ asked[t][a] > 0 => got[t][a] = Latest(t, a)

Answering == \A t \in Turns \ cancelled : (Active(t) => Pending(t)) /\ Answered(t)

(* Every question that is about has been asked, and is in one place.        *)
Known(x) == x # None => x[3] <= asked[x[1]][x[2]]

AllKnown ==
  /\ Known(question) /\ \A t \in Turns : Known(box[t])
  /\ \A t \in Turns, a \in Agents : Known(got[t][a])

OnePlace ==
  /\ question # None => /\ \A u \in Turns : box[u] # question
                        /\ \A t \in Turns, a \in Agents : got[t][a] # question
  /\ \A t, u \in Turns : box[t] = box[u] /\ box[t] # None => t = u
  /\ UsedOnce

Distinct == AllKnown /\ OnePlace

Channels(t) == chan = t /\ (pc[t] = "select" => sel[t] = t)

Turning(t) ==
  /\ goal = t /\ usage = reports[t]
  /\ pc[t] \in {"reset", "select"} => messages = {<<t, "user">>}
  /\ pc[t] \in {"archive", "writing"} => messages = Talk(t)
  /\ pc[t] \in {"select", "archive"} => cancelFn = t \/ t \in cancelled

Records == [goal : Turns \cup {None}, messages : SUBSET (Turns \X {"user", "assistant"}),
            usage : Nat]

(* What the records of the file say. *)
Recorded(turns) ==
  \A i \in DOMAIN turns :
    LET r == turns[i] IN
    /\ r.goal \in Turns /\ pc[r.goal] \in {"writing", "ended"} /\ agent[r.goal][Main] = "finished"
    /\ r.usage = reports[r.goal] /\ r.messages = Talk(r.goal)
    /\ \A j \in DOMAIN turns : turns[j].goal = r.goal => i = j

FileType ==
  /\ file = [state |-> file.state, turns |-> file.turns, usage |-> file.usage]
  /\ file.state \in {"none", "good", "torn"} /\ file.turns \in Seq(Records) /\ file.usage \in Nat

Exact == Recorded(file.turns) /\ file.usage = Total(file.turns)

Filed ==
  /\ FileType
  /\ file.state = "none" => file = NoFile
  /\ file.state = "torn" => Mishap({"torn"}) \/ \E t \in Turns : pc[t] = "writing"
  /\ ~present /\ ~Mishap({"undeleted"}) => file = NoFile /\ \A t \in Turns : pc[t] # "writing"
  /\ \A t, u \in Turns : pc[t] = "writing" /\ pc[u] = "writing" => t = u

Running == \A t \in Turns : Active(t) => Channels(t) /\ Turning(t)

Alone == Single /\ Running /\ Exact

UiInv ==
  /\ Types /\ Phases /\ Filed /\ Distinct
  /\ ~Mishap({"overlap"}) => Alone
  /\ ~Mishap({"overlap", "stale", "crowd", "shut"}) => Answering
-----------------------------------------------------------------------------
(* What every step keeps, one part of the invariant after the other. *)

(* The steps of the agents of t. *)
AgentMove(t) == \/ StartBatch(t) \/ JoinBatch(t)
                \/ \E a \in Agents : AgentStep(t, a) \/ Choice(t, a)

(* The main agent is one of the agents, and no worker. *)
LEMMA MainAgent == Main \in Agents /\ Main \notin Workers /\ Agents = Workers \cup {Main}
BY UiAssumption DEF Agents

(* What the agents do to the types of questions and answers. *)
LEMMA AgentAskTypes ==
  ASSUME AskTypes, NEW t \in Turns, AgentMove(t)
  PROVE  AskTypes'
<1> USE MainAgent DEF vars, storeVars, askVars, accVars, turnVars, agentVars, loopVars, talkVars,
    endVars, Become, Report, AskTypes, Doings, Questions
<1>1. CASE StartBatch(t)
  BY <1>1 DEF StartBatch
<1>2. CASE JoinBatch(t)
  BY <1>2 DEF JoinBatch
<1>3. ASSUME NEW a \in Agents, PassGate(t, a) PROVE AskTypes'
  BY <1>3 DEF PassGate
<1>4. ASSUME NEW a \in Agents, UseTool(t, a) PROVE AskTypes'
  BY <1>4 DEF UseTool
<1>5. ASSUME NEW a \in Agents, Arm(t, a) PROVE AskTypes'
  BY <1>5 DEF Arm
<1>6. ASSUME NEW a \in Agents, GiveUp(t, a) PROVE AskTypes'
  BY <1>6 DEF GiveUp
<1>7. ASSUME NEW a \in Agents, End(t, a) PROVE AskTypes'
  BY <1>7 DEF End
<1>8. ASSUME NEW a \in Agents, Call(t, a) PROVE AskTypes'
  BY <1>8 DEF Call
<1>9. ASSUME NEW a \in Agents, Ask(t, a) PROVE AskTypes'
  <2>1. asked[t][a] + 1 \in Nat /\ <<t, a, asked[t][a] + 1>> \in Questions
    OBVIOUS
  <2>2. asked' \in [Turns -> [Agents -> Nat]] /\ agent' \in [Turns -> [Agents -> Doings]]
    BY <1>9, <2>1 DEF Ask, Show
  <2>3. question' \in Questions /\ waiting' \in BOOLEAN
    BY <1>9, <2>1 DEF Ask, Show
  <2>4. paused' \in [Turns -> Nat]
    <3>1. paused' = paused \/ paused' = [paused EXCEPT ![t] = @ + 1]
      BY Zenon, <1>9 DEF Ask
    <3> QED BY <3>1
  <2>5. UNCHANGED <<chan, box, got>>
    BY <1>9 DEF Ask, Show
  <2> QED BY <2>2, <2>3, <2>4, <2>5
<1> QED BY <1>1, <1>2, <1>3, <1>4, <1>5, <1>6, <1>7, <1>8, <1>9 DEF AgentMove, AgentStep, Choice

(* And to those of the turns. *)
LEMMA AgentTurnTypes ==
  ASSUME TurnTypes, NEW t \in Turns, AgentMove(t)
  PROVE  TurnTypes'
<1> USE MainAgent DEF vars, storeVars, askVars, accVars, turnVars, agentVars, loopVars, talkVars,
    endVars, Report, TurnTypes
<1>1. CASE StartBatch(t)
  BY <1>1 DEF StartBatch
<1>2. CASE JoinBatch(t)
  BY <1>2 DEF JoinBatch
<1>3. ASSUME NEW a \in Agents, PassGate(t, a) PROVE TurnTypes'
  BY <1>3 DEF PassGate
<1>4. ASSUME NEW a \in Agents, UseTool(t, a) PROVE TurnTypes'
  BY <1>4 DEF UseTool
<1>5. ASSUME NEW a \in Agents, Arm(t, a) PROVE TurnTypes'
  BY <1>5 DEF Arm
<1>6. ASSUME NEW a \in Agents, GiveUp(t, a) PROVE TurnTypes'
  BY <1>6 DEF GiveUp
<1>7. ASSUME NEW a \in Agents, End(t, a) PROVE TurnTypes'
  <2>1. said' \in [Turns -> BOOLEAN]
    BY <1>7 DEF End
  <2>2. reports' \in [Turns -> Nat] /\ usage' \in Nat
    BY <1>7 DEF End
  <2>3. UNCHANGED <<messages, goal, turnVars, endVars, present>>
    BY <1>7 DEF End
  <2> QED BY <2>1, <2>2, <2>3
<1>8. ASSUME NEW a \in Agents, Call(t, a) PROVE TurnTypes'
  BY <1>8 DEF Call
<1>9. ASSUME NEW a \in Agents, Ask(t, a) PROVE TurnTypes'
  BY <1>9 DEF Ask, Show
<1> QED BY <1>1, <1>2, <1>3, <1>4, <1>5, <1>6, <1>7, <1>8, <1>9 DEF AgentMove, AgentStep, Choice

(* The types of questions and answers. *)
LEMMA AskTypesStep ==
  ASSUME AskTypes, TurnTypes, [Next]_vars
  PROVE  AskTypes'
<1> USE MainAgent DEF vars, storeVars, askVars, accVars, turnVars, agentVars, loopVars, talkVars,
    endVars, Goto, Become, AskTypes, Doings, Listening
<1>1. ASSUME NEW t \in Turns, Reset(t) PROVE AskTypes'
  BY <1>1 DEF Reset
<1>2. ASSUME NEW t \in Turns, Setup(t) PROVE AskTypes'
  BY <1>2 DEF Setup
<1>3. ASSUME NEW t \in Turns, SetupFails(t) PROVE AskTypes'
  BY <1>3 DEF SetupFails
<1>4. ASSUME NEW t \in Turns, Resume(t) PROVE AskTypes'
  <2>1. box[sel[t]] \in Questions \cup {None} /\ box' = [box EXCEPT ![sel[t]] = None]
    BY <1>4 DEF Resume, TurnTypes
  <2>2. ASSUME NEW a \in Listening(t), Become(t, a, "busy"), got' = [got EXCEPT ![t][a] = box[sel[t]]]
        PROVE  /\ agent' \in [Turns -> [Agents -> Doings]]
               /\ got' \in [Turns -> [Agents -> Questions \cup {None}]]
    <3>1. a \in Agents
      OBVIOUS
    <3> HIDE DEF Listening
    <3> QED BY <2>1, <2>2, <3>1
  <2>3. /\ agent' \in [Turns -> [Agents -> Doings]]
        /\ got' \in [Turns -> [Agents -> Questions \cup {None}]]
    <3> HIDE DEF Listening, Become, Doings
    <3> QED BY <1>4, <2>2 DEF Resume
  <2>4. paused' \in [Turns -> Nat]
    <3>1. paused' = paused \/ (paused[t] # 0 /\ paused' = [paused EXCEPT ![t] = @ - 1])
      <4> HIDE DEF Listening, Become, AskTypes
      <4> QED BY <1>4 DEF Resume
    <3>2. paused \in [Turns -> Nat]
      OBVIOUS
    <3> HIDE DEF AskTypes
    <3>3. ASSUME paused[t] # 0, paused' = [paused EXCEPT ![t] = @ - 1] PROVE paused' \in [Turns -> Nat]
      <4>1. paused[t] - 1 \in Nat
        BY <3>2, <3>3
      <4> QED BY <3>2, <3>3, <4>1
    <3> QED BY <3>1, <3>2, <3>3
  <2>5. box' \in [Turns -> Questions \cup {None}] /\ UNCHANGED <<chan, waiting, question, asked>>
    BY <1>4, <2>1 DEF Resume
  <2> QED BY <2>3, <2>4, <2>5
<1>5. ASSUME NEW t \in Turns, Done(t) PROVE AskTypes'
  BY <1>5 DEF Done
<1>6. ASSUME NEW t \in Turns, Drop(t) PROVE AskTypes'
  BY <1>6 DEF Drop
<1>7. ASSUME NEW t \in Turns, BeginArchive(t) PROVE AskTypes'
  BY <1>7 DEF BeginArchive
<1>8. ASSUME NEW t \in Turns, EndArchive(t) PROVE AskTypes'
  BY <1>8 DEF EndArchive
<1>9. ASSUME NEW t \in Turns, ArchiveFails(t) PROVE AskTypes'
  BY <1>9 DEF ArchiveFails
<1>10. ASSUME NEW t \in Turns, Disconnect(t) PROVE AskTypes'
  BY <1>10 DEF Disconnect
<1>11. ASSUME NEW t \in Turns, AgentMove(t) PROVE AskTypes'
  BY <1>11, AgentAskTypes
<1>12. CASE Respond
  BY <1>12 DEF Respond, RespondHITL
<1>13. CASE Cancel
  BY <1>13 DEF Cancel
<1>14. CASE Delete
  BY <1>14 DEF Delete
<1>15. CASE UNCHANGED vars
  BY <1>15
<1> QED BY <1>1, <1>2, <1>3, <1>4, <1>5, <1>6, <1>7, <1>8, <1>9, <1>10, <1>11, <1>12, <1>13,
    <1>14, <1>15 DEF Next, Handler, AgentMove

(* The types of the turns. *)
LEMMA TurnTypesStep ==
  ASSUME TurnTypes, chan \in Turns \cup {None}, [Next]_vars
  PROVE  TurnTypes'
<1> USE DEF vars, storeVars, askVars, accVars, turnVars, agentVars, loopVars, talkVars, endVars,
    Goto, TurnTypes, Places
<1>1. ASSUME NEW t \in Turns, Reset(t) PROVE TurnTypes'
  BY <1>1 DEF Reset
<1>2. ASSUME NEW t \in Turns, Setup(t) PROVE TurnTypes'
  BY <1>2 DEF Setup
<1>3. ASSUME NEW t \in Turns, SetupFails(t) PROVE TurnTypes'
  BY <1>3 DEF SetupFails
<1>4. ASSUME NEW t \in Turns, Resume(t) PROVE TurnTypes'
  BY <1>4 DEF Resume
<1>5. ASSUME NEW t \in Turns, Done(t) PROVE TurnTypes'
  BY <1>5 DEF Done
<1>6. ASSUME NEW t \in Turns, Drop(t) PROVE TurnTypes'
  BY <1>6 DEF Drop
<1>7. ASSUME NEW t \in Turns, BeginArchive(t) PROVE TurnTypes'
  BY <1>7 DEF BeginArchive
<1>8. ASSUME NEW t \in Turns, EndArchive(t) PROVE TurnTypes'
  BY <1>8 DEF EndArchive
<1>9. ASSUME NEW t \in Turns, ArchiveFails(t) PROVE TurnTypes'
  BY <1>9 DEF ArchiveFails
<1>10. ASSUME NEW t \in Turns, Disconnect(t) PROVE TurnTypes'
  BY <1>10 DEF Disconnect
<1>11. ASSUME NEW t \in Turns, AgentMove(t) PROVE TurnTypes'
  BY <1>11, AgentTurnTypes
<1>12. CASE Respond
  BY <1>12 DEF Respond, RespondHITL
<1>13. CASE Cancel
  BY <1>13 DEF Cancel
<1>14. CASE Delete
  BY <1>14 DEF Delete
<1>15. CASE UNCHANGED vars
  BY <1>15
<1> QED BY <1>1, <1>2, <1>3, <1>4, <1>5, <1>6, <1>7, <1>8, <1>9, <1>10, <1>11, <1>12, <1>13,
    <1>14, <1>15 DEF Next, Handler, AgentMove

(* An answer changes an agent that waits, if any. *)
LEMMA ResumedAgent ==
  ASSUME NEW t \in Turns, Resume(t)
  PROVE  \/ agent' = agent
         \/ \E a \in Agents : agent[t][a] = "waiting" /\ agent' = [agent EXCEPT ![t][a] = "busy"]
<1>1. \A a \in Listening(t) : a \in Agents /\ agent[t][a] = "waiting"
  BY MainAgent DEF Listening
<1> QED BY <1>1 DEF Resume, Become

(* An agent at work is one of a main agent at work. *)
LEMMA AgentAlive ==
  ASSUME Phases, NEW t \in Turns, NEW a \in Agents, agent[t][a] \notin {"none", "finished"}
  PROVE  Alive(t)
BY MainAgent DEF Phases, Alive

(* One agent of t changes, and nobody else. *)
LEMMA Becomes ==
  ASSUME AskTypes, NEW t \in Turns, NEW a \in Agents, NEW s, s # "none", Become(t, a, s), Alive(t)
  PROVE  agent'[t][Main] # "none" /\ \A u \in Turns \ {t} : agent'[u] = agent[u]
BY MainAgent DEF AskTypes, Become, Alive

(* The phases under a step of an agent. *)
LEMMA AgentPhases ==
  ASSUME AskTypes, TurnTypes, Phases, NEW t \in Turns, AgentMove(t)
  PROVE  Phases'
<1> USE MainAgent DEF vars, storeVars, askVars, accVars, turnVars, agentVars, loopVars, talkVars,
    endVars, Become, Report, AskTypes, TurnTypes, Phases, Doings, Places
<1>1. CASE StartBatch(t)
  BY <1>1 DEF StartBatch
<1>2. CASE JoinBatch(t)
  BY <1>2 DEF JoinBatch
<1>3. ASSUME NEW a \in Agents, PassGate(t, a) PROVE Phases'
  BY <1>3 DEF PassGate
<1>4. ASSUME NEW a \in Agents, UseTool(t, a) PROVE Phases'
  BY <1>4 DEF UseTool
<1>5. ASSUME NEW a \in Agents, Arm(t, a) PROVE Phases'
  BY <1>5 DEF Arm
<1>6. ASSUME NEW a \in Agents, GiveUp(t, a) PROVE Phases'
  BY <1>6 DEF GiveUp
<1>7. ASSUME NEW a \in Agents, End(t, a) PROVE Phases'
  BY <1>7 DEF End
<1>8. ASSUME NEW a \in Agents, Call(t, a) PROVE Phases'
  BY <1>8 DEF Call
<1>9. ASSUME NEW a \in Agents, Ask(t, a) PROVE Phases'
  BY <1>9 DEF Ask, Show
<1> QED BY <1>1, <1>2, <1>3, <1>4, <1>5, <1>6, <1>7, <1>8, <1>9 DEF AgentMove, AgentStep, Choice

(* The phases of a turn. *)
LEMMA PhasesStep ==
  ASSUME AskTypes, TurnTypes, Phases, [Next]_vars
  PROVE  Phases'
<1> USE MainAgent DEF vars, storeVars, askVars, accVars, turnVars, agentVars, loopVars, talkVars,
    endVars, Goto, Become, AskTypes, TurnTypes, Phases, Places, Doings, Listening
<1>1. ASSUME NEW t \in Turns, Reset(t) PROVE Phases'
  BY <1>1 DEF Reset
<1>2. ASSUME NEW t \in Turns, Setup(t) PROVE Phases'
  BY <1>2 DEF Setup
<1>3. ASSUME NEW t \in Turns, SetupFails(t) PROVE Phases'
  BY <1>3 DEF SetupFails
<1>4. ASSUME NEW t \in Turns, Resume(t) PROVE Phases'
  <2>1. pc' = pc /\ reports' = reports /\ asked' = asked
    BY <1>4 DEF Resume
  <2>2. agent' = agent \/ \E a \in Agents : agent[t][a] = "waiting" /\ agent' = [agent EXCEPT ![t][a] = "busy"]
    BY <1>4, ResumedAgent
  <2>3. ASSUME NEW a \in Agents, agent[t][a] = "waiting", agent' = [agent EXCEPT ![t][a] = "busy"]
        PROVE  Phases'
    <3>1. agent[t][Main] \notin {"none", "finished"}
      BY <2>3
    <3>2. pc[t] \notin {"idle", "reset", "archive", "writing"}
      BY <3>1
    <3>3. \A u \in Turns \ {t} : agent'[u] = agent[u]
      BY <2>3
    <3>4. agent'[t][Main] \notin {"none", "gated", "passed"}
      BY <2>3, <3>1
    <3>5. \A w \in Workers : agent'[t][w] \notin {"none", "finished"} => agent'[t][Main] = "batch"
      <4>1. CASE a = Main
        BY <2>3, <4>1
      <4>2. CASE a # Main
        BY <2>3, <4>2
      <4> QED BY <4>1, <4>2
    <3> SUFFICES ASSUME NEW u \in Turns
                 PROVE  /\ pc[u] \in {"idle", "reset"} => /\ agent'[u][Main] = "none" /\ reports[u] = 0
                                                          /\ \A b \in Agents : asked[u][b] = 0
                        /\ pc[u] \in {"archive", "writing"} => agent'[u][Main] = "finished"
                        /\ agent'[u][Main] = "none" => pc[u] \in {"idle", "reset", "ended"}
                        /\ \A w \in Workers : agent'[u][w] \notin {"none", "finished"} => agent'[u][Main] = "batch"
                        /\ agent'[u][Main] \notin {"gated", "passed"}
      BY <2>1
    <3>6. CASE u = t
      BY <3>2, <3>4, <3>5, <3>6
    <3>7. CASE u # t
      BY <3>3, <3>7
    <3> QED BY <3>6, <3>7
  <2>4. CASE agent' = agent
    BY <2>1, <2>4
  <2> HIDE DEF Phases, AskTypes, TurnTypes
  <2> QED BY <2>2, <2>3, <2>4
<1>5. ASSUME NEW t \in Turns, Done(t) PROVE Phases'
  BY <1>5 DEF Done
<1>6. ASSUME NEW t \in Turns, Drop(t) PROVE Phases'
  BY <1>6 DEF Drop
<1>7. ASSUME NEW t \in Turns, BeginArchive(t) PROVE Phases'
  <2>1. /\ pc[t] = "archive" /\ pc' = [pc EXCEPT ![t] = "writing"]
        /\ reports' = reports /\ asked' = asked /\ agent' = agent
    BY <1>7 DEF BeginArchive
  <2> QED BY <2>1
<1>8. ASSUME NEW t \in Turns, EndArchive(t) PROVE Phases'
  BY <1>8 DEF EndArchive
<1>9. ASSUME NEW t \in Turns, ArchiveFails(t) PROVE Phases'
  BY <1>9 DEF ArchiveFails
<1>10. ASSUME NEW t \in Turns, Disconnect(t) PROVE Phases'
  BY <1>10 DEF Disconnect
<1>11. ASSUME NEW t \in Turns, AgentMove(t) PROVE Phases'
  BY <1>11, AgentPhases
<1>12. CASE Respond
  BY <1>12 DEF Respond, RespondHITL
<1>13. CASE Cancel
  BY <1>13 DEF Cancel
<1>14. CASE Delete
  BY <1>14 DEF Delete
<1>15. CASE UNCHANGED vars
  BY <1>15
<1> QED BY <1>1, <1>2, <1>3, <1>4, <1>5, <1>6, <1>7, <1>8, <1>9, <1>10, <1>11, <1>12, <1>13,
    <1>14, <1>15 DEF Next, Handler, AgentMove

(* What the agents of t leave alone, and what they change of t only. *)
Moved(t) ==
  /\ UNCHANGED <<present, file, chan, box, messages, goal, pc, sel, framework, cancelFn,
                 cancelled, gone, got>>
  /\ mishaps \subseteq mishaps'
  /\ Alive(t) /\ agent'[t][Main] # "none" /\ usage' - usage = reports'[t] - reports[t]
  /\ \A u \in Turns \ {t} : /\ agent'[u] = agent[u] /\ asked'[u] = asked[u]
                            /\ reports'[u] = reports[u] /\ said'[u] = said[u]

(* Every step of an agent of t does so. *)
LEMMA AgentFrame ==
  ASSUME AskTypes, TurnTypes, Phases, NEW t \in Turns, AgentMove(t)
  PROVE  Moved(t)
<1> USE MainAgent DEF vars, storeVars, askVars, accVars, turnVars, agentVars, loopVars, talkVars,
    endVars, Become, Report, AskTypes, TurnTypes
<1>1. CASE StartBatch(t)
  <2>1. Alive(t) /\ agent'[t][Main] # "none" /\ \A u \in Turns \ {t} : agent'[u] = agent[u]
    BY <1>1 DEF StartBatch, Alive, Phases
  <2>2. usage' - usage = reports'[t] - reports[t] /\ \A u \in Turns \ {t} : reports'[u] = reports[u]
    BY <1>1 DEF StartBatch
  <2> QED BY <1>1, <2>1, <2>2 DEF StartBatch, Moved
<1>2. CASE JoinBatch(t)
  <2>1. Alive(t) /\ agent'[t][Main] # "none" /\ \A u \in Turns \ {t} : agent'[u] = agent[u]
    BY <1>2 DEF JoinBatch, Alive, Phases
  <2>2. usage' - usage = reports'[t] - reports[t] /\ \A u \in Turns \ {t} : reports'[u] = reports[u]
    BY <1>2 DEF JoinBatch
  <2> QED BY <1>2, <2>1, <2>2 DEF JoinBatch, Moved
<1>3. ASSUME NEW a \in Agents, PassGate(t, a) PROVE Moved(t)
  <2>0. Alive(t)
    BY <1>3, AgentAlive DEF PassGate
  <2>1. agent'[t][Main] # "none" /\ \A u \in Turns \ {t} : agent'[u] = agent[u]
    <3> HIDE DEF Become
    <3> QED BY <1>3, <2>0, Becomes DEF PassGate
  <2>2. usage' - usage = reports'[t] - reports[t] /\ \A u \in Turns \ {t} : reports'[u] = reports[u]
    BY <1>3 DEF PassGate
  <2> QED BY <1>3, <2>0, <2>1, <2>2 DEF PassGate, Moved
<1>4. ASSUME NEW a \in Agents, UseTool(t, a) PROVE Moved(t)
  <2>0. Alive(t)
    BY <1>4, AgentAlive DEF UseTool
  <2>1. agent'[t][Main] # "none" /\ \A u \in Turns \ {t} : agent'[u] = agent[u]
    <3> HIDE DEF Become
    <3> QED BY <1>4, <2>0, Becomes DEF UseTool
  <2>2. usage' - usage = reports'[t] - reports[t] /\ \A u \in Turns \ {t} : reports'[u] = reports[u]
    BY <1>4 DEF UseTool
  <2> QED BY <1>4, <2>0, <2>1, <2>2 DEF UseTool, Moved
<1>5. ASSUME NEW a \in Agents, Arm(t, a) PROVE Moved(t)
  <2>0. Alive(t)
    BY <1>5, AgentAlive DEF Arm
  <2>1. agent'[t][Main] # "none" /\ \A u \in Turns \ {t} : agent'[u] = agent[u]
    <3> HIDE DEF Become
    <3> QED BY <1>5, <2>0, Becomes DEF Arm
  <2>2. usage' - usage = reports'[t] - reports[t] /\ \A u \in Turns \ {t} : reports'[u] = reports[u]
    BY <1>5 DEF Arm
  <2> QED BY <1>5, <2>0, <2>1, <2>2 DEF Arm, Moved
<1>6. ASSUME NEW a \in Agents, GiveUp(t, a) PROVE Moved(t)
  <2>0. Alive(t)
    BY <1>6, AgentAlive DEF GiveUp
  <2>1. agent'[t][Main] # "none" /\ \A u \in Turns \ {t} : agent'[u] = agent[u]
    <3> HIDE DEF Become
    <3> QED BY <1>6, <2>0, Becomes DEF GiveUp
  <2>2. usage' - usage = reports'[t] - reports[t] /\ \A u \in Turns \ {t} : reports'[u] = reports[u]
    BY <1>6 DEF GiveUp
  <2> QED BY <1>6, <2>0, <2>1, <2>2 DEF GiveUp, Moved
<1>7. ASSUME NEW a \in Agents, End(t, a) PROVE Moved(t)
  <2>0. Alive(t)
    BY <1>7, AgentAlive DEF End
  <2>1. agent'[t][Main] # "none" /\ \A u \in Turns \ {t} : agent'[u] = agent[u]
    <3> HIDE DEF Become
    <3> QED BY <1>7, <2>0, Becomes DEF End
  <2>2. usage' - usage = reports'[t] - reports[t] /\ \A u \in Turns \ {t} : reports'[u] = reports[u]
    BY <1>7 DEF End
  <2> QED BY <1>7, <2>0, <2>1, <2>2 DEF End, Moved
<1>8. ASSUME NEW a \in Agents, Call(t, a) PROVE Moved(t)
  <2>0. Alive(t)
    BY <1>8, AgentAlive DEF Call
  <2>1. agent'[t][Main] # "none" /\ \A u \in Turns \ {t} : agent'[u] = agent[u]
    <3> HIDE DEF Become
    <3> QED BY <1>8, <2>0, Becomes DEF Call
  <2>2. usage' - usage = reports'[t] - reports[t] /\ \A u \in Turns \ {t} : reports'[u] = reports[u]
    BY <1>8 DEF Call
  <2> QED BY <1>8, <2>0, <2>1, <2>2 DEF Call, Moved
<1>9. ASSUME NEW a \in Agents, Ask(t, a) PROVE Moved(t)
  <2>0. Alive(t)
    BY <1>9, AgentAlive DEF Ask, Show
  <2>1. agent'[t][Main] # "none" /\ \A u \in Turns \ {t} : agent'[u] = agent[u]
    <3> HIDE DEF Become
    <3> QED BY <1>9, <2>0, Becomes DEF Ask, Show
  <2>2. usage' - usage = reports'[t] - reports[t] /\ \A u \in Turns \ {t} : reports'[u] = reports[u]
    BY <1>9 DEF Ask, Show
  <2> QED BY <1>9, <2>0, <2>1, <2>2 DEF Ask, Show, Moved
<1> QED BY <1>1, <1>2, <1>3, <1>4, <1>5, <1>6, <1>7, <1>8, <1>9 DEF AgentMove, AgentStep, Choice

(* The steps that do not touch the file. *)
Elsewhere ==
  /\ UNCHANGED <<present, file>> /\ mishaps \subseteq mishaps'
  /\ \A t \in Turns : pc'[t] = "writing" <=> pc[t] = "writing"

(* The steps that are no archive and no delete. *)
LEMMA FileAlone ==
  ASSUME Types, Phases, [Next]_vars,
         ~(Delete \/ \E t \in Turns : BeginArchive(t) \/ EndArchive(t) \/ ArchiveFails(t))
  PROVE  Elsewhere
<1> USE DEF vars, storeVars, askVars, accVars, turnVars, agentVars, loopVars, talkVars, endVars,
    Goto, TurnTypes, Elsewhere
<1>1. ASSUME NEW t \in Turns, Reset(t) PROVE Elsewhere
  BY <1>1 DEF Reset
<1>2. ASSUME NEW t \in Turns, Setup(t) PROVE Elsewhere
  BY <1>2 DEF Setup
<1>3. ASSUME NEW t \in Turns, SetupFails(t) PROVE Elsewhere
  BY <1>3 DEF SetupFails
<1>4. ASSUME NEW t \in Turns, Resume(t) PROVE Elsewhere
  BY <1>4 DEF Resume
<1>5. ASSUME NEW t \in Turns, Done(t) PROVE Elsewhere
  BY <1>5 DEF Done
<1>6. ASSUME NEW t \in Turns, Drop(t) PROVE Elsewhere
  BY <1>6 DEF Drop
<1>7. ASSUME NEW t \in Turns, BeginArchive(t) PROVE Elsewhere
  BY <1>7
<1>8. ASSUME NEW t \in Turns, EndArchive(t) PROVE Elsewhere
  BY <1>8
<1>9. ASSUME NEW t \in Turns, ArchiveFails(t) PROVE Elsewhere
  BY <1>9
<1>10. ASSUME NEW t \in Turns, Disconnect(t) PROVE Elsewhere
  BY <1>10 DEF Disconnect
<1>11. ASSUME NEW t \in Turns, AgentMove(t) PROVE Elsewhere
  BY <1>11, AgentFrame DEF Types, Moved
<1>12. CASE Respond
  BY <1>12 DEF Respond, RespondHITL
<1>13. CASE Cancel
  BY <1>13 DEF Cancel
<1>14. CASE Delete
  BY <1>14
<1>15. CASE UNCHANGED vars
  BY <1>15
<1> QED BY <1>1, <1>2, <1>3, <1>4, <1>5, <1>6, <1>7, <1>8, <1>9, <1>10, <1>11, <1>12, <1>13,
    <1>14, <1>15 DEF Next, Handler, AgentMove

(* What an archive builds on, and what it adds. *)
LEMMA ArchiveAdds ==
  ASSUME TurnTypes, Filed, NEW t \in Turns, BeginArchive(t)
  PROVE  /\ Loaded.turns \in Seq(Records) /\ Loaded.usage \in Nat /\ Record \in Records
         /\ Loaded = file \/ (Loaded = NoFile /\ file.state = "torn")
         /\ file' = [state |-> "torn", turns |-> Append(Loaded.turns, Record),
                     usage |-> Loaded.usage + usage]
         /\ Append(Loaded.turns, Record) \in Seq(Records) /\ Loaded.usage + usage \in Nat
<1>1. NoFile.turns = <<>> /\ NoFile.usage = 0
  BY DEF NoFile
<1>2. FileType /\ (file.state = "none" => file = NoFile)
  BY DEF Filed
<1>3. /\ Loaded.turns \in Seq(Records) /\ Loaded.usage \in Nat
      /\ Loaded = file \/ (Loaded = NoFile /\ file.state = "torn")
  <2>1. CASE file.state = "good"
    BY <2>1, <1>2 DEF Loaded, FileType
  <2>2. CASE file.state # "good"
    <3>1. Loaded = NoFile
      BY <2>2 DEF Loaded
    <3>2. Loaded.turns \in Seq(Records) /\ Loaded.usage \in Nat
      BY <3>1, <1>1
    <3> QED BY <1>2, <2>2, <3>1, <3>2 DEF FileType
  <2> QED BY <2>1, <2>2
<1>4. Record \in Records
  BY DEF Record, Records, TurnTypes
<1>5. usage \in Nat
  BY DEF TurnTypes
<1>6. file' = [state |-> "torn", turns |-> Append(Loaded.turns, Record),
              usage |-> Loaded.usage + usage]
  BY DEF BeginArchive
<1> QED BY <1>3, <1>4, <1>5, <1>6

(* The file. *)
LEMMA FiledStep ==
  ASSUME Types, Phases, Filed, [Next]_vars
  PROVE  Filed'
<1> USE DEF Mishap
<1>1. CASE Elsewhere
  BY <1>1 DEF Elsewhere, Filed, FileType
<1>2. ASSUME NEW t \in Turns, BeginArchive(t) PROVE Filed'
  <2>1. FileType'
    BY SMTT(30), <1>2, ArchiveAdds DEF FileType, Types
  <2>2. /\ present' = present /\ pc' = [pc EXCEPT ![t] = "writing"]
        /\ mishaps' = (IF present THEN mishaps ELSE mishaps \cup {"undeleted"})
        /\ \A u \in Turns : pc[u] # "writing"
        /\ file'.state = "torn" /\ pc \in [Turns -> Places]
    BY <1>2, ArchiveAdds DEF BeginArchive, Goto, Types, TurnTypes
  <2>3. pc'[t] = "writing" /\ \A u \in Turns \ {t} : pc'[u] # "writing"
    BY <2>2
  <2> QED BY <2>1, <2>2, <2>3 DEF Filed
<1>3. ASSUME NEW t \in Turns, EndArchive(t) PROVE Filed'
  <2>1. /\ file' = [file EXCEPT !.state = "good"] /\ present' = present /\ mishaps' = mishaps
        /\ pc' = [pc EXCEPT ![t] = "ended"] /\ pc \in [Turns -> Places] /\ pc[t] = "writing"
    BY <1>3 DEF EndArchive, Goto, Types, TurnTypes
  <2>2. file' = [state |-> "good", turns |-> file.turns, usage |-> file.usage]
    BY <2>1 DEF Filed, FileType
  <2>3. FileType'
    BY <2>2 DEF Filed, FileType
  <2> QED BY <2>1, <2>2, <2>3 DEF Filed
<1>4. ASSUME NEW t \in Turns, ArchiveFails(t) PROVE Filed'
  <2>1. /\ file' = file /\ present' = present /\ mishaps' = mishaps \cup {"torn"}
        /\ pc' = [pc EXCEPT ![t] = "ended"] /\ pc \in [Turns -> Places] /\ pc[t] = "writing"
    BY <1>4 DEF ArchiveFails, Goto, Types, TurnTypes, storeVars
  <2> QED BY <2>1 DEF Filed, FileType
<1>5. CASE Delete
  <2>1. /\ file' = NoFile /\ present' = FALSE /\ pc' = pc
        /\ \A u \in Turns : pc[u] # "writing"
    BY <1>5 DEF Delete, turnVars
  <2>2. FileType' /\ file'.state = "none"
    BY <2>1 DEF FileType, NoFile
  <2> QED BY <2>1, <2>2 DEF Filed
<1> QED BY <1>1, <1>2, <1>3, <1>4, <1>5, FileAlone


(* What went wrong is remembered. *)
LEMMA MishapsStay ==
  ASSUME Types, Phases, [Next]_vars
  PROVE  mishaps \subseteq mishaps'
<1> USE DEF vars, storeVars, askVars, accVars, turnVars, agentVars, loopVars, talkVars, endVars
<1>1. ASSUME NEW t \in Turns, Reset(t) PROVE mishaps \subseteq mishaps'
  BY <1>1 DEF Reset
<1>2. ASSUME NEW t \in Turns, Setup(t) PROVE mishaps \subseteq mishaps'
  BY <1>2 DEF Setup
<1>3. ASSUME NEW t \in Turns, SetupFails(t) PROVE mishaps \subseteq mishaps'
  BY <1>3 DEF SetupFails
<1>4. ASSUME NEW t \in Turns, Resume(t) PROVE mishaps \subseteq mishaps'
  BY <1>4 DEF Resume
<1>5. ASSUME NEW t \in Turns, Done(t) PROVE mishaps \subseteq mishaps'
  BY <1>5 DEF Done
<1>6. ASSUME NEW t \in Turns, Drop(t) PROVE mishaps \subseteq mishaps'
  BY <1>6 DEF Drop
<1>7. ASSUME NEW t \in Turns, BeginArchive(t) PROVE mishaps \subseteq mishaps'
  BY <1>7 DEF BeginArchive
<1>8. ASSUME NEW t \in Turns, EndArchive(t) PROVE mishaps \subseteq mishaps'
  BY <1>8 DEF EndArchive
<1>9. ASSUME NEW t \in Turns, ArchiveFails(t) PROVE mishaps \subseteq mishaps'
  BY <1>9 DEF ArchiveFails
<1>10. ASSUME NEW t \in Turns, Disconnect(t) PROVE mishaps \subseteq mishaps'
  BY <1>10 DEF Disconnect
<1>11. ASSUME NEW t \in Turns, AgentMove(t) PROVE mishaps \subseteq mishaps'
  BY <1>11, AgentFrame DEF Types, Moved
<1>12. CASE Respond
  BY <1>12 DEF Respond, RespondHITL
<1>13. CASE Cancel
  BY <1>13 DEF Cancel
<1>14. CASE Delete
  BY <1>14 DEF Delete
<1>15. CASE UNCHANGED vars
  BY <1>15
<1> QED BY <1>1, <1>2, <1>3, <1>4, <1>5, <1>6, <1>7, <1>8, <1>9, <1>10, <1>11, <1>12, <1>13,
    <1>14, <1>15 DEF Next, Handler, AgentMove

(* What the start of a turn and every later step do to the active turns.    *)
LEMMA ResetAlone ==
  ASSUME TurnTypes, Phases, NEW t \in Turns, Reset(t), ~Mishap({"overlap"})'
  PROVE  ~Active(t) /\ Active(t)' /\ \A u \in Turns : Active(u)' => u = t
<1>1. /\ pc[t] = "idle" /\ agent[t][Main] = "none" /\ pc' = [pc EXCEPT ![t] = "reset"]
      /\ agent' = agent
  BY DEF Reset, Phases, Goto, agentVars
<1>2. \A u \in Turns \ {t} : ~Active(u)
  BY DEF Reset, Mishap
<1> QED BY <1>1, <1>2 DEF Active, TurnTypes

(* A step of a turn other than its start: it is an active one. *)
AgentOf(t) == Handler(t) \/ AgentMove(t) \/ Disconnect(t)

(* It makes no other turn active. *)
LEMMA ActiveKept ==
  ASSUME AskTypes, TurnTypes, Phases, NEW t \in Turns, AgentOf(t)
  PROVE  Active(t) /\ \A u \in Turns : Active(u)' => Active(u)
<1> USE DEF vars, storeVars, askVars, accVars, turnVars, agentVars, loopVars, talkVars, endVars,
    Goto, TurnTypes, Active
<1>1. CASE Setup(t)
  BY <1>1, MainAgent DEF Setup, AskTypes
<1>2. CASE SetupFails(t)
  BY <1>2 DEF SetupFails
<1>3. CASE Resume(t)
  <2>1. Active(t) /\ pc' = pc /\ agent[t][Main] # "none"
    BY <1>3 DEF Resume, Phases
  <2>2. \A u \in Turns \ {t} : agent'[u] = agent[u]
    BY <1>3, ResumedAgent DEF AskTypes
  <2> QED BY <2>1, <2>2
<1>4. CASE Done(t)
  BY <1>4 DEF Done
<1>5. CASE Drop(t)
  BY <1>5 DEF Drop
<1>6. CASE BeginArchive(t)
  BY <1>6 DEF BeginArchive
<1>7. CASE EndArchive(t)
  BY <1>7 DEF EndArchive
<1>8. CASE ArchiveFails(t)
  BY <1>8 DEF ArchiveFails
<1>9. CASE Disconnect(t)
  BY <1>9 DEF Disconnect
<1>10. CASE AgentMove(t)
  BY <1>10, AgentFrame DEF Moved, Alive
<1> QED BY <1>1, <1>2, <1>3, <1>4, <1>5, <1>6, <1>7, <1>8, <1>9, <1>10 DEF AgentOf, Handler

(* With one active turn, it is that one. *)
LEMMA ActiveOnly ==
  ASSUME AskTypes, TurnTypes, Phases, Single, NEW t \in Turns, AgentOf(t)
  PROVE  Active(t) /\ \A u \in Turns : Active(u)' => u = t
BY ActiveKept DEF Single

(* The steps of Next, by turn. *)
LEMMA StepCases ==
  ASSUME [Next]_vars
  PROVE  \/ \E t \in Turns : Reset(t) \/ AgentOf(t)
         \/ Respond \/ Cancel \/ Delete \/ UNCHANGED vars
BY DEF Next, AgentOf, AgentMove

(* One turn at a time stays one, until the next overlap. *)
LEMMA SingleStep ==
  ASSUME AskTypes, TurnTypes, Phases, Single, [Next]_vars, ~Mishap({"overlap"})'
  PROVE  Single'
<1>1. ASSUME NEW t \in Turns, Reset(t) PROVE Single'
  BY <1>1, ResetAlone DEF Single
<1>2. ASSUME NEW t \in Turns, AgentOf(t) PROVE Single'
  BY <1>2, ActiveOnly DEF Single
<1>3. CASE Respond \/ Cancel \/ Delete \/ UNCHANGED vars
  BY <1>3 DEF Respond, Cancel, Delete, vars, turnVars, agentVars, Single, Active
<1> QED BY <1>1, <1>2, <1>3, StepCases

(* What stays of an archived turn. *)
Settled(g) == /\ pc'[g] \in {"writing", "ended"} /\ agent'[g][Main] = "finished"
              /\ reports'[g] = reports[g] /\ said'[g] = said[g]

(* A turn that has been archived does not change any more. *)
LEMMA SettledStep ==
  ASSUME AskTypes, TurnTypes, Phases, [Next]_vars, NEW g \in Turns,
         pc[g] \in {"writing", "ended"}, agent[g][Main] = "finished"
  PROVE  Settled(g)
<1> USE DEF vars, storeVars, askVars, accVars, turnVars, agentVars, loopVars, talkVars, endVars,
    Goto, TurnTypes, Settled
<1>1. ASSUME NEW t \in Turns, Reset(t) PROVE Settled(g)
  BY <1>1 DEF Reset
<1>2. ASSUME NEW t \in Turns, Setup(t) PROVE Settled(g)
  BY <1>2, MainAgent DEF Setup, AskTypes
<1>3. ASSUME NEW t \in Turns, SetupFails(t) PROVE Settled(g)
  BY <1>3 DEF SetupFails
<1>4. ASSUME NEW t \in Turns, Resume(t) PROVE Settled(g)
  <2>1. UNCHANGED <<pc, reports, said>>
    BY <1>4 DEF Resume
  <2>2. g # t
    BY <1>4 DEF Resume
  <2>3. agent'[g] = agent[g]
    BY <1>4, <2>2, ResumedAgent DEF AskTypes
  <2> QED BY <2>1, <2>3
<1>5. ASSUME NEW t \in Turns, Done(t) PROVE Settled(g)
  BY <1>5 DEF Done
<1>6. ASSUME NEW t \in Turns, Drop(t) PROVE Settled(g)
  BY <1>6 DEF Drop
<1>7. ASSUME NEW t \in Turns, BeginArchive(t) PROVE Settled(g)
  BY <1>7 DEF BeginArchive
<1>8. ASSUME NEW t \in Turns, EndArchive(t) PROVE Settled(g)
  BY <1>8 DEF EndArchive
<1>9. ASSUME NEW t \in Turns, ArchiveFails(t) PROVE Settled(g)
  BY <1>9 DEF ArchiveFails
<1>10. ASSUME NEW t \in Turns, Disconnect(t) PROVE Settled(g)
  BY <1>10 DEF Disconnect
<1>11. ASSUME NEW t \in Turns, AgentMove(t) PROVE Settled(g)
  BY <1>11, AgentFrame DEF Moved, Alive
<1>12. CASE Respond
  BY <1>12 DEF Respond, RespondHITL
<1>13. CASE Cancel
  BY <1>13 DEF Cancel
<1>14. CASE Delete
  BY <1>14 DEF Delete
<1>15. CASE UNCHANGED vars
  BY <1>15
<1> QED BY <1>1, <1>2, <1>3, <1>4, <1>5, <1>6, <1>7, <1>8, <1>9, <1>10, <1>11, <1>12, <1>13,
    <1>14, <1>15 DEF Next, Handler, AgentMove

(* The active turn's messages, usage and cancel function are the session's. *)
LEMMA RunningStep ==
  ASSUME AskTypes, TurnTypes, Phases, Single, Running, [Next]_vars, ~Mishap({"overlap"})'
  PROVE  Running'
<1> USE DEF vars, storeVars, askVars, accVars, turnVars, agentVars, loopVars, talkVars, endVars,
    Goto, TurnTypes, Running, Channels, Turning, Talk
<1>1. ASSUME NEW t \in Turns, Reset(t) PROVE Running'
  <2>1. \A u \in Turns : Active(u)' => u = t
    BY <1>1, ResetAlone
  <2>2. (Active(t) => Channels(t) /\ Turning(t))'
    BY <1>1 DEF Reset, Phases
  <2> QED BY <2>1, <2>2
<1>2. ASSUME NEW t \in Turns, AgentOf(t) PROVE Running'
  <2>1. Active(t) /\ \A u \in Turns : Active(u)' => u = t
    BY <1>2, ActiveOnly
  <2>2. Channels(t) /\ Turning(t)
    BY <2>1
  <2>3. ASSUME Setup(t) PROVE (Active(t) => Channels(t) /\ Turning(t))'
    BY <2>2, <2>3 DEF Setup, Phases
  <2>4. ASSUME SetupFails(t) PROVE (Active(t) => Channels(t) /\ Turning(t))'
    BY <2>2, <2>4 DEF SetupFails
  <2>5. ASSUME Resume(t) PROVE (Active(t) => Channels(t) /\ Turning(t))'
    BY <2>2, <2>5 DEF Resume
  <2>6. ASSUME Done(t) PROVE (Active(t) => Channels(t) /\ Turning(t))'
    BY <2>2, <2>6 DEF Done
  <2>7. ASSUME Drop(t) PROVE (Active(t) => Channels(t) /\ Turning(t))'
    BY <2>2, <2>7 DEF Drop
  <2>8. ASSUME BeginArchive(t) PROVE (Active(t) => Channels(t) /\ Turning(t))'
    BY <2>2, <2>8 DEF BeginArchive
  <2>9. ASSUME EndArchive(t) PROVE (Active(t) => Channels(t) /\ Turning(t))'
    BY <2>2, <2>9 DEF EndArchive
  <2>10. ASSUME ArchiveFails(t) PROVE (Active(t) => Channels(t) /\ Turning(t))'
    BY <2>2, <2>10 DEF ArchiveFails
  <2>11. ASSUME Disconnect(t) PROVE (Active(t) => Channels(t) /\ Turning(t))'
    BY <2>2, <2>11 DEF Disconnect
  <2>12. ASSUME AgentMove(t) PROVE (Active(t) => Channels(t) /\ Turning(t))'
    <3>1. Moved(t) /\ usage' \in Nat /\ reports'[t] \in Nat
      BY <2>12, AgentFrame, AgentTurnTypes
    <3>2. pc[t] \in {"select", "ended"}
      BY <3>1 DEF Moved, Alive, Phases, Places
    <3>3. usage' = reports'[t]
      BY <2>2, <3>1 DEF Moved
    <3> QED BY <2>2, <3>1, <3>2, <3>3 DEF Moved
  <2> HIDE DEF Running
  <2>13. (Active(t) => Channels(t) /\ Turning(t))'
    BY <1>2, <2>3, <2>4, <2>5, <2>6, <2>7, <2>8, <2>9, <2>10, <2>11, <2>12 DEF AgentOf, Handler
  <2> QED BY <2>1, <2>13 DEF Running
<1>3. CASE Respond
  BY <1>3 DEF Respond, Active, RespondHITL
<1>4. CASE Cancel
  BY <1>4 DEF Cancel, Active
<1>5. CASE Delete
  BY <1>5 DEF Delete, Active
<1>6. CASE UNCHANGED vars
  BY <1>6 DEF Active
<1> QED BY <1>1, <1>2, <1>3, <1>4, <1>5, <1>6, StepCases

(* The questions stay as they are. *)
Hushed == /\ UNCHANGED <<box, waiting, question, asked, got>>
          /\ \A u \in Turns : Questioning(u)' = Questioning(u)

(* The steps that are about questions. *)
AskStep == \/ \E t \in Turns : \/ Reset(t) \/ Resume(t)
                               \/ \E a \in Agents : Ask(t, a) \/ GiveUp(t, a)
           \/ Respond

(* An agent that goes from one state to another, neither of them a question.*)
LEMMA HushedBecomes ==
  ASSUME AskTypes, NEW t \in Turns, NEW a \in Agents, NEW s, Become(t, a, s),
         s \in {"asking", "waiting"} <=> agent[t][a] \in {"asking", "waiting"}
  PROVE  \A u \in Turns : Questioning(u)' = Questioning(u)
<1>1. \A u \in Turns, b \in Agents : agent'[u][b] = IF u = t /\ b = a THEN s ELSE agent[u][b]
  BY DEF Become, AskTypes
<1> QED BY <1>1 DEF Questioning

(* The other steps of the agents leave the questions alone. *)
LEMMA AgentHushed ==
  ASSUME AskTypes, Phases, NEW t \in Turns, AgentMove(t),
         ~ \E a \in Agents : Ask(t, a) \/ GiveUp(t, a)
  PROVE  Hushed
<1> USE MainAgent DEF askVars, agentVars, Hushed
<1>1. CASE StartBatch(t)
  <2>1. UNCHANGED <<box, waiting, question, asked, got>>
    BY <1>1 DEF StartBatch
  <2>2. agent[t][Main] = "busy" /\ \A w \in Workers : agent[t][w] \in {"none", "finished"}
    BY <1>1 DEF StartBatch, Phases
  <2>3. /\ \A u \in Turns \ {t} : agent'[u] = agent[u]
        /\ \A a \in Agents : agent'[t][a] = IF a = Main THEN "batch" ELSE "busy"
    BY <1>1 DEF StartBatch, AskTypes
  <2>4. ASSUME NEW u \in Turns PROVE Questioning(u)' = Questioning(u)
    BY <2>2, <2>3 DEF Questioning
  <2> QED BY <2>1, <2>4
<1>2. CASE JoinBatch(t)
  <2>1. \A u \in Turns : Questioning(u)' = Questioning(u)
    BY <1>2, HushedBecomes DEF JoinBatch
  <2> QED BY <1>2, <2>1 DEF JoinBatch
<1>3. ASSUME NEW a \in Agents, PassGate(t, a) PROVE Hushed
  <2>1. \A u \in Turns : Questioning(u)' = Questioning(u)
    BY <1>3, HushedBecomes DEF PassGate
  <2> QED BY <1>3, <2>1 DEF PassGate
<1>4. ASSUME NEW a \in Agents, UseTool(t, a) PROVE Hushed
  <2>1. \A u \in Turns : Questioning(u)' = Questioning(u)
    BY <1>4, HushedBecomes DEF UseTool
  <2> QED BY <1>4, <2>1 DEF UseTool
<1>5. ASSUME NEW a \in Agents, Arm(t, a) PROVE Hushed
  <2>1. \A u \in Turns : Questioning(u)' = Questioning(u)
    BY <1>5, HushedBecomes DEF Arm
  <2> QED BY <1>5, <2>1 DEF Arm
<1>6. ASSUME NEW a \in Agents, End(t, a) PROVE Hushed
  <2>1. \A u \in Turns : Questioning(u)' = Questioning(u)
    BY <1>6, HushedBecomes DEF End
  <2> QED BY <1>6, <2>1 DEF End
<1>7. ASSUME NEW a \in Agents, Call(t, a) PROVE Hushed
  <2>1. \A u \in Turns : Questioning(u)' = Questioning(u)
    BY <1>7, HushedBecomes DEF Call
  <2> QED BY <1>7, <2>1 DEF Call
<1> QED BY <1>1, <1>2, <1>3, <1>4, <1>5, <1>6, <1>7 DEF AgentMove, AgentStep, Choice

(* So do the steps that are not about questions. *)
LEMMA HushedStep ==
  ASSUME AskTypes, Phases, [Next]_vars, ~AskStep
  PROVE  Hushed
<1> USE MainAgent DEF vars, storeVars, askVars, accVars, turnVars, agentVars, loopVars, talkVars,
    endVars
<1>1. ASSUME NEW t \in Turns, Reset(t) PROVE Hushed
  BY <1>1 DEF AskStep
<1>2. ASSUME NEW t \in Turns, Setup(t) PROVE Hushed
  <2>1. agent[t][Main] = "none" /\ Become(t, Main, "busy")
    BY <1>2 DEF Setup, Phases, Become
  <2>2. \A u \in Turns : Questioning(u)' = Questioning(u)
    BY <2>1, HushedBecomes
  <2> QED BY <1>2, <2>2 DEF Setup, Hushed
<1>3. ASSUME NEW t \in Turns, SetupFails(t) PROVE Hushed
  BY <1>3 DEF SetupFails, Hushed, Questioning
<1>4. ASSUME NEW t \in Turns, Resume(t) PROVE Hushed
  BY <1>4 DEF AskStep
<1>5. ASSUME NEW t \in Turns, Done(t) PROVE Hushed
  BY <1>5 DEF Done, Hushed, Questioning
<1>6. ASSUME NEW t \in Turns, Drop(t) PROVE Hushed
  BY <1>6 DEF Drop, Hushed, Questioning
<1>7. ASSUME NEW t \in Turns, BeginArchive(t) PROVE Hushed
  BY <1>7 DEF BeginArchive, Hushed, Questioning
<1>8. ASSUME NEW t \in Turns, EndArchive(t) PROVE Hushed
  BY <1>8 DEF EndArchive, Hushed, Questioning
<1>9. ASSUME NEW t \in Turns, ArchiveFails(t) PROVE Hushed
  BY <1>9 DEF ArchiveFails, Hushed, Questioning
<1>10. ASSUME NEW t \in Turns, Disconnect(t) PROVE Hushed
  BY <1>10 DEF Disconnect, Hushed, Questioning
<1>11. ASSUME NEW t \in Turns, AgentMove(t) PROVE Hushed
  BY <1>11, AgentHushed DEF AskStep
<1>12. CASE Respond
  BY <1>12 DEF AskStep
<1>13. CASE Cancel
  BY <1>13 DEF Cancel, Hushed, Questioning
<1>14. CASE Delete
  BY <1>14 DEF Delete, Hushed, Questioning
<1>15. CASE UNCHANGED vars
  BY <1>15 DEF Hushed, Questioning
<1> QED BY <1>1, <1>2, <1>3, <1>4, <1>5, <1>6, <1>7, <1>8, <1>9, <1>10, <1>11, <1>12, <1>13,
    <1>14, <1>15 DEF Next, Handler, AgentMove

(* Every question stays in one place. *)
LEMMA DistinctStep ==
  ASSUME AskTypes, TurnTypes, Phases, Distinct, [Next]_vars
  PROVE  Distinct'
<1> USE DEF Distinct, AllKnown, OnePlace, UsedOnce
<1>1. ASSUME UNCHANGED <<box, question, asked, got>> PROVE Distinct'
  BY <1>1 DEF Known
<1>2. ASSUME NEW t \in Turns, Reset(t) PROVE Distinct'
  <2>1. box' = [box EXCEPT ![t] = None] /\ UNCHANGED <<question, asked, got>>
    BY <1>2 DEF Reset, agentVars
  <2>2. \A u \in Turns : box'[u] = IF u = t THEN None ELSE box[u]
    BY <2>1 DEF AskTypes
  <2>3. AllKnown'
    BY <2>1, <2>2 DEF Known
  <2>4. OnePlace'
    BY <2>1, <2>2
  <2> QED BY <2>3, <2>4
<1>3. ASSUME NEW t \in Turns, Resume(t) PROVE Distinct'
  <2> DEFINE s == sel[t]
  <2>1. s \in Turns /\ box[s] # None /\ box' = [box EXCEPT ![s] = None] /\ UNCHANGED <<question, asked>>
    BY <1>3 DEF Resume, TurnTypes
  <2> HIDE DEF s
  <2>2. \A u \in Turns : box'[u] = IF u = s THEN None ELSE box[u]
    BY <2>1 DEF AskTypes
  <2>3. CASE got' = got
    <3>1. AllKnown'
      BY <2>1, <2>2, <2>3 DEF Known
    <3>2. OnePlace'
      BY <2>1, <2>2, <2>3
    <3> QED BY <3>1, <3>2
  <2>4. ASSUME NEW a \in Agents, got' = [got EXCEPT ![t][a] = box[s]] PROVE Distinct'
    <3>1. \A u \in Turns, b \in Agents : got'[u][b] = IF u = t /\ b = a THEN box[s] ELSE got[u][b]
      BY <2>4 DEF AskTypes
    <3>2. AllKnown'
      BY <2>1, <2>2, <3>1 DEF Known
    <3>3. OnePlace'
      BY <2>1, <2>2, <3>1
    <3> QED BY <3>2, <3>3
  <2>5. got' = got \/ \E a \in Agents : got' = [got EXCEPT ![t][a] = box[s]]
    <3>1. \A a \in Listening(t) : a \in Agents
      BY MainAgent DEF Listening
    <3> HIDE DEF Distinct
    <3> QED BY <1>3, <3>1 DEF Resume, s
  <2> QED BY <2>3, <2>4, <2>5
<1>4. ASSUME NEW t \in Turns, NEW a \in Agents, Ask(t, a) PROVE Distinct'
  <2>1. /\ asked' = [asked EXCEPT ![t][a] = @ + 1] /\ question' = <<t, a, asked[t][a] + 1>>
        /\ UNCHANGED <<box, got>>
    BY <1>4 DEF Ask, Show
  <2>2. \A u \in Turns, b \in Agents : /\ asked[u][b] \in Nat
                                       /\ asked'[u][b] = IF u = t /\ b = a THEN asked[u][b] + 1 ELSE asked[u][b]
    BY <2>1 DEF AskTypes
  <2>3. ASSUME NEW x \in Questions \cup {None}, Known(x) PROVE Known(x)' /\ (x # None => x # question')
    <3>1. CASE x # None
      <4>1. x[1] \in Turns /\ x[2] \in Agents /\ x[3] \in Nat /\ x[3] <= asked[x[1]][x[2]]
        BY <2>3, <3>1 DEF Known, Questions
      <4>2. x = question' => x[3] = asked[t][a] + 1 /\ x[1] = t /\ x[2] = a
        BY <2>1
      <4>3. asked[x[1]][x[2]] <= asked'[x[1]][x[2]]
        BY <2>2, <4>1
      <4>4. asked'[x[1]][x[2]] \in Nat /\ asked[x[1]][x[2]] \in Nat
        BY <2>2, <4>1
      <4>5. x # question'
        BY <2>2, <4>1, <4>2
      <4>6. x[3] <= asked'[x[1]][x[2]]
        BY <4>1, <4>3, <4>4
      <4> QED BY <4>5, <4>6 DEF Known
    <3> QED BY <3>1 DEF Known
  <2>4. \A u \in Turns : Known(box[u])' /\ (box[u] # None => box[u] # question')
    BY <2>1, <2>3 DEF AskTypes
  <2>5. ASSUME NEW u \in Turns, NEW b \in Agents
        PROVE  Known(got[u][b])' /\ (got[u][b] # None => got[u][b] # question')
    <3>1. got[u][b] \in Questions \cup {None} /\ Known(got[u][b]) /\ got' = got
      BY <2>1 DEF AskTypes
    <3>2. PICK x : x = got[u][b]
      OBVIOUS
    <3>3. Known(x)' /\ (x # None => x # question')
      BY <2>3, <3>1, <3>2
    <3> QED BY <3>1, <3>2, <3>3 DEF Known
  <2>6. Known(question)'
    BY <2>1, <2>2 DEF Known
  <2>7. AllKnown'
    BY <2>4, <2>5, <2>6
  <2>8. OnePlace'
    BY <2>1, <2>4, <2>5
  <2> QED BY <2>7, <2>8
<1>5. CASE Respond
  <2>1. /\ chan \in Turns /\ box' = [box EXCEPT ![chan] = question] /\ question' = None
        /\ UNCHANGED <<asked, got>>
    BY <1>5 DEF Respond, RespondHITL, agentVars, AskTypes
  <2>2. \A u \in Turns : box'[u] = IF u = chan THEN question ELSE box[u]
    BY <2>1 DEF AskTypes
  <2>3. AllKnown'
    BY <2>1, <2>2 DEF Known
  <2>4. OnePlace'
    BY <2>1, <2>2
  <2> QED BY <2>3, <2>4
<1>6. ASSUME NEW t \in Turns, NEW a \in Agents, GiveUp(t, a) PROVE Distinct'
  BY <1>1, <1>6 DEF GiveUp, askVars
<1>7. CASE Hushed
  BY <1>1, <1>7 DEF Hushed
<1> HIDE DEF Distinct
<1> QED BY <1>2, <1>3, <1>4, <1>5, <1>6, <1>7, HushedStep DEF AskStep

(* No agent asks in a turn whose main agent is not at work. *)
LEMMA NoQuestions ==
  ASSUME Phases, NEW t \in Turns, ~Alive(t)
  PROVE  Questioning(t) = {}
BY AgentAlive DEF Questioning

(* The questions of the turns under each step, as long as nothing has gone  *)
(* wrong: first a new turn ...                                              *)
LEMMA AnsweringReset ==
  ASSUME AskTypes, TurnTypes, Phases, Answering, NEW t \in Turns, Reset(t),
         ~Mishap({"overlap", "stale"})'
  PROVE  Answering'
<1>1. /\ agent[t][Main] = "none" /\ \A a \in Agents : asked[t][a] = 0
      /\ UNCHANGED <<waiting, question, agent, asked, got, cancelled>>
      /\ box' = [box EXCEPT ![t] = None]
  BY DEF Reset, Phases, agentVars, endVars
<1>2. ~waiting
  BY DEF Reset, Mishap
<1>3. \A u \in Turns : Active(u)' => u = t
  BY ResetAlone DEF Mishap
<1>4. Pending(t)'
  <2>1. Questioning(t)' = {}
    BY <1>1, NoQuestions DEF Questioning, Alive
  <2>2. box'[t] = None
    BY <1>1 DEF AskTypes
  <2> QED BY <1>1, <1>2, <2>1, <2>2 DEF Pending
<1>5. \A u \in Turns : Answered(u) => Answered(u)'
  BY <1>1 DEF Answered, Questioning, Latest
<1> QED BY <1>1, <1>3, <1>4, <1>5 DEF Answering

(* ... an answer that is passed on ... *)
LEMMA AnsweringResume ==
  ASSUME AskTypes, TurnTypes, Phases, Single, Running, Answering, NEW t \in Turns, Resume(t)
  PROVE  Answering'
<1>1. /\ Active(t) /\ \A u \in Turns : Active(u)' => u = t
  BY ActiveOnly DEF AgentOf, Handler
<1>2. /\ sel[t] = t /\ box[t] # None /\ box' = [box EXCEPT ![t] = None]
      /\ UNCHANGED <<waiting, question, asked, cancelled>>
  BY <1>1 DEF Resume, Running, Channels, endVars
<1>3. box'[t] = None
  BY <1>2 DEF AskTypes
<1>4. \/ Listening(t) = {} /\ agent' = agent /\ got' = got
      \/ \E a \in Listening(t) : Become(t, a, "busy") /\ got' = [got EXCEPT ![t][a] = box[t]]
  BY <1>2 DEF Resume
<1>5. \A a \in Listening(t) : a \in Agents /\ a \in Questioning(t)
  BY MainAgent DEF Listening, Questioning
<1>6. CASE agent' = agent /\ got' = got
  <2>1. \A u \in Turns : Questioning(u)' = Questioning(u)
    BY <1>6 DEF Questioning
  <2>2. \A u \in Turns : Answered(u) => Answered(u)'
    BY <1>2, <1>6, <2>1 DEF Answered, Latest
  <2>3. t \notin cancelled => Pending(t)'
    BY <1>1, <1>2, <1>3, <2>1 DEF Answering, Pending, Latest
  <2> QED BY <1>1, <1>2, <2>2, <2>3 DEF Answering
<1>7. ASSUME NEW a \in Listening(t), Become(t, a, "busy"), got' = [got EXCEPT ![t][a] = box[t]]
      PROVE  Answering'
  <2>1. a \in Agents /\ a \in Questioning(t)
    BY <1>5
  <2>2. /\ \A u \in Turns \ {t} : agent'[u] = agent[u] /\ got'[u] = got[u]
        /\ \A b \in Agents : /\ agent'[t][b] = IF b = a THEN "busy" ELSE agent[t][b]
                             /\ got'[t][b] = IF b = a THEN box[t] ELSE got[t][b]
    BY <1>7, <2>1 DEF Become, AskTypes
  <2>3. Questioning(t)' = Questioning(t) \ {a} /\ \A u \in Turns \ {t} : Questioning(u)' = Questioning(u)
    BY <2>2 DEF Questioning
  <2>4. \A u \in Turns \ {t} : Answered(u) => Answered(u)'
    BY <1>2, <2>2, <2>3 DEF Answered, Latest
  <2>5. ASSUME t \notin cancelled PROVE Pending(t)' /\ Answered(t)'
    <3>1. Pending(t) /\ Answered(t)
      BY <1>1, <2>5 DEF Answering
    <3>2. Questioning(t) = {a} /\ box[t] = Latest(t, a) /\ ~waiting
      BY <1>2, <2>1, <3>1 DEF Pending
    <3>3. Questioning(t)' = {}
      BY <2>3, <3>2
    <3>4. Pending(t)'
      BY <1>2, <1>3, <3>2, <3>3 DEF Pending
    <3>5. Answered(t)'
      BY <1>2, <2>2, <3>1, <3>2, <3>3 DEF Answered, Latest
    <3> QED BY <3>4, <3>5
  <2> QED BY <1>1, <1>2, <2>4, <2>5 DEF Answering
<1> QED BY <1>4, <1>6, <1>7

(* ... a new question ... *)
LEMMA AnsweringAsk ==
  ASSUME AskTypes, TurnTypes, Phases, Single, Answering, NEW t \in Turns, NEW a \in Agents,
         Ask(t, a), ~Mishap({"crowd"})'
  PROVE  Answering'
<1>1. /\ Active(t) /\ \A u \in Turns : Active(u)' => u = t
  BY ActiveOnly DEF AgentOf, AgentMove, Choice
<1>2. /\ waiting' = TRUE /\ question' = <<t, a, asked[t][a] + 1>>
      /\ asked' = [asked EXCEPT ![t][a] = @ + 1] /\ agent' = [agent EXCEPT ![t][a] = "asking"]
      /\ UNCHANGED <<box, got, cancelled>>
  BY DEF Ask, Show, Become, endVars
<1>3. ~waiting /\ Questioning(t) = {}
  BY DEF Ask, Show, Mishap
<1>4. /\ \A u \in Turns \ {t} : agent'[u] = agent[u] /\ asked'[u] = asked[u]
      /\ \A b \in Agents : /\ agent'[t][b] = IF b = a THEN "asking" ELSE agent[t][b]
                           /\ asked'[t][b] = IF b = a THEN asked[t][a] + 1 ELSE asked[t][b]
  BY <1>2 DEF AskTypes
<1>5. Questioning(t)' = {a} /\ \A u \in Turns \ {t} : Questioning(u)' = Questioning(u)
  BY <1>3, <1>4 DEF Questioning
<1>6. \A u \in Turns \ {t} : Answered(u) => Answered(u)'
  BY <1>2, <1>4, <1>5 DEF Answered, Latest
<1>7. ASSUME t \notin cancelled PROVE Pending(t)' /\ Answered(t)'
  <2>1. Pending(t) /\ Answered(t)
    BY <1>1, <1>7 DEF Answering
  <2>2. box[t] = None
    BY <1>3, <2>1 DEF Pending
  <2>3. question' = Latest(t, a)'
    BY <1>2, <1>4 DEF Latest
  <2>4. Pending(t)'
    BY <1>2, <1>5, <2>2, <2>3 DEF Pending
  <2>5. Answered(t)'
    <3> SUFFICES ASSUME NEW b \in Agents, b # a, asked'[t][b] > 0 PROVE got'[t][b] = Latest(t, b)'
      BY <1>5 DEF Answered
    <3>1. asked'[t][b] = asked[t][b] /\ got'[t][b] = got[t][b] /\ b \notin Questioning(t)
      BY <1>2, <1>3, <1>4
    <3> QED BY <2>1, <3>1 DEF Answered, Latest
  <2> QED BY <2>4, <2>5
<1> QED BY <1>1, <1>2, <1>6, <1>7 DEF Answering

(* ... one that is given up ... *)
LEMMA AnsweringGiveUp ==
  ASSUME AskTypes, TurnTypes, Phases, Single, Answering, NEW t \in Turns, NEW a \in Agents,
         GiveUp(t, a), ~Mishap({"shut"})'
  PROVE  Answering'
<1>1. /\ \A u \in Turns : Active(u)' => u = t
  BY ActiveOnly DEF AgentOf, AgentMove, AgentStep
<1>2. t \in cancelled
  BY DEF GiveUp, Mishap
<1>3. UNCHANGED <<asked, got, cancelled>> /\ \A u \in Turns \ {t} : agent'[u] = agent[u]
  BY DEF GiveUp, Become, AskTypes, endVars
<1>4. \A u \in Turns \ {t} : Answered(u) => Answered(u)'
  BY <1>3 DEF Answered, Questioning, Latest
<1> QED BY <1>1, <1>2, <1>3, <1>4 DEF Answering

(* ... an answer of the user ... *)
LEMMA AnsweringRespond ==
  ASSUME AskTypes, TurnTypes, Phases, Running, Answering, Respond
  PROVE  Answering'
<1>1. /\ waiting /\ chan \in Turns /\ box' = [box EXCEPT ![chan] = question]
      /\ waiting' = FALSE /\ question' = None
      /\ UNCHANGED <<pc, agent, asked, got, cancelled>>
  BY DEF Respond, RespondHITL, agentVars, turnVars, endVars, AskTypes
<1>2. \A u \in Turns : box'[u] = IF u = chan THEN question ELSE box[u]
  BY <1>1 DEF AskTypes
<1>3. \A u \in Turns : /\ Active(u)' = Active(u) /\ Questioning(u)' = Questioning(u)
                       /\ Answered(u)' = Answered(u)
  BY <1>1 DEF Active, Questioning, Answered, Latest
<1>4. ASSUME NEW u \in Turns \ cancelled, Active(u) PROVE Pending(u)'
  <2>1. Pending(u) /\ chan = u
    BY <1>4 DEF Answering, Running, Channels
  <2>2. PICK a \in Questioning(u) : question = Latest(u, a)
    BY <1>1, <2>1 DEF Pending
  <2>3. box'[u] = Latest(u, a) /\ Latest(u, a)' = Latest(u, a)
    BY <1>1, <1>2, <2>1, <2>2 DEF Latest
  <2> QED BY <1>1, <1>3, <2>1, <2>2, <2>3 DEF Pending
<1> QED BY <1>1, <1>3, <1>4 DEF Answering

(* ... and the others. *)
LEMMA AnsweringStep ==
  ASSUME AskTypes, TurnTypes, Phases, Single, Running, Answering, [Next]_vars,
         ~Mishap({"overlap", "stale", "crowd", "shut"})'
  PROVE  Answering'
<1>1. ASSUME Hushed, ~ \E t \in Turns : Reset(t) PROVE Answering'
  <2>1. \A u \in Turns : Active(u)' => Active(u)
    BY <1>1, StepCases, ActiveKept DEF Respond, Cancel, Delete, vars, turnVars, agentVars, Active
  <2>2. cancelled \subseteq cancelled'
    <3>1. ASSUME NEW t \in Turns, AgentOf(t) PROVE cancelled \subseteq cancelled'
      <4>1. CASE AgentMove(t)
        BY <4>1, AgentFrame DEF Moved
      <4>2. CASE Handler(t) \/ Disconnect(t)
        BY <4>2 DEF Handler, Setup, SetupFails, Resume, Done, Drop, BeginArchive, EndArchive,
                    ArchiveFails, Disconnect, endVars
      <4> QED BY <3>1, <4>1, <4>2 DEF AgentOf
    <3>2. CASE Respond \/ Cancel \/ Delete \/ UNCHANGED vars
      BY <3>2 DEF Respond, Cancel, Delete, vars, endVars
    <3> QED BY <1>1, <3>1, <3>2, StepCases
  <2>3. \A u \in Turns : Pending(u)' = Pending(u) /\ Answered(u)' = Answered(u)
    BY <1>1 DEF Hushed, Pending, Answered, Latest
  <2> QED BY <2>1, <2>2, <2>3 DEF Answering
<1>2. ASSUME NEW t \in Turns, Reset(t) PROVE Answering'
  BY <1>2, AnsweringReset DEF Mishap
<1>3. ASSUME NEW t \in Turns, Resume(t) PROVE Answering'
  BY <1>3, AnsweringResume
<1>4. ASSUME NEW t \in Turns, NEW a \in Agents, Ask(t, a) PROVE Answering'
  BY <1>4, AnsweringAsk DEF Mishap
<1>5. ASSUME NEW t \in Turns, NEW a \in Agents, GiveUp(t, a) PROVE Answering'
  BY <1>5, AnsweringGiveUp DEF Mishap
<1>6. CASE Respond
  BY <1>6, AnsweringRespond
<1> QED BY <1>1, <1>2, <1>3, <1>4, <1>5, <1>6, HushedStep DEF AskStep
-----------------------------------------------------------------------------
(* Sums. *)

(* A set of numbers has a least element. *)
LEMMA Least ==
  ASSUME NEW S, S \subseteq Nat, S # {}
  PROVE  \E n \in S : \A m \in S : n <= m
<1> DEFINE T == {1 .. n : n \in S}
<1>1. T \subseteq FiniteSubsetsOf(Nat)
  BY FS_Interval DEF FiniteSubsetsOf
<1>2. PICK X \in T : \A Y \in T : ~ (<<Y, X>> \in StrictSubsetOrdering(Nat))
  <2>1. T # {}
    OBVIOUS
  <2> HIDE DEF T
  <2> QED BY <1>1, <2>1, FS_StrictSubsetOrderingWellFounded, WFMin
<1>3. PICK n \in S : X = 1 .. n
  OBVIOUS
<1>4. ASSUME NEW m \in S, m < n PROVE FALSE
  <2>1. 1 .. m \in T /\ 1 .. m \subseteq 1 .. n /\ n \notin 1 .. m /\ n \in 1 .. n
    BY <1>4
  <2>2. 1 .. m # 1 .. n
    BY <2>1
  <2>3. 1 .. m \in SUBSET Nat /\ 1 .. n \in SUBSET Nat
    BY <1>4
  <2> QED BY <1>2, <1>3, <2>1, <2>2, <2>3 DEF StrictSubsetOrdering
<1> QED BY <1>3, <1>4

(* Induction: a set with 0 and every successor has all numbers. *)
LEMMA Inductive ==
  ASSUME NEW S, 0 \in S, \A n \in Nat : n \in S => n + 1 \in S
  PROVE  Nat \subseteq S
<1> SUFFICES ASSUME Nat \ S # {} PROVE FALSE
  OBVIOUS
<1>1. PICK n \in Nat \ S : \A m \in Nat \ S : n <= m
  BY Least
<1>2. n # 0 /\ n - 1 \in Nat /\ n - 1 \notin S => FALSE
  BY <1>1
<1> QED BY <1>1, <1>2

(* The sums of the first n records of s. *)
Sums(s, f) == /\ f = [n \in 0 .. Len(s) |-> f[n]] /\ f[0] = 0
              /\ \A n \in 1 .. Len(s) : f[n] = f[n - 1] + s[n].usage

(* They exist. *)
LEMMA SumsExist ==
  ASSUME NEW s, Len(s) \in Nat
  PROVE  \E f : Sums(s, f)
<1> DEFINE P(k) == \E f : /\ f = [n \in 0 .. k |-> f[n]] /\ f[0] = 0
                          /\ \A n \in 1 .. k : f[n] = f[n - 1] + s[n].usage
           S == {k \in Nat : P(k)}
<1>1. P(0)
  <2> DEFINE f == [n \in 0 .. 0 |-> 0]
  <2>1. f = [n \in 0 .. 0 |-> f[n]] /\ f[0] = 0 /\ 1 .. 0 = {}
    OBVIOUS
  <2> HIDE DEF f
  <2> QED BY <2>1
<1>2. ASSUME NEW k \in Nat, P(k) PROVE P(k + 1)
  <2>1. PICK f : /\ f = [n \in 0 .. k |-> f[n]] /\ f[0] = 0
                 /\ \A n \in 1 .. k : f[n] = f[n - 1] + s[n].usage
    BY <1>2
  <2> DEFINE last == f[k] + s[k + 1].usage
             g == [n \in 0 .. k + 1 |-> IF n = k + 1 THEN last ELSE f[n]]
  <2> HIDE DEF last
  <2>2. g = [n \in 0 .. k + 1 |-> g[n]] /\ g[0] = 0
    BY <2>1
  <2>3. ASSUME NEW n \in 1 .. k + 1 PROVE g[n] = g[n - 1] + s[n].usage
    <3>1. CASE n = k + 1
      <4>1. g[n] = last /\ g[n - 1] = f[k]
        BY <3>1
      <4> QED BY <3>1, <4>1 DEF last
    <3>2. CASE n # k + 1
      <4>1. n \in 1 .. k /\ g[n] = f[n] /\ g[n - 1] = f[n - 1]
        BY <3>2
      <4> QED BY <2>1, <4>1
    <3> QED BY <3>1, <3>2
  <2> HIDE DEF g
  <2> QED BY <2>2, <2>3
<1>3. Len(s) \in S
  <2> HIDE DEF P
  <2>1. 0 \in S /\ \A n \in Nat : n \in S => n + 1 \in S
    BY <1>1, <1>2
  <2> QED BY <2>1, Inductive
<1> QED BY <1>3 DEF Sums

(* Total is their last. *)
LEMMA TotalIs ==
  ASSUME NEW s, Len(s) \in Nat
  PROVE  \E f : Sums(s, f) /\ Total(s) = f[Len(s)]
<1> DEFINE T(f) == [n \in 0 .. Len(s) |-> IF n = 0 THEN 0 ELSE f[n - 1] + s[n].usage]
           F == CHOOSE f : f = T(f)
<1>1. \A f : Sums(s, f) <=> f = T(f)
  <2> TAKE f
  <2>1. ASSUME f = T(f) PROVE Sums(s, f)
    BY <2>1 DEF Sums
  <2>2. ASSUME Sums(s, f) PROVE f = T(f)
    BY <2>2 DEF Sums
  <2> QED BY <2>1, <2>2
<1>2. F = T(F)
  <2>1. \E f : f = T(f)
    BY <1>1, SumsExist
  <2> HIDE DEF T
  <2> QED BY <2>1
<1>3. Total(s) = F[Len(s)]
  BY DEF Total
<1> HIDE DEF F, T
<1> QED BY <1>1, <1>2, <1>3

(* There is a record. *)
LEMMA EmptyRecord == \E r : r \in Records
<1>1. [goal |-> None, messages |-> {}, usage |-> 0] \in Records
  BY DEF Records
<1> QED BY <1>1

(* An appended record adds to the total. *)
LEMMA TotalAppend ==
  ASSUME NEW s \in Seq(Records), NEW r \in Records
  PROVE  Total(Append(s, r)) = Total(s) + r.usage /\ Total(<<>>) = 0
<1> DEFINE a == Append(s, r)
           n == Len(s)
<1>1. a \in Seq(Records) /\ n \in Nat /\ Len(a) = n + 1 /\ a[n + 1] = r /\ \A i \in 1 .. n : a[i] = s[i]
  OBVIOUS
<1> HIDE DEF a
<1>2. PICK f : Sums(s, f) /\ Total(s) = f[n]
  BY <1>1, TotalIs
<1>3. PICK g : Sums(a, g) /\ Total(a) = g[n + 1]
  BY <1>1, TotalIs
<1> DEFINE S == {k \in Nat : k <= n => f[k] = g[k]}
<1>4. n \in S
  <2>1. 0 \in S
    BY <1>2, <1>3 DEF Sums
  <2>2. ASSUME NEW k \in Nat, k \in S PROVE k + 1 \in S
    <3> SUFFICES ASSUME k + 1 <= n PROVE f[k + 1] = g[k + 1]
      OBVIOUS
    <3>1. f[k] = g[k] /\ k + 1 \in 1 .. n /\ k + 1 \in 1 .. n + 1 /\ (k + 1) - 1 = k
      BY <1>1, <2>2
    <3>2. f[k + 1] = f[k] + s[k + 1].usage /\ g[k + 1] = g[k] + a[k + 1].usage
      BY <1>1, <1>2, <1>3, <3>1 DEF Sums
    <3> QED BY <1>1, <3>1, <3>2
  <2> HIDE DEF S
  <2> QED BY <1>1, <2>1, <2>2, Inductive
<1>5. g[n + 1] = g[n] + r.usage
  <2>1. n + 1 \in 1 .. n + 1 /\ (n + 1) - 1 = n
    BY <1>1
  <2> QED BY <1>1, <1>3, <2>1 DEF Sums
<1>6. f[n] = g[n]
  BY <1>1, <1>4
<1>7. Total(<<>>) = 0
  <2>1. Len(<<>>) = 0
    OBVIOUS
  <2>2. PICK h : Sums(<<>>, h) /\ Total(<<>>) = h[Len(<<>>)]
    BY <2>1, TotalIs
  <2> QED BY <2>1, <2>2 DEF Sums
<1> QED BY <1>2, <1>3, <1>5, <1>6, <1>7 DEF a
-----------------------------------------------------------------------------
(* The archive. *)

(* The records of a file stay right. *)
LEMMA RecordedStep ==
  ASSUME AskTypes, TurnTypes, Phases, [Next]_vars, NEW s, Recorded(s)
  PROVE  Recorded(s)'
<1> SUFFICES ASSUME NEW i \in DOMAIN s
             PROVE  LET r == s[i] IN
                    /\ r.goal \in Turns /\ pc'[r.goal] \in {"writing", "ended"}
                    /\ agent'[r.goal][Main] = "finished"
                    /\ r.usage = reports'[r.goal] /\ r.messages = Talk(r.goal)'
                    /\ \A j \in DOMAIN s : s[j].goal = r.goal => i = j
  BY DEF Recorded
<1>1. PICK r : r = s[i]
  OBVIOUS
<1>2. /\ r.goal \in Turns /\ pc[r.goal] \in {"writing", "ended"} /\ agent[r.goal][Main] = "finished"
      /\ r.usage = reports[r.goal] /\ r.messages = Talk(r.goal)
      /\ \A j \in DOMAIN s : s[j].goal = r.goal => i = j
  BY <1>1 DEF Recorded
<1>3. Settled(r.goal)
  BY <1>2, SettledStep
<1>4. Talk(r.goal)' = Talk(r.goal)
  BY <1>3 DEF Settled, Talk
<1> QED BY <1>1, <1>2, <1>3, <1>4 DEF Settled

(* An archived turn adds its record, the first of that turn. *)
LEMMA AddedRecord ==
  ASSUME TurnTypes, Phases, Running, NEW t \in Turns, BeginArchive(t), NEW s \in Seq(Records),
         Recorded(s), Recorded(s)', NEW r, r = Record
  PROVE  Recorded(Append(s, r))'
<1>1. /\ pc[t] = "archive" /\ agent[t][Main] = "finished" /\ pc'[t] = "writing"
      /\ UNCHANGED <<agent, reports, said>>
  BY DEF BeginArchive, Goto, TurnTypes, Phases, agentVars, talkVars
<1>2. Active(t)
  BY <1>1 DEF Active
<1>3. r.goal = t /\ r.usage = reports[t] /\ r.messages = Talk(t) /\ Talk(t)' = Talk(t)
  BY <1>1, <1>2 DEF Record, Running, Turning, Talk
<1>4. \A i \in DOMAIN s : s[i].goal # t
  BY <1>1 DEF Recorded
<1> DEFINE a == Append(s, r)
<1>5. /\ DOMAIN a = 1 .. Len(s) + 1 /\ a[Len(s) + 1] = r /\ Len(s) \in Nat
      /\ \A i \in 1 .. Len(s) : i \in DOMAIN s /\ a[i] = s[i]
  OBVIOUS
<1> HIDE DEF a
<1>6. \A i \in DOMAIN a : i = Len(s) + 1 \/ i \in 1 .. Len(s)
  BY <1>5
<1>7. ASSUME NEW i \in DOMAIN a
      PROVE  LET x == a[i] IN
             /\ x.goal \in Turns /\ pc'[x.goal] \in {"writing", "ended"}
             /\ agent'[x.goal][Main] = "finished"
             /\ x.usage = reports'[x.goal] /\ x.messages = Talk(x.goal)'
             /\ \A j \in DOMAIN a : a[j].goal = x.goal => i = j
  <2>1. CASE i = Len(s) + 1
    <3>1. a[i] = r /\ Talk(r.goal)' = Talk(t)
      BY <2>1, <1>3, <1>5
    <3>2. \A j \in DOMAIN a : a[j].goal = t => i = j
      BY <2>1, <1>4, <1>5, <1>6
    <3> QED BY <3>1, <3>2, <1>1, <1>3
  <2>2. CASE i \in 1 .. Len(s)
    <3>1. /\ a[i] = s[i] /\ i \in DOMAIN s /\ s[i].goal # t
      BY <2>2, <1>4, <1>5
    <3>2. \A j \in DOMAIN a : a[j].goal = s[i].goal => i = j
      BY <3>1, <1>3, <1>5, <1>6 DEF Recorded
    <3> QED BY <3>1, <3>2 DEF Recorded
  <2> QED BY <2>1, <2>2, <1>6
<1> QED BY <1>7 DEF Recorded, a

(* The archive stays exact. *)
LEMMA ExactStep ==
  ASSUME Types, Phases, Filed, Running, Exact, [Next]_vars
  PROVE  Exact'
<1>1. ASSUME file'.turns = file.turns, file'.usage = file.usage PROVE Exact'
  <2>1. PICK s : s = file.turns
    OBVIOUS
  <2>2. Recorded(s)'
    BY <2>1, RecordedStep DEF Exact, Types
  <2> QED BY <1>1, <2>1, <2>2 DEF Exact
<1>2. Total(<<>>) = 0 /\ Recorded(<<>>) /\ Recorded(<<>>)'
  <2>1. PICK r : r \in Records
    BY EmptyRecord
  <2>2. <<>> \in Seq(Records) /\ DOMAIN <<>> = {}
    OBVIOUS
  <2>3. Total(<<>>) = 0
    BY <2>1, <2>2, TotalAppend
  <2>4. Recorded(<<>>) /\ Recorded(<<>>)'
    BY <2>2 DEF Recorded
  <2> QED BY <2>3, <2>4
<1>3. CASE Elsewhere
  BY <1>1, <1>3 DEF Elsewhere
<1>4. ASSUME NEW t \in Turns, BeginArchive(t) PROVE Exact'
  <2>1. PICK s, r : s = Loaded.turns /\ r = Record
    OBVIOUS
  <2>2. /\ s \in Seq(Records) /\ r \in Records /\ r.usage = usage
        /\ file'.turns = Append(s, r) /\ file'.usage = Loaded.usage + usage
    BY <1>4, <2>1, ArchiveAdds DEF Record, Types
  <2>3. Recorded(s) /\ Loaded.usage = Total(s)
    <3>1. CASE Loaded = file
      BY <3>1, <2>1 DEF Exact
    <3>2. CASE Loaded = NoFile
      <4>1. s = <<>> /\ Loaded.usage = 0
        BY <3>2, <2>1 DEF NoFile
      <4> QED BY <4>1, <1>2 DEF Recorded
    <3> QED BY <1>4, <3>1, <3>2, ArchiveAdds DEF Types
  <2>4. Recorded(s)'
    BY <2>3, RecordedStep DEF Types
  <2>5. Recorded(Append(s, r))'
    BY <1>4, <2>1, <2>2, <2>3, <2>4, AddedRecord DEF Types
  <2>6. Total(Append(s, r)) = Total(s) + r.usage
    BY <2>2, TotalAppend
  <2> QED BY <2>2, <2>3, <2>5, <2>6 DEF Exact
<1>5. ASSUME NEW t \in Turns, EndArchive(t) PROVE Exact'
  <2>1. file'.turns = file.turns /\ file'.usage = file.usage
    BY <1>5 DEF EndArchive, Filed, FileType
  <2> QED BY <2>1, <1>1
<1>6. ASSUME NEW t \in Turns, ArchiveFails(t) PROVE Exact'
  BY <1>1, <1>6 DEF ArchiveFails, storeVars
<1>7. CASE Delete
  <2>1. file'.turns = <<>> /\ file'.usage = 0
    BY <1>7 DEF Delete, NoFile
  <2> QED BY <1>2, <2>1 DEF Exact
<1> QED BY <1>3, <1>4, <1>5, <1>6, <1>7, FileAlone
-----------------------------------------------------------------------------
(* The invariant. *)

(* An empty record has no turn, and nobody has asked anything. *)
LEMMA UiInit ==
  ASSUME Init
  PROVE  UiInv
<1>1. /\ file.state = "good" /\ file.turns = <<>> /\ file.usage = 0
      /\ file = [state |-> "good", turns |-> <<>>, usage |-> 0]
  BY DEF Init, NoFile
<1>2. AskTypes /\ TurnTypes
  BY UiAssumption DEF Init, AskTypes, TurnTypes, Places, Doings
<1>3. Phases /\ \A t \in Turns : ~Active(t)
  BY MainAgent DEF Init, Phases, Active
<1>4. Filed
  <2>1. FileType
    BY <1>1 DEF FileType
  <2>2. present = TRUE /\ \A t \in Turns : pc[t] # "writing"
    BY DEF Init
  <2> QED BY <1>1, <2>1, <2>2 DEF Filed
<1>5. Exact
  <2>1. PICK r : r \in Records
    BY EmptyRecord
  <2>2. <<>> \in Seq(Records) /\ DOMAIN <<>> = {}
    OBVIOUS
  <2>3. Total(<<>>) = 0
    BY <2>1, <2>2, TotalAppend
  <2> QED BY <1>1, <2>2, <2>3 DEF Exact, Recorded
<1>6. Distinct
  BY DEF Init, Distinct, AllKnown, Known, OnePlace, UsedOnce
<1>7. Answering
  BY <1>3 DEF Init, Answering, Answered
<1> QED BY <1>2, <1>3, <1>4, <1>5, <1>6, <1>7 DEF UiInv, Types, Alone, Single, Running

(* Every step keeps it. *)
LEMMA UiStep ==
  ASSUME UiInv, [Next]_vars
  PROVE  UiInv'
<1>1. Types /\ AskTypes /\ TurnTypes /\ Phases /\ Filed /\ Distinct
  BY DEF UiInv, Types
<1>2. Types' /\ Phases' /\ Filed' /\ Distinct'
  <2>1. chan \in Turns \cup {None}
    BY <1>1 DEF AskTypes
  <2>2. Types'
    BY <1>1, <2>1, AskTypesStep, TurnTypesStep DEF Types
  <2> QED BY <1>1, <2>2, PhasesStep, FiledStep, DistinctStep
<1>3. mishaps \subseteq mishaps'
  BY <1>1, MishapsStay
<1>4. ASSUME ~Mishap({"overlap"})' PROVE Alone'
  <2>1. Single /\ Running /\ Exact
    BY <1>3, <1>4 DEF UiInv, Alone, Mishap
  <2> QED BY <1>1, <1>4, <2>1, SingleStep, RunningStep, ExactStep DEF Alone
<1>5. ASSUME ~Mishap({"overlap", "stale", "crowd", "shut"})' PROVE Answering'
  <2>1. Single /\ Running /\ Answering
    BY <1>3, <1>5 DEF UiInv, Alone, Mishap
  <2> QED BY <1>1, <1>5, <2>1, AnsweringStep
<1> QED BY <1>2, <1>4, <1>5 DEF UiInv

(* It always holds. *)
LEMMA UiAlways == Spec => []UiInv
<1>1. Init => UiInv
  BY UiInit
<1>2. UiInv /\ [Next]_vars => UiInv'
  BY UiStep
<1> QED BY <1>1, <1>2, PTL DEF Spec

(* An answer serves once, whatever happens; and an agent that proceeds      *)
(* after a question has the answer to that question, unless its turn is     *)
(* cancelled, two questions are open, turns overlap, an old question is     *)
(* shown when a turn starts, or a worker has given its question up.         *)
THEOREM QuestionsAnswered == Spec => []EachQuestionOnce
<1>1. UiInv => RightAnswer
  <2> SUFFICES ASSUME UiInv, ~Mishap({"overlap", "stale", "crowd", "shut"}),
                      NEW t \in Turns \ cancelled, NEW a \in Agents,
                      agent[t][a] \notin {"asking", "waiting"}, asked[t][a] > 0
               PROVE  got[t][a] = <<t, a, asked[t][a]>>
    BY DEF RightAnswer
  <2>1. a \notin Questioning(t)
    BY DEF Questioning
  <2> QED BY <2>1 DEF UiInv, Answering, Answered, Latest
<1>2. UiInv => UsedOnce
  BY DEF UiInv, Distinct, OnePlace
<1> QED BY <1>1, <1>2, UiAlways, PTL DEF EachQuestionOnce

(* The file's turns are kept by every step but the delete, as long as no    *)
(* write failed half way.                                                   *)
LEMMA TurnsKept ==
  ASSUME UiInv, [Next]_vars, ~Mishap({"torn"}), present'
  PROVE  IsPrefix(file.turns, file'.turns)
<1>1. Types /\ TurnTypes /\ Phases /\ Filed /\ file.turns \in Seq(Records)
  BY DEF UiInv, Types, Filed, FileType
<1>2. ASSUME file'.turns = file.turns PROVE IsPrefix(file.turns, file'.turns)
  BY <1>1, <1>2 DEF IsPrefix
<1>3. ASSUME NEW t \in Turns, BeginArchive(t) PROVE IsPrefix(file.turns, file'.turns)
  <2>1. Loaded = file
    BY <1>1, <1>3, ArchiveAdds DEF BeginArchive, Filed
  <2>2. PICK s, r : s = file.turns /\ r = Record
    OBVIOUS
  <2>3. s \in Seq(Records) /\ r \in Records /\ file'.turns = Append(s, r)
    BY <1>1, <1>3, <2>1, <2>2, ArchiveAdds
  <2> QED BY <2>2, <2>3 DEF IsPrefix
<1>4. CASE \E t \in Turns : EndArchive(t) \/ ArchiveFails(t)
  BY <1>1, <1>2, <1>4 DEF EndArchive, ArchiveFails, storeVars, Filed, FileType
<1>5. CASE Elsewhere
  BY <1>2, <1>5 DEF Elsewhere
<1>6. ~Delete
  BY DEF Delete
<1> QED BY <1>1, <1>3, <1>4, <1>5, <1>6, FileAlone

(* A running turn can be cancelled, the archive is exact, a deleted session *)
(* stays deleted, and archived turns stay.                                  *)
THEOREM ArchiveIsKept == Spec => ArchiveKept
<1>1. UiInv => TypeOK /\ Cancellable /\ ArchiveExact /\ StaysDeleted
  <2> SUFFICES ASSUME UiInv PROVE TypeOK /\ Cancellable /\ ArchiveExact /\ StaysDeleted
    OBVIOUS
  <2>1. Types /\ Phases /\ Filed
    BY DEF UiInv
  <2>2. TypeOK
    BY <2>1 DEF TypeOK, Types, AskTypes, TurnTypes, Filed, FileType, Places, Doings
  <2>3. ASSUME ~Mishap({"overlap"}), NEW t \in Turns, pc[t] \in {"select", "archive"}
        PROVE  cancelFn = t \/ t \in cancelled
    <3>1. Active(t)
      BY <2>3 DEF Active
    <3> QED BY <2>3, <3>1 DEF UiInv, Alone, Running, Turning
  <2>4. ASSUME ~Mishap({"overlap"}) PROVE Exact
    BY <2>4 DEF UiInv, Alone
  <2>5. ArchiveExact
    BY <2>4 DEF ArchiveExact, Exact, Recorded
  <2> QED BY <2>1, <2>2, <2>3, <2>5 DEF Cancellable, StaysDeleted, Filed
<1>2. UiInv /\ [Next]_vars => [~Mishap({"torn"}) /\ present' => IsPrefix(file.turns, file'.turns)]_vars
  BY TurnsKept
<1> QED BY <1>1, <1>2, UiAlways, PTL DEF Spec, ArchiveKept, TurnsStay
=============================================================================
