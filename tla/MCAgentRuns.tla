---------------------------- MODULE MCAgentRuns ----------------------------
(***************************************************************************)
(* What a run of an agent loop waits for, on one small instance each: the   *)
(* human, in the workers of its batches, and the dream that is in progress  *)
(* when it ends.  They share no state: in a behaviour one of the two        *)
(* machines runs and the other stays where it began.                        *)
(***************************************************************************)
EXTENDS HumanGate, DreamScheduler

VARIABLE awaited

AgentRunsInit == awaited \in {"human", "dream"} /\ Init /\ DreamInit

Apart(s, v) == awaited # s /\ UNCHANGED v

AgentRunsNext ==
  /\ UNCHANGED awaited
  /\ (awaited = "human" /\ Next) \/ Apart("human", vars)
  /\ (awaited = "dream" /\ DreamNext) \/ Apart("dream", dreamVars)

agentRunsVars == <<awaited, vars, dreamVars>>

(* The fairness of HumanGate and DreamScheduler, where they run. *)
AgentRunsSpec ==
  /\ AgentRunsInit /\ [][AgentRunsNext]_agentRunsVars
  /\ \A w \in Workers : WF_vars(awaited = "human" /\ Worker(w))
  /\ \A k \in Callers : WF_vars(awaited = "human" /\ (Caller(k) \/ \E w \in Workers : Find(k, w)))
  /\ WF_vars(awaited = "human" /\ NewBatch)
  /\ \A l \in DreamLoops : /\ WF_dreamVars(awaited = "dream" /\ ~dead /\ RunSteps(l))
                           /\ WF_dreamVars(awaited = "dream" /\ ~dead /\ PollSteps(l))
                           /\ SF_dreamVars(awaited = "dream" /\ ~dead /\ PollStops(l))
-----------------------------------------------------------------------------
(* AllEnd of HumanGate, where HumanGate runs: every batch of workers ends   *)
(* (dag.go:251, g.Wait) as long as nobody cancels.                          *)
EveryBatchEnds == awaited = "human" => AllEnd
=============================================================================
