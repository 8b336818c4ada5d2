----------------------------- MODULE MCServices -----------------------------
(***************************************************************************)
(* Two services on one small instance each: a plan with its checkpoints, and*)
(* the ACP server.  They share no state: in a behaviour one of them runs    *)
(* and the other stays where it began.                                      *)
(***************************************************************************)
EXTENDS PlanStore, AcpServer

VARIABLE service

Services == {"plan", "acp"}

ServicesInit == service \in Services /\ Init /\ AcpServerInit

Idle(s, v) == service # s /\ UNCHANGED v

ServicesNext ==
  /\ UNCHANGED service
  /\ (service = "plan" /\ Next) \/ Idle("plan", vars)
  /\ (service = "acp" /\ AcpServerNext) \/ Idle("acp", acpServerVars)

serviceVars == <<service, vars, acpServerVars>>

(* The fairness of PlanStore and AcpServer, where they run. *)
ServicesSpec ==
  /\ ServicesInit /\ [][ServicesNext]_serviceVars
  /\ \A p \in Procs : SF_vars(service = "plan" /\ Call(p))
  /\ \A p \in Prompts : /\ WF_acpServerVars(service = "acp" /\ Handler(p))
                        /\ WF_acpServerVars(service = "acp" /\ Resume(p))
=============================================================================
