---------------------------- MODULE MCHumanGate ----------------------------
(* Instances of HumanGate for TLC: interchangeable workers and callers. *)
EXTENDS HumanGate, TLC

============================================================================
