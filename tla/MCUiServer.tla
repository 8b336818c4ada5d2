----------------------------- MODULE MCUiServer -----------------------------
(* Instances of UiServer for TLC: two turns of main agents that may meet    *)
(* each other, or one turn whose workers may.                               *)
EXTENDS UiServer, TLC

CONSTANTS t, u

TurnsMeet == [turns |-> {t, u}, calls |-> 1, batches |-> 0, drops |-> 0, deletes |-> TRUE, fails |-> TRUE]
TurnsLeave == [turns |-> {t, u}, calls |-> 0, batches |-> 0, drops |-> 1, deletes |-> TRUE, fails |-> TRUE]
AgentsMeet == [turns |-> {t}, calls |-> 2, batches |-> 2, drops |-> 1, deletes |-> TRUE, fails |-> TRUE]
AgentsAsk == [turns |-> {t}, calls |-> 3, batches |-> 2, drops |-> 0, deletes |-> FALSE, fails |-> FALSE]
MCBudgets == {TurnsMeet, TurnsLeave, AgentsMeet, AgentsAsk}
MCTurns == {t, u}
============================================================================
