----------------------------- MODULE SessionLog -----------------------------
(***************************************************************************)
(* What the session memory promises its users: a conversation only grows,   *)
(* a save makes all of it durable, and a crash takes it back to the last    *)
(* save.  Compression and the JSONL file are no part of it.                 *)
(***************************************************************************)
EXTENDS Naturals, Sequences

VARIABLES log,     \* the conversation, oldest message first
          saved,   \* the conversation a restart would find
          raced    \* callers raced in a way the memory does not handle

vars == <<log, saved, raced>>

Init == log = <<>> /\ saved = <<>> /\ raced = FALSE

Grow == /\ Len(log') = Len(log) + 1 /\ SubSeq(log', 1, Len(log)) = log
        /\ saved' = saved

Save == saved' = log /\ log' = log

Restart == log' = saved /\ saved' = saved

(* After a race nothing is promised. *)
Next == raced' \/ Grow \/ Save \/ Restart

Spec == Init /\ [][Next]_vars
============================================================================
