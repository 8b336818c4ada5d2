--------------------------- MODULE DreamScheduler ---------------------------
(***************************************************************************)
(* The scheduler of the dreams (memory/longterm/dream/dream.go) and the     *)
(* runs of the agent loops that start and stop it (runtime/agent_loop.go).  *)
(*                                                                          *)
(* The README has memory consolidated "while the agent is otherwise idle".  *)
(* The code starts the scheduler when a run starts and stops it when the    *)
(* run ends, so a dream takes place within a run or not at all.  Every loop *)
(* has a scheduler of its own.  What a dream does to the memory is in       *)
(* LongTermMemory; here it is a sequence of calls that take time.           *)
(***************************************************************************)
EXTENDS Integers

CONSTANTS DreamLoops,                              \* agent loops with AutoDream
          CheckInterval, Cooldown, IdleThreshold,  \* of the scheduler
          MaxTime,                                 \* bound: the clock
          MaxLoopRuns                              \* bound: runs of one loop

ASSUME DreamAssumption ==
  /\ CheckInterval \in Nat \ {0} /\ Cooldown \in Nat /\ IdleThreshold \in Nat
  /\ MaxTime \in Nat /\ MaxLoopRuns \in Nat

VARIABLES
  now,           \* time.Now()
  runAt,         \* runAt[l]: where the goroutine of Run stands
  poller,        \* poller[l]: where the goroutine of Start stands
  due,           \* due[l]: when the ticker's next tick is there
  stopClosed,    \* stopCh is closed
  lastDreamed, lastActivity,
  loopRuns,      \* Run calls of l
  dead           \* the process has panicked

timeVars  == <<due, lastDreamed, lastActivity>>
dreamVars == <<now, runAt, poller, timeVars, stopClosed, loopRuns, dead>>

(* time.Time{}: longer ago than any interval. *)
Never == -(Cooldown + IdleThreshold)

Dreaming == {"light", "rem", "deep", "report"}

RunGoes(l, s) == runAt' = [runAt EXCEPT ![l] = s]
PollGoes(l, s) == poller' = [poller EXCEPT ![l] = s]

(* initLTM makes the scheduler and does not start it. *)
DreamInit ==
  /\ now = 0 /\ dead = FALSE
  /\ runAt = [l \in DreamLoops |-> "ready"]
  /\ poller = [l \in DreamLoops |-> "none"]
  /\ due = [l \in DreamLoops |-> 0]
  /\ stopClosed = [l \in DreamLoops |-> FALSE]
  /\ lastDreamed = [l \in DreamLoops |-> Never]
  /\ lastActivity = [l \in DreamLoops |-> Never]
  /\ loopRuns = [l \in DreamLoops |-> 0]
-----------------------------------------------------------------------------
(* AgentLoop.Run.  An application runs a loop again when the run is over.   *)

BeginRun(l) ==
  /\ runAt[l] \in {"ready", "done"} /\ loopRuns[l] < MaxLoopRuns
  /\ loopRuns' = [loopRuns EXCEPT ![l] = @ + 1]
  /\ RunGoes(l, "started") /\ PollGoes(l, "new")
  /\ UNCHANGED <<now, timeVars, stopClosed, dead>>

(* execute: an invalid input is an error before the activity is noted. *)
RejectInput(l) ==
  /\ runAt[l] = "started"
  /\ RunGoes(l, "closing")
  /\ UNCHANGED <<now, poller, timeVars, stopClosed, loopRuns, dead>>

NotifyActivity(l) ==
  /\ runAt[l] = "started"
  /\ lastActivity' = [lastActivity EXCEPT ![l] = now]
  /\ RunGoes(l, "executing")
  /\ UNCHANGED <<now, poller, due, lastDreamed, stopClosed, loopRuns, dead>>

(* The run ends by itself or is cancelled; a dream is not cancelled, its    *)
(* context is context.Background().                                         *)
Executed(l) ==
  /\ runAt[l] = "executing"
  /\ RunGoes(l, "closing")
  /\ UNCHANGED <<now, poller, timeVars, stopClosed, loopRuns, dead>>

(* Mutant: Stop does not wait for the poller. *)
CloseStop_NoWait(l) ==
  /\ runAt[l] = "closing"
  /\ IF stopClosed[l] THEN dead' = TRUE /\ UNCHANGED <<stopClosed, runAt>>
     ELSE stopClosed' = [stopClosed EXCEPT ![l] = TRUE] /\ RunGoes(l, "done") /\ UNCHANGED dead
  /\ UNCHANGED <<now, poller, timeVars, loopRuns>>

(* Stop: closing the channel a second time panics. *)
CloseStop(l) ==
  /\ runAt[l] = "closing"
  /\ IF stopClosed[l] THEN dead' = TRUE /\ UNCHANGED <<stopClosed, runAt>>
     ELSE stopClosed' = [stopClosed EXCEPT ![l] = TRUE] /\ RunGoes(l, "waiting") /\ UNCHANGED dead
  /\ UNCHANGED <<now, poller, timeVars, loopRuns>>

(* Stop's wg.Wait, then the deferred Cancel and close(done). *)
RunDone(l) ==
  /\ runAt[l] = "waiting" /\ poller[l] = "none"
  /\ RunGoes(l, "done")
  /\ UNCHANGED <<now, poller, timeVars, stopClosed, loopRuns, dead>>
-----------------------------------------------------------------------------
(* The poller. *)

NewTicker(l) ==
  /\ poller[l] = "new"
  /\ due' = [due EXCEPT ![l] = now + CheckInterval]
  /\ PollGoes(l, "select")
  /\ UNCHANGED <<now, runAt, lastDreamed, lastActivity, stopClosed, loopRuns, dead>>

(* The ticker keeps one tick and drops those that come meanwhile. *)
Ticked(l) ==
  /\ poller[l] = "select" /\ now >= due[l]
  /\ due' = [due EXCEPT ![l] = @ + CheckInterval * ((now - @) \div CheckInterval + 1)]
  /\ PollGoes(l, "check")
  /\ UNCHANGED <<now, runAt, lastDreamed, lastActivity, stopClosed, loopRuns, dead>>

(* With a tick waiting, select takes either. *)
PollStops(l) ==
  /\ poller[l] = "select" /\ stopClosed[l]
  /\ PollGoes(l, "none")
  /\ UNCHANGED <<now, runAt, timeVars, stopClosed, loopRuns, dead>>

(* maybeDream, under its first lock. *)
MaybeDream(l) ==
  /\ poller[l] = "check"
  /\ PollGoes(l, IF now - lastActivity[l] < IdleThreshold \/ now - lastDreamed[l] < Cooldown
                 THEN "select" ELSE "mark")
  /\ UNCHANGED <<now, runAt, timeVars, stopClosed, loopRuns, dead>>

(* Its second lock: the time is noted before the dream, also of one that    *)
(* will fail.                                                               *)
MarkDreamed(l) ==
  /\ poller[l] = "mark"
  /\ lastDreamed' = [lastDreamed EXCEPT ![l] = now]
  /\ PollGoes(l, "light")
  /\ UNCHANGED <<now, runAt, due, lastActivity, stopClosed, loopRuns, dead>>

(* Light sleep finds nothing, or REM asks the LLM, and an error is no       *)
(* matter; deep sleep asks it again, and an error ends the dream without a  *)
(* report; the report is written, or a warning is.                          *)
DreamOn(l) ==
  /\ \/ poller[l] = "light"  /\ \E s \in {"select", "rem"} : PollGoes(l, s)
     \/ poller[l] = "rem"    /\ PollGoes(l, "deep")
     \/ poller[l] = "deep"   /\ \E s \in {"select", "report"} : PollGoes(l, s)
     \/ poller[l] = "report" /\ PollGoes(l, "select")
  /\ UNCHANGED <<now, runAt, timeVars, stopClosed, loopRuns, dead>>

TimePasses ==
  /\ now < MaxTime /\ now' = now + 1
  /\ UNCHANGED <<runAt, poller, timeVars, stopClosed, loopRuns, dead>>

RunSteps(l) == NotifyActivity(l) \/ Executed(l) \/ CloseStop(l) \/ RunDone(l)
PollSteps(l) == NewTicker(l) \/ Ticked(l) \/ MaybeDream(l) \/ MarkDreamed(l) \/ DreamOn(l)

DreamNext ==
  /\ ~dead
  /\ \/ \E l \in DreamLoops : \/ BeginRun(l) \/ RejectInput(l) \/ RunSteps(l)
                              \/ PollSteps(l) \/ PollStops(l)
     \/ TimePasses

DreamSpec == DreamInit /\ [][DreamNext]_dreamVars

(* Goroutines run; the LLM answers, with an error if need be; a select      *)
(* takes any case that is ready again and again.                            *)
DreamFairSpec ==
  /\ DreamSpec
  /\ \A l \in DreamLoops : /\ WF_dreamVars(~dead /\ RunSteps(l))
                           /\ WF_dreamVars(~dead /\ PollSteps(l))
                           /\ SF_dreamVars(~dead /\ PollStops(l))
-----------------------------------------------------------------------------
(* Properties. *)

(* "any in-flight dream cycle (and its writes) completes before Stop        *)
(* returns" (dream.go:129): when Done is closed nothing of the scheduler    *)
(* runs any more.  It also says that a dream never takes place between runs.*)
DoneIsQuiet == \A l \in DreamLoops : runAt[l] \in {"ready", "done"} => poller[l] = "none"

(* Closing the stop channel twice is what a second run of a loop does, and  *)
(* the only thing that brings the process down.                             *)
DiesOfReuseOnly == dead => \E l \in DreamLoops : loopRuns[l] > 1

(* A dream of a loop begins after the cooldown of its last one, however     *)
(* long the check, the dream or the run took.                               *)
DreamsSpaced ==
  [][\A l \in DreamLoops : lastDreamed'[l] # lastDreamed[l]
        => lastDreamed'[l] - lastDreamed[l] >= Cooldown]_dreamVars

(* A run ends although a dream that nobody can cancel is in its way.        *)
RunsEnd ==
  \A l \in DreamLoops : runAt[l] = "started" ~> runAt[l] = "done" \/ dead

(* What Run and Stop promise with a scheduler (agent_loop.go:196,           *)
(* dream.go:130): quiet when the run is done, dreams no more often than the *)
(* cooldown allows, and no panic in a loop that runs once.                  *)
DreamsQuiet == [](DoneIsQuiet /\ DiesOfReuseOnly) /\ DreamsSpaced

(* And a run ends, dream or not (agent_loop.go:196, dream.go:130).          *)
DreamsContained == DreamsQuiet /\ RunsEnd
=============================================================================
