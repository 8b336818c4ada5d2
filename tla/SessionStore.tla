---------------------------- MODULE SessionStore ----------------------------
(***************************************************************************)
(* One session's memory (memory/session_memory.go), its JSONL file          *)
(* (persist/session.go, jsonl_persist.go, file_persist.go), and the agent   *)
(* loops that share it (runtime/agent_loop.go, fsm/machine.go, action.go).  *)
(*                                                                          *)
(* A loop opens the session through the manager, its Run appends the user   *)
(* message, it or the application may compress the history meanwhile, and   *)
(* the end of the run appends the results and persists.  Messages are       *)
(* numbered in the order in which they are appended; a summary is the       *)
(* sequence of messages it stands for (the LLM is trusted to cover what it  *)
(* is given).  Persist holds the read lock and the file mutex while it      *)
(* writes a temporary file and renames it; a crash may come in between.     *)
(***************************************************************************)
EXTENDS Naturals, Sequences, FiniteSets, SequencesExt

CONSTANTS AgentLoops,      \* agent loops on the session
          Apps,            \* goroutines that call AgentLoop.CompressContext
          KeepLast,        \* KeepLastN of ContextCompressConfig
          MinMessagesToCompress,
          MaxSaid,         \* bound: messages of all loops
          MaxDeaths,       \* bound: process crashes
          MaxFaults,       \* bound: failing LLM calls and file writes
          NoMem            \* no SessionMemory (nil)

ASSUME StoreAssumption ==
  /\ AgentLoops \cap Apps = {} /\ NoMem \notin Nat
  /\ KeepLast \in Nat /\ MinMessagesToCompress \in Nat \ {0}
  /\ MaxSaid \in Nat /\ MaxDeaths \in Nat /\ MaxFaults \in Nat

VARIABLES
  mems,      \* the SessionMemory objects created since the last start
  table,     \* SessionMemoryMap: the object cached for the session
  file,      \* the events in the session's JSONL file; empty: no file
  at,        \* at[p]: where loop or application p stands
  mem,       \* mem[p]: the object p works on
  snap,      \* snap[p]: what p holds across a read of the file or an LLM call
  messages,  \* messages appended so far
  litter,    \* temporary files left by crashes
  deaths, faults,
  raced,     \* history: two compressions overlapped, or two copies exist
  kept       \* history: messages of runs whose Persist succeeded

parties == AgentLoops \cup Apps
mapVars == <<mems, table>>
procVars == <<at, mem, snap>>
faultVars == <<deaths, faults>>
sessionVars == <<mapVars, file, procVars, messages, litter, faultVars, raced, kept>>

Blank == [summary |-> <<>>, history |-> <<>>]
NoSnap == <<>>

(* What a memory stands for: the summary, before the history. *)
Covered(m) == m.summary \o m.history

(* SaveSessionJSONL. *)
Events(m) ==
  <<[type |-> "init", body |-> <<>>]>>
    \o (IF m.summary = <<>> THEN <<>> ELSE <<[type |-> "summary", body |-> m.summary]>>)
    \o [i \in DOMAIN m.history |-> [type |-> "msg", body |-> m.history[i]]]

(* The events of one type, in the order in which the file has them. *)
OfType(f, t) ==
  LET I == {i \in DOMAIN f : f[i].type = t}
  IN  [k \in 1 .. Cardinality(I) |->
         f[CHOOSE i \in I : Cardinality({j \in I : j <= i}) = k]]

(* LoadSessionJSONL: the last summary, and the messages. *)
Parsed(f) ==
  LET s == OfType(f, "summary")
      h == OfType(f, "msg")
  IN  [summary |-> IF s = <<>> THEN <<>> ELSE Last(s).body,
       history |-> [i \in DOMAIN h |-> h[i].body]]

Stations == {"closed", "miss", "create", "open", "running", "full", "summarising",
       "compressed", "answered", "writing"}

SessionInit ==
  /\ mems = <<>> /\ table = NoMem
  /\ file = <<>>
  /\ at = [p \in parties |-> "closed"] /\ mem = [p \in parties |-> NoMem]
  /\ snap = [p \in parties |-> NoSnap]
  /\ messages = 0 /\ litter = 0 /\ deaths = 0 /\ faults = 0
  /\ raced = FALSE /\ kept = {}

GoOn(p, l) == at' = [at EXCEPT ![p] = l]

(* An error, which the bound allows. *)
Fault == faults < MaxFaults /\ faults' = faults + 1

Writing == {p \in parties : at[p] = "writing"}

(* No Persist holds the read lock of m, so its write lock is free. *)
Unlocked(m) == \A p \in Writing : mem[p] # m
-----------------------------------------------------------------------------
(* CreateSessionMemory and GetSessionMemory. *)

Hold(p, m) == mem' = [mem EXCEPT ![p] = m]

OpenHit(l) ==
  /\ at[l] = "closed" /\ table # NoMem
  /\ Hold(l, table) /\ GoOn(l, "open")
  /\ UNCHANGED <<mapVars, file, snap, messages, litter, faultVars, raced, kept>>

(* A file without a summary and messages counts as missing. *)
OpenMiss(l) ==
  /\ at[l] = "closed" /\ table = NoMem
  /\ GoOn(l, IF Parsed(file) = Blank THEN "create" ELSE "miss")
  /\ snap' = [snap EXCEPT ![l] = Parsed(file)]
  /\ UNCHANGED <<mapVars, file, mem, messages, litter, faultVars, raced, kept>>

(* A file that cannot be read or parsed also counts as missing. *)
OpenUnreadable(l) ==
  /\ at[l] = "closed" /\ table = NoMem /\ file # <<>> /\ Fault
  /\ GoOn(l, "create") /\ raced' = TRUE
  /\ UNCHANGED <<mapVars, file, mem, snap, messages, litter, deaths, kept>>

NewMem(l, m) == /\ mems' = Append(mems, m)
                /\ table' = Len(mems) + 1
                /\ Hold(l, Len(mems) + 1)

(* Store of a loaded copy, which replaces whatever is cached by now. *)
StoreLoaded(l) ==
  /\ at[l] = "miss"
  /\ NewMem(l, snap[l])
  /\ raced' = (raced \/ table # NoMem)
  /\ snap' = [snap EXCEPT ![l] = NoSnap] /\ GoOn(l, "open")
  /\ UNCHANGED <<file, messages, litter, faultVars, kept>>

LoadOrStore(l) ==
  /\ at[l] = "create"
  /\ IF table = NoMem THEN NewMem(l, Blank) ELSE Hold(l, table) /\ UNCHANGED mapVars
  /\ snap' = [snap EXCEPT ![l] = NoSnap] /\ GoOn(l, "open")
  /\ UNCHANGED <<file, messages, litter, faultVars, raced, kept>>
-----------------------------------------------------------------------------
(* A run of loop l. *)

AppendMessage(m) ==
  /\ messages < MaxSaid /\ Unlocked(m)
  /\ messages' = messages + 1
  /\ mems' = [mems EXCEPT ![m].history = Append(@, messages + 1)]

(* Machine.Run appends the user message. *)
StartRun(l) ==
  /\ at[l] = "open" /\ AppendMessage(mem[l])
  /\ GoOn(l, "running")
  /\ UNCHANGED <<table, file, mem, snap, litter, faultVars, raced, kept>>

(* The LLM reports that the context is full, and the loop will compress. *)
ContextFull(l) ==
  /\ at[l] = "running" /\ Fault
  /\ GoOn(l, "full")
  /\ UNCHANGED <<mapVars, file, mem, snap, messages, litter, deaths, raced, kept>>

(* execute appends what the run returned; a failed run returns nothing. *)
EndRun(l) ==
  /\ at[l] = "running"
  /\ AppendMessage(mem[l]) \/ UNCHANGED <<mems, messages>>
  /\ GoOn(l, "answered")
  /\ UNCHANGED <<table, file, mem, snap, litter, faultVars, raced, kept>>
-----------------------------------------------------------------------------
(* Compress, by a loop whose context is full or by an application. *)

Summarising(m) == {p \in parties : at[p] = "summarising" /\ mem[p] = m}

BackTo(p) == IF p \in AgentLoops THEN "running" ELSE "closed"

(* An application calls it on the memory of a running loop. *)
Compressor(p, m) == IF p \in AgentLoops THEN at[p] = "full" /\ m = mem[p]
                    ELSE at[p] = "closed" /\ \E l \in AgentLoops : m = mem[l] /\ at[l] # "closed"

(* Step 1, under the read lock: the snapshot, if there is enough of it. *)
Snapshot(p, m) ==
  /\ m # NoMem /\ Compressor(p, m)
  /\ LET h == mems[m].history
         split == Len(h) - KeepLast
     IN  IF Len(h) > KeepLast /\ split >= MinMessagesToCompress
         THEN /\ snap' = [snap EXCEPT ![p] =
                   [total |-> Len(h), old |-> SubSeq(h, 1, split),
                    recent |-> SubSeq(h, split + 1, Len(h)), summary |-> mems[m].summary]]
              /\ GoOn(p, "summarising") /\ Hold(p, m)
              /\ raced' = (raced \/ Summarising(m) # {})
         ELSE GoOn(p, BackTo(p)) /\ UNCHANGED <<snap, mem, raced>>
  /\ UNCHANGED <<mapVars, file, messages, litter, faultVars, kept>>

(* Step 2 fails: nothing changes. *)
SummariseFails(p) ==
  /\ at[p] = "summarising" /\ Fault
  /\ GoOn(p, BackTo(p)) /\ snap' = [snap EXCEPT ![p] = NoSnap]
  /\ UNCHANGED <<mapVars, file, mem, messages, litter, deaths, raced, kept>>

Since(h, total) == IF Len(h) > total THEN SubSeq(h, total + 1, Len(h)) ELSE <<>>

(* Mutants: appended messages are dropped; the old summary is not passed on. *)
Install_DropLate(p) ==
  /\ at[p] = "summarising" /\ Unlocked(mem[p])
  /\ mems' = [mems EXCEPT ![mem[p]] =
       [summary |-> snap[p].summary \o snap[p].old, history |-> snap[p].recent]]
  /\ snap' = [snap EXCEPT ![p] = NoSnap] /\ GoOn(p, "compressed")
  /\ UNCHANGED <<table, file, mem, messages, litter, faultVars, raced, kept>>

Install_KeepOld(p) ==
  /\ at[p] = "summarising" /\ Unlocked(mem[p])
  /\ mems' = [mems EXCEPT ![mem[p]] =
       [summary |-> snap[p].summary \o snap[p].old \o snap[p].recent,
        history |-> Since(mems[mem[p]].history, snap[p].total)]]
  /\ snap' = [snap EXCEPT ![p] = NoSnap] /\ GoOn(p, "compressed")
  /\ UNCHANGED <<table, file, mem, messages, litter, faultVars, raced, kept>>

(* Step 3, under the write lock: the new summary stands for the old one and *)
(* the old messages; what was appended meanwhile follows the recent ones.   *)
Install(p) ==
  /\ at[p] = "summarising" /\ Unlocked(mem[p])
  /\ mems' = [mems EXCEPT ![mem[p]] =
       [summary |-> snap[p].summary \o snap[p].old,
        history |-> snap[p].recent \o Since(mems[mem[p]].history, snap[p].total)]]
  /\ snap' = [snap EXCEPT ![p] = NoSnap] /\ GoOn(p, "compressed")
  /\ UNCHANGED <<table, file, mem, messages, litter, faultVars, raced, kept>>
-----------------------------------------------------------------------------
(* Persist, and FilePersist.Store below it, after a run or a compression. *)

(* The read lock, the file mutex, and a temporary file with the contents;   *)
(* the write lock stays taken until the rename.                             *)
BeginPersist(p) ==
  /\ at[p] \in {"answered", "compressed"} /\ Writing = {}
  /\ snap' = [snap EXCEPT ![p] = at[p]]
  /\ GoOn(p, "writing")
  /\ UNCHANGED <<mapVars, file, mem, messages, litter, faultVars, raced, kept>>

EndOfPersist(p) ==
  /\ GoOn(p, IF snap[p] = "answered" THEN "closed" ELSE BackTo(p))
  /\ mem' = IF snap[p] = "answered" THEN [mem EXCEPT ![p] = NoMem] ELSE mem
  /\ snap' = [snap EXCEPT ![p] = NoSnap]

Rename(p) ==
  /\ at[p] = "writing"
  /\ file' = Events(mems[mem[p]])
  /\ kept' = IF snap[p] = "answered"
              THEN kept \cup ToSet(Covered(mems[mem[p]])) ELSE kept
  /\ EndOfPersist(p)
  /\ UNCHANGED <<mapVars, messages, litter, faultVars, raced>>

(* A write, sync, close or rename fails; the temporary file is removed, and *)
(* execute ignores the error.                                               *)
PersistBreaks(p) ==
  /\ at[p] = "writing" /\ Fault
  /\ EndOfPersist(p)
  /\ UNCHANGED <<mapVars, file, messages, litter, deaths, raced, kept>>

(* The process dies.  A temporary file stays, the session's file does not   *)
(* change.                                                                  *)
Die ==
  /\ deaths < MaxDeaths /\ deaths' = deaths + 1
  /\ mems' = <<>> /\ table' = NoMem
  /\ at' = [p \in parties |-> "closed"] /\ mem' = [p \in parties |-> NoMem]
  /\ snap' = [p \in parties |-> NoSnap]
  /\ litter' = litter + Cardinality(Writing)
  /\ UNCHANGED <<file, messages, faults, raced, kept>>

Compress(p) == \/ \E m \in DOMAIN mems : Snapshot(p, m)
               \/ SummariseFails(p) \/ Install(p)

Store(p) == BeginPersist(p) \/ Rename(p) \/ PersistBreaks(p)

Run(l) == \/ OpenHit(l) \/ OpenMiss(l) \/ OpenUnreadable(l)
          \/ StoreLoaded(l) \/ LoadOrStore(l)
          \/ StartRun(l) \/ ContextFull(l) \/ EndRun(l)

SessionNext ==
  \/ \E p \in parties : Compress(p) \/ Store(p)
  \/ \E l \in AgentLoops : Run(l)
  \/ Die

SessionSpec == SessionInit /\ [][SessionNext]_sessionVars
-----------------------------------------------------------------------------
(* Properties. *)

Increasing(s) == \A i, j \in 1 .. Len(s) : i < j => s[i] < s[j]

SessionTypeOK ==
  /\ table \in (DOMAIN mems) \cup {NoMem}
  /\ at \in [parties -> Stations]
  /\ mem \in [parties -> (DOMAIN mems) \cup {NoMem}]
  /\ \A p \in parties : at[p] \in Stations \ {"closed", "miss", "create"} => mem[p] # NoMem
  /\ Cardinality(Writing) <= 1 /\ litter <= deaths

(* CreateSessionMemory converges: loops that work on the session work on    *)
(* the cached object, unless two of them loaded a copy each.                *)
OneInstance == ~raced => \A l \in AgentLoops : mem[l] \in {table, NoMem}

(* A compression leaves the last KeepLast messages of the conversation as  *)
(* they are, and the order of what it summarised and kept, however many     *)
(* messages were appended while the LLM worked.                             *)
RecentVerbatim ==
  ~raced => \A m \in DOMAIN mems :
              /\ mems[m].summary # <<>> => Len(mems[m].history) >= KeepLast
              /\ Increasing(Covered(mems[m]))

(* What a run has persisted survives everything that follows: compression,  *)
(* failing writes, other loops on the session, crashes.                    *)
PersistedSurvives == ~raced => kept \subseteq ToSet(Covered(Parsed(file)))

(* The memory and its file implement the promise of SessionLog: nothing     *)
(* appended is lost from memory, a save saves everything, and a restart     *)
(* comes back to the last save, never to half of one.                       *)
Live == IF table = NoMem THEN Covered(Parsed(file)) ELSE Covered(mems[table])
Log == INSTANCE SessionLog WITH log <- Live, saved <- Covered(Parsed(file))
LogSpec == Log!Spec

(* What the session keeps (session_memory.go): one object for all loops,    *)
(* recent messages verbatim behind a summary of the older ones, and every   *)
(* acknowledged message in the file, over compressions, failures, crashes.  *)
SessionKept == SessionTypeOK /\ OneInstance /\ RecentVerbatim /\ PersistedSurvives
============================================================================
