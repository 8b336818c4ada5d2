------------------------------ MODULE ToolBelt ------------------------------
(***************************************************************************)
(* The tools of the process (core/tool.go): one registry for all sessions. *)
(* Constructing an agent loop (runtime/agent_loop.go) registers its memory  *)
(* tools over those of the loop before, marks them as internal and connects *)
(* the MCP servers, once per process (tools/mcp).  Starting a run binds     *)
(* memory_extract and context_compress to its session through a global      *)
(* variable.  A run offers the model the tools of its state and every tool *)
(* that is not internal, and executes whatever the model calls.            *)
(***************************************************************************)
EXTENDS Naturals, Sequences, SequencesExt, FiniteSets

CONSTANTS Loops,         \* agent loops
          Servers,       \* configured MCP servers
          ServerTools,   \* ServerTools[s]: names of its tools in the registry
          Users,         \* [who, name]: tools the embedding program registers
          StateTools,    \* StateTools[state]: names of a state's own tools
          MaxToolRuns    \* bound: runs of all loops

(* The names of MCP tools have a prefix that no framework tool has.        *)
ASSUME BeltAssumption ==
    \A s \in Servers : ServerTools[s] \cap {"memory_store", "memory_extract", "context_compress", "skill_use"} = {}

VARIABLES tools,      \* name -> whose tool it is
          internalNames,
          registered,   \* registeredMemoryExtract, registeredContextCompress
          boundTo,      \* boundTo[name][l]: the session the instance of l serves
          loop,         \* loop[l]: [pc, state, cache]
          mcp,          \* [once, by, left, reg, open, mgr]
          procs,        \* server processes alive
          overtaken,    \* history: loops whose memory tools, or bindings, another has taken over
          overlap,      \* history: two constructions overlapped
          toolRuns

beltVars == <<tools, internalNames, registered, boundTo, loop, mcp, procs, overtaken, overlap, toolRuns>>

Bindable == {"memory_extract", "context_compress"}
Nobody == [kind |-> "nobody", id |-> "none"]
LoopTool(l) == [kind |-> "loop", id |-> l]
McpTool(s) == [kind |-> "mcp", id |-> s]
UserTool(u) == [kind |-> "user", id |-> u]

(* NewAgentLoop: what it does to the registry, in order.                   *)
Do(op, names) == [op |-> op, names |-> names]
LoopScript ==
    <<Do("refer", {"memory_extract"}), Do("register", {"memory_store"}), Do("register", {"memory_extract"}),
      Do("mark", {"memory_store", "memory_extract"}),
      Do("refer", {"context_compress"}), Do("register", {"context_compress"}), Do("mark", {"context_compress"}),
      Do("register", {"skill_use"}), Do("mark", {"skill_use"}), Do("mcp", {})>>
LoopNames == {"memory_store", "memory_extract", "context_compress", "skill_use"}
Instruction(l) == LoopScript[loop[l].pc]
Constructing(l) == loop[l].pc \in DOMAIN LoopScript
Ready(l) == loop[l].pc > Len(LoopScript)

Fresh == [pc |-> 0, state |-> "none", cache |-> {}]

BeltInit ==
    /\ tools = [n \in {"shell_exec"} |-> [kind |-> "builtin", id |-> "all"]]
    /\ internalNames = {"shell_exec"}
    /\ registered = [n \in Bindable |-> Nobody]
    /\ boundTo = [n \in Bindable |-> [l \in Loops |-> Nobody]]
    /\ loop = [l \in Loops |-> Fresh]
    /\ mcp = [once |-> "new", by |-> Nobody, left |-> Servers, reg |-> {}, open |-> {}, mgr |-> FALSE]
    /\ procs = {}
    /\ overtaken = [memory |-> {}, bindings |-> {}] /\ overlap = FALSE /\ toolRuns = 0

Given(ns, who) == [n \in DOMAIN tools \cup ns |-> IF n \in ns THEN who ELSE tools[n]]

(* RegisterCustomTool: refused when the name is taken.                     *)
RegisterCustom(u) ==
    /\ u.name \notin DOMAIN tools
    /\ tools' = Given({u.name}, UserTool(u.who))
    /\ UNCHANGED <<internalNames, registered, boundTo, loop, mcp, procs, overtaken, overlap, toolRuns>>

StartConstruction(l) ==
    /\ loop[l].pc = 0
    /\ loop' = [loop EXCEPT ![l].pc = 1]
    /\ overlap' = (overlap \/ \E k \in Loops \ {l} : Constructing(k))
    /\ overtaken' = [o \in {"memory", "bindings"} |-> {k \in Loops \ {l} : Ready(k)} \cup overtaken[o]]
    /\ UNCHANGED <<tools, internalNames, registered, boundTo, mcp, procs, toolRuns>>

(* One instruction: the global variable, Register or MarkAsInternal.       *)
Construct(l) ==
    /\ Constructing(l) /\ Instruction(l).op # "mcp"
    /\ LET i == Instruction(l)
       IN /\ registered' = IF i.op = "refer" THEN [n \in Bindable |-> IF n \in i.names THEN LoopTool(l) ELSE registered[n]] ELSE registered
          /\ tools' = IF i.op = "register" THEN Given(i.names, LoopTool(l)) ELSE tools
          /\ internalNames' = IF i.op = "mark" THEN internalNames \cup i.names ELSE internalNames
    /\ loop' = [loop EXCEPT ![l].pc = @ + 1]
    /\ UNCHANGED <<boundTo, mcp, procs, overtaken, overlap, toolRuns>>

-----------------------------------------------------------------------------
(* mcp.Init: the first loop connects, the others wait for it.              *)
AtMcp(l) == Constructing(l) /\ Instruction(l).op = "mcp"
Initialised == mcp.once = "done"
McpBegin(l) ==
    /\ AtMcp(l) /\ ~Initialised /\ mcp.once # "busy"
    /\ mcp' = [mcp EXCEPT !.once = "busy", !.by = LoopTool(l), !.left = Servers]
    /\ UNCHANGED <<tools, internalNames, registered, boundTo, loop, procs, overtaken, overlap, toolRuns>>
McpSkip(l) ==
    /\ AtMcp(l) /\ mcp.once = "done"
    /\ loop' = [loop EXCEPT ![l].pc = @ + 1]
    /\ UNCHANGED <<tools, internalNames, registered, boundTo, mcp, procs, overtaken, overlap, toolRuns>>

Connecting(l) == AtMcp(l) /\ mcp.once = "busy" /\ mcp.by = LoopTool(l)
(* connectServer, in the order of a map: the process starts, lists its     *)
(* tools, and they are registered one by one.                              *)
McpConnect(l, s) ==
    /\ Connecting(l) /\ s \in mcp.left /\ procs \ mcp.open = {}
    /\ procs' = procs \cup {s}
    /\ mcp' = [mcp EXCEPT !.left = @ \ {s}, !.reg = ServerTools[s]]
    /\ UNCHANGED <<tools, internalNames, registered, boundTo, loop, overtaken, overlap, toolRuns>>
McpRegister(l, s) ==
    /\ Connecting(l) /\ s \in procs \ mcp.open
    /\ \E n \in mcp.reg :
         /\ tools' = Given({n}, McpTool(s))
         /\ mcp' = IF mcp.reg = {n} THEN [mcp EXCEPT !.reg = {}, !.open = @ \cup {s}] ELSE [mcp EXCEPT !.reg = @ \ {n}]
    /\ UNCHANGED <<internalNames, registered, boundTo, loop, procs, overtaken, overlap, toolRuns>>
(* The process does not start, or its tools cannot be listed: ConnectAll   *)
(* gives up on the servers that are left.                                  *)
Ended_Left(s) == procs
Ended(s) == procs \ {s}
McpEnd(l) ==
    /\ Connecting(l)
    /\ \/ mcp.left = {} /\ procs \subseteq mcp.open /\ procs' = procs
       \/ mcp.left # {} /\ procs \subseteq mcp.open /\ procs' = procs
       \/ \E s \in procs \ mcp.open : mcp.reg = ServerTools[s] /\ procs' = Ended(s)
    /\ mcp' = [mcp EXCEPT !.once = "done", !.reg = {}, !.mgr = TRUE]
    /\ loop' = [loop EXCEPT ![l].pc = @ + 1]
    /\ UNCHANGED <<tools, internalNames, registered, boundTo, overtaken, overlap, toolRuns>>
(* ShutdownGlobal does nothing while Init has not finished.                *)
Shutdown ==
    /\ mcp.mgr /\ mcp.open # {}
    /\ procs' = procs \ mcp.open
    /\ mcp' = [mcp EXCEPT !.open = {}]
    /\ UNCHANGED <<tools, internalNames, registered, boundTo, loop, overtaken, overlap, toolRuns>>
ServerDies(s) ==
    /\ s \in procs /\ s \in mcp.open
    /\ procs' = procs \ {s}
    /\ UNCHANGED <<tools, internalNames, registered, boundTo, loop, mcp, overtaken, overlap, toolRuns>>

-----------------------------------------------------------------------------
(* CustomToolNames: what MCP servers and the embedding program registered. *)
CustomToolNames == DOMAIN tools \ internalNames
ToolsForState(state) == StateTools[state] \cup CustomToolNames
VisibleTools(state) == ToolsForState(state) \cap DOMAIN tools

(* BindMemoryExtractInput, BindContextCompress: the instance the global    *)
(* variable names, which need not be the one that is registered.           *)
Bound(l) == [n \in Bindable |-> [k \in Loops |-> IF registered[n] = LoopTool(k) THEN LoopTool(l) ELSE boundTo[n][k]]]
StartToolRun(l) ==
    /\ Ready(l) /\ loop[l].state = "none" /\ toolRuns < MaxToolRuns
    /\ boundTo' = Bound(l)
    /\ \E st \in DOMAIN StateTools : loop' = [loop EXCEPT ![l] = [pc |-> @.pc, state |-> st, cache |-> VisibleTools(st)]]
    /\ overtaken' = [overtaken EXCEPT !["bindings"] =
         {k \in Loops : Ready(k)} \ {k \in {l} : \A j \in Loops : ~Constructing(j)}]
    /\ toolRuns' = toolRuns + 1
    /\ UNCHANGED <<tools, internalNames, registered, mcp, procs, overlap>>

(* callTool and Call: whom a call of n reaches, whoever makes it.  Any name is *)
(* executed, offered or not.                                               *)
Serves(n) ==
    IF n \notin DOMAIN tools THEN Nobody
    ELSE CASE tools[n].kind = "loop" /\ n \in Bindable -> boundTo[n][tools[n].id]
           [] tools[n].kind = "mcp" /\ tools[n].id \notin procs -> Nobody
           [] OTHER -> tools[n]

EndToolRun(l) ==
    /\ loop[l].state # "none"
    /\ loop' = [loop EXCEPT ![l] = [pc |-> @.pc, state |-> "none", cache |-> {}]]
    /\ UNCHANGED <<tools, internalNames, registered, boundTo, mcp, procs, overtaken, overlap, toolRuns>>

BeltNext ==
    \/ \E u \in Users : RegisterCustom(u)
    \/ \E l \in Loops :
         \/ StartConstruction(l) \/ Construct(l) \/ McpBegin(l) \/ McpSkip(l) \/ McpEnd(l)
         \/ \E s \in Servers : McpConnect(l, s) \/ McpRegister(l, s)
         \/ StartToolRun(l) \/ EndToolRun(l)
    \/ Shutdown \/ \E s \in Servers : ServerDies(s)

-----------------------------------------------------------------------------
(* A run is never offered a framework tool its state does not list, though *)
(* registering and marking are two steps and other loops are constructed   *)
(* meanwhile: every loop has marked all the names itself before it runs.   *)
OfferedForState ==
    \A l \in Loops : loop[l].state # "none" =>
        loop[l].cache \cap (LoopNames \cup {"shell_exec"}) \subseteq StateTools[loop[l].state]

(* A session's memory tools work on its own memory, and context_compress   *)
(* on its own history, unless another loop was being constructed when the  *)
(* run began, or was constructed, or has started a run, since: then they   *)
(* work on the other's, or on nothing.  (Two constructions that overlap may*)
(* leave the variable and the registry with instances of different loops.) *)
OwnUnlessOvertaken ==
    ~overlap => \A l \in Loops : loop[l].state # "none" =>
        /\ l \notin overtaken["bindings"] => \A n \in Bindable : Serves(n) = LoopTool(l)
        /\ l \notin overtaken["memory"] => \A n \in LoopNames \ Bindable : Serves(n) = LoopTool(l)

(* A tool the embedding program registered keeps its function from the     *)
(* first finished construction on: neither another construction, nor MCP,  *)
(* nor another custom tool replaces it.  (Before, Register does.)          *)
CustomSurvives ==
    [][(\E l \in Loops : Ready(l)) =>
        \A n \in DOMAIN tools : tools[n].kind = "user" => tools'[n] = tools[n]]_beltVars

(* Every server process is in the manager's hands, or is the one being     *)
(* connected, so that shutting down ends it; and the tools of a server are *)
(* registered only when it was reached.                                    *)
ProcessesOwned ==
    /\ mcp.once # "busy" => procs \subseteq mcp.open
    /\ \A n \in DOMAIN tools : tools[n].kind = "mcp" => mcp.mgr \/ tools[n].id \in procs \cup mcp.open

(* The registry serves each run its own tools (tool.go, memory_tools.go,    *)
(* manager.go), ends the processes it started, and keeps custom tools once  *)
(* the framework has its own.                                               *)
ToolsRight == [](OfferedForState /\ OwnUnlessOvertaken /\ ProcessesOwned) /\ CustomSurvives
=============================================================================
