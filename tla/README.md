# Kugelblitz: a TLA+ verification project

Kugelblitz is a Go agent harness: a plan state machine drives an LLM that
builds a plan (a task graph), asks the user to approve it, and executes it with
concurrent worker agents that call tools, may ask the user, may fail, and may be
rolled back when a reviewer finds that they drift from the goal. Around that
core are session memory, long-term memory with a background "dream" job, and two
servers (ACP and a web UI). This directory models that program, checks the
models with TLC, and proves theorems about them with TLAPS. Paths below are
relative to the repository's `src/`.

## 1. Inventory

| Component | Code | State | Operations | What is hard |
|---|---|---|---|---|
| DAG executor | `runtime/engine/dag/dag.go` | task statuses, running batch, `failCount`, cancel function, `hitlAgents` | `ExecuteBatch`, its worker goroutines, `Cancel`, `ResumeAnyWorker...` | workers, cancellation and rollback run concurrently on one plan |
| Drift review and rollback | `runtime/engine/fsm/action.go`, `machine.go` (`handleDrift`) | `TaskFails`, checkpoints | failure callback, `shouldReview`, restore a checkpoint | runs inside a worker while its siblings go on; unlocked reads and writes |
| Plan state machine | `runtime/engine/fsm/*.go`, `runtime/engine/kernel.go` | current state, `ctx.Plan`, cycle count | one `Execute` per state, `transition` | plan and machine state must agree; cancellation; replanning |
| Plan store | `memory/working/working.go`, `persist/plan.go`, `persist/checkpoint.go` | plan map, `Plan.Version`, plan.jsonl, checkpoint files | `PutPlan`, `FindTask`, `ReadyTasks`, `Validate`, `Persist`, `LoadPlan` | pointers into replaced arrays; crash between two files |
| Plan tools | `tools/internals/plan.go` | the plan | create, confirm, insert, delete, status update, rollback | called by an LLM, concurrently with the executor |
| ReAct loop, human in the loop | `runtime/engine/infra/*.go` | step count, abort token, `isWaiting`, `responseCh`, the gate's count | tool calls, `WaitForHuman`, `ResumeWithHumanResponse`, `Interrupt` | several questions and answers at once; pause, cancel and answer race |
| Agent loop | `runtime/agent_loop.go` | cancel function, done channel, dream scheduler | construct, `Run`, `Cancel`, `ResumeWithHumanResponse` | reuse across runs, late cancel, state global to the process |
| Session memory and file | `memory/session_memory.go`, `compressor.go`, `persist/session.go` | messages, summary, the JSONL file | append, compress, persist, create/get | compression races with appends; concurrent creation; crash in a save |
| Long-term memory | `memory/longterm/*.go` | facts, name index, MEMORY.md, vector index, graph and its two files | store, remove, bulk store, rebuild, search, shortest path | calls that read and write under two locks; several loops on one file |
| Write pipeline | `memory/longterm/write/*.go` | the candidates of a batch | extract, resolve, deduplicate, store | decisions taken on a memory that moves on |
| Dream job | `memory/longterm/dream/*.go` | activity and dream times, ticker, stop channel, phases | `Start`, `Stop`, `maybeDream`, `Run` | scheduler against runs; dreams write what they read earlier |
| ACP server | `cmd/acp_server/*.go` | sessions, `cancelFn`, hooks | prompt, cancel, delete, load, automatic reply | one agent for all sessions |
| Web UI server | `cmd/kugelblitz-ui/*.go` | `hitlWaiting`, `hitlCh`, stored turns, plan mirror | chat, reply, cancel, archive, settings | question and reply race; overlapping turns |
| LLM caller, providers, contents | `llm/`, `provider/`, `core/types/message.go` | the answer being assembled | block, stream, convert both ways, decode | fragments, cut answers, what a provider refuses |
| Tools and MCP | `core/tool.go`, `tools/mcp/`, `tools/internals/memory_tools.go` | registry, marks, global instances, server processes | register, offer, connect, shut down | process-wide state, several loops |
| Media | `core/media.go`, `memory/media_converter.go` | attachments, media files | check, describe, keep, restore | types given by name against types of the bytes |
| Configuration | `cmd/common/configfile.go`, `cmd/kugelblitz-ui/config.go` | the file, `currentConfig`, open pages | load, save, put | stale forms, writes in place, edits by hand |

How they interact: a server or program constructs an agent loop, whose run calls
the kernel, which runs the state machine; a state calls the ReAct loop (one LLM
conversation) or the DAG executor; the executor spawns worker agents, each with a
ReAct loop of its own. All share the plan store (by pointer) and, through it,
plan.jsonl and the checkpoints. A worker's failure calls back into the state
machine (`HandleDrift`), which cancels the executor and replaces the task array under
the running workers. Questions go out through hooks (`OnWaitForHumanAction`) and
answers come back through the kernel into a worker's channel, with the shared pause
gate in between; the servers stand at both ends of that path. The run appends to the
session memory, which the conversation is composed from, and starts the pipeline and
the dreams that write the long-term memory. `PROJECT.json` lists every component with its
status, and under `hazards` the places where this goes wrong most easily.

What makes the components correct, in one line each: the executor runs every
task at most once and only after its parents, ends, and leaves memory and disk
agreeing; a rollback never invalidates running work; a question always finds
its answer and the gate is closed exactly while one is open; the machine executes
only valid, approved plans; what a plan call reported saved is on disk; session
memory loses no message; what an agent remembered stays, is found, and is written; a
conversation can always be continued; a streamed answer is the answer; the servers
deliver each reply to its question and show what happened; a saved setting stays saved.

## 2. Modules

| Module | Models | In run |
|---|---|---|
| `TaskGraph` | the graph of a plan, `allParentsDone`, `ReadyTasks`, what `Validate` accepts | dag, fsm |
| `TaskDag` | abstract specification: what executing a task graph promises | `dag_plain` |
| `DagExecutor` | `ExecuteBatch`, workers, failure callback, drift rollback, `task_status_update`, cancel | `dag_*` |
| `HumanGate` | workers' tool calls and questions, the pause gate, the delivery of answers | `gate*` |
| `PlanFsm` | `Machine.Run`, each state's `Execute`, the main agent's conversation and plan tools, the user's cancel, repeated runs | `fsm_*` |
| `PlanStore` | plan.jsonl and checkpoints file by file: edits, rollbacks, failing writes, crash and restart | `services` |
| `SessionLog` | abstract specification: what a session memory promises | `toolkit` |
| `SessionStore` | one session's memory and file under several loops, compression, crashes | `toolkit` |
| `Conversation` | what the model is sent over the runs of a session, and when it is refused | `toolkit` |
| `ChatContent` | the kinds of content and the conversions between them (no state) | via others |
| `ChatStream` | the assembly of a streamed answer against the whole one | `toolkit` |
| `ReplyText` | the decoding of single-shot replies | `toolkit` |
| `LongTermMemory` | facts, name index, MEMORY.md, tools, write pipeline, dream cycle, vector index | `memory` |
| `GraphStore` | one store: entities, relationships, adjacency, the two files, searches | `toolkit` |
| `DreamScheduler` | the scheduler of dreams and the runs that start and stop it | `gate` |
| `AcpServer` | concurrent prompts, cancels, deletes and automatic answers on one shared agent | `services` |
| `AcpContent` | what blocks become, what the client is told, what a replay tells | `toolkit` |
| `UiServer` | turns of one web session and the agents of each: questions, answers, cancels, archive, delete | `ui` |
| `PlanMirror` | the plan on the web page, derived from tool results | `toolkit` |
| `ToolBelt` | the process-wide tool registry, bindings of tools to loops, MCP servers | `toolkit` |
| `MediaFlow` | attachments on their way to a model, media files and their restoration | `toolkit` |
| `ConfigStore` | the configuration file, the settings pages, edits by hand | `toolkit` |

The eight modules `*_proofs` hold the theorems (section 4). `MCDagExecutor`, `MCHumanGate`, `MCPlanFsm`, `MCUiServer` and
`MCLongTermMemory` are instances of one module each. `MCToolkit`, `MCServices` and `MCAgentRuns`
check several machines in one run. Those machines share no variable; a selector chosen
in the initial state says which of them runs, and the others stay where they began. Such a run
checks each machine alone: it is no composition, and the state counts add up.

**Mishaps.** Several components have races that the code has no defence against: two turns
on one web session, two questions shown at once, two compressions, two loops on one MEMORY.md. The models let these
happen and record them in a history variable (`mishaps`, `odd`, `ills`, `raced`,
`overtaken`, `touched`); the properties promise what holds when the named ones did not happen. So a
property's antecedent is the list of what can really go wrong there, and each entry
is a behaviour of the code, listed under "Further disagreements" below where a text of
the repository says otherwise.

### DagExecutor

One process is the loop of `ExecuteBatch` (`runner`), one per task is its worker
goroutine (`pc[t]`). The actions follow the code's statements wherever another
goroutine can get in between:

* runner: `ReturnIdle`, `ReturnCancelled`, `SpawnBatch`, `JoinBatch`;
* worker: `Begin`, `Skip` (context already cancelled), `Finish` (`ExecuteTask`
  returns, `FindTask` locates the task), `Record` (status under the plan mutex),
  `Save` (`PutPlan`);
* failure callback, in the worker: `LoadFails` and `StoreFails` (the
  unsynchronised `TaskFails++`), `Decide`, `Review`, then `handleDrift`:
  `LoadTarget`, `CancelBatch`, `Restore`, `Marshal`, `WritePlan`;
* `task_status_update` by a worker's LLM: `FindForUpdate`, `UpdateStatus`,
  `SaveUpdate`;
* surroundings: `Cancel`, and `Rerun` (the machine's way from a failed batch back
  to Doing: three transitions and `confirm_plan`, hence four saves).

`FindTask` returns a pointer into the plan's `SubTasks` slice. `Restore` replaces
the slice, so every worker that holds a pointer then has a stale one (`stale`)
and its write changes nothing. That is the model's central data abstraction.
`PutPlan` is one step, since it holds the plan mutex throughout; `handleDrift`'s
`Persist` does not, and is two steps (`Marshal`, `WritePlan`). Goals, outputs,
usage, reasons and hooks that only notify are left out. `MaxConcurrent` is left out:
a worker waiting for the semaphore is a worker that has not been scheduled.

`TaskDag` is the promise without any of that: `Start` a set of ready tasks,
`Finish` a started one, `GiveUp` ready ones after a cancel. `DagExecutor` implements it
(`DagSpec`) with `status` mapped to itself and `cancelled` to the context's state.
It does so only without rollbacks, which by design take back what was finished.

### HumanGate

Every worker is the loop of `ExecuteWithTools`: `Top` looks at the context, `Think`
is the LLM, `PassGate` is `WaitIfPaused`, then either `StartTool`/`EndTool` or a
question. A question is `Register` (the executor's hook enters the agent in
`hitlAgents`), `Pause`, `Tell` (the user's hook; `core.Chain` runs it after the
framework's), `Arm` (`isWaiting`), and then `TakeAnswer` or `GiveUp`, and `Disarm`.
An answer is `Find` (under `hitlMu`: any waiting agent, map order), `Check`,
`Send`, `Resume`. `Cancel` is the end of the context, by the user or by a sibling's
rollback; `NewBatch` is the next batch on the same executor, with new agents but the
same gate and register. The condition variable is a guard on the count.
`ahead` is a history variable.

### PlanFsm

`phase` says where `Machine.Run` stands: at the top of its loop (`enter`), in a
conversation (`top`, `think`, `act`, `end`), in the code of `Execute` after it
(`leave`), in the executor (`check`, `wait`), or back (`returned`, then `over` when the
loop's goroutine has ended). The actions:

* machine: `Enter`, `EnterDoing`, `EndOfCycles`, `Finish`, and one `Leave...` per state:
  what the state makes of its conversation, followed by `Move` (`transition`, which
  also stores the plan) or `Fail` (an error, after which the plan is stored as well);
* conversation (`ExecuteWithTools`): `Abort` and `ContextDone` at the top of its loop,
  `Generate`, then the LLM answers (`Answer`), fails (`ModelFails`), finds the context
  full (`ContextFull`), or calls tools; `NextMessage` ends a message;
* tools: `SetWorkMode`, `AskHuman`, `PlanCreate`, `TaskInsert`, `TaskDelete`,
  `ConfirmPlan`, `PlanRollback`. `Offered` is the whitelist of each state. `callTool`
  does not consult it, so `Unlisted` is the set of tools that the LLM may call anyway;
* executor: `SpawnBatch`, `JoinBatch`, `Drift`, `GiveUp`, batch by batch; the
  concurrency inside a batch is `DagExecutor`'s;
* agent loop: `CancelRun` and `Interrupt` (the two halves of `Cancel`), `EndRun` (the
  deferred `Cancel`), `Run`.

`created` and `mode` are the first result of `plan_create` and `set_work_mode` in the
conversation, as `ExtractToolResult` returns it. Plans are records in a store indexed by
plan ID; `ctxPlan` is the plan that `Context.Plan` points to. `saved` are a plan's checkpoints, without their
order, and only where `plan_rollback` may read them. `approved`, `shown` and
`consulted` are history variables.

Left out: calls of tools that touch no plan; the main agent's `task_status_update`, which
no state with a conversation offers; tools that workers call without being offered them;
a `PutPlan` that fails; a second cancel of one run. The error at `maxSteps` is
`ModelFails`. A task's parents are given when it is inserted and name tasks that exist or
none (`Unknown`), so no cycle arises; `Valid` is the rest of `Validate`.

### PlanStore

`DagExecutor` takes `PutPlan` as one step; here it is `Bump`, `WritePlan` and `WriteCheckpoint` under the
plan mutex, each file write may fail (`WriteFails`), and the process may die
(`Crash`) and read plan.jsonl again (`LoadPlan`). `Edit` is any tool that changes the plan.
`plan_rollback` reads the version without the mutex (`BeginRollback`), reads the checkpoint
(`LoadCheckpoint`) and restores it (`Restore`) in three separate steps. A plan's content is a
revision: every edit makes a new one. `acked` are the versions whose calls have
returned without an error, `alone` the rollbacks that no other call disturbed.

### SessionStore, SessionLog, Conversation

`SessionStore` has the life of one session's memory object: a loop finds it in the manager
(`OpenHit`), or reads the file (`OpenMiss`, `OpenUnreadable`) and stores it (`StoreLoaded`,
`LoadOrStore`); `StartRun` and `EndRun` append; `Snapshot`, `SummariseFails`, `Install` are
`Compress`, which calls the LLM without the lock; `BeginPersist`, `Rename`, `PersistBreaks` are
`FilePersist.Store`, and `Die` is the end of the process at any point. A message is its number in the
order of the appends, and a summary is the sequence of messages it stands for. So
`Covered`, summary followed by messages, is the whole conversation, and `LogSpec` says that
memory and file implement `SessionLog`, where a conversation grows, is saved as a whole,
and falls back to the last save in a crash.

`Conversation` shows what the model is sent: `Composed` history and the messages of the run,
`Request` with the provider's verdict, `Reply`, `RunTools`, and `ContextExceeded`, which compresses the
history and starts the loop again. `CompressedByOthers` is a compression that is not the run's own: by
`AgentLoop.CompressContext`, or by the `context_compress` of another session's run, since the tool is bound for the
whole process; it may come at any time, also between reading the history (`Compose`) and using it. `ConversationUsable` says that a request is refused
only for reasons the property names (a tool result without its call at the start of the kept
history, media the model does not take, a full context), that what ran is remembered, that
a restart brings the same history, and that an orphaned history stays so: only a compression from outside,
which nothing in the code asks for on that account, may end it.

### ChatContent, ChatStream, ReplyText

`ChatContent` translates the message kinds and their conversions; text is a sequence of
tokens. `ChatStream` sends an answer in any interleaving of chunks (`ChunkSaid`, `ChunkCall`,
`StreamEnd`, `StreamFails`) and compares what is assembled with what `Block` makes of the same
answer. `ReplyText` scans a reply byte class by byte class (`ScanByte` is `matchDelim`) and
decodes it as JSON, as yes or no, or as the arguments of a tool, for all values
of depth two with brackets and quotes inside strings, and words before and after, which hold brackets and quotes of
their own. A bracket in the words that is closed there or later misleads `extractJSON` (`Misled`): the value is then
missed, and `ValueFound` says what comes instead.

### LongTermMemory, GraphStore, DreamScheduler

In `LongTermMemory` each call on the memory is atomic (`ltm.mu`), and nothing makes two calls
atomic: the pipeline is `Extract`, `Resolve`, `Dedup`, `StoreBatch`, one candidate at a time where the
code reads the memory in between; a dream is `LightSleep`, `Scoring`, `PromoteGet`,
`PromoteStore`, `DeprecateItem`, `StoreInsight`, `Awake`; a rebuild is `ReadItems` and `Upsert`. Loops share only
the file. Confidence counts twentieths, and a `Day` is a period over which it fades.
`AgentsWord` follows what an agent stored with `memory_store`.

`GraphStore` has `UpsertEntity`, `AddRelationship`, the three steps of `persist` that read the maps
without the lock, `WriteMermaid` (or `DrawFails`), `GraphRestart`, and the two searches as the loops of the code,
checked against the lengths of paths (`Ball`).

`DreamScheduler` has the goroutine of `Run` (`BeginRun` ... `RunDone`) and that of `Start` (`NewTicker`,
`Ticked`, `MaybeDream`, `MarkDreamed`, `DreamOn`, `PollStops`) with time as a counter. `dead` is the panic
of a stop channel closed twice.

### AcpServer, AcpContent, UiServer, PlanMirror

`AcpServer`: the read loop's `New`, `Send`, `Cancel`, `Delete`, and per prompt a goroutine `Begin`,
`AppendUser`, `Hook`, `CallModel`, `Ask`, `Arm`, `Wake`/`Abort`/`Fail`, `AppendReply`, with `Resume` as the goroutine of
the automatic answer. `AcpContent`: blocks to messages, replies and tool calls to
notifications, and `session/load`.

`UiServer`: every `POST /api/chat` is a turn: `Reset`, `Setup`, the event loop (`Resume`, `Done`, `Drop`),
`BeginArchive`, `EndArchive`/`ArchiveFails`; other requests are `RespondHITL`, `Cancel`, `Disconnect`, `Delete`.
A turn has a loop with its agents: the main agent and, between `StartBatch` and `JoinBatch`, a worker for each task,
since the kernel hands the page's hooks to both (`kernel.go:95`, `dag.go:199`). An agent may `Call` a tool, `PassGate`,
`Ask` (which closes the workers' gate and puts the question in the place of the one the page shows: `Show`), `Arm`,
`GiveUp`, `End`. The session has one flag, one question and one channel for all of them, and `Resume` gives an answer to
the main agent if it waits and else to any waiting worker (`Listening`). Two questions at once are the mishap `crowd`; a worker that
gives its question up because the batch or the turn was cancelled is `shut`: its gate stays closed, as
in `gate_cancel`. `HumanGate` has register, gate and channel step by step; here a worker's question is shown, and its answer
delivered, in one step each. `budget` bounds what may happen. `reports` and `said` are what the archive is compared with: a turn has an
assistant message only if some agent replied (`chat.go:342`).

`PlanMirror`: what `derivePlanUpdate` makes of the results of the plan tools, and what a turn archives; a
turn whose client is gone archives nothing (`TurnDropped`).

### ToolBelt, MediaFlow, ConfigStore

`ToolBelt` runs the script of `NewAgentLoop` instruction by instruction (`Construct`), so that two
constructions and a run interleave; `Mcp...` is `Manager.Init` with the failure of any server, `Shutdown`, and
`ServerDies`. `Serves` is the loop that a tool name answers for. `MediaFlow` looks at each attachment's
declared type against its bytes, chooses the model as `resolveProvider` does (that of the type; the main model
where none is configured, as for every video; none at all where the one configured names an unknown provider), records
a description, and keeps and restores files. `ConfigStore` has one field for each kind of setting, the pages that
fetch a form, show what their inputs can show (`Shown`), and put back later what they send (`Posted`), and `Save` in
place, which may leave any prefix. The page sends neither `auto_dream_enabled` nor the three `auto_dream_*_sec`, so every put
makes them false and zero in memory, while `Load` reads a zero back as the default. `Meaning` is what a setting means to the agents:
the dreamer takes no interval for the default one, so there memory and file still mean the same.

## 3. Runs

| Run | Instance | Result |
|---|---|---|
| `dag_plain` | 4 tasks, uneven graph, 2 calls, no reviews | `ExecutedOnce`, `NoOrphan`, `TerminalAtReturn`, `FailureStopsBatches`, refinement of `TaskDag` (`DagSpec`) |
| `dag_drift` | 3 tasks (two feeding a third), every failure may roll back, one `task_status_update`, 2 calls, fairness | `ParentsDone`, `DurableAtReturn`, `CheckpointsImmutable`, `AllCallsReturn` |
| `dag_has_failed` | cancel | **violated**: `HasFailedOfBatch` |
| `gate` | workers: 2 workers, 2 callers, 2 calls each, 2 batches, cancel; dreams: 1 loop, 2 runs, time to 8; fairness | `PauseAccount`, `AtMostOneAhead`, `OneAnswerPerQuestion`, `EveryBatchEnds`, `DreamsContained` |
| `gate_cancel` | 2 workers, cancel, fairness | **violated**: `AllEndCancelled` |
| `fsm_safety` | 2 plans, 2 tasks, cancel, drift, `confirm_plan` in every state | `RunsWhatWasShown`, `ApprovedBeforeDoing` |
| `fsm_live` | 1 plan, 1 task, 2 runs, cancel, `plan_rollback` in every state, fairness | `PlanStateAgrees`, `RunReturns` |
| `fsm_second` | 2 runs | **violated**: `IntentConsults` |
| `services` | plan store: 2 callers, 4 calls, 1 crash, 1 failing write; ACP: 2 sessions, 2 prompts, 2 questions, 1 cancel, deletes, failures; fairness | `DiskKept`, `NeverOverwritten`, `CallsReturn`; `SessionsApart`, `EveryPromptEnds` |
| `ui` | four mixes: 2 turns that may overlap, with a question, a lost connection, delete, failing writes; 1 turn with 2 batches of 2 workers and 2 or 3 calls, cancel, rollback; fairness | `EachQuestionOnce`, `ArchiveKept`, `EveryTurnEnds` |
| `memory` | 2 loops, 2 names, 6 values, 3 calls (tool, pipeline or dream), time, 1 failing write, 1 restart | `MemoryKept`, `AgentsWord`, `ChangesOrdered` |
| `toolkit` | ten machines, see `MCToolkit` | `SessionKept`, `LogSpec`, `GraphSound`, `StreamWhole`, `ReplyDecoded`, `ConversationUsable`, `SettingsKept`, `MediaRight`, `ToolsRight`, `ClientInformed`, `PlanShown` |

Where a property is a conjunction, its parts are definitions with comments of their own, next to
it in the module:

| Property | Parts |
|---|---|
| `DiskKept` | acknowledged versions are on disk; plan.jsonl equals its checkpoint; a rollback checkpoints what it was asked for |
| `SessionsApart` | updates go to the prompt's session; histories are exact; a cancel reaches the prompts in flight |
| `EveryPromptEnds` | after a cancel; after a question |
| `EachQuestionOnce` | the answer an agent proceeds with is to its question; no answer serves twice |
| `ArchiveKept` | a running turn can be cancelled; every turn is archived once with its own messages; the archive only grows; a deleted session stays deleted |
| `EveryTurnEnds` | after a cancel or a lost connection; when the user answers |
| `MemoryKept` | name index exact; file follows memory; vector index lacks only what tools and dreams stored |
| `ChangesOrdered` | versions grow; the confidence gap is respected; no value is blanked |
| `SessionKept` | one object per session; recent messages verbatim; persisted messages survive |
| `GraphSound` | one entity per name; adjacency exact; file whole; drawing fresh; shortest paths; subgraphs are balls; no duplicate in an answer; nothing known is lost |
| `StreamWhole` | stream equals block; each call announced once; arguments are a call's own or none |
| `ReplyDecoded` | the value the model gave, or a piece of the words that misled; only the tool asked for |
| `ConversationUsable` | refusals explained; an orphaned history stays; work remembered; exchanges whole; reload faithful |
| `SettingsKept` | memory is what the file says; edits survive; no half-loaded configuration; only the edit counts |
| `MediaRight` | the model is the one configured for the kind of the bytes, or what stands in for it; the history shows them; a kept file comes back |
| `ToolsRight` | a run is offered its state's tools; tools serve their own loop; custom tools survive; server processes are owned |
| `ClientInformed` | prompts fail for named reasons only; announced calls are closed; a replay tells all |
| `PlanShown` | the shown status is the stored one; the page is never behind the mirror; what was sent last is archived |
| `DreamsContained` | no dream once a run is done; panic only by reuse; the cooldown; runs end |

The violated ones are disagreements between the code and what its comments or
README say; `PROJECT.json` quotes both under `findings`:

* tasks failed by a cancel before their worker began are not counted, and the batch
  reports `HasFailed = false`;
* a question whose context is cancelled leaves the gate closed: siblings waiting
  at the gate, and every later batch, block forever;
* the abort token left by a finished run ends the Intent conversation of the next run of
  the same loop before the LLM is asked, so that run goes to Direct.

### Further disagreements

These can be read off the models directly and have no run of their own.

Core:

* a rollback can leave a sibling's task "doing" with no worker; the next call finds nothing
  ready and reports success, against `dag.go:126-128` (`TerminalAtReturn` holds without
  rollbacks, and fails in the instance of `dag_drift`);
* replanning may keep a failed task; the next Doing finds nothing ready and the plan is Done,
  against `enums.go:37`;
* "consecutive failures" (`README.md:688`) are total failures, since `StoreFails` is
  the only step that writes the counter, and only in failures;
* a sibling that has passed the gate's check starts its tool after the gate closed
  (`README.md:532`); `AtMostOneAhead` bounds by how much;
* a cancelled plan is not "marked as failed" (`kernel.go:142`): `Fail` and `Move` store the
  machine's state, and no step moves the machine to failed;
* the LLM can call `confirm_plan` without `ask_human` (`README.md:587`);
* a tool outside a state's whitelist is executed if the LLM names it (`react.go:411`): a `task_insert` in
  Confirmed changes the plan after it was shown (`README.md:671`), and a `plan_rollback`
  there brings back a plan in state "doing", which the machine takes for an approval. The
  theorems `Shown` and `Approved` name exactly these tools in their assumptions;
* `plan_rollback` reports a `to_version` that it reads unlocked (`plan.go:524`), and
  `ListPlansBySession` returns map order where its comment says newest first.

Sessions and conversations:

* two overlapping `Compress` calls lose messages: the second cuts by a count taken before the
  first (`session_memory.go:103-113`); and `GetSessionMemory` stores over a copy that another
  caller has just stored, against the comment at `session_memory.go:195`;
* a session file that cannot be read counts as missing and is overwritten by the next save; an
  empty summary from the LLM drops the old messages; `context_compress` reports
  `compressed: true` when nothing was compressed (`context_compress.go:66`);
  `ListSessions` lists left-over temporary files;
* compression may keep a tool result whose call it summarised; every later request of the
  session is refused, until a caller of the library or another session's tool compresses it once more. Media in the history are sent to a text-only model after the turn that
  brought them. Their bytes are gone after a reload, although `message.go:30-32` says that they are restored;
* of a chunk with text and reasoning both are lost: it becomes a composite (`converter.go:465`), which
  `format.go:210` takes for handled above, as only tool calls are; text beside
  tool calls is kept by `Block` and dropped by `Stream`; cut arguments become none, and
  the tool is executed without; `Block` never calls `OnBlockReply` (`lm_provider.go:14`), so a
  non-streaming server never shows the reply.

Long-term memory and dreams:

* `README.md:287-291` has dreams while the agent is idle, but the scheduler runs only
  within a `Run` (`agent_loop.go:203-206`); a second `Run` of one loop closes the stop channel
  twice and panics (`dream.go:131`); a dream is not cancellable, so a cancelled run waits for it; a failed
  dream uses up the cooldown, which is per loop;
* a dream that promotes an item writes back what it read: a removed item comes back,
  empty, and a newer value is lost (`dream.go:327`); its deprecation removes an item changed since;
* a candidate that the resolver let win by meaning is always discarded by `Dedup`; one that lost
  carries the existing value back to `BulkStore`, over a newer one (`conflict.go:114`);
  insights ignore the confidence gap; versions begin at 1 again after a removal;
* an empty value reloads as its metadata line, a value of several lines is cut;
* `memory_store` and `memory_remove` start no rebuild of the vector index, against `index.go:13`, and a
  rebuild never deletes documents (`index.go:42-43`);
* every loop has its own memory over the one MEMORY.md: the last writer drops what the other stored.

Servers:

* ACP: a `session/cancel` sent as a notification is ignored; every error is answered as
  "cancelled"; the history never reaches the agent; linked resources become media of no known
  type, which the provider refuses; a failed stream leaves announced calls running; an
  automatic answer that comes before the agent waits is lost and the prompt hangs;
* web UI: answers given before the agent waits are lost; of two workers that ask at once the page shows the second
  question only, its answer may reach the first, and the other waits until the turn is cancelled
  (`chat.go:253`, `dag.go:88`); a cancelled turn whose workers stand at a closed gate never ends; overlapping turns share channel, flag
  and messages; a write of the archive truncates first; the agent's session ID is not
  persisted; with what `plan_create`, `task_insert` and `task_delete` really return the page
  never shows a task; a failed `plan_create` replaces the shown plan by an empty one.

Tools, media, configuration, replies:

* `memory_extract` and `context_compress` are bound through globals (`memory_tools.go:68`): a run
  uses those of the loop constructed last; a custom tool registered before the first loop
  is silently replaced, against `tool.go:106`; `ConnectAll` stops at the first server that fails and is
  never tried again; a server that dies is not reconnected;
* a restored media file has no type and is refused; nothing in production calls the
  converter; one ID may have two files;
* a missing configuration file is not created, against `main.go:43`; an unknown provider
  name forgets all settings at the next start and the next put overwrites the file; cleared
  strings and zeros come back as defaults; an image model cannot be cleared; the settings page
  sends neither `auto_dream_enabled` nor the three `auto_dream_*_sec` (`static/settings.js:123`), so every save from it turns
  the dreams off and takes their times back to the defaults;
* media of a kind without a model of its own (images and audio by default, videos always) go to the main
  model, whatever it can see (`agent_loop.go:238`);
* a bracket that is closed in the words before the value ("the list [1]: ...") hides the value from `extractJSON`;
* `isYes` takes any text that contains YES; a cut reply may decode to a value nested in it.

### Bounds

`CHECK_DEADLOCK FALSE` is set in every run because a run of the program ends.

Three tasks give two concurrent workers with a common child, which is what
a rollback can disturb: the one that rolls back, a sibling in any phase, and a task
whose parents are rolled back. Four tasks in `dag_plain` give batches of different
depth. `MaxRuns = 2` lets a call meet what an earlier one left behind. `BaseVersion
= 3` is the version when Doing is first entered after plan_create and two transitions,
and so lets the rollback target exist from the start. In `gate` one worker asks while the other runs
ahead, or both ask; two callers can interfere; two calls of a worker let an answer meet its
worker's next question; two batches let a leaked pause meet new agents. The code's own bound on a worker's calls
is `maxSteps`. In `PlanFsm`, `MaxCycles` is the code's setting (30 by
default): six reach a second presentation of the plan (Intent, Init, Confirmed, Doing, Update,
Confirmed), and eight its second execution and what follows. Two plans allow an approval of the wrong one, and two tasks a
dependency; three calls per conversation are enough to create a plan with two tasks, or to approve, take
back and approve again. Checkpoints multiply the states, so `fsm_live` has one plan, one
task and two calls: enough to approve and then restore.

Two actors and one fault of each kind are the pattern of the other machines: two callers of
plan tools with four calls make an edit between any two steps of a rollback, and calls after the crash;
two prompts share or do not share a session; two turns overlap or follow each other, and, from other initial states of the same
run (`Budgets` in `MCUiServer`), two workers of one turn ask one after the other or at once, also in a batch that follows one in which the gate
stayed closed; two loops meet
in MEMORY.md, and three calls let a tool act between the read and the write of a pipeline
or a dream. Values of `LongTermMemory` are one of each behaviour: plain, alike, of several lines,
empty. The graph's batches share names in other spellings, and have duplicate, self and dangling
relationships. Answers of `ChatStream` have every mix of reasoning, text, one and two calls. In `DreamScheduler` a clock of
eight leaves room for two cooldowns and the idle time. In `toolkit` three appends are enough for two compressions one after the
other, the second over the summary of the first; two runs of a conversation let the second meet a history that the first
or somebody outside compressed; five edits are one setting of each kind;
what these machines promise is proved for any number (section 4).

### Fairness

In `DagExecutor`, weak fairness of the runner and of each worker: goroutines
that can move do, and `ExecuteTask` returns because the worker's loop is bounded by
`maxSteps` (`gate` checks that it does, `gate_cancel` shows when it does
not). Nobody has to cancel, call a tool or run the plan again. In `HumanGate`, weak fairness
of each worker and caller: the human keeps answering as long as some worker waits to be
answered. It does not assume that a particular question is picked. In `PlanFsm`, weak fairness of
the one goroutine that runs the machine (so the LLM and the human answer, and the
executor returns, which is `AllCallsReturn` there and excludes the blocked gate of
`gate_cancel`), and of the second half of a cancel once begun.

In `PlanStore`, strong fairness of each call: Go's mutex hands over to a waiter that starves, so a
call that can take it again and again gets it. In `AcpServer`, weak fairness of each prompt's goroutine and of
its automatic answers; no client has to do anything. In `UiServer`, of each handler, of each agent's own steps, of the join
of a batch, and of the user's answers, which is the antecedent in words of "when the user answers"; no agent has to call a tool or to ask,
and nobody has to cancel. In `DreamScheduler`, weak
fairness of the run and of the poller, and strong fairness of the poller's stop case: a `select` with
two ready cases picks at random, so a closed stop channel is not passed over forever. The machines of
`toolkit` and `memory` are checked for safety only, without fairness.

## 4. Proofs

All theorems hold for every value of the constants that the `ASSUME`s of the modules allow: finite
sets where counting needs them, bounds that are natural numbers, names that are not also markers
("no plan", "nobody"), a task graph that passed `Validate` (`GraphAssumption`), and what the code fixes: a
server's tools are not named like the framework's (`BeltAssumption`: they carry the prefix
`mcp_`), a settings page edits only what it sends, chooses among the options of its inputs, and no field has the value
that marks an absent section (`ConfigAssumption`), the calls of one answer have different ids and their arguments
are one JSON object each (`AnswersAssumption`), and what a model gives as a value is one
JSON object or array, with any words before and after it (`ReplyAssumption`), and a user sends text, media with
their bytes, or both, while compression keeps at least one message (`ConversationAssumption`: neither
the file nor the settings page sets `KeepLastN` to 0). TLC evaluates all of them in the runs. Where a theorem needs a
feature to be off it says so in its statement.

Eight modules hold the theorems: `DagExecutor_proofs`, `PlanFsm_proofs`, `Services_proofs` (plan store,
session store and ACP server), `AgentRuns_proofs` (gate and dreams), `UiServer_proofs`,
`LongTermMemory_proofs`, `Toolkit_proofs` (media, tools, configuration, plan mirror) and `Chat_proofs` (streams,
replies and conversations). Each argument has the same shape: the
conjunction of a type invariant and named parts is inductive, one lemma per
action (or per part) says so, and the theorem adds the temporal step. Inductive invariants were run through TLC before
the proof was tried: `MemInv` on the 2.9 million states of `memory`, `BeltInv` and `ConfigInv` on instances
of half a million states and more, larger than those that `toolkit` keeps; `StreamInv` on an instance whose
answers have two calls and reasoning (16 thousand states); `ConvInv` on one with two exceeded contexts (a million states).

### Executor and questions

* `TypeCorrect` (of `DagExecutor`): types, including that exactly the versions up to the current one have a
  checkpoint. The inductive invariant `TypeInv` adds that a rollback's target is an
  existing checkpoint (`TargetsExist`: it is loaded in one step and used in a later one)
  and that a status update in progress has its arguments (`ArgsGiven`).
* `Durability` (`DurableAtReturn`): no assumption on features. The invariant `SavedInv`
  says that once every worker has saved, the disk agrees with memory: the last of the
  writes of a batch is always a `Save`, because every path of a worker, also after
  `handleDrift`'s late `Persist`, ends in one.
* `CheckpointsNeverChange` (`CheckpointsImmutable`): from the types.
* `ParentsAreDone` (`ParentsDone`), without status edits by LLMs. The invariant
  `ParentsSettled` says that in every checkpoint a rollback can reach, and in memory,
  the parents of the running batch are done: versions written since the batch started all
  carry them.
* `FailureIsolated` (`FailureStopsBatches`): every failure that a worker counted is in the count that the
  runner looks at, so it spawns nothing after one.
* `NothingRepeated`, `NobodyOrphaned`, `EndsTerminal` (`ExecutedOnce`, `NoOrphan`, `TerminalAtReturn`) and
  `ImplementsTaskDag`, without reviews and status edits (`Undisturbed`). Acyclicity enters once, in
  `NothingReady`: among the unfinished tasks there is one without unfinished parents. TLC checks `DagSpec` in `dag_plain`;
  the theorem is the same refinement, step by step, for every graph.
* `GateCorrect` (`PauseAccount`, and that the gate is closed while a question is open): the gate's count is the number of registered
  questions plus the number of answers in progress. The account is not inductive alone: it
  needs that a worker past the gate is not registered (`Places`), which in turn follows
  from the account, since its own open question would have kept the gate closed.
* `RunsAheadByOne` (`AtMostOneAhead`).
* `AnswersApart` (`OneAnswerPerQuestion`), until somebody cancels: an answer lies only in the channel of a worker
  that is waiting, unregistered, and that no caller is on the way to (`AnswersInv`). That two callers cannot pick one
  worker rests on `hitlMu` alone; the second check of the code is not needed for it.
* `DreamsStayQuiet` (`DreamsQuiet`, the safety part of `DreamsContained`): no dream of a loop once its run is done, a
  panic only in a loop that runs a second time, and the cooldown between dreams. The invariant follows the
  stop channel: while a loop runs for the first time it is open until the run closes it.

### State machine and plan store

* `StateAgrees` (`PlanStateAgrees`): no assumption on the tools the LLM calls. A tool or a rollback may set
  the plan's state in a conversation; every way out of it stores the machine's. The
  inductive invariant `IInv` of `PlanFsm_proofs` adds `Snapshots` (checkpoints are of plans
  that exist), `Named` (the IDs the machine holds name stored plans), `Placed` (Confirmed and Doing have a
  plan, and `ctxPlan` and `ctxPlanID` are the same there), `Bounded` (the cycle counter), and
  `Approval`.
* `Approved` (`ApprovedBeforeDoing`), unless `plan_rollback` is called where it is not
  offered. `Approval` says that in Confirmed the stored state is "doing" only while an
  approval stands; it starts true since `PlanStateAgrees` holds on entering.
* `Shown` (`RunsWhatWasShown`), as long as no tool that edits plans is called where it is
  not offered. `Kept` adds that the graph is the one shown from Confirmed's first message to
  the end of Doing, and valid.
* `Kept` (`DiskKept`), for any number of callers, calls, crashes and failing writes. The inductive
  invariant `IInv` of `Services_proofs` says that whoever saves holds the mutex and its snapshot is memory's
  content (`SavingInv`), that the version being saved has no checkpoint yet, and that plan.jsonl is
  never behind a checkpoint nor ahead of memory (`FilesInv`). `RollbackInv` carries the loaded revision along while
  the call is `alone`.
* `CheckpointsStay` (`NeverOverwritten`): plan.jsonl is never behind a checkpoint, so a restart never
  reuses a version that has one.

### Memories

* `SessionIsKept` (`SessionKept`), until two compressions overlap or two loops load at once. `ShapeInv` holds whatever happens (the file is always that of
  some whole memory, since one caller writes at a time and renames); `Unraced` adds that there is one
  object, that a compression's snapshot is a beginning of it (`OneSummary`), and that memory and file are both
  in the order of the appends, without gap or repetition (`Good`), the file saying nothing
  that memory has forgotten (`Contents`).
* `ImplementsLog` (`LogSpec`): every step of memory and file is a step of `SessionLog` or a stutter. The two facts it rests on are
  that `Install` keeps `Covered` (summary and messages together) and that what was saved is what a
  load parses (`ParsedEvents`).
* `MemoryStaysKept`, `AgentsWordStands`, `ChangesStayOrdered` (`MemoryKept`, `AgentsWord`, `ChangesOrdered`): for any number of
  loops, names, values, batches and days. `Sound` is the name index against the items, `FileOk` and `DiskFollows` the
  file, `Covered` what the vector index lacks, `Runs` what a pipeline has in hand, which need no longer be
  what the memory says. `LoadedSound` and its neighbours say what loading a file gives.

### Servers

* `QuestionsAnswered` (`EachQuestionOnce`) and `ArchiveIsKept` (`ArchiveKept`): any number of turns, workers and questions. That an
  answer serves once (`UsedOnce`) holds whatever happens: a question is shown, in a channel, or with an
  agent, and in one of these places only (`Distinct`, since `RespondHITL` moves it and does not copy). The mishaps are the hypotheses of the other
  parts of `UiInv`: until turns overlap, one is active, owns channel and messages, and the file is exact (`Alone`: `Single`, `Running`, `Exact`); until two
  questions are open, one starts over an old question, or a worker gives one up, the question shown or in the channel is the last that
  the one asking agent asked (`Answering`). Turns that are cancelled are left out of `RightAnswer`: an agent of theirs gives its question up
  and leaves it shown. That an archived record has an assistant message exactly if there was reply text is `Talk`.
* `SessionsStayApart` (`SessionsApart`): any number of sessions and prompts. `Histories` describes the history of a
  session by the prompts on it: pairs of user and assistant, one for each that ended, and half a
  pair for the one about to append its reply.
* `PlanStaysShown` (`PlanShown`): the invariant adds that no mirror is without an ID, and that without a mirror
  nothing was sent.

### Tools, media, configuration

* `ToolsStayRight` (`ToolsRight`): any number of loops, servers and custom tools. `Names` says after which instruction of its
  construction a loop has registered and marked a name (true under any overlap); `Alone` and `Settled`, without overlap, who owns
  the registry while a loop is constructed and after it; `McpInv` that at most one server process is not yet in
  the manager's hands.
* `MediaStayRight` (`MediaRight`): any attachments and any configuration of models, also one that changes between turns. `TurnInv` says
  what was accepted is of the kind its bytes are and on the whitelist, so the model chosen by the first is the one that every other would
  be given; `FilesInv` that a file is what was kept last under its name, and that what was
  restored is what the files say.
* `SettingsStayKept` (`SettingsKept`): any number of pages and edits. The invariant says what a page shows (`FormShows`: the current
  settings but for its own edits, until somebody else saves) and that memory means what the file says (`Agrees`: they differ where a put left
  zero for a time that `Load` gives its default); the lemma `RoundTrip`, that `Load` reads back in meaning what `Save` writes, but for
  values that `applyRaw` does not take, is why a save keeps it.

### Streams, replies and conversations

* `StreamedWhole` (`StreamWhole`): for any answer, cut into chunks in any way. While the answer streams, the
  invariant `Streaming` says of text and reasoning that what was gathered followed by what is left is the
  whole (`Arriving`); of every call that its fragments so far and those left are its arguments, under the id it
  began with (`Continued`, `Begun`); that what is accumulated belongs to calls of this answer (`Own`), and to
  which of them a continuation without an id goes (`Known`); and that nothing is announced twice (`Told`).
  At the end `BuildHolds` and `ParseResponseHolds` say what the two ways of putting a content together
  hold, which needs what `FlattenSeq` computes for one, two and three sequences.
* `RepliesDecoded` (`ReplyDecoded`): for any value, nested as deep as it likes. The heart is `Follow`: `matchDelim` counts
  one kind of bracket, the parser keeps a stack of all of them, and after every byte of a value the
  depth is the number of brackets of that kind on the stack. The value's first bracket lies
  at the bottom until its last byte (`ValueReads`), so the count returns to nothing where the value
  ends and not before, whatever its strings hold. A whole value is therefore
  what is extracted (`WholeExtracted`); of a cut one the first bracket is never closed (`CutOpen`). Words before the value may hold brackets:
  those that are never closed are passed over, and if one is closed, what is extracted begins in the words (`Misled`).
* `StaysUsable` (`ConversationUsable`): the requests are folds over messages, so the proof first says how
  `ConvertMessages`, the pairing of calls and results (`Paired`) and the verdict behave when
  histories are put together, cut and stored (`ConvertConcat`, `WholeConcat`, `WholeRest`, `MessageKept`). The invariant
  `ConvInv` then says that what a run sends is either what its session holds (`Fresh`), or a request like
  one that was taken (`Settled`: adding calls and their results keeps it so, `AcceptableMore`), that every finished
  exchange is whole, and for each refusal what in the history explains it. That an orphaned history stays, but for a compression from outside, is not inductive
  without `Settled`'s last part: a history that begins with an orphan in the middle of a run is already as short as
  compression makes it. That "blind" stays explained needs that compression keeps the last message (`BlindLast`): a later run whose model sees that
  kind may be accepted and compress the history under the old refusal.

### Found by proving

Three statements that TLC had accepted on the instances turned out to be false, or the model too coarse:

* `OnlyTheEditCounts` was false in general: clear the image provider and then the image model, both of which the
  server ignores since an image model cannot be cleared, and then set the provider: the model that was
  never taken away is. The property now leaves the image fields out after something was cleared. Writing
  the round trip out also showed a setting the page never sends (see "Further disagreements");
* the history field `seen` of a dream was one value per name; a value that changes and changes back
  between read and write made it say less than it meant. It is now the set of items seen;
* `GapRespected` compared with the decayed confidence; the floor of the decay raises a very low one, so it is the
  smaller of the two.

A fourth was true and said too little: `ValueFound` excused values whose strings hold brackets when the answer
is cut, and what the proof needs is only that such a bracket lies further in; the exception is gone.

The definitions `OfType`, `Grouped`, `BulkStore`, `Total`, `Scan` and `Nested` are recursive functions, or are stated by rank, so that they
can be reasoned about. The library's induction theorems take an operator, which the provers cannot instantiate; induction
over a bounded index is therefore done by hand from the least counterexample, once for sets of naturals (`Least`,
`Stepwise`, `Inductive`), and used with the set of indices that have the property.

### Only model-checked

* Liveness, which with `ENABLED` is outside the prover's reach: `AllCallsReturn`, `EveryBatchEnds`, `RunReturns`, `CallsReturn`,
  `EveryPromptEnds`, `EveryTurnEnds`, and `RunsEnd` in `DreamsContained`.
* `GraphSound`: the searches are RECURSIVE operators.
* `ClientInformed`: its statement is about conversions that fold over messages.

## 5. Plan

All components of the inventory that have state are modelled, and every safety property of the core has its theorem. What
is left, most valuable first:

1. of `ClientInformed`, that announced calls are closed;
2. a refinement from `DagExecutor` to the batch of `PlanFsm` (`SpawnBatch`, `JoinBatch`, `Drift`), now only
   argued for in the comments of both;
3. `ValidateDfs`: the coloured depth-first search of `Plan.Validate` against `TaskGraph!Valid`, over all graphs of
   up to four tasks and all iteration orders. The models use what the search accepts.

## 6. Not modelled

The file, shell and web tools: each is one call on the file system or the network, without
state that other parts read back; two agents' tools racing on the user's files are outside
the models. HTTP, JSON-RPC framing, the capability handshake, routing and static files; the
vector store's protocol and the similarity of vectors; retries inside the client library of a
provider; prompts, wording, logging, tracing, usage numbers other than a turn's total.
What an LLM answers is a free choice in every model, as is the reviewer's verdict. The worker semaphore
(`MaxConcurrent`) is a worker that has not been scheduled. Every agent loop has a `GraphStore` of its own over the same two
files (`agent_loop.go:106`); `GraphStore` models one of them, and what several do to a file is shown with MEMORY.md. In `DagExecutor`, `PutPlan` is one
step, so the writes of `Skip` and `Restore`, which the code makes without the mutex, fall before or after it and never inside; whoever makes them
saves the plan afterwards. In `AcpServer` blocks are always
converted: the error that `ContentBlocksToMessages` may return by its type it never does. A `PutPlan` that fails inside the machine, and
`CompressToolResult`, which shortens a text, are left out.
