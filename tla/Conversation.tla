---------------------------- MODULE Conversation ----------------------------
(***************************************************************************)
(* A session's conversation over several runs of the main agent in its     *)
(* direct state: the user's message enters the history (Machine.Run), the  *)
(* ReAct loop sends history and intermediate messages to the model         *)
(* (ReactAgent.ExecuteWithTools), and the messages of a run that ends      *)
(* without an error enter the history (AgentLoop.execute).  A request that *)
(* exceeds the context is answered with a compression of the history and a *)
(* new start of the loop (handleContextExceeded); the context_compress     *)
(* tool compresses in the middle of a run.  The history may be compressed  *)
(* from outside as well, at any time: by the caller of the library, or by  *)
(* a run of another session, whose tool is bound to the loop that was bound*)
(* last.  The process may restart between runs: the history comes back     *)
(* through the session file.                                               *)
(***************************************************************************)
EXTENDS ChatContent, TLC

CONSTANTS Inputs,       \* contents of user messages
          Answered,     \* kinds of reply: subset of {"text", "reasoning", "media", "call", "calls"}
          Seen,         \* media kinds the main text model accepts
          Multimodal,   \* media kinds a model of their own is configured for
          KeepLastN, MinMessages, MaxAttempts,  \* as configured
          MaxSteps, MaxRuns, MaxMessages, MaxFull, MaxConvRestarts  \* bounds of the model: replies with
                        \* calls in a run, runs, messages, exceeded contexts, restarts

(* What a user sends: text, attachments, or both; KeepLastN is not 0, which *)
(* neither the file (configfile.go:186) nor the page (settings.js:135) sets. *)
Words == [type : {"text"}, text : Seq(STRING)]
Payloads(readable) == [type : {"multi_modal"}, kind : STRING \ {"none"}, bytes : readable]
ASSUME ConversationAssumption ==
    /\ Inputs \subseteq Words \cup Payloads({TRUE}) \cup [type : {"composite"}, parts : Seq(Words \cup Payloads({TRUE}))]
    /\ Answered \subseteq {"text", "reasoning", "media", "call", "calls"}
    /\ KeepLastN \in Nat \ {0}

VARIABLES history,    \* the session's messages
          summary,    \* a summary of older messages is kept
          summed,     \* calls whose record is in the summary
          run,        \* the run in progress
          executed,   \* calls executed so far
          mishaps,    \* history: "error" ended a run, "retry" restarted one
          convCount   \* [runs, calls, full, restarts]

convVars == <<history, summary, summed, run, executed, mishaps, convCount>>

Message(r, c) == [role |-> r, content |-> c]
Waiting == [at |-> "idle", input |-> <<>>, out |-> <<>>, steps |-> 0, attempts |-> 0, kind |-> "none"]

CallIds(ms) == UNION {{d.id : d \in ToSet(CallsOf(ms[k].content))} : k \in DOMAIN ms}
MediaKinds(c) == {p.kind : p \in {q \in (IF c.type = "composite" THEN ToSet(c.parts) ELSE {c}) : q.type = "multi_modal"}}

(* GetHistoryMessages after the system prompt. *)
Composed(h, s) ==
    <<Message("system", Text(<<"prompt">>))>> \o (IF s THEN <<Message("system", Text(<<"summary">>))>> ELSE <<>>) \o h

ConvInit ==
    /\ history = <<>> /\ summary = FALSE /\ summed = {} /\ run = Waiting /\ executed = {} /\ mishaps = {}
    /\ convCount = [runs |-> 0, calls |-> 0, full |-> 0, restarts |-> 0]

(* The kind of the first attachment chooses the model for the whole run.   *)
UserSpeaks ==
    /\ run.at = "idle" /\ convCount.runs < MaxRuns /\ Len(history) < MaxMessages
    /\ \E c \in Inputs :
         /\ history' = Append(history, Message("user", c))
         /\ run' = [Waiting EXCEPT !.at = "heard",
                      !.kind = IF MediaKinds(c) = {} THEN "none" ELSE CHOOSE k \in MediaKinds(c) : TRUE]
    /\ convCount' = [convCount EXCEPT !.runs = @ + 1]
    /\ UNCHANGED <<summary, summed, executed, mishaps>>

(* What the loop is given is read from the memory after that.              *)
Compose ==
    /\ run.at = "heard"
    /\ run' = [run EXCEPT !.at = "request", !.input = Composed(history, summary)]
    /\ UNCHANGED <<history, summary, summed, executed, mishaps, convCount>>

(* A run that ends with an error leaves nothing of what it did.            *)
FailRun == run' = Waiting /\ mishaps' = mishaps \cup {"error"} /\ UNCHANGED history
Accepts == IF run.kind \in Multimodal THEN Seen \cup {run.kind} ELSE Seen

Request == ConvertMessages(run.input)
MediaSent(w) == UNION {{p \in ToSet(w[k].parts) : p.type = "multi_modal"} : k \in DOMAIN w}

Verdict(w) ==
    IF \E k \in DOMAIN w : w[k] = Refused THEN "unsupported"
    ELSE IF ~Paired(w) THEN "orphan"
    ELSE IF \E p \in MediaSent(w) : p.kind \notin Accepts THEN "blind"
    ELSE IF \E p \in MediaSent(w) : ~p.bytes THEN "hollow"
    ELSE "no"

(* The loop's head looks for an abort; the main agent has no step limit.   *)
Aborted ==
    /\ run.at = "request"
    /\ history' = history \o run.out /\ run' = Waiting
    /\ UNCHANGED <<summary, summed, executed, mishaps, convCount>>

(* The conversion or the service refuses the request.                      *)
RequestRefused ==
    /\ run.at = "request"
    /\ Verdict(Request) # "no"
    /\ FailRun
    /\ UNCHANGED <<summary, summed, executed, convCount>>

RequestFails ==
    /\ run.at = "request"
    /\ Verdict(Request) = "no"
    /\ FailRun
    /\ UNCHANGED <<summary, summed, executed, convCount>>

Call(n) == [id |-> ToString(n), name |-> "tool", args |-> NoArgs]
Reply(kind) ==
    CASE kind = "text" -> Text(<<"t">>)
      [] kind = "reasoning" -> Reasoning(<<"r">>)
      [] kind = "media" -> Media("audio")
      [] kind = "call" -> ToolCalls(<<Call(convCount.calls + 1)>>)
      [] kind = "calls" -> Composite(<<Reasoning(<<"r">>), Text(<<"t">>),
                                        ToolCalls(<<Call(convCount.calls + 1), Call(convCount.calls + 2)>>)>>)

(* A reply without calls ends the run; its messages enter the history.     *)
Replied ==
    /\ run.at = "request" /\ Verdict(Request) = "no"
    /\ Len(history) + Len(run.out) < MaxMessages
    /\ \E kind \in Answered :
         LET c == Reply(kind)
             m == Message("assistant", c)
         IN /\ CallsOf(c) # <<>> => run.steps < MaxSteps
            /\ convCount' = [convCount EXCEPT !.calls = @ + Len(CallsOf(c))]
            /\ IF CallsOf(c) = <<>>
               THEN /\ history' = history \o Append(run.out, m)
                    /\ run' = Waiting
               ELSE /\ run' = [run EXCEPT !.at = "tools", !.out = Append(@, m), !.steps = @ + 1]
                    /\ UNCHANGED history
    /\ UNCHANGED <<summary, summed, executed, mishaps>>

(* Compress: the older part is summarised, when it is long enough and the  *)
(* model answers; the split takes no notice of what belongs together.      *)
SplitAt(h) == Len(h) - KeepLastN
Compressions ==
    {[history |-> history, summary |-> summary, summed |-> summed]} \cup
    {[history |-> SubSeq(history, n + 1, Len(history)), summary |-> TRUE, summed |-> summed \cup CallIds(SubSeq(history, 1, n))]
       : n \in {SplitAt(history)} \cap (1..Len(history)) \cap {k \in 0..MaxMessages : k >= MinMessages}}

(* executeTools runs every call of the reply, in order; one of them may be *)
(* context_compress.  Then the run goes on, or ends here: a terminating    *)
(* tool, or OnToolResult said so.                                          *)
RunTools ==
    /\ run.at = "tools"
    /\ LET ids == [k \in DOMAIN CallsOf(Last(run.out).content) |-> CallsOf(Last(run.out).content)[k].id]
           m == Message("tool", Results(ids))
       IN /\ executed' = executed \cup ToSet(ids)
          /\ \E c \in Compressions :
               /\ summary' = c.summary /\ summed' = c.summed
               /\ \/ /\ run' = Waiting
                     /\ history' = c.history \o Append(run.out, m)
                  \/ /\ run' = [run EXCEPT !.at = "request", !.out = Append(@, m), !.input = @ \o <<Last(run.out), m>>]
                     /\ history' = c.history
    /\ UNCHANGED <<mishaps, convCount>>

(* wrapContextError: only the error for too long a context is taken for it.*)
IsContextError(verdict) == verdict = "no"

(* The service says the context is exceeded: compress and start the loop   *)
(* again from the history, without what this run has done; give up after   *)
(* the configured number of attempts.                                      *)
ContextExceeded ==
    /\ run.at = "request" /\ IsContextError(Verdict(Request)) /\ convCount.full < MaxFull
    /\ convCount' = [convCount EXCEPT !.full = @ + 1]
    /\ \/ /\ run.attempts < MaxAttempts
          /\ \E c \in Compressions : history' = c.history /\ summary' = c.summary /\ summed' = c.summed
          /\ run' = [run EXCEPT !.input = Composed(history', summary'), !.out = <<>>, !.steps = 0, !.attempts = @ + 1]
          /\ mishaps' = mishaps \cup {"retry" : k \in {k \in {1} : run.out # <<>>}}
       \/ /\ run.attempts >= MaxAttempts
          /\ FailRun
          /\ UNCHANGED <<summary, summed>>
    /\ UNCHANGED executed

(* AgentLoop.CompressContext, or a context_compress of another session: a  *)
(* run in progress goes on with the input it has.  What is kept is the last*)
(* messages of the history it began with and those appended while the model*)
(* wrote the summary, so never less than KeepLastN; two compressions at    *)
(* once are the subject of SessionStore.                                   *)
CompressedByOthers ==
    /\ \E n \in {k \in 1..SplitAt(history) : k >= MinMessages} :
         /\ history' = SubSeq(history, n + 1, Len(history))
         /\ summary' = TRUE /\ summed' = summed \cup CallIds(SubSeq(history, 1, n))
    /\ UNCHANGED <<run, executed, mishaps, convCount>>

ConvRestart ==
    /\ run.at = "idle" /\ convCount.restarts < MaxConvRestarts
    /\ history' = [k \in DOMAIN history |-> [history[k] EXCEPT !.content = Stored(@)]]
    /\ convCount' = [convCount EXCEPT !.restarts = @ + 1]
    /\ UNCHANGED <<summary, summed, run, executed, mishaps>>

ConvNext ==
    \/ UserSpeaks \/ Compose \/ Aborted \/ RequestRefused \/ RequestFails \/ Replied
    \/ RunTools \/ ContextExceeded \/ CompressedByOthers \/ ConvRestart

-----------------------------------------------------------------------------
Orphaned(h) == h # <<>> /\ h[1].role = "tool"

(* What the loop was given begins, after the system's messages, with a tool*)
(* message. *)
OrphanedInput(ms) == \E k \in DOMAIN ms : ms[k].role = "tool" /\ \A j \in 1..(k - 1) : ms[j].role = "system"
MediaIn(ms) == UNION {MediaKinds(ms[k].content) : k \in DOMAIN ms}

(* A request is refused only for one of four reasons, none of which is an *)
(* interleaving of replies, tools, aborts, retries and compressions: a     *)
(* compression had kept a tool message and dropped its call before the loop*)
(* was given the history (session_memory.go:85); media in it meets a model *)
(* that cannot see it (agent_loop.go:234 looks at the new input only);     *)
(* media of a session that was reloaded has no bytes (message.go:33); or a *)
(* media kind no model takes, an audio reply too.  A compression or its cut *)
(* in the middle of a run never breaks that run's requests.                *)
RefusalsExplained ==
    run.at = "request" =>
        LET why == Verdict(Request)
        IN /\ why = "orphan" => OrphanedInput(run.input)
           /\ why = "blind" => ~(MediaIn(run.input) \subseteq Seen)
           /\ why = "hollow" => convCount.restarts > 0 /\ MediaIn(run.input) # {}
           /\ why = "unsupported" =>
                \/ ~(MediaIn(run.input) \subseteq {"image", "audio", "video"})
                \/ \E k \in DOMAIN run.input :
                      run.input[k].role = "assistant" /\ run.input[k].content.type = "multi_modal"

(* Once compression has left a tool message first, and no run is under way *)
(* that was given its history before, every later request of the session is*)
(* refused, and no run, retry or restart gets the session out of it: only a*)
(* compression from outside its runs does, which the code never asks for by*)
(* itself.                                                                 *)
Stuck == Orphaned(history) /\ run.at # "tools" /\ (run.at = "request" => OrphanedInput(run.input))
OrphanStays == [][Stuck => Stuck' \/ (Len(history') < Len(history) /\ UNCHANGED run)]_convVars

(* What a run has done is in the conversation, or in its summary, when it  *)
(* ended: by an answer, a terminating tool, an abort.  Only an error, or a *)
(* retry after the context was exceeded, loses the record of calls that    *)
(* were executed (action.go:52, state.go:97).                              *)
WorkRemembered ==
    mishaps = {} => executed \subseteq summed \cup CallIds(history) \cup CallIds(run.out)

(* Between runs the history has an answer to every call in it, and apart   *)
(* from a first message orphaned by compression every tool message has its *)
(* call: an abort or a terminating tool never leaves half of *)
(* an exchange (react.go:220).                                             *)
ExchangesWhole ==
    run.at = "idle" /\ ~Orphaned(history) => Paired(ConvertMessages(history))

(* Over a restart the history keeps its texts, its calls and its results;  *)
(* only the bytes of media are gone.                                       *)
ReloadFaithful ==
    [][convCount'.restarts # convCount.restarts =>
        /\ Len(history') = Len(history)
        /\ \A k \in DOMAIN history :
             /\ CallsOf(history'[k].content) = CallsOf(history[k].content)
             /\ TextIn(history'[k].content) = TextIn(history[k].content)
             /\ history'[k].content.type = history[k].content.type
             /\ MediaKinds(history'[k].content) = MediaKinds(history[k].content)]_convVars

(* The conversation stays usable (react.go, session_memory.go, converter.go)*)
(* except for the losses these name, and a restart brings back what was     *)
(* stored.                                                                  *)
ConversationUsable ==
    [](RefusalsExplained /\ WorkRemembered /\ ExchangesWhole) /\ OrphanStays /\ ReloadFaithful
=============================================================================
