----------------------------- MODULE AcpContent -----------------------------
(***************************************************************************)
(* What an editor sees of the agent over ACP (cmd/acp_server/converter.go, *)
(* types.go and the hooks of handler.go): its blocks become messages, the  *)
(* agent's replies and tool calls become session/update notifications while*)
(* a prompt runs, and session/load replays what was recorded.  The agent is*)
(* the ReAct loop over one session, prompt after prompt; who may run at    *)
(* the same time is AcpServer's subject.                                   *)
(***************************************************************************)
EXTENDS ChatContent, TLC

CONSTANTS Prompts,       \* sequences of blocks
          TakenMimes,    \* MIME types of images, sound and video
          Replies,       \* answers of the model, as ParseResponse takes them
          MaxPrompts, MaxRounds  \* bounds of the model: prompts, rounds of tools in one

VARIABLES blocks,     \* the blocks of the last prompt
          replies,    \* what the agent did so far
          pendingCalls,  \* calls of the last reply that are not executed yet
          sessionMessages,  \* session.Messages
          notes,      \* session/update notifications of this prompt
          outcome,    \* of the last prompt
          replay,     \* what the last session/load sent
          rounds, promptCount

acpVars == <<blocks, replies, pendingCalls, sessionMessages, notes, outcome, replay, rounds, promptCount>>

Msg(r, c) == [role |-> r, content |-> c]
BlockOf(t, v) == [type |-> t, value |-> v]
NoBlock == BlockOf("none", "")

-----------------------------------------------------------------------------
(* mimeToMultiModalType                                                    *)
MediaTypeOf(mime) ==
    CASE mime \in {"", "image/png", "image/gif"} -> "image"
      [] mime = "video/mp4" -> "video"
      [] mime = "audio/wav" -> "audio"
      [] mime = "application/pdf" -> "pdf"
      [] OTHER -> "unknown"

(* A link becomes media of an unknown type; an embedded resource its text. *)
ContentOf(b) ==
    CASE b.type = "image" -> Media(MediaTypeOf(b.value))
      [] b.type = "resource_link" -> Media("unknown")
      [] OTHER -> Text(<<b.value>>)

(* Each block is a message of its own.                                     *)
ContentBlocksToMessages(bs) == [k \in DOMAIN bs |-> Msg("user", ContentOf(bs[k]))]

(* Of a composite the first text; reasoning, calls and results are left out*)
ContentBlock(c) ==
    LET texts == IF c.type = "composite" THEN SelectSeq(c.parts, LAMBDA p : p.type = "text") ELSE <<>>
    IN CASE c.type = "text" -> BlockOf("text", c.text)
         [] c.type = "multi_modal" -> BlockOf(IF c.kind = "image" THEN "image" ELSE "resource_link", c.kind)
         [] texts # <<>> -> BlockOf("text", texts[1].text)
         [] OTHER -> NoBlock

MessagesToContentBlocks(ms) ==
    SelectSeq([k \in DOMAIN ms |-> ContentBlock(ms[k].content)], LAMBDA b : b.type # "none")

Chunk(t) == [update |-> "agent_message_chunk", text |-> t, id |-> "", status |-> ""]
CallNote(id) == [update |-> "tool_call", text |-> <<>>, id |-> id, status |-> "running"]
UpdateNote(id, s) == [update |-> "tool_call_update", text |-> <<>>, id |-> id, status |-> s]

-----------------------------------------------------------------------------
AcpInit ==
    /\ blocks = <<>> /\ replies = <<>> /\ pendingCalls = <<>> /\ sessionMessages = <<>> /\ notes = <<>>
    /\ outcome = "none" /\ replay = <<>> /\ rounds = 0 /\ promptCount = 0

PromptArrives ==
    /\ outcome # "running" /\ promptCount < MaxPrompts
    /\ blocks' \in Prompts
    /\ replies' = <<>> /\ pendingCalls' = <<>> /\ notes' = <<>> /\ outcome' = "running"
    /\ rounds' = 0 /\ promptCount' = promptCount + 1
    /\ UNCHANGED <<sessionMessages, replay>>

(* Every error of Execute is a chunk and the stop reason "cancelled"; the  *)
(* prompt is not recorded.                                                 *)
PromptFails(why, ids) ==
    /\ notes' = notes \o [k \in DOMAIN ids |-> CallNote(ids[k])] \o <<Chunk(<<"Error">>)>>
    /\ outcome' = why /\ pendingCalls' = <<>>
    /\ UNCHANGED <<blocks, replies, sessionMessages, replay, rounds, promptCount>>

(* The messages of this prompt only: earlier prompts are not passed on.    *)
users == ContentBlocksToMessages(blocks)
PromptRequest == <<Msg("system", Text(<<"prompt">>))>> \o users \o replies

(* Calls get an id of their own in each round.                             *)
Numbered(c) == [c EXCEPT !.id = c.id \o ToString(promptCount) \o ToString(rounds)]

(* The reply is shown in chunks when it streams; Block shows nothing of it *)
(* (format.go:106).  Its calls are announced either way.  Without calls the*)
(* prompt is over: what was asked and answered is recorded.                *)
ModelReplies ==
    /\ outcome = "running" /\ pendingCalls = <<>> /\ Refused \notin ToSet(ConvertMessages(PromptRequest))
    /\ \E a \in Replies, stream \in BOOLEAN :
         LET c == ParseResponse([a EXCEPT !.calls = [k \in DOMAIN a.calls |-> Numbered(a.calls[k])]])
             done == CallsOf(c) = <<>>
         IN /\ c # Absent /\ (done \/ rounds < MaxRounds)
            /\ replies' = Append(replies, Msg("assistant", c))
            /\ pendingCalls' = CallsOf(c)
            /\ notes' = notes \o (IF stream /\ a.text # <<>> THEN <<Chunk(a.text)>> ELSE <<>>)
                           \o [k \in DOMAIN pendingCalls' |-> CallNote(pendingCalls'[k].id)]
            /\ rounds' = rounds + 1
            /\ outcome' = IF done THEN "end_turn" ELSE outcome
            /\ sessionMessages' = IF done THEN sessionMessages \o users \o replies' ELSE sessionMessages
    /\ UNCHANGED <<blocks, replay, promptCount>>

PromptRefused ==
    /\ outcome = "running" /\ pendingCalls = <<>> /\ Refused \in ToSet(ConvertMessages(PromptRequest))
    /\ PromptFails("refused", <<>>)

(* The connection breaks, after calls of the reply were announced or not.  *)
RequestBreaks ==
    /\ outcome = "running" /\ pendingCalls = <<>> /\ Refused \notin ToSet(ConvertMessages(PromptRequest))
    /\ \E a \in Replies : \E n \in 0..Len(a.calls) :
         PromptFails("failed", [k \in 1..n |-> Numbered(a.calls[k]).id])

(* executeTools runs the calls in order; the results are one message.      *)
ToolRuns_ByName(status) == notes' = Append(notes, UpdateNote(pendingCalls[1].name, status))
ToolRuns(status) == notes' = Append(notes, UpdateNote(pendingCalls[1].id, status))
CallEnds ==
    /\ outcome = "running" /\ pendingCalls # <<>>
    /\ \E status \in {"completed", "error"} : ToolRuns(status)
    /\ pendingCalls' = Tail(pendingCalls)
    /\ replies' = IF Len(pendingCalls) > 1 THEN replies
                  ELSE Append(replies, Msg("tool", Results([k \in DOMAIN CallsOf(Last(replies).content) |-> CallsOf(Last(replies).content)[k].id])))
    /\ UNCHANGED <<blocks, sessionMessages, outcome, replay, rounds, promptCount>>

SessionLoad ==
    /\ outcome # "running"
    /\ replay' = MessagesToContentBlocks(sessionMessages)
    /\ UNCHANGED <<blocks, replies, pendingCalls, sessionMessages, notes, outcome, rounds, promptCount>>

AcpNext == PromptArrives \/ ModelReplies \/ PromptRefused \/ RequestBreaks \/ CallEnds \/ SessionLoad

-----------------------------------------------------------------------------
TextsOf(bs) == FlattenSeq([k \in DOMAIN bs |-> IF bs[k].type = "text" THEN bs[k].value ELSE <<>>])
SaidIn(ms) == FlattenSeq([k \in DOMAIN ms |-> TextIn(ms[k].content)])

(* session/load (handler.go:280) shows the editor again everything the user*)
(* and the agent said in the prompts that completed, in order, although a  *)
(* composite message gives one block only (converter.go:125); what the     *)
(* model thought is not shown.                                             *)
ReplayTellsAll ==
    [][replay' # replay => TextsOf(replay') = SaidIn(sessionMessages)]_acpVars

(* A prompt is refused (and answered with the stop reason "cancelled") only*)
(* for a link or a document among the blocks: text, embedded resources and *)
(* media the model can take always reach it (converter.go:32 here against  *)
(* mediaContentPart of the provider's converter).                          *)
ModelTakes(b) == b.type \in {"text", "resource"} \/ (b.type = "image" /\ b.value \in TakenMimes)
RefusedOnlyForLinks ==
    outcome = "refused" => \E k \in DOMAIN blocks : ~ModelTakes(blocks[k])

(* A tool call the editor was told of is closed exactly once, after it was *)
(* announced, when the prompt ends with end_turn (handler.go:211-228).  A  *)
(* prompt that fails while the model streams leaves its calls running.     *)
CallsClosed ==
    LET opened == {k \in DOMAIN notes : notes[k].update = "tool_call"}
        closing(k) == {j \in DOMAIN notes : notes[j].update = "tool_call_update" /\ notes[j].id = notes[k].id}
    IN /\ \A j \in DOMAIN notes : notes[j].update = "tool_call_update" =>
            \E k \in opened : k < j /\ notes[k].id = notes[j].id
       /\ outcome = "end_turn" => \A k \in opened : Cardinality(closing(k)) = 1

(* The client of the ACP server sees what happened: its prompts fail only   *)
(* for the reasons named, the calls it was told of are closed, and a        *)
(* replayed session tells the whole story (converter.go, handler.go).       *)
ClientInformed == [](RefusedOnlyForLinks /\ CallsClosed) /\ ReplayTellsAll
=============================================================================
