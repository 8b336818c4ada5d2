---------------------------- MODULE ChatContent ----------------------------
(***************************************************************************)
(* The contents of messages and the conversions between them: what a       *)
(* model's answer is parsed into (ParseResponse), what becomes of a message*)
(* in the session file (core/types/message.go) and what the next request   *)
(* carries (provider/chat_completions/converter.go).  Text is a sequence   *)
(* of tokens, a tool's arguments a sequence of fragments, a media payload  *)
(* only its kind and whether its bytes are there.                          *)
(***************************************************************************)
EXTENDS Naturals, Sequences, SequencesExt, FiniteSets

NoArgs == <<>>
Absent == [type |-> "absent"]
Text(t) == [type |-> "text", text |-> t]
Reasoning(r) == [type |-> "reasoning", reasoning |-> r]
ToolCalls(ds) == [type |-> "tool_call", details |-> ds]
Media(k) == [type |-> "multi_modal", kind |-> k, bytes |-> TRUE]
Results(ids) == [type |-> "tool_result", results |-> ids]
Composite(ps) == [type |-> "composite", parts |-> ps]

(* convertArgsJSON: a fragment of an object is no object. *)
ArgsParsed(raw) == IF raw # <<>> /\ Head(raw) = "{" /\ Last(raw) = "}" THEN raw ELSE NoArgs

DetailOf(c) == [id |-> c.id, name |-> c.name, args |-> ArgsParsed(c.args)]

(* extractToolCalls (react.go:253): the calls the agent will execute.     *)
CallsOf(content) ==
    CASE content.type = "tool_call" -> content.details
      [] content.type = "composite" ->
           FlattenSeq([k \in DOMAIN content.parts |->
             IF content.parts[k].type = "tool_call" THEN content.parts[k].details ELSE <<>>])
      [] OTHER -> <<>>

(* ParseResponse: what Block makes of a whole answer. *)
ParseResponse(a) ==
    LET thought == IF a.reasoning # <<>> THEN <<Reasoning(a.reasoning)>> ELSE <<>>
        said == IF a.text # <<>> THEN <<Text(a.text)>> ELSE <<>>
        calls == [k \in DOMAIN a.calls |-> DetailOf(a.calls[k])]
        parts == thought \o said \o (IF calls # <<>> THEN <<ToolCalls(calls)>> ELSE <<>>)
    IN CASE calls # <<>> \/ said # <<>> -> IF Len(parts) > 1 THEN Composite(parts) ELSE parts[1]
         [] calls = <<>> /\ said = <<>> /\ a.audio -> Media("audio")
         [] calls = <<>> /\ said = <<>> /\ ~a.audio /\ thought # <<>> -> parts[1]
         [] OTHER -> Absent

TextIn(content) ==
    CASE content.type = "text" -> content.text
      [] content.type = "composite" ->
           FlattenSeq([k \in DOMAIN content.parts |-> IF content.parts[k].type = "text" THEN content.parts[k].text ELSE <<>>])
      [] OTHER -> <<>>
ReasoningIn(content) ==
    CASE content.type = "reasoning" -> content.reasoning
      [] content.type = "composite" ->
           FlattenSeq([k \in DOMAIN content.parts |-> IF content.parts[k].type = "reasoning" THEN content.parts[k].reasoning ELSE <<>>])
      [] OTHER -> <<>>

-----------------------------------------------------------------------------
(* The session file: marshalContent then unmarshalContent.  The bytes of a *)
(* media part are left out (MultiModalDetail.MarshalJSON), and nothing     *)
(* reads them back.                                                        *)
Part(c) == IF c.type = "multi_modal" THEN [c EXCEPT !.bytes = FALSE] ELSE c
Stored(c) == IF c.type = "composite" THEN [c EXCEPT !.parts = [k \in DOMAIN c.parts |-> Part(c.parts[k])]] ELSE Part(c)

-----------------------------------------------------------------------------
(* Requests.  A message of the wire has a role, parts, calls, and the id   *)
(* of the call it answers; Refused is the error of the conversion.         *)
Wire(role, parts, calls, id) == [role |-> role, parts |-> parts, calls |-> calls, id |-> id]
Refused == Wire("refused", <<>>, <<>>, "")

Sendable(p) == p.type = "text" \/ (p.type = "multi_modal" /\ p.kind \in {"image", "audio", "video"})

UserWire(c) ==
    LET parts == IF c.type = "composite" THEN c.parts ELSE <<c>>
    IN IF \A k \in DOMAIN parts : Sendable(parts[k]) THEN Wire("user", parts, <<>>, "") ELSE Refused

(* Reasoning goes back as text when it stands alone and is left out of a   *)
(* composite; an assistant message that is media cannot be sent.           *)
AssistantWire_NoThought(c) ==
    IF c.type \in {"text", "tool_call", "composite"}
    THEN Wire("assistant", IF TextIn(c) = <<>> THEN <<>> ELSE <<Text(TextIn(c))>>, CallsOf(c), "") ELSE Refused
AssistantWire(c) ==
    CASE c.type = "absent" -> Wire("assistant", <<>>, <<>>, "")
      [] c.type = "reasoning" -> Wire("assistant", <<Text(c.reasoning)>>, <<>>, "")
      [] c.type \in {"text", "tool_call", "composite"} ->
           Wire("assistant", IF TextIn(c) = <<>> THEN <<>> ELSE <<Text(TextIn(c))>>, CallsOf(c), "")
      [] OTHER -> Refused

(* One tool message per result. *)
ToolWire(c) ==
    IF c.type = "tool_result" THEN [k \in DOMAIN c.results |-> Wire("tool", <<>>, <<>>, c.results[k])] ELSE <<Refused>>

SystemWire(c) == IF c.type = "text" THEN Wire("system", <<c>>, <<>>, "") ELSE Refused

ConvertMessage(m) ==
    CASE m.role = "system" -> <<SystemWire(m.content)>>
      [] m.role = "user" -> <<UserWire(m.content)>>
      [] m.role = "assistant" -> <<AssistantWire(m.content)>>
      [] m.role = "tool" -> ToolWire(m.content)

ConvertMessages(ms) == FlattenSeq([k \in DOMAIN ms |-> ConvertMessage(ms[k])])

(* The service's own rule: every tool message answers a call of the        *)
(* assistant message before it, and every call is answered there.          *)
Paired(w) ==
    /\ \A i \in DOMAIN w : w[i].role = "tool" =>
         \E j \in 1..(i - 1) :
             /\ \E k \in DOMAIN w[j].calls : w[j].calls[k].id = w[i].id
             /\ \A l \in (j + 1)..(i - 1) : w[l].role = "tool"
    /\ \A j \in DOMAIN w, k \in 1..2 : k \in DOMAIN w[j].calls =>
         \E i \in (j + 1)..Len(w) :
             /\ w[i].role = "tool" /\ w[i].id = w[j].calls[k].id
             /\ \A l \in (j + 1)..i : w[l].role = "tool"
=============================================================================
