----------------------------- MODULE ChatStream -----------------------------
(***************************************************************************)
(* One call of a model over the Chat Completions protocol                  *)
(* (provider/chat_completions/format.go).  The service has an answer: its  *)
(* reasoning, its text and its tool calls.  Block receives it whole; Stream*)
(* receives it in chunks, in any interleaving of the three and of the      *)
(* calls' argument fragments, and puts it together again.  The service may *)
(* put text and reasoning into one chunk, begin a call without its id, or  *)
(* stop early; the connection may fail.                                    *)
(* Text is a sequence of tokens; arguments are a sequence of fragments     *)
(* that parses as JSON only when it is a whole object.                     *)
(***************************************************************************)
EXTENDS ChatContent

CONSTANTS Answers,    \* what the service may answer: [reasoning, text, calls, audio]
          NoId        \* the id of a delta that carries none

(* What the service's protocol says of an answer: its calls have ids of    *)
(* their own and names, and no beginning of a call's arguments is an object*)
(* by itself: "}" stands for the bracket that closes the whole.            *)
ASSUME AnswersAssumption ==
    \A a \in Answers :
      /\ a \in [reasoning : Seq(STRING), text : Seq(STRING), audio : BOOLEAN,
                calls : Seq([id : STRING \ {NoId}, name : STRING \ {""}, args : Seq(STRING)])]
      /\ \A i, j \in DOMAIN a.calls : a.calls[i].id = a.calls[j].id => i = j
      /\ \A i \in DOMAIN a.calls : \A k \in DOMAIN a.calls[i].args :
           a.calls[i].args[k] = "}" => k = Len(a.calls[i].args)

VARIABLES answer,     \* the answer of the service
          left,       \* what of it is not sent yet
          got,        \* textBuilder, reasoningBuilder, toolCallAccum, indexToID
          announced,  \* calls announced by OnFunctionCall, in order
          shown,      \* text shown by OnReplyChunk
          result,     \* the message the caller gets
          odd,        \* history: "mixed" chunk, "late" id, "cut" answer
          callAt      \* "idle", "streaming", "done", "failed"

streamVars == <<answer, left, got, announced, shown, result, odd, callAt>>

-----------------------------------------------------------------------------
NoAnswer == [reasoning |-> <<>>, text |-> <<>>, calls |-> <<>>, audio |-> FALSE]
Nothing == [text |-> <<>>, reasoning |-> <<>>, accum |-> [i \in {} |-> 0], index |-> [i \in {} |-> NoId]]

StreamInit ==
    /\ answer = NoAnswer /\ left = NoAnswer /\ got = Nothing
    /\ announced = <<>> /\ shown = <<>> /\ result = Absent /\ odd = {} /\ callAt = "idle"

(* Block: the calls are announced from the parsed message; an answer with *)
(* nothing in it is an error.                                              *)
Block ==
    /\ callAt = "idle"
    /\ \E a \in Answers :
         /\ answer' = a
         /\ result' = ParseResponse(a)
         /\ callAt' = IF result' = Absent THEN "failed" ELSE "done"
         /\ announced' = [k \in DOMAIN CallsOf(result') |-> CallsOf(result')[k].id]
    /\ UNCHANGED <<left, got, shown, odd>>

StreamOpen ==
    /\ callAt = "idle"
    /\ \E a \in Answers :
         /\ ~a.audio
         /\ answer' = a
         /\ left' = [a EXCEPT !.calls = [k \in DOMAIN a.calls |-> [opened |-> FALSE, id |-> FALSE, args |-> a.calls[k].args]]]
    /\ callAt' = "streaming"
    /\ UNCHANGED <<got, announced, shown, result, odd>>

(* The switch on the chunk's content: a chunk with both is a composite,   *)
(* whose parts nobody takes.  The deltas of tool calls are taken before    *)
(* the switch, so a chunk that holds them too is a ChunkCall and then this.*)
Said(text, reasoning) ==
    IF text # <<>> /\ reasoning # <<>> THEN UNCHANGED <<got, shown>>
    ELSE /\ got' = [got EXCEPT !.text = @ \o text, !.reasoning = @ \o reasoning]
         /\ shown' = shown \o text

ChunkSaid ==
    /\ callAt = "streaming"
    /\ \E t, r \in {0, 1} :
         /\ t + r > 0 /\ t <= Len(left.text) /\ r <= Len(left.reasoning)
         /\ Said(SubSeq(left.text, 1, t), SubSeq(left.reasoning, 1, r))
         /\ left' = [left EXCEPT !.text = SubSeq(@, t + 1, Len(@)), !.reasoning = SubSeq(@, r + 1, Len(@))]
         /\ odd' = odd \cup {"mixed" : x \in {x \in {1} : t + r = 2}}
    /\ UNCHANGED <<answer, announced, result, callAt>>

Put(f, k, v) == [x \in DOMAIN f \cup {k} |-> IF x = k THEN v ELSE f[x]]
Entry(acc, id) == IF id \in DOMAIN acc THEN acc[id] ELSE [name |-> "", args |-> <<>>]

(* The id of a delta: its own, which is remembered for the index, or the  *)
(* one remembered; without either the delta is dropped.                   *)
IdOf_Last(g, k, id) ==
    IF id # NoId THEN id ELSE IF announced # <<>> THEN announced[Len(announced)] ELSE NoId
IdOf(g, k, id) == IF id # NoId THEN id ELSE IF k \in DOMAIN g.index THEN g.index[k] ELSE NoId

(* One tool call delta: index k, an id or NoId, a name or "", fragments.  *)
Delta(k, id, name, frags) ==
    LET key == IdOf(got, k, id)
        e == Entry(got.accum, key)
        named == name # "" /\ e.name = ""
    IN IF key = NoId THEN UNCHANGED <<got, announced>>
       ELSE /\ got' = [got EXCEPT !.index = Put(@, k, key),
                        !.accum = Put(@, key, [name |-> IF named THEN name ELSE e.name, args |-> e.args \o frags])]
            /\ announced' = IF named THEN Append(announced, key) ELSE announced

(* The service opens its next call, with the id or (some services) before *)
(* it, goes on with one that is open, or repeats id and name with it.     *)
ChunkCall ==
    /\ callAt = "streaming"
    /\ \E k \in DOMAIN left.calls, n \in {0, 1}, withId, again \in BOOLEAN :
         LET c == left.calls[k]
             first == ~c.opened
         IN /\ n <= Len(c.args) /\ (n = 1 \/ first \/ ~c.id) /\ (again => withId)
            /\ \A j \in 1..(k - 1) : left.calls[j].opened
            /\ (~first /\ ~c.id) => withId
            /\ Delta(k, IF withId THEN answer.calls[k].id ELSE NoId,
                     IF first \/ (withId /\ again) THEN answer.calls[k].name ELSE "", SubSeq(c.args, 1, n))
            /\ left' = [left EXCEPT !.calls[k] = [opened |-> TRUE, id |-> c.id \/ withId, args |-> SubSeq(@.args, n + 1, Len(@.args))]]
            /\ odd' = odd \cup {"late" : x \in {x \in {1} : first /\ ~withId}}
    /\ UNCHANGED <<answer, shown, result, callAt>>

(* toolCallAccum is a map: the calls come out in any order.               *)
NamedCalls(g) == {id \in DOMAIN g.accum : g.accum[id].name # ""}
Listed(g) == {[k \in DOMAIN s |-> [id |-> s[k], name |-> g.accum[s[k]].name, args |-> ArgsParsed(g.accum[s[k]].args)]]
                : s \in SetToSeqs(NamedCalls(g))}

(* buildStreamContent: text next to tool calls is left out.               *)
BuildStreamContent(g, calls) ==
    LET thought == g.reasoning # <<>>
    IN CASE calls # <<>> /\ thought -> Composite(<<Reasoning(g.reasoning), ToolCalls(calls)>>)
         [] calls # <<>> /\ ~thought -> ToolCalls(calls)
         [] calls = <<>> /\ thought /\ g.text # <<>> -> Composite(<<Reasoning(g.reasoning), Text(g.text)>>)
         [] calls = <<>> /\ thought /\ g.text = <<>> -> Reasoning(g.reasoning)
         [] OTHER -> Text(g.text)

Unsent == left.text # <<>> \/ left.reasoning # <<>> \/ \E k \in DOMAIN left.calls : ~left.calls[k].id \/ left.calls[k].args # <<>>

(* The last chunk: the answer is complete, or stopped at the length limit.*)
StreamEnd ==
    /\ callAt = "streaming"
    /\ \E calls \in Listed(got) : result' = BuildStreamContent(got, calls)
    /\ odd' = odd \cup {"cut" : x \in {x \in {1} : Unsent}}
    /\ callAt' = "done"
    /\ UNCHANGED <<answer, left, got, announced, shown>>

(* The connection fails: what was put together is dropped.                *)
StreamFails ==
    /\ callAt = "streaming"
    /\ callAt' = "failed"
    /\ UNCHANGED <<answer, left, got, announced, shown, result, odd>>

StreamNext == Block \/ StreamOpen \/ ChunkSaid \/ ChunkCall \/ StreamEnd \/ StreamFails

-----------------------------------------------------------------------------
(* Stream (format.go:135) and Block (format.go:65) give the same answer:  *)
(* the same calls with the same arguments and the same reasoning, however  *)
(* the chunks interleave, and the same text when nothing is called.  Only  *)
(* a chunk with text and reasoning, a call that begins without its id, or *)
(* an answer cut short make a difference.                                 *)
StreamSameAsBlock ==
    callAt = "done" /\ odd = {} =>
        LET whole == ParseResponse(answer)
        IN /\ ToSet(CallsOf(result)) = ToSet(CallsOf(whole)) /\ Len(CallsOf(result)) = Len(CallsOf(whole))
           /\ ReasoningIn(result) = ReasoningIn(whole)
           /\ CallsOf(whole) = <<>> => TextIn(result) = TextIn(whole)

(* OnFunctionCall (format.go:177, 111) is given every call the agent will  *)
(* execute, once, and no other, even when a service repeats the name, the *)
(* id comes late or the answer is cut.                                    *)
AnnouncedOnce ==
    /\ IsInjective(announced)
    /\ callAt = "done" => ToSet(announced) = {d.id : d \in ToSet(CallsOf(result))}

(* The arguments a call is executed with are those the service gave it, or *)
(* none: a cut answer never leaves another call's, or half of its own.     *)
(* (With none the tool is still called: format.go:296.)                    *)
ArgsOwnOrNone ==
    callAt = "done" /\ "late" \notin odd =>
        \A d \in ToSet(CallsOf(result)) :
            \E c \in ToSet(answer.calls) : d.id = c.id /\ d.name = c.name /\ d.args \in {ArgsParsed(c.args), NoArgs}

(* A streamed answer is the answer (format.go): what is assembled equals    *)
(* what Block returns, each call is announced once, and its arguments are   *)
(* its own or missing.                                                      *)
StreamWhole == StreamSameAsBlock /\ AnnouncedOnce /\ ArgsOwnOrNone
=============================================================================
