----------------------------- MODULE ReplyText -----------------------------
(***************************************************************************)
(* The single-shot caller (llm/caller.go): how the text of a reply is      *)
(* decoded.  The reviewer, the extractor of memories, the dreamer and the  *)
(* judge of conflicts all read models' answers through it.  A reply has    *)
(* reasoning, some words, a JSON value and some more words; it may be cut. *)
(* Text is a sequence of tokens: brackets, "q" a quotation mark, "b" a     *)
(* backslash, "y" the word yes, "x" anything else.                         *)
(***************************************************************************)
EXTENDS ChatContent, Integers, TLC

CONSTANTS Values,      \* the JSON values a model gives
          Before,    \* its words before the value
          After     \* and after it

VARIABLES reply,     \* the content of the answer
          given,     \* the value it was to hold, and how much of it arrived
          decoded    \* the caller's result

replyVars == <<reply, given, decoded>>

Opening == {"{", "["}
Closing(c) == IF c = "{" THEN "}" ELSE "]"

(* One byte of matchDelim: it counts one kind of bracket outside strings.  *)
ScanByte_NoEscape(s, c, open) ==
    CASE s.end -> s
      [] ~s.end /\ c = "q" -> [s EXCEPT !.at = @ + 1, !.str = ~@]
      [] OTHER -> [s EXCEPT !.at = @ + 1, !.depth = @ + (IF s.str THEN 0 ELSE IF c = open THEN 1 ELSE IF c = Closing(open) THEN -1 ELSE 0),
                            !.end = ~s.str /\ s.depth = 1 /\ c = Closing(open)]
ScanByte(s, c, open) ==
    CASE s.end -> s
      [] ~s.end /\ s.esc -> [s EXCEPT !.at = @ + 1, !.esc = FALSE]
      [] ~s.end /\ ~s.esc /\ s.str -> [s EXCEPT !.at = @ + 1, !.esc = c = "b", !.str = c # "q"]
      [] OTHER -> [s EXCEPT !.at = @ + 1, !.str = c = "q", !.end = s.depth = 1 /\ c = Closing(open),
                            !.depth = @ + (IF c = open THEN 1 ELSE IF c = Closing(open) THEN -1 ELSE 0)]

(* matchDelim after each byte, from the bracket at i on. *)
ScanStart(i) == [at |-> i - 1, depth |-> 0, str |-> FALSE, esc |-> FALSE, end |-> FALSE]
Scan(text, i) ==
    LET s[n \in (i - 1)..Len(text)] == IF n = i - 1 THEN ScanStart(i) ELSE ScanByte(s[n - 1], text[n], text[i])
    IN s

(* The index of the bracket that closes the one at i, or 0. *)
MatchDelim(text, i) ==
    LET s == Scan(text, i)[Len(text)]
    IN IF s.end THEN s.at ELSE 0

(* The first bracket that is closed begins the value. *)
ExtractJSON(text) ==
    LET starts == {i \in DOMAIN text : text[i] \in Opening /\ MatchDelim(text, i) # 0}
        first == CHOOSE i \in starts : \A j \in starts : i <= j
    IN IF starts = {} THEN <<>> ELSE SubSeq(text, first, MatchDelim(text, first))

(* json.Unmarshal: every bracket is closed by its own, every string ends.  *)
NestByte(s, c) ==
    CASE s.esc -> [s EXCEPT !.esc = FALSE]
      [] ~s.esc /\ s.str -> [s EXCEPT !.esc = c = "b", !.str = c # "q"]
      [] ~s.esc /\ ~s.str /\ c \in Opening -> [s EXCEPT !.stack = Append(@, c)]
      [] ~s.esc /\ ~s.str /\ c \in {"}", "]"} ->
           IF s.stack # <<>> /\ Closing(Last(s.stack)) = c THEN [s EXCEPT !.stack = Front(@)] ELSE [s EXCEPT !.ok = FALSE]
      [] OTHER -> [s EXCEPT !.str = c = "q"]
NestStart == [stack |-> <<>>, str |-> FALSE, esc |-> FALSE, ok |-> TRUE]
Nested(raw) ==
    LET s[n \in 0..Len(raw)] == IF n = 0 THEN NestStart ELSE NestByte(s[n - 1], raw[n])
    IN s
WellFormed(raw) ==
    LET s == Nested(raw)[Len(raw)]
    IN s.ok /\ s.stack = <<>> /\ ~s.str

(* The values are JSON objects and arrays: well-formed, and over only where*)
(* they end.  The words around one are any.                                *)
IsValue(v) ==
    /\ v \in Seq(STRING) /\ v # <<>> /\ v[1] \in Opening /\ WellFormed(v)
    /\ \A n \in 1..(Len(v) - 1) : Nested(v)[n].stack # <<>>
ASSUME ReplyAssumption ==
    /\ \A v \in Values : IsValue(v)
    /\ Before \cup After \subseteq Seq(STRING)

Failed == [ok |-> FALSE, value |-> <<>>]
Ok(v) == [ok |-> TRUE, value |-> v]

(* The target is a struct or a slice: JSON of the other kind is an error.  *)
DecodedJSON(text, kind) ==
    LET raw == ExtractJSON(text)
    IN IF raw # <<>> /\ WellFormed(raw) /\ raw[1] = kind THEN Ok(raw) ELSE Failed

(* Any text that holds the word is a yes. *)
IsYes(text) == \E k \in DOMAIN text : text[k] = "y"

(* The arguments of the first call of that tool.                          *)
ToolArgs(content, name) ==
    LET details == CallsOf(content)
        named == {k \in DOMAIN details : details[k].name = name}
        first == CHOOSE k \in named : \A j \in named : k <= j
    IN IF named = {} THEN Failed ELSE Ok(details[first].args)

NothingGiven == [prefix |-> <<>>, value |-> <<>>, arrived |-> 0, calls |-> <<>>]

ReplyInit == reply = Absent /\ given = NothingGiven /\ decoded = [mode |-> "none", result |-> Failed]

(* The answer: reasoning may come first, and it may hold brackets too.     *)
AnswerWith(thought, text, cs) ==
    LET parts == (IF thought = <<>> THEN <<>> ELSE <<Reasoning(thought)>>)
                   \o (IF text = <<>> THEN <<>> ELSE <<Text(text)>>) \o (IF cs = <<>> THEN <<>> ELSE <<ToolCalls(cs)>>)
    IN CASE Len(parts) = 0 -> Absent
         [] Len(parts) = 1 -> parts[1]
         [] OTHER -> Composite(parts)

CallJSON ==
    /\ decoded.mode = "none"
    /\ \E p \in Before, v \in Values, s \in After, thought \in {<<>>, <<"{", "x">>} :
         \E n \in 0..Len(v) :
             LET text == p \o SubSeq(v, 1, n) \o (IF n = Len(v) THEN s ELSE <<>>)
             IN /\ given' = [NothingGiven EXCEPT !.prefix = p, !.value = v, !.arrived = n]
                /\ reply' = AnswerWith(thought, text, <<>>)
                /\ decoded' = [mode |-> "json", result |-> DecodedJSON(TextIn(reply'), v[1])]

CallText ==
    /\ decoded.mode = "none"
    /\ \E text \in Before \cup {<<"x", "y">>, <<"y">>}, thought \in {<<>>, <<"y">>} :
         /\ reply' = AnswerWith(thought, text, <<>>)
         /\ given' = [NothingGiven EXCEPT !.prefix = text]
         /\ decoded' \in {[mode |-> "text", result |-> Ok(TextIn(reply'))],
                          [mode |-> "bool", result |-> IF IsYes(TextIn(reply')) THEN Ok(<<"y">>) ELSE Ok(<<>>)]}

(* The judge's tool next to others the model made up, in either order.     *)
CallTool ==
    /\ decoded.mode = "none"
    /\ \E names \in UNION {[1..n -> {"resolve", "other"}] : n \in 0..2}, text \in {<<>>, <<"x">>} :
         LET cs == [k \in DOMAIN names |-> [id |-> ToString(k), name |-> names[k], args |-> <<"{", ToString(k), "}">>]]
         IN /\ reply' = AnswerWith(<<>>, text, cs)
            /\ given' = [NothingGiven EXCEPT !.calls = cs]
            /\ decoded' = [mode |-> "tool", result |-> ToolArgs(reply', "resolve")]

(* The provider fails. *)
CallFails ==
    /\ decoded.mode = "none"
    /\ decoded' = [mode |-> "failed", result |-> Failed]
    /\ UNCHANGED <<reply, given>>

ReplyNext == CallJSON \/ CallText \/ CallTool \/ CallFails

-----------------------------------------------------------------------------
Whole == given.arrived = Len(given.value)

(* A bracket of the words before the value is closed, in them or after, and *)
(* a piece of the text that begins at one of the value's kind.             *)
Misled == \E i \in DOMAIN given.prefix : given.prefix[i] \in Opening /\ MatchDelim(TextIn(reply), i) # 0
FromTheWords(piece) ==
    \E i \in DOMAIN given.prefix : \E j \in i..Len(TextIn(reply)) :
        piece = SubSeq(TextIn(reply), i, j) /\ given.prefix[i] = given.value[1]

(* extractJSON (caller.go:185): a value that arrived whole is returned     *)
(* exactly, whatever brackets and quotation marks its strings hold and     *)
(* whatever follows it; the model's reasoning (which extractText leaves    *)
(* out) does not matter, nor do words before it, unless a bracket of them   *)
(* is closed ("the list [1]: ..."): then there is an error, or the value is *)
(* missed for what begins in the words.  A value cut short (a length limit) *)
(* gives an error or something of the kind asked for that begins further in:*)
(* a value nested in it, or one that a string of it holds.                  *)
ValueFound ==
    decoded.mode = "json" =>
        IF Misled THEN decoded.result.ok => FromTheWords(decoded.result.value)
        ELSE IF Whole THEN decoded.result = Ok(given.value)
        ELSE decoded.result.ok =>
               \E i \in 2..given.arrived : \E j \in i..given.arrived :
                  decoded.result.value = SubSeq(given.value, i, j) /\ given.value[i] = given.value[1]

(* The arguments handed on are of a call of the tool that was asked for    *)
(* (toolArgs, caller.go:235), and an answer without one is an error.       *)
OnlyTheToolAsked ==
    decoded.mode = "tool" =>
        IF decoded.result.ok THEN \E c \in ToSet(given.calls) : c.name = "resolve" /\ c.args = decoded.result.value
        ELSE \A c \in ToSet(given.calls) : c.name # "resolve"

(* A reply is decoded to what the model meant, or to an error (caller.go).  *)
ReplyDecoded == ValueFound /\ OnlyTheToolAsked
=============================================================================
