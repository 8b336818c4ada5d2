----------------------------- MODULE MCToolkit -----------------------------
(***************************************************************************)
(* Ten machines of the project, on one small instance each.                *)
(* They share no state: in a behaviour one of them steps and the others    *)
(* stay where they began.                                                  *)
(***************************************************************************)
EXTENDS GraphStore, ChatStream, Conversation, ConfigStore, MediaFlow, ToolBelt, ReplyText, AcpContent, PlanMirror,
        SessionStore

CONSTANTS w1, w2, c1, c2, l1, l2

VARIABLE machine

-----------------------------------------------------------------------------
E(n, t, l) == [name |-> n, type |-> t, labels |-> l]
R(f, t, ty, w) == [from |-> f, to |-> t, type |-> ty, weight |-> w]
MCFold == [s \in {"go", "Go", "ts", "js", "lang", "tool", "Tool"} |-> CASE s = "Go" -> "go" [] s = "Tool" -> "tool" [] OTHER -> s]
MCGraphBatches ==
  {[entities |-> <<E("go", "tool", {"x"}), E("ts", "lang", {})>>,
    rels |-> <<R("go", "ts", "uses", 5), R("ts", "ts", "self", 5), R("ts", "js", "near", 5)>>],
   [entities |-> <<E("Go", "Tool", {"y"}), E("js", "lang", {})>>,
    rels |-> <<R("js", "Go", "uses", 5), R("go", "ts", "uses", 9)>>]}

ToolUse(i, n, args) == [id |-> i, name |-> n, args |-> args]
Answer(r, t, cs) == [reasoning |-> r, text |-> t, calls |-> cs, audio |-> FALSE]
Spoken == [Answer(<<>>, <<>>, <<>>) EXCEPT !.audio = TRUE]
MCAnswers ==
  {Answer(<<"r">>, <<"t", "u">>, <<>>), Answer(<<>>, <<>>, <<>>), Spoken,
   Answer(<<"r">>, <<"t">>, <<ToolUse("c1", "read", <<"{", "a", "}">>), ToolUse("c2", "read", <<"{", "b", "}">>)>>),
   Answer(<<>>, <<"t">>, <<ToolUse("c1", "read", <<>>), ToolUse("c2", "read", <<"{", "}">>)>>)}

MCInputs == {Text(<<"u">>), Composite(<<Text(<<"u">>), Media("image")>>), Composite(<<Text(<<"u">>), Media("pdf")>>)}

ConfigEdit(f, v) == [field |-> f, to |-> v]
MCEdits == {ConfigEdit("model", ""), ConfigEdit("limit", "0"), ConfigEdit("effort", "low"),
            ConfigEdit("image_model", "i"), ConfigEdit("image_model", "")}
MCHandFiles ==
  {[flat |-> "provider" :> "mine" @@ "model" :> "h", nested |-> NoKeys],
   [flat |-> "model" :> "flat" @@ "mode" :> "fast" @@ "stream" :> "no" @@ "dream" :> "yes" @@ "interval" :> "60" @@ "image_provider" :> "mine",
    nested |-> "model" :> "nested" @@ "limit" :> "7" @@ "mode" :> "auto" @@ "effort" :> "none"]}

MCModelConfigs ==
  {[of |-> [image |-> i, audio |-> a], auto |-> b] : <<i, a, b>> \in
     {<<"none", "none", TRUE>>, <<"live", "none", TRUE>>, <<"live", "live", FALSE>>, <<"dead", "live", TRUE>>}}
Attached(t, k) == [type |-> t, kind |-> k, huge |-> FALSE]
MCAttachments ==
  {<<Attached("image", "png"), Attached("audio", "m4a")>>, <<Attached("audio", "webm audio"), Attached("audio", "webm")>>,
   <<[Attached("image", "gif") EXCEPT !.huge = TRUE], Attached("video", "mp4")>>, <<Attached("image", "mov"), Attached("image", "text")>>,
   <<Attached("image", "gif"), Attached("image", "png")>>, <<Attached("audio", "mp3"), Attached("audio", "wav")>>,
   <<Attached("image", "png"), Attached("audio", "mp3")>>}

MCServerTools == ("a" :> {"mcp_a_x", "mcp_a_b_y"}) @@ ("a_b" :> {"mcp_a_b_y"})
MCUsers == {[who |-> "u1", name |-> "mcp_a_x"], [who |-> "u1", name |-> "skill_use"]}
MCStateTools == ("intent" :> {"set_work_mode"})
                  @@ ("direct" :> {"shell_exec", "memory_store", "memory_extract", "context_compress", "skill_use"})

StringsIn == {<<"q">> \o b \o <<"q">> : b \in {<<>>, <<"{">>, <<"}">>, <<"]">>, <<"b", "q">>, <<"b", "b">>, <<"b", "q", "}">>}}
Wrap(inner) == {<<o>> \o v \o <<Closing(o)>> : o \in Opening, v \in inner}
OneDeep == Wrap(StringsIn \cup {<<>>, <<"x">>})
MCValues == Wrap({<<>>, <<"x">>} \cup StringsIn \cup OneDeep \cup {s \o v : s \in StringsIn, v \in OneDeep})
MCBefore == {<<>>, <<"x">>, <<"q", "x">>, <<"[", "x", "]">>, <<"{">>}
MCAfter == {<<>>, <<"}">>, <<"{">>, <<"q">>}

MCPrompts ==
  {<<BlockOf("text", "hi")>>, <<BlockOf("text", "see"), BlockOf("image", "video/mp4")>>,
   <<BlockOf("resource_link", "f"), BlockOf("text", "read")>>, <<BlockOf("resource", "code"), BlockOf("image", "image/png")>>,
   <<BlockOf("image", "audio/wav")>>, <<BlockOf("image", "application/pdf")>>, <<BlockOf("image", "x")>>}
MCReplies ==
  {Answer(<<"r">>, <<"t">>, <<>>), Answer(<<>>, <<"u">>, <<>>), Spoken,
   Answer(<<"r">>, <<"t">>, <<ToolUse("c1", "read", <<"{", "}">>), ToolUse("c2", "read", <<"{", "}">>)>>),
   Answer(<<>>, <<>>, <<ToolUse("c3", "read", <<>>)>>)}

-----------------------------------------------------------------------------
Machines == {"graph", "stream", "conversation", "config", "media", "belt", "reply", "acp", "mirror", "session"}

MCInit ==
    /\ machine \in Machines
    /\ GraphInit /\ StreamInit /\ ConvInit /\ ConfigInit /\ MediaInit /\ BeltInit /\ ReplyInit /\ AcpInit /\ MirrorInit
    /\ SessionInit

Rests(m, vars) == machine # m /\ UNCHANGED vars

MCNext ==
    /\ UNCHANGED machine
    /\ (machine = "graph" /\ GraphNext) \/ Rests("graph", graphVars)
    /\ (machine = "stream" /\ StreamNext) \/ Rests("stream", streamVars)
    /\ (machine = "conversation" /\ ConvNext) \/ Rests("conversation", convVars)
    /\ (machine = "config" /\ ConfigNext) \/ Rests("config", configVars)
    /\ (machine = "media" /\ MediaNext) \/ Rests("media", mediaVars)
    /\ (machine = "belt" /\ BeltNext) \/ Rests("belt", beltVars)
    /\ (machine = "reply" /\ ReplyNext) \/ Rests("reply", replyVars)
    /\ (machine = "acp" /\ AcpNext) \/ Rests("acp", acpVars)
    /\ (machine = "mirror" /\ MirrorNext) \/ Rests("mirror", mirrorVars)
    /\ (machine = "session" /\ SessionNext) \/ Rests("session", sessionVars)
============================================================================
