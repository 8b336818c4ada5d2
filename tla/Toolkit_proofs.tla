--------------------------- MODULE Toolkit_proofs ---------------------------
(***************************************************************************)
(* Theorems about what an agent is given and a user is shown: the media of  *)
(* a turn and the files they are kept in (MediaFlow), the tools of the loops*)
(* and the MCP servers they come from (ToolBelt), the configuration         *)
(* (ConfigStore) and the plan in the web UI (PlanMirror), for any number of *)
(* users, loops, servers, settings pages, plans and tasks.                  *)
(***************************************************************************)
EXTENDS MediaFlow, ToolBelt, ConfigStore, PlanMirror, TLAPS

-----------------------------------------------------------------------------
(* Media. *)

Mimes == [class : {"image", "audio", "video", "application"},
          form : {"png", "jpeg", "gif", "webp", "mpeg", "wav", "wave", "mp4", "webm", "quicktime", "octet-stream"}]

(* What a page sent, as handleChat passes it on. *)
Queued == [type : {"image", "audio"}, kind : Kinds, huge : BOOLEAN]
(* What Normalize lets through. *)
Accepted ==
  {d \in [type : {"image", "audio"}, mime : Mimes, kind : Kinds] :
     d.mime.class = d.type /\ d.mime.form \in MIMEWhitelist[d.type]}
Recorded == [mime : Mimes, words : {"metadata", "words"}]

(* The history of the turn shows exactly what was accepted. *)
MediaShown ==
  /\ Len(recorded) = Len(accepted)
  /\ \A k \in 1 .. Len(accepted) :
       /\ recorded[k].mime = accepted[k].mime
       /\ recorded[k].words = "words" => accepted[k].type \in Describers

(* Every file of an ID that has the name of what was kept last is that. *)
KeptAs(k, d) ==
  /\ d.mime \in Mimes /\ d.mime.class \in {"image", "audio"}
  /\ d.mime.form \in MIMEWhitelist[d.mime.class]
  /\ <<k[1], k[2], MimeToExt(d.mime)>> \in DOMAIN files
       => files[<<k[1], k[2], MimeToExt(d.mime)>>] = d.kind

(* What was restored is what the file says, since nothing happened since. *)
RestoredFrom(s, id) ==
  /\ restored.at = <<s, id>>
  /\ Extensions(s, id) # {}
  /\ restored.mime = ExtToMIME(Match(s, id))
  /\ restored.kind = files[<<s, id, Match(s, id)>>]

(* The turn: what is left to look at, what was taken, what was recorded. *)
TurnInv ==
  /\ turnAt \in {"idle", "normalising", "running", "refused"}
  /\ queue \in Seq(Queued)
  /\ accepted \in Seq(Accepted)
  /\ recorded \in Seq(Recorded)
  /\ turnAt = "running" => Homogeneous(accepted)
  /\ MediaShown

(* The files, apart from the turn. *)
FilesInv ==
  /\ DOMAIN lastKept \subseteq MediaSessions \X MediaIds
  /\ \A k \in DOMAIN lastKept : KeptAs(k, lastKept[k])
  /\ restored = NoDetail \/ \E s \in MediaSessions, id \in MediaIds : RestoredFrom(s, id)

MediaInv == TurnInv /\ FilesInv

(* What is kept as an image or as audio comes back as such, but for audio *)
(* in a container that video has, too.                                    *)
LEMMA BackFromExtension ==
  ASSUME NEW m \in Mimes, m.class \in {"image", "audio"}, m.form \in MIMEWhitelist[m.class]
  PROVE  /\ MimeToExt(m) \in DOMAIN Place
         /\ \/ ExtToMIME(MimeToExt(m)) = m
            \/ m.class = "audio" /\ ExtToMIME(MimeToExt(m)) = [m EXCEPT !.class = "video"]
<1>1. /\ m.class = "image" \/ m.class = "audio"
      /\ m = [class |-> m.class, form |-> m.form]
  BY DEF Mimes
<1>2. CASE m.class = "image"
  <2>1. m.form \in {"png", "jpeg", "gif", "webp"}
    BY <1>2 DEF MIMEWhitelist
  <2>2. MimeToExt(m) = m.form
    BY <2>1, <1>2 DEF MimeToExt, MIMEWhitelist
  <2>3. ExtToMIME(m.form) = m
    BY <2>1, <1>1, <1>2 DEF ExtToMIME, Mime
  <2> QED BY <2>1, <2>2, <2>3 DEF Place
<1>3. CASE m.class = "audio"
  <2>1. m.form \in {"mpeg", "wav", "mp4", "webm"}
    BY <1>3 DEF MIMEWhitelist
  <2>2. MimeToExt(m) = IF m.form = "mpeg" THEN "mp3" ELSE m.form
    BY <2>1, <1>3 DEF MimeToExt, MIMEWhitelist
  <2>3. [m EXCEPT !.class = "video"] = [class |-> "video", form |-> m.form]
    BY <1>1
  <2>4. IF m.form \in {"mpeg", "wav"} THEN ExtToMIME(MimeToExt(m)) = m
        ELSE ExtToMIME(MimeToExt(m)) = [class |-> "video", form |-> m.form]
    BY <2>1, <2>2, <1>1, <1>3 DEF ExtToMIME, Mime
  <2> QED BY <2>1, <2>2, <2>3, <2>4, <1>3 DEF Place
<1> QED BY <1>1, <1>2, <1>3

(* MediaInv is what the properties need. *)
LEMMA MediaInvSuffices == MediaInv => MediaRight
<1> SUFFICES ASSUME MediaInv PROVE MediaRight OBVIOUS
<1>1. ModelMatchesMedia
  BY DEF MediaInv, TurnInv, FilesInv, ModelMatchesMedia, ModelFor, Homogeneous, Accepted
<1>2. HistoryShowsMedia
  BY DEF MediaInv, TurnInv, FilesInv, HistoryShowsMedia, MediaShown
<1>3. MediaComesBack
  <2> SUFFICES ASSUME NEW k \in DOMAIN lastKept, restored.at = k,
                      Extensions(k[1], k[2]) = {MimeToExt(lastKept[k].mime)}
               PROVE  /\ restored.kind = lastKept[k].kind
                      /\ \/ restored.mime = lastKept[k].mime
                         \/ lastKept[k].mime.class = "audio"
                            /\ restored.mime = [lastKept[k].mime EXCEPT !.class = "video"]
    BY DEF MediaComesBack
  <2> DEFINE ext == MimeToExt(lastKept[k].mime)
  <2>1. /\ k \in MediaSessions \X MediaIds
        /\ KeptAs(k, lastKept[k])
    BY DEF MediaInv, TurnInv, FilesInv
  <2>2. restored # NoDetail
    <3>1. k = <<k[1], k[2]>>
      BY <2>1
    <3>2. k # << >>
      BY <3>1
    <3>3. NoDetail.at = << >>
      BY DEF NoDetail
    <3> QED BY <3>2, <3>3
  <2>3. PICK s \in MediaSessions, id \in MediaIds : RestoredFrom(s, id)
    BY <2>2 DEF MediaInv, TurnInv, FilesInv
  <2>4. s = k[1] /\ id = k[2]
    BY <2>1, <2>3 DEF RestoredFrom
  <2>5. Match(s, id) = ext
    BY <2>4 DEF Match
  <2>6. <<s, id, ext>> \in DOMAIN files
    BY <2>4 DEF Extensions
  <2>7. restored.kind = lastKept[k].kind
    BY <2>1, <2>3, <2>4, <2>5, <2>6 DEF RestoredFrom, KeptAs
  <2>8. restored.mime = ExtToMIME(ext)
    BY <2>3, <2>5 DEF RestoredFrom
  <2> QED BY <2>1, <2>7, <2>8, BackFromExtension DEF KeptAs
<1> QED BY <1>1, <1>2, <1>3 DEF MediaRight

(* MediaInv holds at the start. *)
LEMMA MediaStarts == MediaInit => MediaInv
  BY DEF MediaInit, MediaInv, TurnInv, FilesInv, MediaShown, NoFiles

(* A step that leaves files alone, and one that leaves the turn alone. *)
LEMMA FilesApart ==
  ASSUME FilesInv, UNCHANGED <<files, restored, lastKept>> PROVE FilesInv'
  BY DEF FilesInv, KeptAs, RestoredFrom, Extensions, Match
(* What touches only the files leaves the turn as it was. *)
LEMMA TurnApart ==
  ASSUME TurnInv, UNCHANGED <<turnAt, models, queue, accepted, recorded>> PROVE TurnInv'
  BY DEF TurnInv, MediaShown, Homogeneous, Describers

(* A page sends attachments. *)
LEMMA SendKeepsMedia ==
  ASSUME MediaInv, Send PROVE MediaInv'
<1>1. PICK atts \in Attachments :
        queue' = [k \in DOMAIN atts |-> [atts[k] EXCEPT !.type = IF @ = "audio" THEN "audio" ELSE "image"]]
  BY DEF Send
<1>2. atts \in Seq(Attachment)
  BY MediaAssumption
<1>3. queue' \in Seq(Queued)
  <2>1. Len(atts) \in Nat
    BY <1>2
  <2>0. DOMAIN atts = 1 .. Len(atts)
    BY <1>2
  <2>2. ASSUME NEW k \in 1 .. Len(atts)
        PROVE  [atts[k] EXCEPT !.type = IF @ = "audio" THEN "audio" ELSE "image"]
                 \in Queued
    <3>1. PICK a \in Attachment : a = atts[k]
      BY <1>2
    <3>2. /\ a = [type |-> a.type, kind |-> a.kind, huge |-> a.huge]
          /\ a.kind \in Kinds /\ a.huge \in BOOLEAN
      BY DEF Attachment
    <3>3. [a EXCEPT !.type = IF @ = "audio" THEN "audio" ELSE "image"]
            = [type |-> IF a.type = "audio" THEN "audio" ELSE "image", kind |-> a.kind, huge |-> a.huge]
      BY <3>2
    <3> QED BY <3>1, <3>2, <3>3 DEF Queued
  <2> QED BY <1>1, <2>1, <2>0, <2>2
<1>4. TurnInv'
  BY <1>3 DEF Send, TurnInv, MediaShown
<1> QED BY <1>4, FilesApart DEF Send, MediaInv

(* Normalize, and what is recorded of what it accepts. *)
LEMMA AttachKeepsMedia ==
  ASSUME MediaInv, Attach PROVE MediaInv'
<1> DEFINE a == Head(queue)
           mime == DetectMediaType(a.kind)
           d == [type |-> a.type, mime |-> mime, kind |-> a.kind]
<1>1. /\ a \in Queued
      /\ queue' \in Seq(Queued)
  BY DEF Attach, MediaInv, TurnInv
<1>2. CASE ~Normal(a)
  <2>1. UNCHANGED <<accepted, recorded, turnAt>>
    BY <1>2 DEF Attach
  <2>2. TurnInv'
    BY <1>1, <2>1 DEF Attach, MediaInv, TurnInv, MediaShown, Homogeneous, Describers
  <2> QED BY <2>2, FilesApart DEF Attach, MediaInv
<1>3. CASE Normal(a)
  <2>1. mime \in Mimes
    BY <1>1 DEF DetectMediaType, DetectContentType, Mime, Mimes, Kinds
  <2>2. d \in Accepted
    BY <1>1, <1>3, <2>1 DEF Normal, Accepted, Queued
  <2>3. PICK w \in Describe(a.type) :
          /\ accepted' = Append(accepted, d)
          /\ recorded' = Append(recorded, [mime |-> mime, words |-> w])
    BY <1>3 DEF Attach
  <2>4. w \in {"metadata", "words"} /\ (w = "words" => a.type \in Describers)
    BY <2>3 DEF Describe
  <2>5. [mime |-> mime, words |-> w] \in Recorded
    BY <2>1, <2>4 DEF Recorded
  <2>6. turnAt' = "normalising"
    BY DEF Attach
  <2>7. accepted' \in Seq(Accepted) /\ recorded' \in Seq(Recorded)
    BY <2>2, <2>3, <2>5 DEF MediaInv, TurnInv
  <2>8. MediaShown'
    <3>1. Describers' = Describers
      BY DEF Attach, Describers
    <3> QED BY <2>2, <2>3, <2>4, <2>5, <3>1 DEF MediaShown, MediaInv, TurnInv
  <2>9. TurnInv'
    BY <1>1, <2>6, <2>7, <2>8 DEF TurnInv
  <2> QED BY <2>9, FilesApart DEF Attach, MediaInv
<1> QED BY <1>2, <1>3

(* Validate. *)
LEMMA RunTurnKeepsMedia ==
  ASSUME MediaInv, RunTurn PROVE MediaInv'
<1>1. TurnInv'
  BY DEF RunTurn, MediaInv, TurnInv, MediaShown, Homogeneous, Describers
<1> QED BY <1>1, FilesApart DEF RunTurn, MediaInv

(* Base64ToFile: only the file of that name changes. *)
LEMMA KeepKeepsMedia ==
  ASSUME MediaInv, NEW s \in MediaSessions, NEW id \in MediaIds, Keep(s, id) PROVE MediaInv'
<1>1. PICK d \in ToSet(accepted) :
        /\ files' = Put1(files, <<s, id, MimeToExt(d.mime)>>, d.kind)
        /\ lastKept' = Put1(lastKept, <<s, id>>, [at |-> <<s, id>>, mime |-> d.mime, kind |-> d.kind])
        /\ restored' = NoDetail
  BY DEF Keep
<1>2. d \in Accepted
  BY DEF ToSet, MediaInv, TurnInv
<1> DEFINE f == <<s, id, MimeToExt(d.mime)>>
<1>3. ASSUME NEW k \in DOMAIN lastKept'
      PROVE  k \in MediaSessions \X MediaIds /\ KeptAs(k, lastKept[k])'
  <2>1. CASE k = <<s, id>>
    <3>1. lastKept'[k] = [at |-> <<s, id>>, mime |-> d.mime, kind |-> d.kind]
      BY <1>1, <2>1 DEF Put1
    <3>2. files'[f] = d.kind
      BY <1>1 DEF Put1
    <3> QED BY <1>2, <2>1, <3>1, <3>2 DEF KeptAs, Accepted
  <2>2. CASE k # <<s, id>>
    <3>1. k \in DOMAIN lastKept /\ lastKept'[k] = lastKept[k]
      BY <1>1, <2>2 DEF Put1
    <3>2. k \in MediaSessions \X MediaIds /\ KeptAs(k, lastKept[k])
      BY <3>1 DEF MediaInv, FilesInv
    <3> DEFINE g == <<k[1], k[2], MimeToExt(lastKept[k].mime)>>
    <3>3. g # f
      BY <2>2, <3>2
    <3>4. /\ g \in DOMAIN files' => g \in DOMAIN files
          /\ g \in DOMAIN files' => files'[g] = files[g]
      BY <1>1, <3>3 DEF Put1
    <3> QED BY <3>1, <3>2, <3>4 DEF KeptAs
  <2> QED BY <2>1, <2>2
<1>4. FilesInv'
  BY <1>1, <1>3 DEF FilesInv
<1> QED BY <1>4, TurnApart DEF Keep, MediaInv

(* FileToBase64 *)
LEMMA RestoreKeepsMedia ==
  ASSUME MediaInv, NEW s \in MediaSessions, NEW id \in MediaIds, RestoreMedia(s, id) PROVE MediaInv'
<1>1. RestoredFrom(s, id)'
  BY DEF RestoreMedia, RestoredFrom, Extensions, Match
<1>2. FilesInv'
  BY <1>1 DEF RestoreMedia, MediaInv, FilesInv, KeptAs
<1> QED BY <1>2, TurnApart DEF RestoreMedia, MediaInv

(* Removing files changes no other. *)
LEMMA RemovalKeepsFiles ==
  ASSUME FilesInv, NEW xs, files' = Without(files, xs), restored' = NoDetail,
         \A k \in DOMAIN lastKept' : k \in DOMAIN lastKept /\ lastKept'[k] = lastKept[k]
  PROVE  FilesInv'
<1>1. ASSUME NEW k \in DOMAIN lastKept'
      PROVE  k \in MediaSessions \X MediaIds /\ KeptAs(k, lastKept[k])'
  <2>1. k \in DOMAIN lastKept /\ lastKept'[k] = lastKept[k]
    OBVIOUS
  <2>2. k \in MediaSessions \X MediaIds /\ KeptAs(k, lastKept[k])
    BY <2>1 DEF FilesInv
  <2> DEFINE g == <<k[1], k[2], MimeToExt(lastKept[k].mime)>>
  <2>3. g \in DOMAIN files' => g \in DOMAIN files /\ files'[g] = files[g]
    BY DEF Without
  <2> QED BY <2>1, <2>2, <2>3 DEF KeptAs
<1> QED BY <1>1 DEF FilesInv

(* Remove, PruneSession *)
LEMMA RemoveKeepsMedia ==
  ASSUME MediaInv, NEW s \in MediaSessions, NEW id \in MediaIds, RemoveMedia(s, id) PROVE MediaInv'
<1>1. FilesInv'
  BY RemovalKeepsFiles DEF RemoveMedia, MediaInv
<1> QED BY <1>1, TurnApart DEF RemoveMedia, MediaInv

(* PruneSession takes all files of a session. *)
LEMMA PruneKeepsMedia ==
  ASSUME MediaInv, NEW s \in MediaSessions, PruneSession(s) PROVE MediaInv'
<1>1. \A k \in DOMAIN lastKept' : k \in DOMAIN lastKept /\ lastKept'[k] = lastKept[k]
  BY DEF PruneSession, Without
<1>2. FilesInv'
  BY <1>1, RemovalKeepsFiles DEF PruneSession, MediaInv
<1> QED BY <1>2, TurnApart DEF PruneSession, MediaInv

(* A step of nobody. *)
LEMMA MediaStutters == ASSUME MediaInv, UNCHANGED mediaVars PROVE MediaInv'
  BY FilesApart, TurnApart DEF mediaVars, MediaInv

(* For any attachments, models, files and IDs: one model is right for all   *)
(* the media of a run, by their bytes; the history shows each of them; and  *)
(* a kept file that is alone under its ID comes back as it was (chat.go,    *)
(* agent_loop.go:229, media.go, media_converter.go).                        *)
THEOREM MediaStayRight == MediaInit /\ [][MediaNext]_mediaVars => []MediaRight
<1>1. MediaInv /\ [MediaNext]_mediaVars => MediaInv'
  BY SendKeepsMedia, AttachKeepsMedia, RunTurnKeepsMedia, KeepKeepsMedia, RestoreKeepsMedia,
     RemoveKeepsMedia, PruneKeepsMedia, MediaStutters DEF MediaNext
<1> QED BY MediaStarts, <1>1, MediaInvSuffices, PTL

-----------------------------------------------------------------------------
(* Tools. *)

(* After which instruction of its script a loop has registered a name, put  *)
(* its instance into the global variable, and marked the name.             *)
BuiltAt == [memory_store |-> 2, memory_extract |-> 3, context_compress |-> 6, skill_use |-> 8]
ReferredAt == [memory_extract |-> 1, context_compress |-> 5]
MarkedAt == [memory_store |-> 4, memory_extract |-> 4, context_compress |-> 7, skill_use |-> 9]
Built(l, n) == loop[l].pc > BuiltAt[n]
Referred(l, n) == loop[l].pc > ReferredAt[n]
Marked(l, n) == loop[l].pc > MarkedAt[n]

LoopShape ==
  /\ loop = [l \in Loops |-> [pc |-> loop[l].pc, state |-> loop[l].state, cache |-> loop[l].cache]]
  /\ \A l \in Loops : loop[l].pc \in 0 .. 11
McpShape ==
  /\ mcp = [once |-> mcp.once, by |-> mcp.by, left |-> mcp.left, reg |-> mcp.reg, open |-> mcp.open, mgr |-> mcp.mgr]
  /\ mcp.once \in {"new", "busy", "done"}
ToolsShape ==
  /\ tools = [n \in DOMAIN tools |-> tools[n]]
  /\ registered = [n \in Bindable |-> registered[n]]
  /\ boundTo = [n \in Bindable |-> [l \in Loops |-> boundTo[n][l]]]
HistoryShape ==
  overtaken = [memory |-> overtaken["memory"], bindings |-> overtaken["bindings"]]
Shapes == LoopShape /\ McpShape /\ ToolsShape /\ HistoryShape

(* What constructions do to the registry, one or several. *)
Names ==
  \A l \in Loops, n \in LoopNames :
    /\ Built(l, n) => /\ n \in DOMAIN tools
                      /\ \E k \in Loops : tools[n] = LoopTool(k)
    /\ Marked(l, n) => n \in internalNames
Runs ==
  /\ "shell_exec" \in internalNames
  /\ \A l \in Loops : loop[l].state # "none" =>
       /\ Ready(l)
       /\ loop[l].cache \cap (LoopNames \cup {"shell_exec"}) \subseteq StateTools[loop[l].state]

(* Without overlapping constructions: the one that goes on, *)
Alone ==
  \A l \in Loops : Constructing(l) =>
    /\ \A k \in Loops : Constructing(k) => k = l
    /\ \A n \in LoopNames : Built(l, n) => tools[n] = LoopTool(l)
    /\ \A n \in Bindable : Referred(l, n) => registered[n] = LoopTool(l)
(* and what the last one left. *)
Quiet == \A k \in Loops : ~Constructing(k)
Left(l) ==
  /\ \A n \in LoopNames : tools[n] = LoopTool(l)
  /\ \A n \in Bindable : registered[n] = LoopTool(l)
Settled ==
  /\ Quiet => \A l \in Loops : Ready(l) => \E k \in Loops : Left(k)
  /\ \A l \in Loops : Ready(l) /\ l \notin overtaken["memory"] => Quiet /\ Left(l)
  /\ \A l \in Loops : loop[l].state # "none" /\ l \notin overtaken["bindings"] =>
       /\ Quiet
       /\ \A n \in Bindable : \E k \in Loops : tools[n] = LoopTool(k) /\ boundTo[n][k] = LoopTool(l)

(* The servers. *)
McpInv ==
  /\ \A l \in Loops : Ready(l) => mcp.once = "done"
  /\ mcp.mgr => mcp.once = "done"
  /\ mcp.once # "busy" => procs \subseteq mcp.open
  /\ \A s, t \in procs \ mcp.open : s = t
  /\ \A s \in procs \ mcp.open : s \in Servers /\ mcp.reg \subseteq ServerTools[s]
  /\ \A n \in DOMAIN tools : tools[n].kind = "mcp" => mcp.mgr \/ tools[n].id \in procs \cup mcp.open

BeltInv == Shapes /\ Names /\ Runs /\ (~overlap => Alone /\ Settled) /\ McpInv

(* The script of a construction, instruction by instruction. *)
LEMMA Script ==
  /\ DOMAIN LoopScript = 1 .. 10 /\ Len(LoopScript) = 10
  /\ LoopScript[1] = [op |-> "refer", names |-> {"memory_extract"}]
  /\ LoopScript[2] = [op |-> "register", names |-> {"memory_store"}]
  /\ LoopScript[3] = [op |-> "register", names |-> {"memory_extract"}]
  /\ LoopScript[4] = [op |-> "mark", names |-> {"memory_store", "memory_extract"}]
  /\ LoopScript[5] = [op |-> "refer", names |-> {"context_compress"}]
  /\ LoopScript[6] = [op |-> "register", names |-> {"context_compress"}]
  /\ LoopScript[7] = [op |-> "mark", names |-> {"context_compress"}]
  /\ LoopScript[8] = [op |-> "register", names |-> {"skill_use"}]
  /\ LoopScript[9] = [op |-> "mark", names |-> {"skill_use"}]
  /\ LoopScript[10] = [op |-> "mcp", names |-> {}]
  BY DEF LoopScript, Do

(* An instruction does what its loop then counts as done. *)
LEMMA ScriptAdvances ==
  ASSUME NEW p \in 1 .. 9
  PROVE  /\ LoopScript[p].names \subseteq LoopNames
         /\ LoopScript[p].op \in {"refer", "register", "mark"}
         /\ \A n \in LoopNames :
              /\ BuiltAt[n] \in 1 .. 9
              /\ p + 1 > BuiltAt[n] <=> p > BuiltAt[n] \/ (LoopScript[p].op = "register" /\ n \in LoopScript[p].names)
              /\ MarkedAt[n] \in 1 .. 9
              /\ p + 1 > MarkedAt[n] <=> p > MarkedAt[n] \/ (LoopScript[p].op = "mark" /\ n \in LoopScript[p].names)
         /\ \A n \in Bindable :
              /\ ReferredAt[n] \in 1 .. 9
              /\ p + 1 > ReferredAt[n]
                   <=> p > ReferredAt[n] \/ (LoopScript[p].op = "refer" /\ n \in LoopScript[p].names)
<1>1. p \in {1, 2, 3, 4, 5, 6, 7, 8, 9}
  OBVIOUS
<1> USE Script DEF BuiltAt, MarkedAt, ReferredAt, LoopNames, Bindable
<1>2. CASE p = 1
  BY <1>2
<1>3. CASE p = 2
  BY <1>3
<1>4. CASE p = 3
  BY <1>4
<1>5. CASE p = 4
  BY <1>5
<1>6. CASE p = 5
  BY <1>6
<1>7. CASE p = 6
  BY <1>7
<1>8. CASE p = 7
  BY <1>8
<1>9. CASE p = 8
  BY <1>9
<1>10. CASE p = 9
  BY <1>10
<1> QED BY <1>1, <1>2, <1>3, <1>4, <1>5, <1>6, <1>7, <1>8, <1>9, <1>10

(* A loop that waits for the servers, or is ready, has done all of it. *)
LEMMA ScriptDone ==
  ASSUME NEW p \in {10, 11}
  PROVE  /\ \A n \in LoopNames : p > BuiltAt[n] /\ p > MarkedAt[n]
         /\ \A n \in Bindable : p > ReferredAt[n]
  BY DEF BuiltAt, MarkedAt, ReferredAt, LoopNames, Bindable

(* The invariant at the start. *)
LEMMA BeltStarts == BeltInit => BeltInv
<1> SUFFICES ASSUME BeltInit PROVE BeltInv OBVIOUS
<1>1. \A l \in Loops : loop[l].pc = 0 /\ loop[l].state = "none"
  BY DEF BeltInit, Fresh
<1>2. \A l \in Loops : ~Ready(l) /\ ~Constructing(l)
  BY <1>1, Script DEF Ready, Constructing
<1>3. Shapes
  <2>1. LoopShape
    BY DEF BeltInit, LoopShape, Fresh
  <2>2. McpShape
    BY DEF BeltInit, McpShape
  <2>3. HistoryShape
    BY DEF BeltInit, HistoryShape
  <2>4. ToolsShape
    BY DEF BeltInit, ToolsShape
  <2> QED BY <2>1, <2>2, <2>3, <2>4 DEF Shapes
<1>4. \A l \in Loops, n \in LoopNames : ~Built(l, n) /\ ~Marked(l, n)
  BY <1>1 DEF Built, Marked, BuiltAt, MarkedAt, LoopNames
<1>5. Names /\ Runs
  BY <1>1, <1>4 DEF Names, Runs, BeltInit
<1>6. Alone /\ Settled
  BY <1>1, <1>2 DEF Alone, Settled
<1>7. McpInv
  BY <1>2 DEF McpInv, BeltInit
<1> QED BY <1>3, <1>5, <1>6, <1>7 DEF BeltInv

(* The invariant is what the properties need. *)
LEMMA BeltInvSuffices ==
  ASSUME BeltInv PROVE OfferedForState /\ OwnUnlessOvertaken /\ ProcessesOwned
<1>1. OfferedForState
  BY DEF BeltInv, Runs, OfferedForState
<1>2. OwnUnlessOvertaken
  <2> SUFFICES ASSUME ~overlap, NEW l \in Loops, loop[l].state # "none"
               PROVE  /\ l \notin overtaken["bindings"] => \A n \in Bindable : Serves(n) = LoopTool(l)
                      /\ l \notin overtaken["memory"] => \A n \in LoopNames \ Bindable : Serves(n) = LoopTool(l)
    BY DEF OwnUnlessOvertaken
  <2>1. Ready(l) /\ loop[l].pc = 11
    <3>1. Ready(l) /\ loop[l].pc \in 0 .. 11
      BY DEF BeltInv, Runs, Shapes, LoopShape
    <3> QED BY <3>1, Script DEF Ready
  <2>2. \A n \in LoopNames : n \in DOMAIN tools
    BY <2>1, ScriptDone DEF BeltInv, Names, Built
  <2>3. ASSUME l \notin overtaken["bindings"], NEW n \in Bindable
        PROVE  Serves(n) = LoopTool(l)
    <3>1. PICK k \in Loops : tools[n] = LoopTool(k) /\ boundTo[n][k] = LoopTool(l)
      BY <2>3 DEF BeltInv, Settled
    <3>2. n \in DOMAIN tools
      BY <2>2 DEF Bindable, LoopNames
    <3> QED BY <3>1, <3>2 DEF Serves, LoopTool
  <2>4. ASSUME l \notin overtaken["memory"], NEW n \in LoopNames \ Bindable
        PROVE  Serves(n) = LoopTool(l)
    <3>1. tools[n] = LoopTool(l)
      BY <2>1, <2>4 DEF BeltInv, Settled, Left
    <3> QED BY <2>2, <3>1 DEF Serves, LoopTool
  <2> QED BY <2>3, <2>4
<1>3. ProcessesOwned
  BY DEF BeltInv, McpInv, ProcessesOwned
<1> QED BY <1>1, <1>2, <1>3

(* A step that keeps the framework's tools in the registry, whatever else it *)
(* registers, and starts or ends no construction and no run.               *)
LEMMA OtherTools ==
  ASSUME BeltInv, ToolsShape',
         \A n \in LoopNames \cap DOMAIN tools : n \in DOMAIN tools' /\ tools'[n] = tools[n],
         UNCHANGED <<internalNames, registered, boundTo, loop, overtaken, overlap>>
  PROVE  LoopShape' /\ HistoryShape' /\ Names' /\ Runs' /\ (~overlap' => Alone' /\ Settled')
<1>1. LoopShape' /\ HistoryShape'
  BY DEF BeltInv, Shapes, LoopShape, HistoryShape
<1>2. Names'
  BY DEF BeltInv, Names, Built, Marked
<1>3. Runs'
  BY DEF BeltInv, Runs, Ready
<1>4. ASSUME NEW l \in Loops, NEW n \in LoopNames, Built(l, n)
      PROVE  tools'[n] = tools[n]
  BY <1>4 DEF BeltInv, Names
<1>5. ASSUME NEW l \in Loops, Ready(l), NEW n \in LoopNames
      PROVE  tools'[n] = tools[n]
  <2>1. loop[l].pc = 11
    <3>1. loop[l].pc \in 0 .. 11
      BY DEF BeltInv, Shapes, LoopShape
    <3> QED BY <1>5, <3>1, Script DEF Ready
  <2> QED BY <2>1, <1>4, ScriptDone DEF Built
<1>6. ASSUME ~overlap' PROVE Alone'
  BY <1>4, <1>6 DEF BeltInv, Alone, Constructing, Built, Referred
<1>7. ASSUME ~overlap' PROVE Settled'
  <2>1. Settled
    BY <1>7 DEF BeltInv
  <2>2. ASSUME NEW k \in Loops, Left(k), NEW l \in Loops, Ready(l) PROVE Left(k)'
    BY <1>5, <2>2 DEF Left
  <2>3. Quiet' <=> Quiet
    BY DEF Quiet, Constructing
  <2>4. \A l \in Loops : Ready(l)' <=> Ready(l)
    BY DEF Ready
  <2>5. Quiet' => \A l \in Loops : Ready(l)' => \E k \in Loops : Left(k)'
    BY <2>1, <2>2, <2>3, <2>4 DEF Settled
  <2>6. \A l \in Loops : Ready(l)' /\ l \notin overtaken'["memory"] => Quiet' /\ Left(l)'
    BY <2>1, <2>2, <2>3, <2>4 DEF Settled
  <2>7. ASSUME NEW l \in Loops, loop'[l].state # "none", l \notin overtaken'["bindings"]
        PROVE  /\ Quiet'
               /\ \A n \in Bindable : \E k \in Loops : tools'[n] = LoopTool(k) /\ boundTo'[n][k] = LoopTool(l)
    <3>1. Ready(l)
      BY <2>7 DEF BeltInv, Runs
    <3>2. /\ Quiet
          /\ \A n \in Bindable : \E k \in Loops : tools[n] = LoopTool(k) /\ boundTo[n][k] = LoopTool(l)
      BY <2>1, <2>7 DEF Settled
    <3>3. \A n \in Bindable : tools'[n] = tools[n]
      BY <1>5, <3>1 DEF Bindable, LoopNames
    <3> QED BY <2>3, <3>2, <3>3
  <2> QED BY <2>5, <2>6, <2>7 DEF Settled
<1> QED BY <1>1, <1>2, <1>3, <1>6, <1>7

(* RegisterCustomTool takes a name that nobody has. *)
LEMMA RegisterCustomKeeps ==
  ASSUME BeltInv, NEW u \in Users, RegisterCustom(u) PROVE BeltInv'
<1>1. /\ \A n \in DOMAIN tools : n \in DOMAIN tools' /\ tools'[n] = tools[n]
      /\ \A n \in DOMAIN tools' \ DOMAIN tools : tools'[n].kind = "user"
      /\ ToolsShape'
  BY DEF RegisterCustom, Given, UserTool, BeltInv, Shapes, ToolsShape
<1>2. McpInv' /\ McpShape'
  BY <1>1 DEF RegisterCustom, BeltInv, Shapes, McpShape, McpInv, Ready
<1> QED BY <1>1, <1>2, OtherTools DEF RegisterCustom, BeltInv, Shapes

(* Steps of the manager that register nothing. *)
LEMMA ManagerSteps ==
  ASSUME BeltInv, UNCHANGED <<tools, internalNames, registered, boundTo, loop, overtaken, overlap>>,
         McpShape', McpInv'
  PROVE  BeltInv'
<1>1. ToolsShape'
  BY DEF BeltInv, Shapes, ToolsShape
<1> QED BY <1>1, OtherTools DEF BeltInv, Shapes

(* The first loop takes the servers over. *)
LEMMA McpBeginKeeps ==
  ASSUME BeltInv, NEW l \in Loops, McpBegin(l) PROVE BeltInv'
<1>1. McpShape'
  BY DEF McpBegin, BeltInv, Shapes, McpShape
<1>2. mcp'.once = "busy" /\ UNCHANGED <<mcp.open, mcp.reg, mcp.mgr>> /\ mcp.once = "new"
  BY DEF McpBegin, Initialised, BeltInv, Shapes, McpShape
<1>3. McpInv'
  BY <1>2 DEF McpBegin, BeltInv, McpInv, Ready
<1> QED BY <1>1, <1>3, ManagerSteps DEF McpBegin

(* A server process starts and is the only one not yet owned. *)
LEMMA McpConnectKeeps ==
  ASSUME BeltInv, NEW l \in Loops, NEW s \in Servers, McpConnect(l, s) PROVE BeltInv'
<1>1. McpShape'
  BY DEF McpConnect, BeltInv, Shapes, McpShape
<1>2. /\ mcp'.once = mcp.once /\ mcp'.mgr = mcp.mgr /\ mcp'.open = mcp.open /\ mcp'.reg = ServerTools[s]
      /\ mcp.once = "busy"
  BY DEF McpConnect, Connecting, BeltInv, Shapes, McpShape
<1>3. McpInv'
  BY <1>2 DEF McpConnect, BeltInv, McpInv, Ready
<1> QED BY <1>1, <1>3, ManagerSteps DEF McpConnect

(* Shutdown ends what the manager holds. *)
LEMMA ShutdownKeeps == ASSUME BeltInv, Shutdown PROVE BeltInv'
<1>1. McpShape'
  BY DEF Shutdown, BeltInv, Shapes, McpShape
<1>2. mcp'.once = mcp.once /\ mcp'.mgr = mcp.mgr /\ mcp'.open = {} /\ mcp.mgr /\ mcp'.reg = mcp.reg
  BY DEF Shutdown, BeltInv, Shapes, McpShape
<1>3. McpInv'
  BY <1>2 DEF Shutdown, BeltInv, McpInv, Ready
<1> QED BY <1>1, <1>3, ManagerSteps DEF Shutdown

(* A server process dies by itself. *)
LEMMA ServerDiesKeeps == ASSUME BeltInv, NEW s \in Servers, ServerDies(s) PROVE BeltInv'
<1>1. McpShape' /\ McpInv'
  BY DEF ServerDies, BeltInv, Shapes, McpShape, McpInv, Ready
<1> QED BY <1>1, ManagerSteps DEF ServerDies

(* A server's tools have names of their own. *)
LEMMA McpRegisterKeeps ==
  ASSUME BeltInv, NEW l \in Loops, NEW s \in Servers, McpRegister(l, s) PROVE BeltInv'
<1>1. PICK n \in mcp.reg :
        /\ tools' = Given({n}, McpTool(s))
        /\ mcp' = IF mcp.reg = {n} THEN [mcp EXCEPT !.reg = {}, !.open = @ \cup {s}] ELSE [mcp EXCEPT !.reg = @ \ {n}]
  BY DEF McpRegister
<1>2. n \in ServerTools[s] /\ n \notin LoopNames
  BY BeltAssumption DEF McpRegister, BeltInv, McpInv, LoopNames
<1>3. /\ \A m \in DOMAIN tools : m # n => m \in DOMAIN tools' /\ tools'[m] = tools[m]
      /\ DOMAIN tools' = DOMAIN tools \cup {n}
      /\ tools'[n] = McpTool(s)
      /\ ToolsShape'
  BY <1>1 DEF McpRegister, Given, BeltInv, Shapes, ToolsShape
<1>4. McpShape'
  BY <1>1 DEF BeltInv, Shapes, McpShape
<1>5. /\ mcp'.once = mcp.once /\ mcp'.mgr = mcp.mgr /\ mcp.once = "busy"
      /\ \/ mcp'.open = mcp.open /\ mcp'.reg \subseteq mcp.reg
         \/ mcp'.open = mcp.open \cup {s}
  BY <1>1 DEF McpRegister, Connecting, BeltInv, Shapes, McpShape
<1>6. McpInv'
  <2>1. /\ procs' = procs /\ s \in procs \ mcp.open /\ \A k \in Loops : Ready(k)' <=> Ready(k)
    BY DEF McpRegister, Ready
  <2>2. McpInv
    BY DEF BeltInv
  <2>3. ASSUME NEW m \in DOMAIN tools', tools'[m].kind = "mcp"
        PROVE  mcp'.mgr \/ tools'[m].id \in procs' \cup mcp'.open
    <3>1. CASE m = n
      <4>1. tools'[m].id = s
        BY <1>3, <3>1 DEF McpTool
      <4> QED BY <4>1, <2>1
    <3>2. CASE m # n
      <4>1. m \in DOMAIN tools /\ tools'[m] = tools[m]
        BY <1>3, <3>2
      <4>2. mcp.mgr \/ tools[m].id \in procs \cup mcp.open
        BY <4>1, <2>2, <2>3 DEF McpInv
      <4> QED BY <4>1, <4>2, <2>1, <1>5
    <3> QED BY <3>1, <3>2
  <2>4. \A r, t \in procs' \ mcp'.open : r = t
    BY <1>5, <2>1, <2>2 DEF McpInv
  <2>5. \A r \in procs' \ mcp'.open : r \in Servers /\ mcp'.reg \subseteq ServerTools[r]
    BY <1>5, <2>1, <2>2 DEF McpInv
  <2>6. (\A k \in Loops : Ready(k)' => mcp'.once = "done") /\ (mcp'.mgr => mcp'.once = "done")
    BY <1>5, <2>1, <2>2 DEF McpInv
  <2> QED BY <1>5, <2>3, <2>4, <2>5, <2>6 DEF McpInv
<1> QED BY <1>2, <1>3, <1>4, <1>6, OtherTools DEF McpRegister, BeltInv, Shapes

(* The loops start their constructions, and every instruction of theirs. *)
LEMMA StartConstructionKeeps ==
  ASSUME BeltInv, NEW l \in Loops, StartConstruction(l) PROVE BeltInv'
<1>1. /\ LoopShape' /\ loop'[l] = [pc |-> 1, state |-> loop[l].state, cache |-> loop[l].cache]
      /\ \A k \in Loops \ {l} : loop'[k] = loop[k]
  BY DEF StartConstruction, BeltInv, Shapes, LoopShape
<1>2. /\ ~Ready(l) /\ ~Ready(l)' /\ Constructing(l)' /\ loop[l].state = "none" /\ loop[l].pc = 0
  BY <1>1, Script DEF StartConstruction, Ready, Constructing, BeltInv, Runs
<1>3. \A k \in Loops \ {l} : (Ready(k)' <=> Ready(k)) /\ (Constructing(k)' <=> Constructing(k))
  BY <1>1 DEF Ready, Constructing
<1>4. HistoryShape'
  <2>1. overtaken' = [o \in {"memory", "bindings"} |-> {k \in Loops \ {l} : Ready(k)} \cup overtaken[o]]
    BY DEF StartConstruction
  <2> QED BY <2>1 DEF HistoryShape
<1>5. Shapes'
  BY <1>1, <1>4 DEF StartConstruction, BeltInv, Shapes, McpShape, ToolsShape
<1>6. \A k \in Loops, n \in LoopNames : (Built(k, n)' => Built(k, n)) /\ (Marked(k, n)' => Marked(k, n))
  BY <1>1 DEF Built, Marked, BuiltAt, MarkedAt, LoopNames
<1>7. Names' /\ Runs'
  BY <1>1, <1>2, <1>3, <1>6 DEF StartConstruction, BeltInv, Names, Runs
<1>8. ASSUME ~overlap' PROVE Alone' /\ Settled'
  <2>1. \A k \in Loops : Constructing(k)' => k = l
    BY <1>3, <1>8 DEF StartConstruction
  <2>2. \A n \in LoopNames : ~Built(l, n)'
    BY <1>1 DEF Built, BuiltAt, LoopNames
  <2>3. \A n \in Bindable : ~Referred(l, n)'
    BY <1>1 DEF Referred, ReferredAt, Bindable
  <2>4. \A k \in Loops : Ready(k)' => k \in overtaken'["memory"] /\ k \in overtaken'["bindings"]
    BY <1>2, <1>3 DEF StartConstruction
  <2>5. \A k \in Loops : loop'[k].state # "none" => Ready(k)'
    BY <1>7 DEF Runs
  <2>6. Alone'
    BY <2>1, <2>2, <2>3 DEF Alone
  <2>7. Settled'
    BY <1>2, <2>4, <2>5 DEF Settled, Quiet
  <2> QED BY <2>6, <2>7
<1>9. McpInv'
  BY <1>2, <1>3 DEF StartConstruction, BeltInv, McpInv
<1> QED BY <1>5, <1>7, <1>8, <1>9 DEF BeltInv

(* One instruction of a construction: a name more is referred, registered or marked. *)
LEMMA ConstructKeeps ==
  ASSUME BeltInv, NEW l \in Loops, Construct(l) PROVE BeltInv'
<1>0. PICK p, i : p = loop[l].pc /\ i = LoopScript[p]
  OBVIOUS
<1>1. p \in 1 .. 9
  BY <1>0, Script DEF Construct, Constructing, Instruction
<1>2. /\ LoopShape' /\ loop'[l] = [pc |-> p + 1, state |-> loop[l].state, cache |-> loop[l].cache]
      /\ \A k \in Loops \ {l} : loop'[k] = loop[k]
  <2>1. LoopShape /\ loop' = [loop EXCEPT ![l].pc = @ + 1]
    BY DEF Construct, BeltInv, Shapes
  <2>2. loop[l].pc = p /\ p + 1 \in 0 .. 11
    BY <1>0, <1>1
  <2>3. \A k \in Loops : loop'[k] = IF k = l THEN [pc |-> p + 1, state |-> loop[l].state, cache |-> loop[l].cache] ELSE loop[k]
    BY <2>1, <2>2 DEF LoopShape
  <2>4. loop' = [k \in Loops |-> loop'[k]]
    BY <2>1 DEF LoopShape
  <2>5. ASSUME NEW k \in Loops
        PROVE  loop'[k] = [pc |-> loop'[k].pc, state |-> loop'[k].state, cache |-> loop'[k].cache] /\ loop'[k].pc \in 0 .. 11
    BY <2>1, <2>2, <2>3 DEF LoopShape
  <2> QED BY <2>3, <2>4, <2>5 DEF LoopShape
<1>3. /\ ~Ready(l) /\ ~Ready(l)' /\ Constructing(l)' /\ Constructing(l) /\ loop[l].state = "none"
  BY <1>0, <1>1, <1>2, Script DEF Ready, Constructing, BeltInv, Runs
<1>4. \A k \in Loops : (Ready(k)' <=> Ready(k)) /\ (Constructing(k)' <=> Constructing(k))
  BY <1>2, <1>3 DEF Ready, Constructing
<1>5. /\ registered' = IF i.op = "refer" THEN [n \in Bindable |-> IF n \in i.names THEN LoopTool(l) ELSE registered[n]]
                       ELSE registered
      /\ tools' = IF i.op = "register" THEN Given(i.names, LoopTool(l)) ELSE tools
      /\ internalNames' = IF i.op = "mark" THEN internalNames \cup i.names ELSE internalNames
  BY <1>0 DEF Construct, Instruction
<1>6. /\ i.names \subseteq LoopNames
      /\ \A n \in LoopNames :
           /\ Built(l, n)' <=> Built(l, n) \/ (i.op = "register" /\ n \in i.names)
           /\ Marked(l, n)' <=> Marked(l, n) \/ (i.op = "mark" /\ n \in i.names)
      /\ \A n \in Bindable : Referred(l, n)' <=> Referred(l, n) \/ (i.op = "refer" /\ n \in i.names)
  BY <1>0, <1>1, <1>2, ScriptAdvances DEF Built, Marked, Referred
<1>7. /\ \A k \in Loops \ {l}, n \in LoopNames : (Built(k, n)' <=> Built(k, n)) /\ (Marked(k, n)' <=> Marked(k, n))
  BY <1>2 DEF Built, Marked
<1>8. /\ i.op = "register" => /\ DOMAIN tools' = DOMAIN tools \cup i.names
                              /\ \A n \in i.names : tools'[n] = LoopTool(l)
                              /\ \A n \in DOMAIN tools : n \notin i.names => tools'[n] = tools[n]
      /\ i.op # "register" => tools' = tools
  BY <1>5 DEF Given
<1>15. ASSUME NEW n \in DOMAIN tools, ~(i.op = "register" /\ n \in i.names)
       PROVE  n \in DOMAIN tools' /\ tools'[n] = tools[n]
  <2>1. CASE i.op = "register"
    BY <1>15, <2>1, <1>8
  <2>2. CASE i.op # "register"
    BY <2>2, <1>8
  <2> QED BY <2>1, <2>2
<1>14. ToolsShape'
  <2>1. registered' = [n \in Bindable |-> registered'[n]]
    BY <1>5 DEF BeltInv, Shapes, ToolsShape
  <2>2. tools' = [n \in DOMAIN tools' |-> tools'[n]]
    BY <1>5 DEF Given, BeltInv, Shapes, ToolsShape
  <2>3. boundTo' = boundTo
    BY DEF Construct
  <2> QED BY <2>1, <2>2, <2>3 DEF BeltInv, Shapes, ToolsShape
<1>9. Shapes'
  BY <1>2, <1>14 DEF Construct, BeltInv, Shapes, McpShape, HistoryShape
<1>10. Names'
  <2>1. ASSUME NEW k \in Loops, NEW n \in LoopNames, Built(k, n)'
        PROVE  n \in DOMAIN tools' /\ \E j \in Loops : tools'[n] = LoopTool(j)
    <3>1. CASE i.op = "register" /\ n \in i.names
      BY <3>1, <1>8
    <3>2. CASE ~(i.op = "register" /\ n \in i.names)
      <4>1. Built(k, n)
        BY <2>1, <3>2, <1>6, <1>7
      <4>2. n \in DOMAIN tools /\ \E j \in Loops : tools[n] = LoopTool(j)
        BY <4>1 DEF BeltInv, Names
      <4> QED BY <4>2, <3>2, <1>15
    <3> QED BY <3>1, <3>2
  <2>2. ASSUME NEW k \in Loops, NEW n \in LoopNames, Marked(k, n)'
        PROVE  n \in internalNames'
    BY <2>2, <1>5, <1>6, <1>7 DEF BeltInv, Names
  <2> QED BY <2>1, <2>2 DEF Names
<1>11. Runs'
  BY <1>2, <1>3, <1>4, <1>5 DEF BeltInv, Runs
<1>12. ASSUME ~overlap' PROVE Alone' /\ Settled'
  <2>1. Alone /\ Settled
    BY <1>12 DEF Construct, BeltInv
  <2>2. \A k \in Loops : Constructing(k)' => k = l
    BY <1>3, <1>4, <2>1 DEF Alone
  <2>3. ASSUME NEW n \in LoopNames, Built(l, n)' PROVE tools'[n] = LoopTool(l)
    <3>1. CASE i.op = "register" /\ n \in i.names
      BY <3>1, <1>8
    <3>2. CASE ~(i.op = "register" /\ n \in i.names)
      <4>1. Built(l, n)
        BY <2>3, <3>2, <1>6
      <4>2. n \in DOMAIN tools /\ tools[n] = LoopTool(l)
        BY <4>1, <2>1, <1>3 DEF BeltInv, Names, Alone
      <4> QED BY <4>2, <3>2, <1>15
    <3> QED BY <3>1, <3>2
  <2>4. ASSUME NEW n \in Bindable, Referred(l, n)' PROVE registered'[n] = LoopTool(l)
    BY <2>1, <2>4, <1>3, <1>5, <1>6 DEF Alone
  <2>5. \A k \in Loops : Ready(k) => k \in overtaken["memory"]
    BY <2>1, <1>3 DEF Settled, Quiet
  <2>6. \A k \in Loops : loop[k].state # "none" => k \in overtaken["bindings"]
    BY <2>1, <1>3 DEF Settled, Quiet
  <2>7. overtaken' = overtaken /\ ~Quiet' /\ \A k \in Loops : loop'[k].state = loop[k].state
    BY <1>2, <1>3 DEF Construct, Quiet
  <2>8. Alone'
    BY <2>2, <2>3, <2>4 DEF Alone
  <2>9. Settled'
    BY <2>5, <2>6, <2>7, <1>4 DEF Settled
  <2> QED BY <2>8, <2>9
<1>13. McpInv'
  <2>1. \A n \in DOMAIN tools' : tools'[n].kind = "mcp" => n \in DOMAIN tools /\ tools'[n] = tools[n]
    <3>1. CASE i.op = "register"
      <4>1. DOMAIN tools' = DOMAIN tools \cup i.names
        BY <3>1, <1>8
      <4>2. \A n \in i.names : tools'[n].kind = "loop"
        BY <3>1, <1>8 DEF LoopTool
      <4>3. \A n \in DOMAIN tools : n \notin i.names => tools'[n] = tools[n]
        BY <3>1, <1>8
      <4> QED BY <4>1, <4>2, <4>3
    <3>2. CASE i.op # "register"
      BY <3>2, <1>8
    <3> QED BY <3>1, <3>2
  <2> QED BY <2>1, <1>4 DEF Construct, BeltInv, McpInv
<1> QED BY <1>9, <1>10, <1>11, <1>12, <1>13 DEF BeltInv

(* The end of a construction: the servers are connected, or were. *)
LEMMA ReadyKeeps ==
  ASSUME BeltInv, NEW l \in Loops, AtMcp(l), loop' = [loop EXCEPT ![l].pc = @ + 1],
         UNCHANGED <<tools, internalNames, registered, boundTo, overtaken, overlap>>,
         McpShape', McpInv'
  PROVE  BeltInv'
<1>1. loop[l].pc = 10
  <2>1. loop[l].pc \in 1 .. 10
    BY Script DEF AtMcp, Constructing
  <2>2. loop[l].pc \notin 1 .. 9
    BY ScriptAdvances DEF AtMcp, Instruction
  <2> QED BY <2>1, <2>2
<1>2. /\ LoopShape' /\ loop'[l] = [pc |-> 11, state |-> loop[l].state, cache |-> loop[l].cache]
      /\ \A k \in Loops \ {l} : loop'[k] = loop[k]
  BY <1>1 DEF BeltInv, Shapes, LoopShape
<1>3. Constructing(l) /\ ~Constructing(l)' /\ Ready(l)' /\ ~Ready(l) /\ loop[l].state = "none"
  BY <1>1, <1>2, Script DEF Ready, Constructing, BeltInv, Runs
<1>4. \A k \in Loops \ {l} : (Ready(k)' <=> Ready(k)) /\ (Constructing(k)' <=> Constructing(k))
  BY <1>2 DEF Ready, Constructing
<1>5. \A k \in Loops, n \in LoopNames : (Built(k, n)' <=> Built(k, n)) /\ (Marked(k, n)' <=> Marked(k, n))
  BY <1>1, <1>2, ScriptDone DEF Built, Marked
<1>6. Shapes'
  BY <1>2 DEF BeltInv, Shapes, McpShape, ToolsShape, HistoryShape
<1>7. Names'
  BY <1>5 DEF BeltInv, Names
<1>8. Runs'
  BY <1>2, <1>3, <1>4 DEF BeltInv, Runs
<1>9. ASSUME ~overlap' PROVE Alone' /\ Settled'
  <2>1. Alone /\ Settled
    BY <1>9 DEF BeltInv
  <2>2. Quiet'
    BY <2>1, <1>3, <1>4 DEF Alone, Quiet
  <2>3. Left(l)'
    BY <2>1, <1>1, <1>3, ScriptDone DEF Alone, Left, Built, Referred
  <2>4. \A k \in Loops : Ready(k) => k \in overtaken["memory"]
    BY <2>1, <1>3 DEF Settled, Quiet
  <2>5. \A k \in Loops : loop'[k].state # "none" => k \in overtaken["bindings"]
    BY <2>1, <1>2, <1>3 DEF Settled, Quiet
  <2>6. Alone'
    BY <2>2 DEF Alone, Quiet
  <2>7. Settled'
    BY <2>2, <2>3, <2>4, <2>5, <1>3, <1>4 DEF Settled
  <2> QED BY <2>6, <2>7
<1> QED BY <1>6, <1>7, <1>8, <1>9 DEF BeltInv

(* A later loop finds the servers taken care of. *)
LEMMA McpSkipKeeps == ASSUME BeltInv, NEW l \in Loops, McpSkip(l) PROVE BeltInv'
<1>1. McpShape' /\ McpInv'
  BY DEF McpSkip, BeltInv, Shapes, McpShape, McpInv, LoopShape, Ready
<1> QED BY <1>1, ReadyKeeps DEF McpSkip

(* ConnectAll is done, or gives up on the servers that are left. *)
LEMMA McpEndKeeps == ASSUME BeltInv, NEW l \in Loops, McpEnd(l) PROVE BeltInv'
<1>1. McpShape'
  BY DEF McpEnd, BeltInv, Shapes, McpShape
<1>2. mcp'.once = "done" /\ mcp'.mgr /\ mcp'.open = mcp.open /\ procs' \subseteq mcp.open
  <2>1. mcp'.once = "done" /\ mcp'.mgr /\ mcp'.open = mcp.open
    BY DEF McpEnd, BeltInv, Shapes, McpShape
  <2>2. \/ procs \subseteq mcp.open /\ procs' = procs
        \/ \E s \in procs \ mcp.open : procs' = procs \ {s}
    BY DEF McpEnd, Ended
  <2>3. \A s, t \in procs \ mcp.open : s = t
    BY DEF BeltInv, McpInv
  <2> QED BY <2>1, <2>2, <2>3
<1>3. McpInv'
  BY <1>2 DEF McpInv
<1> QED BY <1>1, <1>3, ReadyKeeps DEF McpEnd, Connecting

(* A step sets the state and the offered tools of a loop. *)
LEMMA SetsLoop ==
  ASSUME BeltInv, NEW l \in Loops, NEW st, NEW names,
         loop' = [loop EXCEPT ![l] = [pc |-> @.pc, state |-> st, cache |-> names]]
  PROVE  /\ LoopShape' /\ loop'[l] = [pc |-> loop[l].pc, state |-> st, cache |-> names]
         /\ \A k \in Loops \ {l} : loop'[k] = loop[k]
<1>3. DOMAIN loop = Loops
  BY DEF BeltInv, Shapes, LoopShape
<1>4. /\ loop'[l] = [pc |-> loop[l].pc, state |-> st, cache |-> names]
      /\ \A k \in Loops \ {l} : loop'[k] = loop[k]
  BY <1>3
<1>5. LoopShape'
  <2>1. \A k \in Loops : loop'[k].pc \in 0 .. 11
    BY <1>4 DEF BeltInv, Shapes, LoopShape
  <2>2. \A k \in Loops : loop'[k] = [pc |-> loop'[k].pc, state |-> loop'[k].state, cache |-> loop'[k].cache]
    BY <1>4 DEF BeltInv, Shapes, LoopShape
  <2>3. loop' = [k \in Loops |-> loop'[k]]
    BY <1>3
  <2> QED BY <2>1, <2>2, <2>3 DEF LoopShape
<1> QED BY <1>4, <1>5

(* A run binds what the last construction left, unless one is going on. *)
LEMMA StartToolRunKeeps ==
  ASSUME BeltInv, NEW l \in Loops, StartToolRun(l) PROVE BeltInv'
<1>1. PICK st \in DOMAIN StateTools : loop' = [loop EXCEPT ![l] = [pc |-> @.pc, state |-> st, cache |-> VisibleTools(st)]]
  BY DEF StartToolRun
<1>2. /\ LoopShape' /\ loop'[l] = [pc |-> loop[l].pc, state |-> st, cache |-> VisibleTools(st)]
      /\ \A k \in Loops \ {l} : loop'[k] = loop[k]
  BY <1>1, SetsLoop
<1>3. \A k \in Loops : loop'[k].pc = loop[k].pc
  BY <1>2
<1>4. \A k \in Loops : (Ready(k)' <=> Ready(k)) /\ (Constructing(k)' <=> Constructing(k))
  BY <1>3 DEF Ready, Constructing
<1>5. Ready(l) /\ loop[l].pc = 11
  <2>1. Ready(l) /\ loop[l].pc \in 0 .. 11
    BY DEF StartToolRun, BeltInv, Shapes, LoopShape
  <2> QED BY <2>1, Script DEF Ready
<1>6. LoopNames \subseteq internalNames
  BY <1>5, ScriptDone DEF BeltInv, Names, Marked
<1>7. Shapes'
  <2>1. ToolsShape'
    BY DEF StartToolRun, Bound, BeltInv, Shapes, ToolsShape
  <2>2. HistoryShape'
    BY DEF StartToolRun, BeltInv, Shapes, HistoryShape
  <2>3. McpShape'
    BY DEF StartToolRun, BeltInv, Shapes, McpShape
  <2> QED BY <1>2, <2>1, <2>2, <2>3 DEF Shapes
<1>8. Names'
  BY <1>3 DEF StartToolRun, BeltInv, Names, Built, Marked
<1>9. Runs'
  <2>1. VisibleTools(st) \cap (LoopNames \cup {"shell_exec"}) \subseteq StateTools[st]
    BY <1>6 DEF VisibleTools, ToolsForState, CustomToolNames, BeltInv, Runs
  <2>2. "shell_exec" \in internalNames'
    BY DEF StartToolRun, BeltInv, Runs
  <2>3. ASSUME NEW k \in Loops, loop'[k].state # "none"
        PROVE  Ready(k)' /\ loop'[k].cache \cap (LoopNames \cup {"shell_exec"}) \subseteq StateTools[loop'[k].state]
    <3>1. CASE k = l
      BY <3>1, <2>1, <1>2, <1>4, <1>5
    <3>2. CASE k # l
      BY <3>2, <2>3, <1>2, <1>4 DEF BeltInv, Runs
    <3> QED BY <3>1, <3>2
  <2> QED BY <2>2, <2>3 DEF Runs
<1>10. ASSUME ~overlap' PROVE Alone' /\ Settled'
  <2>1. Alone /\ Settled
    BY <1>10 DEF StartToolRun, BeltInv
  <2>2. Alone'
    BY <2>1, <1>3, <1>4 DEF StartToolRun, Alone, Built, Referred
  <2>3. /\ overtaken'["memory"] = overtaken["memory"]
        /\ overtaken'["bindings"] = {k \in Loops : Ready(k)} \ {k \in {l} : \A j \in Loops : ~Constructing(j)}
    BY DEF StartToolRun, BeltInv, Shapes, HistoryShape
  <2>4. Quiet' <=> Quiet
    BY <1>4 DEF Quiet
  <2>5. \A k \in Loops : Left(k)' <=> Left(k)
    BY DEF StartToolRun, Left
  <2>6. Quiet' => \A k \in Loops : Ready(k)' => \E j \in Loops : Left(j)'
    BY <2>1, <2>4, <2>5, <1>4 DEF Settled
  <2>7. \A k \in Loops : Ready(k)' /\ k \notin overtaken'["memory"] => Quiet' /\ Left(k)'
    BY <2>1, <2>3, <2>4, <2>5, <1>4 DEF Settled
  <2>8. ASSUME NEW k \in Loops, loop'[k].state # "none", k \notin overtaken'["bindings"]
        PROVE  /\ Quiet'
               /\ \A n \in Bindable : \E j \in Loops : tools'[n] = LoopTool(j) /\ boundTo'[n][j] = LoopTool(k)
    <3>1. Ready(k)
      BY <2>8, <1>4, <1>9 DEF Runs
    <3>2. k = l /\ Quiet
      BY <2>3, <2>8, <3>1 DEF Quiet
    <3>3. PICK j \in Loops : Left(j)
      BY <3>2, <1>5, <2>1 DEF Settled
    <3>4. ASSUME NEW n \in Bindable
          PROVE  tools'[n] = LoopTool(j) /\ boundTo'[n][j] = LoopTool(k)
      BY <3>2, <3>3 DEF StartToolRun, Left, Bound, Bindable, LoopNames
    <3> QED BY <2>4, <3>2, <3>4
  <2>9. Settled'
    BY <2>6, <2>7, <2>8 DEF Settled
  <2> QED BY <2>2, <2>9
<1>11. McpInv'
  BY <1>4 DEF StartToolRun, BeltInv, McpInv
<1> QED BY <1>7, <1>8, <1>9, <1>10, <1>11 DEF BeltInv

(* A run ends. *)
LEMMA EndToolRunKeeps ==
  ASSUME BeltInv, NEW l \in Loops, EndToolRun(l) PROVE BeltInv'
<1>1. /\ LoopShape' /\ loop'[l] = [pc |-> loop[l].pc, state |-> "none", cache |-> {}]
      /\ \A k \in Loops \ {l} : loop'[k] = loop[k]
  BY SetsLoop DEF EndToolRun
<1>2. \A k \in Loops : loop'[k].pc = loop[k].pc
  BY <1>1
<1>3. \A k \in Loops : (Ready(k)' <=> Ready(k)) /\ (Constructing(k)' <=> Constructing(k))
  BY <1>2 DEF Ready, Constructing
<1>4. Shapes'
  BY <1>1 DEF EndToolRun, BeltInv, Shapes, McpShape, ToolsShape, HistoryShape
<1>5. Names' /\ Runs'
  BY <1>1, <1>2, <1>3 DEF EndToolRun, BeltInv, Names, Runs, Built, Marked
<1>6. ASSUME ~overlap' PROVE Alone' /\ Settled'
  <2>1. Alone /\ Settled
    BY <1>6 DEF EndToolRun, BeltInv
  <2>2. Alone'
    BY <2>1, <1>2, <1>3 DEF EndToolRun, Alone, Built, Referred
  <2>3. Settled'
    BY <2>1, <1>1, <1>3 DEF EndToolRun, Settled, Quiet, Left
  <2> QED BY <2>2, <2>3
<1>7. McpInv'
  BY <1>3 DEF EndToolRun, BeltInv, McpInv
<1> QED BY <1>4, <1>5, <1>6, <1>7 DEF BeltInv

(* A step of nobody. *)
LEMMA BeltStutters == ASSUME BeltInv, UNCHANGED beltVars PROVE BeltInv'
<1>1. Shapes'
  BY DEF beltVars, BeltInv, Shapes, McpShape, ToolsShape, HistoryShape, LoopShape
<1>2. Names' /\ Runs' /\ McpInv'
  BY DEF beltVars, BeltInv, Names, Runs, McpInv, Built, Marked, Ready
<1>3. ASSUME ~overlap' PROVE Alone' /\ Settled'
  BY <1>3 DEF beltVars, BeltInv, Alone, Settled, Quiet, Left, Ready, Constructing, Built, Referred
<1> QED BY <1>1, <1>2, <1>3 DEF BeltInv

(* Once a loop is ready nothing replaces a tool of the embedding program. *)
LEMMA UsersToolsStay ==
  ASSUME BeltInv, BeltNext, NEW l \in Loops, Ready(l), NEW n \in DOMAIN tools, tools[n].kind = "user"
  PROVE  tools'[n] = tools[n]
<1>1. loop[l].pc = 11
  <2>1. loop[l].pc \in 0 .. 11
    BY DEF BeltInv, Shapes, LoopShape
  <2> QED BY <2>1, Script DEF Ready
<1>2. n \notin LoopNames
  <2>1. \A m \in LoopNames : Built(l, m)
    BY <1>1, ScriptDone DEF Built
  <2>2. \A m \in LoopNames : \E k \in Loops : tools[m] = LoopTool(k)
    BY <2>1 DEF BeltInv, Names
  <2>3. \A k : LoopTool(k).kind = "loop"
    BY DEF LoopTool
  <2> QED BY <2>2, <2>3
<1>3. mcp.once = "done"
  BY DEF BeltInv, McpInv
<1>4. ASSUME NEW k \in Loops, Construct(k) PROVE tools'[n] = tools[n]
  <2>1. loop[k].pc \in 1 .. 9 /\ Instruction(k) = LoopScript[loop[k].pc]
    BY <1>4, Script DEF Construct, Constructing, Instruction
  <2>2. n \notin Instruction(k).names
    BY <1>2, <2>1, ScriptAdvances
  <2> QED BY <1>4, <2>2 DEF Construct, Given
<1>5. ASSUME NEW u \in Users, RegisterCustom(u) PROVE tools'[n] = tools[n]
  BY <1>5 DEF RegisterCustom, Given
<1>6. ASSUME NEW k \in Loops, NEW s \in Servers, McpRegister(k, s) PROVE tools'[n] = tools[n]
  BY <1>3, <1>6 DEF McpRegister, Connecting
<1>7. ASSUME ~(\E k \in Loops : Construct(k)), ~(\E u \in Users : RegisterCustom(u)),
             ~(\E k \in Loops, s \in Servers : McpRegister(k, s))
      PROVE  tools' = tools
  BY <1>7 DEF BeltNext, StartConstruction, McpBegin, McpSkip, McpEnd, McpConnect, StartToolRun, EndToolRun,
              Shutdown, ServerDies
<1> QED BY <1>4, <1>5, <1>6, <1>7

(* For any loops, runs, servers and tools of the embedding program: a run is *)
(* offered no framework tool its state does not list; a loop's tools are its *)
(* own unless it was overtaken; custom tools survive; every server process   *)
(* is owned (tool.go, memory_tools.go, tools/mcp/manager.go).                *)
THEOREM ToolsStayRight == BeltInit /\ [][BeltNext]_beltVars => ToolsRight
<1>1. BeltInv /\ [BeltNext]_beltVars => BeltInv'
  BY RegisterCustomKeeps, StartConstructionKeeps, ConstructKeeps, McpBeginKeeps, McpSkipKeeps, McpEndKeeps,
     McpConnectKeeps, McpRegisterKeeps, StartToolRunKeeps, EndToolRunKeeps, ShutdownKeeps, ServerDiesKeeps,
     BeltStutters DEF BeltNext
<1>2. BeltInv /\ [BeltNext]_beltVars
        => [(\E l \in Loops : Ready(l)) => \A n \in DOMAIN tools : tools[n].kind = "user" => tools'[n] = tools[n]]_beltVars
  BY UsersToolsStay
<1> QED BY BeltStarts, <1>1, <1>2, BeltInvSuffices, PTL DEF ToolsRight, CustomSurvives

-----------------------------------------------------------------------------
(* The configuration. *)

Fields == MainFields \cup ImageFields
Flags == {"yes", "no"}
Modes == {"", "auto", "plan", "simple"}
MainOk(m) ==
  /\ m = [f \in MainFields |-> m[f]]
  /\ \A f \in MainFields : m[f] # "nil"
  /\ m["stream"] \in Flags /\ m["dream"] \in Flags
  /\ m["limit"] # "0" /\ m["mode"] \in Modes
ImageOk(i) == i = NoImage \/ (i = [f \in ImageFields |-> i[f]] /\ \A f \in ImageFields : i[f] # "nil")
CfgOk(cfg) ==
  /\ cfg = [main |-> cfg.main, image |-> cfg.image, live |-> cfg.live]
  /\ MainOk(cfg.main) /\ ImageOk(cfg.image) /\ cfg.live \in BOOLEAN
FormOk(form) ==
  /\ form = [f \in Fields |-> form[f]]
  /\ \A f \in Fields : form[f] # "nil"
  /\ form["stream"] \in Flags /\ form["dream"] \in Flags
  /\ form["limit"] # "0" /\ form["mode"] \in Options["mode"] /\ form["provider"] \in Providers
YamlOk(file) ==
  /\ file = [at |-> file.at, flat |-> file.flat, nested |-> file.nested]
  /\ \A f \in DOMAIN file.flat : file.flat[f] # "nil"
  /\ \A f \in DOMAIN file.nested : file.nested[f] # "nil"
PageOk(p) ==
  /\ p = [at |-> p.at, form |-> p.form, cfg |-> p.cfg, edited |-> p.edited]
  /\ p.at \in {"closed", "open", "stale", "saving"}
  /\ FormOk(p.form) /\ CfgOk(p.cfg)
  /\ p.edited \subseteq Fields \ NotSent
  /\ "effort" \in p.edited => p.form["effort"] \in Options["effort"]
  /\ p.at = "saving" => p.cfg.live /\ p.cfg.main["provider"] \in Providers

ConfigShapes ==
  /\ YamlOk(yaml) /\ CfgOk(current) /\ current.main["provider"] \in Providers
  /\ page = [c \in Clients |-> page[c]]
  /\ \A c \in Clients : PageOk(page[c])
  /\ latest = [f \in DOMAIN latest |-> latest[f]] /\ DOMAIN latest \subseteq Fields \ NotSent
  /\ "effort" \in DOMAIN latest => latest["effort"] \in Options["effort"]
  /\ "cleared" \notin ills => current.main["model"] # ""
  /\ yaml.at = "none" => current = DefaultConfig /\ DOMAIN latest = {}

(* Memory is what the file says. *)
Agrees ==
  ills \cap {"hand", "cut", "cleared"} = {} /\ yaml.at # "none"
    => Load(yaml).ok /\ Meant(current) = Meant(Load(yaml).cfg)

(* What a page shows, and what it is about to save. *)
FormShows(p, cfg, had) ==
  /\ p.at = "saving" => p.cfg = FromForm(p.form, cfg)
  /\ p.at \in {"open", "saving"} /\ "cleared" \notin had =>
       \A f \in Fields \ (p.edited \cup NotSent) :
           Hidden(f, cfg) \/ Meaning(f, p.form[f]) = Meaning(f, Form(cfg)[f])
Shows == "stale" \notin ills => \A c \in Clients : FormShows(page[c], current, ills)

ConfigInv == ConfigShapes /\ Agrees /\ Shows /\ EditsSurvive /\ NeverHalfLoaded

(* The choices of the page, one by one. *)
LEMMA OptionFacts ==
  /\ DOMAIN Options = {"provider", "mode", "effort", "image_provider", "stream"}
  /\ Options["provider"] = Providers /\ Options["mode"] = {"", "plan", "simple"}
  /\ Options["effort"] = {"low", "high"} /\ Options["stream"] = Flags
  /\ Options["image_provider"] = Providers \cup {""}
BY DEF Options, Flags

(* Configurations that mean the same are the same to a form. *)
LEMMA SameMeaning ==
  ASSUME NEW a, CfgOk(a), NEW b, CfgOk(b), Meant(a) = Meant(b)
  PROVE  /\ a.image = b.image
         /\ \A form : FromForm(form, a) = FromForm(form, b)
         /\ \A f \in Fields : Meaning(f, Form(a)[f]) = Meaning(f, Form(b)[f])
         /\ \A f : Hidden(f, a) = Hidden(f, b)
<1>1. \A c \in {a, b} : /\ Meant(c).image = c.image
                        /\ Meant(c).main = [f \in MainFields |-> Meaning(f, c.main[f])]
  BY DEF Meant, CfgOk
<1>2. a.image = b.image
  BY <1>1
<1>3. \A f \in MainFields : Meaning(f, a.main[f]) = Meaning(f, b.main[f])
  BY <1>1
<1>4. \A form : FromForm(form, a) = FromForm(form, b)
  BY <1>2 DEF FromForm
<1>5. \A f \in Fields : Meaning(f, Form(a)[f]) = Meaning(f, Form(b)[f])
  BY <1>2, <1>3 DEF Form, Fields
<1>6. a.main["effort"] = b.main["effort"]
  <2>1. "effort" \in MainFields
    BY DEF MainFields
  <2>2. \A v : Meaning("effort", v) = v
    BY DEF Meaning
  <2> QED BY <1>3, <2>1, <2>2
<1>7. \A f : Hidden(f, a) = Hidden(f, b)
  BY <1>6 DEF Hidden
<1> QED BY <1>2, <1>4, <1>5, <1>7

(* What is written is read again with its meaning, if nothing in it is left *)
(* out.                                                                     *)
LEMMA RoundTrip ==
  ASSUME NEW cfg, CfgOk(cfg), ~Unkept(cfg), cfg.live, cfg.main["provider"] \in Providers
  PROVE  Load(Written(cfg)).ok /\ Meant(Load(Written(cfg)).cfg) = Meant(cfg)
<1> DEFINE file == Written(cfg)
           given == MainFields \cup (IF cfg.image = NoImage THEN {} ELSE ImageFields)
           raw == [f \in DOMAIN file.flat \cup DOMAIN file.nested |->
                     IF f \in DOMAIN file.nested THEN file.nested[f] ELSE file.flat[f]]
<1>1. MainFields \cap ImageFields = {}
  BY DEF MainFields, ImageFields
<1>2. /\ file.at = "text" /\ DOMAIN file.nested = {}
      /\ file.flat = [f \in given |-> IF f \in MainFields THEN cfg.main[f] ELSE cfg.image[f]]
  BY DEF Written, NoKeys
<1>3. raw = [f \in given |-> IF f \in MainFields THEN cfg.main[f] ELSE cfg.image[f]]
  BY <1>2
<1>4. PICK main : /\ Applied(file, DefaultConfig).main = main
                  /\ main = [f \in MainFields |-> main[f]]
                  /\ \A f \in MainFields : Meaning(f, main[f]) = Meaning(f, cfg.main[f])
                  /\ main["provider"] = cfg.main["provider"]
  <2>1. ASSUME NEW f \in MainFields,
               NEW v, v = (IF f \in DOMAIN raw /\ Taken(f, raw[f]) THEN Value(f, raw[f]) ELSE DefaultConfig.main[f])
        PROVE  Meaning(f, v) = Meaning(f, cfg.main[f])
    <3>1. f \in DOMAIN raw /\ raw[f] = cfg.main[f]
      BY <1>3
    <3>2. CASE Taken(f, cfg.main[f])
      <4>1. v = cfg.main[f]
        BY <2>1, <3>1, <3>2 DEF Value, CfgOk, MainOk, Flags
      <4> QED BY <4>1
    <3>3. CASE ~Taken(f, cfg.main[f])
      <4>1. v = DefaultConfig.main[f] /\ Meaning(f, cfg.main[f]) = DefaultConfig.main[f]
        BY <2>1, <3>1, <3>3 DEF Unkept
      <4>2. Meaning(f, DefaultConfig.main[f]) = DefaultConfig.main[f]
        BY DEF Meaning, DefaultConfig, MainFields
      <4> QED BY <4>1, <4>2
    <3> QED BY <3>2, <3>3
  <2>2. Applied(file, DefaultConfig).main
          = [f \in MainFields |-> IF f \in DOMAIN raw /\ Taken(f, raw[f]) THEN Value(f, raw[f]) ELSE DefaultConfig.main[f]]
    BY DEF Applied
  <2>3. PICK main : main = [f \in MainFields |-> IF f \in DOMAIN raw /\ Taken(f, raw[f]) THEN Value(f, raw[f])
                                                  ELSE DefaultConfig.main[f]]
    OBVIOUS
  <2>4. \A f \in MainFields : Meaning(f, main[f]) = Meaning(f, cfg.main[f])
    BY <2>1, <2>3
  <2>5. "provider" \in MainFields /\ \A v : Meaning("provider", v) = v
    BY DEF MainFields, Meaning
  <2>6. Applied(file, DefaultConfig).main = main
    BY <2>2, <2>3
  <2>7. main["provider"] = cfg.main["provider"]
    BY <2>4, <2>5
  <2>8. main = [f \in MainFields |-> main[f]]
    BY <2>3
  <2> HIDE DEF raw, file
  <2> QED BY <2>4, <2>6, <2>7, <2>8
<1>5. Applied(file, DefaultConfig).image = cfg.image
  <2>1. Applied(file, DefaultConfig).image
          = IF DOMAIN raw \cap ImageFields = {} THEN DefaultConfig.image
            ELSE [f \in ImageFields |-> IF f \in DOMAIN raw THEN raw[f] ELSE ""]
    BY DEF Applied
  <2>2. CASE cfg.image = NoImage
    BY <2>1, <2>2, <1>1, <1>3 DEF DefaultConfig
  <2>3. CASE cfg.image # NoImage
    <3>1. cfg.image = [f \in ImageFields |-> cfg.image[f]]
      BY <2>3 DEF CfgOk, ImageOk
    <3>2. \A f \in ImageFields : f \in DOMAIN raw /\ raw[f] = cfg.image[f]
      BY <2>3, <1>1, <1>3
    <3>3. DOMAIN raw \cap ImageFields # {}
      BY <3>2 DEF ImageFields
    <3> QED BY <2>1, <3>1, <3>2, <3>3
  <2> QED BY <2>2, <2>3
<1>6. Applied(file, DefaultConfig) = [main |-> main, image |-> cfg.image, live |-> TRUE]
  BY <1>4, <1>5 DEF Applied
<1>7. Load(file).ok /\ Load(file).cfg = [main |-> main, image |-> cfg.image, live |-> TRUE]
  BY <1>2, <1>4, <1>6 DEF Load
<1>8. Meant(Load(file).cfg) = [main |-> [f \in MainFields |-> Meaning(f, main[f])], image |-> cfg.image, live |-> TRUE]
  BY <1>7 DEF Meant
<1>9. [f \in MainFields |-> Meaning(f, main[f])] = [f \in MainFields |-> Meaning(f, cfg.main[f])]
  BY <1>4
<1>10. Meant(cfg) = [main |-> [f \in MainFields |-> Meaning(f, cfg.main[f])], image |-> cfg.image, live |-> cfg.live]
  BY DEF Meant
<1>11. cfg.live = TRUE
  BY DEF CfgOk
<1> QED BY <1>7, <1>8, <1>9, <1>10, <1>11

(* What Load makes of a file, whoever wrote it and however it was cut. *)
LEMMA WhatLoads ==
  ASSUME NEW file, YamlOk(file)
  PROVE  /\ CfgOk(Load(file).cfg)
         /\ Load(file).ok \in BOOLEAN
         /\ Load(file).ok => /\ file.at = "text" /\ Load(file).cfg.live
                             /\ Load(file).cfg.main["provider"] \in Providers
                             /\ Load(file).cfg.main["model"] # ""
<1> DEFINE raw == [f \in DOMAIN file.flat \cup DOMAIN file.nested |->
                     IF f \in DOMAIN file.nested THEN file.nested[f] ELSE file.flat[f]]
           cfg == Applied(file, DefaultConfig)
<1>1. \A f \in DOMAIN raw : raw[f] # "nil"
  BY DEF YamlOk
<1>2. cfg.main = [f \in MainFields |-> IF f \in DOMAIN raw /\ Taken(f, raw[f]) THEN Value(f, raw[f]) ELSE DefaultConfig.main[f]]
  BY DEF Applied
<1>3. cfg.image = IF DOMAIN raw \cap ImageFields = {} THEN DefaultConfig.image
                  ELSE [f \in ImageFields |-> IF f \in DOMAIN raw THEN raw[f] ELSE ""]
  BY DEF Applied
<1>4. cfg = [main |-> cfg.main, image |-> cfg.image, live |-> TRUE]
  BY DEF Applied
<1>5. ASSUME NEW f \in MainFields
      PROVE  /\ cfg.main[f] # "nil"
             /\ f \in {"stream", "dream"} => cfg.main[f] \in Flags
             /\ f = "limit" => cfg.main[f] # "0"
             /\ f = "model" => cfg.main[f] # ""
             /\ f = "mode" => cfg.main[f] \in Modes
  <2>1. CASE f \in DOMAIN raw /\ Taken(f, raw[f])
    <3>1. cfg.main[f] = Value(f, raw[f]) /\ raw[f] # "nil"
      BY <1>1, <1>2, <2>1
    <3> HIDE DEF raw, cfg
    <3> QED BY <2>1, <3>1 DEF Value, Taken, Flags, Modes
  <2>2. CASE ~(f \in DOMAIN raw /\ Taken(f, raw[f]))
    <3>1. cfg.main[f] = DefaultConfig.main[f]
      BY <1>2, <2>2
    <3> HIDE DEF raw, cfg
    <3> QED BY <3>1 DEF DefaultConfig, Flags, Modes
  <2> QED BY <2>1, <2>2
<1>6. cfg.main = [f \in MainFields |-> cfg.main[f]]
  BY <1>2
<1>7. {"stream", "dream", "limit", "mode", "model", "provider"} \subseteq MainFields
  BY DEF MainFields
<1>8. MainOk(cfg.main)
  <2> HIDE DEF cfg, raw
  <2> QED BY <1>5, <1>6, <1>7 DEF MainOk
<1>9. ImageOk(cfg.image)
  <2>1. CASE DOMAIN raw \cap ImageFields = {}
    BY <1>3, <2>1 DEF DefaultConfig, ImageOk
  <2>2. CASE DOMAIN raw \cap ImageFields # {}
    <3>1. cfg.image = [f \in ImageFields |-> IF f \in DOMAIN raw THEN raw[f] ELSE ""]
      BY <1>3, <2>2
    <3> QED BY <1>1, <3>1 DEF ImageOk
  <2> QED BY <2>1, <2>2
<1>10. PICK main, image : cfg = [main |-> main, image |-> image, live |-> TRUE]
  BY <1>4
<1>11. /\ MainOk(main) /\ ImageOk(image)
       /\ main["model"] # "" /\ main["provider"] = cfg.main["provider"]
  <2> HIDE DEF raw, cfg
  <2>1. cfg.main = main /\ cfg.image = image
    BY <1>10
  <2> QED BY <1>5, <1>7, <1>8, <1>9, <2>1
<1>12. /\ CfgOk([main |-> main, image |-> image, live |-> TRUE])
       /\ CfgOk([main |-> main, image |-> image, live |-> FALSE])
  BY <1>11 DEF CfgOk
<1>13. Load(file) = IF file.at = "text" /\ cfg.main["provider"] \in Providers THEN [ok |-> TRUE, cfg |-> cfg]
                    ELSE [ok |-> FALSE, cfg |-> [main |-> cfg.main, image |-> cfg.image, live |-> FALSE]]
  BY DEF Load
<1> HIDE DEF cfg, raw
<1>14. cfg.main = main /\ cfg.image = image
  BY <1>10
<1>15. CASE file.at = "text" /\ cfg.main["provider"] \in Providers
  <2>1. Load(file) = [ok |-> TRUE, cfg |-> [main |-> main, image |-> image, live |-> TRUE]]
    BY <1>10, <1>13, <1>15
  <2>2. Load(file).cfg = [main |-> main, image |-> image, live |-> TRUE] /\ Load(file).ok = TRUE
    BY <2>1
  <2>3. PICK got : got = Load(file) /\ got.ok = TRUE /\ got.cfg = [main |-> main, image |-> image, live |-> TRUE]
    BY <2>2
  <2>4. got.cfg.live /\ got.cfg.main = main
    BY <2>3
  <2> QED BY <1>11, <1>12, <1>15, <2>3, <2>4
<1>16. CASE ~(file.at = "text" /\ cfg.main["provider"] \in Providers)
  <2>1. Load(file) = [ok |-> FALSE, cfg |-> [main |-> main, image |-> image, live |-> FALSE]]
    BY <1>13, <1>14, <1>16
  <2>2. Load(file).cfg = [main |-> main, image |-> image, live |-> FALSE] /\ Load(file).ok = FALSE
    BY <2>1
  <2> QED BY <1>12, <2>2
<1> QED BY <1>15, <1>16

(* What is left of a file is a file. *)
LEMMA WhatIsLeft ==
  ASSUME NEW file, YamlOk(file), NEW left \in Cut(file)
  PROVE  YamlOk(left) /\ left.at # "none"
<1> DEFINE First(n) == {KeyOrder[i] : i \in 1..n} \cap DOMAIN file.flat
           Torn(flat) == [at |-> "text", flat |-> flat, nested |-> NoKeys]
<1>1. ASSUME NEW flat, \A f \in DOMAIN flat : flat[f] # "nil"
      PROVE  YamlOk(Torn(flat)) /\ Torn(flat).at # "none"
  BY <1>1 DEF YamlOk, NoKeys
<1>2. CASE \E n \in 0..Len(KeyOrder) : left = Torn(Restrict(file.flat, First(n)))
  <2>1. PICK n : left = Torn(Restrict(file.flat, First(n)))
    BY <1>2
  <2>2. \A f \in DOMAIN Restrict(file.flat, First(n)) : Restrict(file.flat, First(n))[f] # "nil"
    BY DEF Restrict, YamlOk
  <2> HIDE DEF Torn, First
  <2> QED BY <1>1, <2>1, <2>2
<1>3. CASE \E n \in 1..Len(KeyOrder) :
             left = Torn([f \in First(n) |-> IF f = KeyOrder[n] THEN "cut" ELSE file.flat[f]])
  <2>1. PICK n : left = Torn([f \in First(n) |-> IF f = KeyOrder[n] THEN "cut" ELSE file.flat[f]])
    BY <1>3
  <2> DEFINE flat == [f \in First(n) |-> IF f = KeyOrder[n] THEN "cut" ELSE file.flat[f]]
  <2>2. \A f \in DOMAIN flat : flat[f] # "nil"
    BY DEF YamlOk
  <2>3. left = Torn(flat)
    BY <2>1
  <2> HIDE DEF Torn, First, flat
  <2> QED BY <1>1, <2>2, <2>3
<1>4. CASE left = [at |-> "bad", flat |-> NoKeys, nested |-> NoKeys]
  BY <1>4 DEF YamlOk, NoKeys
<1> QED BY <1>2, <1>3, <1>4 DEF Cut

(* What a page shows of a configuration, and the file it is written to.    *)
LEMMA FormKeepsShape ==
  ASSUME NEW cfg, CfgOk(cfg)
  PROVE  /\ cfg.main["provider"] \in Providers => FormOk(Shown(Form(cfg)))
         /\ YamlOk(Written(cfg)) /\ Written(cfg).at = "text"
<1>1. /\ \A f \in MainFields : cfg.main[f] # "nil"
      /\ cfg.image # NoImage => \A f \in ImageFields : cfg.image[f] # "nil"
      /\ cfg.main["stream"] \in Flags /\ cfg.main["dream"] \in Flags
      /\ cfg.main["limit"] # "0" /\ cfg.main["mode"] \in Modes
  BY DEF CfgOk, MainOk, ImageOk
<1>2. {"stream", "dream", "limit", "mode", "provider"} \subseteq MainFields
  BY DEF MainFields
<1>3. PICK form : form = Form(cfg) /\ form = [f \in Fields |-> IF f \in MainFields THEN cfg.main[f]
                                                ELSE IF cfg.image = NoImage THEN "" ELSE cfg.image[f]]
  BY DEF Form, Fields
<1>4. \A f \in Fields : form[f] # "nil"
  BY <1>1, <1>3 DEF Fields
<1>5. \A f \in MainFields : form[f] = cfg.main[f]
  BY <1>3 DEF Fields
<1>6. PICK seen : /\ seen = Shown(form)
                  /\ seen = [f \in Fields |-> IF f \in DOMAIN Options THEN (IF form[f] \in Options[f] THEN form[f] ELSE "")
                                 ELSE IF f = "model" /\ form[f] = "" THEN DefaultConfig.main[f] ELSE form[f]]
  BY DEF Shown, Fields
<1>7. DefaultConfig.main["model"] = "flash"
  BY DEF DefaultConfig, MainFields
<1>8. \A f \in Fields : seen[f] # "nil"
  BY <1>4, <1>6, <1>7
<1>9. {"stream", "dream", "limit", "mode", "provider"} \subseteq Fields
  BY <1>2 DEF Fields
<1>10. seen["stream"] \in Flags /\ seen["dream"] \in Flags /\ seen["limit"] # "0" /\ seen["mode"] \in Options["mode"]
  <2>1. \A f \in Fields : seen[f] = IF f \in DOMAIN Options THEN (IF form[f] \in Options[f] THEN form[f] ELSE "")
                                   ELSE IF f = "model" /\ form[f] = "" THEN DefaultConfig.main[f] ELSE form[f]
    BY <1>6
  <2>2. seen["dream"] = cfg.main["dream"] /\ seen["limit"] = cfg.main["limit"]
    BY <1>2, <1>5, <1>9, <2>1, OptionFacts
  <2>3. seen["stream"] = cfg.main["stream"]
    BY <1>1, <1>2, <1>5, <1>9, <2>1, OptionFacts
  <2>4. seen["mode"] \in Options["mode"]
    BY <1>9, <2>1, OptionFacts
  <2> QED BY <1>1, <2>2, <2>3, <2>4
<1>11. cfg.main["provider"] \in Providers => seen["provider"] \in Providers
  BY <1>2, <1>5, <1>6, <1>9, OptionFacts
<1>12. cfg.main["provider"] \in Providers => FormOk(seen)
  BY <1>6, <1>8, <1>10, <1>11 DEF FormOk
<1>13. YamlOk(Written(cfg)) /\ Written(cfg).at = "text"
  BY <1>1 DEF Written, YamlOk, NoKeys
<1> QED BY <1>3, <1>6, <1>12, <1>13

(* What the inputs show means what the configuration does, unless a field  *)
(* was cleared or has a value that the page cannot show.                    *)
LEMMA ShownMeans ==
  ASSUME NEW cfg, CfgOk(cfg), cfg.main["model"] # "", cfg.main["provider"] \in Providers, NEW f \in Fields
  PROVE  Hidden(f, cfg) \/ Meaning(f, Shown(Form(cfg))[f]) = Meaning(f, Form(cfg)[f])
<1>1. PICK form : /\ form = Form(cfg)
                  /\ \A g \in MainFields : form[g] = cfg.main[g]
  BY DEF Form
<1>2. PICK seen : /\ seen = Shown(form)[f]
                  /\ seen = (IF f \in DOMAIN Options THEN (IF form[f] \in Options[f] THEN form[f] ELSE "")
                             ELSE IF f = "model" /\ form[f] = "" THEN DefaultConfig.main[f] ELSE form[f])
  BY DEF Shown, Fields
<1>3. {"stream", "mode", "model", "effort", "provider"} \subseteq MainFields
  BY DEF MainFields
<1>4. cfg.main["stream"] \in Flags /\ cfg.main["mode"] \in Modes
  BY DEF CfgOk, MainOk
<1>5. CASE f \notin DOMAIN Options
  BY <1>1, <1>2, <1>3, <1>5
<1>6. CASE f \in {"stream", "provider"}
  BY <1>1, <1>2, <1>3, <1>4, <1>6, OptionFacts
<1>7. CASE f = "mode"
  BY <1>1, <1>2, <1>3, <1>4, <1>7, OptionFacts DEF Modes, Meaning
<1>8. CASE f = "effort"
  BY <1>1, <1>2, <1>3, <1>8, OptionFacts DEF Hidden
<1>9. CASE f = "image_provider"
  BY <1>1, <1>2, <1>9, OptionFacts DEF Meaning, Providers
<1> QED BY <1>5, <1>6, <1>7, <1>8, <1>9, OptionFacts

(* What becomes of a form is a configuration. *)
LEMMA FromFormKeepsShape ==
  ASSUME NEW form, FormOk(form), NEW existing, CfgOk(existing)
  PROVE  /\ CfgOk(FromForm(form, existing))
         /\ FromForm(form, existing).live /\ FromForm(form, existing).main["provider"] \in Providers
<1>1. /\ {"stream", "dream", "provider", "limit", "mode"} \subseteq MainFields
      /\ MainFields \subseteq Fields /\ ImageFields \subseteq Fields
  BY DEF MainFields, Fields
<1>2. PICK main : main = [f \in MainFields |-> form[f]]
  OBVIOUS
<1>3. MainOk(main)
  BY <1>1, <1>2, OptionFacts DEF MainOk, FormOk, Modes
<1>4. ImageOk(Restrict(form, ImageFields))
  BY <1>1 DEF ImageOk, FormOk, Restrict
<1>5. PICK image : /\ image = (IF form["image_provider"] # "" \/ form["image_model"] # "" THEN Restrict(form, ImageFields)
                               ELSE existing.image)
                   /\ ImageOk(image)
  BY <1>4 DEF CfgOk
<1>6. FromForm(form, existing) = [main |-> main, image |-> image, live |-> (form["provider"] \in Providers)]
  BY <1>2, <1>5 DEF FromForm, Restrict
<1>7. form["provider"] \in Providers /\ main["provider"] = form["provider"]
  BY <1>1, <1>2 DEF FormOk
<1>8. FromForm(form, existing) = [main |-> main, image |-> image, live |-> TRUE]
  BY <1>6, <1>7
<1>9. CfgOk([main |-> main, image |-> image, live |-> TRUE])
  BY <1>3, <1>5 DEF CfgOk
<1> QED BY <1>7, <1>8, <1>9

(* What is put in the form comes out of the configuration with its meaning,*)
(* if an image model is named in it or none was changed.                    *)
LEMMA FormComesBack ==
  ASSUME NEW form, FormOk(form), NEW existing, CfgOk(existing),
         form["image_provider"] = "" /\ form["image_model"] = ""
           => \A f \in ImageFields : Meaning(f, form[f]) = Meaning(f, Form(existing)[f])
  PROVE  \A f \in Fields : Meaning(f, Form(FromForm(form, existing))[f]) = Meaning(f, form[f])
<1> PICK cfg : cfg = FromForm(form, existing)
  OBVIOUS
<1>1. MainFields \cap ImageFields = {} /\ Fields = MainFields \cup ImageFields
  BY DEF MainFields, ImageFields, Fields
<1>2. \A f \in MainFields : cfg.main[f] = form[f]
  BY DEF FromForm, Restrict
<1>3. \A f \in MainFields : Form(cfg)[f] = form[f]
  BY <1>2 DEF Form
<1>4. \A f \in ImageFields : /\ Form(cfg)[f] = IF cfg.image = NoImage THEN "" ELSE cfg.image[f]
                             /\ Form(existing)[f] = IF existing.image = NoImage THEN "" ELSE existing.image[f]
  BY <1>1 DEF Form
<1>5. CASE form["image_provider"] = "" /\ form["image_model"] = ""
  <2>1. cfg.image = existing.image
    BY <1>5 DEF FromForm
  <2>2. \A f \in ImageFields : Form(cfg)[f] = Form(existing)[f]
    BY <1>4, <2>1
  <2> QED BY ZenonT(30), <1>1, <1>3, <1>5, <2>2
<1>6. CASE ~(form["image_provider"] = "" /\ form["image_model"] = "")
  <2>1. cfg.image = [f \in ImageFields |-> form[f]]
    BY <1>6 DEF FromForm, Restrict
  <2>2. \A f \in ImageFields : form[f] # "nil"
    BY <1>1 DEF FormOk
  <2>3. "image_model" \in ImageFields
    BY DEF ImageFields
  <2>4. cfg.image # NoImage
    BY <2>1, <2>2, <2>3 DEF NoImage
  <2>5. \A f \in ImageFields : Form(cfg)[f] = form[f]
    BY <1>4, <2>1, <2>4
  <2> QED BY <1>1, <1>3, <2>5
<1> QED BY <1>5, <1>6

(* The page of a browser that shows nothing. *)
LEMMA ClosedPage ==
  /\ CfgOk(DefaultConfig) /\ DefaultConfig.main["provider"] \in Providers /\ DefaultConfig.main["model"] # ""
  /\ PageOk(Closed) /\ Closed.at = "closed"
<1>1. MainOk(DefaultConfig.main)
  BY DEF MainOk, DefaultConfig, Flags, Modes, MainFields
<1>2. CfgOk(DefaultConfig)
  BY <1>1 DEF CfgOk, DefaultConfig, ImageOk
<1>3. DefaultConfig.main["provider"] \in Providers /\ DefaultConfig.main["model"] # ""
  BY DEF DefaultConfig, MainFields, Providers
<1> HIDE DEF DefaultConfig
<1>4. FormOk(Shown(Form(DefaultConfig)))
  BY <1>2, <1>3, FormKeepsShape
<1> QED BY <1>2, <1>3, <1>4 DEF Closed, Idle, PageOk

(* A page that only changes how far it is. *)
LEMMA Moved ==
  ASSUME NEW p, PageOk(p), NEW to \in {"open", "stale"}
  PROVE  /\ PageOk([p EXCEPT !.at = to])
         /\ [p EXCEPT !.at = to].at = to /\ [p EXCEPT !.at = to].form = p.form
         /\ [p EXCEPT !.at = to].edited = p.edited
<1>1. PICK at, form, cfg, edited :
        /\ p = [at |-> at, form |-> form, cfg |-> cfg, edited |-> edited]
        /\ FormOk(form) /\ CfgOk(cfg) /\ edited \subseteq Fields \ NotSent
        /\ "effort" \in edited => form["effort"] \in Options["effort"]
  BY DEF PageOk
<1>2. [p EXCEPT !.at = to] = [at |-> to, form |-> form, cfg |-> cfg, edited |-> edited]
  BY <1>1
<1>3. PICK q : q = [p EXCEPT !.at = to] /\ q = [at |-> to, form |-> form, cfg |-> cfg, edited |-> edited]
  BY <1>2
<1>4. PageOk(q)
  BY <1>1, <1>3 DEF PageOk
<1> QED BY <1>1, <1>3, <1>4

(* The pages after a change that one of them made. *)
LEMMA AgedPages ==
  ASSUME NEW pages, pages = [d \in Clients |-> pages[d]], \A d \in Clients : PageOk(pages[d]),
         NEW c \in Clients
  PROVE  /\ Aged(pages, c) = [d \in Clients |-> Aged(pages, c)[d]]
         /\ \A d \in Clients : PageOk(Aged(pages, c)[d])
         /\ Aged(pages, c)[c] = pages[c]
         /\ \A d \in Clients \ {c} : /\ Aged(pages, c)[d].at # "open"
                                     /\ Aged(pages, c)[d].at = "saving" => Aged(pages, c)[d] = pages[d]
<1>1. PICK aged : /\ aged = Aged(pages, c)
                  /\ aged = [d \in Clients |-> IF d # c /\ pages[d].at = "open" THEN [pages[d] EXCEPT !.at = "stale"]
                                               ELSE pages[d]]
  BY DEF Aged
<1>2. ASSUME NEW d \in Clients, d # c, pages[d].at = "open"
      PROVE  PageOk(aged[d]) /\ aged[d].at = "stale"
  <2>1. aged[d] = [pages[d] EXCEPT !.at = "stale"]
    BY <1>1, <1>2
  <2>2. /\ PageOk([pages[d] EXCEPT !.at = "stale"])
        /\ [pages[d] EXCEPT !.at = "stale"].at = "stale"
    BY Moved
  <2> QED BY <2>1, <2>2
<1>3. ASSUME NEW d \in Clients, ~(d # c /\ pages[d].at = "open")
      PROVE  aged[d] = pages[d]
  BY <1>1, <1>3
<1>4. aged = [d \in Clients |-> aged[d]]
  BY <1>1
<1>5. \A d \in Clients : PageOk(aged[d])
  BY <1>2, <1>3
<1>6. aged[c] = pages[c]
  BY <1>3
<1>7. \A d \in Clients \ {c} : aged[d].at # "open" /\ (aged[d].at = "saving" => aged[d] = pages[d])
  BY <1>2, <1>3
<1> QED BY <1>1, <1>4, <1>5, <1>6, <1>7, Zenon

-----------------------------------------------------------------------------
(* LoadConfig at the start. *)
LEMMA ConfigStarts == ConfigInit => ConfigInv
<1> SUFFICES ASSUME ConfigInit PROVE ConfigInv
  OBVIOUS
<1>1. YamlOk(yaml)
  BY DEF ConfigInit, YamlOk, NoKeys
<1>2. /\ CfgOk(current) /\ current.main["provider"] \in Providers /\ current.main["model"] # ""
      /\ (yaml.at = "none" => current = DefaultConfig /\ DOMAIN latest = {})
  BY ClosedPage DEF ConfigInit, NoKeys
<1>3. /\ page = [c \in Clients |-> page[c]] /\ \A c \in Clients : PageOk(page[c]) /\ page[c].at = "closed"
      /\ latest = [f \in DOMAIN latest |-> latest[f]] /\ DOMAIN latest = {}
  BY ClosedPage DEF ConfigInit, NoKeys
<1>4. ConfigShapes
  BY <1>1, <1>2, <1>3 DEF ConfigShapes
<1>5. yaml.at = "none" /\ DOMAIN latest = {} /\ current = DefaultConfig
  BY DEF ConfigInit, NoKeys
<1>6. Agrees /\ EditsSurvive /\ NeverHalfLoaded
  BY <1>5 DEF Agrees, EditsSurvive, NeverHalfLoaded
<1>7. Shows
  BY <1>3 DEF Shows, FormShows
<1> QED BY <1>4, <1>6, <1>7 DEF ConfigInv

(* A page fetches the form: it shows what was loaded. *)
LEMMA GetFormKeepsConfig ==
  ASSUME ConfigInv, NEW c \in Clients, GetForm(c)
  PROVE  ConfigInv'
<1>1. YamlOk(yaml) /\ CfgOk(current) /\ yaml' = yaml /\ latest' = latest
  BY DEF ConfigInv, ConfigShapes, GetForm
<1>2. PICK l : l = Load(yaml)
  OBVIOUS
<1>3. /\ current' = IF l.ok THEN l.cfg ELSE current
      /\ origin' = IF l.ok THEN "reload" ELSE origin
  BY <1>2 DEF GetForm
<1>4. /\ CfgOk(l.cfg) /\ l.ok \in BOOLEAN
      /\ l.ok => /\ yaml.at = "text" /\ l.cfg.live /\ l.cfg.main["provider"] \in Providers
                 /\ l.cfg.main["model"] # ""
  BY <1>1, <1>2, WhatLoads
<1>5. CfgOk(current') /\ current'.main["provider"] \in Providers
  BY <1>1, <1>3, <1>4 DEF ConfigInv, ConfigShapes
<1> DEFINE opened == [page EXCEPT ![c] = Idle("open", Shown(Form(current')))]
<1>6. PICK shown : shown = Idle("open", Shown(Form(current')))
  OBVIOUS
<1>7. \/ Meant(current') = Meant(current) /\ page' = opened /\ ills' = ills
      \/ page' = Aged(opened, c) /\ ills' = ills \cup Overtaken(c)
  BY DEF GetForm
<1>8. FormOk(Shown(Form(current'))) /\ CfgOk(DefaultConfig)
  BY <1>5, FormKeepsShape, ClosedPage
<1>9. PageOk(shown) /\ shown.at = "open" /\ shown.form = Shown(Form(current'))
  <2> HIDE DEF DefaultConfig
  <2> QED BY <1>6, <1>8 DEF Idle, PageOk
<1>10. /\ opened = [d \in Clients |-> opened[d]] /\ \A d \in Clients : PageOk(opened[d])
       /\ opened[c] = shown /\ \A d \in Clients \ {c} : opened[d] = page[d]
  <2>1. opened = [page EXCEPT ![c] = shown]
    BY <1>6
  <2> QED BY <1>9, <2>1 DEF ConfigInv, ConfigShapes
<1> HIDE DEF opened
<1>11. /\ page' = [d \in Clients |-> page'[d]] /\ \A d \in Clients : PageOk(page'[d])
       /\ page'[c] = shown
  BY <1>7, <1>10, AgedPages
<1>15. ills' \in {ills, ills \cup {"stale"}}
  BY <1>7 DEF Overtaken
<1>20. "cleared" \notin ills' => current'.main["model"] # ""
  BY <1>3, <1>4, <1>15 DEF ConfigInv, ConfigShapes
<1>12. ConfigShapes'
  BY <1>1, <1>3, <1>4, <1>5, <1>11, <1>20 DEF ConfigInv, ConfigShapes
<1>13. yaml.at = "none" => current' = current
  BY <1>3, <1>4
<1>14. ills \cap {"hand", "cut", "cleared"} = {} => Meant(current') = Meant(current)
  BY <1>2, <1>3, <1>13 DEF ConfigInv, Agrees
<1>16. Agrees'
  BY <1>1, <1>14, <1>15 DEF ConfigInv, Agrees
<1>21. Meant(current') = Meant(current) =>
         /\ \A form : FromForm(form, current') = FromForm(form, current)
         /\ \A f \in Fields : Meaning(f, Form(current')[f]) = Meaning(f, Form(current)[f])
         /\ \A f : Hidden(f, current') = Hidden(f, current)
  BY <1>1, <1>5, SameMeaning
<1>17. EditsSurvive'
  <2> SUFFICES ASSUME ills' = {}, NEW f \in DOMAIN latest PROVE Meaning(f, Form(current')[f]) = Meaning(f, latest[f])
    BY <1>1 DEF EditsSurvive
  <2>1. ills = {} /\ f \in Fields
    BY <1>15 DEF ConfigInv, ConfigShapes
  <2>2. Meaning(f, Form(current')[f]) = Meaning(f, Form(current)[f])
    BY <1>14, <1>21, <2>1
  <2> QED BY <2>1, <2>2 DEF ConfigInv, EditsSurvive
<1>22. l.ok => l.cfg.main["limit"] # "0" /\ l.cfg.main["mode"] \in Modes
  BY <1>4 DEF CfgOk, MainOk
<1>18. NeverHalfLoaded'
  BY <1>3, <1>4, <1>22 DEF ConfigInv, NeverHalfLoaded, Modes
<1>19. ASSUME NEW d \in Clients, "stale" \notin ills'
       PROVE  FormShows(page'[d], current', ills')
  <2>1. CASE d = c
    <3>1. "cleared" \notin ills' => \A f \in Fields : \/ Hidden(f, current')
                                             \/ Meaning(f, Shown(Form(current'))[f]) = Meaning(f, Form(current')[f])
      BY <1>5, <1>20, ShownMeans
    <3> QED BY <1>9, <1>11, <2>1, <3>1 DEF FormShows
  <2>2. CASE d # c /\ Meant(current') = Meant(current) /\ page' = opened /\ ills' = ills
    <3>1. page'[d] = page[d]
      BY <1>10, <2>2
    <3>2. FormShows(page[d], current, ills)
      BY <1>19, <2>2 DEF ConfigInv, Shows
    <3> QED BY <1>21, <2>2, <3>1, <3>2 DEF FormShows
  <2>3. CASE d # c /\ page' = Aged(opened, c) /\ ills' = ills \cup Overtaken(c)
    <3>1. page'[d].at # "open" /\ (page'[d].at = "saving" => page'[d] = page[d])
      BY <1>10, <2>3, AgedPages
    <3>2. page[d].at # "saving"
      BY <1>19, <2>3 DEF Overtaken
    <3> QED BY <3>1, <3>2 DEF FormShows
  <2> QED BY <1>7, <2>1, <2>2, <2>3
<1> QED BY <1>12, <1>16, <1>17, <1>18, <1>19 DEF ConfigInv, Shows

(* The page that is put, with its edit. *)
LEMMA PutFormKeepsConfig ==
  ASSUME ConfigInv, NEW c \in Clients, PutForm(c)
  PROVE  ConfigInv'
<1>1. PICK e \in ConfigEdits :
        LET form == Posted(IF e.field = "none" THEN page[c].form ELSE [page[c].form EXCEPT ![e.field] = e.to])
        IN page' = [page EXCEPT ![c] = [at |-> "saving", form |-> form, cfg |-> FromForm(form, current),
                                        edited |-> @.edited \cup ({e.field} \ {"none"})]]
  BY DEF PutForm
<1>2. PICK old : old = page[c] /\ PageOk(old) /\ old.at \in {"open", "stale"}
  BY DEF ConfigInv, ConfigShapes, PutForm
<1>3. PICK edit : edit = IF e.field = "none" THEN old.form ELSE [old.form EXCEPT ![e.field] = e.to]
  OBVIOUS
<1>4. PICK form : form = Posted(edit)
  OBVIOUS
<1>5. PICK cfg : cfg = FromForm(form, current)
  OBVIOUS
<1>6. PICK new : new = [at |-> "saving", form |-> form, cfg |-> cfg, edited |-> old.edited \cup ({e.field} \ {"none"})]
  OBVIOUS
<1>7. page' = [page EXCEPT ![c] = new]
  BY <1>1, <1>2, <1>3, <1>4, <1>5, <1>6 DEF ConfigInv, ConfigShapes
<1>8. /\ yaml' = yaml /\ current' = current /\ origin' = origin /\ latest' = latest
      /\ ills' \in {ills, ills \cup {"stale"}} /\ (old.at = "stale" => "stale" \in ills')
  BY <1>2 DEF PutForm
<1>9. /\ e.field \in {"none"} \cup (Fields \ NotSent)
      /\ e.to # "nil" /\ (e.field \in DOMAIN Options => e.to \in Options[e.field])
  BY ConfigAssumption DEF Fields
<1>10. /\ {"stream", "dream", "interval", "limit", "mode", "provider", "effort"} \subseteq Fields /\ "none" \notin Fields
       /\ NotSent = {"dream", "interval"}
  BY DEF Fields, MainFields, ImageFields, NotSent
<1>11. PICK was : was = old.form /\ was = [f \in Fields |-> was[f]] /\ FormOk(was)
  BY <1>2 DEF PageOk, FormOk
<1>22. edit = [f \in Fields |-> IF f = e.field THEN e.to ELSE was[f]]
  <2>1. CASE e.field = "none"
    BY <1>3, <1>10, <1>11, <2>1
  <2>2. CASE e.field # "none"
    BY <1>3, <1>9, <1>11, <2>2
  <2> QED BY <2>1, <2>2
<1>12. /\ form = [f \in Fields |-> form[f]]
       /\ \A f \in Fields \ {"dream", "interval", "limit"} : form[f] = IF f = e.field THEN e.to ELSE was[f]
       /\ form["dream"] = "no" /\ form["interval"] = "0"
       /\ form["limit"] = IF edit["limit"] = "0" THEN DefaultConfig.main["limit"] ELSE edit["limit"]
  BY <1>4, <1>10, <1>22 DEF Posted
<1>23. DefaultConfig.main["limit"] = "30"
  BY DEF DefaultConfig, MainFields
<1>24. e.field # "limit" => form["limit"] = was["limit"]
  BY <1>10, <1>11, <1>12, <1>22 DEF FormOk
<1>25. form["limit"] # "0" /\ form["limit"] # "nil"
  BY <1>9, <1>10, <1>11, <1>12, <1>22, <1>23 DEF FormOk
<1>13. FormOk(form)
  <2>1. \A f \in Fields : form[f] # "nil"
    BY <1>9, <1>10, <1>11, <1>12, <1>25 DEF FormOk
  <2>2. form["stream"] \in Flags /\ form["mode"] \in Options["mode"] /\ form["provider"] \in Providers
    BY <1>9, <1>10, <1>11, <1>12, OptionFacts DEF FormOk
  <2> QED BY <1>12, <1>25, <2>1, <2>2 DEF FormOk, Flags
<1>14. CfgOk(current)
  BY DEF ConfigInv, ConfigShapes
<1>15. CfgOk(cfg) /\ cfg.live /\ cfg.main["provider"] \in Providers
  BY <1>5, <1>13, <1>14, FromFormKeepsShape
<1>16. /\ new.edited \subseteq Fields \ NotSent
       /\ "effort" \in new.edited => form["effort"] \in Options["effort"]
  <2>1. new.edited \subseteq Fields \ NotSent
    BY <1>2, <1>6, <1>9 DEF PageOk
  <2>2. CASE e.field = "effort"
    BY <1>9, <1>10, <1>12, <2>1, <2>2, OptionFacts
  <2>3. CASE e.field # "effort"
    <3>1. form["effort"] = was["effort"]
      BY <1>9, <1>10, <1>11, <1>12, <2>3
    <3>2. "effort" \in new.edited => "effort" \in old.edited
      BY <1>6, <2>3
    <3> QED BY <1>2, <1>11, <2>1, <3>1, <3>2 DEF PageOk
  <2> QED BY <2>2, <2>3, <2>1
<1>17. PageOk(new)
  BY <1>6, <1>13, <1>15, <1>16 DEF PageOk
<1>18. ConfigShapes'
  <2>1. page' = [d \in Clients |-> page'[d]] /\ \A d \in Clients : PageOk(page'[d])
    BY <1>7, <1>17 DEF ConfigInv, ConfigShapes
  <2> QED BY <1>8, <2>1 DEF ConfigInv, ConfigShapes
<1>19. Agrees' /\ EditsSurvive' /\ NeverHalfLoaded'
  BY <1>8 DEF ConfigInv, Agrees, EditsSurvive, NeverHalfLoaded
<1>20. ASSUME "stale" \notin ills'
       PROVE  FormShows(new, current, ills')
  <2>1. old.at = "open" /\ FormShows(old, current, ills)
    BY <1>2, <1>8, <1>20 DEF ConfigInv, Shows
  <2>2. \A f \in Fields \ (new.edited \cup NotSent) : form[f] = was[f]
    BY <1>6, <1>10, <1>12, <1>24
  <2>3. old.edited \subseteq new.edited /\ new.form = form /\ new.cfg = FromForm(form, current)
    BY <1>5, <1>6
  <2> QED BY <1>8, <1>11, <2>1, <2>2, <2>3 DEF FormShows
<1>21. Shows'
  <2>1. ASSUME NEW d \in Clients, d # c, "stale" \notin ills'
        PROVE  FormShows(page'[d], current, ills')
    <3>1. page'[d] = page[d] /\ ills' = ills
      BY <1>7, <1>8, <2>1 DEF ConfigInv, ConfigShapes
    <3> QED BY <2>1, <3>1 DEF ConfigInv, Shows
  <2>2. page'[c] = new
    BY <1>7 DEF ConfigInv, ConfigShapes
  <2> QED BY <1>8, <1>20, <2>1, <2>2 DEF Shows
<1> QED BY <1>18, <1>19, <1>21 DEF ConfigInv

(* What a save makes current is the form that was put. *)
LEMMA SavedForm ==
  ASSUME ConfigInv, NEW c \in Clients, page[c].at = "saving", "stale" \notin ills, "cleared" \notin ills,
         page[c].edited \cap ImageFields # {} => page[c].form["image_model"] # ""
  PROVE  \A f \in Fields : Meaning(f, Form(page[c].cfg)[f]) = Meaning(f, page[c].form[f])
<1>1. PICK p : p = page[c] /\ PageOk(p) /\ FormShows(p, current, ills)
  BY DEF ConfigInv, ConfigShapes, Shows
<1>2. p.cfg = FromForm(p.form, current) /\ FormOk(p.form) /\ CfgOk(current)
  BY <1>1 DEF FormShows, PageOk, ConfigInv, ConfigShapes
<1>5. \A f \in ImageFields : f \in Fields \ NotSent /\ ~Hidden(f, current)
  BY DEF ImageFields, MainFields, Fields, NotSent, Hidden
<1>3. p.form["image_model"] = "" =>
        \A f \in ImageFields : Meaning(f, p.form[f]) = Meaning(f, Form(current)[f])
  BY <1>1, <1>5 DEF FormShows
<1>4. \A f \in Fields : Meaning(f, Form(FromForm(p.form, current))[f]) = Meaning(f, p.form[f])
  BY <1>2, <1>3, FormComesBack
<1> QED BY <1>1, <1>2, <1>4

(* The save, under the lock. *)
LEMMA PutSaveKeepsConfig ==
  ASSUME ConfigInv, NEW c \in Clients, PutSave(c)
  PROVE  ConfigInv'
<1>1. PICK p : /\ p = page[c] /\ PageOk(p) /\ p.at = "saving"
               /\ p = [at |-> "saving", form |-> p.form, cfg |-> p.cfg, edited |-> p.edited]
  BY DEF ConfigInv, ConfigShapes, PutSave, PageOk
<1>2. PICK form, cfg, set : form = p.form /\ cfg = p.cfg /\ set = p.edited
  OBVIOUS
<1>3. /\ FormOk(form) /\ CfgOk(cfg) /\ set \subseteq Fields \ NotSent /\ cfg.live /\ cfg.main["provider"] \in Providers
      /\ "effort" \in set => form["effort"] \in Options["effort"]
  BY <1>1, <1>2 DEF PageOk
<1>4. /\ yaml' = Written(cfg) /\ current' = cfg /\ origin' = "put"
      /\ latest' = [f \in DOMAIN latest \cup set |-> IF f \in set THEN form[f] ELSE latest[f]]
  BY <1>1, <1>2 DEF PutSave
<1>5. /\ ills \subseteq ills'
      /\ "stale" \notin ills' => \A d \in Clients \ {c} : page[d].at # "saving"
      /\ "cleared" \notin ills' => ~Unkept(cfg) /\ (set \cap ImageFields # {} => form["image_model"] # "")
  BY <1>1, <1>2 DEF PutSave, Overtaken
<1> DEFINE saved == [page EXCEPT ![c] = [at |-> "open", form |-> form, cfg |-> cfg, edited |-> {}]]
<1>6. page' = Aged(saved, c)
  BY <1>1, <1>2 DEF PutSave
<1>7. PICK shown : shown = [at |-> "open", form |-> form, cfg |-> cfg, edited |-> {}]
  OBVIOUS
<1>20. PageOk(shown)
  BY <1>3, <1>7 DEF PageOk
<1>21. "cleared" \notin ills' => cfg.main["model"] # ""
  <2>1. DefaultConfig.main["model"] = "flash" /\ "model" \in MainFields
    BY DEF DefaultConfig, MainFields
  <2>2. ~Unkept(cfg) => Taken("model", cfg.main["model"]) \/ Meaning("model", cfg.main["model"]) = "flash"
    BY <2>1 DEF Unkept
  <2> QED BY <1>5, <2>2 DEF Taken, Meaning
<1>8. /\ saved = [d \in Clients |-> saved[d]] /\ \A d \in Clients : PageOk(saved[d])
      /\ saved[c] = shown /\ \A d \in Clients \ {c} : saved[d] = page[d]
  <2>1. saved = [page EXCEPT ![c] = shown]
    BY <1>7
  <2> QED BY <1>20, <2>1 DEF ConfigInv, ConfigShapes
<1> HIDE DEF saved
<1>9. /\ page' = [d \in Clients |-> page'[d]] /\ \A d \in Clients : PageOk(page'[d])
      /\ page'[c] = shown
      /\ \A d \in Clients \ {c} : page'[d].at # "open" /\ (page'[d].at = "saving" => page'[d] = page[d])
  BY <1>6, <1>8, AgedPages
<1>10. YamlOk(yaml') /\ yaml'.at = "text"
  BY <1>3, <1>4, FormKeepsShape
<1>11. /\ latest' = [f \in DOMAIN latest' |-> latest'[f]] /\ DOMAIN latest' \subseteq Fields \ NotSent
       /\ "effort" \in DOMAIN latest' => latest'["effort"] \in Options["effort"]
  BY <1>3, <1>4 DEF ConfigInv, ConfigShapes
<1>12. ConfigShapes'
  BY <1>3, <1>4, <1>9, <1>10, <1>11, <1>21 DEF ConfigShapes
<1>13. Agrees'
  <2> SUFFICES ASSUME ills' \cap {"hand", "cut", "cleared"} = {}
               PROVE  Load(yaml').ok /\ Meant(current') = Meant(Load(yaml').cfg)
    BY DEF Agrees
  <2>1. ~Unkept(cfg)
    BY <1>5
  <2> QED BY <1>3, <1>4, <2>1, RoundTrip
<1>14. "stale" \notin ills' /\ "cleared" \notin ills' => \A f \in Fields : Meaning(f, Form(cfg)[f]) = Meaning(f, form[f])
  BY <1>1, <1>2, <1>5, SavedForm
<1>15. Form(cfg) = Form(current')
  BY <1>4
<1>17. Shows'
  <2> SUFFICES ASSUME "stale" \notin ills', NEW d \in Clients PROVE FormShows(page'[d], current', ills')
    BY DEF Shows
  <2>1. CASE d = c
    <3>1. shown.at = "open" /\ shown.form = form
      BY <1>7
    <3> QED BY <1>9, <1>14, <1>15, <2>1, <3>1 DEF FormShows
  <2>2. CASE d # c
    BY <1>5, <1>9, <2>2 DEF FormShows
  <2> QED BY <2>1, <2>2
<1>18. EditsSurvive'
  <2> SUFFICES ASSUME ills' = {}, NEW f \in DOMAIN latest' PROVE Meaning(f, Form(current')[f]) = Meaning(f, latest'[f])
    BY DEF EditsSurvive
  <2>1. ills = {} /\ f \in Fields \ NotSent
    BY <1>5, <1>11
  <2>2. Meaning(f, Form(current')[f]) = Meaning(f, form[f])
    BY <1>5, <1>14, <1>15, <2>1
  <2>3. CASE f \in set
    BY <1>4, <2>2, <2>3
  <2>4. CASE f \notin set
    <3>1. f \in DOMAIN latest /\ latest'[f] = latest[f] /\ Meaning(f, latest[f]) = Meaning(f, Form(current)[f])
      BY <1>4, <2>1, <2>4 DEF ConfigInv, EditsSurvive
    <3>2. ~Hidden(f, current)
      <4> SUFFICES ASSUME f = "effort" PROVE current.main["effort"] \in Options["effort"]
        BY DEF Hidden
      <4>1. "effort" \in MainFields /\ \A v : Meaning("effort", v) = v
        BY DEF MainFields, Meaning
      <4>2. Form(current)["effort"] = current.main["effort"]
        BY <4>1 DEF Form
      <4>3. latest["effort"] = current.main["effort"] /\ "effort" \in DOMAIN latest
        BY <3>1, <4>1, <4>2
      <4>4. latest["effort"] \in Options["effort"]
        BY <4>3 DEF ConfigInv, ConfigShapes
      <4> QED BY <4>3, <4>4
    <3>3. Meaning(f, form[f]) = Meaning(f, Form(current)[f])
      BY <1>1, <1>2, <2>1, <2>4, <3>2 DEF ConfigInv, Shows, FormShows
    <3> QED BY <2>2, <3>1, <3>3
  <2> QED BY <2>3, <2>4
<1>19. NeverHalfLoaded'
  BY <1>4 DEF NeverHalfLoaded
<1> QED BY <1>12, <1>13, <1>17, <1>18, <1>19 DEF ConfigInv

(* A write that fails, before or after the file is cut. *)
LEMMA PutFailsKeepsConfig ==
  ASSUME ConfigInv, NEW c \in Clients, PutFails(c)
  PROVE  ConfigInv'
<1>1. PICK p : /\ p = page[c] /\ PageOk(p) /\ p.at = "saving" /\ page' = [page EXCEPT ![c].at = "open"]
  BY DEF ConfigInv, ConfigShapes, PutFails
<1>2. PICK q : q = [p EXCEPT !.at = "open"]
  OBVIOUS
<1>3. PageOk(q) /\ q.at = "open" /\ q.form = p.form /\ q.edited = p.edited
  <2>1. /\ PageOk([p EXCEPT !.at = "open"]) /\ [p EXCEPT !.at = "open"].at = "open"
        /\ [p EXCEPT !.at = "open"].form = p.form /\ [p EXCEPT !.at = "open"].edited = p.edited
    BY ZenonT(30), <1>1, Moved
  <2> QED BY <1>2, <2>1
<1>4. page' = [page EXCEPT ![c] = q]
  BY <1>1, <1>2
<1>5. /\ current' = current /\ origin' = origin /\ latest' = latest /\ ills' = ills \cup {"cut"}
      /\ yaml' \in Cut(Written(p.cfg)) \cup {yaml}
  BY <1>1 DEF PutFails
<1>6. YamlOk(yaml') /\ (yaml'.at = "none" => yaml' = yaml)
  <2>1. YamlOk(Written(p.cfg))
    BY <1>1, FormKeepsShape DEF PageOk
  <2> QED BY <1>5, <2>1, WhatIsLeft DEF ConfigInv, ConfigShapes
<1>7. page' = [d \in Clients |-> page'[d]] /\ \A d \in Clients : PageOk(page'[d])
  BY <1>3, <1>4 DEF ConfigInv, ConfigShapes
<1>8. ConfigShapes'
  BY <1>5, <1>6, <1>7 DEF ConfigInv, ConfigShapes
<1>9. Agrees' /\ EditsSurvive' /\ NeverHalfLoaded'
  BY <1>5 DEF ConfigInv, Agrees, EditsSurvive, NeverHalfLoaded
<1>10. Shows'
  <2> SUFFICES ASSUME "stale" \notin ills', NEW d \in Clients PROVE FormShows(page'[d], current', ills')
    BY DEF Shows
  <2>1. FormShows(page[d], current, ills)
    BY <1>5 DEF ConfigInv, Shows
  <2>2. CASE d = c
    <3>1. page'[d] = q
      BY <1>4, <2>2 DEF ConfigInv, ConfigShapes
    <3> QED BY <1>1, <1>3, <1>5, <2>1, <2>2, <3>1 DEF FormShows
  <2>3. CASE d # c
    <3>1. page'[d] = page[d]
      BY <1>4, <2>3 DEF ConfigInv, ConfigShapes
    <3> QED BY <1>5, <2>1, <3>1 DEF FormShows
  <2> QED BY <2>2, <2>3
<1> QED BY <1>8, <1>9, <1>10 DEF ConfigInv

(* A person writes the file. *)
LEMMA HandEditKeepsConfig ==
  ASSUME ConfigInv, HandEdit
  PROVE  ConfigInv'
<1>1. PICK h \in HandFiles : yaml' = [at |-> "text", flat |-> h.flat, nested |-> h.nested]
  BY DEF HandEdit
<1>2. current' = current /\ origin' = origin /\ latest' = latest /\ page' = page /\ ills' = ills \cup {"hand"}
  BY DEF HandEdit
<1>3. YamlOk(yaml') /\ yaml'.at = "text"
  BY <1>1, ConfigAssumption DEF YamlOk
<1>4. ConfigShapes'
  BY <1>2, <1>3 DEF ConfigInv, ConfigShapes
<1>5. Agrees' /\ EditsSurvive' /\ NeverHalfLoaded' /\ Shows'
  BY <1>2 DEF ConfigInv, Agrees, EditsSurvive, NeverHalfLoaded, Shows, FormShows
<1> QED BY <1>4, <1>5 DEF ConfigInv

(* A new process loads the file; the pages are closed. *)
LEMMA ConfigRestartKeepsConfig ==
  ASSUME ConfigInv, ConfigRestart
  PROVE  ConfigInv'
<1>1. PICK l : l = Load(yaml')
  OBVIOUS
<1>2. /\ current' = (IF l.ok THEN l.cfg ELSE DefaultConfig) /\ origin' = "start" /\ latest' = latest
      /\ page' = [c \in Clients |-> Closed]
  BY <1>1 DEF ConfigRestart, Started
<1>3. ills \subseteq ills' /\ ("cut" \notin ills' => yaml' = yaml)
  BY DEF ConfigRestart
<1>4. YamlOk(yaml') /\ (yaml'.at = "none" => yaml' = yaml)
  <2>1. CASE yaml' = yaml
    BY <2>1 DEF ConfigInv, ConfigShapes
  <2>2. CASE yaml' # yaml
    <3>1. PICK c \in Clients : yaml' \in Cut(Written(page[c].cfg))
      BY <2>2 DEF ConfigRestart
    <3>2. YamlOk(Written(page[c].cfg))
      BY FormKeepsShape DEF ConfigInv, ConfigShapes, PageOk
    <3> QED BY <3>1, <3>2, WhatIsLeft
  <2> QED BY <2>1, <2>2
<1>5. /\ CfgOk(l.cfg) /\ l.ok \in BOOLEAN
      /\ l.ok => /\ yaml'.at = "text" /\ l.cfg.live /\ l.cfg.main["provider"] \in Providers
                 /\ l.cfg.main["model"] # ""
  BY <1>1, <1>4, WhatLoads
<1>12. l.ok => l.cfg.main["limit"] # "0" /\ l.cfg.main["mode"] \in Modes
  BY <1>5 DEF CfgOk, MainOk
<1>6. /\ page' = [d \in Clients |-> page'[d]]
      /\ \A d \in Clients : PageOk(page'[d]) /\ page'[d].at = "closed"
  BY <1>2, ClosedPage
<1>7. ConfigShapes'
  <2>1. /\ CfgOk(current') /\ (yaml'.at = "none" => current' = DefaultConfig)
        /\ current'.main["provider"] \in Providers /\ current'.main["model"] # ""
    BY <1>2, <1>5, ClosedPage
  <2> QED BY <1>2, <1>4, <1>6, <2>1 DEF ConfigInv, ConfigShapes
<1>8. Agrees'
  BY <1>1, <1>2, <1>3 DEF ConfigInv, Agrees
<1>9. EditsSurvive'
  <2> SUFFICES ASSUME ills' = {}, NEW f \in DOMAIN latest PROVE Meaning(f, Form(current')[f]) = Meaning(f, latest[f])
    BY <1>2 DEF EditsSurvive
  <2>1. ills = {} /\ yaml' = yaml /\ yaml.at # "none" /\ f \in Fields
    BY <1>2, <1>3 DEF ConfigInv, ConfigShapes
  <2>2. Meant(current') = Meant(current) /\ CfgOk(current) /\ CfgOk(current')
    BY <1>1, <1>2, <1>5, <2>1 DEF ConfigInv, ConfigShapes, Agrees
  <2>3. Meaning(f, Form(current')[f]) = Meaning(f, Form(current)[f])
    BY <2>1, <2>2, SameMeaning
  <2> QED BY <2>1, <2>3 DEF ConfigInv, EditsSurvive
<1>10. NeverHalfLoaded'
  BY <1>2, <1>5, <1>12 DEF NeverHalfLoaded, Modes
<1>11. Shows'
  BY <1>6 DEF Shows, FormShows
<1> QED BY <1>7, <1>8, <1>9, <1>10, <1>11 DEF ConfigInv

(* The settings are kept whatever happens. *)
LEMMA ConfigInvariance == ConfigInit /\ [][ConfigNext]_configVars => []ConfigInv
<1>1. ASSUME ConfigInv, [ConfigNext]_configVars PROVE ConfigInv'
  <2>1. CASE ConfigNext
    BY <1>1, <2>1, GetFormKeepsConfig, PutFormKeepsConfig, PutSaveKeepsConfig, PutFailsKeepsConfig,
       HandEditKeepsConfig, ConfigRestartKeepsConfig DEF ConfigNext
  <2>2. CASE UNCHANGED configVars
    BY <1>1, <2>2 DEF configVars, ConfigInv, ConfigShapes, Agrees, Shows, EditsSurvive, NeverHalfLoaded
  <2> QED BY <1>1, <2>1, <2>2
<1> QED BY <1>1, ConfigStarts, PTL

(* A save changes what was edited on the page, what it does not send and   *)
(* what it cannot show, and nothing else.                                   *)
LEMMA SavesOnlyTheEdit ==
  ASSUME ConfigInv, [ConfigNext]_configVars, NEW c \in Clients,
         page[c].at = "saving", page'[c].at = "open", page'[c].edited = {}, "stale" \notin ills', "cleared" \notin ills
  PROVE  \A f \in Fields \ (page[c].edited \cup NotSent) :
             Hidden(f, current) \/ Meaning(f, Form(current')[f]) = Meaning(f, Form(current)[f])
<1>1. CASE PutSave(c)
  <2>1. PICK p : p = page[c] /\ PageOk(p) /\ p.at = "saving"
    BY DEF ConfigInv, ConfigShapes
  <2>2. current' = p.cfg /\ ills \subseteq ills'
    BY <1>1, <2>1 DEF PutSave
  <2>3. FormShows(p, current, ills) /\ p.cfg = FromForm(p.form, current)
    BY <2>1, <2>2 DEF ConfigInv, Shows, FormShows
  <2>4. PICK form, cfg : form = p.form /\ cfg = p.cfg /\ cfg = FromForm(form, current)
    BY <2>3
  <2>5. ASSUME NEW f \in Fields \ (p.edited \cup NotSent), ~Hidden(f, current)
        PROVE  Meaning(f, form[f]) = Meaning(f, Form(current)[f])
    BY <2>1, <2>3, <2>4, <2>5 DEF FormShows
  <2>6. CASE form["image_provider"] # "" \/ form["image_model"] # ""
    <3>1. FormOk(form) /\ CfgOk(current)
      BY <2>1, <2>4 DEF PageOk, ConfigInv, ConfigShapes
    <3>2. \A f \in Fields : Meaning(f, Form(FromForm(form, current))[f]) = Meaning(f, form[f])
      BY ZenonT(30), <2>6, <3>1, FormComesBack
    <3> QED BY <2>1, <2>2, <2>4, <2>5, <3>2
  <2>7. CASE ~(form["image_provider"] # "" \/ form["image_model"] # "")
    <3>1. cfg = FromForm(form, current)
      BY <2>4
    <3>2. cfg.image = current.image /\ \A f \in MainFields : cfg.main[f] = form[f]
      BY <2>7, <3>1 DEF FromForm, Restrict
    <3>3. \A f \in ImageFields : f \in Fields /\ f \notin MainFields
      BY DEF ImageFields, MainFields, Fields
    <3>4. \A f \in ImageFields : Form(cfg)[f] = Form(current)[f]
      BY <3>2, <3>3 DEF Form, Fields
    <3>5. \A f \in MainFields : Form(cfg)[f] = form[f]
      BY <3>2 DEF Form
    <3> QED BY <2>1, <2>2, <2>4, <2>5, <3>4, <3>5 DEF Fields
  <2> QED BY <2>6, <2>7
<1>2. ASSUME NEW d \in Clients, GetForm(d)
      PROVE  FALSE
  <2>1. PICK opened : /\ opened = [page EXCEPT ![d] = Idle("open", Shown(Form(current')))]
                      /\ page' = opened \/ page' = Aged(opened, d)
    BY <1>2 DEF GetForm
  <2>2. d # c /\ page = [x \in Clients |-> page[x]]
    BY <1>2 DEF GetForm, ConfigInv, ConfigShapes
  <2>3. opened[c] = page[c]
    BY <2>1, <2>2
  <2>4. page'[c].at = "saving"
    BY <2>1, <2>2, <2>3 DEF Aged
  <2> QED BY <2>4
<1>3. ASSUME NEW d \in Clients, PutForm(d)
      PROVE  FALSE
  <2>1. CASE d = c
    BY <1>3, <2>1 DEF PutForm
  <2>2. CASE d # c
    BY <1>3, <2>2 DEF PutForm, ConfigInv, ConfigShapes
  <2> QED BY <2>1, <2>2
<1>4. ASSUME NEW d \in Clients, d # c, PutSave(d)
      PROVE  FALSE
  BY <1>4 DEF PutSave, Overtaken
<1>5. ASSUME NEW d \in Clients, PutFails(d)
      PROVE  current' = current
  BY <1>5 DEF PutFails
<1>6. HandEdit => current' = current
  BY DEF HandEdit
<1>7. ConfigRestart => FALSE
  BY DEF ConfigRestart, Closed, Idle
<1>8. UNCHANGED configVars => current' = current
  BY DEF configVars
<1> QED BY <1>1, <1>2, <1>3, <1>4, <1>5, <1>6, <1>7, <1>8 DEF ConfigNext

(* A setting is kept (configfile.go, kugelblitz-ui/config.go), whatever     *)
(* pages, hand edits, failing writes and restarts there are: memory and     *)
(* file agree, edits survive, no half configuration is used, and saving a   *)
(* page changes only what was edited on it, what it does not send and what  *)
(* it cannot show.                                                          *)
THEOREM SettingsStayKept == ConfigInit /\ [][ConfigNext]_configVars => SettingsKept
<1>1. ConfigInv => MemoryIsFile /\ EditsSurvive /\ NeverHalfLoaded
  BY DEF ConfigInv, Agrees, MemoryIsFile
<1>2. ASSUME ConfigInv, [ConfigNext]_configVars
      PROVE  [\A c \in Clients :
                page[c].at = "saving" /\ page'[c].at = "open" /\ page'[c].edited = {}
                /\ "stale" \notin ills' /\ "cleared" \notin ills =>
                   \A f \in (MainFields \cup ImageFields) \ (page[c].edited \cup NotSent) :
                       Hidden(f, current) \/ Meaning(f, Form(current')[f]) = Meaning(f, Form(current)[f])]_configVars
  BY <1>2, SavesOnlyTheEdit DEF Fields
<1> QED BY <1>1, <1>2, ConfigInvariance, PTL DEF SettingsKept, OnlyTheEditCounts

-----------------------------------------------------------------------------
(* The plan a user sees. *)

PlanOf(id, st, ts) == [plan |-> id, status |-> st, tasks |-> ts]
StoredPlan(st, ts) == [status |-> st, tasks |-> ts]
MirrorShapes ==
  /\ \E id, st, ts : mirror = PlanOf(id, st, ts)
  /\ DOMAIN plans \subseteq PlanIds /\ plans = [i \in DOMAIN plans |-> plans[i]]
  /\ \A i \in DOMAIN plans : \E st, ts : plans[i] = StoredPlan(st, ts)

MirrorInv ==
  /\ MirrorShapes /\ ShownIsStored /\ PageIsMirror
  /\ mirror # NoPlan => mirror.plan # "none"
  /\ mirror = NoPlan => sent = NoPlan
  /\ turnOpen => turnPlans = <<>>

(* What a tool's output does to the plan the user sees.                    *)
LEMMA Derived ==
  ASSUME MirrorInv, NEW tool, NEW id, NEW st, tool = "plan_create" => id # "none",
         DerivePlanUpdate(tool, [id |-> id, status |-> st])
  PROVE  /\ \E pl, s, ts : mirror' = PlanOf(pl, s, ts)
         /\ tool = "plan_create" => mirror'.plan = id /\ mirror'.status = "init"
         /\ tool # "plan_create" => /\ mirror'.plan = mirror.plan
                                    /\ mirror'.status = IF tool = "confirm_plan" /\ mirror # NoPlan /\ mirror.plan = id
                                                         THEN st ELSE mirror.status
         /\ mirror' # NoPlan => mirror'.plan # "none" /\ sent' = mirror'
         /\ mirror' = NoPlan => mirror = NoPlan /\ sent' = sent
<1> DEFINE out == [id |-> id, status |-> st]
<1>1. PICK pl, s, ts : mirror = PlanOf(pl, s, ts)
  BY DEF MirrorInv, MirrorShapes
<1>2. out.id = id /\ out.status = st
  OBVIOUS
<1> HIDE DEF out
<1>3. /\ mirror' = CASE tool = "plan_create" -> Created(out)
                     [] tool = "confirm_plan" -> Confirmed(out)
                     [] tool = "task_insert" -> Inserted(out)
                     [] tool = "task_status_update" -> StatusSet(out)
                     [] tool = "task_delete" -> Deleted(out)
                     [] OTHER -> mirror
      /\ sent' = IF mirror' = NoPlan THEN sent ELSE mirror'
  BY DEF DerivePlanUpdate, out
<1>4. Created(out) = PlanOf(id, "init", {})
  BY <1>2 DEF Created, PlanOf
<1>5. Confirmed(out) = IF mirror # NoPlan /\ pl = id THEN PlanOf(pl, st, ts) ELSE mirror
  BY <1>1, <1>2 DEF Confirmed, PlanOf
<1>9. mirror = NoPlan => ts = {} /\ s = "" /\ pl = "none"
  <2>1. PlanOf(pl, s, ts).tasks = ts /\ PlanOf(pl, s, ts).status = s /\ PlanOf(pl, s, ts).plan = pl
    BY DEF PlanOf
  <2>2. NoPlan.tasks = {} /\ NoPlan.status = "" /\ NoPlan.plan = "none"
    BY DEF NoPlan
  <2> QED BY <1>1, <2>1, <2>2
<1>6. \E u : Inserted(out) = PlanOf(pl, s, u) /\ (mirror = NoPlan => u = {})
  <2>1. CASE mirror # NoPlan
    BY <1>1, <2>1 DEF Inserted, PlanOf
  <2>2. CASE mirror = NoPlan
    BY <1>1, <1>9, <2>2 DEF Inserted
  <2> QED BY <2>1, <2>2
<1>7. \E u : StatusSet(out) = PlanOf(pl, s, u) /\ (mirror = NoPlan => u = {})
  <2>1. PICK u : u = {IF mirror # NoPlan /\ t.id = out.id /\ out.id # ""
                      THEN [t EXCEPT !.status = out.status] ELSE t : t \in mirror.tasks}
    OBVIOUS
  <2>2. StatusSet(out) = [mirror EXCEPT !.tasks = u]
    BY <2>1 DEF StatusSet
  <2>3. mirror.tasks = ts /\ [mirror EXCEPT !.tasks = u] = PlanOf(pl, s, u)
    BY <1>1 DEF PlanOf
  <2> QED BY <1>9, <2>1, <2>2, <2>3
<1>8. \E u : Deleted(out) = PlanOf(pl, s, u) /\ (mirror = NoPlan => u = {})
  <2>1. PICK u : u = {t \in mirror.tasks : t.id # out.id \/ out.id = ""}
    OBVIOUS
  <2>2. Deleted(out) = [mirror EXCEPT !.tasks = u]
    BY <2>1 DEF Deleted
  <2>3. mirror.tasks = ts /\ [mirror EXCEPT !.tasks = u] = PlanOf(pl, s, u)
    BY <1>1 DEF PlanOf
  <2> QED BY <1>9, <2>1, <2>2, <2>3
<1>10. PICK u : /\ mirror' = IF tool = "plan_create" THEN PlanOf(id, "init", {})
                             ELSE IF tool = "confirm_plan" /\ mirror # NoPlan /\ pl = id THEN PlanOf(pl, st, ts)
                             ELSE PlanOf(pl, s, u)
                /\ mirror = NoPlan => u = {}
  <2>1. CASE tool = "task_insert"
    BY <1>3, <1>6, <2>1
  <2>2. CASE tool = "task_status_update"
    BY <1>3, <1>7, <2>2
  <2>3. CASE tool = "task_delete"
    BY <1>3, <1>8, <2>3
  <2>4. CASE tool \notin {"task_insert", "task_status_update", "task_delete"}
    BY <1>1, <1>3, <1>4, <1>5, <1>9, <2>4
  <2> QED BY <2>1, <2>2, <2>3, <2>4
<1>11. \A x, y, z : PlanOf(x, y, z).plan = x /\ PlanOf(x, y, z).status = y
  BY DEF PlanOf
<1>12. NoPlan.plan = "none"
  BY DEF NoPlan
<1>13. mirror # NoPlan => pl # "none"
  BY <1>1, <1>11 DEF MirrorInv
<1>14. mirror = NoPlan \/ mirror' # NoPlan
  BY <1>10, <1>11, <1>12, <1>13
<1>15. \E x, y, z : mirror' = PlanOf(x, y, z)
  BY <1>10
<1>16. mirror.plan = pl /\ mirror.status = s
  BY <1>1, <1>11
<1>17. tool = "plan_create" => mirror'.plan = id /\ mirror'.status = "init"
  BY <1>10, <1>11
<1>18. tool # "plan_create" => /\ mirror'.plan = pl
                              /\ mirror'.status = IF tool = "confirm_plan" /\ mirror # NoPlan /\ pl = id THEN st ELSE s
  BY <1>10, <1>11
<1>19. mirror' # NoPlan => mirror'.plan # "none" /\ sent' = mirror'
  <2>1. NoPlan = PlanOf("none", "", {})
    BY DEF NoPlan, PlanOf
  <2>2. CASE mirror = NoPlan /\ tool # "plan_create"
    <3>1. mirror' = PlanOf(pl, s, u)
      BY <1>10, <2>2
    <3>2. pl = "none" /\ s = "" /\ u = {}
      BY <1>9, <1>10, <2>2
    <3> QED BY <2>1, <3>1, <3>2
  <2>3. CASE mirror # NoPlan \/ tool = "plan_create"
    <3>1. mirror'.plan # "none"
      BY <1>13, <1>17, <1>18, <2>3
    <3> QED BY <1>3, <3>1
  <2> QED BY <2>2, <2>3
<1>20. mirror' = NoPlan => mirror = NoPlan /\ sent' = sent
  BY <1>3, <1>14
<1> QED BY <1>15, <1>16, <1>17, <1>18, <1>19, <1>20

(* No plan is shown at the start. *)
LEMMA MirrorStarts == MirrorInit => MirrorInv
<1> SUFFICES ASSUME MirrorInit PROVE MirrorInv
  OBVIOUS
<1>1. mirror = PlanOf("none", "", {})
  BY DEF MirrorInit, NoPlan, PlanOf
<1>2. DOMAIN plans = {} /\ plans = [i \in {} |-> plans[i]]
  BY DEF MirrorInit
<1>3. MirrorShapes
  BY <1>1, <1>2 DEF MirrorShapes
<1>4. ShownIsStored /\ PageIsMirror
  BY <1>2 DEF MirrorInit, ShownIsStored, PageIsMirror
<1> QED BY <1>3, <1>4 DEF MirrorInv, MirrorInit

(* A tool ends: the store changes before, in a way the output tells or in   *)
(* one that is remembered.                                                  *)
LEMMA ToolKeepsMirror ==
  ASSUME MirrorInv, NEW tool, NEW id, NEW st, tool = "plan_create" => id # "none",
         ToolEnds(tool, [id |-> id, status |-> st]),
         DOMAIN plans' \subseteq PlanIds, plans' = [i \in DOMAIN plans' |-> plans'[i]],
         \A i \in DOMAIN plans' : \E s, ts : plans'[i] = StoredPlan(s, ts),
         tool = "plan_create" /\ id \in DOMAIN plans' => plans'[id].status = "init",
         tool = "confirm_plan" /\ id \in DOMAIN plans' => plans'[id].status = st,
         \A i \in DOMAIN plans' \ touched' :
            \/ tool \in {"plan_create", "confirm_plan"} /\ i = id
            \/ (i \in DOMAIN plans \ touched /\ plans'[i].status = plans[i].status)
  PROVE  MirrorInv'
<1>1. DerivePlanUpdate(tool, [id |-> id, status |-> st]) /\ turnPlans' = turnPlans /\ turnOpen' = turnOpen
  BY DEF ToolEnds
<1>2. /\ \E pl, s, ts : mirror' = PlanOf(pl, s, ts)
      /\ tool = "plan_create" => mirror'.plan = id /\ mirror'.status = "init"
      /\ tool # "plan_create" => /\ mirror'.plan = mirror.plan
                                 /\ mirror'.status = IF tool = "confirm_plan" /\ mirror # NoPlan /\ mirror.plan = id
                                                      THEN st ELSE mirror.status
      /\ mirror' # NoPlan => mirror'.plan # "none" /\ sent' = mirror'
      /\ mirror' = NoPlan => mirror = NoPlan /\ sent' = sent
  BY <1>1, Derived
<1>3. MirrorShapes'
  BY <1>2 DEF MirrorShapes
<1>4. NoPlan.plan = "none" /\ "none" \notin PlanIds
  BY MirrorAssumption DEF NoPlan
<1>5. ShownIsStored'
  <2> SUFFICES ASSUME mirror'.plan \in DOMAIN plans' \ touched'
               PROVE  mirror'.status = plans'[mirror'.plan].status
    BY DEF ShownIsStored
  <2>1. CASE tool = "plan_create"
    BY <1>2, <2>1
  <2>2. CASE tool # "plan_create" /\ tool = "confirm_plan" /\ mirror.plan = id
    <3>1. mirror # NoPlan
      BY <1>2, <1>4, <2>2
    <3> QED BY <1>2, <2>2, <3>1
  <2>3. CASE tool # "plan_create" /\ ~(tool = "confirm_plan" /\ mirror.plan = id)
    <3>1. mirror'.plan = mirror.plan /\ mirror'.status = mirror.status
      BY <1>2, <2>3
    <3>2. mirror.plan \in DOMAIN plans \ touched /\ plans'[mirror.plan].status = plans[mirror.plan].status
      BY <2>3, <3>1
    <3> QED BY <3>1, <3>2 DEF MirrorInv, ShownIsStored
  <2> QED BY <2>1, <2>2, <2>3
<1>6. PageIsMirror' /\ (mirror' = NoPlan => sent' = NoPlan) /\ (mirror' # NoPlan => mirror'.plan # "none")
  BY <1>2 DEF PageIsMirror, MirrorInv
<1> QED BY <1>1, <1>3, <1>5, <1>6 DEF MirrorInv

(* Each plan tool. *)
LEMMA ToolsKeepMirror ==
  ASSUME MirrorInv,
         PlanCreate \/ ConfirmPlan \/ TaskInsert \/ TaskStatusUpdate \/ TaskDelete \/ ToolFails \/ SaveFails
  PROVE  MirrorInv'
<1>1. NoOutput = [id |-> "", status |-> ""] /\ "" # "none" /\ "" \notin PlanIds /\ "none" \notin PlanIds
  BY MirrorAssumption DEF NoOutput
<1>2. /\ DOMAIN plans \subseteq PlanIds /\ plans = [i \in DOMAIN plans |-> plans[i]]
      /\ \A i \in DOMAIN plans : \E s, ts : plans[i] = StoredPlan(s, ts)
  BY DEF MirrorInv, MirrorShapes
<1>3. \A s, ts : StoredPlan(s, ts).status = s
  BY DEF StoredPlan
<1>4. CASE PlanCreate
  <2>1. PICK id \in PlanIds \ DOMAIN plans :
          /\ plans' = Extend(plans, id, [status |-> "init", tasks |-> {}])
          /\ ToolEnds("plan_create", [id |-> id, status |-> ""]) /\ touched' = touched
    BY <1>4 DEF PlanCreate
  <2>3. /\ DOMAIN plans' = DOMAIN plans \cup {id} /\ plans' = [i \in DOMAIN plans' |-> plans'[i]]
        /\ plans'[id] = StoredPlan("init", {}) /\ \A i \in DOMAIN plans : plans'[i] = plans[i]
    BY <2>1 DEF Extend, StoredPlan
  <2>4. ToolEnds("plan_create", [id |-> id, status |-> ""])
    BY <2>1
  <2>5. \A i \in DOMAIN plans' : \E s, ts : plans'[i] = StoredPlan(s, ts)
    BY <1>2, <2>3
  <2>6. id # "none" /\ plans'[id].status = "init" /\ DOMAIN plans' \subseteq PlanIds
    BY ZenonT(30), <1>1, <1>2, <1>3, <2>3
  <2>7. \A i \in DOMAIN plans' \ touched' : i = id \/ (i \in DOMAIN plans \ touched /\ plans'[i].status = plans[i].status)
    BY <2>1, <2>3
  <2> QED BY ZenonT(30), <2>3, <2>4, <2>5, <2>6, <2>7, ToolKeepsMirror
<1> DEFINE Set(id, s) == plans' = [plans EXCEPT ![id].status = s]
<1>5. ASSUME NEW id \in DOMAIN plans, NEW st, Set(id, st)
      PROVE  /\ DOMAIN plans' = DOMAIN plans /\ plans' = [i \in DOMAIN plans' |-> plans'[i]]
             /\ \A i \in DOMAIN plans' : \E s, ts : plans'[i] = StoredPlan(s, ts)
             /\ plans'[id].status = st /\ \A i \in DOMAIN plans \ {id} : plans'[i] = plans[i]
  <2>1. PICK s, ts : plans[id] = StoredPlan(s, ts)
    BY <1>2
  <2>2. [plans[id] EXCEPT !.status = st] = StoredPlan(st, ts)
    BY <2>1 DEF StoredPlan
  <2>3. plans' = [i \in DOMAIN plans |-> IF i = id THEN StoredPlan(st, ts) ELSE plans[i]]
    BY <1>2, <1>5, <2>2
  <2> QED BY <1>2, <1>3, <2>3
<1>6. CASE ConfirmPlan
  <2>1. PICK id \in DOMAIN plans, st \in {"doing", "rejected", "update"} :
          Set(id, st) /\ ToolEnds("confirm_plan", [id |-> id, status |-> st]) /\ touched' = touched \ {id}
    BY <1>6 DEF ConfirmPlan
  <2> HIDE DEF Set
  <2>2. id # "none"
    BY <1>1, <1>2
  <2>3. /\ DOMAIN plans' = DOMAIN plans /\ plans' = [i \in DOMAIN plans' |-> plans'[i]]
        /\ \A i \in DOMAIN plans' : \E s, ts : plans'[i] = StoredPlan(s, ts)
        /\ plans'[id].status = st /\ \A i \in DOMAIN plans \ {id} : plans'[i] = plans[i]
    BY <1>5, <2>1
  <2>4. \A i \in DOMAIN plans' \ touched' : i = id \/ (i \in DOMAIN plans \ touched /\ plans'[i].status = plans[i].status)
    BY <2>1, <2>3
  <2> QED BY <1>2, <2>1, <2>2, <2>3, <2>4, ToolKeepsMirror
<1>7. CASE SaveFails
  <2>1. PICK id \in DOMAIN plans, st \in {"doing", "rejected", "update"} :
          Set(id, st) /\ ToolEnds("confirm_plan", NoOutput) /\ touched' = touched \cup {id}
    BY <1>7 DEF SaveFails
  <2> HIDE DEF Set
  <2>2. ToolEnds("confirm_plan", [id |-> "", status |-> ""])
    BY <1>1, <2>1
  <2>3. /\ DOMAIN plans' = DOMAIN plans /\ plans' = [i \in DOMAIN plans' |-> plans'[i]]
        /\ \A i \in DOMAIN plans' : \E s, ts : plans'[i] = StoredPlan(s, ts)
        /\ \A i \in DOMAIN plans \ {id} : plans'[i] = plans[i]
    BY <1>5, <2>1
  <2>4. \A i \in DOMAIN plans' \ touched' : i \in DOMAIN plans \ touched /\ plans'[i].status = plans[i].status
    BY <2>1, <2>3
  <2>5. "" \notin DOMAIN plans'
    BY <1>1, <1>2, <2>3
  <2> QED BY <1>1, <1>2, <2>2, <2>3, <2>4, <2>5, ToolKeepsMirror
<1>8. CASE ToolFails
  <2>1. PICK tool : ToolEnds(tool, NoOutput)
    BY <1>8 DEF ToolFails
  <2>2. ToolEnds(tool, [id |-> "", status |-> ""])
    BY <1>1, <2>1
  <2>3. plans' = plans /\ touched' = touched
    BY <1>8 DEF ToolFails
  <2>4. "" \notin DOMAIN plans'
    BY <1>1, <1>2, <2>3
  <2> QED BY ZenonT(30), <1>1, <1>2, <2>2, <2>3, <2>4, ToolKeepsMirror
<1>9. ASSUME NEW id \in DOMAIN plans, NEW new, plans' = [plans EXCEPT ![id].tasks = new], touched' = touched,
             NEW tool, tool \notin {"plan_create", "confirm_plan"}, NEW oid, NEW st,
             ToolEnds(tool, [id |-> oid, status |-> st])
      PROVE  MirrorInv'
  <2>1. PICK s, ts : plans[id] = StoredPlan(s, ts)
    BY <1>2
  <2>2. [plans[id] EXCEPT !.tasks = new] = StoredPlan(s, new)
    BY <2>1 DEF StoredPlan
  <2>3. plans' = [i \in DOMAIN plans |-> IF i = id THEN StoredPlan(s, new) ELSE plans[i]]
    BY <1>2, <1>9, <2>2
  <2>4. /\ DOMAIN plans' = DOMAIN plans /\ plans' = [i \in DOMAIN plans' |-> plans'[i]]
        /\ \A i \in DOMAIN plans' : \E x, y : plans'[i] = StoredPlan(x, y)
        /\ \A i \in DOMAIN plans : plans'[i].status = plans[i].status
    BY <1>2, <1>3, <2>1, <2>3
  <2> QED BY <1>2, <1>9, <2>4, ToolKeepsMirror
<1>10. CASE TaskInsert
  <2>1. PICK id \in DOMAIN plans, t \in TaskIds :
          /\ plans' = [plans EXCEPT ![id].tasks = @ \cup {[id |-> t, status |-> "pending"]}]
          /\ ToolEnds("task_insert", NoOutput) /\ touched' = touched
    BY <1>10 DEF TaskInsert
  <2>2. PICK new : new = plans[id].tasks \cup {[id |-> t, status |-> "pending"]}
    OBVIOUS
  <2>3. plans' = [plans EXCEPT ![id].tasks = new]
    BY <1>2, <2>1, <2>2
  <2> QED BY <1>1, <1>9, <2>1, <2>3
<1>11. CASE TaskDelete
  <2>1. PICK id \in DOMAIN plans : \E t \in plans[id].tasks :
          /\ plans' = [plans EXCEPT ![id].tasks = @ \ {t}]
          /\ ToolEnds("task_delete", NoOutput) /\ touched' = touched
    BY <1>11 DEF TaskDelete
  <2>2. PICK t : /\ plans' = [plans EXCEPT ![id].tasks = @ \ {t}]
                 /\ ToolEnds("task_delete", NoOutput) /\ touched' = touched
    BY <2>1
  <2>3. PICK new : new = plans[id].tasks \ {t}
    OBVIOUS
  <2>4. plans' = [plans EXCEPT ![id].tasks = new]
    BY <1>2, <2>2, <2>3
  <2> QED BY <1>1, <1>9, <2>2, <2>4
<1>12. CASE TaskStatusUpdate
  <2>1. PICK id \in DOMAIN plans, st \in {"pending", "doing", "done", "failed"} : \E t \in plans[id].tasks :
          /\ plans' = [plans EXCEPT ![id].tasks = (@ \ {t}) \cup {[t EXCEPT !.status = st]}]
          /\ ToolEnds("task_status_update", [id |-> t.id, status |-> st]) /\ touched' = touched
    BY <1>12 DEF TaskStatusUpdate
  <2>2. PICK t : /\ plans' = [plans EXCEPT ![id].tasks = (@ \ {t}) \cup {[t EXCEPT !.status = st]}]
                 /\ ToolEnds("task_status_update", [id |-> t.id, status |-> st]) /\ touched' = touched
    BY <2>1
  <2>3. PICK new : new = (plans[id].tasks \ {t}) \cup {[t EXCEPT !.status = st]}
    OBVIOUS
  <2>4. plans' = [plans EXCEPT ![id].tasks = new]
    BY <1>2, <2>2, <2>3
  <2> QED BY <1>9, <2>2, <2>4
<1> QED BY <1>4, <1>6, <1>7, <1>8, <1>10, <1>11, <1>12

(* The turns, the engine and failing saves. *)
LEMMA OthersKeepMirror ==
  ASSUME MirrorInv, TurnStarts \/ TurnEnds \/ TurnDropped \/ EngineMoves
  PROVE  MirrorInv'
<1>1. NoPlan = PlanOf("none", "", {}) /\ NoPlan.plan = "none" /\ "none" \notin PlanIds
  BY MirrorAssumption DEF NoPlan, PlanOf
<1>2. CASE TurnStarts
  <2>1. /\ mirror' = NoPlan /\ sent' = NoPlan /\ turnPlans' = <<>> /\ plans' = plans /\ touched' = touched
    BY <1>2 DEF TurnStarts, Forgotten
  <2>2. MirrorShapes'
    <3>1. \E id, st, ts : mirror' = PlanOf(id, st, ts)
      BY <1>1, <2>1
    <3> QED BY <2>1, <3>1 DEF MirrorInv, MirrorShapes
  <2>3. ShownIsStored' /\ PageIsMirror'
    BY <1>1, <2>1, <2>2 DEF MirrorShapes, ShownIsStored, PageIsMirror
  <2> QED BY <2>1, <2>2, <2>3 DEF MirrorInv
<1>3. CASE TurnEnds \/ TurnDropped
  BY <1>3 DEF TurnEnds, TurnDropped, MirrorInv, MirrorShapes, ShownIsStored, PageIsMirror
<1>4. CASE EngineMoves
  <2>1. PICK id \in DOMAIN plans \ touched, st \in {"done", "failed", "init"} :
          plans' = [plans EXCEPT ![id].status = st] /\ touched' = touched \cup {id}
    BY <1>4 DEF EngineMoves
  <2>2. /\ mirror' = mirror /\ turnPlans' = turnPlans /\ turnOpen' = turnOpen
        /\ sent' = IF mirror = NoPlan THEN sent ELSE mirror
    BY <1>4 DEF EngineMoves
  <2>3. /\ DOMAIN plans \subseteq PlanIds /\ plans = [i \in DOMAIN plans |-> plans[i]]
        /\ \A i \in DOMAIN plans : \E s, ts : plans[i] = StoredPlan(s, ts)
    BY DEF MirrorInv, MirrorShapes
  <2>4. PICK s, ts : plans[id] = StoredPlan(s, ts)
    BY <2>3
  <2>5. [plans[id] EXCEPT !.status = st] = StoredPlan(st, ts)
    BY <2>4 DEF StoredPlan
  <2>6. plans' = [i \in DOMAIN plans |-> IF i = id THEN StoredPlan(st, ts) ELSE plans[i]]
    BY <2>1, <2>3, <2>5
  <2>7. MirrorShapes'
    BY <2>2, <2>3, <2>6 DEF MirrorInv, MirrorShapes
  <2>8. \A i \in DOMAIN plans' \ touched' : i \in DOMAIN plans \ touched /\ plans'[i] = plans[i]
    BY <2>1, <2>6
  <2>9. ShownIsStored'
    BY <2>2, <2>8 DEF MirrorInv, ShownIsStored
  <2> QED BY <2>2, <2>7, <2>9 DEF MirrorInv, PageIsMirror
<1> QED BY <1>2, <1>3, <1>4

(* Every step keeps the invariant. *)
LEMMA MirrorStep == ASSUME MirrorInv, [MirrorNext]_mirrorVars PROVE MirrorInv'
<1>1. CASE MirrorNext
  BY <1>1, ToolsKeepMirror, OthersKeepMirror DEF MirrorNext
<1>2. CASE UNCHANGED mirrorVars
  BY <1>2 DEF mirrorVars, MirrorInv, MirrorShapes, ShownIsStored, PageIsMirror
<1> QED BY <1>1, <1>2

(* What a turn leaves in the archive is the plan that was on the page.     *)
LEMMA TurnArchives ==
  ASSUME MirrorInv, TurnEnds
  PROVE  IF sent = NoPlan THEN turnPlans' = <<>> ELSE turnPlans' = <<sent>>
<1>1. turnOpen /\ turnPlans' = IF mirror = NoPlan THEN turnPlans ELSE WithPlan(turnPlans, mirror)
  BY DEF TurnEnds
<1>2. turnPlans = <<>> /\ turnPlans' = IF mirror = NoPlan THEN turnPlans ELSE WithPlan(turnPlans, mirror)
  BY <1>1 DEF MirrorInv
<1>3. CASE mirror = NoPlan
  BY <1>2, <1>3 DEF MirrorInv
<1>4. CASE mirror # NoPlan
  <2>1. sent = mirror
    BY <1>4 DEF MirrorInv, PageIsMirror
  <2>2. WithPlan(<<>>, mirror) = <<mirror>>
    BY DEF WithPlan
  <2> QED BY <1>2, <1>4, <2>1, <2>2
<1> QED BY <1>3, <1>4

(* The plan on the page is the plan (chat.go:361), as far as the results of *)
(* the tools tell, whichever plans the agent makes and whatever fails; and  *)
(* the one a turn ends with is the one archived.                            *)
THEOREM PlanStaysShown == MirrorInit /\ [][MirrorNext]_mirrorVars => PlanShown
<1>1. ASSUME MirrorInv, [MirrorNext]_mirrorVars
      PROVE  [TurnEnds =>
                (IF sent = NoPlan THEN turnPlans' = <<>> ELSE turnPlans' = <<sent>>)]_mirrorVars
  BY <1>1, TurnArchives
<1>2. MirrorInv => ShownIsStored /\ PageIsMirror
  BY DEF MirrorInv
<1>3. MirrorInv /\ [MirrorNext]_mirrorVars => MirrorInv'
  BY MirrorStep
<1> QED BY <1>1, <1>2, <1>3, MirrorStarts, PTL DEF PlanShown, ArchivedIsSent
=============================================================================
