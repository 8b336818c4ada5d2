----------------------------- MODULE MediaFlow -----------------------------
(***************************************************************************)
(* Media: the attachments of a turn on their way into the request          *)
(* (kugelblitz-ui/chat.go, core/media.go, core/types/agent_input.go), and  *)
(* the files they can be kept in (memory/media_converter.go), a package    *)
(* interface that the turn does not call.  A payload is the kind of its    *)
(* bytes; a MIME type is a class and a form.                               *)
(***************************************************************************)
EXTENDS Naturals, Sequences, SequencesExt, FiniteSets

CONSTANTS Attachments,   \* what a page may send at once: sequences of attachments
          ModelConfigs,  \* configurations a turn may find: [of, auto]
          MediaSessions, MediaIds,
          MaxMediaSteps  \* bound: turns and operations on files

(* The kinds of bytes: those some sniffer knows, and a text, which none does.*)
Kinds == {"png", "jpeg", "gif", "webp", "mp3", "wav", "m4a", "mp4", "mov", "webm", "webm audio", "webm video", "text"}
Attachment == [type : {"image", "audio", "video", "file"}, kind : Kinds, huge : BOOLEAN]

(* A kind of media has a model of its own, or none, or one whose provider   *)
(* could not be made ("dead"); auto is auto_describe_media.                *)
ModelConfig == [of : [{"image", "audio"} -> {"none", "live", "dead"}], auto : BOOLEAN]

ASSUME MediaAssumption == Attachments \subseteq Seq(Attachment) /\ ModelConfigs \subseteq ModelConfig

VARIABLES turnAt,      \* "idle", "normalising", "running", "refused"
          models,      \* the configuration the turn was started with
          queue,       \* attachments not looked at yet
          accepted,    \* inputMedia: [type, mime, kind]
          recorded,    \* the descriptions in the turn's history
          files,       \* <<session, id, extension>> -> kind of the bytes
          restored,    \* the last detail FileToBase64 returned, or NoDetail
          lastKept,    \* history: <<session, id>> -> the detail last written
          mediaSteps

mediaVars == <<turnAt, models, queue, accepted, recorded, files, restored, lastKept, mediaSteps>>

Mime(class, form) == [class |-> class, form |-> form]
NoDetail == [at |-> <<>>, mime |-> Mime("", ""), kind |-> ""]
NoFiles == [f \in {} |-> ""]
NoModels == [of |-> [type \in {"image", "audio"} |-> "none"], auto |-> FALSE]

MIMEWhitelist == [image |-> {"png", "jpeg", "gif", "webp"}, audio |-> {"mpeg", "wav", "mp4", "webm"},
                  video |-> {"mp4", "webm", "quicktime"}]

(* The standard library's sniffer. *)
DetectContentType(kind) ==
    CASE kind \in {"png", "jpeg", "gif", "webp"} -> Mime("image", kind)
      [] kind = "mp3" -> Mime("audio", "mpeg")
      [] kind = "wav" -> Mime("audio", "wave")
      [] kind = "mp4" -> Mime("video", "mp4")
      [] kind \in {"webm audio", "webm video", "webm"} -> Mime("video", "webm")
      [] OTHER -> Mime("application", "octet-stream")
DetectMediaType(kind) ==
    CASE kind = "mov" -> Mime("video", "quicktime")
      [] kind = "m4a" -> Mime("audio", "mp4")
      [] kind = "webm audio" -> Mime("audio", "webm")
      [] kind = "wav" -> Mime("audio", "wav")
      [] OTHER -> DetectContentType(kind)

(* Normalize: the type is the caller's word, the MIME type what is found.  *)
Normal(a) ==
    LET mime == DetectMediaType(a.kind)
    IN mime.class = a.type /\ mime.form \in MIMEWhitelist[a.type] /\ ~a.huge

(* AgentInput.Validate *)
Homogeneous_Any(media) == TRUE
Homogeneous(media) == \A k \in DOMAIN media : media[k].type = media[1].type
(* AgentLoop.resolveProvider: the model for the first one's type, which is *)
(* the main model if that has none (as a video), and no model at all if    *)
(* that of the type is dead.                                               *)
ModelOf(type) ==
    IF type \notin {"image", "audio"} \/ models.of[type] = "none" THEN "text"
    ELSE IF models.of[type] = "live" THEN type ELSE "nil"
ModelFor(media) == IF media = <<>> THEN "text" ELSE ModelOf(media[1].type)

MimeToExt(m) ==
    IF m.class \in DOMAIN MIMEWhitelist /\ m.form \in MIMEWhitelist[m.class]
    THEN CASE m.form = "mpeg" -> "mp3" [] m.form = "quicktime" -> "mov" [] OTHER -> m.form
    ELSE "bin"
ExtToMIME(ext) ==
    CASE ext \in {"png", "jpeg", "gif", "webp"} -> Mime("image", ext)
      [] ext = "mp3" -> Mime("audio", "mpeg")
      [] ext = "wav" -> Mime("audio", "wav")
      [] ext \in {"mp4", "webm"} -> Mime("video", ext)
      [] ext = "mov" -> Mime("video", "quicktime")
      [] OTHER -> Mime("application", "octet-stream")

-----------------------------------------------------------------------------
MediaInit ==
    /\ turnAt = "idle" /\ models = NoModels /\ queue = <<>> /\ accepted = <<>> /\ recorded = <<>>
    /\ files = NoFiles /\ restored = NoDetail /\ lastKept = NoFiles /\ mediaSteps = 0

Tick == mediaSteps < MaxMediaSteps /\ mediaSteps' = mediaSteps + 1

(* A page knows images and audio only: anything else is taken for an image.*)
(* The configuration may have been changed between two turns.              *)
Send ==
    /\ turnAt \in {"idle", "running", "refused"}
    /\ Tick
    /\ \E atts \in Attachments :
         queue' = [k \in DOMAIN atts |-> [atts[k] EXCEPT !.type = IF @ = "audio" THEN "audio" ELSE "image"]]
    /\ models' \in ModelConfigs
    /\ turnAt' = "normalising" /\ accepted' = <<>> /\ recorded' = <<>>
    /\ UNCHANGED <<files, restored, lastKept>>

(* A model is asked if there is one for the type and describing is on;     *)
(* else, or if it fails, the description is the metadata.                  *)
Describers == IF models.auto THEN {type \in {"image", "audio"} : models.of[type] = "live"} ELSE {}
Describe(type) == {"metadata"} \cup (IF type \in Describers THEN {"words"} ELSE {})
(* One attachment: what is not accepted is left out of the turn.           *)
Attach ==
    /\ turnAt = "normalising" /\ queue # <<>>
    /\ queue' = Tail(queue)
    /\ LET a == Head(queue)
       IN IF ~Normal(a) THEN UNCHANGED <<accepted, recorded>>
          ELSE /\ accepted' = Append(accepted, [type |-> a.type, mime |-> DetectMediaType(a.kind), kind |-> a.kind])
               /\ \E d \in Describe(a.type) : recorded' = Append(recorded, [mime |-> DetectMediaType(a.kind), words |-> d])
    /\ UNCHANGED <<turnAt, models, files, restored, lastKept, mediaSteps>>

RunTurn ==
    /\ turnAt = "normalising" /\ queue = <<>>
    /\ turnAt' = IF Homogeneous(accepted) THEN "running" ELSE "refused"
    /\ UNCHANGED <<models, queue, accepted, recorded, files, restored, lastKept, mediaSteps>>

Put1(f, x, v) == [y \in DOMAIN f \cup {x} |-> IF y = x THEN v ELSE f[y]]
Without(f, xs) == [y \in DOMAIN f \ xs |-> f[y]]

(* Base64ToFile *)
Keep(s, id) ==
    /\ Tick
    /\ \E d \in ToSet(accepted) :
         /\ files' = Put1(files, <<s, id, MimeToExt(d.mime)>>, d.kind)
         /\ lastKept' = Put1(lastKept, <<s, id>>, [at |-> <<s, id>>, mime |-> d.mime, kind |-> d.kind])
    /\ restored' = NoDetail
    /\ UNCHANGED <<turnAt, models, queue, accepted, recorded>>

(* The first match of id.* in the directory, in the order of names.        *)
Place == [bin |-> 1, gif |-> 2, jpeg |-> 3, mov |-> 4, mp3 |-> 5, mp4 |-> 6, png |-> 7, wav |-> 8, webm |-> 9, webp |-> 10]
Extensions(s, id) == {ext \in DOMAIN Place : <<s, id, ext>> \in DOMAIN files}
Match(s, id) == CHOOSE ext \in Extensions(s, id) : \A e \in Extensions(s, id) : Place[ext] <= Place[e]

(* FileToBase64 *)
RestoreMedia(s, id) ==
    /\ Extensions(s, id) # {}
    /\ restored' = [at |-> <<s, id>>, mime |-> ExtToMIME(Match(s, id)), kind |-> files[<<s, id, Match(s, id)>>]]
    /\ UNCHANGED <<turnAt, models, queue, accepted, recorded, files, lastKept, mediaSteps>>

(* Remove takes one file. *)
RemoveMedia(s, id) ==
    /\ Extensions(s, id) # {} /\ Tick
    /\ files' = Without(files, {<<s, id, Match(s, id)>>})
    /\ restored' = NoDetail
    /\ UNCHANGED <<turnAt, models, queue, accepted, recorded, lastKept>>

PruneSession(s) ==
    /\ Tick
    /\ files' = Without(files, {f \in DOMAIN files : f[1] = s})
    /\ lastKept' = Without(lastKept, {k \in DOMAIN lastKept : k[1] = s})
    /\ restored' = NoDetail
    /\ UNCHANGED <<turnAt, models, queue, accepted, recorded>>

MediaNext ==
    \/ Send \/ Attach \/ RunTurn
    \/ \E s \in MediaSessions : PruneSession(s)
    \/ \E s \in MediaSessions, id \in MediaIds : Keep(s, id) \/ RestoreMedia(s, id) \/ RemoveMedia(s, id)

-----------------------------------------------------------------------------
(* Every payload of a run gets the model that its bytes ask for, not what   *)
(* the page said of them: its kind's own if there is one and the main model *)
(* if not (agent_loop.go:229).  One model is chosen, by the type of the     *)
(* first payload: normalisation, validation and choice have to agree.      *)
ModelMatchesMedia ==
    turnAt = "running" => \A k \in DOMAIN accepted : ModelFor(accepted) = ModelOf(accepted[k].mime.class)

(* The history of the turn has one description for each payload of the     *)
(* request, of its MIME type, and none for what was left out, even when the *)
(* describing model fails.                                                 *)
HistoryShowsMedia ==
    /\ Len(recorded) = Len(accepted)
    /\ \A k \in DOMAIN recorded : recorded[k].mime = accepted[k].mime /\ (recorded[k].words = "words" => accepted[k].type \in Describers)

(* What was kept comes back with its bytes and its MIME type, as long as   *)
(* the id has one file: only audio in an mp4 or webm container comes back  *)
(* as video (media_converter.go:145).                                      *)
MediaComesBack ==
    \A k \in DOMAIN lastKept :
        restored.at = k /\ Extensions(k[1], k[2]) = {MimeToExt(lastKept[k].mime)} =>
            /\ restored.kind = lastKept[k].kind
            /\ \/ restored.mime = lastKept[k].mime
               \/ lastKept[k].mime.class = "audio" /\ restored.mime = [lastKept[k].mime EXCEPT !.class = "video"]

(* Media reach the right model, the history shows them, and what is stored  *)
(* comes back as it was (media.go, media_converter.go, chat.go).            *)
MediaRight == ModelMatchesMedia /\ HistoryShowsMedia /\ MediaComesBack
=============================================================================
