---------------------------- MODULE ConfigStore ----------------------------
(***************************************************************************)
(* The configuration: kugelblitz.yaml (cmd/common/configfile.go: Load,      *)
(* Save, applyRaw) and the settings pages of the web UI                     *)
(* (cmd/kugelblitz-ui/config.go, static/settings.js).  A page fetches the   *)
(* form, which reads the file again, shows it in its inputs, and later puts *)
(* all it sends back with an edit.  The handler of the put reads the        *)
(* configuration under one lock and saves under another.  Save writes in    *)
(* place: a failing write, or a crash, leaves a prefix of the keys, which   *)
(* are in alphabetical order, cut in the middle of a value or where the     *)
(* parser gives up.  People edit the file by hand, too.  Every value is a   *)
(* string that a text input can hold; one field stands for each kind:       *)
(* "dream" for auto_dream_enabled and "interval" for the three              *)
(* auto_dream_*_sec, which the page does not send; "limit" for the numbers; *)
(* "mode", "effort" and the providers for what the page has a choice of.    *)
(***************************************************************************)
EXTENDS Naturals, Sequences, SequencesExt, Functions, FiniteSets

CONSTANTS Clients,        \* settings pages
          ConfigEdits,    \* [field, to]: what a page changes
          HandFiles,      \* [flat, nested]: what people write into the file
          MaxPuts, MaxHandEdits, MaxWriteFailures, MaxConfigRestarts   \* bounds

VARIABLES yaml,         \* the file: [at: "none" | "text" | "bad", flat, nested]
          current,      \* currentConfig
          origin,       \* where it comes from: "start", "reload" or "put"
          page,         \* page[c]: [at, form, cfg, edited] of a client
          latest,       \* history: field -> the value it was last given by a put
          ills,         \* history: "stale" put, "hand" edit, "cut" file, "cleared" value
          configCount   \* [puts, hands, failures, restarts]

configVars == <<yaml, current, origin, page, latest, ills, configCount>>

KeyOrder == <<"key", "interval", "dream", "mode", "image_key", "image_model", "image_provider",
              "limit", "servers", "model", "provider", "effort", "stream">>
ImageFields == {"image_key", "image_model", "image_provider"}
MainFields == {"key", "interval", "dream", "mode", "limit", "servers", "model", "provider", "effort", "stream"}
Providers == {"deepseek", "openai"}

(* What the page can choose, and what it does not send. *)
Options == [f \in {"provider", "mode", "effort", "image_provider", "stream"} |->
              CASE f = "provider" -> Providers [] f = "mode" -> {"", "plan", "simple"}
                [] f = "effort" -> {"low", "high"} [] f = "stream" -> {"yes", "no"} [] OTHER -> Providers \cup {""}]
NotSent == {"dream", "interval"}

(* "nil" is no value: it marks the image model that is not there.          *)
ASSUME ConfigAssumption ==
    /\ \A e \in ConfigEdits :
         /\ e.field \in {"none"} \cup ((MainFields \cup ImageFields) \ NotSent)
         /\ e.to # "nil" /\ (e.field \in DOMAIN Options => e.to \in Options[e.field])
    /\ \A h \in HandFiles :
         /\ \A f \in DOMAIN h.flat : h.flat[f] # "nil"
         /\ \A f \in DOMAIN h.nested : h.nested[f] # "nil"

NoKeys == [f \in {} |-> ""]
NoImage == [f \in ImageFields |-> "nil"]
(* DefaultConfig: no provider is made. *)
DefaultConfig ==
    [main |-> [f \in MainFields |->
        CASE f = "provider" -> "deepseek" [] f = "model" -> "flash" [] f = "limit" -> "30"
          [] f = "interval" -> "1800" [] f = "effort" -> "high"
          [] f = "stream" -> "yes" [] f = "dream" -> "no" [] OTHER -> ""],
     image |-> NoImage, live |-> FALSE]

(* Whether applyRaw takes a value: no empty string, no zero, a known mode. *)
Taken(f, v) ==
    CASE f \in {"limit", "interval"} -> v # "0"
      [] f = "mode" -> v \in {"auto", "plan", "simple"}
      [] f \in {"stream", "dream"} -> TRUE
      [] OTHER -> v # ""
Value(f, v) == IF f \in {"stream", "dream"} /\ v # "yes" THEN "no" ELSE v

(* What a value means to the agents: no interval is the default one, "auto" *)
(* is no mode, and no provider is made of an image model whose name for it  *)
(* is unknown.                                                              *)
Meaning(f, v) ==
    CASE f = "interval" /\ v = "0" -> DefaultConfig.main["interval"]
      [] f = "mode" /\ v = "auto" -> ""
      [] f = "image_provider" /\ v \notin Providers -> ""
      [] OTHER -> v
Meant(cfg) == [main |-> [f \in MainFields |-> Meaning(f, cfg.main[f])], image |-> cfg.image, live |-> cfg.live]

(* Keys of a nested group win over flat ones; any image key makes an image *)
(* model.                                                                  *)
Applied(file, base) ==
    LET raw == [f \in DOMAIN file.flat \cup DOMAIN file.nested |-> IF f \in DOMAIN file.nested THEN file.nested[f] ELSE file.flat[f]]
    IN [main |-> [f \in MainFields |-> IF f \in DOMAIN raw /\ Taken(f, raw[f]) THEN Value(f, raw[f]) ELSE base.main[f]],
        image |-> IF DOMAIN raw \cap ImageFields = {} THEN base.image
                  ELSE [f \in ImageFields |-> IF f \in DOMAIN raw THEN raw[f] ELSE ""],
        live |-> TRUE]

(* Load: what is read, and whether there is an error. *)
Load(file) ==
    LET cfg == Applied(file, DefaultConfig)
    IN IF file.at = "text" /\ cfg.main["provider"] \in Providers THEN [ok |-> TRUE, cfg |-> cfg]
       ELSE [ok |-> FALSE, cfg |-> [main |-> cfg.main, image |-> cfg.image, live |-> FALSE]]

(* Save writes flat keys, those of the image model when there is one.      *)
Written_NoImage(cfg) == [at |-> "text", nested |-> NoKeys, flat |-> cfg.main]
Written(cfg) ==
    [at |-> "text", nested |-> NoKeys,
     flat |-> [f \in MainFields \cup (IF cfg.image = NoImage THEN {} ELSE ImageFields) |->
                 IF f \in MainFields THEN cfg.main[f] ELSE cfg.image[f]]]

(* What may be left of a file that was not written to its end.             *)
Cut(file) ==
    LET First(n) == {KeyOrder[i] : i \in 1..n} \cap DOMAIN file.flat
        Left(flat) == [at |-> "text", flat |-> flat, nested |-> NoKeys]
    IN {Left(Restrict(file.flat, First(n))) : n \in {n \in 0..Len(KeyOrder) : First(n) # DOMAIN file.flat}}
       \cup {Left([f \in First(n) |-> IF f = KeyOrder[n] THEN "cut" ELSE file.flat[f]]) :
               n \in {n \in 1..Len(KeyOrder) : KeyOrder[n] \in DOMAIN file.flat}}
       \cup {[at |-> "bad", flat |-> NoKeys, nested |-> NoKeys]}

(* toServerConfig *)
Form(cfg) ==
    [f \in MainFields \cup ImageFields |->
        IF f \in MainFields THEN cfg.main[f] ELSE IF cfg.image = NoImage THEN "" ELSE cfg.image[f]]

(* fromServerConfig: the image model of the form, if it names one, else the*)
(* one there is: it cannot be taken away.                                  *)
FromForm(form, existing) ==
    [main |-> Restrict(form, MainFields),
     image |-> IF form["image_provider"] # "" \/ form["image_model"] # "" THEN Restrict(form, ImageFields) ELSE existing.image,
     live |-> form["provider"] \in Providers]

-----------------------------------------------------------------------------
(* loadConfigForm: what the inputs show of a form.  A value that a choice   *)
(* does not have leaves it blank; an empty model gets the default.          *)
Shown(form) ==
    [f \in MainFields \cup ImageFields |->
        IF f \in DOMAIN Options THEN (IF form[f] \in Options[f] THEN form[f] ELSE "")
        ELSE IF f = "model" /\ form[f] = "" THEN DefaultConfig.main[f] ELSE form[f]]

(* saveConfig: what the page does not send is false or zero to the handler, *)
(* and a number is never zero.                                              *)
Posted(form) ==
    [form EXCEPT !["dream"] = "no", !["interval"] = "0",
                 !["limit"] = IF @ = "0" THEN DefaultConfig.main["limit"] ELSE @]

Idle(at, form) == [at |-> at, form |-> form, cfg |-> DefaultConfig, edited |-> {}]
Closed == Idle("closed", Shown(Form(DefaultConfig)))
(* The configuration changed under the forms the other pages show.         *)
Aged(pages, c) == [d \in Clients |-> IF d # c /\ pages[d].at = "open" THEN [pages[d] EXCEPT !.at = "stale"] ELSE pages[d]]
Overtaken(c) == {"stale" : d \in {d \in Clients \ {c} : page[d].at = "saving"}}

ConfigInit ==
    /\ yaml = [at |-> "none", flat |-> NoKeys, nested |-> NoKeys]
    /\ current = DefaultConfig /\ origin = "start"
    /\ page = [c \in Clients |-> Closed]
    /\ latest = NoKeys /\ ills = {}
    /\ configCount = [puts |-> 0, hands |-> 0, failures |-> 0, restarts |-> 0]

(* handleGetConfig: the file is read again; when it does not load, what is *)
(* in memory stays.                                                        *)
GetForm(c) ==
    /\ page[c].at \in {"closed", "open", "stale"}
    /\ LET l == Load(yaml)
       IN /\ current' = IF l.ok THEN l.cfg ELSE current
          /\ origin' = IF l.ok THEN "reload" ELSE origin
    /\ LET opened == [page EXCEPT ![c] = Idle("open", Shown(Form(current')))]
       IN IF Meant(current') = Meant(current) THEN page' = opened /\ ills' = ills
          ELSE page' = Aged(opened, c) /\ ills' = ills \cup Overtaken(c)
    /\ UNCHANGED <<yaml, latest, configCount>>

(* handlePutConfig, first part: the form with an edit meets what is current.*)
PutForm(c) ==
    /\ page[c].at \in {"open", "stale"} /\ configCount.puts < MaxPuts
    /\ \E e \in ConfigEdits :
         LET form == Posted(IF e.field = "none" THEN page[c].form ELSE [page[c].form EXCEPT ![e.field] = e.to])
         IN page' = [page EXCEPT ![c] = [at |-> "saving", form |-> form, cfg |-> FromForm(form, current),
                                         edited |-> @.edited \cup ({e.field} \ {"none"})]]
    /\ configCount' = [configCount EXCEPT !.puts = @ + 1]
    /\ ills' = ills \cup {"stale" : x \in {x \in {1} : page[c].at = "stale"}}
    /\ UNCHANGED <<yaml, current, origin, latest>>

(* The second part, under the lock: the file, then the memory.             *)
Unkept(cfg) == \E f \in MainFields : ~Taken(f, cfg.main[f]) /\ Meaning(f, cfg.main[f]) # DefaultConfig.main[f]
PutSave(c) ==
    /\ page[c].at = "saving"
    /\ LET cfg == page[c].cfg
           set == page[c].edited
       IN /\ yaml' = Written(cfg)
          /\ current' = cfg /\ origin' = "put"
          /\ latest' = [f \in DOMAIN latest \cup set |-> IF f \in set THEN page[c].form[f] ELSE latest[f]]
          /\ ills' = ills \cup Overtaken(c)
                          \cup {"cleared" : x \in {x \in {1} : Unkept(cfg)}}
                          \cup {"cleared" : x \in {x \in {1} : set \cap ImageFields # {} /\ page[c].form["image_model"] = ""}}
          /\ page' = Aged([page EXCEPT ![c] = [at |-> "open", form |-> page[c].form, cfg |-> cfg, edited |-> {}]], c)
    /\ UNCHANGED configCount

(* The write fails on its way; the memory keeps what it had.               *)
PutFails(c) ==
    /\ page[c].at = "saving" /\ configCount.failures < MaxWriteFailures
    /\ yaml' \in Cut(Written(page[c].cfg)) \cup {yaml}
    /\ page' = [page EXCEPT ![c].at = "open"]
    /\ ills' = ills \cup {"cut"}
    /\ configCount' = [configCount EXCEPT !.failures = @ + 1]
    /\ UNCHANGED <<current, origin, latest>>

HandEdit ==
    /\ configCount.hands < MaxHandEdits
    /\ yaml' \in {[at |-> "text", flat |-> h.flat, nested |-> h.nested] : h \in HandFiles}
    /\ ills' = ills \cup {"hand"}
    /\ configCount' = [configCount EXCEPT !.hands = @ + 1]
    /\ UNCHANGED <<current, origin, page, latest>>

(* A new process (LoadConfig), perhaps because the old one ended in a write*)
Started(l) == IF l.ok THEN l.cfg ELSE DefaultConfig
ConfigRestart ==
    /\ configCount.restarts < MaxConfigRestarts
    /\ yaml' \in {yaml} \cup UNION {Cut(Written(page[c].cfg)) : c \in {d \in Clients : page[d].at = "saving"}}
    /\ current' = Started(Load(yaml')) /\ origin' = "start"
    /\ page' = [c \in Clients |-> Closed]
    /\ ills' = ills \cup {"cut" : x \in {x \in {1} : yaml' # yaml}}
    /\ configCount' = [configCount EXCEPT !.restarts = @ + 1]
    /\ UNCHANGED latest

ConfigNext ==
    \/ \E c \in Clients : GetForm(c) \/ PutForm(c) \/ PutSave(c) \/ PutFails(c)
    \/ HandEdit \/ ConfigRestart

-----------------------------------------------------------------------------
(* What is saved can be read again: without a hand edit, a cut file or a    *)
(* cleared field, what the agents are given means what a new process would *)
(* load.  Save (configfile.go:58) and applyRaw (:115) name every field      *)
(* twice, at 60 lines' distance.                                            *)
MemoryIsFile ==
    ills \cap {"hand", "cut", "cleared"} = {} /\ yaml.at # "none" => Meant(current) = Meant(Load(yaml).cfg)

(* A setting someone saved holds until it is set again, over reloads,      *)
(* restarts and other edits, unless one of the four ills befell it.        *)
EditsSurvive ==
    ills = {} => \A f \in DOMAIN latest : Meaning(f, Form(current)[f]) = Meaning(f, latest[f])

(* Load's errors come with a half filled configuration (configfile.go:25,  *)
(* 31), which nobody may use: what was loaded has a provider, a positive   *)
(* limit and a known mode, or it is all defaults.  (A put is not checked.) *)
NeverHalfLoaded ==
    origin # "put" =>
        \/ current = DefaultConfig
        \/ /\ current.live
           /\ current.main["limit"] # "0" /\ current.main["mode"] \in {"", "auto", "plan", "simple"}

(* Of a reasoning effort that the page has no option for it shows nothing. *)
Hidden(f, cfg) == f = "effort" /\ cfg.main[f] \notin Options[f]

(* Putting back the form as it was fetched changes no setting, and an edit *)
(* changes no setting but its own, those the page does not send            *)
(* (auto_dream_enabled, its two intervals and its cooldown go back to the  *)
(* default with every put) and one that it could not show.  A cleared field*)
(* is shown as the default, and an image model stays if the form's is      *)
(* emptied: from then on the form is not what it would change.             *)
OnlyTheEditCounts ==
    [][\A c \in Clients :
         page[c].at = "saving" /\ page'[c].at = "open" /\ page'[c].edited = {} /\ "stale" \notin ills' /\ "cleared" \notin ills =>
            \A f \in (MainFields \cup ImageFields) \ (page[c].edited \cup NotSent) :
                Hidden(f, current) \/ Meaning(f, Form(current')[f]) = Meaning(f, Form(current)[f])]_configVars

(* A setting is kept (configfile.go, kugelblitz-ui/config.go): memory and   *)
(* file agree, edits survive, no half configuration is used, and saving a   *)
(* page changes only what was edited on it, and what it cannot show.        *)
SettingsKept == [](MemoryIsFile /\ EditsSurvive /\ NeverHalfLoaded) /\ OnlyTheEditCounts
=============================================================================
