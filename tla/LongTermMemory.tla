--------------------------- MODULE LongTermMemory ---------------------------
(***************************************************************************)
(* Long-term memory: MEMORY.md and its in-memory index (fact.go,            *)
(* markdown_persist.go), the memory tools (memory_tools.go), the write      *)
(* pipeline (write/pipeline.go, conflict.go, dedup.go), the dream cycle     *)
(* (dream/dream.go, scoring.go) and the rebuild of the vector index         *)
(* (index.go), as AgentLoop wires them (runtime/agent_loop.go).             *)
(*                                                                          *)
(* Every agent loop builds a LongTermMemory of its own over the one file.   *)
(* In a loop the tools of its agents, one pipeline run, one dream cycle and *)
(* the rebuild goroutines interleave; ltm.mu makes each call on the memory  *)
(* atomic, and nothing makes two calls atomic.  A dream may run while the   *)
(* agent works: activity is noted once, at the start of execute.            *)
(*                                                                          *)
(* A name is a normalised section with a key.  Confidence counts twentieths;*)
(* a unit of day is a period over which it fades by Fade units, and any     *)
(* time at all costs one unit.                                              *)
(***************************************************************************)
EXTENDS Integers, Sequences, FiniteSets, SequencesExt, FiniteSetsExt

CONSTANTS Loops,        \* live agent loops
          Names, SectionOf,   \* items, and the section of each
          Values, Empty, None,
          Told,         \* values that memory_store may be given: not empty
          Alike,        \* pairs that differ in case, contain each other, or satisfy the judge
          Reload,       \* Reload[v]: the value that parseMarkdown reads for v
          Batches,      \* what an extraction may return, if anything
          Insights,     \* what REM may find; a dream stores at most one
          MaxScores,    \* bound: items that a dream promotes or deprecates
          MaxCalls,     \* bound: tool calls, pipeline runs and dreams
          MaxDay, MaxFailures, MaxRestarts      \* bounds

Full == 20      \* confidence 1.0
Half == 10
Floor == 2
Step == 2       \* +0.1
Gap == 3        \* confidenceGap
Fade == 2

Candidates == [name : Names, spelling : {"normal", "other"}, value : Values, conf : Int]

ASSUME MemoryAssumption ==
  /\ Empty \in Values /\ None \notin Values \cup Loops /\ Told \subseteq Values \ {Empty}
  /\ SectionOf \in [Names -> STRING] /\ Reload \in [Values -> Values]
  /\ Batches \subseteq Seq(Candidates) \ {<<>>} /\ Insights \subseteq [name : Names, value : Values]
  /\ {MaxScores, MaxCalls, MaxDay, MaxFailures, MaxRestarts} \subseteq Nat

VARIABLES
  mem,        \* mem[l].items, mem[l].index: the LongTermMemory of loop l
  file,       \* the items in MEMORY.md
  day,
  pipe,       \* pipe[l]: the pipeline run of l
  dream,      \* dream[l]: the dream cycle of l
  rebuilds,   \* rebuilds[l]: rebuild goroutines, waiting and with items read
  docs,       \* the names in the vector index
  calls, failures, restarts,
  owner,      \* history: whose write the file holds
  lag,        \* history: lag[l]: a write of l failed and none succeeded since
  said,       \* history: said[l][n]: what an agent of l stored last, while it should hold
  odd,        \* history: names whose item an unsynchronised pair of calls changed
  unindexed   \* history: names stored without a rebuild since

ltmVars == <<mem, file, owner, lag>>
workVars == <<pipe, dream>>
indexVars == <<rebuilds, docs>>
boundVars == <<calls, restarts>>
wordVars == <<said, odd>>
vars == <<ltmVars, day, workVars, indexVars, boundVars, failures, wordVars, unindexed>>

Item(n, v, ver, c) == [name |-> n, value |-> v, version |-> ver, conf |-> c, at |-> day]

(* decayConfidence: nothing fades from an update in the future. *)
Decayed(it) ==
  IF it.at > day THEN it.conf
  ELSE Max({Floor, it.conf - 1 - Fade * (day - it.at)})

(* isSemanticMatch: the empty string is in every string. *)
SemanticMatch(v, w) == v = w \/ Empty \in {v, w} \/ <<v, w>> \in Alike \/ <<w, v>> \in Alike

(* rebuildIndex: a later item of a name wins. *)
IndexOf(items) ==
  [n \in {items[p].name : p \in DOMAIN items} |->
     Max({p \in DOMAIN items : items[p].name = n})]

Has(m, n) == n \in DOMAIN m.index
Get(m, n) == m.items[m.index[n]]

Added(m, it) == [items |-> Append(m.items, it),
                 index |-> [n \in DOMAIN m.index \cup {it.name} |->
                              IF n = it.name THEN Len(m.items) + 1 ELSE m.index[n]]]
Replaced(m, it) == [m EXCEPT !.items[m.index[it.name]] = it]
Put(m, it) == IF Has(m, it.name) THEN Replaced(m, it) ELSE Added(m, it)

(* Store: an equivalent value or a higher confidence wins, otherwise the    *)
(* new value is refused and nothing is written.                             *)
Store(m, n, v) ==
  IF ~Has(m, n) THEN Added(m, Item(n, v, 1, Full))
  ELSE LET old == Get(m, n)
           new == Replaced(m, Item(n, v, old.version + 1, Full))
       IN  IF SemanticMatch(old.value, v) \/ Decayed(old) < Full THEN new ELSE m

(* Mutant: the index entry of the moved item is not updated. *)
Removed_NoReindex(m, n) ==
  IF ~Has(m, n) THEN m
  ELSE LET last == Len(m.items)
       IN  [items |-> SubSeq([m.items EXCEPT ![m.index[n]] = m.items[last]], 1, last - 1),
            index |-> [k \in DOMAIN m.index \ {n} |-> m.index[k]]]

(* Remove: the last item takes the place of the removed one. *)
Removed(m, n) ==
  IF ~Has(m, n) THEN m
  ELSE LET last == Len(m.items)
           moved == m.items[last]
       IN  [items |-> SubSeq([m.items EXCEPT ![m.index[n]] = moved], 1, last - 1),
            index |-> [k \in DOMAIN m.index \ {n} |->
                         IF k = moved.name THEN m.index[n] ELSE m.index[k]]]

(* Mutant: the version chosen by the resolver is kept. *)
BulkStore_KeepVersion(m, batch) ==
  LET upTo[p \in 0 .. Len(batch)] ==
        IF p = 0 THEN m
        ELSE Put(upTo[p - 1],
                 Item(batch[p].name, batch[p].value, batch[p].version, batch[p].conf))
  IN  upTo[Len(batch)]

(* What BulkStore makes of the fact f: whatever stands there is replaced.   *)
Bumped(m, f) ==
  Item(f.name, f.value, IF Has(m, f.name) THEN Get(m, f.name).version + 1 ELSE f.version, f.conf)

(* BulkStore: one fact after the other. *)
BulkStore(m, batch) ==
  LET upTo[p \in 0 .. Len(batch)] ==
        IF p = 0 THEN m ELSE Put(upTo[p - 1], Bumped(upTo[p - 1], batch[p]))
  IN  upTo[Len(batch)]
-----------------------------------------------------------------------------
(* formatMarkdown: the items, grouped by section in order of appearance.    *)
Grouped(items) ==
  LET Same(q, p) == SectionOf[items[q].name] = SectionOf[items[p].name]
      first  == [p \in DOMAIN items |-> Min({q \in DOMAIN items : Same(q, p)})]
      UpTo(p) == {q \in DOMAIN items : first[q] < first[p] \/ (first[q] = first[p] /\ q <= p)}
  IN  [k \in DOMAIN items |-> items[CHOOSE p \in DOMAIN items : Cardinality(UpTo(p)) = k]]

(* parseMarkdown: a value that spans lines is cut at the first one, and     *)
(* loses its metadata with the others; the metadata of an empty value is    *)
(* read as the value.  A date is midnight UTC: today's may be in the future.*)
Parsed(it, ahead) ==
  [it EXCEPT !.value = Reload[@],
             !.version = IF Reload[it.value] = it.value THEN @ ELSE 1,
             !.conf = IF Reload[it.value] = it.value THEN @ ELSE Full,
             !.at = IF @ = day /\ ahead /\ Reload[it.value] = it.value THEN day + 1 ELSE @]

Loaded(ahead) ==
  LET items == [p \in DOMAIN file |-> Parsed(file[p], ahead)]
  IN  [items |-> items, index |-> IndexOf(items)]

Failure == failures < MaxFailures /\ failures' = failures + 1

(* The memory of l becomes m; a change is written to the file, or that      *)
(* fails, which Store does not report.                                      *)
Commit(l, m) ==
  /\ mem' = [mem EXCEPT ![l] = m]
  /\ IF m = mem[l] THEN UNCHANGED <<file, owner, lag, failures>>
     ELSE \/ file' = Grouped(m.items) /\ owner' = l /\ lag' = [lag EXCEPT ![l] = FALSE]
             /\ UNCHANGED failures
          \/ Failure /\ lag' = [lag EXCEPT ![l] = TRUE] /\ UNCHANGED <<file, owner>>

Written(l, m) == m = mem[l] \/ ~lag'[l]

Call == calls < MaxCalls /\ calls' = calls + 1

Says(l, n, v) == said' = [said EXCEPT ![l][n] = v]

NoRun == [stage |-> "idle", todo |-> <<>>, done |-> <<>>]
NoDream == [stage |-> "awake", seen |-> {}, left |-> 0, got |-> {}]

Init ==
  /\ mem = [l \in Loops |-> [items |-> <<>>, index |-> [n \in {} |-> 0]]]
  /\ file = <<>> /\ day = 0
  /\ pipe = [l \in Loops |-> NoRun] /\ dream = [l \in Loops |-> NoDream]
  /\ rebuilds = [l \in Loops |-> [waiting |-> 0, read |-> {}]] /\ docs = {}
  /\ calls = 0 /\ failures = 0 /\ restarts = 0
  /\ owner = None /\ lag = [l \in Loops |-> FALSE]
  /\ said = [l \in Loops |-> [n \in Names |-> None]]
  /\ odd = [l \in Loops |-> {}] /\ unindexed = [l \in Loops |-> {}]
-----------------------------------------------------------------------------
(* The tools memory_store and memory_remove. *)

NotIndexed(l, n) == unindexed' = [unindexed EXCEPT ![l] = @ \cup {n}]

(* The item of n changes by calls that a race put in an odd order. *)
Raced(l, n, yes) == odd' = IF yes THEN [odd EXCEPT ![l] = @ \cup {n}] ELSE odd

MemoryStore(l, n, v) ==
  /\ Call
  /\ LET m == Store(mem[l], n, v)
     IN  /\ Commit(l, m)
         /\ IF m = mem[l] THEN UNCHANGED wordVars
            ELSE Says(l, n, v) /\ odd' = [odd EXCEPT ![l] = @ \ {n}]
  /\ NotIndexed(l, n)
  /\ UNCHANGED <<day, workVars, indexVars, restarts>>

MemoryRemove(l, n) ==
  /\ Call
  /\ Commit(l, Removed(mem[l], n))
  /\ Says(l, n, None) /\ odd' = [odd EXCEPT ![l] = @ \ {n}]
  /\ UNCHANGED <<day, workVars, indexVars, restarts, unindexed>>
-----------------------------------------------------------------------------
(* The write pipeline. *)

(* clampConfidence *)
Clamp(c) == IF c <= 0 THEN Half ELSE Min({c, Full})

(* What a decision about n is made about: its item, if there is one.        *)
(* Versions do not tell: they start at 1 again after a removal.  The seen   *)
(* of a winner has what it was when it was resolved and deduplicated.       *)
Held(m, n) == IF Has(m, n) THEN {Get(m, n)} ELSE {}

(* resolveOne: the winner, the existing item as it is now among them. *)
Resolved(m, c) ==
  LET old == Get(m, c.name)
      new == [name |-> c.name, spelling |-> c.spelling, value |-> c.value,
              version |-> IF Has(m, c.name) THEN old.version + 1 ELSE 1,
              conf |-> Clamp(c.conf), seen |-> {Held(m, c.name)}]
      decayed == Decayed(old)
  IN  IF ~Has(m, c.name) THEN new
      ELSE IF SemanticMatch(old.value, c.value)
           THEN [new EXCEPT !.spelling = "normal", !.conf = Min({Full, decayed + Step})]
      ELSE IF new.conf - decayed >= Gap THEN new
      ELSE [new EXCEPT !.spelling = "normal", !.value = old.value,
                       !.version = old.version, !.conf = decayed]

(* One item of todo is done with; after the last the next stage begins.     *)
Advance(l, todo, taken, stage, next) ==
  LET done == pipe[l].done \o taken
  IN  pipe' = [pipe EXCEPT ![l] =
        IF Len(todo) > 1 THEN [stage |-> stage, todo |-> Tail(todo), done |-> done]
        ELSE [stage |-> next, todo |-> done, done |-> <<>>]]

(* The extraction, which if it fails ends the run at once, and the first of *)
(* its items: the LLM call reads the memory for the prompt only.            *)
Extract(l, b) ==
  /\ Call /\ pipe[l] = NoRun
  /\ Advance(l, b, <<Resolved(mem[l], Head(b))>>, "resolve", "dedup")
  /\ UNCHANGED <<ltmVars, day, dream, indexVars, restarts, failures, wordVars, unindexed>>

Resolve(l) ==
  /\ pipe[l].stage = "resolve"
  /\ Advance(l, pipe[l].todo, <<Resolved(mem[l], Head(pipe[l].todo))>>, "resolve", "dedup")
  /\ UNCHANGED <<ltmVars, day, dream, indexVars, boundVars, failures, wordVars, unindexed>>

(* isExistingDuplicate and isBatchDuplicate, which compares sections as     *)
(* they are spelled.                                                        *)
Duplicate(m, f, accepted) ==
  \/ Has(m, f.name) /\ SemanticMatch(Get(m, f.name).value, f.value)
  \/ \E a \in Range(accepted) :
       /\ a.spelling = f.spelling /\ SectionOf[a.name] = SectionOf[f.name]
       /\ a.name = f.name \/ SemanticMatch(a.value, f.value)

Dedup(l) ==
  /\ pipe[l].stage = "dedup"
  /\ LET f == Head(pipe[l].todo)
         g == [f EXCEPT !.seen = @ \cup {Held(mem[l], f.name)}]
     IN  Advance(l, pipe[l].todo, IF Duplicate(mem[l], f, pipe[l].done) THEN <<>> ELSE <<g>>,
                 "dedup", "store")
  /\ UNCHANGED <<ltmVars, day, dream, indexVars, boundVars, failures, wordVars, unindexed>>

(* A name that the batch stores twice, or that changed since it was resolved. *)
Undecided(l, batch) ==
  {n \in {f.name : f \in Range(batch)} :
     \E p \in DOMAIN batch : /\ batch[p].name = n
                             /\ \/ batch[p].seen # {Held(mem[l], n)}
                                \/ \E q \in DOMAIN batch \ {p} : batch[q].name = n}

(* The index step, which an error of the store step leaves out. *)
StartRebuild(l, written) ==
  rebuilds' = IF written THEN [rebuilds EXCEPT ![l].waiting = @ + 1] ELSE rebuilds

StoreBatch(l) ==
  /\ pipe[l].stage = "store"
  /\ LET batch == pipe[l].todo
         m == BulkStore(mem[l], batch)
     IN  /\ Commit(l, m)
         /\ StartRebuild(l, Written(l, m))
         /\ said' = [said EXCEPT ![l] = [n \in Names |->
                       IF \E f \in Range(batch) : f.name = n THEN None ELSE @[n]]]
         /\ odd' = [odd EXCEPT ![l] = @ \cup Undecided(l, batch)]
         /\ unindexed' = IF Written(l, m) THEN unindexed
                         ELSE [unindexed EXCEPT ![l] = @ \cup {f.name : f \in Range(batch)}]
  /\ pipe' = [pipe EXCEPT ![l] = NoRun]
  /\ UNCHANGED <<day, dream, docs, boundVars>>

(* Rebuild: All, then UpsertMany, which removes nothing. *)
ReadItems(l) ==
  /\ rebuilds[l].waiting > 0
  /\ rebuilds' = [rebuilds EXCEPT ![l].waiting = @ - 1,
                                  ![l].read = @ \cup {DOMAIN mem[l].index}]
  /\ unindexed' = [unindexed EXCEPT ![l] = {}]
  /\ UNCHANGED <<ltmVars, day, workVars, docs, boundVars, failures, wordVars>>

Upsert(l, names) ==
  /\ names \in rebuilds[l].read
  /\ rebuilds' = [rebuilds EXCEPT ![l].read = @ \ {names}]
  /\ \/ docs' = docs \cup names /\ UNCHANGED failures
     \/ Failure /\ UNCHANGED docs
  /\ UNCHANGED <<ltmVars, day, workVars, boundVars, wordVars, unindexed>>
-----------------------------------------------------------------------------
(* The dream cycle: All, two LLM calls, then for every item scored and for  *)
(* every insight calls on the memory.  What the model answers is chosen     *)
(* when it is acted on.  It may score an item twice, or none.               *)

LightSleep(l) ==
  /\ Call /\ dream[l] = NoDream /\ mem[l].items # <<>>
  /\ dream' = [dream EXCEPT ![l] = [stage |-> "deep", seen |-> Range(mem[l].items),
                                    left |-> MaxScores, got |-> {}]]
  /\ UNCHANGED <<ltmVars, day, pipe, indexVars, restarts, failures, wordVars, unindexed>>

(* scoreCandidate in units of 1/2000, without edges in the graph. *)
Score(it, llm) == 100 * llm + 60 * Min({it.version, 5}) + 15 * it.conf
Promoted(it) == \E llm \in 1..10 : Score(it, llm) >= 1100
Deprecated(it) == \E llm \in 1..10 : Score(it, llm) <= 600

Scoring(l) == dream[l].stage = "deep" /\ dream[l].left > 0
Acted(l) == dream' = [dream EXCEPT ![l].stage = "deep", ![l].left = @ - 1, ![l].got = {}]

(* The first half of a promotion: Get, whose answer is not checked. *)
PromoteGet(l, it) ==
  /\ Scoring(l) /\ Promoted(it)
  /\ dream' = [dream EXCEPT ![l].stage = "got", ![l].got =
       {[name |-> it.name, scored |-> it.value, seen |-> Held(mem[l], it.name),
         value |-> IF Has(mem[l], it.name) THEN Get(mem[l], it.name).value ELSE Empty]}]
  /\ UNCHANGED <<ltmVars, day, pipe, indexVars, boundVars, failures, wordVars, unindexed>>

(* Mutant: the value that was scored is stored, not the one just read. *)
PromoteStore_Scored(l, got) ==
  /\ Commit(l, Store(mem[l], got.name, got.scored))
  /\ Raced(l, got.name, got.seen = {} \/ got.seen # Held(mem[l], got.name))
  /\ NotIndexed(l, got.name)
  /\ Acted(l)
  /\ UNCHANGED <<day, pipe, indexVars, boundVars, said>>

(* The second half: Store of the value that Get returned. *)
PromoteStore(l, got) ==
  /\ Commit(l, Store(mem[l], got.name, got.value))
  /\ Raced(l, got.name, got.seen = {} \/ got.seen # Held(mem[l], got.name))
  /\ NotIndexed(l, got.name)
  /\ Acted(l)
  /\ UNCHANGED <<day, pipe, indexVars, boundVars, said>>

(* An item scored low is removed, whatever it says by now. *)
DeprecateItem(l, it) ==
  /\ Scoring(l) /\ Deprecated(it)
  /\ Commit(l, Removed(mem[l], it.name))
  /\ Says(l, it.name, None)
  /\ Raced(l, it.name, Held(mem[l], it.name) \notin {{}, {it}})
  /\ Acted(l)
  /\ UNCHANGED <<day, pipe, indexVars, boundVars, unindexed>>

(* An insight is stored like a fact of the agent, whatever its value. *)
StoreInsight(l, ins) ==
  /\ dream[l].stage = "deep"
  /\ Commit(l, Store(mem[l], ins.name, ins.value))
  /\ Says(l, ins.name, None)
  /\ NotIndexed(l, ins.name)
  /\ dream' = [dream EXCEPT ![l] = NoDream]
  /\ UNCHANGED <<day, pipe, indexVars, boundVars, odd>>

(* Nothing more to act on, or the scoring call failed. *)
Awake(l) ==
  /\ dream[l].stage = "deep"
  /\ dream' = [dream EXCEPT ![l] = NoDream]
  /\ UNCHANGED <<ltmVars, day, pipe, indexVars, boundVars, failures, wordVars, unindexed>>
-----------------------------------------------------------------------------
Day ==
  /\ day < MaxDay /\ day' = day + 1
  /\ UNCHANGED <<ltmVars, workVars, indexVars, boundVars, failures, wordVars, unindexed>>

(* What the file of l, its last write, keeps of what l's agents said. *)
Kept(l) == [n \in Names |->
  IF owner = l /\ ~lag[l] /\ said[l][n] # None /\ Reload[said[l][n]] = said[l][n]
  THEN said[l][n] ELSE None]

(* NewAgentLoop in the place of the loops gone, which are idle, or all of   *)
(* them after a crash: load, and RebuildIfStale.                            *)
Restart(gone, ahead) ==
  /\ restarts < MaxRestarts /\ restarts' = restarts + 1
  /\ \/ gone = Loops
     \/ \E l \in Loops : gone = {l} /\ pipe[l] = NoRun /\ dream[l] = NoDream
                         /\ rebuilds[l] = [waiting |-> 0, read |-> {}]
  /\ mem' = [l \in Loops |-> IF l \in gone THEN Loaded(ahead) ELSE mem[l]]
  /\ pipe' = [l \in Loops |-> IF l \in gone THEN NoRun ELSE pipe[l]]
  /\ dream' = [l \in Loops |-> IF l \in gone THEN NoDream ELSE dream[l]]
  /\ rebuilds' = [l \in Loops |-> IF l \in gone THEN [waiting |-> 0, read |-> {}]
                                  ELSE rebuilds[l]]
  /\ docs' = docs \cup {file[p].name : p \in DOMAIN file}
  /\ said' = [l \in Loops |-> IF l \in gone THEN Kept(l) ELSE said[l]]
  /\ odd' = [l \in Loops |-> IF l \in gone THEN {n \in odd[l] : Kept(l)[n] # None} ELSE odd[l]]
  /\ lag' = [l \in Loops |-> l \notin gone /\ lag[l]]
  /\ owner' = IF owner \in gone THEN None ELSE owner
  /\ unindexed' = [l \in Loops |-> IF l \in gone THEN {} ELSE unindexed[l]]
  /\ UNCHANGED <<file, day, calls, failures>>

Next ==
  \/ \E l \in Loops, n \in Names : \/ MemoryRemove(l, n)
                                   \/ \E v \in Told : MemoryStore(l, n, v)
  \/ \E l \in Loops : \/ \E b \in Batches : Extract(l, b)
                      \/ Resolve(l) \/ Dedup(l) \/ StoreBatch(l)
                      \/ ReadItems(l) \/ \E names \in rebuilds[l].read : Upsert(l, names)
  \/ \E l \in Loops : \/ LightSleep(l) \/ Awake(l)
                      \/ \E it \in dream[l].seen : PromoteGet(l, it) \/ DeprecateItem(l, it)
                      \/ \E got \in dream[l].got : PromoteStore(l, got)
                      \/ \E ins \in Insights : StoreInsight(l, ins)
  \/ Day
  \/ \E gone \in SUBSET Loops, ahead \in BOOLEAN : Restart(gone, ahead)

Spec == Init /\ [][Next]_vars
-----------------------------------------------------------------------------
ItemType == [name : Names, value : Values, version : Nat \ {0}, conf : 1..Full,
             at : 0..(MaxDay + 1)]

(* Values and confidences stay in range: an extraction's confidence, which  *)
(* a model may leave out, is clamped, and bumps stop at 1.0.                *)
TypeOK ==
  /\ \A l \in Loops : Range(mem[l].items) \subseteq ItemType
  /\ Range(file) \subseteq ItemType
  /\ docs \subseteq Names

(* The O(1) index finds every item at its place and no item twice, after    *)
(* any sequence of swap-removes, bulk writes and reloads.                   *)
IndexExact ==
  \A l \in Loops :
    /\ mem[l].index = IndexOf(mem[l].items)
    /\ Cardinality(DOMAIN mem[l].index) = Len(mem[l].items)

(* MEMORY.md holds what the loop that wrote it last remembers, unless a     *)
(* write of that loop failed: every change is written.                      *)
DiskFollows == \A l \in Loops : owner = l /\ ~lag[l] => file = Grouped(mem[l].items)

(* What an agent stored with memory_store is what the memory answers, until *)
(* an agent removes or replaces it, an extraction is confident enough, a    *)
(* dream deprecates it or has an insight about it; over restarts too, if it *)
(* was written and can be read back.  The exceptions, in odd, are the races *)
(* of the pipeline's and the dream's unsynchronised calls.                  *)
AgentsWord ==
  \A l \in Loops, n \in Names :
    said[l][n] # None /\ n \notin odd[l]
      => Has(mem[l], n) /\ Get(mem[l], n).value = said[l][n]

(* When no rebuild is under way and none failed, whatever the vector index  *)
(* lacks was stored by the tools or a dream, which start no rebuild.        *)
IndexCovers ==
  \A l \in Loops :
    rebuilds[l] = [waiting |-> 0, read |-> {}] /\ failures = 0
      => DOMAIN mem[l].index \subseteq docs \cup unindexed[l]

(* A changed value gets a higher version, also when the decision to change  *)
(* it was made about an older one.                                          *)
VersionsGrow ==
  [][\A l \in Loops, n \in Names :
       /\ restarts' = restarts /\ Has(mem[l], n) /\ Has(mem'[l], n)
       /\ Get(mem[l], n).value # Get(mem'[l], n).value
       => Get(mem'[l], n).version > Get(mem[l], n).version]_vars

(* The pipeline replaces a value only with one that is more confident by    *)
(* the gap, however long the run took; except where the item changed        *)
(* during the run, or the batch names it twice in different spellings.  (A  *)
(* confidence below the floor is raised to it when it fades.)               *)
GapRespected ==
  [][\A l \in Loops, n \in Names :
       /\ pipe[l].stage = "store" /\ pipe'[l] = NoRun /\ restarts' = restarts
       /\ Has(mem[l], n) /\ n \notin Undecided(l, pipe[l].todo)
       /\ mem'[l] # mem[l] /\ Get(mem[l], n).value # Get(mem'[l], n).value
       => LET old == Get(mem[l], n)
          IN  Get(mem'[l], n).conf >= Min({old.conf, Decayed(old)}) + Gap]_vars

(* A fact is never blanked in place, although the empty string passes for   *)
(* equivalent to every value and only the tools refuse it; except by an     *)
(* insight without a value, or by a race.                                   *)
NeverBlanked ==
  [][\A l \in Loops, n \in Names :
       /\ Has(mem[l], n) /\ Has(mem'[l], n) /\ restarts' = restarts
       /\ Get(mem[l], n).value # Empty /\ Get(mem'[l], n).value = Empty
       => n \in odd'[l] \/ (dream[l].stage = "deep" /\ dream'[l] = NoDream)]_vars

(* What every change leaves in order (fact.go, index.go): the types, the    *)
(* O(1) index, MEMORY.md and the vector index.                              *)
MemoryKept == TypeOK /\ IndexExact /\ DiskFollows /\ IndexCovers

(* What no change does (conflict.go, fact.go): reuse a version, override a  *)
(* more confident value, blank a fact.                                      *)
ChangesOrdered == VersionsGrow /\ GapRespected /\ NeverBlanked
=============================================================================
