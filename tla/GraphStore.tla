----------------------------- MODULE GraphStore -----------------------------
(***************************************************************************)
(* The knowledge graph of the long-term memory (memory/longterm/graph.go). *)
(* A writer is one run of the write pipeline (two workers of a plan may    *)
(* call memory_extract at once): it adds the entities of its batch, then   *)
(* the relationships, each under the lock, and then persists the graph.    *)
(* persist ranges over the maps WITHOUT the lock, so what it writes is     *)
(* assembled from two moments.  Reload after a crash reads what is there.  *)
(* Names are compared with EqualFold: Fold maps a spelling to its class.   *)
(* The queries (neighbours, path, subgraph) are operators on the state.    *)
(***************************************************************************)
EXTENDS Naturals, Sequences, SequencesExt, FiniteSetsExt

CONSTANTS Writers,             \* pipelines that may run at once
          Fold,                \* spelling -> its case-folded form
          GraphBatches,        \* [entities: Seq([name, type, labels]), rels: Seq([from, to, type, weight])]
          MaxBatches,          \* bound: batches started
          MaxGraphFailures,    \* bound: failing writes of the file
          MaxGraphRestarts     \* bound: restarts of the process

VARIABLES entities,   \* id -> [name, type, labels]
          rels,       \* the relationships in order of insertion
          adjOut,     \* id -> places in rels, outgoing
          adjIn,      \* id -> places in rels, incoming
          graphDisk,  \* memory_graph.jsonl
          view,       \* memory_graph.md, the drawing
          writer,     \* what each pipeline is doing
          mishap,     \* history: "overlap" of two writers, "failure" of a write
          graphCount  \* [ids, batches, failures, restarts]

graphVars == <<entities, rels, adjOut, adjIn, graphDisk, view, writer, mishap, graphCount>>

NoEntities == [id \in {} |-> 0]
EmptyGraph == [entities |-> NoEntities, rels |-> <<>>]
Resting == [at |-> "idle", batch |-> [entities |-> <<>>, rels |-> <<>>], file |-> EmptyGraph]

(* The relationships the drawing shows: those with both ends known. *)
Drawn(es, rs) == [nodes |-> es, edges |-> {rs[i] : i \in {j \in DOMAIN rs : rs[j].from \in DOMAIN es /\ rs[j].to \in DOMAIN es}}]

Places(adj, id) == IF id \in DOMAIN adj THEN adj[id] ELSE <<>>
AdjAdded(adj, id, place) == [x \in DOMAIN adj \cup {id} |-> IF x = id THEN Append(Places(adj, id), place) ELSE adj[x]]

(* Load: the adjacency lists are built again while the lines are read. *)
RECURSIVE Indexed(_, _, _)
Indexed(rs, n, end) ==
    IF n = 0 THEN NoEntities
    ELSE AdjAdded(Indexed(rs, n - 1, end), IF end = "from" THEN rs[n].from ELSE rs[n].to, n)

-----------------------------------------------------------------------------
GraphInit ==
    /\ entities = NoEntities /\ rels = <<>> /\ adjOut = NoEntities /\ adjIn = NoEntities
    /\ graphDisk = EmptyGraph /\ view = Drawn(NoEntities, <<>>)
    /\ writer = [w \in Writers |-> Resting]
    /\ mishap = {}
    /\ graphCount = [ids |-> 0, batches |-> 0, failures |-> 0, restarts |-> 0]

(* UpsertRelationships is called with what one extraction found. *)
StartBatch(w) ==
    /\ writer[w].at = "idle" /\ graphCount.batches < MaxBatches
    /\ \E b \in GraphBatches : writer' = [writer EXCEPT ![w] = [@ EXCEPT !.at = "adding", !.batch = b]]
    /\ graphCount' = [graphCount EXCEPT !.batches = @ + 1]
    /\ mishap' = mishap \cup {"overlap" : v \in {v \in Writers \ {w} : writer[v].at # "idle"}}
    /\ UNCHANGED <<entities, rels, adjOut, adjIn, graphDisk, view>>

Known_Exact(c) == {id \in DOMAIN entities : entities[id].name = c.name /\ entities[id].type = c.type}
Known(c) == {id \in DOMAIN entities : Fold[entities[id].name] = Fold[c.name] /\ Fold[entities[id].type] = Fold[c.type]}

Merged(old, c) == [old EXCEPT !.labels = @ \cup c.labels]

(* One entity, under the lock: a match merges the labels and keeps the    *)
(* name it was first given; map iteration picks any match.                *)
UpsertEntity(w) ==
    /\ writer[w].at = "adding" /\ writer[w].batch.entities # <<>>
    /\ writer' = [writer EXCEPT ![w].batch.entities = Tail(@)]
    /\ LET c == Head(writer[w].batch.entities)
           fresh == graphCount.ids + 1
       IN \/ \E id \in Known(c) :
               /\ entities' = [entities EXCEPT ![id] = Merged(@, c)]
               /\ UNCHANGED graphCount
          \/ /\ Known(c) = {}
             /\ entities' = [id \in DOMAIN entities \cup {fresh} |-> IF id = fresh THEN c ELSE entities[id]]
             /\ graphCount' = [graphCount EXCEPT !.ids = fresh]
    /\ UNCHANGED <<rels, adjOut, adjIn, graphDisk, view, mishap>>

(* resolveName: any entity of that name, whatever its type. *)
ResolveName(name) == {id \in DOMAIN entities : Fold[entities[id].name] = Fold[name]}

Same(f, t, type) == {i \in DOMAIN rels : rels[i].from = f /\ rels[i].to = t /\ rels[i].type = type}

(* One relationship, under the lock: dropped when an end is unknown, only *)
(* its weight raised when the same triple is there, else appended.        *)
AddRelationship(w) ==
    /\ writer[w].at = "adding" /\ writer[w].batch.entities = <<>> /\ writer[w].batch.rels # <<>>
    /\ writer' = [writer EXCEPT ![w].batch.rels = Tail(@)]
    /\ LET c == Head(writer[w].batch.rels)
       IN \/ /\ ResolveName(c.from) = {} \/ ResolveName(c.to) = {}
             /\ UNCHANGED <<rels, adjOut, adjIn>>
          \/ \E f \in ResolveName(c.from), t \in ResolveName(c.to) :
               \/ \E i \in Same(f, t, c.type) :
                    /\ rels' = [rels EXCEPT ![i].weight = IF c.weight > @ THEN c.weight ELSE @]
                    /\ UNCHANGED <<adjOut, adjIn>>
               \/ /\ Same(f, t, c.type) = {}
                  /\ rels' = Append(rels, [from |-> f, to |-> t, type |-> c.type, weight |-> c.weight])
                  /\ adjOut' = AdjAdded(adjOut, f, Len(rels) + 1)
                  /\ adjIn' = AdjAdded(adjIn, t, Len(rels) + 1)
    /\ UNCHANGED <<entities, graphDisk, view, mishap, graphCount>>

(* persist starts to range over g.entities, without the lock. *)
PersistBegin(w) ==
    /\ writer[w].at = "adding" /\ writer[w].batch.entities = <<>> /\ writer[w].batch.rels = <<>>
    /\ writer' = [writer EXCEPT ![w].at = "ranging", ![w].file = [entities |-> entities, rels |-> <<>>]]
    /\ UNCHANGED <<entities, rels, adjOut, adjIn, graphDisk, view, mishap, graphCount>>

(* The end of the range: an entity another writer put in meanwhile may be *)
(* seen or not (when the runtime does not stop the process: GraphRestart).*)
PersistEntities(w) ==
    /\ writer[w].at = "ranging"
    /\ \E seen \in SUBSET (DOMAIN entities \ DOMAIN writer[w].file.entities) :
         writer' = [writer EXCEPT ![w].at = "ranged",
                      ![w].file.entities = [id \in DOMAIN writer[w].file.entities \cup seen |-> entities[id]]]
    /\ UNCHANGED <<entities, rels, adjOut, adjIn, graphDisk, view, mishap, graphCount>>

(* The relationships are ranged over after it, and the file is replaced.  *)
PersistRels(w) ==
    /\ writer[w].at = "ranged"
    /\ writer' = [writer EXCEPT ![w].at = "storing", ![w].file.rels = rels]
    /\ UNCHANGED <<entities, rels, adjOut, adjIn, graphDisk, view, mishap, graphCount>>

PersistStore(w) ==
    /\ writer[w].at = "storing"
    /\ graphDisk' = writer[w].file
    /\ writer' = [writer EXCEPT ![w] = [Resting EXCEPT !.at = "drawing"]]
    /\ UNCHANGED <<entities, rels, adjOut, adjIn, view, mishap, graphCount>>

(* The file cannot be written: the error is dropped, nothing is drawn. *)
PersistFails(w) ==
    /\ writer[w].at = "storing" /\ graphCount.failures < MaxGraphFailures
    /\ writer' = [writer EXCEPT ![w] = Resting]
    /\ mishap' = mishap \cup {"failure"}
    /\ graphCount' = [graphCount EXCEPT !.failures = @ + 1]
    /\ UNCHANGED <<entities, rels, adjOut, adjIn, graphDisk, view>>

(* writeMermaid draws and stores under the read lock: of the graph as it  *)
(* is now, not of what was written to the file.                           *)
WriteMermaid(w) ==
    /\ writer[w].at = "drawing"
    /\ view' = Drawn(entities, rels)
    /\ writer' = [writer EXCEPT ![w] = Resting]
    /\ UNCHANGED <<entities, rels, adjOut, adjIn, graphDisk, mishap, graphCount>>

(* The drawing cannot be stored: that error is dropped, too. *)
DrawFails(w) ==
    /\ writer[w].at = "drawing" /\ graphCount.failures < MaxGraphFailures
    /\ writer' = [writer EXCEPT ![w] = Resting]
    /\ mishap' = mishap \cup {"failure"}
    /\ graphCount' = [graphCount EXCEPT !.failures = @ + 1]
    /\ UNCHANGED <<entities, rels, adjOut, adjIn, graphDisk, view>>

(* The process ends, at will or by the runtime's check on maps, and the   *)
(* next one loads the file into an empty graph and draws it, unless there *)
(* is nothing in it (or the drawing fails: nobody looks at the error).    *)
GraphRestart ==
    /\ graphCount.restarts < MaxGraphRestarts
    /\ graphCount' = [graphCount EXCEPT !.restarts = @ + 1]
    /\ entities' = graphDisk.entities /\ rels' = graphDisk.rels
    /\ adjOut' = Indexed(rels', Len(rels'), "from") /\ adjIn' = Indexed(rels', Len(rels'), "to")
    /\ \/ view' = (IF graphDisk = EmptyGraph THEN view ELSE Drawn(entities', rels')) /\ UNCHANGED mishap
       \/ view' = view /\ mishap' = mishap \cup {"failure"}
    /\ writer' = [w \in Writers |-> Resting]
    /\ UNCHANGED graphDisk

GraphNext ==
    \/ \E w \in Writers :
         \/ StartBatch(w) \/ UpsertEntity(w) \/ AddRelationship(w)
         \/ PersistBegin(w) \/ PersistEntities(w) \/ PersistRels(w)
         \/ PersistStore(w) \/ PersistFails(w) \/ WriteMermaid(w) \/ DrawFails(w)
    \/ GraphRestart

-----------------------------------------------------------------------------
(* The queries, as they are written: breadth first over the adjacency.    *)

Step(r, place, way) == [place |-> place, to |-> IF way = "out" THEN r.to ELSE r.from, way |-> way]
Steps(id) ==
    [k \in 1..Len(Places(adjOut, id)) |-> Step(rels[Places(adjOut, id)[k]], Places(adjOut, id)[k], "out")]
    \o [k \in 1..Len(Places(adjIn, id)) |-> Step(rels[Places(adjIn, id)[k]], Places(adjIn, id)[k], "in")]

(* Neighbors: every edge listed, every known entity once. *)
Neighbors(id) ==
    [rels |-> [k \in 1..Len(Steps(id)) |-> Steps(id)[k].place],
     entities |-> SetToSeq({Steps(id)[k].to : k \in 1..Len(Steps(id))} \cap DOMAIN entities)]

(* ShortestPath: todo holds <<id, path>>; a path alternates ids and steps.*)
RECURSIVE Bfs(_, _, _)
RECURSIVE Explore(_, _, _, _, _)
Explore(node, steps, todo, visited, goal) ==
    IF steps = <<>> THEN Bfs(todo, visited, goal)
    ELSE LET s == Head(steps)
             path == Append(node.path, s)
         IN IF s.to \in visited THEN Explore(node, Tail(steps), todo, visited, goal)
            ELSE IF s.to = goal THEN path
            ELSE Explore(node, Tail(steps), Append(todo, [id |-> s.to, path |-> path]), visited \cup {s.to}, goal)
NoPath == <<[place |-> 0, to |-> 0, way |-> "none"]>>
Bfs(todo, visited, goal) ==
    IF todo = <<>> THEN NoPath
    ELSE Explore(Head(todo), Steps(Head(todo).id), Tail(todo), visited, goal)
ShortestPath(from, goal) ==
    IF from = goal THEN <<>> ELSE Bfs(<<[id |-> from, path |-> <<>>]>>, {from}, goal)

(* Subgraph: depth first seen is kept; a node at the limit is not expanded.*)
RECURSIVE Widen(_, _, _, _)
Widen(todo, depth, found, hops) ==
    IF todo = <<>> THEN [ids |-> DOMAIN depth, rels |-> found]
    ELSE LET id == Head(todo)
             steps == Steps(id)
             fresh == {steps[k].to : k \in DOMAIN steps} \ DOMAIN depth
         IN IF depth[id] >= hops THEN Widen(Tail(todo), depth, found, hops)
            ELSE Widen(Tail(todo) \o SetToSeq(fresh),
                       [x \in DOMAIN depth \cup fresh |-> IF x \in fresh THEN depth[id] + 1 ELSE depth[x]],
                       found \cup {steps[k].place : k \in DOMAIN steps}, hops)
Subgraph(id, hops) ==
    LET w == Widen(<<id>>, [x \in {id} |-> 0], {}, hops)
    IN [entities |-> w.ids \cap DOMAIN entities, rels |-> w.rels]

(* memory_search with needGraph: the edges of the entities found, by Id,  *)
(* each once.                                                              *)
RECURSIVE Gathered(_, _)
Gathered(list, seen) ==
    IF list = <<>> THEN <<>>
    ELSE IF Head(list) \in seen THEN Gathered(Tail(list), seen)
    ELSE <<Head(list)>> \o Gathered(Tail(list), seen \cup {Head(list)})
GraphAnswer(found) == Gathered(FlattenSeq([k \in 1..Len(found) |-> Neighbors(found[k]).rels]), {})
-----------------------------------------------------------------------------
(* What the graph promises. *)

RECURSIVE Ball(_, _)
Ball(id, n) ==
    IF n = 0 THEN {id}
    ELSE LET b == Ball(id, n - 1)
         IN b \cup {rels[i].to : i \in {j \in DOMAIN rels : rels[j].from \in b}}
              \cup {rels[i].from : i \in {j \in DOMAIN rels : rels[j].to \in b}}

Quiet == \A w \in Writers : writer[w].at = "idle"

(* UpsertEntity (graph.go:222): a name and a type, whatever their case,    *)
(* have one entity, with two pipelines adding and over restarts.           *)
OneEntityPerName ==
    \A i, j \in DOMAIN entities :
        /\ Fold[entities[i].name] = Fold[entities[j].name]
        /\ Fold[entities[i].type] = Fold[entities[j].type]
        => i = j

(* The adjacency maps, kept by AddRelationship and built again by Load,   *)
(* hold each relationship once at each of its ends, and no triple of      *)
(* from, to and type occurs twice.                                        *)
GraphIndexExact ==
    /\ \A i, j \in DOMAIN rels : (rels[i].from = rels[j].from /\ rels[i].to = rels[j].to /\ rels[i].type = rels[j].type) => i = j
    /\ \A id \in 1..graphCount.ids :
         /\ IsInjective(Places(adjOut, id)) /\ IsInjective(Places(adjIn, id))
         /\ ToSet(Places(adjOut, id)) = {i \in DOMAIN rels : rels[i].from = id}
         /\ ToSet(Places(adjIn, id)) = {i \in DOMAIN rels : rels[i].to = id}

(* Without an overlap and without a failed write every relationship has    *)
(* its two entities, in memory and in the file, and once the pipeline is  *)
(* done the file holds the whole graph, weights and labels included.      *)
FileWhole ==
    mishap = {} =>
        /\ \A i \in DOMAIN rels : {rels[i].from, rels[i].to} \subseteq DOMAIN entities
        /\ \A i \in DOMAIN graphDisk.rels :
             {graphDisk.rels[i].from, graphDisk.rels[i].to} \subseteq DOMAIN graphDisk.entities
        /\ Quiet => graphDisk = [entities |-> entities, rels |-> rels]

(* Even when two pipelines overlap and the file ends behind, the drawing   *)
(* they leave shows the graph as it is: writeMermaid (graph.go:136) reads  *)
(* and stores under one lock.  Only a failed write leaves it behind.       *)
DrawingFresh == Quiet /\ "failure" \notin mishap => view = Drawn(entities, rels)

(* ShortestPath (graph.go:369): a walk along real edges from end to end,   *)
(* as long as the distance of the two in the undirected graph, and none   *)
(* exactly when they are not connected; a dangling end is walked over.     *)
PathsShortest ==
    \A a, b \in DOMAIN entities :
        LET p == ShortestPath(a, b)
            n == graphCount.ids
        IN IF b \in Ball(a, n)
           THEN /\ p # NoPath
                /\ \A k \in 1..Len(p) :
                     LET r == rels[p[k].place]
                         here == IF k = 1 THEN a ELSE p[k - 1].to
                     IN IF p[k].way = "out" THEN here = r.from /\ p[k].to = r.to
                                            ELSE here = r.to /\ p[k].to = r.from
                /\ Len(p) > 0 => p[Len(p)].to = b
                /\ b \in Ball(a, Len(p))
                /\ Len(p) > 0 => b \notin Ball(a, Len(p) - 1)
           ELSE p = NoPath

(* Subgraph (graph.go:428): the entities within the distance, and the      *)
(* edges that touch one closer than the distance.                         *)
SubgraphIsBall ==
    \A id \in DOMAIN entities, hops \in 0..2 :
        LET g == Subgraph(id, hops)
        IN /\ g.entities = Ball(id, hops) \cap DOMAIN entities
           /\ g.rels = IF hops = 0 THEN {}
                       ELSE {i \in DOMAIN rels : {rels[i].from, rels[i].to} \cap Ball(id, hops - 1) # {}}

(* memory_search with needGraph (memory_tools.go:216): every relationship  *)
(* of an entity found is in the answer, and only once, loops included.     *)
AnswerOnce ==
    \A found \in SUBSET DOMAIN entities :
        LET gathered == GraphAnswer(SetToSeq(found))
        IN /\ IsInjective(gathered)
           /\ ToSet(gathered) = {i \in DOMAIN rels : {rels[i].from, rels[i].to} \cap found # {}}

(* While the process lives nothing is taken from the graph: entities keep  *)
(* name and type and only gain labels, and a weight only rises.            *)
GraphOnlyGrows ==
    [][graphCount'.restarts = graphCount.restarts =>
        /\ \A id \in DOMAIN entities :
             /\ id \in DOMAIN entities'
             /\ entities'[id].name = entities[id].name /\ entities'[id].type = entities[id].type
             /\ entities[id].labels \subseteq entities'[id].labels
        /\ \A i \in DOMAIN rels :
             /\ i \in DOMAIN rels'
             /\ rels'[i] = [rels[i] EXCEPT !.weight = rels'[i].weight]
             /\ rels'[i].weight >= rels[i].weight]_graphVars

(* The graph in memory, its two files and the answers drawn from it are     *)
(* right for any batches, failures and restarts (graph.go), and what is     *)
(* known is not lost.                                                       *)
GraphSound ==
    /\ [](OneEntityPerName /\ GraphIndexExact /\ FileWhole /\ DrawingFresh)
    /\ [](PathsShortest /\ SubgraphIsBall /\ AnswerOnce)
    /\ GraphOnlyGrows
=============================================================================
