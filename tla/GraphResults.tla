----------------------------- MODULE GraphResults -----------------------------
(***************************************************************************)
(* What GraphGenerationResultHandler and AddNodeResultHandler make of the  *)
(* AI's output: names with prefixes become the ids of documents, documents *)
(* become nodes, pairs of names become edges.  The queue delivers a        *)
(* message until a delivery ends well or its tries are used up, a delivery *)
(* may die or fail at any transaction, and documents are trashed, restored *)
(* and destroyed meanwhile.  Status rows and credits are GraphPipeline's,  *)
(* the files that the AI leaves out UserFiles'.                            *)
(***************************************************************************)
EXTENDS MacroGraphStore, Sequences

CONSTANTS
    OwnerDigits,    \* the number the user's id begins with, 0 if with a letter
    Digits,         \* the same per document
    Generations,    \* what the AI may make of all documents
    Additions,      \* what it may make of a few more
    MaxTries,       \* deliveries of a message
    MaxChanges      \* changes of documents, and lapses of what guards the reports

VARIABLES
    graph,
    docs,           \* per document "live", "trashed" or "gone"
    vectors,        \* documents the AI finds by their vectors
    inbox,          \* the message in the queue
    worker,         \* the delivery in progress
    reports,        \* analytics: ends of the generation, in order
    finishedKey,    \* in Redis: an end of the task was reported
    changes,
    named,          \* history: pairs of documents the AI has joined
    strays,         \* history: edges with an end that was read as a number
    touched,        \* history: documents changed since the request
    unpruned,       \* history: moved nodes whose delivery died before the prune
    lapses,         \* history: reports that left no key, and keys that expired
    placed          \* history: documents that got a node and were not destroyed

past == <<named, strays, touched, unpruned, placed>>
told == <<reports, finishedKey, lapses>>
vars == <<graph, docs, vectors, inbox, worker, told, changes, named,
          strays, touched, unpruned, placed>>

NoMessage == [kind |-> "none"]
IdleWorker == [step |-> "idle", rows |-> {}, moved |-> {}, left |-> {},
               listed |-> {}, saved |-> FALSE]

At(step) == worker.step = step
Goto(step) == worker' = [worker EXCEPT !.step = step]
Write(g) == graph' = g /\ UNCHANGED <<docs, vectors, inbox, told, changes>>

-----------------------------------------------------------------------------
(* Names.  "src0_", and for a file "docx_" before the id and "_name" after *)
(* it, make a name wrapped; the owner's prefix stands before all of that.  *)

Bare(d) == [doc |-> d, owner |-> FALSE, wrapped |-> FALSE]
NormalizeAiOrigId(name) == IF name.owner THEN name ELSE Bare(name.doc)
StripUserPrefix(name) == [name EXCEPT !.owner = FALSE]
\* parseInt reads the digits a string begins with; 0 is none.
ParseInt(name) ==
    CASE name.owner -> OwnerDigits
      [] ~name.owner /\ ~name.wrapped -> Digits[name.doc]
      [] OTHER -> 0

\* The document of which an item's origId is the name.
DocOf(item) == NormalizeAiOrigId(item.name).doc
\* The id by which the batch's edges know a new node.
RawTempId(item) == [item.name EXCEPT !.owner = TRUE]

\* Every origId must be that of a document that is not in the trash.
Resolved(items) == \A i \in items : docs[DocOf(i)] = "live"

-----------------------------------------------------------------------------
(* The queue.                                                              *)

Receive ==
    /\ inbox # NoMessage /\ At("idle") /\ Goto("types")
    /\ UNCHANGED past /\ Write(graph)

\* The delivery ends without success: the queue shows the message again, or
\* puts it aside after the last try.
Redeliver ==
    /\ inbox' = IF inbox.tries = 1 THEN NoMessage ELSE [inbox EXCEPT !.tries = @ - 1]
    /\ worker' = IdleWorker
    /\ unpruned' = IF worker.step \in {"nodes", "prune"}
                     THEN unpruned \cup (worker.moved \ {r.id : r \in worker.left})
                     ELSE unpruned
    /\ UNCHANGED <<graph, docs, vectors, named, strays, touched, placed>>

\* trackGraphGenerationResult: an end of the task is reported by who sets the key,
\* a failed delivery's too, and all the same when the SET throws, with the key set or
\* not.  The key expires after a day.  What the analytics lose is not modelled.
Bounded == changes > 0 /\ changes' = changes - 1
Reports(status) == reports' = Append(reports, status)
Tracked(status) ==
    \/ /\ ~finishedKey /\ finishedKey' = TRUE /\ Reports(status)
       /\ UNCHANGED <<lapses, changes>>
    \/ finishedKey /\ UNCHANGED <<told, changes>>
    \/ /\ Bounded /\ Reports(status) /\ finishedKey' \in {finishedKey, TRUE}
       /\ lapses' = IF finishedKey' /\ ~finishedKey THEN lapses ELSE lapses + 1
KeyExpires ==
    /\ finishedKey /\ inbox # NoMessage /\ inbox.kind = "generation" /\ Bounded
    /\ finishedKey' = FALSE /\ lapses' = lapses + 1
    /\ UNCHANGED <<graph, docs, vectors, inbox, worker, reports, past>>

Die == ~At("idle") /\ Redeliver /\ UNCHANGED <<told, changes>>
Throw ==
    /\ \/ At("types") /\ ~Resolved(inbox.items)
       \/ worker.step \notin {"idle", "types", "finish"}
    /\ Redeliver
    /\ IF inbox.kind = "generation" THEN Tracked("FAILED") ELSE UNCHANGED <<told, changes>>

ResolveSourceTypes ==
    /\ At("types") /\ Resolved(inbox.items)
    /\ Goto(IF inbox.kind = "generation" THEN "snapshotClusters" ELSE "list")
    /\ UNCHANGED past /\ Write(graph)

-----------------------------------------------------------------------------
(* A generation: its nodes and edges have numbers of the AI's.             *)

\* mapAiOutputToSnapshot, after normalizeGraphOutput.
SnapshotRows == {[id |-> i.id, doc |-> DocOf(i), cluster |-> i.cluster] : i \in inbox.items}
SnapshotEdges == {[id |-> e, from |-> e[1], to |-> e[2]] : e \in inbox.edges}

PersistClusters ==
    /\ At("snapshotClusters") /\ Goto("snapshotNodes")
    /\ Write(StoreClusters(graph, inbox.clusters)) /\ UNCHANGED past
PersistNodes ==
    /\ At("snapshotNodes") /\ Goto("snapshotEdges")
    /\ graph' = StoreNodes(graph, SnapshotRows)
    /\ placed' = placed \cup {r.doc : r \in SnapshotRows}
    /\ UNCHANGED <<docs, vectors, inbox, told, changes, named, strays, touched, unpruned>>
PersistEdges ==
    /\ At("snapshotEdges") /\ Goto("snapshotSubclusters")
    /\ Write(StoreEdges(graph, SnapshotEdges)) /\ UNCHANGED past
PersistSubclusters ==
    /\ At("snapshotSubclusters") /\ Goto("features")
    /\ Write(StoreSubclusters(graph, inbox.subclusters)) /\ UNCHANGED past

\* The features' vectors are saved beside the snapshot, under the normalized
\* ids; a failure is logged only.
SaveGraphFeatures ==
    /\ worker.step \in {"snapshotClusters", "snapshotNodes", "snapshotEdges",
                        "snapshotSubclusters", "features"}
    /\ ~worker.saved
    /\ worker' = [worker EXCEPT !.saved = TRUE]
    /\ vectors' \in {vectors, vectors \cup {DocOf(i) : i \in inbox.items}}
    /\ UNCHANGED <<graph, docs, inbox, told, changes, past>>

\* Mutant: the key is not looked at.
TrackEachDelivery ==
    /\ At("features") /\ worker.saved /\ Goto("finish")
    /\ Reports("COMPLETED") /\ finishedKey' = TRUE
    /\ UNCHANGED <<graph, docs, vectors, inbox, changes, lapses, past>>
\* The end of the generation is reported.
TrackGraphGenerationResult ==
    /\ At("features") /\ worker.saved /\ Goto("finish")
    /\ Tracked("COMPLETED")
    /\ UNCHANGED <<graph, docs, vectors, inbox, past>>

\* Credits and notices follow; the message leaves the queue.
Finish ==
    /\ At("finish")
    /\ worker' = IdleWorker /\ inbox' = NoMessage
    /\ UNCHANGED <<graph, docs, vectors, told, changes, past>>

-----------------------------------------------------------------------------
(* An addition: its nodes are known by names.                              *)

\* Mutant: the nodes in the trash are not listed.
ListedLive(d) == {n \in ListNodes(graph) : graph.origId[n] = d}
\* listNodesAll: deleted nodes keep their ids.
Listed(d) == {n \in graph.hasNode : graph.origId[n] = d}
ListedIds == UNION {Listed(d) : d \in Docs}
NextNodeId == Max({0} \cup ListedIds) + 1

ListNodesAll ==
    LET ids == {DocOf(i) : i \in inbox.items}
        new == {d \in ids : Listed(d) = {}}
    IN  /\ At("list")
        /\ \E node \in [ids -> NodeIds] :
              LET row(i) == [id |-> node[DocOf(i)], doc |-> DocOf(i), cluster |-> i.cluster,
                             temp |-> RawTempId(i)]
                  rows == {row(i) : i \in inbox.items}
              IN  /\ \A d \in ids \ new : node[d] \in Listed(d)
                  /\ {node[d] : d \in new} = NextNodeId..(NextNodeId + Cardinality(new) - 1)
                  /\ worker' = [worker EXCEPT
                        !.step = IF inbox.clusters = {} THEN "nodes" ELSE "clusters",
                        !.rows = rows, !.left = rows,
                        !.listed = UNION {{d} \X Listed(d) : d \in Docs}
                                   \cup {<<d, node[d]>> : d \in new},
                        !.moved = {r.id : r \in {x \in rows :
                            x.doc \notin new /\ ClusterOf(graph, x.id) # {x.cluster}}}]
        /\ UNCHANGED past /\ Write(graph)

UpsertPendingClusters ==
    /\ At("clusters") /\ Goto("nodes")
    /\ Write(StoreClusters(graph, inbox.clusters)) /\ UNCHANGED past

\* resolveNodeId: a node of the batch, else one of a document in the graph,
\* else a number.
\* Mutant: the owner's prefix is left on the name.
KnownUnstripped(name) ==
    LET batch == {r.id : r \in {x \in worker.rows : x.temp = name}}
        old == {l[2] : l \in {x \in worker.listed : Bare(x[1]) = NormalizeAiOrigId(name)}}
    IN  IF batch # {} THEN batch ELSE old
Known(name) ==
    LET batch == {r.id : r \in {x \in worker.rows : x.temp = name}}
        plain == NormalizeAiOrigId(StripUserPrefix(name))
        old == {l[2] : l \in {x \in worker.listed : Bare(x[1]) = plain}}
    IN  IF batch # {} THEN batch ELSE old
ResolveNodeId(name) == IF Known(name) # {} THEN Known(name) ELSE {ParseInt(name)} \ {0}

\* The edges with two different ends, the numbers among them those of nodes
\* that the statement may find or not.
Joins(e, p) == p[1] \in ResolveNodeId(e[1]) /\ p[2] \in ResolveNodeId(e[2])
PendingEdges == {p \in NodeIds \X NodeIds : p[1] # p[2] /\ \E e \in inbox.edges : Joins(e, p)}
ReadAsNumber == {p \in PendingEdges :
    \E e \in inbox.edges : /\ Joins(e, p)
                           /\ Known(e[1]) = {} \/ Known(e[2]) = {}}

\* Chunks of one node, for 20, then what the moved nodes leave behind.
UpsertPendingNodes ==
    \E r \in worker.left :
        LET rest == worker.left \ {r}
            then == IF rest # {} THEN "nodes" ELSE IF worker.moved # {} THEN "prune" ELSE "edges"
        IN  /\ At("nodes")
            /\ worker' = [worker EXCEPT !.left = rest, !.step = then]
            /\ graph' = StoreNodes(graph, {[id |-> r.id, doc |-> r.doc, cluster |-> r.cluster]})
            /\ placed' = placed \cup {r.doc}
            /\ UNCHANGED <<docs, vectors, inbox, told, changes, named, strays, touched, unpruned>>

\* Mutant: only representatives and empty subclusters are looked after.
ReconcileOnly == At("prune") /\ Goto("reconcile") /\ Write(graph) /\ UNCHANGED past
PruneMoved ==
    /\ At("prune") /\ Goto("reconcile")
    /\ Write(PruneIncompatible(graph, worker.moved)) /\ UNCHANGED past
ReconcileAfterMove ==
    /\ At("reconcile") /\ Goto("edges")
    /\ Write(Reconcile(graph)) /\ UNCHANGED past

\* The edges go in chunks too, which are complete by themselves.
UpsertPendingEdges ==
    /\ At("edges") /\ Goto("cleanup")
    /\ strays' = (strays \ PendingEdges) \cup ReadAsNumber
    /\ graph' = StoreEdges(graph, {[id |-> e, from |-> e[1], to |-> e[2]] : e \in PendingEdges})
    /\ UNCHANGED <<docs, vectors, inbox, told, changes, named, touched, unpruned, placed>>

\* removeEmptyClusters.
CleanUp ==
    /\ At("cleanup") /\ Goto("finish")
    /\ Write(CleanupEmptyClusters(graph)) /\ UNCHANGED past

-----------------------------------------------------------------------------
(* What happens around the worker.                                         *)

\* The AI knows the clusters, the documents it is given and those with vectors.
Request(a) ==
    /\ inbox = NoMessage /\ graph.root /\ At("idle")
    /\ Resolved(a.items)
    /\ \A i \in a.items : i.cluster \in a.clusters <=> ~FindCluster(graph, i.cluster)
    /\ \A e \in a.edges : \A name \in {e[1], e[2]} :
          name.doc \in vectors \cup {DocOf(i) : i \in a.items}
    /\ inbox' = [a EXCEPT !.tries = MaxTries]
    /\ named' = named \cup {<<e[1].doc, e[2].doc>> : e \in a.edges}
    /\ unpruned' = {} /\ touched' = {}
    /\ UNCHANGED <<graph, docs, vectors, worker, told, changes, strays, placed>>

\* A document goes to the trash, comes back or is destroyed, with its node.
Change(d, life, g) ==
    /\ docs' = [docs EXCEPT ![d] = life] /\ graph' = g
    /\ touched' = touched \cup {d}
    /\ placed' = IF life = "gone" THEN placed \ {d} ELSE placed
    /\ UNCHANGED <<vectors, inbox, worker, told, named, strays, unpruned>>
Trash(d) ==
    /\ docs[d] = "live" /\ Bounded
    /\ Change(d, "trashed", DeleteNodesByOrigIds(graph, {d}, FALSE))
Restore(d) ==
    /\ docs[d] = "trashed" /\ UNCHANGED changes
    /\ Change(d, "live", RestoreNodesByOrigIds(graph, {d}))
Destroy(d) ==
    /\ docs[d] # "gone" /\ Bounded
    /\ Change(d, "gone", DeleteNodesByOrigIds(graph, {d}, TRUE))

InitWith(message) ==
    /\ graph = EmptyGraph /\ docs = [d \in Docs |-> "live"] /\ vectors = {}
    /\ worker = IdleWorker /\ changes = MaxChanges
    /\ reports = <<>> /\ finishedKey = FALSE /\ lapses = 0
    /\ strays = {} /\ touched = {} /\ unpruned = {} /\ placed = {}
    /\ inbox = message
Init ==
    \E a \in Generations :
        /\ InitWith([a EXCEPT !.tries = MaxTries])
        /\ named = {<<DocOf(p[1]), DocOf(p[2])>> :
              p \in {x \in a.items \X a.items : <<x[1].id, x[2].id>> \in a.edges}}

Next ==
    \/ Receive \/ ResolveSourceTypes \/ Throw \/ Die \/ Finish
    \/ PersistClusters \/ PersistNodes \/ PersistEdges \/ PersistSubclusters
    \/ SaveGraphFeatures \/ TrackGraphGenerationResult \/ KeyExpires
    \/ ListNodesAll \/ UpsertPendingClusters \/ UpsertPendingNodes
    \/ PruneMoved \/ ReconcileAfterMove \/ UpsertPendingEdges \/ CleanUp
    \/ \E a \in Additions : Request(a)
    \/ \E d \in Docs : Trash(d) \/ Restore(d) \/ Destroy(d)

Spec == Init /\ [][Next]_vars

-----------------------------------------------------------------------------
NodesOfDoc(d) == {n \in ListNodes(graph) : graph.origId[n] = d}

\* Every edge joins documents that the AI has joined, whatever the prefixes of
\* the names, the ids that were given before and the deletions in between, but
\* for the edges of which an end was taken for a number.
EdgesJoinMeant ==
    \A e \in Live(graph.relation) \ strays :
        \A a, b \in NodeIds : <<e, a>> \in graph.source /\ <<e, b>> \in graph.target =>
            <<graph.origId[a], graph.origId[b]>> \in named

\* When an addition has been handled, each document of it that was left alone
\* has one node, in the cluster the AI chose and in no subcluster of another,
\* unless a delivery died between moving the node and the prune; and each pair
\* of such documents that the AI joined has its edge.
AdditionsLand ==
    At("finish") /\ inbox.kind = "addNode" =>
        /\ \A i \in inbox.items : DocOf(i) \notin touched =>
              \E n \in NodesOfDoc(DocOf(i)) :
                 /\ NodesOfDoc(DocOf(i)) = {n} /\ ClusterOf(graph, n) = {i.cluster}
                 /\ n \notin unpruned =>
                       \A s \in Subclusters : FindSubcluster(graph, s) /\ n \in MembersOf(graph, s) =>
                           i.cluster \in ParentOf(graph, s)
        /\ \A e \in inbox.edges : {e[1].doc, e[2].doc} \cap touched = {} =>
              \A a \in NodesOfDoc(e[1].doc), b \in NodesOfDoc(e[2].doc) :
                  a # b => \E x \in ListEdges(graph) : x[1] = a /\ x[3] = b

\* No document loses its node to another that was given its id.
NoneOverwritten == \A d \in placed : \E n \in graph.hasNode : graph.origId[n] = d

\* The end of a generation is reported once, however often its message is delivered,
\* but for one more report for each time that the guard lapsed: a report that left no
\* key or found one it could not see, as Redis failed, or a key that expired.
ReportedOnce == Len(reports) <= 1 + lapses

\* What the AI made of the documents lands in the graph where it was meant, none
\* loses its node over it, and a generation's end is reported once unless the guard lapses.
ResultsLand == EdgesJoinMeant /\ AdditionsLand /\ NoneOverwritten /\ ReportedOnce
=============================================================================
