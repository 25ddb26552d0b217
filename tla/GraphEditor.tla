----------------------------- MODULE GraphEditor -----------------------------
(***************************************************************************)
(* What changes the macro graph of one user while it is there: the graph   *)
(* editor (GraphEditorService), the graph API (GraphController over        *)
(* GraphEmbeddingService and GraphManagementService), the deletion and     *)
(* restoring of source documents, and the writes of the AddNode and        *)
(* generation jobs.  A request reads what it checks, then writes; every    *)
(* read and every write is a transaction of its own, so that requests      *)
(* interleave, and any of them may fail and leave what it wrote.           *)
(***************************************************************************)
EXTENDS MacroGraphStore

CONSTANTS
    Requests,           \* requests in flight
    EditorDoc,          \* the origId of nodes made in the editor
    PairId,             \* edge id made of a source and a target
    Uuids,              \* edge ids the editor draws
    Snapshot,           \* what a generation persists
    Mixes               \* bound: the operations that are run together, and how many

ASSUME EditorAssumption ==
    /\ EditorDoc \in Docs /\ Uuids \subseteq Edges
    /\ \A x \in Mixes : x.most \in Nat
    /\ DOMAIN PairId \subseteq NodeIds \X NodeIds

VARIABLES
    graph,
    req,                \* what each request is and read, and where it stands
    mix, begun,         \* bound: the mix of this behaviour, and the requests begun
    cut,                \* history: a deleteGraph began and has not reached its end
    repointed           \* history: edges the API stored again between other nodes

history == <<cut, repointed>>
vars == <<graph, req, mix, begun, cut, repointed>>

Idle == [op |-> "none", step |-> "idle", node |-> 0, node2 |-> 0, ids |-> {},
         cluster |-> None, sub |-> None, edge |-> None, doc |-> None,
         permanent |-> FALSE, alone |-> FALSE, sound |-> FALSE]

-----------------------------------------------------------------------------
(* Shape: what the editor's checks are there to keep.                      *)

InLiveCluster(g) ==
    \A n \in ListNodes(g) : \E c \in Live(g.cluster) : ClusterOf(g, n) = {c}
MembersShareCluster(g) ==
    \A s \in g.hasSubcluster : FindSubcluster(g, s) =>
        \A n \in MembersOf(g, s) : ParentOf(g, s) # {} => ParentOf(g, s) = ClusterOf(g, n)
Joined(g, e) ==
    /\ \E n \in Live(g.node) : <<e, n>> \in g.source
    /\ \E n \in Live(g.node) : <<e, n>> \in g.target
EdgesJoinLiveNodes(g) == \A e \in Live(g.relation) : Joined(g, e)
NoOrphans(g) == Live(g.node) \subseteq g.hasNode /\ Live(g.relation) \subseteq g.hasRelation
Shape(g) == /\ InLiveCluster(g) /\ MembersShareCluster(g)
            /\ EdgesJoinLiveNodes(g) /\ NoOrphans(g)

-----------------------------------------------------------------------------
(* Requests begin, go on and end.                                          *)

\* A handler has parsed a call, and the call passed its checks.
Begin(p, call) ==
    /\ req[p].step = "idle" /\ begun < mix.most /\ call.op \in mix.ops
    /\ begun' = begun + 1
    /\ req' = [req EXCEPT ![p] =
          [call EXCEPT !.sound = Shape(graph),
                       !.alone = \A q \in Requests : req[q].step = "idle"]]
    /\ UNCHANGED <<graph, mix, history>>

\* One committed transaction: no other request in flight is alone any more.
Write(p, g, next) ==
    /\ graph' = g
    /\ req' = [q \in Requests |-> IF q = p THEN next
                 ELSE IF req[q].step = "idle" THEN req[q]
                 ELSE [req[q] EXCEPT !.alone = FALSE]]
    /\ UNCHANGED <<mix, begun>>

At(p, op, step) == req[p].op = op /\ req[p].step = step
Goto(p, step) == [req[p] EXCEPT !.step = step]
Finish(p, g) == Write(p, g, Idle) /\ UNCHANGED history
Go(p, g, step) == Write(p, g, Goto(p, step)) /\ UNCHANGED history

\* The database refuses, or the process dies: what was written stays.  A batch
\* is its operations one after another, of which one that fails ends it and
\* leaves what those before it wrote.
Fail(p) ==
    /\ req[p].step # "idle"
    /\ req' = [req EXCEPT ![p] = Idle]
    /\ UNCHANGED <<graph, mix, begun, history>>

-----------------------------------------------------------------------------
(* GraphEditorService.                                                     *)

CreateNode(p, c) ==
    /\ FindCluster(graph, c)
    /\ Begin(p, [Idle EXCEPT !.op = "createNode", !.step = "id", !.cluster = c])

NextNodeId(p) ==
    /\ At(p, "createNode", "id") /\ GetNextNodeId(graph) \in NodeIds
    /\ req' = [req EXCEPT ![p].step = "write", ![p].node = GetNextNodeId(graph)]
    /\ UNCHANGED <<graph, mix, begun, history>>

WriteNode(p) ==
    /\ At(p, "createNode", "write")
    /\ Finish(p, StoreNodes(graph,
          {[id |-> req[p].node, doc |-> EditorDoc, cluster |-> req[p].cluster]}))

EditorDeleteNode(p, n, permanent) ==
    /\ FindNode(graph, n)
    /\ Begin(p, [Idle EXCEPT !.op = "deleteNode", !.step = "write", !.node = n,
                             !.permanent = permanent])
WriteDeleteNode(p) ==
    /\ At(p, "deleteNode", "write")
    /\ Finish(p, DeleteNodes(graph, {req[p].node}, req[p].permanent))

CreateEdge(p, n, m, e) ==
    /\ n # m /\ FindNode(graph, n) /\ FindNode(graph, m)
    /\ graph.relation[e] = "none" /\ \A q \in Requests : req[q].edge # e
    /\ Begin(p, [Idle EXCEPT !.op = "createEdge", !.step = "write",
                             !.node = n, !.node2 = m, !.edge = e])
WriteEdge(p) ==
    /\ At(p, "createEdge", "write")
    /\ Finish(p, StoreEdges(graph,
          {[id |-> req[p].edge, from |-> req[p].node, to |-> req[p].node2]}))

EditorDeleteEdge(p, e, permanent) ==
    /\ FindEdge(graph, e)
    /\ Begin(p, [Idle EXCEPT !.op = "deleteEdge", !.step = "write", !.edge = e,
                             !.permanent = permanent])
WriteDeleteEdge(p) ==
    /\ At(p, "deleteEdge", "write")
    /\ Finish(p, DeleteEdge(graph, req[p].edge, req[p].permanent))

EditorUpdateEdge(p, e) ==
    /\ FindEdge(graph, e)
    /\ Begin(p, [Idle EXCEPT !.op = "updateEdge", !.step = "write", !.edge = e])
WriteUpdateEdge(p) ==
    /\ At(p, "updateEdge", "write")
    /\ Finish(p, UpdateEdge(graph, req[p].edge))

\* A soft-deleted cluster with this id does not count as existing.
CreateCluster(p, c) ==
    /\ ~FindCluster(graph, c)
    /\ Begin(p, [Idle EXCEPT !.op = "createCluster", !.step = "write", !.cluster = c])
WriteCluster(p) ==
    /\ At(p, "createCluster", "write")
    /\ Finish(p, StoreClusters(graph, {req[p].cluster}))

DeleteEmptyCluster(p, c, permanent) ==
    /\ FindCluster(graph, c) /\ ~ClusterHasNodes(graph, c)
    /\ Begin(p, [Idle EXCEPT !.op = "deleteCluster", !.step = "cluster", !.cluster = c,
                             !.permanent = permanent])
DeleteClusterCascade(p, c, permanent) ==
    LET ids == ListNodesByCluster(graph, c) IN
    /\ FindCluster(graph, c)
    /\ Begin(p, [Idle EXCEPT !.op = "deleteCluster", !.cluster = c, !.ids = ids,
                             !.step = IF ids = {} THEN "cluster" ELSE "edges",
                             !.permanent = permanent])
CascadeEdges(p) ==
    /\ At(p, "deleteCluster", "edges")
    /\ Go(p, DeleteEdgesByNodeIds(graph, req[p].ids, req[p].permanent), "nodes")
CascadeNodes(p) ==
    /\ At(p, "deleteCluster", "nodes")
    /\ Go(p, DeleteNodes(graph, req[p].ids, req[p].permanent), "cluster")
CascadeCluster(p) ==
    /\ At(p, "deleteCluster", "cluster")
    /\ Finish(p, DeleteCluster(graph, req[p].cluster, req[p].permanent))

CreateSubcluster(p, s, c) ==
    /\ FindCluster(graph, c) /\ ~FindSubcluster(graph, s)
    /\ Begin(p, [Idle EXCEPT !.op = "createSubcluster", !.step = "write",
                             !.sub = s, !.cluster = c])
WriteSubcluster(p) ==
    /\ At(p, "createSubcluster", "write")
    /\ Finish(p, StoreSubclusters(graph,
          {[id |-> req[p].sub, cluster |-> req[p].cluster, nodes |-> {}, rep |-> {}]}))

EditorDeleteSubcluster(p, s, permanent) ==
    /\ FindSubcluster(graph, s)
    /\ Begin(p, [Idle EXCEPT !.op = "deleteSubcluster", !.step = "write", !.sub = s,
                             !.permanent = permanent])
WriteDeleteSubcluster(p) ==
    /\ At(p, "deleteSubcluster", "write")
    /\ Finish(p, DeleteSubcluster(graph, req[p].sub, req[p].permanent))

-----------------------------------------------------------------------------
(* Moving nodes and subclusters, and membership.                           *)

MoveNode(p, n, c) ==
    /\ FindNode(graph, n) /\ FindCluster(graph, c)
    /\ Begin(p, [Idle EXCEPT !.op = "moveNode", !.step = "move", !.node = n,
                             !.cluster = c])
\* Mutant: the subclusters of the old cluster keep the node.
WriteMoveNodeOnly(p) ==
    /\ At(p, "moveNode", "move")
    /\ Finish(p, MoveNodeToCluster(graph, req[p].node, req[p].cluster))
WriteMoveNode(p) ==
    /\ At(p, "moveNode", "move")
    /\ Go(p, MoveNodeToCluster(graph, req[p].node, req[p].cluster), "list")

\* The subclusters to take the node out of are read after the move.
ListToLeave(p) ==
    LET left == ListedElsewhere(graph, req[p].node, req[p].cluster) IN
    /\ At(p, "moveNode", "list")
    /\ IF left = {} THEN Finish(p, graph)
       ELSE /\ req' = [req EXCEPT ![p].step = "leave", ![p].ids = left]
            /\ UNCHANGED <<graph, mix, begun, history>>
LeaveSubcluster(p, s) ==
    /\ At(p, "moveNode", "leave") /\ s \in req[p].ids
    /\ LET g == RemoveNodeFromSubcluster(graph, s, req[p].node) IN
       IF req[p].ids = {s} THEN Finish(p, g)
       ELSE Write(p, g, [req[p] EXCEPT !.ids = @ \ {s}]) /\ UNCHANGED history

MoveSubcluster(p, s, c) ==
    /\ FindSubcluster(graph, s) /\ FindCluster(graph, c)
    /\ Begin(p, [Idle EXCEPT !.op = "moveSubcluster", !.step = "write", !.sub = s,
                             !.cluster = c])
WriteMoveSubcluster(p) ==
    /\ At(p, "moveSubcluster", "write")
    /\ Finish(p, MoveSubclusterToCluster(graph, req[p].sub, req[p].cluster))

\* Both may be in no cluster: then the two ids are the empty string.
JoinSubcluster(p, s, n) ==
    /\ FindSubcluster(graph, s) /\ FindNode(graph, n)
    /\ ClusterOf(graph, n) = ParentOf(graph, s)
    /\ Begin(p, [Idle EXCEPT !.op = "join", !.step = "write", !.sub = s, !.node = n])
WriteJoin(p) ==
    /\ At(p, "join", "write")
    /\ Finish(p, AddNodeToSubcluster(graph, req[p].sub, req[p].node))

QuitSubcluster(p, s, n) ==
    /\ FindSubcluster(graph, s)
    /\ Begin(p, [Idle EXCEPT !.op = "quit", !.step = "write", !.sub = s, !.node = n])
WriteQuit(p) ==
    /\ At(p, "quit", "write")
    /\ Finish(p, RemoveNodeFromSubcluster(graph, req[p].sub, req[p].node))

-----------------------------------------------------------------------------
(* The graph API: one transaction, and nothing is looked up first.         *)

Answer(p, op, g) ==
    /\ req[p].step = "idle" /\ begun < mix.most /\ op \in mix.ops
    /\ begun' = begun + 1 /\ graph' = g
    /\ req' = [q \in Requests |-> IF req[q].step = "idle" THEN req[q]
                                  ELSE [req[q] EXCEPT !.alone = FALSE]]
    /\ UNCHANGED <<mix, cut>>
Direct(p, op, g) == Answer(p, op, g) /\ UNCHANGED repointed

ApiCreateNode(p, n, d, c) ==
    Direct(p, "apiCreateNode", StoreNodes(graph, {[id |-> n, doc |-> d, cluster |-> c]}))
ApiUpdateNode(p, n, c, other) == Direct(p, "apiUpdateNode", PatchNode(graph, n, other, c))
ApiRestoreNode(p, n) == Direct(p, "apiRestoreNode", RestoreNodesByIds(graph, {n}))
ApiRestoreEdge(p, e) == Direct(p, "apiRestoreEdge", RestoreEdgeById(graph, e))
ApiDeleteNode(p, n, permanent) ==
    Direct(p, "apiDeleteNode", DeleteNodes(graph, {n}, permanent))
\* Deleting a node deletes its edges: the cascade has nothing more to do.
RemoveNodeCascade(p, n, permanent) == ApiDeleteNode(p, n, permanent)
\* Without an id the edge has that of its ends; with one it may be an edge that
\* is there, between other nodes.
EndsAt(e, n, m) == /\ {x \in graph.source : x[1] = e} = {<<e, n>>}
                   /\ {x \in graph.target : x[1] = e} = {<<e, m>>}
ApiCreateEdge(p, e, n, m) ==
    /\ graph.relation[e] # "none" \/ (<<n, m>> \in DOMAIN PairId /\ PairId[n, m] = e)
    /\ Answer(p, "apiCreateEdge", StoreEdges(graph, {[id |-> e, from |-> n, to |-> m]}))
    /\ repointed' = IF graph.relation[e] # "none" /\ ~EndsAt(e, n, m)
                       THEN repointed \cup {e} ELSE repointed
ApiDeleteEdge(p, e, permanent) ==
    Direct(p, "apiDeleteEdge", DeleteEdge(graph, e, permanent))
ApiCreateCluster(p, c) == Direct(p, "apiCreateCluster", StoreClusters(graph, {c}))
ApiDeleteCluster(p, c, permanent) ==
    Direct(p, "apiDeleteCluster", DeleteCluster(graph, c, permanent))
ApiRestoreCluster(p, c) == Direct(p, "apiRestoreCluster", RestoreCluster(graph, c))

\* removeClusterCascade does not ask whether the cluster is there.
RemoveClusterCascade(p, c, permanent) ==
    LET ids == ListNodesByCluster(graph, c) IN
    Begin(p, [Idle EXCEPT !.op = "deleteCluster", !.cluster = c, !.ids = ids,
                          !.step = IF ids = {} THEN "cluster" ELSE "edges",
                          !.permanent = permanent])

\* A note, a conversation or a file is deleted or restored.
DeleteDocument(p, d, permanent) ==
    Direct(p, "deleteDocument", DeleteNodesByOrigIds(graph, {d}, permanent))
RestoreDocument(p, d) == Direct(p, "restoreDocument", RestoreNodesByOrigIds(graph, {d}))

-----------------------------------------------------------------------------
(* The jobs.                                                               *)

\* AddNode: one document, put in a cluster, with an edge to another node.  The
\* id comes from the nodes linked to the root, deleted ones too; of several with
\* the document's origId it is any, the list having no order.
KnownAs(d) == {n \in graph.hasNode : graph.origId[n] = d}
NextAddedId == Max({0} \cup graph.hasNode) + 1
AddNode(p, d, c, isNew) ==
    /\ isNew => graph.cluster[c] = "none"
    /\ \E id \in NodeIds :
          /\ IF KnownAs(d) = {} THEN id = NextAddedId ELSE id \in KnownAs(d)
          /\ Begin(p, [Idle EXCEPT !.op = "addNode", !.node = id, !.doc = d, !.cluster = c,
                !.step = IF isNew THEN "clusters" ELSE "nodes",
                !.ids = IF KnownAs(d) # {} /\ ClusterOf(graph, id) # {c} THEN {id} ELSE {}])
AddClusters(p) ==
    /\ At(p, "addNode", "clusters")
    /\ Go(p, StoreClusters(graph, {req[p].cluster}), "nodes")
AddNodes(p) ==
    /\ At(p, "addNode", "nodes")
    /\ Go(p, StoreNodes(graph, {[id |-> req[p].node, doc |-> req[p].doc,
                                 cluster |-> req[p].cluster]}),
          IF req[p].ids = {} THEN "edges" ELSE "prune")
Prune(p) ==
    /\ At(p, "addNode", "prune")
    /\ Go(p, PruneIncompatible(graph, req[p].ids), "reconcile")
ReconcileSubclusters(p) ==
    /\ At(p, "addNode", "reconcile")
    /\ Go(p, Reconcile(graph), "edges")
AddEdges(p, m) ==
    /\ At(p, "addNode", "edges")
    /\ IF <<req[p].node, m>> \in DOMAIN PairId
         THEN Go(p, StoreEdges(graph, {[id |-> PairId[req[p].node, m],
                                        from |-> req[p].node, to |-> m]}), "cleanup")
         ELSE Go(p, graph, "cleanup")
RemoveEmptyClusters(p) ==
    /\ At(p, "addNode", "cleanup")
    /\ Finish(p, CleanupEmptyClusters(graph))

\* persistSnapshot: clusters, nodes, edges and subclusters, in that order.
PersistSnapshot(p) == Begin(p, [Idle EXCEPT !.op = "snapshot", !.step = "clusters"])
SnapshotClusters(p) ==
    /\ At(p, "snapshot", "clusters")
    /\ Go(p, StoreClusters(graph, Snapshot.clusters), "nodes")
SnapshotNodes(p) ==
    /\ At(p, "snapshot", "nodes")
    /\ Go(p, StoreNodes(graph, Snapshot.nodes), "edges")
SnapshotEdges(p) ==
    /\ At(p, "snapshot", "edges")
    /\ Go(p, StoreEdges(graph, Snapshot.edges), "subclusters")
SnapshotSubclusters(p) ==
    /\ At(p, "snapshot", "subclusters")
    /\ Finish(p, StoreSubclusters(graph, Snapshot.subclusters))

DeleteGraph(p) == Begin(p, [Idle EXCEPT !.op = "deleteGraph", !.step = "relations"])
Following(step) ==
    DeleteGraphSteps[1 + CHOOSE i \in 1..4 : DeleteGraphSteps[i] = step]
DeleteGraphStep(p) ==
    /\ req[p].op = "deleteGraph"
    /\ cut' = (req[p].step # "root") /\ UNCHANGED repointed
    /\ Write(p, DeleteGraphBatch(graph, req[p].step),
             IF req[p].step = "root" THEN Idle ELSE Goto(p, Following(req[p].step)))

-----------------------------------------------------------------------------
\* A user without a graph, and one with the graph a generation made.
Persisted ==
    StoreSubclusters(
        StoreEdges(
            StoreNodes(StoreClusters(EmptyGraph, Snapshot.clusters), Snapshot.nodes),
            Snapshot.edges),
        Snapshot.subclusters)

Init ==
    /\ graph \in {EmptyGraph, Persisted}
    /\ req = [p \in Requests |-> Idle]
    /\ mix \in Mixes /\ begun = 0 /\ cut = FALSE /\ repointed = {}

Next == \E p \in Requests :
    \/ Fail(p)
    \/ \E c \in Clusters : CreateNode(p, c) \/ CreateCluster(p, c)
    \/ NextNodeId(p) \/ WriteNode(p) \/ WriteDeleteNode(p)
    \/ \E n \in NodeIds, permanent \in BOOLEAN : EditorDeleteNode(p, n, permanent)
    \/ \E n, m \in NodeIds, e \in Uuids : CreateEdge(p, n, m, e)
    \/ \E e \in Edges, permanent \in BOOLEAN : EditorDeleteEdge(p, e, permanent)
    \/ \E e \in Edges : EditorUpdateEdge(p, e) \/ ApiRestoreEdge(p, e)
    \/ WriteEdge(p) \/ WriteDeleteEdge(p) \/ WriteUpdateEdge(p) \/ WriteCluster(p)
    \/ \E c \in Clusters, permanent \in BOOLEAN :
          \/ DeleteEmptyCluster(p, c, permanent) \/ DeleteClusterCascade(p, c, permanent)
          \/ ApiDeleteCluster(p, c, permanent) \/ RemoveClusterCascade(p, c, permanent)
    \/ CascadeEdges(p) \/ CascadeNodes(p) \/ CascadeCluster(p)
    \/ \E s \in Subclusters, c \in Clusters :
          CreateSubcluster(p, s, c) \/ MoveSubcluster(p, s, c)
    \/ \E s \in Subclusters, permanent \in BOOLEAN : EditorDeleteSubcluster(p, s, permanent)
    \/ WriteSubcluster(p) \/ WriteDeleteSubcluster(p) \/ WriteMoveSubcluster(p)
    \/ \E n \in NodeIds, c \in Clusters : MoveNode(p, n, c)
    \/ WriteMoveNode(p) \/ ListToLeave(p)
    \/ \E s \in Subclusters : LeaveSubcluster(p, s)
    \/ \E s \in Subclusters, n \in NodeIds :
          JoinSubcluster(p, s, n) \/ QuitSubcluster(p, s, n)
    \/ WriteJoin(p) \/ WriteQuit(p)
    \/ \E n \in NodeIds, d \in Docs, c \in Clusters : ApiCreateNode(p, n, d, c)
    \/ \E n \in NodeIds, c \in Clusters, other \in BOOLEAN : ApiUpdateNode(p, n, c, other)
    \/ \E n \in NodeIds : ApiRestoreNode(p, n)
    \/ \E n \in NodeIds, permanent \in BOOLEAN :
          ApiDeleteNode(p, n, permanent) \/ RemoveNodeCascade(p, n, permanent)
    \/ \E e \in Edges, n, m \in NodeIds : ApiCreateEdge(p, e, n, m)
    \/ \E e \in Edges, permanent \in BOOLEAN : ApiDeleteEdge(p, e, permanent)
    \/ \E c \in Clusters : ApiCreateCluster(p, c) \/ ApiRestoreCluster(p, c)
    \/ \E d \in Docs \ {EditorDoc}, permanent \in BOOLEAN : DeleteDocument(p, d, permanent)
    \/ \E d \in Docs \ {EditorDoc} : RestoreDocument(p, d)
    \/ \E d \in Docs \ {EditorDoc}, c \in Clusters, isNew \in BOOLEAN : AddNode(p, d, c, isNew)
    \/ AddClusters(p) \/ AddNodes(p) \/ Prune(p) \/ ReconcileSubclusters(p)
    \/ \E m \in NodeIds : AddEdges(p, m)
    \/ RemoveEmptyClusters(p)
    \/ PersistSnapshot(p) \/ SnapshotClusters(p) \/ SnapshotNodes(p)
    \/ SnapshotEdges(p) \/ SnapshotSubclusters(p)
    \/ DeleteGraph(p) \/ DeleteGraphStep(p)

Spec == Init /\ [][Next]_vars

-----------------------------------------------------------------------------
Stored(f) == Present(f, DOMAIN f)
\* Rows of the graph, and no relationship without the rows it joins.
TypeOK ==
    /\ graph \in Graphs
    /\ graph.belongsTo \subseteq Stored(graph.node) \X Stored(graph.cluster)
    /\ graph.within \subseteq Stored(graph.subcluster) \X Stored(graph.cluster)
    /\ graph.contains \cup graph.represents \subseteq Stored(graph.subcluster) \X Stored(graph.node)
    /\ graph.source \cup graph.target \subseteq Stored(graph.relation) \X Stored(graph.node)
    /\ graph.hasNode \subseteq Stored(graph.node) /\ graph.hasCluster \subseteq Stored(graph.cluster)
    /\ ~graph.root => graph.hasNode \cup graph.hasCluster \cup graph.hasSubcluster = {}
    /\ mix \in Mixes /\ begun \in 0..mix.most /\ cut \in BOOLEAN /\ repointed \subseteq Edges
    /\ \A p \in Requests : req[p].node \in NodeIds \cup {0}

EditorOps == {"createNode", "deleteNode", "createEdge", "deleteEdge", "updateEdge",
    "createCluster", "deleteCluster", "createSubcluster", "deleteSubcluster", "moveNode",
    "moveSubcluster", "join", "quit"}
Ends(p) == req[p].step # "idle" /\ req'[p].step = "idle" /\ ~Fail(p)

\* An editor request that no other request crossed and that found the graph in
\* shape (every listed node in one live cluster, subclusters and their members
\* in the same cluster, live edges between live nodes, nothing unlinked)
\* leaves it in shape, but for moveSubclusterToCluster, which takes the nodes it
\* shares with another subcluster away from under that one.
SharesMember(g, s) ==
    \E t \in Subclusters \ {s} : FindSubcluster(g, t) /\ MembersOf(g, s) \cap MembersOf(g, t) # {}
SerialEditsKeepShape == [][
    \A p \in Requests :
        Ends(p) /\ req[p].op \in EditorOps /\ req[p].alone /\ req[p].sound =>
            \/ Shape(graph')
            \/ req[p].op = "moveSubcluster" /\ SharesMember(graph, req[p].sub)]_vars

\* The graph keeps each edge twice, as a relation with two ends, which the list
\* of edges reads, and as MACRO_RELATED, which the search reads.  Once no
\* deleteGraph is half done and nothing is unlinked the two tell the same edges
\* between live nodes, but for an edge the API stored again between other nodes:
\* the relation then has the old ends and the new.
ReadsAgree ==
    NoOrphans(graph) /\ ~cut =>
        \A n, m \in Live(graph.node), e \in Edges \ repointed :
            <<n, e, m>> \in ListEdges(graph) <=> <<n, e, m, "live">> \in graph.related

\* No relationship lacks the rows it joins, and the two copies of the edges agree.
GraphHolds == TypeOK /\ ReadsAgree
=============================================================================
