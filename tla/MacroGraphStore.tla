--------------------------- MODULE MacroGraphStore ---------------------------
(***************************************************************************)
(* The macro graph of one user as Neo4j keeps it, and what the statements  *)
(* of macroGraph.cypher.ts and the transactions that the methods of        *)
(* Neo4jMacroGraphAdapter build from them make of it: every operator takes *)
(* a graph and gives the graph, or the answer, that comes out.  One such   *)
(* transaction is atomic.  Properties of a node that no statement filters  *)
(* by (labels, weights, embeddings, times) are left out.                   *)
(***************************************************************************)
EXTENDS Integers, FiniteSets, FiniteSetsExt

CONSTANTS
    NodeIds,        \* numeric node ids 1..n
    Docs,           \* origIds: what a node stands for
    Clusters, Subclusters, Edges,
    None            \* no origId

ASSUME NodeIdAssumption == NodeIds \subseteq Nat \ {0} /\ IsFiniteSet(NodeIds)

\* deletedAt of a row that may not be there.
Life == {"none", "live", "deleted"}

\* Rows by label, the links of the root to them, and the relationships.
Graphs == [
    root : BOOLEAN,
    node : [NodeIds -> Life], origId : [NodeIds -> Docs \cup {None}],
    cluster : [Clusters -> Life], subcluster : [Subclusters -> Life],
    relation : [Edges -> Life],
    hasNode : SUBSET NodeIds, hasCluster : SUBSET Clusters,
    hasSubcluster : SUBSET Subclusters, hasRelation : SUBSET Edges,
    belongsTo : SUBSET (NodeIds \X Clusters),
    within : SUBSET (Subclusters \X Clusters),      \* HAS_SUBCLUSTER of a cluster
    contains : SUBSET (Subclusters \X NodeIds),
    represents : SUBSET (Subclusters \X NodeIds),
    source : SUBSET (Edges \X NodeIds), target : SUBSET (Edges \X NodeIds),
    related : SUBSET (NodeIds \X Edges \X NodeIds \X {"live", "deleted"})]

EmptyGraph == [
    root |-> FALSE,
    node |-> [n \in NodeIds |-> "none"], origId |-> [n \in NodeIds |-> None],
    cluster |-> [c \in Clusters |-> "none"],
    subcluster |-> [s \in Subclusters |-> "none"],
    relation |-> [e \in Edges |-> "none"],
    hasNode |-> {}, hasCluster |-> {}, hasSubcluster |-> {}, hasRelation |-> {},
    belongsTo |-> {}, within |-> {}, contains |-> {}, represents |-> {},
    source |-> {}, target |-> {}, related |-> {}]

Put(f, S, life) == [x \in DOMAIN f |-> IF x \in S THEN life ELSE f[x]]
\* The rows of S that MATCH finds, and those it finds with deletedAt IS NULL.
Present(f, S) == {x \in S : f[x] # "none"}
Live(f) == {x \in DOMAIN f : f[x] = "live"}

-----------------------------------------------------------------------------
(* Reads.                                                                  *)

FindNode(g, n) == n \in g.hasNode /\ g.node[n] = "live"
ListNodes(g) == {n \in g.hasNode : g.node[n] = "live"}
FindCluster(g, c) == c \in g.hasCluster /\ g.cluster[c] = "live"
FindSubcluster(g, s) == s \in g.hasSubcluster /\ g.subcluster[s] = "live"
FindEdge(g, e) ==
    /\ e \in g.hasRelation /\ g.relation[e] = "live"
    /\ \E n \in NodeIds : <<e, n>> \in g.source
    /\ \E n \in NodeIds : <<e, n>> \in g.target

ClusterOf(g, n) == {c \in Clusters : <<n, c>> \in g.belongsTo}
ParentOf(g, s) == {c \in Clusters : <<s, c>> \in g.within}
MembersOf(g, s) == {n \in NodeIds : <<s, n>> \in g.contains /\ g.node[n] = "live"}

ListNodesByCluster(g, c) ==
    IF g.cluster[c] = "live"
      THEN {n \in Live(g.node) : <<n, c>> \in g.belongsTo} ELSE {}
ClusterHasNodes(g, c) == \E n \in Live(g.node) : <<n, c>> \in g.belongsTo

\* The subclusters outside cluster c that list n.
ListedElsewhere(g, n, c) ==
    {s \in g.hasSubcluster : /\ g.subcluster[s] = "live" /\ n \in MembersOf(g, s)
                             /\ c \notin ParentOf(g, s)}

\* The endpoints may be deleted nodes.
ListEdges(g) ==
    {l \in NodeIds \X Edges \X NodeIds :
        /\ l[2] \in g.hasRelation /\ g.relation[l[2]] = "live"
        /\ <<l[2], l[1]>> \in g.source /\ <<l[2], l[3]>> \in g.target}

\* Over every node of the user, linked to the root or not.
GetMaxNodeId(g) == Max({0} \cup Present(g.node, NodeIds))
GetNextNodeId(g) == GetMaxNodeId(g) + 1

\* Nodes one live MACRO_RELATED edge away, in either direction.
Adjacent(g, n) ==
    {m \in Live(g.node) : \E e \in Edges :
        <<n, e, m, "live">> \in g.related \/ <<m, e, n, "live">> \in g.related}
Seeds(g, docs) == {n \in Live(g.node) : g.origId[n] \in docs}
Fresh(g, docs, S) == {n \in S : g.origId[n] \notin docs}

GraphRagNeighbors1Hop(g, docs) ==
    Fresh(g, docs, UNION {Adjacent(g, n) : n \in Seeds(g, docs)})
GraphRagNeighbors2Hop(g, docs) ==
    Fresh(g, docs, UNION {Adjacent(g, m) \ {m} : m \in GraphRagNeighbors1Hop(g, docs)})
GraphRagClusterSiblings(g, docs, excluded) ==
    {n \in Live(g.node) :
        /\ g.origId[n] \notin docs \cup excluded
        /\ \E m \in Seeds(g, docs), c \in Live(g.cluster) :
              <<m, c>> \in g.belongsTo /\ <<n, c>> \in g.belongsTo}

-----------------------------------------------------------------------------
(* Writing rows and their links.                                           *)

UpsertGraphRoot(g) == [g EXCEPT !.root = TRUE]

\* MERGE by id: the row of another document with this id is overwritten.
UpsertNodes(g, rows) ==
    LET ids == {r.id : r \in rows} IN
    [g EXCEPT !.node = Put(@, ids, "live"),
              !.origId = [n \in NodeIds |->
                  IF n \in ids THEN (CHOOSE r \in rows : r.id = n).doc ELSE @[n]]]

UpsertClusters(g, ids) == [g EXCEPT !.cluster = Put(@, ids, "live")]
UpsertSubclusters(g, ids) == [g EXCEPT !.subcluster = Put(@, ids, "live")]
UpsertRelations(g, ids) == [g EXCEPT !.relation = Put(@, ids, "live")]

LinkNodesToGraph(g, ids) ==
    IF g.root THEN [g EXCEPT !.hasNode = @ \cup Present(g.node, ids)] ELSE g
LinkClustersToGraph(g, ids) ==
    IF g.root THEN [g EXCEPT !.hasCluster = @ \cup Present(g.cluster, ids)] ELSE g
LinkSubclustersToGraph(g, ids) ==
    IF g.root THEN [g EXCEPT !.hasSubcluster = @ \cup Present(g.subcluster, ids)] ELSE g
LinkRelationsToGraph(g, ids) ==
    IF g.root THEN [g EXCEPT !.hasRelation = @ \cup Present(g.relation, ids)] ELSE g

\* The old links go first: without the cluster the node is left with none.
LinkNodeBelongsToCluster(g, rows) ==
    LET found == Present(g.node, {r.id : r \in rows}) IN
    [g EXCEPT !.belongsTo =
        {b \in @ : b[1] \notin found}
        \cup {<<r.id, r.cluster>> : r \in {x \in rows :
                x.id \in found /\ g.cluster[x.cluster] # "none"}}]

ClearSubclusterRelationships(g, ids) ==
    [g EXCEPT !.hasSubcluster = @ \ ids,
              !.within = {x \in @ : x[1] \notin ids},
              !.contains = {x \in @ : x[1] \notin ids},
              !.represents = {x \in @ : x[1] \notin ids}]
LinkSubclusterToCluster(g, rows) ==
    [g EXCEPT !.within = @ \cup {<<r.id, r.cluster>> : r \in
        {x \in rows : g.cluster[x.cluster] # "none"}}]

\* Only nodes of the subcluster's own cluster are linked.
Eligible(g, s, nodes) ==
    {n \in Present(g.node, nodes) : ClusterOf(g, n) \cap ParentOf(g, s) # {}}
LinkSubclusterContainsNodes(g, rows) ==
    [g EXCEPT !.contains = @ \cup UNION {{r.id} \X Eligible(g, r.id, r.nodes) : r \in rows}]
LinkSubclusterRepresentsNode(g, rows) ==
    [g EXCEPT !.represents = @ \cup UNION {{r.id} \X Eligible(g, r.id, r.rep) : r \in rows}]

\* Edges whose two endpoints MATCH finds.
Anchored(g, rows) == {r \in rows : g.node[r.from] # "none" /\ g.node[r.to] # "none"}
LinkRelationEndpoints(g, rows) ==
    [g EXCEPT !.source = @ \cup {<<r.id, r.from>> : r \in Anchored(g, rows)},
              !.target = @ \cup {<<r.id, r.to>> : r \in Anchored(g, rows)}]
LinkMaterializedMacroRelated(g, rows) ==
    LET new == {<<r.from, r.id, r.to>> : r \in Anchored(g, rows)} IN
    [g EXCEPT !.related = {x \in @ : <<x[1], x[2], x[3]>> \notin new}
                          \cup {<<x[1], x[2], x[3], "live">> : x \in new}]

-----------------------------------------------------------------------------
(* The adapter's upserts.                                                  *)

StoreNodes(g, rows) ==
    IF rows = {} THEN g
    ELSE LET ids == {r.id : r \in rows}
             linked == LinkNodesToGraph(UpsertNodes(UpsertGraphRoot(g), rows), ids)
         IN LinkNodeBelongsToCluster(linked, rows)

StoreEdges(g, rows) ==
    IF rows = {} THEN g
    ELSE LET ids == {r.id : r \in rows}
             linked == LinkRelationsToGraph(UpsertRelations(UpsertGraphRoot(g), ids), ids)
         IN LinkMaterializedMacroRelated(LinkRelationEndpoints(linked, rows), rows)

StoreClusters(g, ids) ==
    IF ids = {} THEN g
    ELSE LinkClustersToGraph(UpsertClusters(UpsertGraphRoot(g), ids), ids)

StoreSubclusters(g, rows) ==
    IF rows = {} THEN g
    ELSE LET ids == {r.id : r \in rows}
             fresh == ClearSubclusterRelationships(
                          UpsertSubclusters(UpsertGraphRoot(g), ids), ids)
             placed == LinkSubclusterToCluster(LinkSubclustersToGraph(fresh, ids), rows)
         IN LinkSubclusterRepresentsNode(LinkSubclusterContainsNodes(placed, rows), rows)

\* updateNode returns before the clusterId when the patch has no other field.
PatchNode(g, n, otherFields, c) ==
    IF otherFields THEN LinkNodeBelongsToCluster(g, {[id |-> n, cluster |-> c]}) ELSE g

-----------------------------------------------------------------------------
(* Deleting and restoring.                                                 *)

Touching(g, ids) == {e \in Edges : \E n \in ids : <<e, n>> \in g.source \cup g.target}
\* The MACRO_RELATED edges of some nodes, of some edge ids, and marking them.
RelatedOf(g, ids) == {x \in g.related : x[1] \in ids \/ x[3] \in ids}
RelatedBy(g, edges) == {x \in g.related : x[2] \in edges}
Mark(related, hit, life) ==
    (related \ hit) \cup {<<x[1], x[2], x[3], life>> : x \in hit}

SoftDeleteNodesByIds(g, ids) ==
    LET found == Present(g.node, ids) IN
    [g EXCEPT !.node = Put(@, found, "deleted"),
              !.relation = Put(@, Touching(g, found), "deleted"),
              !.related = Mark(@, RelatedOf(g, found), "deleted")]

\* Mutant: the materialized edges are not restored.
RestoreNodesAlone(g, ids) ==
    LET found == Present(g.node, ids) IN
    [g EXCEPT !.node = Put(@, found, "live"),
              !.relation = Put(@, Touching(g, found), "live")]

\* Every edge of the nodes comes back, whatever its other end is.
RestoreNodesByIds(g, ids) ==
    LET found == Present(g.node, ids) IN
    [g EXCEPT !.node = Put(@, found, "live"),
              !.relation = Put(@, Touching(g, found), "live"),
              !.related = Mark(@, RelatedOf(g, found), "live")]

DetachRelations(g, edges) ==
    [g EXCEPT !.relation = Put(@, edges, "none"), !.hasRelation = @ \ edges,
              !.source = {x \in @ : x[1] \notin edges},
              !.target = {x \in @ : x[1] \notin edges}]
DetachNodes(g, ids) ==
    [g EXCEPT !.node = Put(@, ids, "none"), !.origId = [n \in NodeIds |->
                  IF n \in ids THEN None ELSE @[n]],
              !.hasNode = @ \ ids,
              !.belongsTo = {x \in @ : x[1] \notin ids},
              !.contains = {x \in @ : x[2] \notin ids},
              !.represents = {x \in @ : x[2] \notin ids},
              !.source = {x \in @ : x[2] \notin ids},
              !.target = {x \in @ : x[2] \notin ids},
              !.related = {x \in @ : x[1] \notin ids /\ x[3] \notin ids}]
DetachSubclusters(g, ids) ==
    [ClearSubclusterRelationships(g, ids) EXCEPT !.subcluster = Put(@, ids, "none")]
DetachClusters(g, ids) ==
    [g EXCEPT !.cluster = Put(@, ids, "none"), !.hasCluster = @ \ ids,
              !.belongsTo = {x \in @ : x[2] \notin ids},
              !.within = {x \in @ : x[2] \notin ids}]

HardDeleteNodesByIds(g, ids) ==
    LET found == Present(g.node, ids) IN
    DetachNodes(DetachRelations(g, Touching(g, found)), found)

SoftDeleteEdgesByIds(g, edges) ==
    LET found == Present(g.relation, edges) IN
    [g EXCEPT !.relation = Put(@, found, "deleted"),
              !.related = Mark(@, RelatedBy(g, found), "deleted")]
HardDeleteEdgesByIds(g, edges) ==
    [DetachRelations(g, edges) EXCEPT !.related = {x \in @ : x[2] \notin edges}]
RestoreEdgeById(g, e) ==
    LET found == Present(g.relation, {e}) IN
    [g EXCEPT !.relation = Put(@, found, "live"), !.related = Mark(@, RelatedBy(g, found), "live")]
\* An edge's attributes are copied to its other copy, deletedAt with them.
UpdateEdge(g, e) ==
    [g EXCEPT !.related = Mark(@, RelatedBy(g, Present(g.relation, {e})), g.relation[e])]

DeleteNodes(g, ids, permanent) ==
    IF permanent THEN HardDeleteNodesByIds(g, ids) ELSE SoftDeleteNodesByIds(g, ids)
DeleteEdge(g, e, permanent) ==
    IF permanent THEN HardDeleteEdgesByIds(g, {e}) ELSE SoftDeleteEdgesByIds(g, {e})
DeleteEdgesByNodeIds(g, ids, permanent) ==
    IF permanent THEN HardDeleteEdgesByIds(g, Touching(g, ids))
                 ELSE SoftDeleteEdgesByIds(g, Touching(g, ids))
DeleteCluster(g, c, permanent) ==
    IF permanent THEN DetachClusters(g, Present(g.cluster, {c}))
    ELSE [g EXCEPT !.cluster = Put(@, Present(@, {c}), "deleted")]
DeleteSubcluster(g, s, permanent) ==
    IF permanent THEN DetachSubclusters(g, Present(g.subcluster, {s}))
    ELSE [g EXCEPT !.subcluster = Put(@, Present(@, {s}), "deleted")]
RestoreCluster(g, c) == [g EXCEPT !.cluster = Put(@, Present(@, {c}), "live")]

NodesOf(g, docs) == {n \in Present(g.node, NodeIds) : g.origId[n] \in docs}
DeleteNodesByOrigIds(g, docs, permanent) == DeleteNodes(g, NodesOf(g, docs), permanent)
RestoreNodesByOrigIds(g, docs) == RestoreNodesByIds(g, NodesOf(g, docs))

\* deleteGraph: five statements, each committed by itself.
DeleteGraphSteps == <<"relations", "nodes", "subclusters", "clusters", "root">>
DeleteGraphBatch(g, batch) ==
    CASE batch = "relations"   -> DetachRelations(g, g.hasRelation)
      [] batch = "nodes"       -> DetachNodes(g, g.hasNode)
      [] batch = "subclusters" -> DetachSubclusters(g, g.hasSubcluster)
      [] batch = "clusters"    -> DetachClusters(g, g.hasCluster)
      [] batch = "root"        -> [g EXCEPT !.root = FALSE, !.hasNode = {},
                 !.hasCluster = {}, !.hasSubcluster = {}, !.hasRelation = {}]

-----------------------------------------------------------------------------
(* Moving and membership.                                                  *)

MoveNodeToCluster(g, n, c) ==
    IF g.node[n] = "none" THEN g
    ELSE [g EXCEPT !.belongsTo = {x \in @ : x[1] # n}
             \cup (IF g.cluster[c] = "live" THEN {<<n, c>>} ELSE {})]

\* The live nodes it contains move with it, those of other subclusters too.
MoveSubclusterToCluster(g, s, c) ==
    IF g.subcluster[s] = "none" THEN g
    ELSE IF g.cluster[c] # "live" THEN [g EXCEPT !.within = {x \in @ : x[1] # s}]
    ELSE [g EXCEPT
             !.within = {x \in @ : x[1] # s} \cup {<<s, c>>},
             !.belongsTo = {x \in @ : x[1] \notin MembersOf(g, s)}
                           \cup (MembersOf(g, s) \X {c})]

AddNodeToSubcluster(g, s, n) ==
    IF g.subcluster[s] = "live" /\ g.node[n] = "live"
      THEN [g EXCEPT !.contains = @ \cup {<<s, n>>}] ELSE g
RemoveNodeFromSubcluster(g, s, n) == [g EXCEPT !.contains = @ \ {<<s, n>>}]

\* Clusters with no node at all, deleted nodes counted.
CleanupEmptyClusters(g) ==
    DetachClusters(g, {c \in g.hasCluster : \A n \in NodeIds : <<n, c>> \notin g.belongsTo})

\* CONTAINS and REPRESENTS of nodes in ids whose cluster is not the subcluster's.
Incompatible(g, ids) ==
    {x \in Subclusters \X NodeIds :
        /\ x[2] \in ids \cap g.hasNode
        /\ \E c \in ClusterOf(g, x[2]), d \in ParentOf(g, x[1]) : c # d}
PruneIncompatible(g, ids) ==
    [g EXCEPT !.contains = @ \ Incompatible(g, ids),
              !.represents = @ \ Incompatible(g, ids)]

\* Live members that are in the subcluster's cluster.
Valid(g, s) == {n \in MembersOf(g, s) : ClusterOf(g, n) \cap ParentOf(g, s) # {}}

\* The three parts of reconcileSubclusterMemberships.
DropHollow(g) ==
    DetachSubclusters(g, {s \in g.hasSubcluster :
                            g.subcluster[s] = "live" /\ Valid(g, s) = {}})
InvalidRep(g, x) ==
    \/ g.node[x[2]] = "deleted"
    \/ ClusterOf(g, x[2]) = {}
    \/ \E c \in ClusterOf(g, x[2]), d \in ParentOf(g, x[1]) : c # d
    \/ x \notin g.contains
Parented(g) == {s \in Live(g.subcluster) : ParentOf(g, s) # {}}
DropInvalidReps(g) ==
    [g EXCEPT !.represents = {x \in @ : ~(x[1] \in Parented(g) /\ InvalidRep(g, x))}]
AssignReps(g) ==
    [g EXCEPT !.represents = @ \cup
        {<<s, Min(Valid(g, s))>> : s \in {t \in Live(g.subcluster) :
            Valid(g, t) # {} /\ \A n \in Valid(g, t) : <<t, n>> \notin g.represents}}]
Reconcile(g) == AssignReps(DropInvalidReps(DropHollow(g)))
=============================================================================
