---------------------------- MODULE MCGraphEditor ----------------------------
(***************************************************************************)
(* The requests and jobs that write the macro graph transaction by         *)
(* transaction (GraphEditor), for TLC.                                     *)
(***************************************************************************)
EXTENDS GraphEditor, TLC

CONSTANTS p1, p2, d1, d2, d3, ed, c1, c2, s1, s2, e12, e31, u1

\* Two nodes in one cluster, each in a subcluster, an edge between them, and a
\* second cluster that is empty.
MCSnapshot == [
    clusters |-> {c1, c2},
    nodes |-> {[id |-> 1, doc |-> d1, cluster |-> c1], [id |-> 2, doc |-> d2, cluster |-> c1]},
    edges |-> {[id |-> e12, from |-> 1, to |-> 2]},
    subclusters |-> {[id |-> s1, cluster |-> c1, nodes |-> {1}, rep |-> {1}],
                     [id |-> s2, cluster |-> c1, nodes |-> {2}, rep |-> {2}]}]
Sym == Permutations(Requests)
MCPairId == <<1, 2>> :> e12 @@ <<3, 1>> :> e31
\* Any two operations; and three of those that move nodes between clusters and
\* subclusters in one transaction, or that make, delete and restore nodes and edges.
Moving == {"moveSubcluster", "join", "addNode"}
Linking == {"createNode", "createEdge", "deleteNode", "restoreDocument", "deleteGraph"}
MCMixes == {[ops |-> Moving, most |-> 3], [ops |-> Linking, most |-> 3],
    [most |-> 2, ops |-> Moving \cup Linking \cup {"moveNode", "quit", "deleteSubcluster", "deleteEdge", "updateEdge", "createCluster",
        "deleteCluster", "createSubcluster", "apiCreateNode", "apiUpdateNode",
        "apiRestoreEdge", "apiDeleteNode", "apiCreateEdge",
        "apiDeleteEdge", "apiCreateCluster", "apiDeleteCluster", "apiRestoreCluster", "deleteDocument",
        "apiRestoreNode", "snapshot"}]}

=============================================================================
