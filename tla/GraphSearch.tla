----------------------------- MODULE GraphSearch -----------------------------
(***************************************************************************)
(* Searching what a user has: SearchService's Graph RAG search (one or     *)
(* several keywords) over the vectors and the macro graph, and its keyword *)
(* search over conversations and their messages.  A search is a chain of   *)
(* reads in transactions of their own, some of them in parallel, while the *)
(* graph and the documents change.  Vectors give every document a score    *)
(* per keyword, in tenths; edges weigh one.                                *)
(***************************************************************************)
EXTENDS MacroGraphStore, Sequences

CONSTANTS
    Conversations,          \* the documents of Docs that are conversations
    SearchLimit,            \* results asked for
    PerQueryLimit,          \* results per keyword of several
    Cases                   \* graphs, scores, matches and numbers of changes to start from

VARIABLES
    graph,          \* the macro graph
    life,           \* per document, "live" or "trashed"
    score,          \* per keyword, the documents' vector scores
    matches,        \* conversations whose title, and whose messages, match
    probe,          \* per keyword asked for, its Graph RAG search
    threads,        \* the keyword search
    snapshot,       \* the whole graph, read for the client or for the agent's tools
    answer,         \* the nodes given to the caller
    changes,        \* how many changes may still be made
    crossed,        \* history: whether one was made during a search
    restored        \* history: whether nodes were restored

vars == <<graph, life, score, matches, probe, threads, snapshot, answer, changes,
          crossed, restored>>

Probe0 == [at |-> "idle", seeds |-> {}, hop1 |-> {}, hop2 |-> {}, rows |-> {}, read |-> {}]
Snapshot0 == [at |-> "idle", read |-> {},
              lists |-> [nodes |-> {}, edges |-> {}, clusters |-> {}, overview |-> {}],
              titled |-> {}, counts |-> <<>>]
Threads0 == [at |-> "idle", read |-> {}, titles |-> {}, quoted |-> {}, found |-> <<>>]

-----------------------------------------------------------------------------
(* Scores and ranking (Phase 4 of graphRagSearch).                         *)

MinScore == 3                           \* GRAPH_RAG_VECTOR_MIN_SCORE
Decay == [hop \in {0, 1, 2, 9} |->      \* GRAPH_RAG_HOP_DECAY, ..._SIBLING_DECAY
    CASE hop = 0 -> 100 [] hop = 1 -> 90 [] hop = 2 -> 80 [] hop = 9 -> 45]
SiblingBudget(limit) == Max({1, (limit * 4) \div 10})
NeighborLimit(limit) == limit * 3

\* The largest ones, of which ties leave a choice.
Top(rows, n) ==
    {S \in SUBSET rows :
        /\ Cardinality(S) = Min({n, Cardinality(rows)})
        /\ \A x \in S, y \in rows \ S : x.value >= y.value}

\* LIMIT after ORDER BY connectionCount, the number of seeds that lead there.
Ordered(rows, n) ==
    {S \in SUBSET rows :
        /\ Cardinality(S) = Min({n, Cardinality(rows)})
        /\ \A x \in S, y \in rows \ S : Cardinality(x.seeds) >= Cardinality(y.seeds)}

DocOf(n) == graph.origId[n]
DocsOf(rows) == {r.doc : r \in rows}
\* One row of a statement: a node and the seeds that lead to it.
Found(n, seeds) == [node |-> n, doc |-> DocOf(n), seeds |-> seeds]
LeadTo(seeds, S) == {DocOf(m) : m \in {x \in Seeds(graph, seeds) : x \in S}}

Hop1Rows(seeds) ==
    {Found(n, LeadTo(seeds, Adjacent(graph, n))) : n \in GraphRagNeighbors1Hop(graph, seeds)}
Between(n, seeds) == GraphRagNeighbors1Hop(graph, seeds) \cap (Adjacent(graph, n) \ {n})
Hop2Rows(seeds) ==
    {Found(n, LeadTo(seeds, UNION {Adjacent(graph, m) : m \in Between(n, seeds)})) :
        n \in GraphRagNeighbors2Hop(graph, seeds)}
SiblingRows(seeds, excluded) ==
    {Found(n, LeadTo(seeds, {m \in NodeIds :
        ClusterOf(graph, m) \cap ClusterOf(graph, n) \cap Live(graph.cluster) # {}})) :
        n \in GraphRagClusterSiblings(graph, seeds, excluded)}

BestSeed(k, seeds) == Max({0} \cup {score[k][d] : d \in seeds})
Scored(k, rows, hop) ==
    {[doc |-> r.doc, hop |-> hop, value |-> Decay[hop] * BestSeed(k, r.seeds)] : r \in rows}
SeedRows(k, seeds) == {[doc |-> d, hop |-> 0, value |-> Decay[0] * score[k][d]] : d \in seeds}

\* Mutant: the second statement's rows are taken as they are.
AllRows(hop1, hop2) == hop2
\* buildResults: a document found at both distances counts with the first.
Neighbors(hop1, hop2) == {r \in hop2 : r.doc \notin DocsOf(hop1)}

-----------------------------------------------------------------------------
(* graphRagSearch, for one keyword.                                        *)

Rest == <<graph, life, score, matches, threads, snapshot, changes, crossed, restored>>
Limit == IF Cardinality(DOMAIN probe) = 1 THEN SearchLimit ELSE PerQueryLimit

\* searchNodes: of the documents with the nearest vectors, those that have a node.
FindSeeds(k) ==
    LET known == {n \in ListNodes(graph) : score[k][DocOf(n)] >= MinScore}
        seeds == {DocOf(n) : n \in known}
    IN  /\ probe[k].at = "seeds"
        /\ probe' = [probe EXCEPT ![k].seeds = seeds,
                                  ![k].at = IF seeds = {} THEN "done" ELSE "hops"]
        /\ UNCHANGED <<Rest, answer>>

\* The two statements run in two sessions at once.
ReadHop1(k) ==
    /\ probe[k].at = "hops" /\ 1 \notin probe[k].read
    /\ \E rows \in Ordered(Hop1Rows(probe[k].seeds), NeighborLimit(Limit)) :
           probe' = [probe EXCEPT ![k].hop1 = rows, ![k].read = @ \cup {1}]
    /\ UNCHANGED <<Rest, answer>>
ReadHop2(k) ==
    /\ probe[k].at = "hops" /\ 2 \notin probe[k].read
    /\ \E rows \in Ordered(Hop2Rows(probe[k].seeds), NeighborLimit(Limit)) :
           probe' = [probe EXCEPT ![k].hop2 = rows, ![k].read = @ \cup {2}]
    /\ UNCHANGED <<Rest, answer>>

\* The cluster's other nodes, then the ranking of all that was found.
ReadSiblings(k) ==
    LET p == probe[k]
        far == Neighbors(p.hop1, p.hop2)
    IN  /\ p.at = "hops" /\ p.read = {1, 2}
        /\ \E rows \in Ordered(SiblingRows(p.seeds, DocsOf(p.hop1 \cup far)), SiblingBudget(Limit)) :
           \E top \in Top(SeedRows(k, p.seeds) \cup Scored(k, p.hop1, 1)
                          \cup Scored(k, far, 2) \cup Scored(k, rows, 9), Limit) :
               probe' = [probe EXCEPT ![k].rows = top, ![k].at = "titles"]
        /\ UNCHANGED <<Rest, answer>>

\* enrichGraphRagNodeDetails: findByIds knows trashed conversations, getNote only
\* live notes.
HasTitle(d) == d \in Conversations \/ life[d] = "live"
EnrichNodeDetails(k) ==
    /\ probe[k].at = "titles"
    /\ probe' = [probe EXCEPT ![k].at = "done", ![k].rows =
           {[doc |-> r.doc, hop |-> r.hop, value |-> r.value, titled |-> HasTitle(r.doc)] :
               r \in @}]
    /\ UNCHANGED <<Rest, answer>>

\* graphRagSearchMulti: a document counts with its best row.  One keyword's
\* answer is already at most SearchLimit long.
Merged(rows) == {r \in rows : \A s \in rows : s.doc = r.doc => s.value <= r.value}
OnePerDocument(rows) ==
    {S \in SUBSET rows : DocsOf(S) = DocsOf(rows) /\ Cardinality(S) = Cardinality(DocsOf(rows))}
Merge ==
    LET rows == UNION {probe[k].rows : k \in DOMAIN probe} IN
    /\ DOMAIN probe # {} /\ \A k \in DOMAIN probe : probe[k].at = "done"
    /\ \E S \in OnePerDocument(Merged(rows)) : \E top \in Top(S, SearchLimit) : answer' = top
    /\ probe' = [k \in DOMAIN probe |-> [Probe0 EXCEPT !.at = "merged"]]
    /\ UNCHANGED Rest

-----------------------------------------------------------------------------
(* integratedSearchByKeyword, over conversations.                          *)

LiveMatches(S) == {d \in S : life[d] = "live"}
Unread == <<graph, life, score, matches, probe, answer, changes, crossed, restored>>

\* The titles and the messages are read at once; trashing a conversation has
\* trashed its messages with it.
ReadTitles ==
    /\ threads.at = "read" /\ "titles" \notin threads.read
    /\ threads' = [threads EXCEPT !.titles = LiveMatches(matches.title),
                                  !.read = @ \cup {"titles"}]
    /\ UNCHANGED <<Unread, snapshot>>
ReadQuotes ==
    /\ threads.at = "read" /\ "quotes" \notin threads.read
    /\ threads' = [threads EXCEPT !.quoted = LiveMatches(matches.message),
                                  !.read = @ \cup {"quotes"}]
    /\ UNCHANGED <<Unread, snapshot>>

\* findByIds also finds trashed conversations: they are filtered out again.
FindExtra(ids) == LiveMatches(ids)
AddQuoted ==
    /\ threads.at = "read" /\ threads.read = {"titles", "quotes"}
    /\ threads' = [threads EXCEPT !.at = "done", !.found =
           [title |-> threads.titles, message |-> FindExtra(threads.quoted \ threads.titles)]]
    /\ UNCHANGED <<Unread, snapshot>>

-----------------------------------------------------------------------------
(* getSnapshotForUser: the graph in parallel reads, from which the agent's  *)
(* tools tell a node's cluster and edges; then the titles of its nodes.    *)
(* Beside it the summary's overview, of a graph that has a summary.        *)

LiveClusters == {c \in Clusters : FindCluster(graph, c)}
\* getGraphSummary: three reads of one transaction count again what the stored
\* summary says.
NodeCounts == Cardinality(ListNodes(graph))
ClusterSizes == [c \in LiveClusters |-> Cardinality(ListNodesByCluster(graph, c))]
Overview == {[total |-> NodeCounts, sizes |-> ClusterSizes]}

Lists == [nodes |-> ListNodes(graph), edges |-> ListEdges(graph),
          clusters |-> {[id |-> c, size |-> ClusterSizes[c]] : c \in LiveClusters},
          overview |-> Overview]
ReadList(list) ==
    /\ snapshot.at = "read" /\ list \notin snapshot.read
    /\ snapshot' = [snapshot EXCEPT !.lists[list] = Lists[list], !.read = @ \cup {list},
                        !.at = IF Cardinality(snapshot.read) = 3 THEN "titles" ELSE "read"]
    /\ UNCHANGED <<Unread, threads>>
AttachNodeTitles ==
    /\ snapshot.at = "titles"
    /\ snapshot' = [snapshot EXCEPT !.at = "counts", !.titled =
           {n \in snapshot.lists.nodes : HasTitle(DocOf(n))}]
    /\ UNCHANGED <<Unread, threads>>
\* The overview's conversations and notes are the user's, in the graph or not.
CountDocuments ==
    LET count(S) == Cardinality({d \in S : life[d] = "live"}) IN
    /\ snapshot.at = "counts"
    /\ snapshot' = [snapshot EXCEPT !.at = "done", !.counts =
           [conversations |-> count(Conversations), notes |-> count(Docs \ Conversations)]]
    /\ UNCHANGED <<Unread, threads>>
NodeDetails(n) ==
    [clusters |-> {x \in snapshot.lists.clusters : x.id \in ClusterOf(graph, n)},
     edges |-> {x \in snapshot.lists.edges : n \in {x[1], x[3]}}]

-----------------------------------------------------------------------------
(* What changes meanwhile: documents go to the trash and come back, their  *)
(* nodes follow in a transaction of their own, and edges come and go.      *)

Searching == \/ \E k \in DOMAIN probe : probe[k].at \in {"hops", "titles", "done"}
             \/ \E reader \in {threads, snapshot} : reader.at = "read" /\ reader.read # {}
             \/ snapshot.at \in {"titles", "counts"}
Ended == "done" \in {threads.at, snapshot.at} \/ \E k \in DOMAIN probe : probe[k].at = "merged"
Change(g, docs) ==
    /\ changes > 0 /\ ~Ended
    /\ changes' = changes - 1 /\ graph' = g /\ life' = docs
    /\ crossed' = (crossed \/ Searching)
    /\ UNCHANGED <<score, matches, probe, threads, snapshot, answer>>

Alter(g, docs) == Change(g, docs) /\ UNCHANGED restored

Trash(d) == life[d] = "live" /\ Alter(graph, [life EXCEPT ![d] = "trashed"])
Restore(d) == life[d] = "trashed" /\ Alter(graph, [life EXCEPT ![d] = "live"])
DropNodes(d) == life[d] = "trashed" /\ Alter(DeleteNodesByOrigIds(graph, {d}, FALSE), life)
RaiseNodes(d) ==
    /\ life[d] = "live"
    /\ Change(RestoreNodesByOrigIds(graph, {d}), life) /\ restored' = TRUE
DropEdge(e) == FindEdge(graph, e) /\ Alter(DeleteEdge(graph, e, FALSE), life)

-----------------------------------------------------------------------------
InitWith(c) ==
    /\ graph = c.graph /\ score = c.score /\ matches = c.matches /\ changes = c.changes
    /\ probe = [k \in DOMAIN c.score |-> [Probe0 EXCEPT !.at = c.probes]]
    /\ threads = [Threads0 EXCEPT !.at = c.threads]
    /\ snapshot = [Snapshot0 EXCEPT !.at = c.snapshot]
    /\ life = [d \in Docs |-> "live"] /\ answer = {}
    /\ crossed = FALSE /\ restored = FALSE
Init == \E c \in Cases : InitWith(c)

Next ==
    \/ \E k \in DOMAIN probe :
           \/ FindSeeds(k) \/ ReadHop1(k) \/ ReadHop2(k) \/ ReadSiblings(k)
           \/ EnrichNodeDetails(k)
    \/ \E list \in DOMAIN Lists : ReadList(list)
    \/ AttachNodeTitles \/ CountDocuments
    \/ Merge \/ ReadTitles \/ ReadQuotes \/ AddQuoted
    \/ \E d \in Docs : Trash(d) \/ Restore(d) \/ DropNodes(d) \/ RaiseNodes(d)
    \/ \E e \in Edges : DropEdge(e)

Spec == Init /\ [][Next]_vars

-----------------------------------------------------------------------------
(* Properties.                                                             *)

\* What a keyword should find: the shortest way from a seed, up to two edges, or
\* a cluster shared with one.
SeedsFor(k) == {d \in Docs : score[k][d] >= MinScore /\ \E n \in ListNodes(graph) : DocOf(n) = d}
Within(d) ==
    LET reach[i \in 0..2] ==
            IF i = 0 THEN {n \in Live(graph.node) : DocOf(n) = d}
            ELSE reach[i - 1] \cup UNION {Adjacent(graph, n) : n \in reach[i - 1]}
    IN  reach
ShareCluster(d, e) ==
    \E c \in Live(graph.cluster) : \A x \in {d, e} :
        \E n \in ListNodesByCluster(graph, c) : DocOf(n) = x
Hop(d, e) ==
    LET hops == {i \in 0..2 : \E n \in Within(d)[i] : DocOf(n) = e}
    IN  IF hops # {} THEN Min(hops) ELSE IF ShareCluster(d, e) THEN 9 ELSE 10
Reached(k, e) == Min({10} \cup {Hop(d, e) : d \in SeedsFor(k)})
ValueFor(k, e) ==
    LET hop == Reached(k, e) IN
    IF hop = 10 THEN 0
    ELSE Decay[hop] * Max({IF hop = 0 THEN score[k][e] ELSE score[k][d] :
                              d \in {x \in SeedsFor(k) : Hop(x, e) = hop}})
BestValue(e, hops) ==
    Max({0} \cup {ValueFor(k, e) : k \in {x \in DOMAIN probe : Reached(x, e) \in hops}})

Answered == \E k \in DOMAIN probe : probe[k].at = "merged"

\* An answer has the value of the shortest way to each of its documents, and
\* nothing within two edges of a seed that is left out would rank higher.
RanksByDistance ==
    Answered =>
        /\ \A r \in answer : r.value = BestValue(r.doc, {0, 1, 2, 9})
        /\ \A e \in Docs \ DocsOf(answer) :
               IF Cardinality(answer) < SearchLimit THEN BestValue(e, {0, 1, 2}) = 0
               ELSE \A r \in answer : r.value >= BestValue(e, {0, 1, 2})

\* The keyword search finds the live conversations that match.
FindsMatches ==
    threads.at = "done" =>
        threads.found.title \cup threads.found.message
            = LiveMatches(matches.title \cup matches.message)

\* No document is listed twice, although it may be near several seeds, at both
\* distances and in a seed's cluster, and the reads see different graphs.
ListsOnce ==
    /\ \A k \in DOMAIN probe : Cardinality(probe[k].rows) = Cardinality(DocsOf(probe[k].rows))
    /\ threads.at = "done" => threads.found.title \cap threads.found.message = {}

Trashed == {d \in Docs : life[d] = "trashed"}
\* The edges and the cluster that a node's details name are in the snapshot,
\* unless a restored node brought an edge to a deleted one back; the sizes of the
\* clusters, the snapshot's and the overview's, are those of its nodes; and only
\* a note in the trash has nodes without a title.
SnapshotHangsTogether ==
    LET lists == snapshot.lists
        members(c) == Cardinality({n \in lists.nodes : c \in ClusterOf(graph, n)}) IN
    snapshot.at = "done" =>
        /\ restored \/ \A n \in lists.nodes :
               /\ \A x \in NodeDetails(n).edges : {x[1], x[3]} \subseteq lists.nodes
               /\ NodeDetails(n).clusters # {}
        /\ \A x \in lists.clusters : x.size = members(x.id)
        /\ \A o \in lists.overview :
               /\ o.total = Cardinality(lists.nodes)
               /\ \A c \in DOMAIN o.sizes : [id |-> c, size |-> o.sizes[c]] \in lists.clusters
        /\ \A n \in lists.nodes \ snapshot.titled : DocOf(n) \in Trashed
        /\ Cardinality({DocOf(n) : n \in snapshot.titled} \ Trashed)
               <= snapshot.counts.conversations + snapshot.counts.notes

\* A search lists nothing twice, and one that nothing crossed ranks every
\* document by its shortest way from what the keyword found, finds the live
\* conversations, and reads a graph without loose ends.
SearchesAgree ==
    /\ ListsOnce
    /\ ~crossed => RanksByDistance /\ FindsMatches /\ SnapshotHangsTogether
=============================================================================
