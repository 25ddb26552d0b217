------------------------------ MODULE MCAiChat ------------------------------
(***************************************************************************)
(* What answers a user's questions, for TLC: the AI chat (AiChat), the     *)
(* agent's stream (Agent), the searches behind its tools (GraphSearch) and *)
(* what the results of the AI's jobs leave in the graph that is searched   *)
(* (GraphResults).  These are checked apart: they share no state, and a    *)
(* behaviour is one of them.  The chat has a                               *)
(* window of two messages and batches of two turns, on a new conversation  *)
(* and on ones of three and four turns, so that the calls meet a batch's   *)
(* boundary with and without a memory.  The searches meet every graph of   *)
(* four documents while nothing changes, and some that do change.          *)
(***************************************************************************)
EXTENDS AiChat, TLC

CONSTANTS
    r1, r2, None, MaxLoops, MaxTools, SearchLimit, PerQueryLimit,
    d1, d2, d3, d4, c1, c2, e12, e13, e14, e23, e24, e34, k1, k2, s1

VARIABLES
    part, purse, stream, opened, agentFaults, answered, lost,
    graph, life, score, matches, probe, threads, snapshot, answer, changes,
    crossed, restored,
    built, docs, vectors, inbox, worker, reports, finishedKey, edits, named, strays,
    touched, unpruned, lapses, placed

MCRequests == {r1, r2}
Sym == Permutations(MCRequests)

agentVars == <<purse, stream, opened, agentFaults, answered, lost>>
searchVars == <<graph, life, score, matches, probe, threads, snapshot, answer, changes,
                crossed, restored>>
resultVars == <<built, docs, vectors, inbox, worker, reports, finishedKey, edits, named,
                strays, touched, unpruned, lapses, placed>>

Chatting == INSTANCE Agent
                WITH Streams <- Requests, MaxStreams <- MaxCalls, balance <- purse,
                     faults <- agentFaults

-----------------------------------------------------------------------------
(* The graphs to search: node i stands for document i.                     *)

NodeIds == 1..4
Docs == {d1, d2, d3, d4}
Clusters == {c1, c2}
DocOfNode == <<d1, d2, d3, d4>>
EdgeEnds == e12 :> <<1, 2>> @@ e13 :> <<1, 3>> @@ e14 :> <<1, 4>>
            @@ e23 :> <<2, 3>> @@ e24 :> <<2, 4>> @@ e34 :> <<3, 4>>

Store == INSTANCE MacroGraphStore WITH Subclusters <- {}, Edges <- DOMAIN EdgeEnds
GraphWith(edges, cluster) ==
    Store!StoreEdges(
        Store!StoreNodes(Store!StoreClusters(Store!EmptyGraph, Clusters),
            {[id |-> n, doc |-> DocOfNode[n], cluster |-> cluster[n]] : n \in NodeIds}),
        {[id |-> e, from |-> EdgeEnds[e][1], to |-> EdgeEnds[e][2]] : e \in edges})

NoCase == [graph |-> Store!EmptyGraph, score |-> <<>>, changes |-> 0,
           matches |-> [title |-> {}, message |-> {}],
           probes |-> "idle", threads |-> "idle", snapshot |-> "idle"]
Asking(g, s, n) == [NoCase EXCEPT !.graph = g, !.score = s, !.changes = n, !.probes = "seeds"]
Scores(a, b, c, d) == d1 :> a @@ d2 :> b @@ d3 :> c @@ d4 :> d
Placements == {<<c1, c1, c1, c1>>, <<c1, c2, c2, c1>>}

MCCases ==
    {Asking(GraphWith(S, cluster), k1 :> Scores(9, a, b, 1), 0) :
        S \in SUBSET DOMAIN EdgeEnds, cluster \in Placements, a, b \in {1, 5}}
    \cup {Asking(GraphWith(S, <<c1, c2, c1, c2>>),
                 k1 :> Scores(9, 1, 4, 1) @@ k2 :> Scores(1, 8, 5, 1), 0) :
        S \in {{e12, e24}, {e13, e34}, {e23, e34, e14}}}
    \cup {Asking(GraphWith(S, <<c1, c1, c2, c1>>), k1 :> Scores(9, 1, 1, 1), 2) :
        S \in {{e12, e23, e34}, {e12, e13, e23, e24}}}
    \cup {[NoCase EXCEPT !.threads = "read", !.changes = 2,
                         !.matches = [title |-> {d1, d3}, message |-> {d2, d3}]],
          [NoCase EXCEPT !.snapshot = "read", !.changes = 2,
                         !.graph = GraphWith({e12, e23, e34}, <<c1, c1, c2, c1>>)]}

Searches == INSTANCE GraphSearch
                WITH Subclusters <- {}, Edges <- DOMAIN EdgeEnds, Conversations <- {d1, d3},
                     Cases <- MCCases

-----------------------------------------------------------------------------
(* A conversation d1 and a note d2, of which the graph is generated, and a *)
(* file d3, which is added to it.  The ids of d2, d3 and the user begin    *)
(* with 1.                                                                 *)

Name(d, owner, wrapped) == [doc |-> d, owner |-> owner, wrapped |-> wrapped]
Item(d, wrapped, c) == [id |-> 0, name |-> Name(d, FALSE, wrapped), cluster |-> c]
Numbered(i, item) == [item EXCEPT !.id = i]

MCGenerations == {
    [kind |-> "generation", tries |-> 0, clusters |-> {c1}, edges |-> {<<1, 2>>},
     items |-> {Numbered(1, Item(d1, TRUE, c1)), Numbered(2, Item(d2, TRUE, c1))},
     subclusters |-> {[id |-> s1, cluster |-> c1, nodes |-> {1, 2}, rep |-> {1}]}]}
\* The file comes with a new cluster, into which the conversation moves, or alone
\* into the old one; the AI may or may not prefix the name of the note.
MCAdditions ==
    {[kind |-> "addNode", tries |-> 0, clusters |-> {c2},
      items |-> {Item(d3, TRUE, c2), Item(d1, FALSE, c2)},
      edges |-> {<<Name(d3, TRUE, TRUE), Name(d1, TRUE, TRUE)>>, <<Name(d3, TRUE, TRUE), note>>}] :
        note \in {Name(d2, TRUE, TRUE), Name(d2, TRUE, FALSE), Name(d2, FALSE, FALSE)}}
    \cup {[kind |-> "addNode", tries |-> 0, clusters |-> {}, items |-> {Item(d3, FALSE, c1)},
           edges |-> {<<Name(d3, TRUE, FALSE), Name(d2, TRUE, FALSE)>>}]}

Results == INSTANCE GraphResults
            WITH graph <- built, changes <- edits, Docs <- {d1, d2, d3},
                 Subclusters <- {s1}, Edges <- NodeIds \X NodeIds,
                 OwnerDigits <- 1, Digits <- d1 :> 0 @@ d2 :> 1 @@ d3 :> 1,
                 Generations <- MCGenerations, Additions <- MCAdditions,
                 MaxTries <- 2, MaxChanges <- 1

-----------------------------------------------------------------------------
Resting == Searches!InitWith(NoCase) /\ Results!InitWith(Results!NoMessage) /\ named = {}

Init4 ==
    /\ Chatting!Init
    /\ \/ part = "chat" /\ Init /\ Resting
       \/ part = "agent" /\ InitWith(0) /\ Resting
       \/ part = "search" /\ InitWith(0) /\ (\E c \in MCCases : Searches!InitWith(c))
          /\ Results!InitWith(Results!NoMessage) /\ named = {}
       \/ part = "results" /\ InitWith(0) /\ Searches!InitWith(NoCase) /\ Results!Init

Next4 ==
    \/ part = "chat" /\ Next /\ UNCHANGED <<part, agentVars, searchVars, resultVars>>
    \/ part = "agent" /\ Chatting!Next /\ UNCHANGED <<part, vars, searchVars, resultVars>>
    \/ part = "search" /\ Searches!Next /\ UNCHANGED <<part, vars, agentVars, resultVars>>
    \/ part = "results" /\ Results!Next /\ UNCHANGED <<part, vars, agentVars, searchVars>>

Spec4 == Init4 /\ [][Next4]_<<part, vars, agentVars, searchVars, resultVars>>

AgentSettlesStreams == Chatting!AgentSettlesStreams
SearchesAgree == Searches!SearchesAgree
ResultsLand == Results!ResultsLand
=============================================================================
