---------------------------- MODULE GraphPipeline ----------------------------
(***************************************************************************)
(* The knowledge graph of one user and the asynchronous jobs that build    *)
(* it: GraphGenerationService places a credit hold, writes the status,     *)
(* collects the user's documents and sends a request to the AI service;    *)
(* the result comes back on an SQS queue, at least once, and several       *)
(* handlers of the worker apply results at the same time to the nodes and  *)
(* to the MacroStats row of the graph.  Graphs of different users do not   *)
(* meet.  The credit holds are those of CreditEscrow.                      *)
(***************************************************************************)
EXTENDS Integers, FiniteSets, FiniteSetsExt

CONSTANTS
    User, Plan, Budget, Cost,   \* the user's plan, its credits, what a job costs
    Tasks,                      \* task ids 1..n, given out in that order
    Items,                      \* conversations, notes and files of the user
    Existing,                   \* those there are at the start
    Edited,                     \* bound: those that are created or edited later
    Rank,                       \* the order the AI service gives a task's items
    Requests,                   \* API requests in flight
    Workers,                    \* result messages being handled
    Kinds,                      \* bound: the kinds of job each task may be
    MaxCopies,                  \* bound: copies a retried send leaves in the queue
    MaxNow,                     \* bound: edits of the documents
    MaxNode                     \* bound: the largest node id

ASSUME TaskAssumption == Tasks \subseteq Nat /\ Existing \cup Edited \subseteq Items
ASSUME ItemsAssumption == IsFiniteSet(Items)
ASSUME RankAssumption ==
    /\ Rank \in [Tasks -> [Items -> Nat]]
    /\ \A t \in Tasks, i, j \in Items : Rank[t][i] = Rank[t][j] => i = j
ASSUME CreditAssumption == Budget \in Nat /\ Cost \in Nat
ASSUME BoundAssumption ==
    /\ Kinds \in [Tasks -> SUBSET {"generate", "addNode", "summary"}]
    /\ MaxCopies \in Nat \ {0} /\ MaxNow \in Nat \ {0} /\ MaxNode \in Nat

VARIABLES
    now,            \* a clock that moves when a document changes
    changed,        \* updatedAt of each document, 0: not created yet
    stats,          \* the MacroStats row
    nodes,          \* MacroNode rows by id: the document and its version
    kind, batch,    \* what each task is and the documents sent with it
    sent, results,  \* the two queues: copies of each request, result messages
    req, work,      \* what each request and each handler is doing
    available, status, escrow,  \* credits, see CreditEscrow
    persisted, written, overlap \* history: see the properties

Escrow == INSTANCE CreditEscrow WITH
    Users <- {User}, Costs <- {Cost}, Plans <- {Plan}, FreePlan <- Plan,
    Limit <- [p \in {Plan} |-> Budget]

credit == <<available, status, escrow>>
graph == <<stats, nodes>>
history == <<persisted, written, overlap>>
queues == <<sent, results>>
docs == <<now, changed>>
jobs == <<kind, batch>>
vars == <<docs, graph, jobs, queues, req, work, credit, history>>

NoNode == [item |-> "none", at |-> 0]
NoRow == [status |-> "none", updatedAt |-> 0, generatedAt |-> 0]
IdleRequest == [step |-> "idle", task |-> 0, row |-> NoRow]
NoPlan == [i \in Items |-> -1]
NoMessage == [task |-> 0, ok |-> FALSE, at |-> 0]
IdleWorker == [step |-> "idle", msg |-> NoMessage, row |-> NoRow, plan |-> NoPlan]

Statuses == {"none", "NOT_CREATED", "CREATING", "CREATED", "UPDATING", "UPDATED"}
Rows == [status : Statuses, updatedAt : 0..MaxNow, generatedAt : 0..MaxNow]
Messages == [task : Tasks, ok : BOOLEAN, at : 0..MaxNow]

Init ==
    /\ now = 1
    /\ changed = [i \in Items |-> IF i \in Existing THEN 1 ELSE 0]
    /\ stats = NoRow
    /\ nodes = [n \in 0..MaxNode |-> NoNode]
    /\ kind = [t \in Tasks |-> "none"]
    /\ batch = [t \in Tasks |-> [i \in Items |-> 0]]
    /\ sent = [t \in Tasks |-> 0] /\ results = {}
    /\ req = [p \in Requests |-> IdleRequest]
    /\ work = [w \in Workers |-> IdleWorker]
    /\ Escrow!Init
    /\ persisted = {} /\ written = {} /\ overlap = FALSE

-----------------------------------------------------------------------------
(* The stats row.  Times of 0 are missing times.                           *)

\* getStats and getStatsMetadata: a row that is not there reads NOT_CREATED.
StatsRead == IF stats.status = "none" THEN [stats EXCEPT !.status = "NOT_CREATED"]
                                      ELSE stats

\* resolveAddNodeWatermarkMs.
Watermark(row) ==
    IF row.updatedAt > 0 THEN row.updatedAt
    ELSE IF row.generatedAt > 0 THEN row.generatedAt
    ELSE IF row.status \in {"CREATED", "UPDATED"} THEN now
    ELSE 0

GRAPH_GENERATION_MUTABLE_STATUSES == {"CREATING", "NOT_CREATED"}

\* Mutant: the row is overwritten whatever its status.
SaveStatsAlways(row) == stats' = row

\* saveStatsIfStatusIn: MATCH finds no row that is not there.
SaveStatsIfMutable(row) ==
    stats' = IF stats.status \in GRAPH_GENERATION_MUTABLE_STATUSES THEN row ELSE stats

\* What a generation that failed writes back.
Reset(row) == [row EXCEPT !.status = "NOT_CREATED"]

-----------------------------------------------------------------------------
(* Documents change.                                                       *)

EditDocument(i) ==
    /\ now < MaxNow
    /\ now' = now + 1
    /\ changed' = [changed EXCEPT ![i] = now + 1]
    /\ UNCHANGED <<graph, jobs, queues, req, work, credit, history>>

-----------------------------------------------------------------------------
(* Credits: settling is a no-op without an open hold.                      *)

SettleCommit(t) == IF status[t] = "held" THEN Escrow!Commit(t) ELSE UNCHANGED credit
SettleRelease(t) == IF status[t] = "held" THEN Escrow!Release(t) ELSE UNCHANGED credit

\* BillingCron gives back what is held for too long; the request that placed
\* the hold has long ended.
ExpireHold(t) ==
    /\ \A p \in Requests : req[p].task # t
    /\ Escrow!Release(t)
    /\ UNCHANGED <<docs, graph, jobs, queues, req, work, history>>

-----------------------------------------------------------------------------
(* API requests.                                                           *)

At(p, s) == req[p].step = s
GotoRequest(p, s) == req' = [req EXCEPT ![p].step = s]
EndRequest(p) == req' = [req EXCEPT ![p] = IdleRequest]

BeginTask(p, t, k, s, row) ==
    /\ At(p, "idle") /\ kind[t] = "none" /\ k \in Kinds[t]
    /\ \A s2 \in Tasks : s2 < t => kind[s2] # "none"
    /\ kind' = [kind EXCEPT ![t] = k]
    /\ req' = [req EXCEPT ![p] = [step |-> s, task |-> t, row |-> row]]

\* requestGraphGenerationViaQueue: some document exists, then the hold.
BeginGeneration(p, t) ==
    /\ BeginTask(p, t, "generate", "creating", NoRow)
    /\ \E i \in Items : changed[i] > 0
    /\ Escrow!Place(t, User, Cost)
    /\ UNCHANGED <<docs, graph, batch, queues, work, history>>

SaveCreating(p) ==
    /\ At(p, "creating") /\ GotoRequest(p, "upload")
    /\ stats' = [status |-> "CREATING", updatedAt |-> 0, generatedAt |-> now]
    /\ UNCHANGED <<docs, nodes, jobs, queues, work, credit, history>>

\* Conversations, notes, pages and files as they are now go to the bundle.
Upload(p) ==
    /\ At(p, "upload") /\ GotoRequest(p, "send")
    /\ batch' = [batch EXCEPT ![req[p].task] = changed]
    /\ UNCHANGED <<docs, graph, kind, queues, work, credit, history>>

\* requestAddNodeViaQueue: the stats row is read here and written back later.
BeginAddNode(p, t) ==
    /\ BeginTask(p, t, "addNode", "collect", StatsRead)
    /\ UNCHANGED <<docs, graph, batch, queues, work, credit, history>>

Newer(row) == {i \in Items : changed[i] > Watermark(row)}

\* Nothing newer than the watermark, or not enough credits: nothing is done.
CollectNothing(p) ==
    /\ At(p, "collect") /\ EndRequest(p)
    /\ Newer(req[p].row) = {} \/ available[User] < Cost
    /\ UNCHANGED <<docs, graph, jobs, queues, work, credit, history>>

Collect(p) ==
    LET t == req[p].task IN
    /\ At(p, "collect") /\ GotoRequest(p, "updating")
    /\ Newer(req[p].row) # {}
    /\ Escrow!Place(t, User, Cost)
    /\ batch' = [batch EXCEPT ![t] =
          [i \in Items |-> IF i \in Newer(req[p].row) THEN changed[i] ELSE 0]]
    /\ UNCHANGED <<docs, graph, kind, queues, work, history>>

\* stats.status = 'UPDATING'; saveStats(stats): the row read at the start.
SaveUpdating(p) ==
    /\ At(p, "updating")
    /\ req' = [req EXCEPT ![p].step = "send", ![p].row = NoRow]
    /\ stats' = [req[p].row EXCEPT !.status = "UPDATING"]
    /\ UNCHANGED <<docs, nodes, jobs, queues, work, credit, history>>

\* requestGraphSummary: reads the snapshot, sends; no hold and no status.
RequestSummary(p, t) ==
    /\ BeginTask(p, t, "summary", "send", NoRow)
    /\ \E n \in 0..MaxNode : nodes[n] # NoNode
    /\ UNCHANGED <<docs, graph, batch, queues, work, credit, history>>

\* The handler of an AddNode result holds node ids it has not written yet.
Planning(w) == work[w].plan # NoPlan

ClearNodes ==
    /\ nodes' = [n \in 0..MaxNode |-> NoNode]
    /\ written' = {}
    /\ overlap' = (overlap \/ \E w \in Workers : Planning(w))
    /\ UNCHANGED <<docs, jobs, queues, work, credit, persisted>>

\* deleteGraph: the nodes go first and the stats row later, each in
\* transactions of their own.  With the root that goes last, nodes written
\* in between are no longer listed.
DeleteNodes(p) ==
    /\ At(p, "idle") /\ GotoRequest(p, "deleting")
    /\ stats # NoRow \/ \E n \in 0..MaxNode : nodes[n] # NoNode
    /\ ClearNodes
    /\ UNCHANGED stats

DeleteStats(p) ==
    /\ At(p, "deleting") /\ EndRequest(p)
    /\ stats' = NoRow
    /\ ClearNodes

\* A send that is retried after a lost answer puts two copies in the queue.
Send(p) ==
    /\ At(p, "send") /\ EndRequest(p)
    /\ \E copies \in 1..MaxCopies : sent' = [sent EXCEPT ![req[p].task] = copies]
    /\ UNCHANGED <<docs, graph, jobs, results, work, credit, history>>

\* The step throws.  A failed send may have reached the queue all the same.
FailRequest(p) ==
    /\ req[p].step \in {"creating", "upload", "updating", "send"}
    /\ GotoRequest(p, "rollback")
    /\ \/ UNCHANGED sent
       \/ At(p, "send") /\ sent' = [sent EXCEPT ![req[p].task] = 1]
    /\ UNCHANGED <<docs, graph, jobs, results, work, credit, history>>

\* catch: creditHeldTaskId && !messageSent.  The status is not put back.
RollbackHold(p) ==
    /\ At(p, "rollback") /\ EndRequest(p)
    /\ SettleRelease(req[p].task)
    /\ UNCHANGED <<docs, graph, jobs, queues, work, history>>

CrashRequest(p) ==
    /\ ~At(p, "idle") /\ EndRequest(p)
    /\ UNCHANGED <<docs, graph, jobs, queues, work, credit, history>>

-----------------------------------------------------------------------------
(* The AI service answers every copy of a request.  A snapshot says when   *)
(* it was made (metadata.generated_at).                                    *)

Answer(t, ok) ==
    /\ sent[t] > 0
    /\ sent' = [sent EXCEPT ![t] = @ - 1]
    /\ results' = results \cup {[task |-> t, ok |-> ok,
          at |-> IF kind[t] = "generate" /\ ok THEN now ELSE 0]}
    /\ UNCHANGED <<docs, graph, jobs, req, work, credit, history>>

-----------------------------------------------------------------------------
(* Result handlers.  A message stays in the queue until its handler has    *)
(* returned, and SQS may hand it to two handlers.  Taking a message and    *)
(* the first access to the database are one step: what is in between, a    *)
(* download from S3, depends on nothing that changes.                      *)

Doing(w, s) == work[w].step = s
TaskOf(w) == work[w].msg.task
EndWork(w) == work' = [work EXCEPT ![w] = IdleWorker]

Take(w, m, k, ok, frame) ==
    /\ Doing(w, "idle")
    /\ kind[m.task] = k /\ m.ok = ok
    /\ work' = [work EXCEPT ![w] = frame]

\* The handler returns and the consumer deletes the message, if it still can.
Finish(w) ==
    /\ EndWork(w)
    /\ results' = results \ {work[w].msg} \/ UNCHANGED results
    /\ UNCHANGED <<docs, graph, jobs, sent, req, history>>

\* The process dies: the message comes back.
Abandon(w) ==
    /\ ~Doing(w, "idle") /\ EndWork(w)
    /\ UNCHANGED <<docs, graph, jobs, queues, req, credit, history>>

ReadStats(w, m) ==
    /\ \E k \in {"generate", "addNode"} :
          Take(w, m, k, FALSE, [IdleWorker EXCEPT !.step = "failed", !.msg = m,
                                                  !.row = StatsRead])
    /\ UNCHANGED <<docs, graph, jobs, queues, req, credit, history>>

\* status FAILED: a generation resets the status if it may, AddNode always
\* writes CREATED; the other fields are those read before.
SaveFailed(w) ==
    /\ Doing(w, "failed")
    /\ work' = [work EXCEPT ![w].step = "release", ![w].row = NoRow]
    /\ \/ kind[TaskOf(w)] = "generate"
          /\ SaveStatsIfMutable(Reset(work[w].row))
       \/ kind[TaskOf(w)] = "addNode"
          /\ stats' = [work[w].row EXCEPT !.status = "CREATED"]
    /\ UNCHANGED <<docs, nodes, jobs, queues, req, credit, history>>

\* The last step of a handler settles the hold; an error there is logged
\* and forgotten.
Release(w) ==
    /\ Doing(w, "release") /\ Finish(w)
    /\ SettleRelease(TaskOf(w)) \/ UNCHANGED credit

Commit(w) ==
    /\ Doing(w, "commit") /\ Finish(w)
    /\ SettleCommit(TaskOf(w)) \/ UNCHANGED credit

Included(t) == {i \in Items : batch[t][i] > 0}
Before(t, i, S) == Cardinality({j \in S : Rank[t][j] < Rank[t][i]})
NodeFor(t, i) == [item |-> i, at |-> batch[t][i]]
OtherPlans(t) == \E v \in Workers : Planning(v) /\ TaskOf(v) # t

\* persistSnapshot writes the AI's nodes, numbered from 0, over those there are,
\* and then the stats if the status allows.  The code writes clusters, nodes, edges,
\* subclusters and the stats in transactions of their own; they are one step here, as
\* no property of this module tells a part of a snapshot from none: a handler that
\* fails between them throws and the message comes back (GenerationThrows).
PersistSnapshot(w, m) ==
    LET t == m.task
        id(i) == Before(t, i, Included(t)) IN
    /\ \A i \in Included(t) : id(i) <= MaxNode
    /\ Take(w, m, "generate", TRUE, [IdleWorker EXCEPT !.step = "created", !.msg = m])
    /\ nodes' = [n \in 0..MaxNode |->
          IF \E i \in Included(t) : id(i) = n
          THEN NodeFor(t, CHOOSE i \in Included(t) : id(i) = n)
          ELSE nodes[n]]
    /\ SaveStatsIfMutable([status |-> "CREATED", updatedAt |-> 0, generatedAt |-> m.at])
    /\ persisted' = persisted \cup {t}
    /\ overlap' = (overlap \/ OtherPlans(t) \/ ~(written \subseteq Included(t)))
    /\ written' = written \cup Included(t)
    /\ UNCHANGED <<docs, jobs, queues, req, credit>>

\* The summary replaces the one there is.
SaveSummary(w, m) ==
    /\ Take(w, m, "summary", TRUE, [IdleWorker EXCEPT !.step = "created", !.msg = m])
    /\ UNCHANGED <<docs, graph, jobs, queues, req, credit, history>>

SummaryFailed(m) ==
    /\ kind[m.task] = "summary" /\ ~m.ok
    /\ results' = results \ {m}
    /\ UNCHANGED <<docs, graph, jobs, sent, req, work, credit, history>>

\* getStatsMetadata, then saveStatsIfStatusIn with status CREATED and
\* updatedAt now: after a generation and after a summary.  Reading the row
\* and the compare-and-set are one step.
CreatedRow ==
    [status |-> "CREATED", updatedAt |-> now,
     generatedAt |-> IF stats.generatedAt > 0 THEN stats.generatedAt ELSE now]

SaveCreated(w) ==
    /\ Doing(w, "created") /\ kind[TaskOf(w)] = "generate"
    /\ work' = [work EXCEPT ![w].step = "commit"]
    /\ SaveStatsIfMutable(CreatedRow)
    /\ UNCHANGED <<docs, nodes, jobs, queues, req, credit, history>>

SummaryCreated(w) ==
    /\ Doing(w, "created") /\ kind[TaskOf(w)] = "summary" /\ EndWork(w)
    /\ SaveStatsIfMutable(CreatedRow)
    /\ results' = results \ {work[w].msg} \/ UNCHANGED results
    /\ UNCHANGED <<docs, nodes, jobs, sent, req, credit, history>>

\* A generation's catch block, for an error before or after the snapshot was
\* written: the status is reset, the hold is kept, and the error goes on to
\* the consumer, so that the message comes back.
GenerationThrows(w) ==
    /\ \/ \E m \in results : Take(w, m, "generate", TRUE, IdleWorker)
       \/ /\ work[w].step \in {"failed", "release", "created", "commit"}
          /\ kind[TaskOf(w)] = "generate" /\ EndWork(w)
    /\ SaveStatsIfMutable(Reset(StatsRead))
    /\ UNCHANGED <<docs, nodes, jobs, queues, req, credit, history>>

Used == {n \in 0..MaxNode : nodes[n] # NoNode}
Known(i) == {n \in Used : nodes[n].item = i}

\* Mutant: the largest id itself is given out.
NextNodeIdTaken == IF Used = {} THEN 1 ELSE Max(Used)

\* calculateNextNodeId.
NextNodeId == IF Used = {} THEN 1 ELSE Max(Used) + 1

\* listNodesAll and the ids of the batch: a known document keeps its node
\* (the last one listed, if it has several), a new one gets the next id.
ListNodes(w, m) ==
    LET t == m.task
        new == {i \in Included(t) : Known(i) = {}}
        plan == [i \in Items |->
            IF i \notin Included(t) THEN -1
            ELSE IF i \in new THEN NextNodeId + Before(t, i, new)
            ELSE Max(Known(i))] IN
    /\ \A i \in Items : plan[i] <= MaxNode
    /\ Take(w, m, "addNode", TRUE, [IdleWorker EXCEPT !.step = "write", !.msg = m,
                                                      !.plan = plan])
    /\ UNCHANGED <<docs, graph, jobs, queues, req, credit, history>>

\* upsertNodes, a chunk at a time (chunks of one node here, of 20 in the code).  Every
\* document of the batch has a result: one that the AI skipped with an error, which the
\* handler passes over, is not modelled.
UpsertNodes(w) ==
    LET t == TaskOf(w)
        pending == {i \in Items : work[w].plan[i] >= 0}
        i == CHOOSE j \in pending : Before(t, j, pending) = 0
        rest == [work[w].plan EXCEPT ![i] = -1] IN
    /\ Doing(w, "write")
    /\ nodes' = [nodes EXCEPT ![work[w].plan[i]] = NodeFor(t, i)]
    /\ work' = [work EXCEPT ![w].plan = rest,
                            ![w].step = IF rest = NoPlan THEN "updated" ELSE "write"]
    /\ written' = written \cup {i}
    /\ overlap' = (overlap \/ OtherPlans(t))
    /\ persisted' = IF rest = NoPlan THEN persisted \cup {t} ELSE persisted
    /\ UNCHANGED <<docs, stats, jobs, queues, req, credit>>

\* getStats, then saveStats with status UPDATED and updatedAt now.
ReadUpdated(w) ==
    /\ Doing(w, "updated")
    /\ work' = [work EXCEPT ![w].step = "saveUpdated", ![w].row = StatsRead]
    /\ UNCHANGED <<docs, graph, jobs, queues, req, credit, history>>

SaveUpdated(w) ==
    /\ Doing(w, "saveUpdated")
    /\ work' = [work EXCEPT ![w].step = "commit", ![w].row = NoRow]
    /\ stats' = [work[w].row EXCEPT !.status = "UPDATED", !.updatedAt = now]
    /\ UNCHANGED <<docs, nodes, jobs, queues, req, credit, history>>

\* AddNode's catch block releases the hold, and the error goes on.
AddNodeCatches(w, t, settled) ==
    /\ \/ \E m \in results : m.task = t /\ Take(w, m, "addNode", TRUE, IdleWorker)
       \/ work[w].step \in {"write", "updated", "saveUpdated"} /\ TaskOf(w) = t /\ EndWork(w)
    /\ settled \/ UNCHANGED credit
    /\ UNCHANGED <<docs, graph, jobs, queues, req, history>>

\* Mutant: it settles as if the job had succeeded.
AddNodeThrowsAndCommits(w, t) == AddNodeCatches(w, t, SettleCommit(t))

AddNodeThrows(w, t) == AddNodeCatches(w, t, SettleRelease(t))

-----------------------------------------------------------------------------
Request(p) ==
    \/ DeleteNodes(p) \/ DeleteStats(p)
    \/ \E t \in Tasks : BeginGeneration(p, t) \/ BeginAddNode(p, t) \/ RequestSummary(p, t)
    \/ SaveCreating(p) \/ Upload(p)
    \/ CollectNothing(p) \/ Collect(p) \/ SaveUpdating(p)
    \/ Send(p) \/ FailRequest(p) \/ RollbackHold(p) \/ CrashRequest(p)

Handle(w) ==
    \/ \E m \in results : \/ ReadStats(w, m) \/ PersistSnapshot(w, m) \/ ListNodes(w, m)
                          \/ SaveSummary(w, m)
    \/ Abandon(w) \/ SaveFailed(w) \/ Release(w) \/ Commit(w)
    \/ SaveCreated(w) \/ SummaryCreated(w) \/ GenerationThrows(w)
    \/ UpsertNodes(w) \/ ReadUpdated(w) \/ SaveUpdated(w)
    \/ \E t \in Tasks : AddNodeThrows(w, t)

Next ==
    \/ \E i \in Edited : EditDocument(i)
    \/ \E t \in Tasks : ExpireHold(t)
    \/ \E p \in Requests : Request(p)
    \/ \E t \in Tasks, ok \in BOOLEAN : Answer(t, ok)
    \/ \E w \in Workers : Handle(w)
    \/ \E m \in results : SummaryFailed(m)

Spec == Init /\ [][Next]_vars

-----------------------------------------------------------------------------
(* Properties.                                                             *)

\* Type invariant of the graph, the queues and the requests and handlers.
TypeOK ==
    /\ now \in 1..MaxNow
    /\ changed \in [Items -> 0..MaxNow]
    /\ stats \in Rows
    /\ nodes \in [0..MaxNode -> [item : Items \cup {"none"}, at : 0..MaxNow]]
    /\ kind \in [Tasks -> {"none", "generate", "addNode", "summary"}]
    /\ batch \in [Tasks -> [Items -> 0..MaxNow]]
    /\ sent \in [Tasks -> 0..MaxCopies] /\ results \subseteq Messages
    /\ req \in [Requests -> [step : {"idle", "creating", "upload", "collect", "updating",
                                     "send", "rollback", "deleting"},
                             task : Tasks \cup {0}, row : Rows]]
    /\ work \in [Workers -> [step : {"idle", "failed", "release", "write",
                                     "updated", "saveUpdated", "created",
                                     "commit"},
                             msg : Messages \cup {NoMessage}, row : Rows,
                             plan : [Items -> -1..MaxNode]]]
    /\ status \in [Tasks -> {"none", "held", "committed", "released"}]
    /\ persisted \subseteq Tasks /\ written \subseteq Items /\ overlap \in BOOLEAN

\* A user pays only for a job whose result is in the graph: no order of
\* duplicated, failed and repeated results, crashes and expiries commits the
\* hold of a task of which the nodes were never written.
ChargedForResult == \A t \in Tasks : status[t] = "committed" => t \in persisted

\* Whoever handles a generation or summary result leaves the status alone
\* once AddNode has taken it over, however late or often the result comes.
AddNodeStatusKept ==
    [][stats.status \in {"UPDATING", "UPDATED"} /\ stats' \notin {stats, NoRow}
          => \/ req' # req
             \/ \E w \in Workers : /\ work'[w] # work[w] /\ TaskOf(w) \in Tasks
                                   /\ kind[TaskOf(w)] = "addNode"]_vars

\* A document that was written to the graph has a node in it, unless the
\* results of two tasks were applied at once, the graph was deleted under a
\* handler, or a generation result older than a node was applied over it:
\* redelivery, duplication and crashes alone, in the middle of a batch or
\* after it, never make AddNode overwrite another document's node.
OnlyOverlapLosesNodes == ~overlap => \A i \in written : Known(i) # {}

=============================================================================
