------------------------- MODULE GraphPipeline_proofs -------------------------
(***************************************************************************)
(* Proofs about GraphPipeline for any documents, tasks, requests, workers  *)
(* and bounds: its type invariant, that a user pays only for a result that *)
(* is in the graph, that AddNode keeps the status it has taken over, and   *)
(* that a document keeps its node unless results overlap.                  *)
(***************************************************************************)
EXTENDS GraphPipeline, FiniteSetTheorems, WellFoundedInduction, TLAPS

-----------------------------------------------------------------------------
(* The inductive invariant.                                                *)

\* What may be sent or is under way: the task has begun, and an AddNode has documents.
Ready(t) == kind[t] # "none" /\ (kind[t] = "addNode" => Included(t) # {})

RequestOK(f) ==
    /\ f.step \notin {"idle", "deleting"} => f.task \in Tasks /\ kind[f.task] # "none"
    /\ f.step \in {"creating", "upload"} => kind[f.task] = "generate"
    /\ f.step \in {"collect", "updating"} => kind[f.task] = "addNode"
    /\ f.step \in {"updating", "send"} /\ kind[f.task] = "addNode" => Included(f.task) # {}

\* A handler knows its message; past its last write the result is in the graph.
WorkOK(f) ==
    /\ f.step # "idle" => f.msg \in Messages /\ kind[f.msg.task] # "none"
    /\ f.step \in {"write", "updated", "saveUpdated"} => kind[f.msg.task] = "addNode"
    /\ f.step = "write" => \E i \in Items : f.plan[i] >= 0
    /\ f.step \in {"updated", "saveUpdated", "commit"} => f.msg.task \in persisted
    /\ f.step = "created" /\ kind[f.msg.task] = "generate" => f.msg.task \in persisted

QueuesOK ==
    /\ \A t \in Tasks : sent[t] > 0 => Ready(t)
    /\ \A m \in results : Ready(m.task)

FramesOK ==
    /\ \A p \in Requests : RequestOK(req[p])
    /\ \A w \in Workers : WorkOK(work[w])

PipelineInv == TypeOK /\ QueuesOK /\ FramesOK /\ ChargedForResult

\* What no step takes back.
Grows ==
    /\ \A t \in Tasks : kind[t] # "none" => kind'[t] = kind[t]
    /\ \A t \in Tasks : Ready(t) => Ready(t)'
    /\ persisted \subseteq persisted'

-----------------------------------------------------------------------------
(* Numbers: minima and maxima exist, and ids stay in their range.          *)

LEMMA SmallestOf ==
    ASSUME NEW S \in SUBSET Nat, S # {}
    PROVE  \E x \in S : \A y \in S : x <= y
<1>1. PICK x \in S : \A y \in S : ~(<<y, x>> \in OpToRel(<, Nat))
  BY NatLessThanWellFounded, WFMin
<1>2. \A y \in S : ~(y < x) BY <1>1 DEF OpToRel
<1>3. QED BY <1>2

LEMMA MaxOf ==
    ASSUME NEW n \in Nat, NEW S \in SUBSET (0..n), S # {}
    PROVE  Max(S) \in S /\ \A y \in S : Max(S) >= y
<1> DEFINE T == {n - x : x \in S}
<1>0. \A x \in S : x \in Int /\ x >= 0 /\ x <= n OBVIOUS
<1>1. T \in SUBSET Nat /\ T # {}
  <2>1. \A x \in S : n - x \in Nat BY <1>0
  <2>2. QED BY <2>1
<1>2. PICK t \in T : \A y \in T : t <= y BY <1>1, SmallestOf
<1>3. PICK x \in S : t = n - x BY <1>2
<1>4. \A y \in S : n - y \in T BY DEF T
<1>5. \A y \in S : x >= y BY <1>0, <1>2, <1>3, <1>4
<1>6. QED BY <1>5 DEF Max

LEMMA BeforeType ==
    ASSUME NEW t \in Tasks, NEW i \in Items, NEW S \in SUBSET Items
    PROVE  Before(t, i, S) \in Nat
<1>1. IsFiniteSet({j \in S : Rank[t][j] < Rank[t][i]})
  BY ItemsAssumption, FS_Subset
<1>2. QED BY <1>1, FS_CardinalityType DEF Before

\* Some document of a plan comes first.
LEMMA FirstOf ==
    ASSUME NEW t \in Tasks, NEW S \in SUBSET Items, S # {}
    PROVE  (CHOOSE j \in S : Before(t, j, S) = 0) \in S
<1>1. \A j \in S : Rank[t][j] \in Nat BY RankAssumption
<1> DEFINE R == {Rank[t][j] : j \in S}
<1>2. PICK r \in R : \A q \in R : r <= q
  <2>1. R \in SUBSET Nat /\ R # {} BY <1>1
  <2>2. QED BY <2>1, SmallestOf
<1>3. PICK j \in S : r = Rank[t][j] BY <1>2
<1>4. {k \in S : Rank[t][k] < Rank[t][j]} = {}
  <2>1. \A k \in S : Rank[t][j] <= Rank[t][k] BY <1>2, <1>3
  <2>2. QED BY <1>1, <2>1
<1>5. Before(t, j, S) = 0 BY <1>4, FS_EmptySet DEF Before
<1>6. QED BY <1>5

LEMMA UsedIds ==
    ASSUME TypeOK
    PROVE  /\ NextNodeId \in Nat
           /\ \A i \in Items : Known(i) # {} => Max(Known(i)) \in 0..MaxNode
<1>1. MaxNode \in Nat BY BoundAssumption
<1>2. Used \in SUBSET (0..MaxNode) /\ \A i \in Items : Known(i) \in SUBSET (0..MaxNode)
  BY DEF Used, Known
<1>3. Used # {} => Max(Used) \in Nat
  <2>1. Used # {} => Max(Used) \in Used BY <1>1, <1>2, MaxOf
  <2>2. Used \subseteq Nat BY <1>1, <1>2
  <2>3. QED BY <2>1, <2>2
<1>4. \A i \in Items : Known(i) # {} => Max(Known(i)) \in Known(i)
  BY <1>1, <1>2, MaxOf
<1>5. QED BY <1>2, <1>3, <1>4 DEF NextNodeId

-----------------------------------------------------------------------------
(* Rows and frames.                                                        *)

RequestSteps == {"idle", "creating", "upload", "collect", "updating", "send", "rollback",
                 "deleting"}
WorkSteps == {"idle", "failed", "release", "write", "updated", "saveUpdated", "created",
              "commit"}
RequestFrames == [step : RequestSteps, task : Tasks \cup {0}, row : Rows]
WorkFrames == [step : WorkSteps, msg : Messages \cup {NoMessage}, row : Rows,
               plan : [Items -> -1..MaxNode]]

LEMMA Clock == ASSUME TypeOK PROVE now \in 0..MaxNow /\ 0 \in 0..MaxNow
BY BoundAssumption DEF TypeOK

LEMMA RowsTyped ==
    ASSUME TypeOK
    PROVE  /\ NoRow \in Rows /\ StatsRead \in Rows /\ CreatedRow \in Rows
           /\ \A row \in Rows, s \in Statuses : [row EXCEPT !.status = s] \in Rows
           /\ \A row \in Rows :
                 [row EXCEPT !.status = "UPDATED", !.updatedAt = now] \in Rows
<1>1. now \in 0..MaxNow /\ 0 \in 0..MaxNow BY Clock
<1>2. NoRow \in Rows BY <1>1 DEF NoRow, Rows, Statuses
<1>3. \A row \in Rows, s \in Statuses : [row EXCEPT !.status = s] \in Rows BY DEF Rows
<1>4. stats \in Rows BY DEF TypeOK
<1>5. StatsRead \in Rows BY <1>3, <1>4 DEF StatsRead, Statuses
<1>6. CreatedRow \in Rows BY <1>1, <1>4 DEF CreatedRow, Rows, Statuses
<1>7. \A row \in Rows : [row EXCEPT !.status = "UPDATED", !.updatedAt = now] \in Rows
  BY <1>1 DEF Rows, Statuses
<1>8. QED BY <1>2, <1>3, <1>5, <1>6, <1>7

LEMMA FramesTyped ==
    ASSUME TypeOK
    PROVE  /\ IdleRequest \in RequestFrames /\ IdleWorker \in WorkFrames
           /\ req \in [Requests -> RequestFrames] /\ work \in [Workers -> WorkFrames]
<1>1. NoRow \in Rows BY RowsTyped
<1>2. NoPlan \in [Items -> -1..MaxNode] BY BoundAssumption DEF NoPlan
<1>3. QED
  BY <1>1, <1>2 DEF IdleRequest, IdleWorker, RequestFrames, WorkFrames, RequestSteps, WorkSteps,
                    TypeOK

\* A request's frame is set, and the others stay.
LEMMA RequestSet ==
    ASSUME TypeOK, NEW p \in Requests, NEW f \in RequestFrames, req' = [req EXCEPT ![p] = f]
    PROVE  /\ req' \in [Requests -> RequestFrames] /\ req'[p] = f
           /\ \A q \in Requests \ {p} : req'[q] = req[q]
BY FramesTyped

LEMMA RequestGoes ==
    ASSUME TypeOK, NEW p \in Requests, NEW s \in RequestSteps, GotoRequest(p, s)
    PROVE  /\ req' \in [Requests -> RequestFrames]
           /\ req'[p].step = s /\ req'[p].task = req[p].task
           /\ \A q \in Requests \ {p} : req'[q] = req[q]
<1>1. req[p] \in RequestFrames BY FramesTyped
<1>2. /\ [req[p] EXCEPT !.step = s] \in RequestFrames
      /\ [req[p] EXCEPT !.step = s].step = s
      /\ [req[p] EXCEPT !.step = s].task = req[p].task
  BY <1>1 DEF RequestFrames
<1>3. req' = [req EXCEPT ![p] = [req[p] EXCEPT !.step = s]]
  BY FramesTyped DEF GotoRequest
<1>4. QED BY <1>2, <1>3, RequestSet

LEMMA WorkSet ==
    ASSUME TypeOK, NEW w \in Workers, NEW f \in WorkFrames, work' = [work EXCEPT ![w] = f]
    PROVE  /\ work' \in [Workers -> WorkFrames] /\ work'[w] = f
           /\ \A v \in Workers \ {w} : work'[v] = work[v]
BY FramesTyped

\* Frames that nobody touches stay good while the rest grows.
LEMMA FramesStay ==
    ASSUME TypeOK, Grows
    PROVE  /\ \A f \in RequestFrames : RequestOK(f) => RequestOK(f)'
           /\ \A f \in WorkFrames : WorkOK(f) => WorkOK(f)'
<1>1. \A f \in RequestFrames : RequestOK(f) => RequestOK(f)'
  BY DEF RequestOK, RequestFrames, RequestSteps, Grows, Ready
<1>2. \A f \in WorkFrames : WorkOK(f) => WorkOK(f)'
  BY DEF WorkOK, Grows, Messages
<1>3. QED BY <1>1, <1>2

LEMMA QueuesStay ==
    ASSUME TypeOK, Grows, QueuesOK, results' \subseteq results,
           \A t \in Tasks : sent'[t] > 0 => sent[t] > 0 \/ Ready(t)'
    PROVE  QueuesOK'
BY DEF QueuesOK, Grows, TypeOK, Messages

LEMMA RequestsStay ==
    ASSUME TypeOK, Grows, FramesOK, NEW p \in Requests, UNCHANGED work,
           req' \in [Requests -> RequestFrames], RequestOK(req[p])' ,
           \A q \in Requests \ {p} : req'[q] = req[q]
    PROVE  FramesOK'
<1>1. \A q \in Requests : RequestOK(req[q])'
  <2> SUFFICES ASSUME NEW q \in Requests \ {p} PROVE RequestOK(req[q])'
    OBVIOUS
  <2>1. req[q] \in RequestFrames /\ RequestOK(req[q]) BY FramesTyped DEF FramesOK
  <2>2. QED BY <2>1, FramesStay DEF RequestOK, Included
<1>2. \A w \in Workers : WorkOK(work[w])'
  <2> SUFFICES ASSUME NEW w \in Workers PROVE WorkOK(work[w])'
    OBVIOUS
  <2>1. work[w] \in WorkFrames /\ WorkOK(work[w]) BY FramesTyped DEF FramesOK
  <2>2. QED BY <2>1, FramesStay DEF WorkOK
<1>3. QED BY <1>1, <1>2 DEF FramesOK

LEMMA WorkersStay ==
    ASSUME TypeOK, Grows, FramesOK, NEW w \in Workers, UNCHANGED req,
           work' \in [Workers -> WorkFrames], WorkOK(work[w])',
           \A v \in Workers \ {w} : work'[v] = work[v]
    PROVE  FramesOK'
<1>1. \A q \in Requests : RequestOK(req[q])'
  <2> SUFFICES ASSUME NEW q \in Requests PROVE RequestOK(req[q])'
    OBVIOUS
  <2>1. req[q] \in RequestFrames /\ RequestOK(req[q]) BY FramesTyped DEF FramesOK
  <2>2. QED BY <2>1, FramesStay DEF RequestOK, Included
<1>2. \A v \in Workers : WorkOK(work[v])'
  <2> SUFFICES ASSUME NEW v \in Workers \ {w} PROVE WorkOK(work[v])'
    OBVIOUS
  <2>1. work[v] \in WorkFrames /\ WorkOK(work[v]) BY FramesTyped DEF FramesOK
  <2>2. QED BY <2>1, FramesStay DEF WorkOK
<1>3. QED BY <1>1, <1>2 DEF FramesOK

\* Credits: the status of a task's hold moves within its states.
LEMMA CreditsTyped ==
    ASSUME TypeOK, NEW t \in Tasks,
           Escrow!Place(t, User, Cost) \/ SettleCommit(t) \/ SettleRelease(t) \/ Escrow!Release(t)
             \/ UNCHANGED credit
    PROVE  /\ status' \in [Tasks -> {"none", "held", "committed", "released"}]
           /\ \A s \in Tasks : status'[s] = "committed" => status[s] = "committed" \/ s = t
           /\ ~SettleCommit(t) \/ UNCHANGED credit =>
                \A s \in Tasks : status'[s] = "committed" => status[s] = "committed"
BY DEF TypeOK, Escrow!Place, Escrow!Commit, Escrow!Release, SettleCommit, SettleRelease, credit

-----------------------------------------------------------------------------
(* The steps of documents and requests.                                    *)

LEMMA NotCharged ==
    ASSUME TypeOK, ChargedForResult, Grows, status' \in [Tasks -> {"none", "held", "committed", "released"}],
           \A t \in Tasks : status'[t] = "committed" => status[t] = "committed" \/ t \in persisted
    PROVE  ChargedForResult'
BY DEF ChargedForResult, Grows

LEMMA EditStep ==
    ASSUME PipelineInv, NEW i \in Edited, EditDocument(i)
    PROVE  PipelineInv'
<1>1. /\ now' \in 1..MaxNow /\ changed' \in [Items -> 0..MaxNow]
      /\ UNCHANGED <<graph, jobs, queues, req, work, credit, history>>
  BY BoundAssumption, TaskAssumption DEF PipelineInv, EditDocument, TypeOK
<1>2. TypeOK'
  BY <1>1 DEF PipelineInv, TypeOK, graph, jobs, queues, credit, history
<1>3. QueuesOK' /\ FramesOK' /\ ChargedForResult'
  BY <1>1 DEF PipelineInv, QueuesOK, FramesOK, ChargedForResult, RequestOK, WorkOK, Ready, Included,
              jobs, queues, credit, history
<1>4. QED BY <1>2, <1>3 DEF PipelineInv

LEMMA ExpireStep ==
    ASSUME PipelineInv, NEW t \in Tasks, ExpireHold(t)
    PROVE  PipelineInv'
<1>1. TypeOK BY DEF PipelineInv
<1>2. /\ status' \in [Tasks -> {"none", "held", "committed", "released"}]
      /\ \A s \in Tasks : status'[s] = "committed" => status[s] = "committed"
  BY <1>1 DEF ExpireHold, Escrow!Release, TypeOK
<1>3. UNCHANGED <<docs, graph, jobs, queues, req, work, history>> BY DEF ExpireHold
<1>4. TypeOK'
  BY <1>1, <1>2, <1>3 DEF TypeOK, docs, graph, jobs, queues, history
<1>5. QueuesOK' /\ FramesOK' /\ ChargedForResult'
  BY <1>2, <1>3 DEF PipelineInv, QueuesOK, FramesOK, ChargedForResult, RequestOK, WorkOK, Ready,
              Included, jobs, queues, history
<1>6. QED BY <1>4, <1>5 DEF PipelineInv

\* A task begins: nothing of it was sent or handled before.
LEMMA TaskBegins ==
    ASSUME PipelineInv, NEW p \in Requests, NEW t \in Tasks, NEW s \in RequestSteps,
           NEW k \in {"generate", "addNode", "summary"}, NEW row \in Rows,
           BeginTask(p, t, k, s, row), UNCHANGED <<batch, persisted>>
    PROVE  /\ kind' \in [Tasks -> {"none", "generate", "addNode", "summary"}] /\ kind'[t] = k
           /\ req' \in [Requests -> RequestFrames]
           /\ req'[p] = [step |-> s, task |-> t, row |-> row]
           /\ \A q \in Requests \ {p} : req'[q] = req[q]
           /\ Grows
<1>1. TypeOK BY DEF PipelineInv
<1>2. kind' = [kind EXCEPT ![t] = k] /\ kind[t] = "none" BY DEF BeginTask
<1>3. [step |-> s, task |-> t, row |-> row] \in RequestFrames
  BY DEF RequestFrames, RequestSteps
<1>4. Grows BY <1>1, <1>2 DEF Grows, Ready, Included, TypeOK
<1>5. kind' \in [Tasks -> {"none", "generate", "addNode", "summary"}] /\ kind'[t] = k
  BY <1>1, <1>2 DEF TypeOK
<1>6. req' = [req EXCEPT ![p] = [step |-> s, task |-> t, row |-> row]]
  BY DEF BeginTask
<1>7. QED BY <1>1, <1>3, <1>4, <1>5, <1>6, RequestSet

LEMMA BeginStep ==
    ASSUME PipelineInv, NEW p \in Requests, NEW t \in Tasks,
           BeginGeneration(p, t) \/ BeginAddNode(p, t) \/ RequestSummary(p, t)
    PROVE  PipelineInv'
<1>1. TypeOK BY DEF PipelineInv
<1>2. PICK k \in {"generate", "addNode", "summary"}, s \in RequestSteps, row \in Rows :
         /\ BeginTask(p, t, k, s, row)
         /\ <<k, s>> \in {<<"generate", "creating">>, <<"addNode", "collect">>, <<"summary", "send">>}
  BY <1>1, RowsTyped DEF BeginGeneration, BeginAddNode, RequestSummary, RequestSteps
<1>3. UNCHANGED <<docs, graph, batch, queues, work, history>>
  BY DEF BeginGeneration, BeginAddNode, RequestSummary
<1>4. /\ status' \in [Tasks -> {"none", "held", "committed", "released"}]
      /\ \A u \in Tasks : status'[u] = "committed" => status[u] = "committed"
  BY <1>1 DEF BeginGeneration, BeginAddNode, RequestSummary, Escrow!Place, TypeOK, credit
<1>5. /\ kind' \in [Tasks -> {"none", "generate", "addNode", "summary"}] /\ kind'[t] = k
      /\ req' \in [Requests -> RequestFrames]
      /\ req'[p] = [step |-> s, task |-> t, row |-> row]
      /\ \A q \in Requests \ {p} : req'[q] = req[q]
      /\ Grows
  BY <1>2, <1>3, TaskBegins DEF history
<1>6. TypeOK'
  BY <1>1, <1>3, <1>4, <1>5
  DEF TypeOK, docs, graph, queues, history, RequestFrames, RequestSteps
<1>7. QueuesOK' BY <1>1, <1>3, <1>5, QueuesStay DEF PipelineInv, queues
<1>8. FramesOK'
  <2>1. RequestOK(req[p])' BY <1>2, <1>5 DEF RequestOK
  <2>2. QED BY <1>1, <1>3, <1>5, <2>1, RequestsStay DEF PipelineInv
<1>9. ChargedForResult'
  BY <1>1, <1>4, <1>5, NotCharged DEF PipelineInv
<1>10. QED BY <1>6, <1>7, <1>8, <1>9 DEF PipelineInv

\* A request that moves and changes nothing that frames and queues rest on.
LEMMA RequestMoves ==
    ASSUME PipelineInv, NEW p \in Requests, TypeOK', Grows, UNCHANGED <<queues, work>>,
           req' \in [Requests -> RequestFrames], RequestOK(req[p])',
           \A q \in Requests \ {p} : req'[q] = req[q],
           \A t \in Tasks : status'[t] = "committed" => status[t] = "committed"
    PROVE  PipelineInv'
<1>1. QueuesOK' BY QueuesStay DEF PipelineInv, queues
<1>2. FramesOK' BY RequestsStay DEF PipelineInv
<1>3. ChargedForResult' BY NotCharged DEF PipelineInv, TypeOK
<1>4. QED BY <1>1, <1>2, <1>3 DEF PipelineInv

LEMMA EndedTyped ==
    ASSUME TypeOK, NEW p \in Requests, EndRequest(p)
    PROVE  /\ req' \in [Requests -> RequestFrames] /\ RequestOK(req[p])'
           /\ \A q \in Requests \ {p} : req'[q] = req[q]
<1>1. req' = [req EXCEPT ![p] = IdleRequest] /\ IdleRequest \in RequestFrames
  BY FramesTyped DEF EndRequest
<1>2. req'[p] = IdleRequest BY <1>1, RequestSet
<1>3. QED BY <1>1, <1>2, RequestSet DEF RequestOK, IdleRequest

LEMMA WritesStep ==
    ASSUME PipelineInv, NEW p \in Requests,
           \/ SaveCreating(p) \/ Upload(p) \/ CollectNothing(p) \/ Collect(p) \/ SaveUpdating(p)
    PROVE  PipelineInv'
<1>1. TypeOK /\ RequestOK(req[p]) BY DEF PipelineInv, FramesOK
<1>2. req[p] \in RequestFrames BY <1>1, FramesTyped
<1>3. now \in 0..MaxNow /\ 0 \in 0..MaxNow BY <1>1, Clock
<1>4. CASE SaveCreating(p)
  <2>1. GotoRequest(p, "upload") /\ "upload" \in RequestSteps BY <1>4 DEF SaveCreating, RequestSteps
  <2>2. stats' \in Rows BY <1>3, <1>4 DEF SaveCreating, Rows, Statuses
  <2>3. UNCHANGED <<docs, nodes, jobs, queues, work, credit, history>> BY <1>4 DEF SaveCreating
  <2>4. TypeOK' /\ Grows
    BY <1>1, <2>1, <2>2, <2>3, RequestGoes
    DEF TypeOK, docs, jobs, queues, credit, history, RequestFrames, RequestSteps, Grows, Ready,
        Included
  <2>5. RequestOK(req[p])'
    <3>1. At(p, "creating") BY <1>4 DEF SaveCreating
    <3>2. QED BY <1>1, <2>1, <2>3, <3>1, RequestGoes DEF RequestOK, At, jobs
  <2>6. QED
    BY <1>1, <2>1, <2>3, <2>4, <2>5, RequestGoes, RequestMoves DEF credit
<1>5. CASE Upload(p)
  <2> DEFINE t == req[p].task
  <2>1. GotoRequest(p, "send") /\ "send" \in RequestSteps BY <1>5 DEF Upload, RequestSteps
  <2>2. t \in Tasks /\ kind[t] = "generate" BY <1>1, <1>5 DEF Upload, At, RequestOK
  <2>3. batch' = [batch EXCEPT ![t] = changed] BY <1>5 DEF Upload
  <2>4. UNCHANGED <<docs, graph, kind, queues, work, credit, history>> BY <1>5 DEF Upload
  <2>5. TypeOK'
    BY <1>1, <2>1, <2>3, <2>4, RequestGoes
    DEF TypeOK, docs, graph, queues, credit, history, RequestFrames, RequestSteps
  <2>6. Grows BY <1>1, <2>2, <2>3, <2>4 DEF Grows, Ready, Included, TypeOK, history
  <2>7. RequestOK(req[p])'
    BY <1>1, <2>1, <2>2, <2>4, RequestGoes DEF RequestOK
  <2>8. QED
    BY <1>1, <2>1, <2>4, <2>5, <2>6, <2>7, RequestGoes, RequestMoves DEF credit
<1>6. CASE CollectNothing(p)
  <2>1. EndRequest(p) /\ UNCHANGED <<docs, graph, jobs, queues, work, credit, history>>
    BY <1>6 DEF CollectNothing
  <2>2. TypeOK' /\ Grows
    BY <1>1, <2>1, EndedTyped
    DEF TypeOK, docs, graph, jobs, queues, credit, history, RequestFrames, RequestSteps, Grows,
        Ready, Included
  <2>3. QED BY <1>1, <2>1, <2>2, EndedTyped, RequestMoves DEF credit
<1>7. CASE Collect(p)
  <2> DEFINE b == [i \in Items |-> IF i \in Newer(req[p].row) THEN changed[i] ELSE 0]
  <2>0. PICK t \in Tasks : t = req[p].task /\ kind[t] = "addNode"
    BY <1>1, <1>7 DEF Collect, At, RequestOK
  <2>1. GotoRequest(p, "updating") /\ "updating" \in RequestSteps
    BY <1>7 DEF Collect, RequestSteps
  <2>3. batch' = [batch EXCEPT ![t] = b] /\ b \in [Items -> 0..MaxNow]
    BY <1>1, <1>3, <1>7, <2>0 DEF Collect, TypeOK
  <2>4. \E i \in Items : b[i] > 0
    <3>1. PICK i \in Items : changed[i] > Watermark(req[p].row)
      BY <1>7 DEF Collect, Newer
    <3>2. Watermark(req[p].row) \in Nat
      BY <1>2, <1>3 DEF Watermark, RequestFrames, Rows
    <3>3. b[i] = changed[i] /\ changed[i] \in Nat BY <1>1, <3>1 DEF Newer, TypeOK
    <3>4. QED BY <3>1, <3>2, <3>3
  <2> HIDE DEF b
  <2>5. /\ status' \in [Tasks -> {"none", "held", "committed", "released"}]
        /\ \A u \in Tasks : status'[u] = "committed" => status[u] = "committed"
    BY <1>1, <1>7, <2>0 DEF Collect, Escrow!Place, TypeOK
  <2>6. UNCHANGED <<docs, graph, kind, queues, work, history>> BY <1>7 DEF Collect
  <2>7. TypeOK'
    BY <1>1, <2>1, <2>3, <2>5, <2>6, RequestGoes
    DEF TypeOK, docs, graph, queues, history, RequestFrames, RequestSteps
  <2>8. Included(t)' # {}
    <3>1. batch'[t] = b BY <1>1, <2>0, <2>3 DEF TypeOK
    <3>2. QED BY <2>4, <3>1 DEF Included
  <2>9. \A u \in Tasks \ {t} : Included(u)' = Included(u)
    BY <1>1, <2>0, <2>3 DEF Included, TypeOK
  <2>10. Grows
    <3>1. kind' = kind /\ persisted' = persisted BY <2>6 DEF history
    <3>2. \A u \in Tasks \ {t} : Ready(u) => Ready(u)' BY <2>9, <3>1 DEF Ready
    <3>3. Ready(t)' BY <2>0, <2>8, <3>1 DEF Ready
    <3>4. QED BY <3>1, <3>2, <3>3 DEF Grows
  <2>11. RequestOK(req[p])'
    BY <1>1, <2>0, <2>1, <2>6, <2>8, RequestGoes DEF RequestOK
  <2>12. QED
    BY <1>1, <2>1, <2>5, <2>6, <2>7, <2>10, <2>11, RequestGoes, RequestMoves
<1>8. CASE SaveUpdating(p)
  <2> DEFINE f == [step |-> "send", task |-> req[p].task, row |-> NoRow]
  <2>1. f \in RequestFrames BY <1>1, <1>2, RowsTyped DEF RequestFrames, RequestSteps
  <2>2. req' = [req EXCEPT ![p] = [req[p] EXCEPT !.step = "send", !.row = NoRow]]
    BY <1>1, <1>8, FramesTyped DEF SaveUpdating
  <2>3. [req[p] EXCEPT !.step = "send", !.row = NoRow] \in RequestFrames
    BY <1>1, <1>2, RowsTyped DEF RequestFrames, RequestSteps
  <2>4. /\ [req[p] EXCEPT !.step = "send", !.row = NoRow].step = "send"
        /\ [req[p] EXCEPT !.step = "send", !.row = NoRow].task = req[p].task
    BY <1>2 DEF RequestFrames
  <2>5. /\ req' \in [Requests -> RequestFrames] /\ req'[p].step = "send"
        /\ req'[p].task = req[p].task
        /\ \A q \in Requests \ {p} : req'[q] = req[q]
    BY <1>1, <2>2, <2>3, <2>4, RequestSet
  <2>6. stats' \in Rows
    <3>1. req[p].row \in Rows BY <1>2 DEF RequestFrames
    <3>2. QED BY <1>1, <1>8, <3>1, RowsTyped DEF SaveUpdating, Statuses
  <2>7. UNCHANGED <<docs, nodes, jobs, queues, work, credit, history>> BY <1>8 DEF SaveUpdating
  <2>8. TypeOK' /\ Grows
    BY <1>1, <2>5, <2>6, <2>7
    DEF TypeOK, docs, jobs, queues, credit, history, RequestFrames, RequestSteps, Grows, Ready,
        Included
  <2>9. RequestOK(req[p])'
    <3>1. At(p, "updating") BY <1>8 DEF SaveUpdating
    <3>2. QED BY <1>1, <2>5, <2>7, <3>1 DEF RequestOK, At, jobs, Included
  <2>10. QED BY <2>5, <2>7, <2>8, <2>9, RequestMoves DEF credit
<1>9. QED BY <1>4, <1>5, <1>6, <1>7, <1>8

\* What the graph loses to deleteGraph keeps its type.
LEMMA ClearTyped ==
    ASSUME TypeOK, ClearNodes
    PROVE  /\ nodes' \in [0..MaxNode -> [item : Items \cup {"none"}, at : 0..MaxNow]]
           /\ written' \subseteq Items /\ overlap' \in BOOLEAN
           /\ UNCHANGED <<docs, jobs, queues, work, credit, persisted>>
<1>1. 0 \in 0..MaxNow BY Clock
<1>2. NoNode \in [item : Items \cup {"none"}, at : 0..MaxNow] BY <1>1 DEF NoNode
<1>3. QED BY <1>2 DEF ClearNodes, TypeOK

LEMMA DeleteStep ==
    ASSUME PipelineInv, NEW p \in Requests, DeleteNodes(p) \/ DeleteStats(p)
    PROVE  PipelineInv'
<1>1. TypeOK /\ ClearNodes BY DEF PipelineInv, DeleteNodes, DeleteStats
<1>2. stats' \in Rows BY <1>1, RowsTyped DEF DeleteNodes, DeleteStats, TypeOK
<1>3. /\ req' \in [Requests -> RequestFrames] /\ RequestOK(req[p])'
      /\ \A q \in Requests \ {p} : req'[q] = req[q]
  <2>1. CASE DeleteNodes(p)
    <3>1. GotoRequest(p, "deleting") /\ "deleting" \in RequestSteps
      BY <2>1 DEF DeleteNodes, RequestSteps
    <3>2. QED BY <1>1, <3>1, RequestGoes DEF RequestOK
  <2>2. CASE DeleteStats(p) BY <1>1, <2>2, EndedTyped DEF DeleteStats
  <2>3. QED BY <2>1, <2>2
<1>4. TypeOK'
  BY <1>1, <1>2, <1>3, ClearTyped
  DEF TypeOK, docs, jobs, queues, credit, RequestFrames, RequestSteps
<1>5. Grows BY <1>1, ClearTyped DEF Grows, Ready, Included, jobs
<1>6. QED BY <1>1, <1>3, <1>4, <1>5, ClearTyped, RequestMoves DEF credit

\* The message leaves, or may have left, for a task that is ready.
LEMMA SendStep ==
    ASSUME PipelineInv, NEW p \in Requests, Send(p) \/ FailRequest(p)
    PROVE  PipelineInv'
<1>1. TypeOK /\ RequestOK(req[p]) BY DEF PipelineInv, FramesOK
<1>2. UNCHANGED <<docs, graph, jobs, results, work, credit, history>>
  BY DEF Send, FailRequest
<1>3. /\ req' \in [Requests -> RequestFrames] /\ RequestOK(req[p])'
      /\ \A q \in Requests \ {p} : req'[q] = req[q]
  <2>1. CASE Send(p) BY <1>1, <2>1, EndedTyped DEF Send
  <2>2. CASE FailRequest(p)
    <3>1. GotoRequest(p, "rollback") /\ "rollback" \in RequestSteps
      BY <2>2 DEF FailRequest, RequestSteps
    <3>2. req[p].step \in {"creating", "upload", "updating", "send"} BY <2>2 DEF FailRequest
    <3>3. QED BY <1>1, <1>2, <3>1, <3>2, RequestGoes DEF RequestOK, jobs
  <2>3. QED BY <2>1, <2>2
<1>4. /\ sent' \in [Tasks -> 0..MaxCopies]
      /\ \A t \in Tasks : sent'[t] > 0 => sent[t] > 0 \/ Ready(t)
  <2>1. CASE UNCHANGED sent BY <1>1, <2>1 DEF TypeOK
  <2>2. CASE At(p, "send")
    <3>1. req[p].task \in Tasks /\ Ready(req[p].task) BY <1>1, <2>2 DEF At, RequestOK, Ready
    <3>2. PICK n \in 1..MaxCopies : \/ sent' = [sent EXCEPT ![req[p].task] = n]
                                    \/ UNCHANGED sent
      <4>1. 1 \in 1..MaxCopies BY BoundAssumption
      <4>2. QED BY <4>1 DEF Send, FailRequest
    <3>3. sent' \in [Tasks -> 0..MaxCopies]
      <4>1. n \in 0..MaxCopies BY <3>2, BoundAssumption
      <4>2. sent \in [Tasks -> 0..MaxCopies] BY <1>1 DEF TypeOK
      <4>3. QED BY <3>1, <3>2, <4>1, <4>2
    <3>4. \A t \in Tasks : t # req[p].task => sent'[t] = sent[t]
      BY <1>1, <3>2 DEF TypeOK
    <3>5. QED BY <3>1, <3>3, <3>4
  <2>3. QED BY <2>1, <2>2 DEF Send, FailRequest
<1>5. TypeOK'
  BY <1>1, <1>2, <1>3, <1>4
  DEF TypeOK, docs, graph, jobs, credit, history, RequestFrames, RequestSteps
<1>6. Grows BY <1>2 DEF Grows, Ready, Included, jobs, history
<1>7. QueuesOK'
  <2>1. \A t \in Tasks : Ready(t) => Ready(t)' BY <1>6 DEF Grows
  <2>2. QED BY <1>1, <1>2, <1>4, <1>6, <2>1, QueuesStay DEF PipelineInv
<1>8. FramesOK' BY <1>1, <1>2, <1>3, <1>6, RequestsStay DEF PipelineInv
<1>9. ChargedForResult' BY <1>2 DEF PipelineInv, ChargedForResult, credit, history
<1>10. QED BY <1>5, <1>7, <1>8, <1>9 DEF PipelineInv

LEMMA EndsStep ==
    ASSUME PipelineInv, NEW p \in Requests, RollbackHold(p) \/ CrashRequest(p)
    PROVE  PipelineInv'
<1>1. TypeOK /\ RequestOK(req[p]) BY DEF PipelineInv, FramesOK
<1>2. EndRequest(p) /\ UNCHANGED <<docs, graph, jobs, queues, work, history>>
  BY DEF RollbackHold, CrashRequest
<1>3. /\ status' \in [Tasks -> {"none", "held", "committed", "released"}]
      /\ \A t \in Tasks : status'[t] = "committed" => status[t] = "committed"
  <2>1. CASE RollbackHold(p)
    <3>1. req[p].task \in Tasks BY <1>1, <2>1 DEF RollbackHold, At, RequestOK
    <3>2. QED
      BY <1>1, <2>1, <3>1 DEF RollbackHold, SettleRelease, Escrow!Release, TypeOK, credit
  <2>2. CASE CrashRequest(p) BY <1>1, <2>2 DEF CrashRequest, credit, TypeOK
  <2>3. QED BY <2>1, <2>2
<1>4. TypeOK'
  BY <1>1, <1>2, <1>3, EndedTyped
  DEF TypeOK, docs, graph, jobs, queues, history, RequestFrames, RequestSteps
<1>5. Grows BY <1>2 DEF Grows, Ready, Included, jobs, history
<1>6. QED BY <1>1, <1>2, <1>3, <1>4, <1>5, EndedTyped, RequestMoves

\* The AI service answers what was sent.
LEMMA AnswerStep ==
    ASSUME PipelineInv, NEW t \in Tasks, NEW ok \in BOOLEAN, Answer(t, ok)
    PROVE  PipelineInv'
<1>1. TypeOK BY DEF PipelineInv
<1>2. UNCHANGED <<docs, graph, jobs, req, work, credit, history>> BY DEF Answer
<1>3. PICK m : /\ m = [task |-> t, ok |-> ok,
                       at |-> IF kind[t] = "generate" /\ ok THEN now ELSE 0]
               /\ results' = results \cup {m}
  BY DEF Answer
<1>4. m \in Messages /\ m.task = t BY <1>1, <1>3, Clock DEF Messages
<1>5. sent' = [sent EXCEPT ![t] = sent[t] - 1] /\ sent[t] > 0 BY DEF Answer
<1>6. sent' \in [Tasks -> 0..MaxCopies] /\ \A s \in Tasks : sent'[s] > 0 => sent[s] > 0
  BY <1>1, <1>5, BoundAssumption DEF TypeOK
<1>7. TypeOK'
  BY <1>1, <1>2, <1>3, <1>4, <1>6 DEF TypeOK, docs, graph, jobs, credit, history
<1>8. QueuesOK'
  BY <1>2, <1>3, <1>4, <1>5, <1>6 DEF PipelineInv, QueuesOK, Ready, Included, jobs
<1>9. FramesOK' /\ ChargedForResult'
  BY <1>2 DEF PipelineInv, FramesOK, ChargedForResult, RequestOK, WorkOK, Included, jobs, credit,
              history
<1>10. QED BY <1>7, <1>8, <1>9 DEF PipelineInv

-----------------------------------------------------------------------------
(* The steps of the result handlers.                                       *)

LEMMA WorkMoves ==
    ASSUME PipelineInv, NEW w \in Workers, TypeOK', Grows, UNCHANGED <<sent, req>>,
           results' \subseteq results, work' \in [Workers -> WorkFrames], WorkOK(work[w])',
           \A v \in Workers \ {w} : work'[v] = work[v],
           \A t \in Tasks : status'[t] = "committed" => status[t] = "committed" \/ t \in persisted
    PROVE  PipelineInv'
<1>1. QueuesOK' BY QueuesStay DEF PipelineInv
<1>2. FramesOK' BY WorkersStay DEF PipelineInv
<1>3. ChargedForResult' BY NotCharged DEF PipelineInv, TypeOK
<1>4. QED BY <1>1, <1>2, <1>3 DEF PipelineInv

LEMMA EmptyPlan == NoPlan \in [Items -> -1..MaxNode]
BY BoundAssumption DEF NoPlan

\* A handler goes on: the frame keeps its message.
LEMMA WorkGoes ==
    ASSUME TypeOK, NEW w \in Workers, NEW s \in WorkSteps, NEW row \in Rows,
           NEW plan \in [Items -> -1..MaxNode],
           \/ work' = [work EXCEPT ![w].step = s]
           \/ work' = [work EXCEPT ![w].step = s, ![w].row = row]
           \/ work' = [work EXCEPT ![w].plan = plan, ![w].step = s]
    PROVE  /\ work' \in [Workers -> WorkFrames]
           /\ work'[w].step = s /\ work'[w].msg = work[w].msg
           /\ \A v \in Workers \ {w} : work'[v] = work[v]
<1>1. work[w] \in WorkFrames /\ work \in [Workers -> WorkFrames] BY FramesTyped
<1>2. CASE work' = [work EXCEPT ![w].step = s]
  <2> DEFINE f == [work[w] EXCEPT !.step = s]
  <2>1. f \in WorkFrames /\ f.step = s /\ f.msg = work[w].msg BY <1>1 DEF WorkFrames
  <2>2. work' = [work EXCEPT ![w] = f] BY <1>1, <1>2
  <2> HIDE DEF f
  <2>3. QED BY <2>1, <2>2, WorkSet
<1>3. CASE work' = [work EXCEPT ![w].step = s, ![w].row = row]
  <2> DEFINE f == [work[w] EXCEPT !.step = s, !.row = row]
  <2>1. f \in WorkFrames /\ f.step = s /\ f.msg = work[w].msg BY <1>1 DEF WorkFrames
  <2>2. work' = [work EXCEPT ![w] = f] BY <1>1, <1>3
  <2> HIDE DEF f
  <2>3. QED BY <2>1, <2>2, WorkSet
<1>4. CASE work' = [work EXCEPT ![w].plan = plan, ![w].step = s]
  <2> DEFINE f == [work[w] EXCEPT !.plan = plan, !.step = s]
  <2>1. f \in WorkFrames /\ f.step = s /\ f.msg = work[w].msg BY <1>1 DEF WorkFrames
  <2>2. work' = [work EXCEPT ![w] = f] BY <1>1, <1>4
  <2> HIDE DEF f
  <2>3. QED BY <2>1, <2>2, WorkSet
<1>5. QED BY <1>2, <1>3, <1>4

LEMMA PlanGoes ==
    ASSUME TypeOK, NEW w \in Workers, NEW s \in WorkSteps,
           NEW plan \in [Items -> -1..MaxNode],
           work' = [work EXCEPT ![w].plan = plan, ![w].step = s]
    PROVE  work'[w].plan = plan
<1>1. work[w] \in WorkFrames /\ work \in [Workers -> WorkFrames] BY FramesTyped
<1> DEFINE f == [work[w] EXCEPT !.plan = plan, !.step = s]
<1>2. f \in WorkFrames /\ f.plan = plan BY <1>1 DEF WorkFrames
<1>3. work' = [work EXCEPT ![w] = f] BY <1>1
<1> HIDE DEF f
<1>4. QED BY <1>2, <1>3, WorkSet

\* A handler takes a message.
LEMMA WorkBegins ==
    ASSUME TypeOK, NEW w \in Workers, NEW m \in Messages, NEW s \in WorkSteps, NEW row \in Rows,
           NEW plan \in [Items -> -1..MaxNode],
           \/ work' = [work EXCEPT ![w] = [IdleWorker EXCEPT !.step = s, !.msg = m]]
           \/ work' = [work EXCEPT ![w] = [IdleWorker EXCEPT !.step = s, !.msg = m, !.row = row]]
           \/ work' = [work EXCEPT ![w] = [IdleWorker EXCEPT !.step = s, !.msg = m, !.plan = plan]]
    PROVE  /\ work' \in [Workers -> WorkFrames]
           /\ work'[w].step = s /\ work'[w].msg = m
           /\ \A v \in Workers \ {w} : work'[v] = work[v]
<1>1. IdleWorker \in WorkFrames BY FramesTyped
<1> HIDE DEF IdleWorker
<1>2. CASE work' = [work EXCEPT ![w] = [IdleWorker EXCEPT !.step = s, !.msg = m]]
  <2> DEFINE f == [IdleWorker EXCEPT !.step = s, !.msg = m]
  <2>1. f \in WorkFrames /\ f.step = s /\ f.msg = m BY <1>1 DEF WorkFrames
  <2>2. work' = [work EXCEPT ![w] = f] BY <1>2
  <2> HIDE DEF f
  <2>3. QED BY <2>1, <2>2, WorkSet
<1>3. CASE work' = [work EXCEPT ![w] = [IdleWorker EXCEPT !.step = s, !.msg = m, !.row = row]]
  <2> DEFINE f == [IdleWorker EXCEPT !.step = s, !.msg = m, !.row = row]
  <2>1. f \in WorkFrames /\ f.step = s /\ f.msg = m BY <1>1 DEF WorkFrames
  <2>2. work' = [work EXCEPT ![w] = f] BY <1>3
  <2> HIDE DEF f
  <2>3. QED BY <2>1, <2>2, WorkSet
<1>4. CASE work' = [work EXCEPT ![w] = [IdleWorker EXCEPT !.step = s, !.msg = m, !.plan = plan]]
  <2> DEFINE f == [IdleWorker EXCEPT !.step = s, !.msg = m, !.plan = plan]
  <2>1. f \in WorkFrames /\ f.step = s /\ f.msg = m BY <1>1 DEF WorkFrames
  <2>2. work' = [work EXCEPT ![w] = f] BY <1>4
  <2> HIDE DEF f
  <2>3. QED BY <2>1, <2>2, WorkSet
<1>5. QED BY <1>2, <1>3, <1>4

LEMMA PlanBegins ==
    ASSUME TypeOK, NEW w \in Workers, NEW m \in Messages, NEW s \in WorkSteps,
           NEW plan \in [Items -> -1..MaxNode],
           work' = [work EXCEPT ![w] = [IdleWorker EXCEPT !.step = s, !.msg = m, !.plan = plan]]
    PROVE  work'[w].plan = plan
<1>1. IdleWorker \in WorkFrames BY FramesTyped
<1> DEFINE f == [IdleWorker EXCEPT !.step = s, !.msg = m, !.plan = plan]
<1>2. f \in WorkFrames /\ f.plan = plan BY <1>1 DEF WorkFrames
<1>3. work' = [work EXCEPT ![w] = f] OBVIOUS
<1> HIDE DEF f
<1>4. QED BY <1>2, <1>3, WorkSet

LEMMA WorkEnds ==
    ASSUME TypeOK, NEW w \in Workers, EndWork(w)
    PROVE  /\ work' \in [Workers -> WorkFrames] /\ WorkOK(work[w])'
           /\ \A v \in Workers \ {w} : work'[v] = work[v]
<1>1. work' = [work EXCEPT ![w] = IdleWorker] /\ IdleWorker \in WorkFrames
  BY FramesTyped DEF EndWork
<1>2. work'[w] = IdleWorker BY <1>1, WorkSet
<1>3. QED BY <1>1, <1>2, WorkSet DEF WorkOK, IdleWorker

\* A handler ends, and may settle its hold: it commits only past its last write.
LEMMA HandlerEnds ==
    ASSUME PipelineInv, NEW w \in Workers,
           \/ Abandon(w) \/ Release(w) \/ Commit(w) \/ \E t \in Tasks : AddNodeThrows(w, t)
    PROVE  PipelineInv'
<1>1. TypeOK /\ WorkOK(work[w]) BY DEF PipelineInv, FramesOK
<1>2. /\ UNCHANGED <<docs, graph, jobs, sent, req, history>> /\ results' \subseteq results
      /\ results' = results \/ results' = results \ {work[w].msg}
  BY DEF Abandon, Release, Commit, AddNodeThrows, AddNodeCatches, Finish, queues
<1>3. EndWork(w)
  BY DEF Abandon, Release, Commit, AddNodeThrows, AddNodeCatches, Finish, Take, EndWork
<1>4. /\ status' \in [Tasks -> {"none", "held", "committed", "released"}]
      /\ \A t \in Tasks : status'[t] = "committed" => status[t] = "committed" \/ t \in persisted
  <2>1. CASE UNCHANGED credit BY <1>1, <2>1 DEF TypeOK, credit
  <2>2. CASE Release(w)
    <3>1. TaskOf(w) \in Tasks BY <1>1, <2>2 DEF Release, Doing, WorkOK, TaskOf, Messages
    <3>2. QED
      BY <1>1, <2>2, <3>1 DEF Release, SettleRelease, Escrow!Release, TypeOK, credit
  <2>3. CASE Commit(w)
    <3>1. TaskOf(w) \in persisted /\ TaskOf(w) \in Tasks
      BY <1>1, <2>3 DEF Commit, Doing, WorkOK, TaskOf, Messages
    <3>2. QED
      BY <1>1, <2>3, <3>1 DEF Commit, SettleCommit, Escrow!Commit, TypeOK, credit
  <2>4. CASE \E t \in Tasks : AddNodeThrows(w, t)
    BY <1>1, <2>4 DEF AddNodeThrows, AddNodeCatches, SettleRelease, Escrow!Release, TypeOK, credit
  <2>5. QED BY <2>1, <2>2, <2>3, <2>4 DEF Abandon
<1>5. TypeOK'
  BY <1>1, <1>2, <1>3, <1>4, WorkEnds
  DEF TypeOK, docs, graph, jobs, history, WorkFrames, WorkSteps
<1>6. Grows BY <1>2 DEF Grows, Ready, Included, jobs, history
<1>7. QED BY <1>1, <1>2, <1>3, <1>4, <1>5, <1>6, WorkEnds, WorkMoves

\* Handlers that touch the status row alone, or only read.
LEMMA RowStep ==
    ASSUME PipelineInv, NEW w \in Workers,
           \/ \E m \in results : ReadStats(w, m) \/ SaveSummary(w, m)
           \/ SaveFailed(w) \/ SaveCreated(w) \/ ReadUpdated(w) \/ SaveUpdated(w)
    PROVE  PipelineInv'
<1>1. TypeOK /\ WorkOK(work[w]) /\ work[w] \in WorkFrames
  BY FramesTyped DEF PipelineInv, FramesOK
<1>2. UNCHANGED <<docs, nodes, jobs, queues, req, credit, history>>
  BY DEF ReadStats, SaveSummary, SaveFailed, SaveCreated, ReadUpdated, SaveUpdated, graph
<1>3. work[w].row \in Rows BY <1>1 DEF WorkFrames
<1>4. stats' \in Rows
  <2>1. stats \in Rows /\ CreatedRow \in Rows /\ Reset(work[w].row) \in Rows
    BY <1>1, <1>3, RowsTyped DEF TypeOK, Reset, Statuses
  <2>2. [work[w].row EXCEPT !.status = "CREATED"] \in Rows
    BY <1>1, <1>3, RowsTyped DEF Statuses
  <2>3. [work[w].row EXCEPT !.status = "UPDATED", !.updatedAt = now] \in Rows
    BY <1>1, <1>3, RowsTyped
  <2>4. QED
    BY <2>1, <2>2, <2>3
    DEF ReadStats, SaveSummary, SaveFailed, SaveCreated, ReadUpdated, SaveUpdated, graph,
        SaveStatsIfMutable
<1>5. /\ work' \in [Workers -> WorkFrames] /\ WorkOK(work[w])'
      /\ \A v \in Workers \ {w} : work'[v] = work[v]
  <2>0. NoRow \in Rows /\ StatsRead \in Rows BY <1>1, RowsTyped
  <2>1. CASE \E m \in results : ReadStats(w, m) \/ SaveSummary(w, m)
    <3>1. PICK m \in results : ReadStats(w, m) \/ SaveSummary(w, m) BY <2>1
    <3>2. m \in Messages /\ kind[m.task] # "none"
      BY <1>1, <3>1 DEF PipelineInv, QueuesOK, Ready, TypeOK
    <3>3. CASE ReadStats(w, m)
      <4>1. work' = [work EXCEPT ![w] = [IdleWorker EXCEPT !.step = "failed", !.msg = m,
                                                          !.row = StatsRead]]
        BY <3>3 DEF ReadStats, Take
      <4>2. /\ work' \in [Workers -> WorkFrames] /\ work'[w].step = "failed" /\ work'[w].msg = m
            /\ \A v \in Workers \ {w} : work'[v] = work[v]
        <5>1. "failed" \in WorkSteps BY DEF WorkSteps
        <5>2. QED BY <1>1, <2>0, <3>2, <4>1, <5>1, EmptyPlan, WorkBegins
      <4>3. QED BY <1>2, <3>2, <4>2 DEF WorkOK, jobs
    <3>4. CASE SaveSummary(w, m)
      <4>1. /\ work' = [work EXCEPT ![w] = [IdleWorker EXCEPT !.step = "created", !.msg = m]]
            /\ kind[m.task] = "summary"
        BY <3>4 DEF SaveSummary, Take
      <4>2. /\ work' \in [Workers -> WorkFrames] /\ work'[w].step = "created" /\ work'[w].msg = m
            /\ \A v \in Workers \ {w} : work'[v] = work[v]
        <5>1. "created" \in WorkSteps BY DEF WorkSteps
        <5>2. QED BY <1>1, <2>0, <3>2, <4>1, <5>1, EmptyPlan, WorkBegins
      <4>3. QED BY <1>2, <3>2, <4>1, <4>2 DEF WorkOK, jobs
    <3>5. QED BY <3>1, <3>3, <3>4
  <2>2. CASE SaveFailed(w) \/ SaveCreated(w) \/ ReadUpdated(w) \/ SaveUpdated(w)
    <3>1. CASE SaveFailed(w)
      <4>1. work' = [work EXCEPT ![w].step = "release", ![w].row = NoRow] /\ work[w].step = "failed"
        BY <3>1 DEF SaveFailed, Doing
      <4>2. /\ work' \in [Workers -> WorkFrames]
            /\ work'[w].step = "release" /\ work'[w].msg = work[w].msg
            /\ \A v \in Workers \ {w} : work'[v] = work[v]
        <5>1. "release" \in WorkSteps BY DEF WorkSteps
        <5>2. QED BY <1>1, <2>0, <4>1, <5>1, EmptyPlan, WorkGoes
      <4>3. WorkOK(work[w])'
        BY <1>1, <1>2, <3>1, <4>1, <4>2 DEF WorkOK, jobs, history
      <4>4. QED BY <4>2, <4>3
    <3>2. CASE SaveCreated(w)
      <4>1. work' = [work EXCEPT ![w].step = "commit"] /\ work[w].step = "created"
        BY <3>2 DEF SaveCreated, Doing
      <4>2. /\ work' \in [Workers -> WorkFrames]
            /\ work'[w].step = "commit" /\ work'[w].msg = work[w].msg
            /\ \A v \in Workers \ {w} : work'[v] = work[v]
        <5>1. "commit" \in WorkSteps BY DEF WorkSteps
        <5>2. QED BY <1>1, <2>0, <4>1, <5>1, EmptyPlan, WorkGoes
      <4>3. WorkOK(work[w])'
        BY <1>1, <1>2, <3>2, <4>1, <4>2 DEF WorkOK, jobs, history, SaveCreated, TaskOf
      <4>4. QED BY <4>2, <4>3
    <3>3. CASE ReadUpdated(w)
      <4>1. work' = [work EXCEPT ![w].step = "saveUpdated", ![w].row = StatsRead] /\ work[w].step = "updated"
        BY <3>3 DEF ReadUpdated, Doing
      <4>2. /\ work' \in [Workers -> WorkFrames]
            /\ work'[w].step = "saveUpdated" /\ work'[w].msg = work[w].msg
            /\ \A v \in Workers \ {w} : work'[v] = work[v]
        <5>1. "saveUpdated" \in WorkSteps BY DEF WorkSteps
        <5>2. QED BY <1>1, <2>0, <4>1, <5>1, EmptyPlan, WorkGoes
      <4>3. WorkOK(work[w])'
        BY <1>1, <1>2, <3>3, <4>1, <4>2 DEF WorkOK, jobs, history
      <4>4. QED BY <4>2, <4>3
    <3>4. CASE SaveUpdated(w)
      <4>1. work' = [work EXCEPT ![w].step = "commit", ![w].row = NoRow] /\ work[w].step = "saveUpdated"
        BY <3>4 DEF SaveUpdated, Doing
      <4>2. /\ work' \in [Workers -> WorkFrames]
            /\ work'[w].step = "commit" /\ work'[w].msg = work[w].msg
            /\ \A v \in Workers \ {w} : work'[v] = work[v]
        <5>1. "commit" \in WorkSteps BY DEF WorkSteps
        <5>2. QED BY <1>1, <2>0, <4>1, <5>1, EmptyPlan, WorkGoes
      <4>3. WorkOK(work[w])'
        BY <1>1, <1>2, <3>4, <4>1, <4>2 DEF WorkOK, jobs, history
      <4>4. QED BY <4>2, <4>3
    <3>5. QED BY <2>2, <3>1, <3>2, <3>3, <3>4
  <2>3. QED BY <2>1, <2>2
<1>6. TypeOK'
  BY <1>1, <1>2, <1>4, <1>5
  DEF TypeOK, docs, jobs, queues, credit, history, WorkFrames, WorkSteps
<1>7. Grows BY <1>2 DEF Grows, Ready, Included, jobs, history
<1>8. QED BY <1>2, <1>5, <1>6, <1>7, WorkMoves DEF queues, credit

\* A summary or a failed generation comes to its end: the row at most is written.
LEMMA QuietEnds ==
    ASSUME PipelineInv, NEW w \in Workers, SummaryCreated(w) \/ GenerationThrows(w)
    PROVE  PipelineInv'
<1>1. TypeOK BY DEF PipelineInv
<1>2. EndWork(w) /\ UNCHANGED <<docs, nodes, jobs, sent, req, credit, history>>
      /\ (results' = results \/ results' = results \ {work[w].msg})
  BY DEF SummaryCreated, GenerationThrows, Take, EndWork, queues
<1>3. stats' \in Rows
  <2>1. Reset(StatsRead) \in Rows /\ CreatedRow \in Rows /\ stats \in Rows
    BY <1>1, RowsTyped DEF TypeOK, Reset, Statuses
  <2>2. QED BY <2>1 DEF SummaryCreated, GenerationThrows, SaveStatsIfMutable
<1>4. TypeOK'
  BY <1>1, <1>2, <1>3, WorkEnds
  DEF TypeOK, docs, jobs, credit, history, WorkFrames, WorkSteps
<1>5. Grows BY <1>2 DEF Grows, Ready, Included, jobs, history
<1>6. QED BY <1>1, <1>2, <1>4, <1>5, WorkEnds, WorkMoves DEF credit

LEMMA SummaryFails ==
    ASSUME PipelineInv, NEW m \in results, SummaryFailed(m)
    PROVE  PipelineInv'
<1>1. /\ UNCHANGED <<docs, graph, jobs, sent, req, work, credit, history>>
      /\ results' = results \ {m}
  BY DEF SummaryFailed
<1>2. TypeOK' BY <1>1 DEF PipelineInv, TypeOK, docs, graph, jobs, credit, history
<1>3. QueuesOK' BY <1>1 DEF PipelineInv, QueuesOK, Ready, Included, jobs
<1>4. FramesOK' /\ ChargedForResult'
  BY <1>1 DEF PipelineInv, FramesOK, ChargedForResult, RequestOK, WorkOK, Included, jobs, credit,
              history
<1>5. QED BY <1>2, <1>3, <1>4 DEF PipelineInv

\* A node made from a task's document.
LEMMA NodeTyped ==
    ASSUME TypeOK, NEW t \in Tasks, NEW i \in Items
    PROVE  NodeFor(t, i) \in [item : Items \cup {"none"}, at : 0..MaxNow]
BY DEF TypeOK, NodeFor

LEMMA SnapshotStep ==
    ASSUME PipelineInv, NEW w \in Workers, NEW m \in results, PersistSnapshot(w, m)
    PROVE  PipelineInv'
<1>1. TypeOK BY DEF PipelineInv
<1>2. m \in Messages /\ m.task \in Tasks BY <1>1 DEF TypeOK, Messages
<1>3. UNCHANGED <<docs, jobs, queues, req, credit>> BY DEF PersistSnapshot
<1>4. /\ work' = [work EXCEPT ![w] = [IdleWorker EXCEPT !.step = "created", !.msg = m]]
      /\ kind[m.task] = "generate"
  BY DEF PersistSnapshot, Take
<1>5. /\ work' \in [Workers -> WorkFrames] /\ work'[w].step = "created" /\ work'[w].msg = m
      /\ \A v \in Workers \ {w} : work'[v] = work[v]
  <2>1. "created" \in WorkSteps /\ NoRow \in Rows BY <1>1, RowsTyped DEF WorkSteps
  <2>2. QED BY <1>1, <1>2, <1>4, <2>1, EmptyPlan, WorkBegins
<1>6. stats' \in Rows
  <2>1. m.at \in 0..MaxNow /\ 0 \in 0..MaxNow BY <1>1, <1>2, Clock DEF Messages
  <2>2. [status |-> "CREATED", updatedAt |-> 0, generatedAt |-> m.at] \in Rows
    BY <2>1 DEF Rows, Statuses
  <2>3. QED BY <1>1, <2>2 DEF PersistSnapshot, SaveStatsIfMutable, TypeOK
<1>7. nodes' \in [0..MaxNode -> [item : Items \cup {"none"}, at : 0..MaxNow]]
  <2> DEFINE t == m.task
             made(n) == {i \in Included(t) : Before(t, i, Included(t)) = n}
  <2>1. nodes' = [n \in 0..MaxNode |->
                    IF \E i \in Included(t) : Before(t, i, Included(t)) = n
                    THEN NodeFor(t, CHOOSE i \in Included(t) : Before(t, i, Included(t)) = n)
                    ELSE nodes[n]]
    BY DEF PersistSnapshot
  <2>2. Included(t) \subseteq Items BY DEF Included
  <2>3. ASSUME NEW n \in 0..MaxNode, \E i \in Included(t) : Before(t, i, Included(t)) = n
        PROVE  NodeFor(t, CHOOSE i \in Included(t) : Before(t, i, Included(t)) = n)
                 \in [item : Items \cup {"none"}, at : 0..MaxNow]
    BY <1>1, <1>2, <2>2, <2>3, NodeTyped
  <2>4. \A n \in 0..MaxNode : nodes[n] \in [item : Items \cup {"none"}, at : 0..MaxNow]
    BY <1>1 DEF TypeOK
  <2>5. QED BY <2>1, <2>3, <2>4
<1>8. /\ persisted' = persisted \cup {m.task} /\ written' \subseteq Items /\ overlap' \in BOOLEAN
  <2>1. Included(m.task) \subseteq Items BY DEF Included
  <2>2. QED BY <1>1, <2>1 DEF PersistSnapshot, TypeOK
<1>9. TypeOK'
  BY <1>1, <1>2, <1>3, <1>5, <1>6, <1>7, <1>8
  DEF TypeOK, docs, jobs, queues, credit, WorkFrames, WorkSteps
<1>10. Grows BY <1>3, <1>8 DEF Grows, Ready, Included, jobs
<1>11. WorkOK(work[w])' BY <1>2, <1>3, <1>4, <1>5, <1>8 DEF WorkOK, jobs
<1>12. QED
  BY <1>1, <1>3, <1>5, <1>9, <1>10, <1>11, WorkMoves DEF queues, credit

\* The ids that AddNode gives out are in range and one at least is given.
LEMMA ListStep ==
    ASSUME PipelineInv, NEW w \in Workers, NEW m \in results, ListNodes(w, m)
    PROVE  PipelineInv'
<1>1. TypeOK BY DEF PipelineInv
<1>2. m \in Messages /\ m.task \in Tasks /\ Ready(m.task)
  BY <1>1 DEF TypeOK, Messages, PipelineInv, QueuesOK
<1>3. UNCHANGED <<docs, graph, jobs, queues, req, credit, history>> BY DEF ListNodes
<1> DEFINE new == {i \in Included(m.task) : Known(i) = {}}
           plan == [i \in Items |->
              IF i \notin Included(m.task) THEN -1
              ELSE IF i \in new THEN NextNodeId + Before(m.task, i, new)
              ELSE Max(Known(i))]
<1>4. /\ \A i \in Items : plan[i] <= MaxNode
      /\ work' = [work EXCEPT ![w] = [IdleWorker EXCEPT !.step = "write", !.msg = m,
                                                        !.plan = plan]]
      /\ kind[m.task] = "addNode"
  BY DEF ListNodes, Take
<1>5. new \in SUBSET Items /\ Included(m.task) \in SUBSET Items BY DEF Included
<1>6. \A i \in Items : plan[i] \in -1..MaxNode /\ (i \in Included(m.task) => plan[i] >= 0)
  <2> TAKE i \in Items
  <2>0. MaxNode \in Nat BY BoundAssumption
  <2>1. CASE i \notin Included(m.task) BY <2>0, <2>1
  <2>2. CASE i \in new
    <3>1. NextNodeId \in Nat BY <1>1, UsedIds
    <3>2. Before(m.task, i, new) \in Nat BY <1>2, <1>5, BeforeType
    <3>3. plan[i] = NextNodeId + Before(m.task, i, new) BY <2>2
    <3>4. plan[i] <= MaxNode BY <1>4
    <3>5. QED BY <2>0, <3>1, <3>2, <3>3, <3>4
  <2>3. CASE i \in Included(m.task) /\ i \notin new
    <3>1. Max(Known(i)) \in 0..MaxNode BY <1>1, <2>3, UsedIds
    <3>2. plan[i] = Max(Known(i)) BY <2>3
    <3>3. QED BY <2>0, <3>1, <3>2
  <2>4. QED BY <2>1, <2>2, <2>3
<1>7. plan \in [Items -> -1..MaxNode]
  BY <1>6
<1>8. \E i \in Items : plan[i] >= 0
  <2>1. PICK i \in Included(m.task) : TRUE BY <1>2, <1>4 DEF Ready
  <2>2. QED BY <1>5, <1>6, <2>1
<1> HIDE DEF plan
<1>9. /\ work' \in [Workers -> WorkFrames] /\ work'[w].step = "write" /\ work'[w].msg = m
      /\ work'[w].plan = plan /\ \A v \in Workers \ {w} : work'[v] = work[v]
  <2>1. "write" \in WorkSteps /\ NoRow \in Rows BY <1>1, RowsTyped DEF WorkSteps
  <2>2. work' = [work EXCEPT ![w] = [IdleWorker EXCEPT !.step = "write", !.msg = m,
                                                       !.plan = plan]]
    BY <1>4
  <2>3. QED BY <1>1, <1>2, <1>7, <2>1, <2>2, WorkBegins, PlanBegins
<1>10. TypeOK'
  BY <1>1, <1>3, <1>9
  DEF TypeOK, docs, graph, jobs, queues, credit, history, WorkFrames, WorkSteps
<1>11. Grows BY <1>3 DEF Grows, Ready, Included, jobs, history
<1>12. WorkOK(work[w])' BY <1>2, <1>3, <1>4, <1>8, <1>9 DEF WorkOK, jobs
<1>13. QED
  BY <1>1, <1>3, <1>9, <1>10, <1>11, <1>12, WorkMoves DEF queues, credit

LEMMA UpsertStep ==
    ASSUME PipelineInv, NEW w \in Workers, UpsertNodes(w)
    PROVE  PipelineInv'
<1>1. TypeOK /\ WorkOK(work[w]) /\ work[w] \in WorkFrames
  BY FramesTyped DEF PipelineInv, FramesOK
<1>2. PICK t \in Tasks : t = TaskOf(w) /\ kind[t] = "addNode"
  BY <1>1 DEF UpsertNodes, Doing, WorkOK, TaskOf, Messages
<1> DEFINE pending == {j \in Items : work[w].plan[j] >= 0}
<1>3. pending \in SUBSET Items /\ pending # {}
  BY <1>1 DEF UpsertNodes, Doing, WorkOK
<1>4. PICK i \in Items : i = CHOOSE j \in pending : Before(t, j, pending) = 0
  <2>1. (CHOOSE j \in pending : Before(t, j, pending) = 0) \in pending BY <1>3, FirstOf
  <2>2. QED BY <1>3, <2>1
<1>5. PICK rest \in [Items -> -1..MaxNode] : rest = [work[w].plan EXCEPT ![i] = -1]
  <2>1. work[w].plan \in [Items -> -1..MaxNode] BY <1>1 DEF WorkFrames
  <2>2. -1 \in -1..MaxNode BY BoundAssumption
  <2>3. [work[w].plan EXCEPT ![i] = -1] \in [Items -> -1..MaxNode] BY <2>1, <2>2
  <2>4. QED BY <2>3
<1>6. PICK s \in WorkSteps : s = IF rest = NoPlan THEN "updated" ELSE "write"
  BY DEF WorkSteps
<1>7. /\ nodes' = [nodes EXCEPT ![work[w].plan[i]] = NodeFor(t, i)]
      /\ work' = [work EXCEPT ![w].plan = rest, ![w].step = s]
      /\ written' = written \cup {i}
      /\ overlap' = (overlap \/ OtherPlans(t))
      /\ persisted' = IF rest = NoPlan THEN persisted \cup {t} ELSE persisted
      /\ UNCHANGED <<docs, stats, jobs, queues, req, credit>>
  BY <1>2, <1>4, <1>5, <1>6 DEF UpsertNodes
<1>8. /\ work' \in [Workers -> WorkFrames] /\ work'[w].step = s /\ work'[w].msg = work[w].msg
      /\ work'[w].plan = rest /\ \A v \in Workers \ {w} : work'[v] = work[v]
  <2>1. NoRow \in Rows BY <1>1, RowsTyped
  <2>2. QED BY <1>1, <1>7, <2>1, WorkGoes, PlanGoes
<1>9. nodes' \in [0..MaxNode -> [item : Items \cup {"none"}, at : 0..MaxNow]]
  <2>1. NodeFor(t, i) \in [item : Items \cup {"none"}, at : 0..MaxNow] BY <1>1, NodeTyped
  <2>2. QED BY <1>1, <1>7, <2>1 DEF TypeOK
<1>10. persisted' \subseteq Tasks /\ persisted \subseteq persisted'
       /\ written' \subseteq Items /\ overlap' \in BOOLEAN
  BY <1>1, <1>7 DEF TypeOK
<1>11. TypeOK'
  BY <1>1, <1>7, <1>8, <1>9, <1>10
  DEF TypeOK, docs, jobs, queues, credit, WorkFrames, WorkSteps
<1>12. Grows BY <1>7, <1>10 DEF Grows, Ready, Included, jobs
<1>13. WorkOK(work[w])'
  <2>1. rest # NoPlan => \E j \in Items : rest[j] >= 0
    <3>1. rest # NoPlan => \E j \in Items : rest[j] # -1 BY DEF NoPlan
    <3>2. \A j \in Items : rest[j] \in -1..MaxNode OBVIOUS
    <3>3. MaxNode \in Nat BY BoundAssumption
    <3>4. QED BY <3>1, <3>2, <3>3
  <2>2. work[w].msg \in Messages /\ work[w].msg.task = t
    BY <1>1, <1>2 DEF UpsertNodes, Doing, WorkOK, TaskOf
  <2>3. kind' = kind BY <1>7 DEF jobs
  <2>4. s = "updated" => t \in persisted' BY <1>6, <1>7
  <2>5. QED BY <1>2, <1>6, <1>8, <2>1, <2>2, <2>3, <2>4 DEF WorkOK
<1>14. QED
  BY <1>7, <1>8, <1>11, <1>12, <1>13, WorkMoves DEF queues, credit

-----------------------------------------------------------------------------
(* The theorems.                                                           *)

LEMMA PipelineInit == Init => PipelineInv
<1> SUFFICES ASSUME Init PROVE PipelineInv
  OBVIOUS
<1>1. 0 \in 0..MaxNow /\ 1 \in 0..MaxNow /\ 1 \in 1..MaxNow /\ 0 \in 0..MaxCopies
  BY BoundAssumption
<1>2. NoRow \in Rows BY <1>1 DEF NoRow, Rows, Statuses
<1>3. NoNode \in [item : Items \cup {"none"}, at : 0..MaxNow] BY <1>1 DEF NoNode
<1>4. IdleRequest \in RequestFrames /\ IdleWorker \in WorkFrames
  BY <1>2, EmptyPlan
  DEF IdleRequest, IdleWorker, RequestFrames, RequestSteps, WorkFrames, WorkSteps
<1>5. req \in [Requests -> RequestFrames] /\ work \in [Workers -> WorkFrames]
  BY <1>4 DEF Init
<1>6. TypeOK
  BY <1>1, <1>2, <1>3, <1>5
  DEF Init, Escrow!Init, TypeOK, RequestFrames, RequestSteps, WorkFrames, WorkSteps
<1>7. QueuesOK BY DEF Init, QueuesOK
<1>8. FramesOK
  BY DEF Init, FramesOK, RequestOK, WorkOK, IdleRequest, IdleWorker
<1>9. ChargedForResult BY DEF Init, Escrow!Init, ChargedForResult
<1>10. QED BY <1>6, <1>7, <1>8, <1>9 DEF PipelineInv

LEMMA PipelineNext == PipelineInv /\ [Next]_vars => PipelineInv'
<1> SUFFICES ASSUME PipelineInv, [Next]_vars PROVE PipelineInv'
  OBVIOUS
<1>1. CASE \E i \in Edited : EditDocument(i) BY <1>1, EditStep
<1>2. CASE \E t \in Tasks : ExpireHold(t) BY <1>2, ExpireStep
<1>3. ASSUME NEW p \in Requests, Request(p) PROVE PipelineInv'
  BY <1>3, DeleteStep, BeginStep, WritesStep, SendStep, EndsStep DEF Request
<1>4. CASE \E t \in Tasks, ok \in BOOLEAN : Answer(t, ok) BY <1>4, AnswerStep
<1>5. ASSUME NEW w \in Workers, Handle(w) PROVE PipelineInv'
  BY <1>5, RowStep, SnapshotStep, ListStep, HandlerEnds, QuietEnds, UpsertStep DEF Handle
<1>6. CASE \E m \in results : SummaryFailed(m) BY <1>6, SummaryFails
<1>7. CASE UNCHANGED vars
  BY <1>7 DEF PipelineInv, TypeOK, QueuesOK, FramesOK, ChargedForResult, RequestOK, WorkOK, Ready,
              Included, vars, docs, graph, jobs, queues, credit, history
<1>8. QED BY <1>1, <1>2, <1>3, <1>4, <1>5, <1>6, <1>7 DEF Next

LEMMA PipelineInvariant == Spec => []PipelineInv
BY PipelineInit, PipelineNext, PTL DEF Spec

\* Every variable of the pipeline keeps its type: ids stay in range, a frame is one
\* of its kind and every message in the queue is about a task.
THEOREM PipelineTyped == Spec => []TypeOK
<1>1. PipelineInv => TypeOK BY DEF PipelineInv
<1>2. QED BY <1>1, PipelineInvariant, PTL

\* No order of duplicated, failed and repeated results, crashes and expiries commits
\* a hold of a task whose nodes were never written (the result handlers settle last).
THEOREM ResultsPaid == Spec => []ChargedForResult
<1>1. PipelineInv => ChargedForResult BY DEF PipelineInv
<1>2. QED BY <1>1, PipelineInvariant, PTL

\* What the status row is to whoever is not AddNode once AddNode has it
\* (saveStatsIfStatusIn's compare-and-set).
THEOREM StatusKept == Spec => AddNodeStatusKept
<1> DEFINE Kept == stats.status \in {"UPDATING", "UPDATED"} /\ stats' \notin {stats, NoRow}
                     => \/ req' # req
                        \/ \E w \in Workers : /\ work'[w] # work[w] /\ TaskOf(w) \in Tasks
                                              /\ kind[TaskOf(w)] = "addNode"
<1>1. PipelineInv /\ [Next]_vars => [Kept]_vars
  <2> SUFFICES ASSUME PipelineInv, Next, stats.status \in {"UPDATING", "UPDATED"},
                      stats' \notin {stats, NoRow}, req' = req
               PROVE  \E w \in Workers : /\ work'[w] # work[w] /\ TaskOf(w) \in Tasks
                                         /\ kind[TaskOf(w)] = "addNode"
    OBVIOUS
  <2>1. ASSUME NEW row PROVE ~SaveStatsIfMutable(row)
    BY DEF SaveStatsIfMutable, GRAPH_GENERATION_MUTABLE_STATUSES
  <2>2. PICK w \in Workers : SaveFailed(w) \/ SaveUpdated(w)
    <3>1. ASSUME NEW p \in Requests, Request(p) PROVE FALSE
      <4>1. req[p] \in RequestFrames BY FramesTyped DEF PipelineInv
      <4>2. CASE SaveCreating(p) \/ SaveUpdating(p)
        <5>1. req'[p].step # req[p].step
          <6>1. CASE SaveCreating(p)
            <7>1. GotoRequest(p, "upload") /\ "upload" \in RequestSteps /\ At(p, "creating")
              BY <6>1 DEF SaveCreating, RequestSteps
            <7>2. QED BY <7>1, RequestGoes DEF At, PipelineInv
          <6>2. CASE SaveUpdating(p)
            <7>1. req' = [req EXCEPT ![p] = [req[p] EXCEPT !.step = "send", !.row = NoRow]]
              BY <6>2, FramesTyped DEF SaveUpdating, PipelineInv
            <7>2. [req[p] EXCEPT !.step = "send", !.row = NoRow].step = "send"
              BY <4>1 DEF RequestFrames
            <7>3. QED BY <6>2, <7>1, <7>2, FramesTyped DEF SaveUpdating, At, PipelineInv
          <6>3. QED BY <4>2, <6>1, <6>2
        <5>2. QED BY <5>1
      <4>3. QED
        BY <3>1, <4>2 DEF Request, DeleteNodes, DeleteStats, BeginGeneration, BeginAddNode,
           RequestSummary, Upload, CollectNothing, Collect, Send, FailRequest, RollbackHold,
           CrashRequest, graph
    <3>2. ASSUME NEW w \in Workers, Handle(w) PROVE SaveFailed(w) \/ SaveUpdated(w)
      BY <2>1, <3>2 DEF Handle, ReadStats, PersistSnapshot, ListNodes, SaveSummary, Abandon,
         Release, Commit, Finish, SaveCreated, SummaryCreated, GenerationThrows, UpsertNodes,
         ReadUpdated, AddNodeThrows, AddNodeCatches, graph
    <3>3. QED
      BY <3>1, <3>2 DEF Next, EditDocument, ExpireHold, Answer, SummaryFailed, graph
  <2>3. WorkOK(work[w]) /\ TypeOK BY DEF PipelineInv, FramesOK
  <2>4. work[w].step \in {"failed", "saveUpdated"} /\ kind[TaskOf(w)] = "addNode"
    BY <2>1, <2>2, <2>3 DEF SaveFailed, SaveUpdated, Doing, WorkOK, TaskOf
  <2>5. TaskOf(w) \in Tasks BY <2>3, <2>4 DEF WorkOK, TaskOf, Messages
  <2>6. work'[w].step # work[w].step
    <3>1. NoRow \in Rows /\ {"release", "commit"} \subseteq WorkSteps
      BY <2>3, RowsTyped DEF WorkSteps
    <3>2. CASE SaveFailed(w)
      <4>1. work' = [work EXCEPT ![w].step = "release", ![w].row = NoRow] BY <3>2 DEF SaveFailed
      <4>2. QED BY <2>3, <2>4, <3>1, <4>1, EmptyPlan, WorkGoes
    <3>3. CASE SaveUpdated(w)
      <4>1. work' = [work EXCEPT ![w].step = "commit", ![w].row = NoRow] BY <3>3 DEF SaveUpdated
      <4>2. QED BY <2>3, <2>4, <3>1, <4>1, EmptyPlan, WorkGoes
    <3>4. QED BY <2>2, <3>2, <3>3
  <2>7. QED BY <2>4, <2>5, <2>6
<1>2. QED BY <1>1, PipelineInvariant, PTL DEF Spec, AddNodeStatusKept
-----------------------------------------------------------------------------
(* Documents keep their nodes: the inductive invariant, and the tasks whose *)
(* documents may still be collected.                                       *)

\* The documents of a task that have no node yet.
Unknown(t) == {i \in Included(t) : Known(i) = {}}

\* A plan gives its documents to nodes that are theirs, and the ids after the last
\* one to those without a node, in the order in which they will be written.
PlanFits(f) ==
    /\ \A i \in Items : f.plan[i] >= 0 =>
           i \in Included(f.msg.task) /\ (Known(i) # {} => f.plan[i] \in Known(i))
    /\ \A i \in Unknown(f.msg.task) :
           f.plan[i] = NextNodeId + Before(f.msg.task, i, Unknown(f.msg.task))

NodesInv ==
    /\ \A w \in Workers : work[w].step # "write" => work[w].plan = NoPlan
    /\ ~overlap => /\ \A i \in written : Known(i) # {}
                   /\ \A w \in Workers : work[w].step = "write" => PlanFits(work[w])

\* No one has seen the task yet: its documents may still be collected.
Unseen(t) ==
    /\ sent[t] = 0
    /\ \A m \in results : m.task # t
    /\ \A w \in Workers : work[w].step # "idle" => work[w].msg.task # t

Early == {"creating", "upload", "collect"}
Passive == {"idle", "deleting"}

FreshOK ==
    \A p \in Requests : req[p].step \in Early =>
        /\ Unseen(req[p].task)
        /\ \A q \in Requests : q # p /\ req[q].step \notin Passive => req[q].task # req[p].task

LEMMA FreshStays ==
    ASSUME PipelineInv, TypeOK', FreshOK,
           \A p \in Requests :
               /\ req'[p].step \in Early => req[p].step \in Early
               /\ req'[p].step \notin Passive => /\ req[p].step \notin Passive
                                                 /\ req'[p].task = req[p].task,
           \A t \in Tasks : sent'[t] > 0 => \/ sent[t] > 0
                                            \/ \E q \in Requests : /\ req[q].step \notin Passive \cup Early
                                                                   /\ req[q].task = t,
           \A m \in results' : m \in results \/ sent[m.task] > 0,
           \A w \in Workers : work'[w].step # "idle" =>
               \/ work[w].step # "idle" /\ work'[w].msg = work[w].msg
               \/ work'[w].msg \in results
    PROVE  FreshOK'
<1> SUFFICES ASSUME NEW p \in Requests, req'[p].step \in Early
             PROVE  /\ Unseen(req[p].task)'
                    /\ \A q \in Requests : q # p /\ req'[q].step \notin Passive =>
                                               req'[q].task # req'[p].task
  BY DEF FreshOK
<1>0. req'[p].step \notin Passive BY DEF Early, Passive
<1>1. PICK t : t = req[p].task OBVIOUS
<1>2. req[p].step \in Early /\ req'[p].task = t BY <1>0, <1>1
<1>3. t \in Tasks BY <1>1, <1>2 DEF PipelineInv, FramesOK, RequestOK, Early
<1>4. /\ Unseen(t)
      /\ \A q \in Requests : q # p /\ req[q].step \notin Passive => req[q].task # t
  BY <1>1, <1>2 DEF FreshOK
<1>5. \A q \in Requests : q # p /\ req'[q].step \notin Passive => req'[q].task # req'[p].task
  BY <1>2, <1>4
<1>6. Unseen(t)'
  <2>1. sent'[t] \in Nat /\ ~(sent[t] > 0) BY <1>3, <1>4 DEF Unseen, TypeOK
  <2>2. \A q \in Requests : req[q].step \notin Passive \cup Early => req[q].task # t
    BY <1>2, <1>4 DEF Passive
  <2>3. sent'[t] = 0
    <3>1. ~(sent'[t] > 0) BY <1>3, <2>1, <2>2
    <3>2. QED BY <2>1, <3>1
  <2>4. \A m \in results' : m.task # t BY <1>4, <2>1 DEF Unseen
  <2>5. \A w \in Workers : work'[w].step # "idle" => work'[w].msg.task # t
    BY <1>4 DEF Unseen
  <2>6. QED BY <2>3, <2>4, <2>5 DEF Unseen
<1>7. QED BY <1>1, <1>2, <1>5, <1>6 DEF Unseen

\* A task that begins: nobody has sent, answered or taken up what had no kind.
LEMMA FreshBegins ==
    ASSUME PipelineInv, FreshOK, NEW p \in Requests, NEW t \in Tasks,
           BeginGeneration(p, t) \/ BeginAddNode(p, t) \/ RequestSummary(p, t)
    PROVE  FreshOK'
<1>1. TypeOK BY DEF PipelineInv
<1>2. PICK k \in {"generate", "addNode", "summary"}, s \in RequestSteps, row \in Rows :
         BeginTask(p, t, k, s, row)
  BY <1>1, RowsTyped DEF BeginGeneration, BeginAddNode, RequestSummary, RequestSteps
<1>3. UNCHANGED <<batch, persisted, sent, results, work>>
  BY DEF BeginGeneration, BeginAddNode, RequestSummary, queues, history
<1>4. /\ req'[p] = [step |-> s, task |-> t, row |-> row]
      /\ \A q \in Requests \ {p} : req'[q] = req[q]
  BY <1>2, <1>3, TaskBegins
<1>5. kind[t] = "none" /\ req[p].step = "idle" BY <1>2 DEF BeginTask, At
<1>6. Unseen(t)
  <2>1. sent[t] = 0
    <3>1. sent[t] \in Nat BY <1>1 DEF TypeOK
    <3>2. ~(sent[t] > 0) BY <1>5 DEF PipelineInv, QueuesOK, Ready
    <3>3. QED BY <3>1, <3>2
  <2>2. QED BY <1>5, <2>1 DEF Unseen, PipelineInv, QueuesOK, FramesOK, WorkOK, Ready
<1>7. \A q \in Requests : req[q].step \notin Passive => req[q].task # t
  BY <1>5 DEF PipelineInv, FramesOK, RequestOK, Passive
<1>8. ASSUME NEW q \in Requests, req'[q].step \in Early
      PROVE  /\ Unseen(req[q].task)'
             /\ \A r \in Requests : r # q /\ req'[r].step \notin Passive =>
                                        req'[r].task # req'[q].task
  <2>1. PICK u : u = req'[q].task OBVIOUS
  <2>2. CASE q = p
    <3>1. u = t BY <1>4, <2>1, <2>2
    <3>2. QED BY <1>3, <1>4, <1>6, <1>7, <2>1, <2>2, <3>1 DEF Unseen
  <2>3. CASE q # p
    <3>1. req'[q] = req[q] /\ req[q].step \notin Passive
      BY <1>4, <1>8, <2>3 DEF Early, Passive
    <3>2. Unseen(req[q].task) /\ req[q].task # t BY <1>7, <1>8, <3>1 DEF FreshOK
    <3>3. ASSUME NEW r \in Requests, r # q, req'[r].step \notin Passive
          PROVE  req'[r].task # req'[q].task
      <4>1. CASE r = p BY <1>4, <3>1, <3>2, <4>1
      <4>2. CASE r # p BY <1>4, <1>8, <3>1, <3>3, <4>2 DEF FreshOK
      <4>3. QED BY <4>1, <4>2
    <3>4. QED BY <1>3, <3>1, <3>2, <3>3 DEF Unseen
  <2>4. QED BY <2>2, <2>3
<1>9. QED BY <1>8 DEF FreshOK

\* The requests' other steps.
LEMMA FreshRequests ==
    ASSUME PipelineInv, TypeOK', FreshOK, NEW p \in Requests,
           \/ DeleteNodes(p) \/ DeleteStats(p)
           \/ SaveCreating(p) \/ Upload(p)
           \/ CollectNothing(p) \/ Collect(p) \/ SaveUpdating(p)
           \/ Send(p) \/ FailRequest(p) \/ RollbackHold(p) \/ CrashRequest(p)
    PROVE  FreshOK'
<1>1. TypeOK BY DEF PipelineInv
<1>2. /\ \A q \in Requests \ {p} : req'[q] = req[q]
      /\ req'[p].step \in Early => req[p].step \in Early
      /\ req'[p].step \notin Passive => req[p].step \notin Passive /\ req'[p].task = req[p].task
  <2>1. CASE EndRequest(p)
    <3>1. req' = [req EXCEPT ![p] = IdleRequest] /\ IdleRequest \in RequestFrames
      BY <1>1, <2>1, FramesTyped DEF EndRequest
    <3>2. req'[p] = IdleRequest /\ \A q \in Requests \ {p} : req'[q] = req[q]
      BY <1>1, <3>1, RequestSet
    <3>3. QED BY <3>2 DEF IdleRequest, Early, Passive
  <2>2. CASE SaveUpdating(p)
    <3>1. NoRow \in Rows /\ req[p] \in RequestFrames BY <1>1, RowsTyped, FramesTyped
    <3>2. PICK f : f = [req[p] EXCEPT !.step = "send", !.row = NoRow] OBVIOUS
    <3>3. f \in RequestFrames /\ f.step = "send" /\ f.task = req[p].task
      BY <3>1, <3>2 DEF RequestFrames, RequestSteps
    <3>4. req' = [req EXCEPT ![p] = f]
      BY <1>1, <2>2, <3>2, FramesTyped DEF SaveUpdating
    <3>5. req'[p] = f /\ \A q \in Requests \ {p} : req'[q] = req[q]
      BY <1>1, <3>3, <3>4, RequestSet
    <3>6. QED BY <2>2, <3>3, <3>5 DEF SaveUpdating, At, Early, Passive
  <2>3. CASE \E s \in RequestSteps :
                /\ GotoRequest(p, s)
                /\ s \in Early => req[p].step \in Early
                /\ s \notin Passive => req[p].step \notin Passive
    BY <1>1, <2>3, RequestGoes
  <2>4. QED
    BY <2>1, <2>2, <2>3
    DEF DeleteNodes, DeleteStats, SaveCreating, Upload, CollectNothing, Collect, Send,
        FailRequest, RollbackHold, CrashRequest, At, Early, Passive, RequestSteps
<1>3. results' = results /\ work' = work
  BY DEF DeleteNodes, DeleteStats, ClearNodes, SaveCreating, Upload, CollectNothing, Collect,
         SaveUpdating, Send, FailRequest, RollbackHold, CrashRequest, queues
<1>4. ASSUME NEW t \in Tasks, sent'[t] > 0, ~(sent[t] > 0)
      PROVE  \E q \in Requests : req[q].step \notin Passive \cup Early /\ req[q].task = t
  <2>1. CASE sent' = sent BY <1>4, <2>1
  <2>2. CASE Send(p) \/ FailRequest(p)
    <3>1. PICK n : sent' = [sent EXCEPT ![req[p].task] = n] \/ sent' = sent
      BY <2>2 DEF Send, FailRequest
    <3>2. sent' # sent BY <1>4
    <3>3. req[p].step = "send" BY <2>2, <3>2 DEF Send, FailRequest, At
    <3>4. req[p].task = t BY <1>1, <1>4, <3>1 DEF TypeOK
    <3>5. QED BY <3>3, <3>4 DEF Passive, Early
  <2>3. QED
    BY <2>1, <2>2
    DEF DeleteNodes, DeleteStats, ClearNodes, SaveCreating, Upload, CollectNothing, Collect,
        SaveUpdating, RollbackHold, CrashRequest, queues
<1>5. \A q \in Requests :
          /\ req'[q].step \in Early => req[q].step \in Early
          /\ req'[q].step \notin Passive => /\ req[q].step \notin Passive
                                            /\ req'[q].task = req[q].task
  BY <1>2
<1>6. QED BY <1>3, <1>4, <1>5, FreshStays

\* A handler takes up messages of the queue and keeps the one it has.
LEMMA FreshHandlers ==
    ASSUME PipelineInv, TypeOK', FreshOK, NEW w \in Workers, UNCHANGED <<sent, req>>,
           results' \subseteq results, \A v \in Workers \ {w} : work'[v] = work[v],
           \/ work'[w].step = "idle"
           \/ work[w].step # "idle" /\ work'[w].msg = work[w].msg
           \/ work'[w].msg \in results
    PROVE  FreshOK'
<1>1. \A v \in Workers : work'[v].step # "idle" =>
          \/ work[v].step # "idle" /\ work'[v].msg = work[v].msg
          \/ work'[v].msg \in results
  OBVIOUS
<1>2. QED BY <1>1, FreshStays

\* A frame that moves on keeps its plan, and one that begins without has none.
LEMMA PlanStays ==
    ASSUME TypeOK, NEW w \in Workers, NEW s \in WorkSteps, NEW row \in Rows,
           \/ work' = [work EXCEPT ![w].step = s]
           \/ work' = [work EXCEPT ![w].step = s, ![w].row = row]
    PROVE  work'[w].plan = work[w].plan
<1>1. work[w] \in WorkFrames /\ work \in [Workers -> WorkFrames] BY FramesTyped
<1>2. PICK f : f = [work[w] EXCEPT !.step = s] OBVIOUS
<1>3. PICK g : g = [work[w] EXCEPT !.step = s, !.row = row] OBVIOUS
<1>4. f \in WorkFrames /\ g \in WorkFrames /\ f.plan = work[w].plan /\ g.plan = work[w].plan
  BY <1>1, <1>2, <1>3 DEF WorkFrames
<1>5. work' = [work EXCEPT ![w] = f] \/ work' = [work EXCEPT ![w] = g]
  BY <1>1, <1>2, <1>3
<1>6. QED BY <1>4, <1>5, WorkSet

LEMMA NoPlanBegins ==
    ASSUME TypeOK, NEW w \in Workers, NEW m \in Messages, NEW s \in WorkSteps, NEW row \in Rows,
           \/ work' = [work EXCEPT ![w] = [IdleWorker EXCEPT !.step = s, !.msg = m]]
           \/ work' = [work EXCEPT ![w] = [IdleWorker EXCEPT !.step = s, !.msg = m, !.row = row]]
    PROVE  work'[w].plan = NoPlan
<1>1. IdleWorker \in WorkFrames /\ IdleWorker.plan = NoPlan BY FramesTyped DEF IdleWorker
<1> HIDE DEF IdleWorker
<1>2. PICK f : f = [IdleWorker EXCEPT !.step = s, !.msg = m] OBVIOUS
<1>3. PICK g : g = [IdleWorker EXCEPT !.step = s, !.msg = m, !.row = row] OBVIOUS
<1>4. f \in WorkFrames /\ g \in WorkFrames /\ f.plan = NoPlan /\ g.plan = NoPlan
  BY <1>1, <1>2, <1>3 DEF WorkFrames
<1>5. work' = [work EXCEPT ![w] = f] \/ work' = [work EXCEPT ![w] = g]
  BY <1>2, <1>3
<1>6. QED BY <1>4, <1>5, WorkSet

\* What becomes of a handler that neither lists nor writes nodes.
Calm(w) ==
    /\ UNCHANGED <<nodes, batch, written, overlap, sent, req>>
    /\ results' \subseteq results
    /\ \A v \in Workers \ {w} : work'[v] = work[v]
    /\ work'[w].step # "write"
    /\ \/ work'[w].step = "idle" /\ work'[w].plan = NoPlan
       \/ work[w].step \notin {"idle", "write"} /\ work'[w].msg = work[w].msg
          /\ work'[w].plan = work[w].plan
       \/ work'[w].msg \in results /\ work'[w].plan = NoPlan

LEMMA CalmHandlers ==
    ASSUME PipelineInv, NEW w \in Workers,
           \/ \E m \in results : ReadStats(w, m) \/ SaveSummary(w, m)
           \/ Abandon(w) \/ SaveFailed(w) \/ Release(w) \/ Commit(w)
           \/ SaveCreated(w) \/ SummaryCreated(w) \/ GenerationThrows(w)
           \/ ReadUpdated(w) \/ SaveUpdated(w)
           \/ \E t \in Tasks : AddNodeThrows(w, t)
    PROVE  Calm(w)
<1>1. TypeOK BY DEF PipelineInv
<1>2. UNCHANGED <<nodes, batch, written, overlap, sent, req>> /\ results' \subseteq results
  BY DEF ReadStats, SaveSummary, Abandon, SaveFailed, Release, Commit, Finish, SaveCreated,
         SummaryCreated, GenerationThrows, ReadUpdated, SaveUpdated, AddNodeThrows,
         AddNodeCatches, docs, graph, jobs, queues, history
<1>3. CASE EndWork(w)
  <2>1. work' = [work EXCEPT ![w] = IdleWorker] /\ IdleWorker \in WorkFrames
    BY <1>1, <1>3, FramesTyped DEF EndWork
  <2>2. work'[w] = IdleWorker /\ \A v \in Workers \ {w} : work'[v] = work[v]
    BY <1>1, <2>1, WorkSet
  <2>3. QED BY <1>2, <2>2 DEF Calm, IdleWorker
<1>4. CASE \E m \in results : ReadStats(w, m) \/ SaveSummary(w, m)
  <2>1. PICK m \in results : ReadStats(w, m) \/ SaveSummary(w, m) BY <1>4
  <2>2. m \in Messages /\ StatsRead \in Rows /\ "failed" \in WorkSteps /\ "created" \in WorkSteps
    BY <1>1, RowsTyped DEF TypeOK, WorkSteps
  <2>3. PICK row \in Rows : row = StatsRead BY <2>2
  <2>4. PICK s \in WorkSteps :
          /\ s \in {"failed", "created"}
          /\ \/ work' = [work EXCEPT ![w] = [IdleWorker EXCEPT !.step = s, !.msg = m]]
             \/ work' = [work EXCEPT ![w] = [IdleWorker EXCEPT !.step = s, !.msg = m,
                                                               !.row = row]]
    BY <2>1, <2>2, <2>3 DEF ReadStats, SaveSummary, Take
  <2>5. /\ work'[w].step = s /\ work'[w].msg = m
        /\ \A v \in Workers \ {w} : work'[v] = work[v]
    <3>1. IdleWorker \in WorkFrames BY <1>1, FramesTyped
    <3> HIDE DEF IdleWorker
    <3>2. PICK f : f = [IdleWorker EXCEPT !.step = s, !.msg = m] OBVIOUS
    <3>3. PICK g : g = [IdleWorker EXCEPT !.step = s, !.msg = m, !.row = row] OBVIOUS
    <3>4. f \in WorkFrames /\ g \in WorkFrames /\ f.step = s /\ g.step = s /\ f.msg = m /\ g.msg = m
      BY <2>2, <2>3, <3>1, <3>2, <3>3 DEF WorkFrames
    <3>5. work' = [work EXCEPT ![w] = f] \/ work' = [work EXCEPT ![w] = g]
      BY <2>4, <3>2, <3>3
    <3>6. QED BY <1>1, <3>4, <3>5, WorkSet
  <2>6. work'[w].plan = NoPlan BY <1>1, <2>2, <2>4, NoPlanBegins
  <2>7. QED BY <1>2, <2>1, <2>4, <2>5, <2>6 DEF Calm
<1>5. CASE SaveFailed(w) \/ SaveCreated(w) \/ ReadUpdated(w) \/ SaveUpdated(w)
  <2>1. NoRow \in Rows /\ StatsRead \in Rows BY <1>1, RowsTyped
  <2>2. PICK s \in {"release", "commit", "saveUpdated"}, row \in Rows :
          \/ work' = [work EXCEPT ![w].step = s]
          \/ work' = [work EXCEPT ![w].step = s, ![w].row = row]
    BY <1>5, <2>1 DEF SaveFailed, SaveCreated, ReadUpdated, SaveUpdated
  <2>3. s \in WorkSteps BY DEF WorkSteps
  <2>4. /\ work'[w].step = s /\ work'[w].msg = work[w].msg
        /\ \A v \in Workers \ {w} : work'[v] = work[v]
    BY <1>1, <2>2, <2>3, WorkGoes, EmptyPlan
  <2>5. work'[w].plan = work[w].plan BY <1>1, <2>2, <2>3, PlanStays
  <2>6. work[w].step \notin {"idle", "write"}
    BY <1>5 DEF SaveFailed, SaveCreated, ReadUpdated, SaveUpdated, Doing
  <2>7. QED BY <1>2, <2>4, <2>5, <2>6 DEF Calm
<1>6. QED
  BY <1>3, <1>4, <1>5
  DEF Abandon, Release, Commit, Finish, SummaryCreated, GenerationThrows, AddNodeThrows,
      AddNodeCatches, Take, EndWork

-----------------------------------------------------------------------------
(* Plans that fit.                                                         *)

LEMMA WritersPlan ==
    ASSUME PipelineInv, NEW w \in Workers, work[w].step = "write"
    PROVE  Planning(w) /\ work[w].msg \in Messages /\ TaskOf(w) \in Tasks
           /\ TaskOf(w) = work[w].msg.task /\ kind[TaskOf(w)] = "addNode"
BY DEF PipelineInv, FramesOK, WorkOK, Planning, NoPlan, TaskOf, Messages

\* Steps that leave the nodes, and the documents of who is writing.
LEMMA NodesCalm ==
    ASSUME PipelineInv, NodesInv, UNCHANGED <<nodes, written, overlap>>,
           \A w \in Workers : \/ work'[w] = work[w]
                              \/ work'[w].step # "write" /\ work'[w].plan = NoPlan,
           \A w \in Workers : work[w].step = "write" => batch'[TaskOf(w)] = batch[TaskOf(w)]
    PROVE  NodesInv'
<1>1. ASSUME NEW w \in Workers, ~overlap, work'[w].step = "write" PROVE PlanFits(work[w])'
  <2>1. PICK f : f = work[w] OBVIOUS
  <2>2. work'[w] = f /\ PlanFits(f) BY <1>1, <2>1 DEF NodesInv
  <2>3. Included(f.msg.task)' = Included(f.msg.task)
    BY <1>1, <2>1, <2>2 DEF Included, TaskOf
  <2>4. \A i \in Items : Known(i)' = Known(i) BY DEF Known, Used
  <2>5. NextNodeId' = NextNodeId BY DEF NextNodeId, Used
  <2>6. Unknown(f.msg.task)' = Unknown(f.msg.task)
    BY <2>3, <2>4 DEF Unknown, Included
  <2>7. PlanFits(f)' BY <2>2, <2>3, <2>4, <2>5, <2>6 DEF PlanFits
  <2>8. QED BY <2>2, <2>7 DEF PlanFits
<1>2. \A i \in Items : Known(i)' = Known(i) BY DEF Known, Used
<1>3. written \subseteq Items BY DEF PipelineInv, TypeOK
<1>4. QED BY <1>1, <1>2, <1>3 DEF NodesInv

\* The graph is deleted: no plan is open, or it counts as an overlap.
LEMMA NodesCleared ==
    ASSUME PipelineInv, NodesInv, ClearNodes
    PROVE  NodesInv'
<1>1. work' = work /\ written' = {} BY DEF ClearNodes
<1>2. ~overlap' => \A w \in Workers : work[w].step # "write"
  BY WritersPlan DEF ClearNodes
<1>3. QED BY <1>1, <1>2 DEF NodesInv

\* The largest of a set of ids, by its bound.
LEMMA MaxIs ==
    ASSUME NEW n \in Nat, NEW S \in SUBSET (0..n), NEW x \in S, \A y \in S : y <= x
    PROVE  Max(S) = x
<1>1. Max(S) \in S /\ Max(S) >= x BY MaxOf
<1>2. \A y \in S : y \in Int OBVIOUS
<1>3. PICK y : y = Max(S) OBVIOUS
<1>4. y \in S /\ y >= x BY <1>1, <1>3
<1>5. y <= x /\ x \in Int /\ y \in Int BY <1>2, <1>4
<1>6. y = x BY <1>4, <1>5
<1>7. QED BY <1>3, <1>6

\* The document that is written next is before every other one of its plan.
LEMMA FirstIsFirst ==
    ASSUME NEW t \in Tasks, NEW S \in SUBSET Items, S # {},
           NEW i, i = CHOOSE j \in S : Before(t, j, S) = 0
    PROVE  i \in S /\ \A j \in S : j # i => Rank[t][i] < Rank[t][j]
<1>1. \A j \in S : Rank[t][j] \in Nat BY RankAssumption
<1> DEFINE R == {Rank[t][j] : j \in S}
<1>2. PICK r \in R : \A q \in R : r <= q
  <2>1. R \in SUBSET Nat /\ R # {} BY <1>1
  <2>2. QED BY <2>1, SmallestOf
<1>3. PICK k \in S : r = Rank[t][k] BY <1>2
<1>4. {j \in S : Rank[t][j] < Rank[t][k]} = {}
  <2>1. \A j \in S : Rank[t][k] <= Rank[t][j] BY <1>2, <1>3
  <2>2. QED BY <1>1, <2>1
<1>5. Before(t, k, S) = 0 BY <1>4, FS_EmptySet DEF Before
<1>6. i \in S /\ Before(t, i, S) = 0 BY <1>5
<1>7. {j \in S : Rank[t][j] < Rank[t][i]} = {}
  <2>1. IsFiniteSet({j \in S : Rank[t][j] < Rank[t][i]}) BY ItemsAssumption, FS_Subset
  <2>2. QED BY <1>6, <2>1, FS_EmptySet DEF Before
<1>8. \A j \in S : j # i => Rank[t][i] < Rank[t][j]
  <2> SUFFICES ASSUME NEW j \in S, j # i PROVE Rank[t][i] < Rank[t][j]
    OBVIOUS
  <2>1. ~(Rank[t][j] < Rank[t][i]) BY <1>7
  <2>2. Rank[t][j] # Rank[t][i] BY <1>6, RankAssumption
  <2>3. QED BY <1>1, <1>6, <2>1, <2>2
<1>9. QED BY <1>6, <1>8

\* A set without its first document: the others each come one place earlier.
LEMMA BeforeWithout ==
    ASSUME NEW t \in Tasks, NEW S \in SUBSET Items, NEW i \in S, NEW j \in S, j # i,
           Rank[t][i] < Rank[t][j]
    PROVE  Before(t, j, S) = 1 + Before(t, j, S \ {i})
<1>1. PICK A : A = {k \in S : Rank[t][k] < Rank[t][j]} OBVIOUS
<1>2. IsFiniteSet(A) /\ i \in A BY <1>1, ItemsAssumption, FS_Subset
<1>3. {k \in S \ {i} : Rank[t][k] < Rank[t][j]} = A \ {i} BY <1>1
<1>4. Cardinality(A \ {i}) = Cardinality(A) - 1 /\ Cardinality(A) \in Nat
  BY <1>2, FS_RemoveElement, FS_CardinalityType
<1>5. Before(t, j, S) = Cardinality(A) BY <1>1 DEF Before
<1>6. Before(t, j, S \ {i}) = Cardinality(A \ {i})
  <2>1. Before(t, j, S \ {i}) = Cardinality({k \in S \ {i} : Rank[t][k] < Rank[t][j]})
    BY DEF Before
  <2>2. QED BY <1>3, <2>1
<1>7. QED BY <1>4, <1>5, <1>6

LEMMA BeforeFirst ==
    ASSUME NEW t \in Tasks, NEW S \in SUBSET Items, NEW i \in S,
           \A j \in S : j # i => Rank[t][i] < Rank[t][j]
    PROVE  Before(t, i, S) = 0
<1>1. \A j \in S : Rank[t][j] \in Nat BY RankAssumption
<1>2. {j \in S : Rank[t][j] < Rank[t][i]} = {} BY <1>1
<1>3. QED BY <1>2, FS_EmptySet DEF Before

\* Two documents of a set are not at the same place.
LEMMA BeforeDiffers ==
    ASSUME NEW t \in Tasks, NEW S \in SUBSET Items, NEW i \in S, NEW j \in S,
           Before(t, i, S) = Before(t, j, S)
    PROVE  i = j
<1>1. \A k \in S : Rank[t][k] \in Nat BY RankAssumption
<1>2. ASSUME NEW x \in S, NEW y \in S, Rank[t][x] < Rank[t][y]
      PROVE  Before(t, x, S) < Before(t, y, S)
  <2>1. PICK A : A = {k \in S : Rank[t][k] < Rank[t][x]} OBVIOUS
  <2>2. PICK B : B = {k \in S : Rank[t][k] < Rank[t][y]} OBVIOUS
  <2>3. A \subseteq B /\ x \in B /\ x \notin A
    BY <1>1, <1>2, <2>1, <2>2
  <2>4. IsFiniteSet(B) BY <2>2, ItemsAssumption, FS_Subset
  <2>5. A # B BY <2>3
  <2>6. Cardinality(A) < Cardinality(B)
    <3>1. /\ IsFiniteSet(A) /\ Cardinality(A) <= Cardinality(B)
          /\ Cardinality(B) # Cardinality(A)
      <4>1. A \in SUBSET B BY <2>3
      <4>2. QED BY <2>4, <2>5, <4>1, FS_Subset
    <3>2. Cardinality(A) \in Nat /\ Cardinality(B) \in Nat BY <2>4, <3>1, FS_CardinalityType
    <3>3. QED BY <3>1, <3>2
  <2>7. QED BY <2>1, <2>2, <2>6 DEF Before
<1>3. Before(t, i, S) \in Nat /\ Before(t, j, S) \in Nat BY BeforeType
<1>4. ~(Rank[t][i] < Rank[t][j]) /\ ~(Rank[t][j] < Rank[t][i])
  BY <1>2, <1>3
<1>5. Rank[t][i] = Rank[t][j] BY <1>1, <1>4
<1>6. QED BY <1>5, RankAssumption

\* A snapshot gives every document of its task a node of its own; unless that counts
\* as an overlap, no plan is open and nothing else was in the graph.
LEMMA NodesSnapshot ==
    ASSUME PipelineInv, NodesInv, NEW w \in Workers, NEW m \in results, PersistSnapshot(w, m)
    PROVE  NodesInv'
<1>1. TypeOK BY DEF PipelineInv
<1>2. m \in Messages /\ m.task \in Tasks BY <1>1 DEF TypeOK, Messages
<1>3. PICK t \in Tasks : t = m.task BY <1>2
<1>4. PICK S \in SUBSET Items : S = Included(t) BY DEF Included
<1>5. /\ work' = [work EXCEPT ![w] = [IdleWorker EXCEPT !.step = "created", !.msg = m]]
      /\ kind[t] = "generate"
      /\ overlap' = (overlap \/ OtherPlans(t) \/ ~(written \subseteq S))
      /\ written' = written \cup S
      /\ \A i \in S : Before(t, i, S) <= MaxNode
      /\ nodes' = [n \in 0..MaxNode |->
                     IF \E i \in S : Before(t, i, S) = n
                     THEN NodeFor(t, CHOOSE i \in S : Before(t, i, S) = n)
                     ELSE nodes[n]]
  BY <1>3, <1>4 DEF PersistSnapshot, Take
<1>6. NoRow \in Rows /\ "created" \in WorkSteps BY <1>1, RowsTyped DEF WorkSteps
<1>7. work'[w].step = "created" /\ \A v \in Workers \ {w} : work'[v] = work[v]
  BY <1>1, <1>2, <1>5, <1>6, EmptyPlan, WorkBegins
<1>8. work'[w].plan = NoPlan BY <1>1, <1>2, <1>5, <1>6, NoPlanBegins
<1>9. ASSUME ~overlap' PROVE \A v \in Workers : work'[v].step # "write"
  <2>1. ASSUME NEW v \in Workers, v # w, work[v].step = "write" PROVE FALSE
    <3>1. Planning(v) /\ TaskOf(v) \in Tasks /\ kind[TaskOf(v)] = "addNode"
      BY <2>1, WritersPlan
    <3>2. TaskOf(v) # t BY <1>5, <3>1
    <3>3. OtherPlans(t) BY <3>1, <3>2 DEF OtherPlans
    <3>4. QED BY <1>5, <1>9, <3>3
  <2>2. QED BY <1>7, <2>1
<1>10. ASSUME ~overlap', NEW i \in written' PROVE Known(i)' # {}
  <2>1. i \in S BY <1>5, <1>10
  <2>2. PICK n : n = Before(t, i, S) OBVIOUS
  <2>3. n \in 0..MaxNode
    <3>1. n \in Nat /\ n <= MaxNode BY <1>5, <2>1, <2>2, BeforeType
    <3>2. QED BY <3>1, BoundAssumption
  <2>4. (CHOOSE j \in S : Before(t, j, S) = n) = i
    <3>1. PICK j : j = CHOOSE k \in S : Before(t, k, S) = n OBVIOUS
    <3>2. j \in S /\ Before(t, j, S) = n BY <2>1, <2>2, <3>1
    <3>3. QED BY <2>1, <2>2, <3>1, <3>2, BeforeDiffers
  <2>5. nodes'[n] = NodeFor(t, i) BY <1>5, <2>1, <2>2, <2>3, <2>4
  <2>6. NodeFor(t, i).item = i /\ NodeFor(t, i) # NoNode
    <3>1. batch[t][i] > 0 BY <1>4, <2>1 DEF Included
    <3>2. NodeFor(t, i).at > 0 BY <3>1 DEF NodeFor
    <3>3. NoNode.at = 0 BY DEF NoNode
    <3>4. NodeFor(t, i) # NoNode BY <3>2, <3>3
    <3>5. QED BY <3>4 DEF NodeFor
  <2>7. QED BY <2>3, <2>5, <2>6 DEF Known, Used
<1>11. ASSUME NEW v \in Workers, work'[v].step # "write" PROVE work'[v].plan = NoPlan
  BY <1>7, <1>8, <1>11 DEF NodesInv
<1>12. QED BY <1>9, <1>10, <1>11 DEF NodesInv

\* A plan that is made now fits.
LEMMA NodesListed ==
    ASSUME PipelineInv, NodesInv, NEW w \in Workers, NEW m \in results, ListNodes(w, m)
    PROVE  NodesInv'
<1>1. TypeOK BY DEF PipelineInv
<1>2. m \in Messages /\ m.task \in Tasks BY <1>1 DEF TypeOK, Messages
<1>3. PICK t \in Tasks : t = m.task BY <1>2
<1>4. UNCHANGED <<nodes, batch, written, overlap>>
  BY DEF ListNodes, graph, jobs, history
<1>5. Unknown(t) = {i \in Included(t) : Known(i) = {}} BY DEF Unknown
<1>6. PICK plan : plan = [i \in Items |->
              IF i \notin Included(t) THEN -1
              ELSE IF i \in Unknown(t) THEN NextNodeId + Before(t, i, Unknown(t))
              ELSE Max(Known(i))]
  OBVIOUS
<1>7. /\ work' = [work EXCEPT ![w] = [IdleWorker EXCEPT !.step = "write", !.msg = m,
                                                        !.plan = plan]]
      /\ \A i \in Items : plan[i] <= MaxNode
  BY <1>3, <1>5, <1>6 DEF ListNodes, Take
<1>8. MaxNode \in Nat BY BoundAssumption
<1>9. \A i \in Items : Known(i) \in SUBSET (0..MaxNode)
  BY DEF Known, Used
<1>10. \A i \in Items : Known(i) # {} => Max(Known(i)) \in Known(i)
  BY <1>8, <1>9, MaxOf
<1>11. Unknown(t) \in SUBSET Items /\ Included(t) \in SUBSET Items
  BY DEF Unknown, Included
<1>12. plan \in [Items -> -1..MaxNode]
  <2>1. ASSUME NEW i \in Items PROVE plan[i] \in -1..MaxNode
    <3>1. CASE i \notin Included(t) BY <1>6, <1>8, <3>1
    <3>2. CASE i \in Unknown(t)
      <4>1. plan[i] = NextNodeId + Before(t, i, Unknown(t)) BY <1>6, <3>2 DEF Unknown
      <4>2. NextNodeId \in Nat /\ Before(t, i, Unknown(t)) \in Nat
        BY <1>1, <1>11, UsedIds, BeforeType
      <4>3. plan[i] <= MaxNode BY <1>7
      <4>4. QED BY <1>8, <4>1, <4>2, <4>3
    <3>3. CASE i \in Included(t) /\ i \notin Unknown(t)
      <4>1. plan[i] = Max(Known(i)) /\ Known(i) # {} BY <1>6, <3>3 DEF Unknown
      <4>2. QED BY <1>8, <1>9, <1>10, <4>1
    <3>4. QED BY <3>1, <3>2, <3>3
  <2>2. QED BY <1>6, <2>1
<1>13. /\ work'[w].step = "write" /\ work'[w].msg = m /\ work'[w].plan = plan
       /\ \A v \in Workers \ {w} : work'[v] = work[v]
  <2>1. "write" \in WorkSteps /\ NoRow \in Rows BY <1>1, RowsTyped DEF WorkSteps
  <2>2. QED BY <1>1, <1>2, <1>7, <1>12, <2>1, WorkBegins, PlanBegins
<1>14. /\ \A i \in Items : Known(i)' = Known(i)
       /\ \A u \in Tasks : Included(u)' = Included(u) /\ Unknown(u)' = Unknown(u)
       /\ NextNodeId' = NextNodeId
  BY <1>4 DEF Known, Used, Included, Unknown, NextNodeId
<1>15. ASSUME NEW f, f.plan = plan, f.msg = m PROVE PlanFits(f)'
  <2>1. ASSUME NEW i \in Items, plan[i] >= 0
        PROVE  i \in Included(t) /\ (Known(i) # {} => plan[i] \in Known(i))
    <3>1. i \in Included(t) BY <1>6, <2>1
    <3>2. Known(i) # {} => plan[i] = Max(Known(i)) BY <1>6, <3>1 DEF Unknown
    <3>3. QED BY <1>10, <3>1, <3>2
  <2>2. ASSUME NEW i \in Unknown(t)
        PROVE  plan[i] = NextNodeId + Before(t, i, Unknown(t))
    BY <1>6, <1>11, <2>2 DEF Unknown
  <2>3. QED BY <1>3, <1>14, <1>15, <2>1, <2>2 DEF PlanFits
<1>16. ASSUME NEW v \in Workers, ~overlap, work'[v].step = "write" PROVE PlanFits(work[v])'
  <2>1. PICK f : f = work'[v] OBVIOUS
  <2>2. PlanFits(f)'
    <3>1. CASE v = w BY <1>13, <1>15, <2>1, <3>1
    <3>2. CASE v # w
      <4>1. f = work[v] /\ PlanFits(f) /\ f.msg.task \in Tasks
        BY <1>13, <1>16, <2>1, <3>2, WritersPlan DEF NodesInv
      <4>2. QED BY <1>14, <4>1 DEF PlanFits
    <3>3. QED BY <3>1, <3>2
  <2>3. QED BY <2>1, <2>2 DEF PlanFits
<1>17. written \subseteq Items BY <1>1 DEF TypeOK
<1>18. QED BY <1>4, <1>13, <1>14, <1>16, <1>17 DEF NodesInv

\* A node of a known document is written again: nobody's node changes.
LEMMA NodeRewritten ==
    ASSUME TypeOK, NEW t \in Tasks, NEW i \in Included(t), NEW n \in Known(i),
           nodes' = [nodes EXCEPT ![n] = NodeFor(t, i)]
    PROVE  Used' = Used /\ \A j \in Items : Known(j)' = Known(j)
<1>1. n \in 0..MaxNode /\ nodes[n].item = i /\ nodes[n] # NoNode BY DEF Known, Used
<1>2. NodeFor(t, i).item = i /\ NodeFor(t, i) # NoNode
  <2>1. batch[t][i] > 0 BY DEF Included
  <2>2. NodeFor(t, i).at > 0 /\ NoNode.at = 0 BY <2>1 DEF NodeFor, NoNode
  <2>3. QED BY <2>2 DEF NodeFor
<1>3. PICK f : f = NodeFor(t, i) OBVIOUS
<1>4. \A k \in 0..MaxNode : nodes'[k] = IF k = n THEN f ELSE nodes[k]
  BY <1>1, <1>3 DEF TypeOK
<1>5. Used' = Used BY <1>1, <1>2, <1>3, <1>4 DEF Used
<1>6. \A k \in 0..MaxNode : nodes'[k].item = nodes[k].item BY <1>1, <1>2, <1>3, <1>4
<1>7. QED BY <1>5, <1>6 DEF Known, Used

\* The next id is free, and a new node there belongs to its document alone.
LEMMA NodeAdded ==
    ASSUME TypeOK, NEW t \in Tasks, NEW i \in Included(t), Known(i) = {}, NEW n \in 0..MaxNode,
           n = NextNodeId, nodes' = [nodes EXCEPT ![n] = NodeFor(t, i)]
    PROVE  /\ Known(i)' = {n} /\ \A j \in Items \ {i} : Known(j)' = Known(j)
           /\ NextNodeId' = n + 1
<1>0. MaxNode \in Nat BY BoundAssumption
<1>1. Used \in SUBSET (0..MaxNode) BY DEF Used
<1>2. \A k \in Used : k < n
  <2>1. Used # {} => Max(Used) \in Used /\ \A k \in Used : Max(Used) >= k
    BY <1>0, <1>1, MaxOf
  <2>2. PICK x : x = Max(Used) OBVIOUS
  <2>3. ASSUME NEW k \in Used PROVE k < n
    <3>1. x \in Used /\ x >= k /\ n = x + 1 BY <2>1, <2>2, <2>3 DEF NextNodeId
    <3>2. x \in Int /\ k \in Int BY <1>1, <3>1
    <3>3. QED BY <3>1, <3>2
  <2>4. QED BY <2>3
<1>3. n \notin Used BY <1>2
<1>4. NodeFor(t, i).item = i /\ NodeFor(t, i) # NoNode
  <2>1. batch[t][i] > 0 BY DEF Included
  <2>2. NodeFor(t, i).at > 0 /\ NoNode.at = 0 BY <2>1 DEF NodeFor, NoNode
  <2>3. QED BY <2>2 DEF NodeFor
<1>5. PICK f : f = NodeFor(t, i) OBVIOUS
<1>6. \A k \in 0..MaxNode : nodes'[k] = IF k = n THEN f ELSE nodes[k]
  BY <1>5 DEF TypeOK
<1>7. Used' = Used \cup {n} BY <1>4, <1>5, <1>6 DEF Used
<1>8. Known(i)' = {n}
  <2>1. \A k \in Used : nodes[k].item # i BY DEF Known
  <2>2. QED BY <1>1, <1>3, <1>4, <1>5, <1>6, <1>7, <2>1 DEF Known
<1>9. ASSUME NEW j \in Items \ {i} PROVE Known(j)' = Known(j)
  BY <1>1, <1>3, <1>4, <1>5, <1>6, <1>7 DEF Known
<1>10. NextNodeId' = n + 1
  <2>1. PICK U \in SUBSET (0..MaxNode) : U = Used'
    BY <1>1, <1>7
  <2>2. n \in U /\ \A y \in U : y <= n BY <1>1, <1>2, <1>7, <2>1
  <2>3. Max(U) = n BY <1>0, <2>2, MaxIs
  <2>4. QED BY <2>1, <2>2, <2>3 DEF NextNodeId
<1>11. QED BY <1>8, <1>9, <1>10

\* A frame that goes on with the same message, and that may have written a document.
Follows(f, g, i) ==
    /\ g.msg = f.msg
    /\ \A j \in Items : g.plan[j] = f.plan[j] \/ (j = i /\ g.plan[j] = -1)

\* A plan goes on fitting when a document's node is rewritten.
LEMMA PlanOutlastsRewriting ==
    ASSUME NEW i \in Items, Known(i) # {}, NEW f, NEW g, PlanFits(f), Follows(f, g, i),
           UNCHANGED batch, Used' = Used, \A j \in Items : Known(j)' = Known(j)
    PROVE  PlanFits(g)'
<1>1. PICK t : t = f.msg.task OBVIOUS
<1>2. /\ Included(t)' = Included(t) /\ NextNodeId' = NextNodeId
      /\ Unknown(t)' = Unknown(t)
  BY DEF Included, NextNodeId, Unknown
<1>3. g.msg.task = t BY <1>1 DEF Follows
<1>4. \A j \in Unknown(t) : g.plan[j] = f.plan[j] BY DEF Unknown, Included, Follows
<1>5. \A j \in Items : g.plan[j] >= 0 => g.plan[j] = f.plan[j] BY DEF Follows
<1>6. QED BY <1>1, <1>2, <1>3, <1>4, <1>5 DEF PlanFits

\* A plan goes on fitting when the first of the task's new documents gets its node.
LEMMA PlanOutlastsAdding ==
    ASSUME NEW t \in Tasks, NEW i \in Unknown(t), NEW f, NEW g, PlanFits(f), Follows(f, g, i),
           f.msg.task = t, UNCHANGED batch, NextNodeId \in Nat,
           \A j \in Unknown(t) : j # i => Rank[t][i] < Rank[t][j],
           Known(i)' = {NextNodeId}, \A j \in Items \ {i} : Known(j)' = Known(j),
           NextNodeId' = NextNodeId + 1
    PROVE  PlanFits(g)'
<1>1. Unknown(t) \in SUBSET Items /\ Included(t)' = Included(t) BY DEF Unknown, Included
<1>2. PICK S \in SUBSET Items : S = Unknown(t) BY <1>1
<1>3. Unknown(t)' = S \ {i} BY <1>1, <1>2 DEF Unknown, Included
<1>4. PICK n \in Nat : n = NextNodeId OBVIOUS
<1>5. f.plan[i] = n
  <2>1. Before(t, i, S) = 0 BY <1>2, BeforeFirst
  <2>2. f.plan[i] = n + Before(t, i, S) BY <1>2, <1>4 DEF PlanFits
  <2>3. QED BY <1>4, <2>1, <2>2
<1>6. ASSUME NEW j \in Items, g.plan[j] >= 0
      PROVE  j \in Included(t)' /\ (Known(j)' # {} => g.plan[j] \in Known(j)')
  <2>1. g.plan[j] = f.plan[j] BY <1>6 DEF Follows
  <2>2. j \in Included(t)' BY <1>1, <1>6, <2>1 DEF PlanFits
  <2>3. Known(j)' # {} => g.plan[j] \in Known(j)'
    <3>1. CASE j = i BY <1>4, <1>5, <2>1, <3>1
    <3>2. CASE j # i BY <1>6, <2>1, <3>2 DEF PlanFits
    <3>3. QED BY <3>1, <3>2
  <2>4. QED BY <2>2, <2>3
<1>7. ASSUME NEW j \in S \ {i} PROVE g.plan[j] = (n + 1) + Before(t, j, S \ {i})
  <2>1. g.plan[j] = f.plan[j] BY <1>1, <1>2 DEF Follows
  <2>2. f.plan[j] = n + Before(t, j, S) BY <1>2, <1>4 DEF PlanFits
  <2>3. Before(t, j, S) = 1 + Before(t, j, S \ {i}) BY <1>2, BeforeWithout
  <2>4. Before(t, j, S \ {i}) \in Nat BY BeforeType
  <2>5. QED BY <1>4, <2>1, <2>2, <2>3, <2>4
<1>8. PICK T : T = S \ {i} OBVIOUS
<1>9. /\ Unknown(t)' = T /\ NextNodeId' = n + 1
      /\ \A j \in T : g.plan[j] = (n + 1) + Before(t, j, T)
  BY <1>3, <1>4, <1>7, <1>8
<1>10. g.msg.task = t BY DEF Follows
<1>11. QED BY <1>6, <1>9, <1>10 DEF PlanFits

\* A write of a handler whose plan fits gives its document a node, and takes none from
\* another document.
LEMMA NodesUpserted ==
    ASSUME PipelineInv, NodesInv, NEW w \in Workers, UpsertNodes(w)
    PROVE  NodesInv'
<1>1. TypeOK /\ work[w] \in WorkFrames /\ work[w].step = "write"
  BY FramesTyped DEF PipelineInv, UpsertNodes, Doing
<1>2. PICK t \in Tasks : t = TaskOf(w) BY <1>1, WritersPlan
<1>3. PICK pending \in SUBSET Items : pending = {j \in Items : work[w].plan[j] >= 0}
  <2>1. {j \in Items : work[w].plan[j] >= 0} \in SUBSET Items OBVIOUS
  <2>2. QED BY <2>1
<1>4. pending # {} BY <1>1, <1>3 DEF PipelineInv, FramesOK, WorkOK
<1>5. PICK i : i = CHOOSE j \in pending : Before(t, j, pending) = 0 OBVIOUS
<1>6. i \in pending /\ \A j \in pending : j # i => Rank[t][i] < Rank[t][j]
  BY <1>4, <1>5, FirstIsFirst
<1>7. PICK plan \in [Items -> -1..MaxNode] : plan = work[w].plan BY <1>1 DEF WorkFrames
<1>8. PICK rest \in [Items -> -1..MaxNode] : rest = [plan EXCEPT ![i] = -1]
  <2>1. -1 \in -1..MaxNode BY BoundAssumption
  <2>2. QED BY <1>7, <2>1
<1>9. PICK s \in WorkSteps : s = IF rest = NoPlan THEN "updated" ELSE "write"
  BY DEF WorkSteps
<1>10. /\ nodes' = [nodes EXCEPT ![plan[i]] = NodeFor(t, i)]
       /\ work' = [work EXCEPT ![w].plan = rest, ![w].step = s]
       /\ written' = written \cup {i}
       /\ overlap' = (overlap \/ OtherPlans(t))
       /\ UNCHANGED batch
  BY <1>2, <1>3, <1>5, <1>7, <1>8, <1>9 DEF UpsertNodes, jobs
<1>11. /\ work'[w].step = s /\ work'[w].msg = work[w].msg /\ work'[w].plan = rest
       /\ \A v \in Workers \ {w} : work'[v] = work[v]
  <2>1. NoRow \in Rows BY <1>1, RowsTyped
  <2>2. QED BY <1>1, <1>10, <2>1, WorkGoes, PlanGoes
<1>12. ASSUME NEW v \in Workers, work'[v].step # "write" PROVE work'[v].plan = NoPlan
  BY <1>9, <1>11, <1>12 DEF NodesInv
<1>13. ASSUME ~overlap'
       PROVE  /\ \A j \in written' : Known(j)' # {}
              /\ \A v \in Workers : work'[v].step = "write" => PlanFits(work[v])'
  <2>1. ~overlap /\ ~OtherPlans(t) BY <1>10, <1>13
  <2>2. PICK e : e = work[w] OBVIOUS
  <2>3. PlanFits(e) /\ e.plan = plan /\ e.msg.task = t
    BY <1>1, <1>2, <1>7, <2>1, <2>2 DEF NodesInv, TaskOf
  <2>4. i \in Items /\ i \in Included(t) /\ plan[i] >= 0
    BY <1>3, <1>6, <1>7, <2>3 DEF PlanFits
  <2>5. PICK n \in 0..MaxNode : n = plan[i]
    <3>1. plan[i] \in -1..MaxNode BY <2>4
    <3>2. QED BY <2>4, <3>1, BoundAssumption
  <2>6. nodes' = [nodes EXCEPT ![n] = NodeFor(t, i)] BY <1>10, <2>5
  \* Whoever writes, writes for this task: its plan fits, and only w's loses a document.
  <2>7. ASSUME NEW v \in Workers, work'[v].step = "write"
        PROVE  \E f, g : g = work'[v] /\ PlanFits(f) /\ f.msg.task = t /\ Follows(f, g, i)
    <3>1. PICK g : g = work'[v] OBVIOUS
    <3>2. PICK f : f = work[v] OBVIOUS
    <3>3. CASE v = w
      <4>1. \A j \in Items : rest[j] = plan[j] \/ (j = i /\ rest[j] = -1)
        BY <1>7, <1>8
      <4>2. f.plan = plan /\ g.msg = f.msg /\ g.plan = rest
        BY <1>7, <1>11, <3>1, <3>2, <3>3
      <4>3. Follows(f, g, i) BY <4>1, <4>2 DEF Follows
      <4>4. f = e BY <2>2, <3>2, <3>3
      <4>5. PlanFits(f) /\ f.msg.task = t BY <2>3, <4>4
      <4>6. QED BY <3>1, <4>3, <4>5
    <3>4. CASE v # w
      <4>1. work'[v] = work[v] /\ PlanFits(work[v]) BY <1>11, <2>1, <2>7, <3>4 DEF NodesInv
      <4>2. TaskOf(v) = t BY <2>1, <2>7, <4>1, WritersPlan DEF OtherPlans
      <4>3. PlanFits(f) /\ f.msg.task = t BY <3>2, <4>1, <4>2 DEF TaskOf
      <4>4. Follows(f, g, i) BY <3>1, <3>2, <4>1 DEF Follows
      <4>5. QED BY <3>1, <4>3, <4>4
    <3>5. QED BY <3>3, <3>4
  <2>8. written \subseteq Items /\ \A j \in written : Known(j) # {}
    BY <1>1, <2>1 DEF NodesInv, TypeOK
  <2>9. CASE Known(i) # {}
    <3>1. n \in Known(i) BY <2>3, <2>4, <2>5, <2>9 DEF PlanFits
    <3>2. Used' = Used /\ \A j \in Items : Known(j)' = Known(j)
      BY <1>1, <2>4, <2>6, <3>1, NodeRewritten
    <3>3. ASSUME NEW v \in Workers, work'[v].step = "write" PROVE PlanFits(work[v])'
      <4>1. PICK f, g : g = work'[v] /\ PlanFits(f) /\ Follows(f, g, i)
        BY <2>7, <3>3
      <4>2. PlanFits(g)' BY <1>10, <2>4, <2>9, <3>2, <4>1, PlanOutlastsRewriting
      <4>3. QED BY <4>1, <4>2 DEF PlanFits
    <3>4. QED BY <1>10, <2>4, <2>8, <2>9, <3>2, <3>3
  <2>10. CASE Known(i) = {}
    <3>1. i \in Unknown(t) /\ Unknown(t) \in SUBSET Items
      BY <2>4, <2>10 DEF Unknown, Included
    <3>2. NextNodeId \in Nat BY <1>1, UsedIds
    <3>3. Unknown(t) \subseteq pending
      <4>1. ASSUME NEW j \in Unknown(t) PROVE plan[j] >= 0
        <5>1. plan[j] = NextNodeId + Before(t, j, Unknown(t)) BY <2>3 DEF PlanFits
        <5>2. Before(t, j, Unknown(t)) \in Nat BY <3>1, BeforeType
        <5>3. QED BY <3>2, <5>1, <5>2
      <4>2. QED BY <1>3, <1>7, <3>1, <4>1
    <3>4. \A j \in Unknown(t) : j # i => Rank[t][i] < Rank[t][j] BY <1>6, <3>3
    <3>5. n = NextNodeId
      <4>1. Before(t, i, Unknown(t)) = 0 BY <3>1, <3>4, BeforeFirst
      <4>2. plan[i] = NextNodeId + Before(t, i, Unknown(t)) BY <2>3, <3>1 DEF PlanFits
      <4>3. QED BY <2>5, <3>2, <4>1, <4>2
    <3>6. /\ Known(i)' = {n} /\ \A j \in Items \ {i} : Known(j)' = Known(j)
          /\ NextNodeId' = n + 1
      BY <1>1, <2>4, <2>6, <2>10, <3>5, NodeAdded
    <3>7. ASSUME NEW v \in Workers, work'[v].step = "write" PROVE PlanFits(work[v])'
      <4>1. PICK f, g : g = work'[v] /\ PlanFits(f) /\ f.msg.task = t /\ Follows(f, g, i)
        BY <2>7, <3>7
      <4>2. PlanFits(g)'
        BY <1>10, <3>1, <3>2, <3>4, <3>5, <3>6, <4>1, PlanOutlastsAdding
      <4>3. QED BY <4>1, <4>2 DEF PlanFits
    <3>8. QED BY <1>10, <2>8, <3>6, <3>7
  <2>11. QED BY <2>9, <2>10
<1>14. QED BY <1>12, <1>13 DEF NodesInv

\* Whatever changes while a plan is open is not the documents of its task.
LEMMA NodesRequest ==
    ASSUME PipelineInv, NodesInv, FreshOK, NEW p \in Requests, Request(p)
    PROVE  NodesInv'
<1>1. TypeOK BY DEF PipelineInv
<1>2. CASE DeleteNodes(p) \/ DeleteStats(p)
  BY <1>2, NodesCleared DEF DeleteNodes, DeleteStats
<1>3. CASE ~(DeleteNodes(p) \/ DeleteStats(p))
  <2>1. UNCHANGED <<nodes, written, overlap, work>>
    BY <1>3 DEF Request, BeginGeneration, BeginAddNode, RequestSummary, SaveCreating, Upload,
       CollectNothing, Collect, SaveUpdating, Send, FailRequest, RollbackHold, CrashRequest,
       graph, history
  <2>2. ASSUME NEW w \in Workers, work[w].step = "write"
        PROVE  batch'[TaskOf(w)] = batch[TaskOf(w)]
    <3>1. CASE Upload(p) \/ Collect(p)
      <4>1. req[p].step \in Early BY <3>1 DEF Upload, Collect, At, Early
      <4>2. TaskOf(w) # req[p].task BY <2>2, <4>1 DEF FreshOK, Unseen, TaskOf
      <4>3. PICK new : batch' = [batch EXCEPT ![req[p].task] = new] BY <3>1 DEF Upload, Collect
      <4>4. TaskOf(w) \in Tasks BY <2>2, WritersPlan
      <4>5. QED BY <1>1, <4>2, <4>3, <4>4 DEF TypeOK
    <3>2. CASE ~(Upload(p) \/ Collect(p))
      BY <1>3, <3>2 DEF Request, BeginGeneration, BeginAddNode, RequestSummary, SaveCreating,
         CollectNothing, SaveUpdating, Send, FailRequest, RollbackHold, CrashRequest, jobs
    <3>3. QED BY <3>1, <3>2
  <2>3. \A w \in Workers : work'[w] = work[w] BY <2>1
  <2>4. QED BY <2>1, <2>2, <2>3, NodesCalm
<1>4. QED BY <1>2, <1>3

LEMMA NodesHandler ==
    ASSUME PipelineInv, TypeOK', NodesInv, FreshOK, NEW w \in Workers, Handle(w)
    PROVE  NodesInv' /\ FreshOK'
<1>1. TypeOK BY DEF PipelineInv
<1>2. CASE Calm(w)
  <2>1. FreshOK'
    <3>1. UNCHANGED <<sent, req>> /\ results' \subseteq results
          /\ \A v \in Workers \ {w} : work'[v] = work[v]
      BY <1>2 DEF Calm
    <3>2. \/ work'[w].step = "idle"
          \/ work[w].step # "idle" /\ work'[w].msg = work[w].msg
          \/ work'[w].msg \in results
      BY <1>2 DEF Calm
    <3>3. QED BY <3>1, <3>2, FreshHandlers
  <2>2. work'[w].plan = NoPlan /\ work'[w].step # "write"
    BY <1>2 DEF Calm, NodesInv
  <2>3. \A v \in Workers : \/ work'[v] = work[v]
                           \/ work'[v].step # "write" /\ work'[v].plan = NoPlan
    BY <1>2, <2>2 DEF Calm
  <2>4. UNCHANGED <<nodes, written, overlap, batch>> BY <1>2 DEF Calm
  <2>5. QED BY <2>1, <2>3, <2>4, NodesCalm
<1>3. CASE \E m \in results : PersistSnapshot(w, m) \/ ListNodes(w, m)
  <2>1. PICK m \in results : PersistSnapshot(w, m) \/ ListNodes(w, m) BY <1>3
  <2>2. NodesInv' BY <2>1, NodesSnapshot, NodesListed
  <2>3. PICK f : work' = [work EXCEPT ![w] = f] /\ f.msg = m
    <3>1. CASE PersistSnapshot(w, m)
      <4>1. PICK f : f = [IdleWorker EXCEPT !.step = "created", !.msg = m] OBVIOUS
      <4>2. work' = [work EXCEPT ![w] = f] BY <3>1, <4>1 DEF PersistSnapshot, Take
      <4>3. f.msg = m BY <4>1 DEF IdleWorker
      <4>4. QED BY <4>2, <4>3
    <3>2. CASE ListNodes(w, m)
      <4>1. PICK plan : work' = [work EXCEPT ![w] = [IdleWorker EXCEPT !.step = "write",
                                                                       !.msg = m, !.plan = plan]]
        BY <3>2 DEF ListNodes, Take
      <4>2. PICK f : f = [IdleWorker EXCEPT !.step = "write", !.msg = m, !.plan = plan] OBVIOUS
      <4>3. work' = [work EXCEPT ![w] = f] BY <4>1, <4>2
      <4>4. f.msg = m BY <4>2 DEF IdleWorker
      <4>5. QED BY <4>3, <4>4
    <3>3. QED BY <2>1, <3>1, <3>2
  <2>4. work'[w].msg = m /\ \A v \in Workers \ {w} : work'[v] = work[v]
    BY <1>1, <2>3 DEF TypeOK
  <2>5. UNCHANGED <<sent, req, results>> BY <2>1 DEF PersistSnapshot, ListNodes, queues
  <2>6. FreshOK' BY <2>1, <2>4, <2>5, FreshHandlers
  <2>7. QED BY <2>2, <2>6
<1>4. CASE UpsertNodes(w)
  <2>1. NodesInv' BY <1>4, NodesUpserted
  <2>2. UNCHANGED <<sent, req, results>> /\ work[w].step = "write"
    BY <1>4 DEF UpsertNodes, queues, Doing
  <2>3. PICK plan, s : work' = [work EXCEPT ![w].plan = plan, ![w].step = s]
    BY <1>4 DEF UpsertNodes
  <2>4. work'[w].msg = work[w].msg /\ \A v \in Workers \ {w} : work'[v] = work[v]
    <3>1. work \in [Workers -> WorkFrames] /\ work[w] \in WorkFrames BY <1>1, FramesTyped
    <3>2. PICK f : f = [work[w] EXCEPT !.plan = plan, !.step = s] OBVIOUS
    <3>3. f.msg = work[w].msg BY <3>1, <3>2 DEF WorkFrames
    <3>4. work' = [work EXCEPT ![w] = f] BY <2>3, <3>1, <3>2
    <3>5. QED BY <3>1, <3>3, <3>4
  <2>5. FreshOK' BY <2>2, <2>4, FreshHandlers
  <2>6. QED BY <2>1, <2>5
<1>5. QED BY <1>2, <1>3, <1>4, CalmHandlers DEF Handle

\* Steps of nobody: the documents, the AI service, the queue and the cron job.
LEMMA NodesOthers ==
    ASSUME PipelineInv, TypeOK', NodesInv, FreshOK,
           \/ \E i \in Edited : EditDocument(i)
           \/ \E t \in Tasks : ExpireHold(t)
           \/ \E t \in Tasks, ok \in BOOLEAN : Answer(t, ok)
           \/ \E m \in results : SummaryFailed(m)
           \/ UNCHANGED vars
    PROVE  NodesInv' /\ FreshOK'
<1>1. TypeOK BY DEF PipelineInv
<1>2. UNCHANGED <<nodes, written, overlap, batch, work, req>>
  BY DEF EditDocument, ExpireHold, Answer, SummaryFailed, vars, graph, history, jobs
<1>3. NodesInv' BY <1>2, NodesCalm
<1>4. /\ \A t \in Tasks : sent'[t] > 0 => sent[t] > 0
      /\ \A m \in results' : m \in results \/ sent[m.task] > 0
  <2>1. CASE UNCHANGED <<sent, results>> BY <2>1
  <2>2. CASE \E m \in results : SummaryFailed(m) BY <2>2 DEF SummaryFailed
  <2>3. CASE \E t \in Tasks, ok \in BOOLEAN : Answer(t, ok)
    <3>1. PICK t \in Tasks, ok \in BOOLEAN : Answer(t, ok) BY <2>3
    <3>2. PICK m : m = [task |-> t, ok |-> ok,
                        at |-> IF kind[t] = "generate" /\ ok THEN now ELSE 0]
      OBVIOUS
    <3>3. /\ sent[t] > 0 /\ sent' = [sent EXCEPT ![t] = @ - 1]
          /\ results' = results \cup {m} /\ m.task = t
      BY <3>1, <3>2 DEF Answer
    <3>4. \A u \in Tasks : sent'[u] > 0 => sent[u] > 0 BY <1>1, <3>3 DEF TypeOK
    <3>5. QED BY <3>3, <3>4
  <2>4. QED
    BY <2>1, <2>2, <2>3 DEF EditDocument, ExpireHold, vars, queues
<1>5. \A q \in Requests :
          /\ req'[q].step \in Early => req[q].step \in Early
          /\ req'[q].step \notin Passive => /\ req[q].step \notin Passive
                                            /\ req'[q].task = req[q].task
  BY <1>2
<1>6. \A w \in Workers : work'[w].step # "idle" =>
          \/ work[w].step # "idle" /\ work'[w].msg = work[w].msg
          \/ work'[w].msg \in results
  BY <1>2
<1>7. FreshOK' BY <1>4, <1>5, <1>6, FreshStays
<1>8. QED BY <1>3, <1>7

LEMMA NodesInit == Init => NodesInv /\ FreshOK
<1> SUFFICES ASSUME Init PROVE NodesInv /\ FreshOK
  OBVIOUS
<1>1. \A w \in Workers : work[w].step = "idle" /\ work[w].plan = NoPlan
  BY DEF Init, IdleWorker
<1>2. NodesInv BY <1>1 DEF Init, NodesInv
<1>3. \A p \in Requests : req[p].step = "idle" BY DEF Init, IdleRequest
<1>4. FreshOK BY <1>3 DEF FreshOK, Early
<1>5. QED BY <1>2, <1>4

LEMMA NodesNext ==
    PipelineInv /\ PipelineInv' /\ NodesInv /\ FreshOK /\ [Next]_vars => NodesInv' /\ FreshOK'
<1> SUFFICES ASSUME PipelineInv, PipelineInv', NodesInv, FreshOK, [Next]_vars
             PROVE  NodesInv' /\ FreshOK'
  OBVIOUS
<1>1. TypeOK' BY DEF PipelineInv
<1>2. ASSUME NEW p \in Requests, Request(p) PROVE NodesInv' /\ FreshOK'
  <2>1. NodesInv' BY <1>2, NodesRequest
  <2>2. FreshOK' BY <1>1, <1>2, FreshBegins, FreshRequests DEF Request
  <2>3. QED BY <2>1, <2>2
<1>3. ASSUME NEW w \in Workers, Handle(w) PROVE NodesInv' /\ FreshOK'
  BY <1>1, <1>3, NodesHandler
<1>4. QED BY <1>1, <1>2, <1>3, NodesOthers DEF Next

\* A document that was written to the graph has a node, whatever is redelivered,
\* duplicated or cut short, unless two tasks' results were applied at once, the graph
\* was deleted under a handler or a generation came after what it does not know
\* (calculateNextNodeId and the ids of AddNode's batch).
THEOREM NodesKept == Spec => []OnlyOverlapLosesNodes
<1>1. NodesInv => OnlyOverlapLosesNodes BY DEF NodesInv, OnlyOverlapLosesNodes
<1>2. PipelineInv /\ [Next]_vars => PipelineInv' BY PipelineNext
<1>3. QED BY <1>1, <1>2, NodesInit, NodesNext, PipelineInvariant, PTL DEF Spec
=============================================================================
