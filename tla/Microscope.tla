------------------------------ MODULE Microscope ------------------------------
(***************************************************************************)
(* One Microscope workspace: MicroscopeManagementService registers         *)
(* documents in it and sends two requests for each to the AI service, one  *)
(* for the block view and one for the graph; their results come back at    *)
(* least once, and several handlers of the worker save what they bring and *)
(* merge it into the document's record, reading it and writing it back.  A *)
(* credit hold is placed for each uploaded file or node, or once for a     *)
(* workspace made of many sources.  The credit holds are those of          *)
(* CreditEscrow; the database is MicroscopeWorkspaceRepositoryMongo.       *)
(***************************************************************************)
EXTENDS Integers, FiniteSets

CONSTANTS
    User, Plan, Budget, Cost,   \* the user's plan, its credits, what a hold costs
    LastDoc,                    \* per way to send documents, how many are sent
    WorkersOf,                  \* per way, the handlers of result messages
    CanFail,                    \* per way, the views whose ingest may fail
    CreditErrors                \* whether a handler's credit call may fail

\* "files" go into a workspace that is there and are held for one by one; for
\* a "node" or for "sources", held for all together, one is made.
Ways == DOMAIN LastDoc

ASSUME MicroscopeAssumption ==
    /\ Ways \subseteq {"files", "node", "sources"} /\ LastDoc \in [Ways -> 1..2]
    /\ CanFail \in [Ways -> SUBSET {"block", "nonblock"}]
    /\ Budget \in Nat /\ Cost \in Nat /\ CreditErrors \in BOOLEAN

VARIABLES
    alive,          \* the workspace is there
    docs,           \* the records of its documents
    saved,          \* the payloads in collections of their own
    req,            \* what the API request is doing
    sent, results,  \* the two queues: requests, result messages
    work,           \* what each handler is doing
    available, status, escrow,  \* credits, see CreditEscrow
    announced,      \* the user was told that the workspace is finished
    split, unread   \* history: documents that the properties except

Workers == UNION {WorkersOf[way] : way \in Ways}

Docs == 1..2
Modes == {"block", "nonblock"}
Workspace == 0

\* Task ids: a document's id, the workspace's, or a document's with a suffix.
Task(d, mode) == <<d, mode>>
Messages == {Task(d, mode) : d \in Docs, mode \in Modes}
TaskIds == Messages \cup {Task(d, "whole") : d \in Docs \cup {Workspace}}

Escrow == INSTANCE CreditEscrow WITH
    Users <- {User}, Tasks <- TaskIds, Costs <- {Cost}, Plans <- {Plan},
    FreePlan <- Plan, Limit <- [p \in {Plan} |-> Budget]

credit == <<available, status, escrow>>
queues == <<sent, results>>
store == <<alive, docs, saved>>
history == <<split, unread>>
vars == <<store, req, queues, work, credit, announced, history>>

Statuses == {"none", "PROCESSING", "COMPLETED", "FAILED"}
NoDoc == [overall |-> "none", block |-> "none", nonblock |-> "none",
          graph |-> FALSE, view |-> FALSE]
NewDoc == [NoDoc EXCEPT !.overall = "PROCESSING", !.block = "PROCESSING",
                        !.nonblock = "PROCESSING"]
NoResult == [task |-> Task(Workspace, "whole"), ok |-> FALSE]
IdleWorker == [step |-> "idle", msg |-> NoResult, payload |-> FALSE, overall |-> "none"]

Init ==
    /\ docs = [d \in Docs |-> NoDoc] /\ saved = {}
    /\ \E way \in Ways :
          /\ alive = (way = "files")
          /\ req = [way |-> way, step |-> IF alive THEN "hold" ELSE "create",
                    doc |-> 1, anySent |-> FALSE]
    /\ sent = {} /\ results = {}
    /\ work = [w \in Workers |-> IdleWorker]
    /\ available \in [{User} -> 0..Budget]
    /\ status = [t \in TaskIds |-> "none"]
    /\ escrow = [t \in TaskIds |-> Escrow!NoEscrow]
    /\ announced = FALSE
    /\ split = [d \in Docs |-> FALSE] /\ unread = {}

-----------------------------------------------------------------------------
(* The database: one operator per method of the repository, each one       *)
(* update of one record.                                                   *)

createRecord == alive' = TRUE

deleteRecord == alive' = FALSE /\ docs' = [d \in Docs |-> NoDoc]

addDocument(d) == alive /\ docs' = [docs EXCEPT ![d] = NewDoc]

updateDocumentStatus(d, overall, graph) ==
    /\ docs[d] # NoDoc
    /\ docs' = [docs EXCEPT ![d].overall = overall, ![d].graph = @ \/ graph]

updateDocumentSubStatus(d, mode, st, overall, view) ==
    /\ docs[d] # NoDoc
    /\ docs' = [docs EXCEPT ![d].overall = overall, ![d].view = @ \/ view,
                            ![d].block = IF mode = "block" THEN st ELSE @,
                            ![d].nonblock = IF mode = "nonblock" THEN st ELSE @]

savePayload(kind, d) == saved' = saved \cup {<<kind, d>>}

deleteGraphPayloadsByGroupId == saved' = {p \in saved : p[1] # "graph"}

findGraphPayloads(ds) == {d \in ds : <<"graph", d>> \in saved}

findBlockGraphPayloadByTaskId(d) == <<"view", d>> \in saved

findBlockRawTextPayloadByTaskId(d) == <<"text", d>> \in saved

\* aggregateGraphFromWorkspace: the documents whose graph, and those whose
\* block view with its texts, a reader of the workspace is given.
ReadableGraphs ==
    findGraphPayloads({d \in Docs : docs[d].overall = "COMPLETED" /\ docs[d].graph})

ReadableViews ==
    {d \in Docs : /\ docs[d].view
                  /\ findBlockGraphPayloadByTaskId(d) /\ findBlockRawTextPayloadByTaskId(d)}

-----------------------------------------------------------------------------
(* The request: ingestRawDocumentsToWorkspace ("files"),                   *)
(* createWorkspaceAndMicroscopeIngestFromNode ("node") and                 *)
(* createMultiSourceWorkspace ("sources").                                 *)

At(step) == req.step = step
Goto(step) == req' = [req EXCEPT !.step = step]
OneByOne == req.way # "sources"

HoldTask == IF OneByOne THEN Task(req.doc, "whole") ELSE Task(Workspace, "whole")

\* The next document, or the end.
NextDoc(anySent) ==
    req' = [req EXCEPT !.anySent = anySent,
                !.doc = IF @ < LastDoc[req.way] THEN @ + 1 ELSE @,
                !.step = CASE req.doc < LastDoc[req.way] -> IF OneByOne THEN "hold" ELSE "add"
                           [] OTHER -> IF OneByOne \/ anySent THEN "end" ELSE "rollback"]

CreateWorkspace ==
    /\ At("create") /\ Goto("hold") /\ createRecord
    /\ UNCHANGED <<docs, saved, queues, work, credit, announced, history>>

HoldCredit ==
    /\ At("hold")
    /\ \/ Escrow!Place(HoldTask, User, Cost) /\ Goto("add")
       \/ available[User] < Cost /\ Goto("end") /\ UNCHANGED credit
    /\ UNCHANGED <<store, queues, work, announced, history>>

AddDocument ==
    /\ At("add") /\ addDocument(req.doc) /\ Goto("block")
    /\ UNCHANGED <<alive, saved, queues, work, credit, announced, history>>

SendBlock ==
    /\ At("block") /\ Goto("nonblock")
    /\ sent' = sent \cup {Task(req.doc, "block")}
    /\ UNCHANGED <<store, results, work, credit, announced, history>>

SendNonBlock ==
    /\ At("nonblock") /\ NextDoc(TRUE)
    /\ sent' = sent \cup {Task(req.doc, "nonblock")}
    /\ UNCHANGED <<store, results, work, credit, announced, history>>

\* A step throws.  Uploading gives the hold back and stops; a workspace of
\* sources skips the document, and marks it if it was registered.  What
\* failed may have been done all the same.
FailRequest ==
    /\ req.step \in {"add", "block", "nonblock"}
    /\ \/ UNCHANGED <<docs, sent>>
       \/ At("add") /\ addDocument(req.doc) /\ UNCHANGED sent
       \/ ~At("add") /\ sent' = sent \cup {Task(req.doc, req.step)} /\ UNCHANGED docs
    /\ \/ OneByOne /\ Goto("rollback")
       \/ ~OneByOne /\ At("add") /\ NextDoc(req.anySent)
       \/ ~OneByOne /\ ~At("add") /\ Goto("mark")
    /\ UNCHANGED <<alive, saved, results, work, credit, announced, history>>

\* The error of a failed update is logged and forgotten.
MarkFailed ==
    /\ At("mark") /\ NextDoc(req.anySent)
    /\ \/ UNCHANGED docs
       \/ updateDocumentStatus(req.doc, "FAILED", FALSE)
    /\ split' = [split EXCEPT ![req.doc] = TRUE]
    /\ UNCHANGED <<alive, saved, queues, work, credit, announced, unread>>

RollbackHold ==
    /\ At("rollback") /\ Goto("end")
    /\ IF status[HoldTask] = "held" THEN Escrow!Release(HoldTask) ELSE UNCHANGED credit
    /\ UNCHANGED <<store, queues, work, announced, history>>

CrashRequest ==
    /\ ~At("end") /\ Goto("end")
    /\ UNCHANGED <<store, queues, work, credit, announced, history>>

DeleteWorkspace ==
    /\ alive /\ deleteRecord /\ deleteGraphPayloadsByGroupId
    /\ UNCHANGED <<req, queues, work, credit, announced, history>>

\* BillingCron gives back what is held for too long.
ExpireHold(t) ==
    /\ At("end") /\ Escrow!Release(t)
    /\ UNCHANGED <<store, req, queues, work, announced, history>>

\* The AI service answers a request (a second answer that says the same is
\* covered by the redelivery of the first).
Answer(t, ok) ==
    /\ t \in sent /\ sent' = sent \ {t}
    /\ ok \/ t[2] \in CanFail[req.way]
    /\ results' = results \cup {[task |-> t, ok |-> ok]}
    /\ UNCHANGED <<store, req, work, credit, announced, history>>

-----------------------------------------------------------------------------
(* MicroscopeIngestResultHandler.                                          *)

Doing(w, step) == work[w].step = step
DocOf(w) == work[w].msg.task[1]
ModeOf(w) == work[w].msg.task[2]
StatusOf(m) == IF m.ok THEN "COMPLETED" ELSE "FAILED"
EndWork(w) == work' = [work EXCEPT ![w] = IdleWorker]

computeOverallStatus(a, b) ==
    IF {a, b} = {"COMPLETED"} THEN "COMPLETED"
    ELSE IF "FAILED" \in {a, b} THEN "FAILED" ELSE "PROCESSING"

\* resolveGroupIdForIngestResult and the reads that follow it: with no
\* workspace the handler throws.
WorkspaceFound == alive

\* A message is taken and its payload downloaded; an error there is logged
\* and forgotten.
TakeResult(w, m) ==
    /\ Doing(w, "idle") /\ m \in results /\ WorkspaceFound
    /\ \E payload \in {m.ok} \cup (IF m.task[2] \in CanFail[req.way] THEN {FALSE} ELSE {}) :
          /\ work' = [work EXCEPT ![w] =
                [step |-> IF payload THEN "save" ELSE "compute", msg |-> m,
                 payload |-> payload, overall |-> "none"]]
          /\ unread' = IF m.ok /\ ~payload /\ m.task[2] = "nonblock"
                       THEN unread \cup {m.task[1]} ELSE unread
    /\ UNCHANGED <<store, req, queues, credit, announced, split>>

\* The payload goes to a collection of its own: saveGraphPayload, or the two
\* inserts of saveBlockGraphData.
SavePayload(w) ==
    /\ Doing(w, "save")
    /\ savePayload(IF ModeOf(w) = "block" THEN "view" ELSE "graph", DocOf(w))
    /\ work' = [work EXCEPT ![w].step = IF ModeOf(w) = "block" THEN "text" ELSE "compute"]
    /\ UNCHANGED <<alive, docs, req, queues, credit, announced, history>>

\* Texts of more than 10 MB are not saved; they are smaller here.
SaveTexts(w) ==
    /\ Doing(w, "text") /\ savePayload("text", DocOf(w))
    /\ work' = [work EXCEPT ![w].step = "compute"]
    /\ UNCHANGED <<alive, docs, req, queues, credit, announced, history>>

ReadyToCompute(w) == Doing(w, "compute")

\* The document's status is computed from this result and what the record
\* says of the other one (PROCESSING if there is no record any more).
ComputeStatus(w) ==
    LET d == DocOf(w)
        other == IF ModeOf(w) = "block" THEN docs[d].nonblock ELSE docs[d].block
    IN
    /\ ReadyToCompute(w)
    /\ work' = [work EXCEPT
          ![w].step = "sub",
          ![w].overall = computeOverallStatus(StatusOf(work[w].msg),
                             IF other = "none" THEN "PROCESSING" ELSE other)]
    /\ split' = [split EXCEPT ![d] =
          @ \/ \E v \in Workers : work[v].step \in {"sub", "status"} /\ DocOf(v) = d]
    /\ UNCHANGED <<store, req, queues, credit, announced, unread>>

\* The hold that is settled is that of the message's own task id, if there is
\* one; an error there is logged and forgotten.
SettledTask(w) == work[w].msg.task

SettleHold(w) ==
    LET t == SettledTask(w) IN
    IF status[t] # "held" THEN UNCHANGED credit
    ELSE IF work[w].msg.ok THEN Escrow!Commit(t) ELSE Escrow!Release(t)

\* updateDocumentSubStatus: one update of the record (it throws when there is
\* none).
SaveSubStatus(w, overall, next) ==
    /\ Doing(w, "sub")
    /\ updateDocumentSubStatus(DocOf(w), ModeOf(w), StatusOf(work[w].msg), overall,
                               ModeOf(w) = "block" /\ work[w].payload)
    /\ work' = [work EXCEPT ![w].step = next]
    /\ UNCHANGED <<alive, saved, req, sent, credit, announced, split, unread>>

SaveBlockStatus(w) ==
    ModeOf(w) = "block" /\ SaveSubStatus(w, work[w].overall, "count") /\ UNCHANGED results

\* Mutant: the overall status is left to the second update.
SaveNonBlockStatusAlone(w) ==
    /\ ModeOf(w) = "nonblock" /\ SaveSubStatus(w, docs[DocOf(w)].overall, "status")
    /\ UNCHANGED results

\* Mutant: the message is deleted before the second update.
SaveNonBlockStatusAndDelete(w) ==
    /\ ModeOf(w) = "nonblock" /\ SaveSubStatus(w, work[w].overall, "status")
    /\ results' = results \ {work[w].msg}

SaveNonBlockStatus(w) ==
    ModeOf(w) = "nonblock" /\ SaveSubStatus(w, work[w].overall, "status") /\ UNCHANGED results

\* updateDocumentStatus: the same status again, and the graph.
SaveStatus(w) ==
    /\ Doing(w, "status") /\ updateDocumentStatus(DocOf(w), work[w].overall, work[w].payload)
    /\ work' = [work EXCEPT ![w].step = "count"]
    /\ UNCHANGED <<alive, saved, req, queues, credit, announced, split, unread>>

AllSettled == \A d \in Docs : docs[d].overall # "PROCESSING"

\* Mutant: only a result that completes its document is counted.
AnnounceCompleted(w) == announced' = (announced \/ (work[w].overall = "COMPLETED" /\ AllSettled))

\* The workspace is read again; when no document waits, the user is told.
Announce(w) == announced' = (announced \/ AllSettled)

\* Then the hold is settled and the message deleted, or it comes back.
Finish(w) ==
    /\ Doing(w, "count") /\ WorkspaceFound /\ Announce(w) /\ EndWork(w)
    /\ \/ SettleHold(w)
       \/ CreditErrors /\ UNCHANGED credit
    /\ results' = results \ {work[w].msg} \/ UNCHANGED results
    /\ UNCHANGED <<store, req, sent, history>>

\* The handler throws, or the process dies: the message comes back.
Abandon(w) ==
    /\ ~Doing(w, "idle") /\ EndWork(w)
    /\ UNCHANGED <<store, req, queues, credit, announced, history>>

-----------------------------------------------------------------------------
Request ==
    \/ CreateWorkspace \/ HoldCredit \/ AddDocument \/ SendBlock \/ SendNonBlock
    \/ FailRequest \/ MarkFailed \/ RollbackHold \/ CrashRequest

Handle(w) ==
    \/ \E m \in results : TakeResult(w, m)
    \/ SavePayload(w) \/ SaveTexts(w) \/ ComputeStatus(w)
    \/ SaveBlockStatus(w) \/ SaveNonBlockStatus(w) \/ SaveStatus(w)
    \/ Finish(w) \/ Abandon(w)

Next ==
    \/ Request
    \/ DeleteWorkspace
    \/ \E t \in TaskIds : ExpireHold(t)
    \/ \E t \in Messages, ok \in BOOLEAN : Answer(t, ok)
    \/ \E w \in WorkersOf[req.way] : Handle(w)

Spec == Init /\ [][Next]_vars

-----------------------------------------------------------------------------
(* Properties.                                                             *)

\* The document's status is the one its two results give, in spite of
\* handlers that die between their writes and results that come again,
\* unless two results were handled at once or a failed send was marked.
OnlyOverlapSplitsStatus ==
    \A d \in Docs : docs[d] # NoDoc /\ ~split[d]
        => docs[d].overall = computeOverallStatus(docs[d].block, docs[d].nonblock)

\* A document that is COMPLETED gives its readers its graph, or the result
\* that brings it is still in the queue, unless that result could not be
\* downloaded: the status is written before the graph, and no death of a
\* handler in between loses it.
CompletedHasGraph ==
    \A d \in Docs : docs[d].overall = "COMPLETED"
        => \/ d \in ReadableGraphs
           \/ d \in unread
           \/ [task |-> Task(d, "nonblock"), ok |-> TRUE] \in results

\* A block view that the record names is there with its texts, whatever
\* handlers died between the two inserts and the update.
ViewHasTexts == \A d \in Docs : docs[d].view => d \in ReadableViews

\* When every result is handled and no document waits, the user has been told,
\* although each handler counts for itself, unless two results of a document
\* were handled at once or the request marked one as failed,
\* which tells nobody.
FinishedIsAnnounced ==
    (/\ alive /\ At("end") /\ results = {}
     /\ \A w \in Workers : Doing(w, "idle")
     /\ \E d \in Docs : docs[d] # NoDoc
     /\ AllSettled /\ \A d \in Docs : ~split[d]) => announced

\* What handlers finish survives their deaths and the order they run in.
FinishedIsReadAndTold == CompletedHasGraph /\ ViewHasTexts /\ FinishedIsAnnounced

\* A document's record is what its two results make of it (MicroscopeManagementService),
\* and its readers and its user learn what it says.
StatusTells == OnlyOverlapSplitsStatus /\ FinishedIsReadAndTold

=============================================================================
