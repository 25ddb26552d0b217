---------------------------- MODULE ImportFinalize ----------------------------
(***************************************************************************)
(* The last stage of one import: ImportArchiveService claims the job in    *)
(* the File Service, which is outside this repository, and queues it;      *)
(* workers take the message, look up what is stored already, create the    *)
(* conversations chunk by chunk, a transaction each, and report back.      *)
(***************************************************************************)
EXTENDS ConversationDocs, Sequences

CONSTANTS
    Workers,    \* the workers that may have a message at once
    Messages,   \* the messages that may ever be sent
    Imported,   \* importConversationId of what the archive has, in its chunks
    MaxReceives \* the queue's redrive bound

\* The chunks are slices of one list, of conversations that the provider tells apart.
ASSUME ImportFinalizeAssumption ==
    /\ Imported \in Seq((SUBSET Conversations) \ {{}}) /\ MaxReceives \in Nat \ {0}
    /\ \A i, j \in 1..Len(Imported) : i # j => Imported[i] \cap Imported[j] = {}

VARIABLES
    finalize,   \* finalizeStatus of the job in the File Service
    message,    \* per message, whether it is queued and how often it was received
    worker,     \* per worker, the message it handles and how far it is
    dropped,    \* history: conversations of a chunk that failed for good
    unsent      \* history: a claim whose message or whose failure report was lost

importVars == <<finalize, message, worker, dropped, unsent>>

IdleWorker == [at |-> "idle", message |-> 0, existing |-> {}, chunk |-> 1, created |-> 0]
\* Only the messages in sent will be sent, and only some workers are there.
InitImport(sent, there) ==
    /\ finalize = "none"
    /\ message = [m \in Messages |-> [at |-> IF m \in sent THEN "none" ELSE "gone", receives |-> 0]]
    /\ worker = [w \in Workers |-> [IdleWorker EXCEPT !.at = IF w \in there THEN "idle" ELSE "off"]]
    /\ dropped = {} /\ unsent = FALSE

ImportedIds == UNION {Imported[i] : i \in 1..Len(Imported)}
WorkerAt(w, step) == worker[w].at = step
GotoWorker(w, step) == worker' = [worker EXCEPT ![w].at = step]
UserStays == UNCHANGED <<docs, clock, edits, destroyed>>

-----------------------------------------------------------------------------
(* finalizeImport.  A claim is given while nothing runs; later requests are *)
(* answered in_progress or already_finalized and change nothing.           *)

claimFinalize(m) ==
    /\ finalize \in {"none", "failed"} /\ message[m].at = "none"
    /\ finalize' = "finalizing"
    /\ \/ message' = [message EXCEPT ![m].at = "sending"] /\ UNCHANGED <<faults, unsent>>
       \/ Fault /\ UNCHANGED message /\ unsent' = TRUE
    /\ UNCHANGED <<worker, dropped>> /\ UserStays

\* A send that fails is not reported to the File Service, nor is a request that dies.
SendMessage(m) ==
    /\ message[m].at = "sending"
    /\ \/ message' = [message EXCEPT ![m].at = "queued"] /\ UNCHANGED <<faults, unsent>>
       \/ Fault /\ unsent' = TRUE /\ message' = [message EXCEPT ![m].at = "gone"]
    /\ UNCHANGED <<finalize, worker, dropped>> /\ UserStays

-----------------------------------------------------------------------------
(* The queue.                                                              *)

Receive(w, m) ==
    /\ WorkerAt(w, "idle") /\ message[m].at = "queued"
    /\ message' = [message EXCEPT ![m] = [at |-> "taken", receives |-> @.receives + 1]]
    /\ worker' = [worker EXCEPT ![w] = [IdleWorker EXCEPT !.at = "lookup", !.message = m]]
    /\ UNCHANGED <<finalize, dropped, unsent, faults>> /\ UserStays

\* What was received too often goes to the dead-letter queue.
PutBack(m) ==
    message' = [message EXCEPT ![m].at = IF message[m].receives < MaxReceives THEN "queued" ELSE "gone"]

\* The visibility timeout of a message passes while a slow worker has it.
Reappear(m) ==
    /\ message[m].at = "taken" /\ message[m].receives < MaxReceives
    /\ Fault /\ PutBack(m)
    /\ UNCHANGED <<finalize, worker, dropped, unsent>> /\ UserStays

WorkerDies(w) ==
    /\ worker[w].at \notin {"idle", "off"} /\ Fault
    /\ worker' = [worker EXCEPT ![w] = IdleWorker]
    /\ IF message[worker[w].message].at = "taken" THEN PutBack(worker[w].message) ELSE UNCHANGED message
    /\ unsent' = (unsent \/ message[worker[w].message].receives = MaxReceives)
    /\ UNCHANGED <<finalize, dropped>> /\ UserStays

-----------------------------------------------------------------------------
(* ImportFinalizeProcessor.process.                                        *)

Throw(w) == Fault /\ GotoWorker(w, "fail")

\* The result is read, and prepareIdempotentThreads finds what is stored already, in
\* the trash or not.  An archive with nothing in it has no chunks.
Lookup(w) ==
    /\ WorkerAt(w, "lookup")
    /\ \/ /\ worker' = [worker EXCEPT ![w].at = IF Imported = <<>> THEN "complete" ELSE "create",
                                      ![w].existing = {c \in ImportedIds : Exists(c)}]
          /\ UNCHANGED faults
       \/ Throw(w)
    /\ UNCHANGED <<finalize, message, dropped, unsent>> /\ UserStays

\* bulkCreateConversations ends, in an error only if no chunk was created.
AfterChunk(w, created) ==
    worker' = [worker EXCEPT ![w].chunk = @ + 1, ![w].created = @ + created,
                             ![w].at = IF worker[w].chunk < Len(Imported) THEN "create"
                                       ELSE IF worker[w].created + created = 0 THEN "fail"
                                       ELSE "complete"]

\* One chunk's transaction: what was not stored is inserted, unless another worker
\* has stored some of it since the lookup.  One that fails for good is left out; one
\* whose commit lost its answer is counted as failed with its conversations stored.
\* Messages are not modelled, nor that they are inserted for a conversation found
\* stored already.
CreateChunk(w) ==
    LET new == Imported[worker[w].chunk] \ worker[w].existing
    IN  /\ WorkerAt(w, "create")
        /\ \/ new = {} /\ AfterChunk(w, 1) /\ UNCHANGED <<faults, dropped>> /\ UserStays
           \/ new # {} /\ createMany(new) /\ AfterChunk(w, 1) /\ UNCHANGED <<faults, dropped>>
           \/ /\ \E c \in new : Exists(c)
              /\ AfterChunk(w, 0) /\ UNCHANGED <<faults, dropped>> /\ UserStays
           \/ new # {} /\ Fault /\ createMany(new) /\ AfterChunk(w, 0) /\ UNCHANGED dropped
           \/ Fault /\ dropped' = dropped \cup new /\ AfterChunk(w, 0) /\ UserStays
        /\ UNCHANGED <<finalize, message, unsent>>

\* Mutant: the report goes out before the last chunk.
LastButOne(w) == WorkerAt(w, "create") /\ worker[w].chunk = Len(Imported)

ReadyToComplete(w) == WorkerAt(w, "complete")

\* completeFinalize names all the conversations of the archive, those of a failed
\* chunk too, so the job is never finalized again.  The message is deleted, unless
\* it has come back to the queue meanwhile.
CompleteFinalize(w) ==
    LET m == worker[w].message
    IN  /\ ReadyToComplete(w)
        /\ \/ /\ finalize' = "finalized"
              /\ message' = [message EXCEPT ![m].at = IF @ = "taken" THEN "gone" ELSE @]
              /\ worker' = [worker EXCEPT ![w] = IdleWorker]
              /\ UNCHANGED faults
           \/ Throw(w) /\ UNCHANGED message /\ finalize' \in {finalize, "finalized"}
        /\ UNCHANGED <<dropped, unsent>> /\ UserStays

\* Mutant: the failure is not reported.
Silent == UNCHANGED finalize

\* failFinalize: whether the File Service lets it undo a finalized job is its own.
ReportFailure ==
    finalize' \in IF finalize = "finalizing" THEN {"failed"} ELSE {finalize, "failed"}

\* A failure of the report is swallowed; the handler throws and the queue delivers
\* the message again.
FailFinalize(w) ==
    LET m == worker[w].message
    IN  /\ WorkerAt(w, "fail")
        /\ \/ ReportFailure /\ UNCHANGED <<faults, unsent>>
           \/ /\ Fault /\ UNCHANGED finalize
              /\ unsent' = (unsent \/ message[m].receives = MaxReceives)
        /\ IF message[m].at = "taken" THEN PutBack(m) ELSE UNCHANGED message
        /\ worker' = [worker EXCEPT ![w] = IdleWorker]
        /\ UNCHANGED dropped /\ UserStays

-----------------------------------------------------------------------------
WorkerStep(w) == Lookup(w) \/ CreateChunk(w) \/ CompleteFinalize(w) \/ FailFinalize(w)

ImportNext ==
    \/ \E m \in Messages : claimFinalize(m) \/ SendMessage(m) \/ Reappear(m)
    \/ \E w \in Workers : WorkerStep(w) \/ WorkerDies(w) \/ \E m \in Messages : Receive(w, m)

\* Requests go on, some worker polls the queue, and each handles what it has.
ImportFairness ==
    LET v == <<docsVars, importVars>>
    IN  /\ \A m \in Messages : WF_v(SendMessage(m)) /\ WF_v(\E w \in Workers : Receive(w, m))
        /\ \A w \in Workers : WF_v(WorkerStep(w))

-----------------------------------------------------------------------------
(* Properties.                                                             *)

\* A finalized import has all its conversations, but for those the user deleted and
\* those of a chunk whose transaction failed for good.
FinalizedHasAll ==
    finalize = "finalized" =>
        \A c \in ImportedIds : Exists(c) \/ c \in destroyed \/ c \in dropped

\* A claim ends finalized or failed, unless its message was never sent or the last
\* delivery died or could not report: then nothing can claim the job again.
FinalizeEnds == finalize = "finalizing" ~> (finalize # "finalizing" \/ unsent)
=============================================================================
