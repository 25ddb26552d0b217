------------------------------ MODULE ChatExport ------------------------------
(***************************************************************************)
(* ChatExportService: a request checks that no export of its scope is      *)
(* under way and stores a job; a background task of the same process reads *)
(* the conversations page by page, uploads the ZIP and marks the job DONE; *)
(* the daily cleanup removes what has expired.                             *)
(***************************************************************************)
EXTENDS ConversationDocs

CONSTANTS
    Exports,    \* the export requests that may be made
    All,        \* the scope of an export of every conversation
    Scopes      \* the scopes asked for: All, or a conversation

ASSUME ChatExportAssumption ==
    All \notin Conversations /\ Scopes \subseteq Conversations \cup {All}

VARIABLES
    export,     \* per request: where it is and what its task has read
    jobs,       \* per request, its row in chat_export_jobs
    zips,       \* the ZIPs in S3
    cleaning,   \* per request, how far the cleanup got with its job
    stopping,   \* requests of a process that is shutting down
    severed,    \* history: exports whose end nobody is left to record
    halfCleaned, \* history: jobs whose cleanup failed with the ZIP gone
    overlapped  \* history: requests whose checks saw a time before the other's row

exportVars == <<export, jobs, zips, cleaning, stopping, severed, halfCleaned, overlapped>>

NoJob == [status |-> "none", hasFile |-> FALSE]
\* Only the requests in made will be made.
InitExport(made) ==
    /\ export = [x \in Exports |-> [at |-> IF x \in made THEN "new" ELSE "over",
                                   scope |-> All, cursor |-> 0, got |-> {}, steady |-> {}]]
    /\ jobs = [x \in Exports |-> NoJob]
    /\ zips = {} /\ cleaning = [x \in Exports |-> "no"] /\ stopping = {}
    /\ severed = {} /\ halfCleaned = {} /\ overlapped = {}

ExportAt(x, step) == export[x].at = step
GotoExport(x, step) == export' = [export EXCEPT ![x].at = step]
Alive == {x \in Exports : export[x].at \notin {"new", "over"}}
ExportActive(x) == jobs[x].status \in {"PENDING", "PROCESSING"}
SetStatus(x, status) == jobs' = [jobs EXCEPT ![x].status = status]
DocsStay == UNCHANGED <<docs, clock, edits, destroyed>>
Bookkeeping == UNCHANGED <<cleaning, stopping, halfCleaned, overlapped>>

-----------------------------------------------------------------------------
(* enqueueExport.                                                          *)

\* Mutant: only the jobs that have begun count.
FindProcessing(scope) ==
    {x \in Exports : jobs[x].status = "PROCESSING" /\ export[x].scope = scope}

findActiveJob(scope) == {x \in Exports : ExportActive(x) /\ export[x].scope = scope}

\* startExport and startExportAll; ConflictError while a job of the scope is active.
StartExport(x, scope) ==
    /\ ExportAt(x, "new")
    /\ scope # All => Active(scope)
    /\ export' = [export EXCEPT ![x].scope = scope,
                                ![x].at = IF findActiveJob(scope) = {} THEN "create" ELSE "over"]
    /\ LET racing == {y \in Exports : ExportAt(y, "create") /\ export[y].scope = scope}
       IN  overlapped' = overlapped \cup (IF racing = {} THEN {} ELSE racing \cup {x})
    /\ UNCHANGED <<jobs, zips, cleaning, stopping, severed, halfCleaned, faults>> /\ DocsStay

\* The row is stored and the task begins; an error leaves no task, the row or not.
CreateJob(x) ==
    /\ ExportAt(x, "create")
    /\ \/ SetStatus(x, "PENDING") /\ GotoExport(x, "mark") /\ UNCHANGED <<faults, severed>>
       \/ /\ Fault /\ GotoExport(x, "over")
          /\ \/ SetStatus(x, "PENDING") /\ severed' = severed \cup {x}
             \/ UNCHANGED <<jobs, severed>>
    /\ UNCHANGED zips /\ Bookkeeping /\ DocsStay

-----------------------------------------------------------------------------
(* processExportJob.  Any error but the e-mail's goes to its catch handler. *)

Throws(x) == Fault /\ GotoExport(x, "catch")

MarkProcessing(x) ==
    /\ ExportAt(x, "mark")
    /\ \/ /\ SetStatus(x, "PROCESSING") /\ UNCHANGED faults
          /\ export' = [export EXCEPT ![x].at = "load", ![x].steady = {c \in Conversations : Active(c)}]
       \/ Throws(x) /\ UNCHANGED jobs
    /\ UNCHANGED <<zips, severed>> /\ Bookkeeping /\ DocsStay

\* One page of loadAllConversationThreads, with its messages.
LoadPage(x) ==
    LET page == listByOwner(export[x].cursor)
    IN  export' = [export EXCEPT ![x].got = @ \cup {<<c, docs[c].updatedAt>> : c \in page},
                                 ![x].cursor = NextCursor(page),
                                 ![x].at = IF NextCursor(page) = 0 THEN "upload" ELSE "load"]

\* getConversation; NotFoundError if it went to the trash after the request's check.
LoadOne(x, c) ==
    IF Active(c)
    THEN export' = [export EXCEPT ![x].got = {<<c, docs[c].updatedAt>>}, ![x].at = "upload"]
    ELSE GotoExport(x, "catch")

Load(x) ==
    /\ ExportAt(x, "load")
    /\ \/ /\ IF export[x].scope = All THEN LoadPage(x) ELSE LoadOne(x, export[x].scope)
          /\ UNCHANGED faults
       \/ Throws(x)
    /\ UNCHANGED <<jobs, zips, severed>> /\ Bookkeeping /\ DocsStay

\* Mutant: an upload that fails is swallowed.
SwallowUpload(x) ==
    /\ ExportAt(x, "upload") /\ GotoExport(x, "finish")
    /\ \/ zips' = zips \cup {x} /\ UNCHANGED faults
       \/ Fault /\ UNCHANGED zips
    /\ UNCHANGED <<jobs, severed>> /\ Bookkeeping /\ DocsStay

\* buildExportZipBuffer and the upload, which may fail with the object stored.
UploadZip(x) ==
    /\ ExportAt(x, "upload")
    /\ \/ zips' = zips \cup {x} /\ GotoExport(x, "finish") /\ UNCHANGED faults
       \/ Throws(x) /\ (zips' = zips \cup {x} \/ UNCHANGED zips)
    /\ UNCHANGED <<jobs, severed>> /\ Bookkeeping /\ DocsStay

FinishExport(x) ==
    /\ ExportAt(x, "finish")
    /\ LET done == jobs' = [jobs EXCEPT ![x] = [status |-> "DONE", hasFile |-> TRUE]]
       IN  \/ done /\ GotoExport(x, "mail") /\ UNCHANGED faults
           \/ Throws(x) /\ (done \/ UNCHANGED jobs)
    /\ UNCHANGED <<zips, severed>> /\ Bookkeeping /\ DocsStay

\* sendExportNotification, with the ZIP or a link to it: its errors are swallowed.
SendMail(x) ==
    /\ ExportAt(x, "mail")
    /\ GotoExport(x, "over")
    /\ UNCHANGED <<jobs, zips, faults, severed>> /\ Bookkeeping /\ DocsStay

\* Mutant: the handler leaves the status.
ForgetFailure(x) == UNCHANGED jobs

RecordFailure(x) == SetStatus(x, "FAILED")

\* Nobody catches an error of the handler itself: the process shuts down.
CatchExport(x) ==
    /\ ExportAt(x, "catch")
    /\ GotoExport(x, "over")
    /\ \/ RecordFailure(x) /\ UNCHANGED <<faults, severed, stopping>>
       \/ /\ Fault /\ severed' = severed \cup {x} /\ UNCHANGED jobs
          /\ \E same \in SUBSET (Alive \ {x}) : stopping' = stopping \cup same
    /\ UNCHANGED <<zips, cleaning, halfCleaned, overlapped>> /\ DocsStay

\* A server process dies, or stops at last, with the requests and tasks it ran.
CrashServer ==
    \E dead \in (SUBSET Alive) \ {{}} :
        /\ IF dead \subseteq stopping THEN UNCHANGED faults ELSE Fault
        /\ export' = [x \in Exports |-> IF x \in dead THEN [export[x] EXCEPT !.at = "over"] ELSE export[x]]
        /\ stopping' = stopping \ dead /\ severed' = severed \cup dead
        /\ UNCHANGED <<jobs, zips, cleaning, halfCleaned, overlapped>> /\ DocsStay

-----------------------------------------------------------------------------
(* cleanupExpiredExports and the reads.                                    *)

\* findExpiredDoneJobs; any DONE job may have come of age.
FindExpired(x) ==
    /\ jobs[x].status = "DONE" /\ cleaning[x] = "no"
    /\ cleaning' = [cleaning EXCEPT ![x] = IF jobs[x].hasFile THEN "object" ELSE "row"]
    /\ UNCHANGED <<export, jobs, zips, stopping, severed, halfCleaned, overlapped, faults>> /\ DocsStay

DeleteZip(x) == zips' = zips \ {x}

\* A failure leaves the job to the next day's run, with the ZIP or without it.
CleanObject(x) ==
    /\ cleaning[x] = "object"
    /\ \/ DeleteZip(x) /\ cleaning' = [cleaning EXCEPT ![x] = "row"] /\ UNCHANGED <<faults, halfCleaned>>
       \/ /\ Fault /\ cleaning' = [cleaning EXCEPT ![x] = "no"]
          /\ \/ UNCHANGED <<zips, halfCleaned>>
             \/ DeleteZip(x) /\ halfCleaned' = halfCleaned \cup {x}
    /\ UNCHANGED <<export, jobs, stopping, severed, overlapped>> /\ DocsStay

CleanRow(x) ==
    /\ cleaning[x] = "row"
    /\ \/ jobs' = [jobs EXCEPT ![x] = NoJob] /\ UNCHANGED <<faults, halfCleaned>>
       \/ Fault /\ halfCleaned' = halfCleaned \cup {x} /\ UNCHANGED jobs
    /\ cleaning' = [cleaning EXCEPT ![x] = "no"]
    /\ UNCHANGED <<export, zips, stopping, severed, overlapped>> /\ DocsStay

\* downloadExportFile answers with the ZIP, or fails in the storage.
Downloadable(x) == jobs[x].status = "DONE" /\ jobs[x].hasFile

-----------------------------------------------------------------------------
TaskStep(x) ==
    \/ CreateJob(x) \/ MarkProcessing(x) \/ Load(x) \/ UploadZip(x)
    \/ FinishExport(x) \/ SendMail(x) \/ CatchExport(x)

CleanStep(x) == FindExpired(x) \/ CleanObject(x) \/ CleanRow(x)

ExportNext ==
    \/ \E x \in Exports : TaskStep(x) \/ CleanStep(x)
    \/ \E x \in Exports, scope \in Scopes : StartExport(x, scope)
    \/ CrashServer

\* A process that is up goes on with what it runs.
ExportFairness == \A x \in Exports : WF_<<docsVars, exportVars>>(TaskStep(x))

\* What the user touches is no longer steady for the exports under way.
Unsteady(c) ==
    export' = [x \in Exports |-> [export[x] EXCEPT !.steady = @ \ {c}]]

-----------------------------------------------------------------------------
(* Properties.                                                             *)

\* An export of all conversations has each one that was there when it began and
\* that the user left alone, but for one as old to the millisecond as another one
\* it has: the cursor is a time only, and an import gives many the same time.
ExportMissesOnlyTies ==
    \A x \in Exports : ExportAt(x, "upload") /\ export[x].scope = All =>
        \A c \in export[x].steady :
            \E d \in Conversations : <<d, docs[c].updatedAt>> \in export[x].got

\* Two exports of one scope are under way only if both looked before either's row
\* was there.
SecondExportOnlyByRace ==
    \A x, y \in Exports :
        x # y /\ ExportActive(x) /\ ExportActive(y) /\ export[x].scope = export[y].scope =>
            {x, y} \subseteq overlapped

\* A job that can be downloaded has its ZIP, whatever failed while it was made, until
\* the cleanup has taken the ZIP and not yet the row; only a cleanup that fails with
\* the ZIP gone leaves a download that fails.
DownloadsHaveZip ==
    \A x \in Exports : Downloadable(x) => x \in zips \/ cleaning[x] = "row" \/ x \in halfCleaned

\* A job is active only while its task runs, unless the end of the task was lost.
ActiveJobsHaveTasks ==
    \A x \in Exports : ExportActive(x) => ~ExportAt(x, "over") \/ x \in severed

\* One export of a scope at a time, but for a race; no download without its ZIP; and
\* no job that stays active behind a task that recorded its end.
ExportsStand == SecondExportOnlyByRace /\ DownloadsHaveZip /\ ActiveJobsHaveTasks

\* An export comes to its end, DONE or FAILED, also when a step of it throws, unless
\* its process dies, the catch handler itself fails, or its request fails with the
\* row stored: then it is active for ever, and so every later export of the scope
\* conflicts.
ExportEnds ==
    \A x \in Exports : ExportActive(x) ~> (~ExportActive(x) \/ (ExportAt(x, "over") /\ x \in severed))
=============================================================================
