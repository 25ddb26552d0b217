------------------------------- MODULE UserFiles -------------------------------
(***************************************************************************)
(* The library files of one user: UserFileService over the rows of         *)
(* user_files, the objects in S3, the background job that summarises an    *)
(* upload, and the graph nodes made from the files.  Every await of a      *)
(* method is a step and other requests run in between.  A display name is  *)
(* a stem with the suffixes (1), (2).. that resolveDisplayName appends to  *)
(* it, and since names of different stems never clash there is one stem    *)
(* here: a name is its sequence of suffixes.                               *)
(***************************************************************************)
EXTENDS Naturals, Sequences, FiniteSets

CONSTANTS
    Files, Folders, Root,       \* ids of files and folders, the library's top (null)
    Requests,                   \* the requests that may run at once
    Keep,                       \* a field that a patch leaves out
    FileBucket, PayloadBucket,  \* S3_FILE_BUCKET and S3_PAYLOAD_BUCKET
    Typed,                      \* the names a client gives
    MaxCalls,                   \* bound on the requests made
    MaxFaults,                  \* bound on failures, lost answers and deaths
    MaxTasks                    \* bound on the graph tasks started

ASSUME UserFilesAssumption ==
    /\ Root \notin Folders /\ Keep \notin Folders \cup {Root}
    /\ Typed \subseteq Seq(Nat) /\ Keep \notin Typed
    /\ MaxCalls \in Nat /\ MaxFaults \in Nat /\ MaxTasks \in Nat

VARIABLES
    row,        \* per file, its document: state, folder, displayName, summaryStatus
    objects,    \* the objects of S3: pairs of a bucket and a file
    node,       \* per file, its node in the graph
    job,        \* per file, its summary job
    call,       \* per request, the method it runs
    task,       \* the graph task under way and the files it was given
    calls, faults, tasks,   \* counts against the bounds
    broken,     \* history: files a failed or repeated step was about
    raced       \* history: files named by a stale read, or moved under their own name

vars == <<row, objects, node, job, call, task, calls, faults, tasks, broken, raced>>

Places == Folders \cup {Root}
Unused == [state |-> "unused", folder |-> Root, name |-> <<>>, summary |-> "none"]
Idle == [op |-> "none", at |-> "idle", file |-> Keep, folder |-> Keep, name |-> Keep,
         own |-> <<>>, permanent |-> FALSE, stale |-> FALSE]
NoTask == [at |-> "none", files |-> {}]

Active(f) == row[f].state = "active"
Exists(f) == row[f].state \in {"active", "trashed"}
ActiveFiles == {f \in Files : Active(f)}
Original(f) == <<FileBucket, f>>

\* What readFileBytes and a presigned URL need besides the row.
Stored(f) == Original(f) \in objects

\* A library of active files: at gives each its folder and name.
InitWith(at) ==
    /\ row = [f \in Files |-> IF f \in DOMAIN at
                THEN [at[f] EXCEPT !.state = "active", !.summary = "completed"] ELSE Unused]
    /\ objects = {Original(f) : f \in DOMAIN at}
    /\ node = [f \in Files |-> IF f \in DOMAIN at THEN "active" ELSE "none"]
    /\ job = [f \in Files |-> "none"]
    /\ call = [r \in Requests |-> Idle]
    /\ task = NoTask
    /\ calls = 0 /\ faults = 0 /\ tasks = 0 /\ broken = {} /\ raced = {}

-----------------------------------------------------------------------------
(* Names.                                                                  *)

\* listActiveDisplayNamesInFolder.
NamesIn(d) == {row[f].name : f \in {g \in ActiveFiles : row[g].folder = d}}

resolveDisplayName(original, existing) ==
    IF original \notin existing THEN original
    ELSE LET free == {n \in 1..Cardinality(existing) + 1 : Append(original, n) \notin existing}
         IN  Append(original, CHOOSE n \in free : \A k \in free : n <= k)

-----------------------------------------------------------------------------
(* Book-keeping of calls.                                                  *)

At(r, op, step) == call[r].op = op /\ call[r].at = step
Running(r) == call[r].at # "idle"
Busy(f) == \E r \in Requests : Running(r) /\ call[r].file = f
Goto(r, step) == call' = [call EXCEPT ![r].at = step]
End(r) == call' = [call EXCEPT ![r] = Idle]
Fault == faults < MaxFaults /\ faults' = faults + 1

\* r ends with a name written: what the others have read is stale from now on.
EndNamed(r) ==
    call' = [q \in Requests |-> IF q = r THEN Idle
                ELSE IF call[q].at \in {"put", "insert", "update"} \/ At(q, "update", "names")
                        \/ At(q, "update", "folder")
                     THEN [call[q] EXCEPT !.stale = TRUE] ELSE call[q]]

\* Which of the free slots a request takes makes no difference.
Begin(r, c) ==
    /\ ~Running(r) /\ r = CHOOSE q \in Requests : ~Running(q)
    /\ calls < MaxCalls /\ calls' = calls + 1
    /\ call' = [call EXCEPT ![r] = c]
    /\ UNCHANGED <<row, objects, node, job, task, faults, tasks, broken, raced>>

Reading == UNCHANGED <<row, objects, node, job, task, calls, faults, tasks, broken, raced>>

-----------------------------------------------------------------------------
(* uploadFile.                                                             *)

\* The id is a ULID that nobody else has.
Upload(r, f, d, name) ==
    /\ row[f] = Unused /\ ~Busy(f) /\ ~Stored(f)
    /\ Begin(r, [Idle EXCEPT !.op = "upload", !.file = f, !.folder = d, !.name = name,
                             !.at = IF d = Root THEN "names" ELSE "folder"])

\* getFolder; NotFoundError when the folder is not there or in the trash, where
\* NoteService may put it at any time, and without a look at the files in it.
CheckFolder(r) ==
    /\ call[r].at = "folder"
    /\ Goto(r, "names") \/ End(r)
    /\ Reading

UploadNames(r) ==
    /\ At(r, "upload", "names")
    /\ call' = [call EXCEPT ![r] = [@ EXCEPT !.at = "put",
                    !.name = resolveDisplayName(call[r].name, NamesIn(call[r].folder))]]
    /\ Reading

PutObject(r) ==
    /\ At(r, "upload", "put")
    /\ objects' = objects \cup {Original(call[r].file)}
    /\ Goto(r, "insert")
    /\ UNCHANGED <<row, node, job, task, calls, faults, tasks, broken, raced>>

InsertRow(f, d, name) ==
    row' = [row EXCEPT ![f] = [state |-> "active", folder |-> d, name |-> name,
                               summary |-> "processing"]]

\* The row goes in and the summary job is queued (setImmediate).  When the answer
\* of the insert is lost the retry meets its own id: the upload fails, with its
\* row in place and no job.
Insert(r) ==
    LET f == call[r].file
    IN  /\ At(r, "upload", "insert")
        /\ InsertRow(f, call[r].folder, call[r].name)
        /\ \/ job' = [job EXCEPT ![f] = "queued"] /\ UNCHANGED <<faults, broken>>
           \/ Fault /\ broken' = broken \cup {f} /\ UNCHANGED job
        /\ raced' = IF call[r].stale THEN raced \cup {f} ELSE raced
        /\ EndNamed(r)
        /\ UNCHANGED <<objects, node, task, calls, tasks>>

-----------------------------------------------------------------------------
(* runSummaryJob.                                                          *)

JobStays == UNCHANGED <<objects, node, call, task, calls, tasks, broken, raced>>

\* The job looks for an active row, then reads the object.  summarizeUserLibraryFile
\* reads the payload bucket; an object that is there may still not yield a summary.
ReadForSummary(f) ==
    /\ job[f] = "queued"
    /\ \E result \in IF ~Active(f) THEN {"none"}
                     ELSE IF <<PayloadBucket, f>> \in objects THEN {"completed", "failed"}
                     ELSE {"missing"} :
           job' = [job EXCEPT ![f] = result]
    /\ UNCHANGED <<row, faults>> /\ JobStays

\* Mutant: only a success is saved.
OnlySuccess(f) == IF job[f] = "completed" THEN job[f] ELSE row[f].summary

SummaryOf(f) == job[f]

\* updateById, on an active row only.
SaveSummary(f) ==
    /\ job[f] \in {"completed", "failed", "missing"}
    /\ row' = IF Active(f) THEN [row EXCEPT ![f].summary = SummaryOf(f)] ELSE row
    /\ job' = [job EXCEPT ![f] = "none"]
    /\ UNCHANGED faults /\ JobStays

\* The process dies, or the database fails for good.  Nothing queues the job again.
LoseJob(f) ==
    /\ job[f] # "none" /\ Fault
    /\ job' = [job EXCEPT ![f] = "none"]
    /\ broken' = broken \cup {f}
    /\ UNCHANGED <<row, objects, node, call, task, calls, tasks, raced>>

-----------------------------------------------------------------------------
(* updateFile.                                                             *)

\* A patch names the file, moves it, or both; the row is read first.
Update(r, f, name, d) ==
    /\ Exists(f) /\ ~(name = Keep /\ d = Keep)
    /\ Begin(r, [Idle EXCEPT !.op = "update", !.at = "get", !.file = f, !.name = name, !.folder = d])

\* A patch that has a folder names it even when it is the one the file is in.
UpdateGet(r) ==
    LET c == call[r]
        doc == row[c.file]
        d == IF c.folder = Keep THEN doc.folder ELSE c.folder
    IN  /\ At(r, "update", "get")
        /\ IF ~Active(c.file) THEN End(r)
           ELSE call' = [call EXCEPT ![r] = [@ EXCEPT !.own = doc.name, !.folder = d,
                            !.at = IF c.folder \in Folders THEN "folder" ELSE "names"]]
        /\ Reading

\* Mutant: a file that only moves keeps its name.
KeepName(own, name, existing) ==
    IF name = Keep THEN own ELSE resolveDisplayName(name, existing \ {own})

\* The name the row gets.  Its own name as it was read does not count as taken
\* when the patch names the file, and does when it only moves it.
NewName(own, name, existing) ==
    IF name = Keep THEN resolveDisplayName(own, existing)
    ELSE resolveDisplayName(name, existing \ {own})

UpdateNames(r) ==
    LET c == call[r]
        name == NewName(c.own, c.name, NamesIn(c.folder))
        unseen == c.name # Keep /\ name = c.own /\ row[c.file].folder # c.folder
    IN  /\ At(r, "update", "names")
        /\ call' = [call EXCEPT ![r] = [@ EXCEPT !.at = "update", !.name = name,
                                                 !.stale = c.stale \/ unseen]]
        /\ Reading

UpdateRow(r) ==
    LET c == call[r]
    IN  /\ At(r, "update", "update")
        /\ IF Active(c.file)
           THEN /\ row' = [row EXCEPT ![c.file].name = c.name, ![c.file].folder = c.folder]
                /\ raced' = IF c.stale THEN raced \cup {c.file} ELSE raced
                /\ EndNamed(r)
           ELSE End(r) /\ UNCHANGED <<row, raced>>
        /\ UNCHANGED <<objects, node, job, task, calls, faults, tasks, broken>>

-----------------------------------------------------------------------------
(* deleteFile.                                                             *)

Delete(r, f, permanent) ==
    /\ Exists(f)
    /\ Begin(r, [Idle EXCEPT !.op = "delete", !.at = "get", !.file = f, !.permanent = permanent])

\* Mutant: the object goes before the row.
ObjectBeforeRow(at, permanent) ==
    CASE at = "get" -> IF permanent THEN "object" ELSE "row"
      [] at = "object" -> "row"
      [] OTHER -> "node"

StepAfter(at, permanent) ==
    CASE at = "get" -> "row"
      [] at = "row" /\ permanent -> "object"
      [] OTHER -> "node"

Continue(r) == Goto(r, StepAfter(call[r].at, call[r].permanent))

DeleteGet(r) ==
    /\ At(r, "delete", "get")
    /\ IF IF call[r].permanent THEN Exists(call[r].file) ELSE Active(call[r].file)
       THEN Continue(r) ELSE End(r)
    /\ Reading

\* hardDelete and softDelete tell by their count whether they found the row: when
\* the first answer is lost the retry finds nothing, and the method stops there.
DeleteRow(r) ==
    LET f == call[r].file
        found == IF call[r].permanent THEN Exists(f) ELSE Active(f)
    IN  /\ At(r, "delete", "row")
        /\ row' = IF ~found THEN row
                  ELSE [row EXCEPT ![f].state = IF call[r].permanent THEN "gone" ELSE "trashed"]
        /\ \/ (IF found THEN Continue(r) ELSE End(r)) /\ UNCHANGED <<faults, broken>>
           \/ found /\ Fault /\ End(r) /\ broken' = broken \cup {f}
        /\ UNCHANGED <<objects, node, job, task, calls, tasks, raced>>

\* A failure of S3 is swallowed and leaves the object.
DeleteObject(r) ==
    LET f == call[r].file
    IN  /\ At(r, "delete", "object")
        /\ Continue(r)
        /\ \/ objects' = objects \ {Original(f)} /\ UNCHANGED <<faults, broken>>
           \/ Fault /\ broken' = broken \cup {f} /\ UNCHANGED objects
        /\ UNCHANGED <<row, node, job, task, calls, tasks, raced>>

\* Mutant: the deletion is soft whatever was asked.
SoftNode(f, permanent) == IF node[f] = "none" THEN "none" ELSE "trashed"

\* GraphManagementService.deleteNodesByOrigIds.
DeletedNode(f, permanent) == IF permanent \/ node[f] = "none" THEN "none" ELSE "trashed"

DeleteNode(r) ==
    /\ At(r, "delete", "node")
    /\ node' = [node EXCEPT ![call[r].file] = DeletedNode(call[r].file, call[r].permanent)]
    /\ End(r)
    /\ UNCHANGED <<row, objects, job, task, calls, faults, tasks, broken, raced>>

\* Whether request r has written something and has more to write.
HalfDone(r) ==
    At(r, "upload", "insert") \/ At(r, "delete", "object") \/ At(r, "delete", "node")

\* A step fails for good or the process dies: what was done stays done.  Before the
\* first write that is a request that comes to nothing, as if it never went on.
Break(r) ==
    /\ HalfDone(r) /\ Fault
    /\ End(r)
    /\ broken' = broken \cup {call[r].file}
    /\ UNCHANGED <<row, objects, node, job, task, calls, tasks, raced>>

-----------------------------------------------------------------------------
(* The graph tasks.                                                        *)

TaskStep == UNCHANGED <<row, objects, job, call, calls, faults, raced>>

\* A graph task lists the active files and copies their objects to its bundle: one
\* whose object is gone by then fails the request, which leaves no trace.
SendTask ==
    /\ task = NoTask /\ tasks < MaxTasks /\ tasks' = tasks + 1
    /\ ActiveFiles # {} /\ \A f \in ActiveFiles : Stored(f)
    /\ task' = [at |-> "sent", files |-> ActiveFiles]
    /\ UNCHANGED <<node, broken>> /\ TaskStep

\* The result has a node for every file given, the handler's backfill makes sure of
\* it.  A file that is not active by then makes the handler refuse the result.
ResolveResult ==
    /\ task.at = "sent"
    /\ task' = IF task.files \subseteq ActiveFiles THEN [task EXCEPT !.at = "resolved"] ELSE NoTask
    /\ UNCHANGED <<node, tasks, broken>> /\ TaskStep

\* A file deleted since its source was resolved gets a node all the same.
WriteNodes ==
    /\ task.at = "resolved"
    /\ node' = [f \in Files |-> IF f \in task.files THEN "active" ELSE node[f]]
    /\ broken' = broken \cup (task.files \ ActiveFiles)
    /\ task' = NoTask
    /\ UNCHANGED tasks /\ TaskStep

-----------------------------------------------------------------------------
Step(r) ==
    \/ CheckFolder(r) \/ UploadNames(r) \/ PutObject(r) \/ Insert(r)
    \/ UpdateGet(r) \/ UpdateNames(r) \/ UpdateRow(r)
    \/ DeleteGet(r) \/ DeleteRow(r) \/ DeleteObject(r) \/ DeleteNode(r)

Job(f) == ReadForSummary(f) \/ SaveSummary(f)

Request(r, f) ==
    \/ \E d \in Places, name \in Typed : Upload(r, f, d, name)
    \/ \E d \in Places \cup {Keep}, name \in Typed \cup {Keep} : Update(r, f, name, d)
    \/ \E permanent \in BOOLEAN : Delete(r, f, permanent)

Next ==
    \/ \E r \in Requests, f \in Files : Request(r, f)
    \/ \E r \in Requests : Step(r) \/ Break(r)
    \/ \E f \in Files : Job(f) \/ LoseJob(f)
    \/ SendTask \/ ResolveResult \/ WriteNodes

\* A job that setImmediate has queued runs.
Fairness == \A f \in Files : WF_vars(Job(f))

-----------------------------------------------------------------------------
(* Properties.                                                             *)

Clash(f, g) == f # g /\ Active(f) /\ Active(g) /\ row[f].folder = row[g].folder
               /\ row[f].name = row[g].name

\* Two active files of a folder have the same name only if one of them was named
\* from a list that another request had made stale, or moved under its own name.
ClashOnlyByRaceOrMove == \A f, g \in Files : Clash(f, g) => f \in raced \/ g \in raced

\* A row always has its object, in the trash too; and an object whose row is gone
\* is there only while a request works on it or after a step of one failed.
ObjectsFollowRows ==
    \A f \in Files :
        /\ Exists(f) => Stored(f)
        /\ Stored(f) => Exists(f) \/ Busy(f) \/ f \in broken

\* Once the requests about a file are over, a trashed file has no active node and
\* a file that is gone has none, unless a step failed or the file was deleted
\* between the check of a graph result and its write.
NodesFollowFiles ==
    \A f \in Files : Busy(f) \/ f \in broken \/
        /\ row[f].state = "trashed" => node[f] # "active"
        /\ row[f].state = "gone" => node[f] = "none"

\* No summary is under way for ever, as long as no process dies and no answer is lost.
SummaryEnds ==
    \A f \in Files : row[f].summary = "processing"
        ~> row[f].summary # "processing" \/ ~Active(f) \/ f \in broken

=============================================================================
