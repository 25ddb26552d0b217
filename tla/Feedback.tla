------------------------------- MODULE Feedback -------------------------------
(***************************************************************************)
(* The users' feedback: FeedbackService over the table of feedbacks and    *)
(* the bucket of their attachments, and an administrator who walks through *)
(* the list page by page while others create, change and delete.           *)
(***************************************************************************)
EXTENDS Naturals, FiniteSets

CONSTANTS
    Ids, First,     \* ids of feedbacks, ordered as the database orders them, and those
                    \* of the feedbacks there are at first
    Requests, NULL,
    Limit,          \* the size of a page
    Given,          \* the statuses that a client gives
    MaxFiles,       \* the attachments that a request may bring
    MaxNow,         \* bound on the clock (createdAt has seconds)
    MaxCalls, MaxWalks, MaxFaults   \* bounds on requests, walks and failures

VARIABLES
    feedback,   \* per id, its row
    objects,    \* how many objects were uploaded: their keys are 1..objects
    call,       \* per request, what it does
    walk,       \* the administrator's walk: next page's cursor and what was shown
    now, calls, walks, faults,
    steady,     \* history: the feedbacks that were there ever since the walk began
    cut         \* history: whether the walk's cursor was deleted

vars == <<feedback, objects, call, walk, now, calls, walks, faults, steady, cut>>

FEEDBACK_STATUSES == {"UNREAD", "READ", "IN_PROGRESS", "DONE"}
DEFAULT_FEEDBACK_STATUS == "UNREAD"

Idle == [at |-> "idle", id |-> NULL, files |-> 0, attachments |-> {}, status |-> NULL]
NoWalk == [at |-> "none", cursor |-> NULL, shown |-> {}, twice |-> FALSE]

Stored(i) == feedback[i] # NULL
StoredIds == {i \in Ids : Stored(i)}
Running(r) == call[r] # Idle
At(r, step) == call[r].at = step
End(r) == call' = [call EXCEPT ![r] = Idle]
Fault == faults < MaxFaults /\ faults' = faults + 1

NewRow(attachments, t) ==
    [status |-> DEFAULT_FEEDBACK_STATUS, attachments |-> attachments, createdAt |-> t]

Init ==
    /\ feedback = [i \in Ids |-> IF i \in First THEN NewRow({}, 0) ELSE NULL] /\ objects = 0
    /\ call = [r \in Requests |-> Idle] /\ walk = NoWalk
    /\ now = 0 /\ calls = 0 /\ walks = 0 /\ faults = 0 /\ steady = {} /\ cut = FALSE

Begin(r, c) ==
    /\ ~Running(r) /\ r = CHOOSE q \in Requests : ~Running(q)
    /\ calls < MaxCalls /\ calls' = calls + 1
    /\ call' = [call EXCEPT ![r] = c]
    /\ UNCHANGED <<feedback, objects, walk, now, walks, faults, steady, cut>>

-----------------------------------------------------------------------------
(* Creating: the files are uploaded one after another, then the row is     *)
(* written.  What was uploaded stays, whether or not the row follows.      *)

CreateFeedback(r, n) == Begin(r, [Idle EXCEPT !.at = IF n = 0 THEN "insert" ELSE "upload", !.files = n])

UploadFile(r) ==
    /\ At(r, "upload")
    /\ objects' = objects + 1
    /\ call' = [call EXCEPT ![r].files = @ - 1,
                            ![r].attachments = @ \cup {objects + 1},
                            ![r].at = IF call[r].files = 1 THEN "insert" ELSE "upload"]
    /\ UNCHANGED <<feedback, walk, now, calls, walks, faults, steady, cut>>

Insert(r, i) ==
    /\ At(r, "insert") /\ ~Stored(i) /\ End(r)
    /\ feedback' = [feedback EXCEPT ![i] = NewRow(call[r].attachments, now)]
    /\ UNCHANGED <<objects, walk, now, calls, walks, faults, steady, cut>>

-----------------------------------------------------------------------------
(* Changing and deleting: find the row, then write it.  Of two requests    *)
(* that found it the later may find it gone, and fails.                    *)

UpdateFeedbackStatus(r, i, s) ==
    /\ s \in FEEDBACK_STATUSES
    /\ Begin(r, [Idle EXCEPT !.at = "find", !.id = i, !.status = s])

DeleteFeedback(r, i) == Begin(r, [Idle EXCEPT !.at = "find", !.id = i])

FindExisting(r) ==
    /\ At(r, "find")
    /\ IF Stored(call[r].id)
       THEN call' = [call EXCEPT ![r].at = IF call[r].status = NULL THEN "delete" ELSE "update"]
       ELSE End(r)
    /\ UNCHANGED <<feedback, objects, walk, now, calls, walks, faults, steady, cut>>

WriteStatus(r) ==
    LET i == call[r].id IN
    /\ At(r, "update") /\ End(r)
    /\ feedback' = IF Stored(i) THEN [feedback EXCEPT ![i].status = call[r].status] ELSE feedback
    /\ UNCHANGED <<objects, walk, now, calls, walks, faults, steady, cut>>

\* The attachments' objects stay.
DeleteRow(r) ==
    LET i == call[r].id IN
    /\ At(r, "delete") /\ End(r)
    /\ feedback' = [feedback EXCEPT ![i] = NULL]
    /\ steady' = steady \ {i}
    /\ cut' = (cut \/ (walk.at = "open" /\ walk.cursor = i))
    /\ UNCHANGED <<objects, walk, now, calls, walks, faults>>

\* An upload or the database fails, or the process dies.
Fail(r) ==
    /\ Running(r) /\ End(r) /\ Fault
    /\ UNCHANGED <<feedback, objects, walk, now, calls, walks, steady, cut>>

-----------------------------------------------------------------------------
(* The list, newest first.                                                 *)

Precedes(i, j) ==
    \/ feedback[i].createdAt > feedback[j].createdAt
    \/ feedback[i].createdAt = feedback[j].createdAt /\ i > j

\* Mutant: a page begins strictly before the cursor's time.
LaterOnly(cursor) ==
    IF cursor = NULL THEN StoredIds
    ELSE {i \in StoredIds : Stored(cursor) /\ feedback[i].createdAt < feedback[cursor].createdAt}

\* Nothing comes after a cursor that is gone.
From(cursor) ==
    IF cursor = NULL THEN StoredIds
    ELSE {i \in StoredIds : Stored(cursor) /\ Precedes(cursor, i)}

findAll(cursor) ==
    LET rest == From(cursor)
        items == {i \in rest : Cardinality({j \in rest : Precedes(j, i)}) < Limit}
    IN  [items |-> items,
         nextCursor |-> IF Cardinality(rest) > Limit
                        THEN CHOOSE i \in items : \A j \in items \ {i} : Precedes(j, i) ELSE NULL]

OpenList ==
    /\ walk.at # "open" /\ walks < MaxWalks /\ walks' = walks + 1
    /\ walk' = [NoWalk EXCEPT !.at = "open"]
    /\ steady' = StoredIds /\ cut' = FALSE
    /\ UNCHANGED <<feedback, objects, call, now, calls, faults>>

ListFeedbacks ==
    LET page == findAll(walk.cursor) IN
    /\ walk.at = "open"
    /\ walk' = [at |-> IF page.nextCursor = NULL THEN "done" ELSE "open",
                cursor |-> page.nextCursor,
                shown |-> walk.shown \cup page.items,
                twice |-> walk.twice \/ walk.shown \cap page.items # {}]
    /\ UNCHANGED <<feedback, objects, call, now, calls, walks, faults, steady, cut>>

Tick ==
    /\ now < MaxNow /\ now' = now + 1
    /\ UNCHANGED <<feedback, objects, call, walk, calls, walks, faults, steady, cut>>

Next ==
    \/ \E r \in Requests, n \in 0..MaxFiles : CreateFeedback(r, n)
    \/ \E r \in Requests : UploadFile(r) \/ FindExisting(r) \/ WriteStatus(r) \/ DeleteRow(r) \/ Fail(r)
    \/ \E r \in Requests, i \in Ids : Insert(r, i) \/ DeleteFeedback(r, i)
    \/ \E r \in Requests, i \in Ids, s \in Given : UpdateFeedbackStatus(r, i, s)
    \/ OpenList \/ ListFeedbacks \/ Tick

Spec == Init /\ [][Next]_vars

-----------------------------------------------------------------------------
\* A walk that came to its end has shown every feedback that was there all the while,
\* and none twice, whatever was created, changed and deleted beside it, unless the last
\* feedback of a page was deleted before the next page was asked for: the list then ends.
WalkShowsAll ==
    walk.at = "done" /\ ~cut => steady \subseteq walk.shown /\ ~walk.twice
=============================================================================
