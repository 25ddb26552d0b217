------------------------------- MODULE Notes -------------------------------
(***************************************************************************)
(* The notes and folders of one user: NoteService over                     *)
(* NoteRepositoryMongo, the graph nodes made from the notes, and the daily *)
(* cleanup of the trash.  A document is live while its deletedAt is null,  *)
(* in the trash while it has one, and gone once hard-deleted.  Several     *)
(* requests run at once; deleteFolder and restoreFolder read outside the   *)
(* session of their transaction, so what they read may be old when they    *)
(* commit.                                                                 *)
(***************************************************************************)
EXTENDS Naturals, FiniteSets

CONSTANTS
    Folders, Notes,         \* ids of folders and notes
    Requests, Cron,         \* the requests that may run at once, the cleanup job
    NULL,
    Retention,              \* how long the trash is kept (30 days)
    MaxNow,                 \* bound on the clock
    MaxRequests,            \* bound on the requests made
    MaxStops                \* bound on calls cut short

ASSUME NotesAssumption ==
    /\ Retention \in Nat /\ MaxNow \in Nat /\ MaxRequests \in Nat /\ MaxStops \in Nat
    /\ Cron \notin Requests /\ NULL \notin Folders \cup Notes

VARIABLES
    folder, note,   \* the two collections: NULL or the document
    node,           \* per note, its node in the graph
    now,            \* the server's clock
    call,           \* per caller, the service method it runs
    cleanup,        \* the cleanup job: what it found and has still to purge
    made, stops,    \* how many requests were made, how many calls cut short
    due,            \* history: documents ever kept in the trash past the retention
    loose           \* history: notes whose node the properties except

docs == <<folder, note>>
vars == <<docs, node, now, call, cleanup, made, stops, due, loose>>

Callers == Requests \cup {Cron}
Times == 0..MaxNow

Live(doc) == doc # NULL /\ doc.deletedAt = NULL
Trashed(doc) == doc # NULL /\ doc.deletedAt # NULL

Steps == {"idle", "target", "parent", "descendants", "notes", "write", "commit", "graph"}
Idle == [op |-> "none", at |-> "idle", item |-> NULL, permanent |-> FALSE,
         parent |-> NULL, folders |-> {}, notes |-> {}, stale |-> FALSE]
NoCleanup == [at |-> "idle", cutoff |-> 0, notes |-> {}, folders |-> {}]

\* A library that earlier requests left: parentOf gives each folder its parent,
\* folderOf each note its folder, and those of trash were put there a retention ago;
\* the other ids are not used yet.
InitWith(parentOf, folderOf, trash) ==
    /\ folder = [f \in Folders |-> IF f \in DOMAIN parentOf
                    THEN [parent |-> parentOf[f], deletedAt |-> IF f \in trash THEN 0 ELSE NULL]
                    ELSE NULL]
    /\ note = [n \in Notes |-> IF n \in DOMAIN folderOf
                    THEN [folderId |-> folderOf[n], deletedAt |-> IF n \in trash THEN 0 ELSE NULL]
                    ELSE NULL]
    /\ node = [n \in Notes |-> IF n \notin DOMAIN folderOf THEN "none"
                               ELSE IF n \in trash THEN "trash" ELSE "live"]
    /\ now = Retention
    /\ call = [p \in Callers |-> Idle]
    /\ cleanup = NoCleanup
    /\ made = 0 /\ stops = 0
    /\ due = {} /\ loose = {}

-----------------------------------------------------------------------------
(* What the queries of the repository and of the graph store do.           *)

Children(fs) == {g \in Folders : folder[g] # NULL /\ folder[g].parent \in fs}

\* $graphLookup over parentId, trashed folders included: the least set that
\* holds the children of f and its own children; empty if f is gone.
findDescendantFolderIds(f) ==
    {g \in Folders : folder[f] # NULL /\ \A fs \in SUBSET Folders :
        Children({f}) \cup Children(fs) \subseteq fs => g \in fs}

NotesIn(fs) == {n \in Notes : note[n] # NULL /\ note[n].folderId \in fs}

listNotesByFolderIds(fs, includeDeleted) ==
    {n \in NotesIn(fs) : includeDeleted \/ Live(note[n])}

Expired(doc, cutoff) == Trashed(doc) /\ doc.deletedAt + Retention < cutoff

SetNotes(ns, at) ==
    note' = [n \in Notes |-> IF n \in ns THEN [note[n] EXCEPT !.deletedAt = at] ELSE note[n]]
DropNotes(ns) == note' = [n \in Notes |-> IF n \in ns THEN NULL ELSE note[n]]

deleteNodesByOrigIds(ns, permanent) ==
    node' = [n \in Notes |-> IF n \notin ns \/ node[n] = "none" THEN node[n]
                             ELSE IF permanent THEN "none" ELSE "trash"]
restoreNodesByOrigIds(ns) ==
    node' = [n \in Notes |-> IF n \in ns /\ node[n] = "trash" THEN "live" ELSE node[n]]

-----------------------------------------------------------------------------
(* Book-keeping of calls.                                                  *)

Running(p) == call[p].at # "idle"
At(p, op, step) == call[p].op = op /\ call[p].at = step

\* p reads: only its own call changes.
Goto(p, c) == call' = [call EXCEPT ![p] = c]

\* p writes documents: what every other running call has read is now old.
GotoWrite(p, c) ==
    call' = [q \in Callers |-> IF q = p THEN c
                ELSE IF Running(q) THEN [call[q] EXCEPT !.stale = TRUE] ELSE call[q]]

\* Notes with a graph change still to come from a call other than p.
PendingElsewhere(p) == UNION {call[q].notes : q \in {r \in Callers \ {p} : call[r].at = "graph"}}

Excuse(ns) == loose' = loose \cup ns

MakeRequest == made < MaxRequests /\ made' = made + 1

\* A request that is one database operation.
Single == MakeRequest /\ GotoWrite(NULL, Idle) /\ UNCHANGED <<now, cleanup, stops, due>>

\* Request p begins a method of several steps.
Begin(p, op, item, permanent, step) ==
    /\ p \in Requests /\ ~Running(p) /\ MakeRequest
    /\ Goto(p, [Idle EXCEPT !.op = op, !.at = step, !.item = item, !.permanent = permanent])
    /\ UNCHANGED <<docs, node, now, cleanup, stops, due, loose>>

Reading == UNCHANGED <<docs, node, now, cleanup, made, stops, due, loose>>
Writing == UNCHANGED <<now, cleanup, made, stops, due>>
-----------------------------------------------------------------------------
(* Notes.                                                                  *)

\* The folder a note or folder is put in is whatever the client names.
Targets == Folders \cup {NULL}

createNote(n, f) ==
    /\ note[n] = NULL
    /\ Single
    /\ note' = [note EXCEPT ![n] = [folderId |-> f, deletedAt |-> NULL]]
    /\ Excuse({n} \cap PendingElsewhere(NULL))
    /\ UNCHANGED <<folder, node>>

updateNote(n, f) ==
    /\ Live(note[n])
    /\ Single
    /\ note' = [note EXCEPT ![n].folderId = f]
    /\ UNCHANGED <<folder, node, loose>>

\* deleteNote: the document, then its node.  softDeleteNote finds only a live
\* note, hardDeleteNote any.
DeleteNote(p, n, permanent) ==
    /\ ~Running(p)
    /\ IF permanent THEN note[n] # NULL /\ DropNotes({n})
                    ELSE Live(note[n]) /\ SetNotes({n}, now)
    /\ GotoWrite(p, [Idle EXCEPT !.op = "deleteNote", !.at = "graph", !.item = n,
                                 !.permanent = permanent, !.notes = {n}])
    /\ Excuse({n} \cap PendingElsewhere(p))

deleteNote(p, n, permanent) ==
    /\ MakeRequest
    /\ DeleteNote(p, n, permanent)
    /\ UNCHANGED <<folder, node, now, cleanup, stops, due>>

DeleteNode(p) ==
    /\ At(p, "deleteNote", "graph")
    /\ deleteNodesByOrigIds(call[p].notes, call[p].permanent)
    /\ Goto(p, Idle)
    /\ Writing /\ UNCHANGED <<docs, loose>>

\* restoreNote reads the note, then its folder, then writes.
ReadNote(p) ==
    /\ At(p, "restoreNote", "target")
    /\ Goto(p, IF note[call[p].item] = NULL THEN Idle
               ELSE [call[p] EXCEPT !.parent = note[call[p].item].folderId,
                        !.at = IF note[call[p].item].folderId = NULL THEN "write" ELSE "parent"])
    /\ Reading

\* Mutant: a folder in the trash will do.
ReadParentAnyState(p) ==
    /\ call[p].at = "parent"
    /\ Goto(p, [call[p] EXCEPT
                  !.parent = IF folder[call[p].parent] # NULL THEN call[p].parent ELSE NULL,
                  !.at = IF call[p].op = "restoreNote" THEN "write" ELSE "descendants"])
    /\ Reading

\* A folder that is gone or in the trash is replaced by the root (also the
\* parent of a folder that restoreFolder restores).
ReadParent(p) ==
    /\ call[p].at = "parent"
    /\ Goto(p, [call[p] EXCEPT
                  !.parent = IF Live(folder[call[p].parent]) THEN call[p].parent ELSE NULL,
                  !.at = IF call[p].op = "restoreNote" THEN "write" ELSE "descendants"])
    /\ Reading

WriteRestoredNote(p) ==
    LET n == call[p].item IN
    /\ At(p, "restoreNote", "write")
    /\ IF Trashed(note[n])
         THEN /\ note' = [note EXCEPT ![n] = [folderId |-> call[p].parent, deletedAt |-> NULL]]
              /\ GotoWrite(p, [call[p] EXCEPT !.at = "graph", !.notes = {n}])
              /\ Excuse({n} \cap PendingElsewhere(p))
         ELSE Goto(p, Idle) /\ UNCHANGED <<note, loose>>
    /\ Writing /\ UNCHANGED <<folder, node>>

RestoreNode(p) ==
    /\ At(p, "restoreNote", "graph")
    /\ restoreNodesByOrigIds(call[p].notes)
    /\ Goto(p, Idle)
    /\ Writing /\ UNCHANGED <<docs, loose>>

\* No node is touched.
deleteAllNotes ==
    /\ Single
    /\ DropNotes(Notes)
    /\ Excuse(Notes)
    /\ UNCHANGED <<folder, node>>

-----------------------------------------------------------------------------
(* Folders.                                                                *)

createFolder(f, parent) ==
    /\ folder[f] = NULL
    /\ Single
    /\ folder' = [folder EXCEPT ![f] = [parent |-> parent, deletedAt |-> NULL]]
    /\ UNCHANGED <<note, node, loose>>

updateFolder(f, parent) ==
    /\ Live(folder[f])
    /\ Single
    /\ folder' = [folder EXCEPT ![f].parent = parent]
    /\ UNCHANGED <<note, node, loose>>

\* The callback of deleteFolder's transaction starts by looking for a live
\* folder: one in the trash is not found, permanent or not.
ReadFolderToDelete(p) ==
    /\ At(p, "deleteFolder", "target")
    /\ Goto(p, IF Live(folder[call[p].item]) THEN [call[p] EXCEPT !.at = "descendants"] ELSE Idle)
    /\ Reading

ReadFolderToRestore(p) ==
    LET f == folder[call[p].item] IN
    /\ At(p, "restoreFolder", "target")
    /\ Goto(p, IF f = NULL THEN Idle
               ELSE [call[p] EXCEPT !.parent = f.parent,
                        !.at = IF f.parent = NULL THEN "descendants" ELSE "parent"])
    /\ Reading

ReadDescendants(p) ==
    /\ call[p].at = "descendants"
    /\ Goto(p, [call[p] EXCEPT !.at = "notes",
                  !.folders = {call[p].item} \cup findDescendantFolderIds(call[p].item)])
    /\ Reading

\* Mutant: the notes of the folder itself, not of those below it.
ReadNotesOfTarget(p) ==
    /\ call[p].at = "notes"
    /\ Goto(p, [call[p] EXCEPT !.at = "commit",
                  !.notes = listNotesByFolderIds({call[p].item},
                                call[p].op = "restoreFolder" \/ call[p].permanent)])
    /\ Reading

ReadNotes(p) ==
    /\ call[p].at = "notes"
    /\ Goto(p, [call[p] EXCEPT !.at = "commit",
                  !.notes = listNotesByFolderIds(call[p].folders,
                                call[p].op = "restoreFolder" \/ call[p].permanent)])
    /\ Reading

\* The nodes changed from the list read before: those of notes that another
\* request wrote since are excepted.
ExcuseCommit(p) ==
    LET touched == call[p].notes \cup NotesIn(call[p].folders)
    IN Excuse((touched \cap PendingElsewhere(p)) \cup IF call[p].stale THEN touched ELSE {})

CommitDeleteFolder(p) ==
    LET c == call[p] IN
    /\ At(p, "deleteFolder", "commit")
    /\ IF c.permanent
         THEN DropNotes(NotesIn(c.folders)) /\ folder' = [f \in Folders |-> IF f \in c.folders
                                                            THEN NULL ELSE folder[f]]
         ELSE /\ SetNotes(NotesIn(c.folders), now)
              /\ folder' = [f \in Folders |-> IF f \in c.folders /\ folder[f] # NULL
                              THEN [folder[f] EXCEPT !.deletedAt = now] ELSE folder[f]]
    /\ deleteNodesByOrigIds(c.notes, c.permanent)
    /\ GotoWrite(p, Idle)
    /\ ExcuseCommit(p)
    /\ Writing

CommitRestoreFolder(p) ==
    LET c == call[p] IN
    /\ At(p, "restoreFolder", "commit")
    /\ SetNotes(NotesIn(c.folders), NULL)
    /\ folder' = [f \in Folders |-> IF f \in c.folders /\ folder[f] # NULL
                    THEN [parent |-> IF f = c.item THEN c.parent ELSE folder[f].parent,
                          deletedAt |-> NULL]
                    ELSE folder[f]]
    /\ restoreNodesByOrigIds(c.notes)
    /\ GotoWrite(p, Idle)
    /\ ExcuseCommit(p)
    /\ Writing

\* The graph store is no part of the transaction: it has been changed when the
\* commit fails and the callback runs again.
AbortCommit(p) ==
    /\ call[p].at = "commit"
    /\ stops < MaxStops /\ stops' = stops + 1
    /\ IF call[p].op = "deleteFolder" THEN deleteNodesByOrigIds(call[p].notes, call[p].permanent)
                                      ELSE restoreNodesByOrigIds(call[p].notes)
    /\ Goto(p, [Idle EXCEPT !.op = call[p].op, !.at = "target", !.item = call[p].item,
                            !.permanent = call[p].permanent])
    /\ Excuse(call[p].notes)
    /\ UNCHANGED <<docs, now, cleanup, made, due>>

\* No node is touched.
deleteAllFolders ==
    /\ Single
    /\ DropNotes(NotesIn(Folders))
    /\ folder' = [f \in Folders |-> NULL]
    /\ Excuse(NotesIn(Folders))
    /\ UNCHANGED node

-----------------------------------------------------------------------------
(* The cleanup job: cleanupExpiredNotesAndFolders, one item after another. *)

\* For the history: what has been in the trash longer than the retention at t.
PastRetention(doc, t) == Trashed(doc) /\ t - doc.deletedAt > Retention
AllPast(t) == {n \in Notes : PastRetention(note[n], t)} \cup {f \in Folders : PastRetention(folder[f], t)}

\* Mutant: the notes of folders are left to the purge of their folder.
FindExpiredRootNotes ==
    /\ cleanup.at = "idle"
    /\ cleanup' = [NoCleanup EXCEPT !.at = "folders", !.cutoff = now,
                     !.notes = {n \in Notes : Expired(note[n], now) /\ note[n].folderId = NULL}]
    /\ due' = AllPast(now)
    /\ UNCHANGED <<docs, node, now, call, made, stops, loose>>

FindExpiredNotes ==
    /\ cleanup.at = "idle"
    /\ cleanup' = [NoCleanup EXCEPT !.at = "folders", !.cutoff = now,
                                    !.notes = {n \in Notes : Expired(note[n], now)}]
    /\ due' = AllPast(now)
    /\ UNCHANGED <<docs, node, now, call, made, stops, loose>>

FindExpiredFolders ==
    /\ cleanup.at = "folders"
    /\ cleanup' = [cleanup EXCEPT !.at = "purge",
                                  !.folders = {f \in Folders : Expired(folder[f], cleanup.cutoff)}]
    /\ UNCHANGED <<docs, node, now, call, made, stops, due, loose>>

PurgeNote(n) ==
    /\ cleanup.at = "purge" /\ n \in cleanup.notes
    /\ DeleteNote(Cron, n, TRUE)
    /\ cleanup' = [cleanup EXCEPT !.notes = @ \ {n}]
    /\ UNCHANGED <<folder, node, now, made, stops, due>>

\* Not found: the error is logged and the next item is tried.
SkipNote(n) ==
    /\ cleanup.at = "purge" /\ n \in cleanup.notes
    /\ ~Running(Cron) /\ note[n] = NULL
    /\ cleanup' = [cleanup EXCEPT !.notes = @ \ {n}]
    /\ UNCHANGED <<docs, node, now, call, made, stops, due, loose>>

PurgeFolder(f) ==
    /\ cleanup.at = "purge" /\ cleanup.notes = {} /\ f \in cleanup.folders
    /\ ~Running(Cron)
    /\ Goto(Cron, [Idle EXCEPT !.op = "deleteFolder", !.at = "target", !.item = f,
                               !.permanent = TRUE])
    /\ cleanup' = [cleanup EXCEPT !.folders = @ \ {f}]
    /\ UNCHANGED <<docs, node, now, made, stops, due, loose>>

EndCleanup ==
    /\ cleanup.at = "purge" /\ cleanup.notes = {} /\ cleanup.folders = {} /\ ~Running(Cron)
    /\ cleanup' = NoCleanup
    /\ UNCHANGED <<docs, node, now, call, made, stops, due, loose>>

-----------------------------------------------------------------------------
(* Time and failures.                                                      *)

Tick ==
    /\ now < MaxNow
    /\ now' = now + 1
    /\ due' = due \cup AllPast(now + 1)
    /\ UNCHANGED <<docs, node, call, cleanup, made, stops, loose>>

\* The graph store cannot be reached, or the answer to the write was lost and
\* its retry does not find the note: the method throws before the node.
CutShort(p) ==
    /\ call[p].at = "graph"
    /\ stops < MaxStops /\ stops' = stops + 1
    /\ Goto(p, Idle)
    /\ Excuse(call[p].notes)
    /\ UNCHANGED <<docs, node, now, cleanup, made, due>>

Crash ==
    /\ stops < MaxStops /\ stops' = stops + 1
    /\ call' = [p \in Callers |-> Idle]
    /\ cleanup' = NoCleanup
    /\ Excuse(PendingElsewhere(NULL))
    /\ UNCHANGED <<docs, node, now, made, due>>

NoteStep(p) == DeleteNode(p) \/ ReadNote(p) \/ WriteRestoredNote(p) \/ RestoreNode(p)

FolderStep(p) ==
    \/ ReadFolderToDelete(p) \/ ReadFolderToRestore(p) \/ ReadParent(p)
    \/ ReadDescendants(p) \/ ReadNotes(p)
    \/ CommitDeleteFolder(p) \/ CommitRestoreFolder(p)

Request ==
    \/ \E n \in Notes, f \in Targets : createNote(n, f) \/ updateNote(n, f)
    \/ \E f \in Folders, g \in Targets : createFolder(f, g) \/ updateFolder(f, g)
    \/ deleteAllNotes \/ deleteAllFolders
    \/ \E p \in Requests, permanent \in BOOLEAN :
         \/ \E n \in Notes : deleteNote(p, n, permanent)
         \/ \E f \in Folders : Begin(p, "deleteFolder", f, permanent, "target")
    \/ \E p \in Requests :
         \/ \E n \in Notes : Begin(p, "restoreNote", n, FALSE, "target")
         \/ \E f \in Folders : Begin(p, "restoreFolder", f, FALSE, "target")

CleanupStep ==
    \/ FindExpiredNotes \/ FindExpiredFolders \/ EndCleanup
    \/ \E n \in Notes : PurgeNote(n) \/ SkipNote(n)
    \/ \E f \in Folders : PurgeFolder(f)
    \/ NoteStep(Cron) \/ FolderStep(Cron)

Next ==
    \/ Request \/ CleanupStep \/ Tick \/ Crash
    \/ \E p \in Requests : NoteStep(p) \/ FolderStep(p)
    \/ \E p \in Callers : AbortCommit(p) \/ CutShort(p)

\* node-cron runs the job every day and the job runs to its end.
Fairness == WF_vars(CleanupStep)

-----------------------------------------------------------------------------

StrayNotes == {n \in Notes : Live(note[n]) /\ note[n].folderId # NULL /\ ~Live(folder[note[n].folderId])}
StrayFolders == {f \in Folders : Live(folder[f]) /\ folder[f].parent # NULL /\ ~Live(folder[folder[f].parent])}

\* No deletion, restoration or purge leaves a live note or folder under one
\* that is not live, unless another request wrote a document while the method
\* was between its first read and its commit (createNote, updateNote and the
\* folder operations alike put things where the client says, unchecked).
TreeBreaksOnlyByRace ==
    [][\A p \in Callers : call'[p].at # call[p].at /\ ~call[p].stale
          => StrayNotes' \subseteq StrayNotes /\ StrayFolders' \subseteq StrayFolders]_vars

\* A note's node is live only while the note is, and in the trash only while
\* the note is, once no method has its node still to change: except for notes
\* of methods that failed between the two stores or overlapped another on the
\* note, and those that deleteAllNotes and deleteAllFolders removed.
NodesFollowNotes ==
    \A n \in Notes \ (loose \cup PendingElsewhere(NULL)) :
        /\ node[n] = "live" => Live(note[n])
        /\ node[n] = "trash" => Trashed(note[n])

\* A note kept in the trash past the retention does not stay there: it is
\* restored or removed for good.
ExpiredNotesPurged ==
    \A n \in Notes : PastRetention(note[n], now) ~> ~PastRetention(note[n], now)

=============================================================================
