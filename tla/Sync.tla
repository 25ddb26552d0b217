-------------------------------- MODULE Sync --------------------------------
(***************************************************************************)
(* How the devices of a user keep up with the server: SyncService.pull and *)
(* push, the lists a device reads page by page, and the requests that      *)
(* write notes, folders, conversations and messages meanwhile.  A write is *)
(* stamped when its repository method runs and seen when Mongo has applied *)
(* it or its transaction has committed.  A pull runs one query for each    *)
(* collection, in any order, and takes its serverTime after the last; the  *)
(* device passes that time as the since of its next pull.  Pulls and lists *)
(* only read and do not meet: a behaviour has pulls or has lists.          *)
(***************************************************************************)
EXTENDS Naturals, FiniteSets

CONSTANTS
    Notes, Folders, Convs, Msgs,    \* ids
    ConvOf,                         \* the conversation of each message
    Devices, Writers,               \* who pulls, and the requests that may run at once
    NULL,
    ListLimit,                      \* 20 where the client gives no limit
    MaxNow, MaxWrites, MaxPulls,    \* bounds on the clock, the writes and the pulls
    Batches,                        \* bound: what one push may carry
    MaxPages                        \* bound on the lists read

\* An id is of one collection, and there are finitely many.
ASSUME SyncAssumption ==
    /\ IsFiniteSet(Notes \cup Folders \cup Convs \cup Msgs) /\ NULL \notin Nat
    /\ Notes \cap Folders = {} /\ (Notes \cup Folders) \cap (Convs \cup Msgs) = {}
    /\ Convs \cap Msgs = {}
    /\ ConvOf \in [Msgs -> Convs] /\ ListLimit \in Nat \ {0}
    /\ MaxNow \in Nat \ {0} /\ MaxWrites \in Nat /\ MaxPulls \in Nat
    /\ Batches \subseteq SUBSET (Notes \cup Folders \cup Convs \cup Msgs) /\ MaxPages \in Nat

Chats == INSTANCE MongoDocs
Repo == INSTANCE MongoDocs

VARIABLES
    note, folder, conv, msg,    \* the collections
    now,                        \* the clock of the server processes, from 1
    call,                       \* per writer, the request it runs
    copy,                       \* per device, the edit it has of each document
    since,                      \* per device and kind of pull, the last serverTime
    pull,                       \* per device, the pull under way
    list,                       \* a list that a device reads page by page
    made, pulls, lists,         \* how many writes, pulls and lists there were
    missed,                     \* history: per device, documents written while it pulled
    alone                       \* history: messages pushed without their conversation

allDocs == <<note, folder, conv, msg>>
reader == <<copy, since, pull, pulls>>
syncVars == <<allDocs, now, call, reader, list, made, lists, missed, alone>>

Ids == Notes \cup Folders \cup Convs \cup Msgs
Times == 0..MaxNow
Kinds == {"chat", "notes"}
KindOf(i) == IF i \in Convs \cup Msgs THEN "chat" ELSE "notes"

\* A document of any collection: place is a note's or folder's folder, a message's
\* conversation; edit tells one content from another.
New(place, edit) == [place |-> place, createdAt |-> 0, updatedAt |-> 0, deletedAt |-> NULL,
                     edit |-> edit]

Doc(i) == IF i \in Notes THEN note[i] ELSE IF i \in Folders THEN folder[i]
          ELSE IF i \in Convs THEN conv[i] ELSE msg[i]

\* What a read by id finds: a live document.
LiveDoc(i) == IF i \in Notes THEN Repo!getNote(note, i, FALSE)
              ELSE IF i \in Folders THEN Repo!getFolder(folder, i, FALSE)
              ELSE IF i \in Convs THEN Chats!findById(conv, i) ELSE Chats!findMessageById(msg, i)
Live(i) == LiveDoc(i) # NULL

NoCall == [op |-> "none", ids |-> {}, place |-> NULL, permanent |-> FALSE, stamp |-> 0,
           edit |-> 0, edited |-> 0, folders |-> {}, seen |-> [i \in Ids |-> NULL]]
NoPull == [kinds |-> {}, since |-> 0, left |-> {}, found |-> [i \in Ids |-> NULL], serverTime |-> 0]
NoList == [of |-> "none", place |-> NULL, cursor |-> 0, seen |-> {}, cursors |-> {},
           steady |-> {}, more |-> FALSE]

\* What earlier requests left: the documents of kept, of time 1; a device is new or
\* has pulled them all.
InitWith(kept, placeOf) ==
    LET stored(ids) == [i \in ids |-> IF i \in kept
                            THEN [New(placeOf[i], 0) EXCEPT !.createdAt = 1, !.updatedAt = 1]
                            ELSE NULL]
    IN
    /\ note = stored(Notes) /\ folder = stored(Folders)
    /\ conv = stored(Convs) /\ msg = stored(Msgs)
    /\ now = 1
    /\ call = [w \in Writers |-> NoCall]
    /\ \E told \in SUBSET Devices :
         /\ copy = [d \in Devices |-> [i \in Ids |-> IF d \in told /\ i \in kept THEN 0 ELSE NULL]]
         /\ since = [d \in Devices |-> [k \in Kinds |-> IF d \in told THEN 1 ELSE 0]]
    /\ pull = [d \in Devices |-> NoPull]
    /\ list = NoList
    /\ made = 0 /\ pulls = 0 /\ lists = 0
    /\ missed = [d \in Devices |-> {}] /\ alone = {}

-----------------------------------------------------------------------------
(* Writes.  A request checks what it checks and takes its stamp; then the  *)
(* write, or the transaction of all its writes, takes effect.              *)

Idle(w) == call[w].op = "none"
At(w, op) == call[w].op = op
Pulling(d) == pull[d].kinds # {}

\* Which of the idle writers runs a request makes no difference.
Begin(w, c) ==
    /\ Idle(w) /\ w = CHOOSE v \in Writers : Idle(v)
    /\ made < MaxWrites /\ made' = made + 1
    /\ call' = [call EXCEPT ![w] = [c EXCEPT !.stamp = now, !.edit = made + 1]]
    /\ UNCHANGED <<allDocs, now, reader, list, lists, missed, alone>>

\* The write may not be seen by a device: its pull is past a query, or its last
\* serverTime past the stamp.
Overlaps(d, i, stamp) == KindOf(i) \in pull[d].kinds \/ since[d][KindOf(i)] > stamp

\* Messages that are not written with their conversation, which comes back from the
\* trash without them, or takes a time that the device's pulls have passed.
LeftBehind(d, written, stamp) ==
    {m \in Msgs \ written : /\ ConvOf[m] \in written
                            /\ ~Live(ConvOf[m]) \/ since[d]["chat"] > stamp}

\* For the histories: what each device may miss of what is written under stamp; the
\* items a reader of the list saw change.
Recorded(written, stamp) ==
    /\ missed' = [d \in Devices |-> (missed[d] \ written) \cup LeftBehind(d, written, stamp)
                                    \cup {i \in written : Overlaps(d, i, stamp)}]
    /\ list' = [list EXCEPT !.steady = @ \ written]

End(w) == call' = [call EXCEPT ![w] = NoCall]

Done(w, written) ==
    /\ Recorded(written, call[w].stamp)
    /\ End(w)
    /\ UNCHANGED <<now, reader, made, lists>>

\* The request ends with an error and has written nothing.
Refuse(w) ==
    /\ End(w)
    /\ UNCHANGED <<allDocs, now, reader, list, made, lists, missed, alone>>

\* One note, or several with one stamp; the folder is whatever the client names.
CreateNotes(w, ns, f) == Begin(w, [NoCall EXCEPT !.op = "createNotes", !.ids = ns, !.place = f])

CommitCreateNotes(w) ==
    LET c == call[w] IN
    /\ At(w, "createNotes")
    /\ IF Repo!StoredIds(note, c.ids) # {} THEN Refuse(w)
       ELSE /\ note' = Repo!createNotes(note, c.ids, New(c.place, c.edit), c.stamp)
            /\ Done(w, c.ids)
            /\ UNCHANGED <<folder, conv, msg, alone>>

\* The requests on one note: update, delete, restore.
ChangeNote(w, op, n, f, permanent) ==
    Begin(w, [NoCall EXCEPT !.op = op, !.ids = {n}, !.place = f, !.permanent = permanent])

\* restoreNote reads the note and its folder first; a folder in the trash gives
\* way to the root.
RestoreNote(w, n) ==
    /\ note[n] # NULL
    /\ LET f == note[n].place
       IN  ChangeNote(w, "restoreNote", n,
               IF f # NULL /\ Repo!getFolder(folder, f, FALSE) # NULL THEN f ELSE NULL, FALSE)

NoteAfter(c, n) ==
    CASE c.op = "updateNote" ->
           Repo!updateNote(note, n, [place |-> c.place, edit |-> c.edit], c.stamp)
      [] c.op = "deleteNote" -> IF c.permanent THEN Repo!hardDeleteNote(note, n)
                                ELSE Repo!softDeleteNote(note, n, c.stamp)
      [] c.op = "restoreNote" -> Repo!restoreNote(note, n, c.place, c.stamp)

CommitNote(w) ==
    /\ call[w].op \in {"updateNote", "deleteNote", "restoreNote"}
    /\ \E n \in call[w].ids :
         /\ note' = NoteAfter(call[w], n)
         /\ Done(w, IF note'[n] # note[n] THEN {n} ELSE {})
    /\ UNCHANGED <<folder, conv, msg, alone>>

CreateFolder(w, f) == Begin(w, [NoCall EXCEPT !.op = "createFolder", !.ids = {f}])

CommitCreateFolder(w) ==
    LET c == call[w] IN
    /\ At(w, "createFolder")
    /\ IF Repo!StoredIds(folder, c.ids) # {} THEN Refuse(w)
       ELSE \E f \in c.ids :
            /\ folder' = Repo!createFolder(folder, f, New(c.place, c.edit), c.stamp)
            /\ Done(w, {f})
            /\ UNCHANGED <<note, conv, msg, alone>>

UpdateFolder(w, f) == Begin(w, [NoCall EXCEPT !.op = "updateFolder", !.ids = {f}])

CommitUpdateFolder(w) ==
    LET c == call[w] IN
    /\ At(w, "updateFolder")
    /\ \E f \in c.ids :
         /\ folder' = Repo!updateFolder(folder, f, [edit |-> c.edit], c.stamp)
         /\ Done(w, IF folder'[f] # folder[f] THEN {f} ELSE {})
    /\ UNCHANGED <<note, conv, msg, alone>>

\* deleteFolder finds a live folder only, restoreFolder any; both read the folders
\* below it outside the session of their transaction.
BeginFolder(w, op, f, permanent) ==
    /\ Repo!getFolder(folder, f, op = "restoreFolder") # NULL
    /\ Begin(w, [NoCall EXCEPT !.op = op, !.ids = {f}, !.permanent = permanent,
                   !.folders = {f} \cup Repo!findDescendantFolderIds(folder, f)])

CommitDeleteFolder(w) ==
    LET c == call[w] IN
    /\ At(w, "deleteFolder")
    /\ IF c.permanent
       THEN /\ note' = Repo!hardDeleteNotesByFolderIds(note, c.folders)
            /\ folder' = Repo!hardDeleteFolders(folder, c.folders)
       ELSE /\ note' = Repo!softDeleteNotesByFolderIds(note, c.folders, c.stamp)
            /\ folder' = Repo!softDeleteFolders(folder, c.folders, c.stamp)
    /\ Done(w, c.folders \cup Repo!listNotesByFolderIds(note, c.folders, TRUE))
    /\ UNCHANGED <<conv, msg, alone>>

\* The parent of the folders of this module is the root.
CommitRestoreFolder(w) ==
    LET c == call[w] IN
    /\ At(w, "restoreFolder")
    /\ note' = Repo!restoreNotesByFolderIds(note, c.folders, c.stamp)
    /\ \E f \in c.ids : folder' = Repo!restoreFolders(folder, c.folders, f, NULL, c.stamp)
    /\ Done(w, c.folders \cup Repo!listNotesByFolderIds(note, c.folders, TRUE))
    /\ UNCHANGED <<conv, msg, alone>>

-----------------------------------------------------------------------------
(* Conversations and messages (ChatManagementService).                     *)

CreateConversation(w, c, ms) ==
    Begin(w, [NoCall EXCEPT !.op = "createConversation", !.ids = {c} \cup ms, !.place = c])

CommitCreateConversation(w) ==
    LET r == call[w]
        ms == r.ids \cap Msgs
    IN
    /\ At(w, "createConversation")
    /\ IF Chats!StoredIds(conv, r.ids \cap Convs) # {} \/ Chats!StoredIds(msg, ms) # {} THEN Refuse(w)
       ELSE /\ conv' = Chats!create(conv, r.place, New(NULL, r.edit), r.stamp)
            /\ msg' = Chats!createMessages(msg, ms, New(r.place, r.edit), r.stamp)
            /\ alone' = alone \ r.ids
            /\ Done(w, r.ids)
            /\ UNCHANGED <<note, folder>>

\* A conversation as a whole: updated, or deleted or restored with all its messages.
ChangeConversation(w, op, c, permanent) ==
    Begin(w, [NoCall EXCEPT !.op = op, !.ids = {c}, !.place = c, !.permanent = permanent])

CommitConversation(w) ==
    LET r == call[w]
        c == r.place
        ms == IF r.op = "updateConversation" \/ conv[c] = NULL THEN {} ELSE Chats!messagesOf(msg, {c})
    IN
    /\ r.op \in {"updateConversation", "deleteConversation", "restoreConversation"}
    /\ conv' = CASE r.op = "updateConversation" -> Chats!update(conv, c, [edit |-> r.edit], r.stamp)
                 [] r.op = "restoreConversation" -> Chats!restore(conv, c, r.stamp)
                 [] OTHER -> IF r.permanent THEN Chats!hardDelete(conv, c)
                             ELSE Chats!softDelete(conv, c, r.stamp)
    /\ msg' = IF ms = {} THEN msg
              ELSE IF r.op = "restoreConversation"
                   THEN Chats!restoreAllByConversationId(msg, c, r.stamp)
              ELSE IF r.permanent THEN Chats!hardDeleteAllByConversationId(msg, c)
              ELSE Chats!softDeleteAllByConversationId(msg, c, r.stamp)
    /\ alone' = alone \ ms
    /\ Done(w, {c} \cup ms)
    /\ UNCHANGED <<note, folder>>

\* A message: its live conversation is looked up first.
ChangeMessage(w, op, m, permanent) ==
    /\ Chats!findById(conv, ConvOf[m]) # NULL
    /\ Begin(w, [NoCall EXCEPT !.op = op, !.ids = {m}, !.place = ConvOf[m], !.permanent = permanent])

MessageAfter(r, m) ==
    CASE r.op = "createMessage" -> Chats!createMessages(msg, {m}, New(r.place, r.edit), r.stamp)
      [] r.op = "updateMessage" -> Chats!updateMessageDoc(msg, m, [edit |-> r.edit], r.stamp)
      [] r.op = "restoreMessage" -> Chats!restoreMessageDoc(msg, m, r.stamp)
      [] r.op = "deleteMessage" -> IF r.permanent THEN Chats!hardDeleteMessage(msg, m)
                                   ELSE Chats!softDeleteMessage(msg, m, r.stamp)

\* Mutant: a message leaves its conversation's updatedAt alone.
Untouched(r) == conv

\* The conversation is given the message's time, if there still is one.
Touched(r) == Chats!update(conv, r.place, <<>>, r.stamp)

CommitMessage(w) ==
    LET r == call[w] IN
    /\ r.op \in {"createMessage", "updateMessage", "deleteMessage", "restoreMessage"}
    /\ \E m \in r.ids :
         IF (msg[m] = NULL) # (r.op = "createMessage") THEN Refuse(w)
         ELSE /\ msg' = MessageAfter(r, m)
              /\ conv' = Touched(r)
              /\ alone' = alone \ {m}
              /\ Done(w, {m, r.place})
              /\ UNCHANGED <<note, folder>>

-----------------------------------------------------------------------------
(* SyncService.push: the live documents are looked up, then one            *)
(* transaction writes the items that are newer.                            *)

Push(w, items, edited, permanent) ==
    Begin(w, [NoCall EXCEPT !.op = "push", !.ids = items, !.edited = edited, !.permanent = permanent,
                !.seen = [i \in Ids |-> IF i \in items /\ Live(i) THEN Doc(i).updatedAt ELSE NULL]])

\* Last write wins, by what was read.
Newer(c) == {i \in c.ids : c.seen[i] = NULL \/ c.seen[i] < c.edited}
Inserts(c) == {i \in c.ids : c.seen[i] = NULL}

\* What a device sends of a document.  The mappers of conversations and messages
\* put a placeholder, 0, where a note or folder has the device's createdAt.
Pushed(c, i) ==
    [place |-> IF i \in Msgs THEN ConvOf[i] ELSE NULL, edit |-> c.edit, updatedAt |-> c.edited,
     createdAt |-> IF i \in Convs \cup Msgs THEN 0 ELSE 1,
     deletedAt |-> IF c.permanent THEN c.edited ELSE NULL]

\* An item not seen becomes what its insert makes of it, any other what its update
\* does.
Upsert(C, c, inserted, updated) ==
    [i \in DOMAIN C |-> IF i \notin Newer(c) THEN C[i]
                        ELSE IF i \in Inserts(c) THEN inserted[i] ELSE updated[i]]

\* A document in the trash, or made since, has the id of an insert: the duplicate
\* key takes the whole push back.
CommitPush(w) ==
    LET c == call[w] IN
    /\ At(w, "push")
    /\ IF \E i \in Inserts(c) : Doc(i) # NULL THEN Refuse(w)
       ELSE
       /\ note' = Upsert(note, c, [n \in Notes |-> Repo!createNote(note, n, Pushed(c, n), c.stamp)[n]],
                                  [n \in Notes |-> Repo!updateNote(note, n, Pushed(c, n), c.stamp)[n]])
       /\ folder' = Upsert(folder, c,
                           [f \in Folders |-> Repo!createFolder(folder, f, Pushed(c, f), c.stamp)[f]],
                           [f \in Folders |-> Repo!updateFolder(folder, f, Pushed(c, f), c.stamp)[f]])
       /\ conv' = Upsert(conv, c, [i \in Convs |-> Chats!create(conv, i, Pushed(c, i), c.stamp)[i]],
                                  [i \in Convs |-> Chats!update(conv, i, Pushed(c, i), c.stamp)[i]])
       /\ msg' = Upsert(msg, c,
                        [m \in Msgs |-> Chats!createMessages(msg, {m}, Pushed(c, m), c.stamp)[m]],
                        [m \in Msgs |-> Chats!updateMessageDoc(msg, m, Pushed(c, m), c.stamp)[m]])
       /\ alone' = (alone \ Newer(c)) \cup {m \in Newer(c) \cap Msgs : ConvOf[m] \notin Newer(c)}
       /\ Done(w, Newer(c))

-----------------------------------------------------------------------------
(* Pulls.                                                                  *)

Collections(kinds) == (IF "chat" \in kinds THEN {"conv", "msg"} ELSE {})
                      \cup IF "notes" \in kinds THEN {"note", "folder"} ELSE {}

\* pull asks for both kinds, pullConversations and pullNotes for one; no since is 0.
\* With one parameter for both kinds a device gives the older of its times.
StartPull(d, kinds) ==
    /\ ~Pulling(d) /\ lists = 0 /\ pulls < MaxPulls /\ pulls' = pulls + 1
    /\ pull' = [pull EXCEPT ![d] = [NoPull EXCEPT !.kinds = kinds, !.left = Collections(kinds),
                  !.since = CHOOSE t \in {since[d][k] : k \in kinds} :
                              \A k \in kinds : t <= since[d][k]]]
    /\ UNCHANGED <<allDocs, now, call, copy, since, list, made, lists, missed, alone>>

Found(name, t) ==
    CASE name = "note" -> Repo!findNotesModifiedSince(note, t)
      [] name = "folder" -> Repo!findFoldersModifiedSince(folder, t)
      [] name = "conv" -> Chats!findModifiedSince(conv, t)
      [] name = "msg" -> Chats!findMessagesModifiedSince(msg, t)

\* One of the queries of Promise.all; documents in the trash are filtered out.
Query(d, name) ==
    LET p == pull[d]
        ids == {i \in Found(name, p.since) : Live(i)}
    IN
    /\ name \in p.left
    /\ pull' = [pull EXCEPT ![d] =
         [p EXCEPT !.left = p.left \ {name},
                   !.found = [i \in Ids |-> IF i \in ids THEN Doc(i).edit ELSE p.found[i]],
                   !.serverTime = IF p.left = {name} THEN now ELSE 0]]
    /\ UNCHANGED <<allDocs, now, call, copy, since, pulls, list, made, lists, missed, alone>>

\* A message is in the answer only within its conversation.
Answered(p, i) == p.found[i] # NULL /\ (i \in Msgs => p.found[ConvOf[i]] # NULL)

ReceivePull(d) ==
    LET p == pull[d] IN
    /\ Pulling(d) /\ p.left = {}
    /\ copy' = [copy EXCEPT ![d] = [i \in Ids |-> IF Answered(p, i) THEN p.found[i] ELSE @[i]]]
    /\ since' = [since EXCEPT ![d] = [k \in Kinds |-> IF k \in p.kinds THEN p.serverTime ELSE @[k]]]
    /\ pull' = [pull EXCEPT ![d] = NoPull]
    /\ UNCHANGED <<allDocs, now, call, pulls, list, made, lists, missed, alone>>

\* The request fails or its answer is lost: the device keeps what it has.
LosePull(d) ==
    /\ Pulling(d)
    /\ pull' = [pull EXCEPT ![d] = NoPull]
    /\ UNCHANGED <<allDocs, now, call, copy, since, pulls, list, made, lists, missed, alone>>

-----------------------------------------------------------------------------
(* Lists.                                                                  *)

ListNames == {"notes", "trashNotes", "folders", "trashFolders", "trashConversations"}

\* What a list shows, as long as nobody changes it.
Listed(of, place) ==
    CASE of = "notes" -> {n \in Notes : Live(n) /\ note[n].place = place}
      [] of = "folders" -> {f \in Folders : Live(f) /\ folder[f].place = place}
      [] of = "trashNotes" -> Repo!TrashIds(note)
      [] of = "trashFolders" -> Repo!TrashIds(folder)
      [] of = "trashConversations" -> Chats!TrashIds(conv)

OpenList(of, place) ==
    /\ list.of = "none" /\ pulls = 0 /\ lists < MaxPages /\ lists' = lists + 1
    /\ list' = [NoList EXCEPT !.of = of, !.place = place, !.more = TRUE, !.steady = Listed(of, place)]
    /\ UNCHANGED <<allDocs, now, call, reader, made, missed, alone>>

Pages ==
    CASE list.of = "notes" -> Repo!listNotes(note, list.place, ListLimit, list.cursor)
      [] list.of = "folders" -> Repo!listFolders(folder, list.place, ListLimit, list.cursor)
      [] list.of = "trashNotes" -> Repo!listTrashNotes(note, ListLimit, list.cursor)
      [] list.of = "trashFolders" -> Repo!listTrashFolders(folder, ListLimit, list.cursor)
      [] list.of = "trashConversations" -> Chats!listTrashByOwner(conv, ListLimit, list.cursor)

\* Mutant: a page that is not full has a cursor, a full one has none.
StopWhenFull(P, C) == IF Cardinality(P) = ListLimit THEN 0 ELSE Repo!NextCursorOf(C, P, ListLimit)

CursorAfter(P, C) == Repo!NextCursorOf(C, P, ListLimit)

ReadPage ==
    /\ list.more
    /\ \E P \in Pages :
         LET next == CursorAfter(P, [i \in P |-> Doc(i)]) IN
         list' = [list EXCEPT !.seen = @ \cup P, !.cursor = next, !.more = next # 0,
                              !.cursors = @ \cup {next}]
    /\ UNCHANGED <<allDocs, now, call, reader, made, lists, missed, alone>>

CloseList ==
    /\ list.of # "none"
    /\ list' = NoList
    /\ UNCHANGED <<allDocs, now, call, reader, made, lists, missed, alone>>

-----------------------------------------------------------------------------
Tick ==
    /\ now < MaxNow /\ now' = now + 1
    /\ UNCHANGED <<allDocs, call, reader, list, made, lists, missed, alone>>

\* A failed write, a server process that dies or an aborted transaction.
Fail(w) == ~Idle(w) /\ Refuse(w)

Targets == Folders \cup {NULL}

\* The trash is listed whole.
ListPlaces(of) == IF of \in {"notes", "folders"} THEN Targets ELSE {NULL}

WriteNotes(w) ==
    \/ \E f \in Targets : \/ \E ns \in (SUBSET Notes) \ {{}} : CreateNotes(w, ns, f)
                          \/ \E n \in Notes : ChangeNote(w, "updateNote", n, f, FALSE)
    \/ \E n \in Notes : \/ RestoreNote(w, n)
                        \/ \E p \in BOOLEAN : ChangeNote(w, "deleteNote", n, NULL, p)
    \/ \E f \in Folders : \/ CreateFolder(w, f) \/ UpdateFolder(w, f)
                          \/ BeginFolder(w, "restoreFolder", f, FALSE)
                          \/ \E p \in BOOLEAN : BeginFolder(w, "deleteFolder", f, p)

WriteChats(w) ==
    \/ \E c \in Convs :
         \/ \E ms \in SUBSET {m \in Msgs : ConvOf[m] = c} : CreateConversation(w, c, ms)
         \/ \E op \in {"updateConversation", "restoreConversation"} : ChangeConversation(w, op, c, FALSE)
         \/ \E p \in BOOLEAN : ChangeConversation(w, "deleteConversation", c, p)
    \/ \E m \in Msgs :
         \/ \E op \in {"createMessage", "updateMessage", "restoreMessage"} : ChangeMessage(w, op, m, FALSE)
         \/ \E p \in BOOLEAN : ChangeMessage(w, "deleteMessage", m, p)

WritePush(w) ==
    \E items \in Batches, edited \in 1..now, p \in BOOLEAN : Push(w, items, edited, p)

Commit(w) ==
    \/ CommitCreateNotes(w) \/ CommitNote(w) \/ CommitCreateFolder(w) \/ CommitUpdateFolder(w)
    \/ CommitDeleteFolder(w) \/ CommitRestoreFolder(w)
    \/ CommitCreateConversation(w) \/ CommitConversation(w) \/ CommitMessage(w) \/ CommitPush(w)

SyncNext ==
    \/ \E w \in Writers : WriteNotes(w) \/ WriteChats(w) \/ WritePush(w) \/ Commit(w) \/ Fail(w)
    \/ \E d \in Devices :
         \/ \E kinds \in (SUBSET Kinds) \ {{}} : StartPull(d, kinds)
         \/ \E name \in Collections(Kinds) : Query(d, name)
         \/ ReceivePull(d) \/ LosePull(d)
    \/ \E of \in ListNames : \E f \in ListPlaces(of) : OpenList(of, f)
    \/ ReadPage \/ CloseList \/ Tick

-----------------------------------------------------------------------------
(* Properties.                                                             *)

\* A live document that a device has not got in its last edit.
Lacks(d, i) == Live(i) /\ copy[d][i] # Doc(i).edit

\* The next pull of its kind finds it; a message only with its conversation.
Comes(d, i) == /\ Doc(i).updatedAt >= since[d][KindOf(i)]
               /\ i \in Msgs => /\ Live(ConvOf[i])
                                /\ conv[ConvOf[i]].updatedAt >= since[d]["chat"]

\* What a device lacks its next pull brings, unless it was written while a pull of
\* that device was under way, or is a message that was pushed on its own, whose
\* conversation is not live, or came back or took an older time without it.
PullMissesOnlyOverlaps ==
    \A d \in Devices, i \in Ids :
        Lacks(d, i) => \/ Comes(d, i) \/ i \in missed[d] \/ i \in alone
                       \/ i \in Msgs /\ ~Live(ConvOf[i])

\* A list read to its end has shown all that was in it from first to last, except
\* items last updated at the very time of the last item of a page.
ListMissesOnlyTies ==
    list.of # "none" /\ ~list.more =>
        \A i \in list.steady : i \in list.seen \/ Doc(i).updatedAt \in list.cursors

\* What readers of changing documents miss for good is one of the cases above, for
\* the pulls of a device (SyncService) as for the lists of a page (the repositories).
OnlyOverlapsAndTiesAreMissed == PullMissesOnlyOverlaps /\ ListMissesOnlyTies

=============================================================================
