------------------------------ MODULE MongoDocs ------------------------------
(***************************************************************************)
(* What the repositories of notes, folders, conversations and messages do  *)
(* to a collection: a function from ids to documents, NULL where there is  *)
(* none.  A document is live while its deletedAt is null.  Every write     *)
(* stamps updatedAt with the clock of the process that makes it.  First    *)
(* the operations the repositories share, then their methods.              *)
(***************************************************************************)
EXTENDS Naturals, FiniteSets

CONSTANT NULL

Live(d) == d # NULL /\ d.deletedAt = NULL
InTrash(d) == d # NULL /\ d.deletedAt # NULL

LiveIds(C) == {i \in DOMAIN C : Live(C[i])}
TrashIds(C) == {i \in DOMAIN C : InTrash(C[i])}
StoredIds(C, ids) == {i \in ids : C[i] # NULL}

\* insertMany: both times are the repository's, whatever the document says.
Inserted(C, ids, doc, t) ==
    [i \in DOMAIN C |-> IF i \in ids THEN [doc EXCEPT !.createdAt = t, !.updatedAt = t] ELSE C[i]]

\* $set of updates: updatedAt is the repository's, every other field as given.
Merged(doc, updates, t) ==
    [x \in DOMAIN doc |-> IF x = "updatedAt" THEN t
                          ELSE IF x \in DOMAIN updates THEN updates[x] ELSE doc[x]]

SetAll(C, ids, updates, t) ==
    [i \in DOMAIN C |-> IF i \in ids /\ C[i] # NULL THEN Merged(C[i], updates, t) ELSE C[i]]

\* deleteMany.
Removed(C, ids) == [i \in DOMAIN C |-> IF i \in ids THEN NULL ELSE C[i]]

ModifiedSince(C, since) == {i \in DOMAIN C : C[i] # NULL /\ C[i].updatedAt >= since}

\* The pages that a query sorted by updatedAt alone may return: those found that
\* were updated before the cursor (0: none given), the last updated first.
PagesOf(C, found, limit, cursor) ==
    LET rest == {i \in found : cursor = 0 \/ C[i].updatedAt < cursor}
        size == IF Cardinality(rest) < limit THEN Cardinality(rest) ELSE limit
    IN  {P \in SUBSET rest : /\ Cardinality(P) = size
                             /\ \A i \in P, j \in rest \ P : C[i].updatedAt >= C[j].updatedAt}

\* The time of the last item of a full page; 0 says that there are no more.
NextCursorOf(C, page, limit) ==
    IF Cardinality(page) < limit THEN 0
    ELSE CHOOSE t \in {C[i].updatedAt : i \in page} : \A i \in page : t <= C[i].updatedAt

-----------------------------------------------------------------------------
(* NoteRepositoryMongo: what each method returns or makes of the           *)
(* collection of notes N or of folders F, at time t.                       *)

\* A new note or folder is live whatever its document says.
createNote(N, n, doc, t) == Inserted(N, {n}, [doc EXCEPT !.deletedAt = NULL], t)
createNotes(N, ns, doc, t) == Inserted(N, ns, [doc EXCEPT !.deletedAt = NULL], t)

getNote(N, n, includeDeleted) == IF includeDeleted \/ Live(N[n]) THEN N[n] ELSE NULL

listNotes(N, f, limit, cursor) ==
    PagesOf(N, {n \in LiveIds(N) : N[n].place = f}, limit, cursor)
listTrashNotes(N, limit, cursor) == PagesOf(N, TrashIds(N), limit, cursor)
findNotesModifiedSince(N, since) == ModifiedSince(N, since)
listNotesByFolderIds(N, fs, includeDeleted) ==
    {n \in DOMAIN N : getNote(N, n, includeDeleted) # NULL /\ N[n].place \in fs}

\* Only a live note is updated or put in the trash, only one in the trash restored,
\* but any is deleted for good.
updateNote(N, n, updates, t) == SetAll(N, {n} \cap LiveIds(N), updates, t)
softDeleteNote(N, n, t) == SetAll(N, {n} \cap LiveIds(N), [deletedAt |-> t], t)
hardDeleteNote(N, n) == Removed(N, {n})
restoreNote(N, n, f, t) == SetAll(N, {n} \cap TrashIds(N), [deletedAt |-> NULL, place |-> f], t)

\* The notes of folders are taken in whatever state they are.
softDeleteNotesByFolderIds(N, fs, t) ==
    SetAll(N, listNotesByFolderIds(N, fs, TRUE), [deletedAt |-> t], t)
hardDeleteNotesByFolderIds(N, fs) == Removed(N, listNotesByFolderIds(N, fs, TRUE))
restoreNotesByFolderIds(N, fs, t) ==
    SetAll(N, listNotesByFolderIds(N, fs, TRUE), [deletedAt |-> NULL], t)

createFolder(F, f, doc, t) == Inserted(F, {f}, [doc EXCEPT !.deletedAt = NULL], t)
getFolder(F, f, includeDeleted) == IF includeDeleted \/ Live(F[f]) THEN F[f] ELSE NULL
listFolders(F, parent, limit, cursor) ==
    PagesOf(F, {f \in LiveIds(F) : F[f].place = parent}, limit, cursor)
listTrashFolders(F, limit, cursor) == PagesOf(F, TrashIds(F), limit, cursor)
findFoldersModifiedSince(F, since) == ModifiedSince(F, since)
updateFolder(F, f, updates, t) == SetAll(F, {f} \cap LiveIds(F), updates, t)

\* $graphLookup over parentId, in whatever state: the least set that holds the
\* children of f and its own children; empty if f is gone.
findDescendantFolderIds(F, f) ==
    LET children(fs) == {g \in DOMAIN F : F[g] # NULL /\ F[g].place \in fs}
    IN  {g \in DOMAIN F : F[f] # NULL /\ \A fs \in SUBSET DOMAIN F :
            children({f}) \cup children(fs) \subseteq fs => g \in fs}

softDeleteFolders(F, fs, t) == SetAll(F, fs, [deletedAt |-> t], t)
hardDeleteFolders(F, fs) == Removed(F, fs)
restoreFolders(F, fs, f, parent, t) ==
    SetAll(SetAll(F, fs, [deletedAt |-> NULL], t), {f}, [place |-> parent], t)

-----------------------------------------------------------------------------
(* ConversationRepositoryMongo and MessageRepositoryMongo: the same of     *)
(* conversations C and messages M.  A message's place is its conversation. *)
(* Updates and deletions find a document in whatever state it is, reads    *)
(* only a live one.                                                        *)

create(C, c, doc, t) == Inserted(C, {c}, doc, t)
findById(C, c) == IF Live(C[c]) THEN C[c] ELSE NULL
listTrashByOwner(C, limit, cursor) == PagesOf(C, TrashIds(C), limit, cursor)
findModifiedSince(C, since) == ModifiedSince(C, since)
update(C, c, updates, t) == SetAll(C, {c}, updates, t)
softDelete(C, c, t) == SetAll(C, {c}, [deletedAt |-> t], t)
hardDelete(C, c) == Removed(C, {c})
restore(C, c, t) == SetAll(C, {c}, [deletedAt |-> NULL], t)

createMessages(M, ms, doc, t) == Inserted(M, ms, doc, t)
findMessageById(M, m) == IF Live(M[m]) THEN M[m] ELSE NULL
messagesOf(M, cs) == {m \in DOMAIN M : M[m] # NULL /\ M[m].place \in cs}
findMessagesModifiedSince(M, since) == ModifiedSince(M, since)
updateMessageDoc(M, m, updates, t) == SetAll(M, {m}, updates, t)
softDeleteMessage(M, m, t) == SetAll(M, {m}, [deletedAt |-> t], t)
hardDeleteMessage(M, m) == Removed(M, {m})
restoreMessageDoc(M, m, t) == SetAll(M, {m}, [deletedAt |-> NULL], t)
softDeleteAllByConversationId(M, c, t) == SetAll(M, messagesOf(M, {c}), [deletedAt |-> t], t)
hardDeleteAllByConversationId(M, c) == Removed(M, messagesOf(M, {c}))
restoreAllByConversationId(M, c, t) == SetAll(M, messagesOf(M, {c}), [deletedAt |-> NULL], t)
=============================================================================
