--------------------------- MODULE ConversationDocs ---------------------------
(***************************************************************************)
(* The conversation documents of one user as the transfers see them: when  *)
(* each was last updated, whether it is in the trash, and the pages that   *)
(* ConversationRepositoryMongo.listByOwner returns.  Every write has a time *)
(* of its own, but the documents of one createMany share theirs.           *)
(***************************************************************************)
EXTENDS Naturals, FiniteSets

CONSTANTS
    Conversations,  \* their ids, in the order of _id
    PageSize,       \* EXPORT_LIST_PAGE_SIZE
    MaxEdits,       \* bound on what the user does meanwhile
    MaxFaults       \* bound on failures, lost answers and deaths

ASSUME ConversationDocsAssumption ==
    /\ Conversations \subseteq Nat /\ PageSize \in Nat \ {0}
    /\ MaxEdits \in Nat /\ MaxFaults \in Nat

VARIABLES
    docs,       \* per conversation, its document
    clock,      \* Date.now()
    edits, faults,
    destroyed   \* history: what the user deleted for good

docsVars == <<docs, clock, edits, faults, destroyed>>

NoDoc == [state |-> "none", updatedAt |-> 0]
Exists(c) == docs[c].state # "none"
Active(c) == docs[c].state = "active"

\* A conversation of each age but for the ids that are not in use yet, and what is
\* left to happen.
InitDocs(used, editsLeft, faultsLeft) ==
    /\ docs = [c \in Conversations |->
                 IF c \in used THEN [state |-> "active", updatedAt |-> c] ELSE NoDoc]
    /\ clock = Cardinality(Conversations) + 1
    /\ edits = MaxEdits - editsLeft /\ faults = MaxFaults - faultsLeft /\ destroyed = {}

Fault == faults < MaxFaults /\ faults' = faults + 1

-----------------------------------------------------------------------------
\* Mutant: sorted the other way.
OldestFirst(c, d) ==
    \/ docs[c].updatedAt < docs[d].updatedAt
    \/ docs[c].updatedAt = docs[d].updatedAt /\ c < d

\* The order of a listing: the last updated first, then by id.
Before(c, d) ==
    \/ docs[c].updatedAt > docs[d].updatedAt
    \/ docs[c].updatedAt = docs[d].updatedAt /\ c < d

\* The first page (cursor 0), or what was last updated before the cursor.
listByOwner(cursor) ==
    LET found == {c \in Conversations :
                    Active(c) /\ (cursor = 0 \/ docs[c].updatedAt < cursor)}
    IN  {c \in found : Cardinality({d \in found : Before(d, c)}) < PageSize}

\* A full page gives its last item's time as the next cursor, 0 says there is none.
NextCursor(page) ==
    IF Cardinality(page) < PageSize THEN 0
    ELSE docs[CHOOSE c \in page : \A d \in page \ {c} : Before(d, c)].updatedAt

-----------------------------------------------------------------------------
Write(cs, state) ==
    /\ docs' = [c \in Conversations |->
                  IF c \in cs THEN [state |-> state, updatedAt |-> clock] ELSE docs[c]]
    /\ clock' = clock + 1

\* insertMany in a transaction: all of them or, when one is there already, none.
createMany(cs) == (\A c \in cs : ~Exists(c)) /\ Write(cs, "active") /\ UNCHANGED <<edits, destroyed>>

Edit == edits < MaxEdits /\ edits' = edits + 1

\* A message or a new title.
Touch(c) == Active(c) /\ Edit /\ Write({c}, "active") /\ UNCHANGED <<faults, destroyed>>

Trash(c) == Active(c) /\ Edit /\ Write({c}, "trashed") /\ UNCHANGED <<faults, destroyed>>

Restore(c) == docs[c].state = "trashed" /\ Edit /\ Write({c}, "active") /\ UNCHANGED <<faults, destroyed>>

\* Deleted for good, by the user or by the cleanup.
Destroy(c) ==
    /\ Exists(c) /\ Edit
    /\ docs' = [docs EXCEPT ![c] = NoDoc]
    /\ destroyed' = destroyed \cup {c}
    /\ UNCHANGED <<clock, faults>>

UserEdits(c) == Touch(c) \/ Trash(c) \/ Restore(c) \/ Destroy(c)
=============================================================================
