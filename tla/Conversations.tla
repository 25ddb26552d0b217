---------------------------- MODULE Conversations ----------------------------
(***************************************************************************)
(* The conversations and messages of one user: ChatManagementService over  *)
(* the two Mongo repositories, SyncService.push from the user's devices,   *)
(* the graph nodes made from the conversations, and the daily cleanup of   *)
(* the trash.  A document is live while its deletedAt is null, in the      *)
(* trash while it has one, and gone once hard-deleted.  What the services  *)
(* check is read outside the session of the transaction that relies on it. *)
(* A transaction is one step: the conversation it writes, or the documents *)
(* it inserts, make two that overlap conflict.                             *)
(***************************************************************************)
EXTENDS Naturals, FiniteSets

CONSTANTS
    Convs, Msgs,            \* ids of conversations and messages
    ConvOf,                 \* the conversation of each message
    Requests, Cron,         \* the requests that may run at once, the cleanup job
    NULL,
    Retention,              \* how long the trash is kept (30 days)
    MaxNow,                 \* bound on the clock
    MaxRequests,            \* bound on the requests made
    MaxStops,               \* bound on calls cut short
    MaxItems                \* bound on the documents of one push

ASSUME ConversationsAssumption ==
    /\ ConvOf \in [Msgs -> Convs] /\ Convs \cap Msgs = {}
    /\ Retention \in Nat /\ MaxNow \in Nat /\ MaxRequests \in Nat /\ MaxStops \in Nat
    /\ MaxItems \in Nat
    /\ Cron \notin Requests /\ NULL \notin Convs \cup Msgs

VARIABLES
    doc,            \* the conversations and messages: NULL or the document
    node,           \* per conversation, its node in the graph
    now,            \* the server's clock
    call,           \* per caller, the service method it runs
    cleanup,        \* the conversations the cleanup job has still to purge
    made, stops,    \* how many requests were made, how many calls cut short
    loose           \* history: conversations whose node the properties except

vars == <<doc, node, now, call, cleanup, made, stops, loose>>

Ids == Convs \cup Msgs
Callers == Requests \cup {Cron}
Times == 0..MaxNow

\* edited is when the user made the edit that the document holds.
Docs == [deletedAt : Times \cup {NULL}, updatedAt : Times, edited : Times]

Live(d) == doc[d] # NULL /\ doc[d].deletedAt = NULL
Trashed(d) == doc[d] # NULL /\ doc[d].deletedAt # NULL
MessagesOf(c) == {m \in Msgs : ConvOf[m] = c}

MessageOps == {"createMessage", "updateMessage", "deleteMessage", "restoreMessage"}
Idle == [op |-> "none", at |-> "idle", item |-> NULL, permanent |-> FALSE,
         clear |-> FALSE, items |-> {}, stamp |-> 0, seen |-> [d \in Ids |-> NULL],
         stale |-> FALSE]

\* What earlier requests left: the documents of kept are live, those of trash
\* were put there a retention ago, and the other ids are not used yet.
InitWith(kept, trash) ==
    /\ doc = [d \in Ids |-> IF d \notin kept \cup trash THEN NULL
                            ELSE [deletedAt |-> IF d \in trash THEN 0 ELSE NULL,
                                  updatedAt |-> 0, edited |-> 0]]
    /\ node = [c \in Convs |-> IF c \in kept THEN "live"
                               ELSE IF c \in trash THEN "trash" ELSE "none"]
    /\ now = Retention
    /\ call = [p \in Callers |-> Idle]
    /\ cleanup = {}
    /\ made = 0 /\ stops = 0
    /\ loose = {}

-----------------------------------------------------------------------------
(* Book-keeping of calls.                                                  *)

Running(p) == call[p].at # "idle"
At(p, op, step) == call[p].op = op /\ call[p].at = step

\* p reads: only its own call changes.
Goto(p, c) == call' = [call EXCEPT ![p] = c]

\* p writes documents: what every other running call has read is now old.
GotoWrite(p, c) ==
    call' = [q \in Callers |-> IF q = p THEN c
                ELSE IF Running(q) THEN [call[q] EXCEPT !.stale = TRUE] ELSE call[q]]

\* Conversations whose node a call other than p has still to delete.
PendingElsewhere(p) ==
    {call[q].item : q \in {r \in Callers \ {p} : At(r, "deleteConversation", "graph")}}

Excuse(cs) == loose' = loose \cup cs

MakeRequest == made < MaxRequests /\ made' = made + 1

\* A request that is one transaction or one database operation.
Single == MakeRequest /\ GotoWrite(NULL, Idle) /\ UNCHANGED <<node, now, cleanup, stops>>

\* Request p begins a method whose first step only reads.
Begin(p, c) ==
    /\ p \in Requests /\ ~Running(p) /\ MakeRequest
    /\ Goto(p, c)
    /\ UNCHANGED <<doc, node, now, cleanup, stops, loose>>

-----------------------------------------------------------------------------
(* Conversations.                                                          *)

New(t) == [deletedAt |-> NULL, updatedAt |-> t, edited |-> t]

\* bulkCreateConversations with one thread; its first messages come with it.
createConversation(c, ms) ==
    /\ \A d \in {c} \cup ms : doc[d] = NULL
    /\ Single
    /\ doc' = [d \in Ids |-> IF d \in {c} \cup ms THEN New(now) ELSE doc[d]]
    /\ Excuse({c} \cap PendingElsewhere(NULL))

\* The update has no filter on deletedAt.
updateConversation(c) ==
    /\ doc[c] # NULL
    /\ Single
    /\ doc' = [doc EXCEPT ![c].updatedAt = now, ![c].edited = now]
    /\ UNCHANGED loose

\* Mutant: the messages are those that findDocsByConversationId lists.
DeleteListedInTx(c, permanent) ==
    doc' = [d \in Ids |-> IF doc[d] = NULL \/ (d # c /\ (d \notin MessagesOf(c) \/ ~Live(d)))
              THEN doc[d]
              ELSE IF permanent THEN NULL
              ELSE [doc[d] EXCEPT !.deletedAt = now, !.updatedAt = now]]

\* deleteConversation's transaction: the conversation in whatever state, and
\* every message that has its id.
DeleteInTx(c, permanent) ==
    doc' = [d \in Ids |-> IF d \notin {c} \cup MessagesOf(c) \/ doc[d] = NULL THEN doc[d]
              ELSE IF permanent THEN NULL
              ELSE [doc[d] EXCEPT !.deletedAt = now, !.updatedAt = now]]

\* Mutant: hardDelete has a filter on deletedAt.
DeleteLiveConversation(p, c, permanent) ==
    /\ ~Running(p)
    /\ Live(c)
    /\ DeleteInTx(c, permanent)
    /\ GotoWrite(p, [Idle EXCEPT !.op = "deleteConversation", !.at = "graph", !.item = c,
                                 !.permanent = permanent])
    /\ Excuse({c} \cap PendingElsewhere(p))

DeleteConversation(p, c, permanent) ==
    /\ ~Running(p)
    /\ doc[c] # NULL
    /\ DeleteInTx(c, permanent)
    /\ GotoWrite(p, [Idle EXCEPT !.op = "deleteConversation", !.at = "graph", !.item = c,
                                 !.permanent = permanent])
    /\ Excuse({c} \cap PendingElsewhere(p))

deleteConversation(p, c, permanent) ==
    /\ MakeRequest
    /\ DeleteConversation(p, c, permanent)
    /\ UNCHANGED <<node, now, cleanup, stops>>

\* Mutant: the graph is cleaned only when the deletion is for good.
DeleteNodeForGood(p) ==
    LET c == call[p].item IN
    /\ At(p, "deleteConversation", "graph")
    /\ node' = [node EXCEPT ![c] = IF call[p].permanent THEN "none" ELSE @]
    /\ Goto(p, Idle)
    /\ UNCHANGED <<doc, now, cleanup, made, stops, loose>>

\* After the transaction: deleteNodesByOrigIds of the conversation's id.
DeleteNode(p) ==
    LET c == call[p].item IN
    /\ At(p, "deleteConversation", "graph")
    /\ node' = [node EXCEPT ![c] = IF @ = "none" THEN @
                                   ELSE IF call[p].permanent THEN "none" ELSE "trash"]
    /\ Goto(p, Idle)
    /\ UNCHANGED <<doc, now, cleanup, made, stops, loose>>

\* The nodes it restores are looked for under the ids of the messages, which
\* have none: the conversation's node stays as it is.
restoreConversation(c) ==
    /\ doc[c] # NULL
    /\ Single
    /\ doc' = [d \in Ids |-> IF d \in {c} \cup MessagesOf(c) /\ doc[d] # NULL
                 THEN [doc[d] EXCEPT !.deletedAt = NULL, !.updatedAt = now] ELSE doc[d]]
    /\ Excuse({c} \cap PendingElsewhere(NULL))

\* deleteAllConversations reads the ids, deletes chunk after chunk (here of one
\* conversation), each in a transaction of its own, then the whole graph.
BeginDeleteAll(p) ==
    Begin(p, [Idle EXCEPT !.op = "deleteAll", !.at = "chunks",
                          !.items = {c \in Convs : doc[c] # NULL}])

DeleteChunk(p) ==
    \E c \in call[p].items :
        /\ At(p, "deleteAll", "chunks")
        /\ DeleteInTx(c, TRUE)
        /\ GotoWrite(p, [call[p] EXCEPT !.items = @ \ {c}])
        /\ UNCHANGED <<node, now, cleanup, made, stops, loose>>

\* A chunk that keeps failing is left out; the graph goes all the same.
SkipChunk(p) ==
    /\ At(p, "deleteAll", "chunks")
    /\ stops < MaxStops /\ stops' = stops + 1
    /\ \E c \in call[p].items : Goto(p, [call[p] EXCEPT !.items = @ \ {c}])
    /\ UNCHANGED <<doc, node, now, cleanup, made, loose>>

DeleteGraph(p) ==
    /\ At(p, "deleteAll", "chunks") /\ call[p].items = {}
    /\ node' = [c \in Convs |-> "none"]
    /\ Goto(p, Idle)
    /\ UNCHANGED <<doc, now, cleanup, made, stops, loose>>

-----------------------------------------------------------------------------
(* Messages: validateConversationOwner, then the transaction, which also   *)
(* sets the conversation's updatedAt, if there still is a conversation.    *)

\* clear: updateMessage with deletedAt null; permanent: with a deletedAt, or
\* deleteMessage for good.
ValidateOwner(p, op, m, permanent, clear) ==
    /\ Live(ConvOf[m])
    /\ Begin(p, [Idle EXCEPT !.op = op, !.at = "write", !.item = m,
                             !.permanent = permanent, !.clear = clear])

Bumped(c) == IF doc[c] = NULL THEN NULL ELSE [doc[c] EXCEPT !.updatedAt = now]

\* No such message, or one already: the transaction is rolled back.
Refused(op, m) == IF op = "createMessage" THEN doc[m] # NULL ELSE doc[m] = NULL

MessageAfter(c, m) ==
    CASE c.op = "createMessage" -> New(now)
      [] c.op = "updateMessage" ->
           [deletedAt |-> IF c.clear THEN NULL ELSE IF c.permanent THEN now ELSE doc[m].deletedAt,
            updatedAt |-> now, edited |-> now]
      [] c.op = "deleteMessage" ->
           IF c.permanent THEN NULL ELSE [doc[m] EXCEPT !.deletedAt = now, !.updatedAt = now]
      [] c.op = "restoreMessage" -> [doc[m] EXCEPT !.deletedAt = NULL, !.updatedAt = now]

WriteMessage(p) ==
    LET m == call[p].item
        c == ConvOf[m]
    IN
    /\ call[p].op \in MessageOps
    /\ IF Refused(call[p].op, m) THEN Goto(p, Idle) /\ UNCHANGED doc
       ELSE /\ doc' = [doc EXCEPT ![m] = MessageAfter(call[p], m), ![c] = Bumped(c)]
            /\ GotoWrite(p, Idle)
    /\ UNCHANGED <<node, now, cleanup, made, stops, loose>>

-----------------------------------------------------------------------------
(* SyncService.push.                                                       *)

\* The documents that are live are looked up before the transaction; permanent
\* stands for a deletedAt in the items.
ReadExisting(p, items, stamp, permanent) ==
    Begin(p, [Idle EXCEPT !.op = "push", !.at = "write", !.items = items, !.stamp = stamp,
                !.permanent = permanent,
                !.seen = [d \in Ids |-> IF d \in items /\ Live(d) THEN doc[d].updatedAt ELSE NULL]])

Pushed(c) == [deletedAt |-> IF c.permanent THEN c.stamp ELSE NULL,
              updatedAt |-> now, edited |-> c.stamp]

\* Mutant: messages are written without the comparison.
SkippedConversation(c, d) == d \in Convs /\ c.seen[d] # NULL /\ c.seen[d] >= c.stamp

\* Last write wins, by what was read: an item is skipped unless it is newer.
Skipped(c, d) == c.seen[d] # NULL /\ c.seen[d] >= c.stamp

\* An item not seen is inserted: a document in the trash, or made since, has
\* its id, and the duplicate key rolls the whole push back.
Duplicate(c) == \E d \in c.items : c.seen[d] = NULL /\ doc[d] # NULL

\* An item seen is written whatever became of the document, unless it is gone.
Overwritten(c, d) == d \in c.items /\ ~Skipped(c, d) /\ (c.seen[d] = NULL \/ doc[d] # NULL)

WritePush(p) ==
    LET c == call[p] IN
    /\ At(p, "push", "write")
    /\ IF Duplicate(c) THEN Goto(p, Idle) /\ UNCHANGED <<doc, loose>>
       ELSE /\ doc' = [d \in Ids |-> IF Overwritten(c, d) THEN Pushed(c) ELSE doc[d]]
            /\ GotoWrite(p, Idle)
            /\ Excuse({d \in Convs : Overwritten(c, d)})
    /\ UNCHANGED <<node, now, cleanup, made, stops>>

-----------------------------------------------------------------------------
(* The cleanup job: cleanupExpiredConversations, one after another.        *)

Expired(c, cutoff) == Trashed(c) /\ doc[c].deletedAt + Retention < cutoff

FindExpired ==
    /\ cleanup = {} /\ ~Running(Cron)
    /\ \E c \in Convs : Expired(c, now)
    /\ cleanup' = {c \in Convs : Expired(c, now)}
    /\ UNCHANGED <<doc, node, now, call, made, stops, loose>>

Purge(c) ==
    /\ c \in cleanup
    /\ DeleteConversation(Cron, c, TRUE)
    /\ cleanup' = cleanup \ {c}
    /\ UNCHANGED <<node, now, made, stops>>

\* Not found: the error is logged and the next conversation is tried.
SkipPurge(c) ==
    /\ c \in cleanup
    /\ ~Running(Cron) /\ doc[c] = NULL
    /\ cleanup' = cleanup \ {c}
    /\ UNCHANGED <<doc, node, now, call, made, stops, loose>>

-----------------------------------------------------------------------------
(* Time and failures.                                                      *)

Tick ==
    /\ now < MaxNow
    /\ now' = now + 1
    /\ UNCHANGED <<doc, node, call, cleanup, made, stops, loose>>

\* The graph store cannot be reached, retried in vain.
CutShort(p) ==
    /\ At(p, "deleteConversation", "graph")
    /\ stops < MaxStops /\ stops' = stops + 1
    /\ Goto(p, Idle)
    /\ Excuse({call[p].item})
    /\ UNCHANGED <<doc, node, now, cleanup, made>>

\* Conversations deleted whose nodes deleteAllConversations has still to delete.
Unswept == IF \E p \in Requests : call[p].op = "deleteAll"
           THEN {c \in Convs : doc[c] = NULL} ELSE {}

Crash ==
    /\ stops < MaxStops /\ stops' = stops + 1
    /\ call' = [p \in Callers |-> Idle]
    /\ cleanup' = {}
    /\ Excuse(PendingElsewhere(NULL) \cup Unswept)
    /\ UNCHANGED <<doc, node, now, made>>

Request ==
    \/ \E c \in Convs : \/ \E ms \in SUBSET MessagesOf(c) : createConversation(c, ms)
                        \/ updateConversation(c) \/ restoreConversation(c)
    \/ \E p \in Requests, permanent \in BOOLEAN :
         \/ \E c \in Convs : deleteConversation(p, c, permanent)
         \/ \E m \in Msgs : \/ ValidateOwner(p, "deleteMessage", m, permanent, FALSE)
                            \/ ValidateOwner(p, "updateMessage", m, permanent, FALSE)
         \/ \E items \in SUBSET Ids, stamp \in 0..now :
              /\ Cardinality(items) \in 1..MaxItems
              /\ ReadExisting(p, items, stamp, permanent)
    \/ \E p \in Requests :
         \/ BeginDeleteAll(p)
         \/ \E m \in Msgs : \/ ValidateOwner(p, "createMessage", m, FALSE, FALSE)
                            \/ ValidateOwner(p, "restoreMessage", m, FALSE, FALSE)
                            \/ ValidateOwner(p, "updateMessage", m, FALSE, TRUE)

CleanupStep == FindExpired \/ (\E c \in Convs : Purge(c) \/ SkipPurge(c)) \/ DeleteNode(Cron)

RequestStep(p) ==
    DeleteNode(p) \/ DeleteChunk(p) \/ SkipChunk(p) \/ DeleteGraph(p) \/ WriteMessage(p) \/ WritePush(p)

Next ==
    \/ Request \/ CleanupStep \/ Tick \/ Crash
    \/ \E p \in Requests : RequestStep(p)
    \/ \E p \in Callers : CutShort(p)

\* node-cron runs the job every day and the job runs to its end.
Fairness == WF_vars(CleanupStep)

-----------------------------------------------------------------------------

\* Messages that no list of conversations leads to: of a conversation that is
\* gone, or live in one that is in the trash.
StrayMessages == {m \in Msgs : \/ doc[m] # NULL /\ doc[ConvOf[m]] = NULL
                               \/ Live(m) /\ ~Live(ConvOf[m])}

\* Deleting, restoring or purging a conversation takes all of its messages
\* along, those written since the request began included: a message is left
\* behind only by a message request whose check of the conversation had become
\* old, or by a push, which checks nothing of the kind.
OnlyOldChecksLeaveMessages ==
    [][\A p \in Callers :
         /\ call'[p].at # call[p].at \/ call'[p].items # call[p].items
         /\ call[p].op # "push"
         /\ ~(call[p].op \in MessageOps /\ call[p].stale)
         => StrayMessages' \subseteq StrayMessages]_vars

\* A conversation's node is live only while the conversation is, once no
\* method has still to delete it: except for conversations whose deletion
\* failed between the two stores, overlapped another write of it, or came by a
\* push.
NodeOnlyOfLiveConversation ==
    \A c \in Convs \ (loose \cup PendingElsewhere(NULL) \cup Unswept) :
        node[c] = "live" => Live(c)

\* Last write wins: no edit gives way to one that the user made before it,
\* unless the push that brings the older one had read the document before the
\* newer one was written.
OlderEditWinsOnlyByRace ==
    [][\A d \in Ids : doc[d] # NULL /\ doc'[d] # NULL /\ doc'[d].edited < doc[d].edited
          => \E p \in Requests : At(p, "push", "write") /\ call[p].stale /\ call'[p] = Idle]_vars

\* A conversation kept in the trash past the retention does not stay there: it
\* is restored or removed for good.
ExpiredConversationsPurged ==
    \A c \in Convs : Expired(c, now) ~> ~Expired(c, now)
=============================================================================
