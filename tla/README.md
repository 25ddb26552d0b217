# Formal models of the GraphNode backend

This directory holds TLA+ models of the GraphNode backend (TypeScript, Express,
Prisma/Postgres, MongoDB, Neo4j, Redis, SQS, S3), the TLC configurations that check
them on small instances, and TLAPS proofs about them. Paths below are relative to
`src/src/` unless they begin with `src/`.

To check: `tlc -workers 2 -config X.cfg M` for a run of section 3, and
`tlapm M_proofs.tla` for the proofs of section 5.

## 1. The system

The backend is a monolith with two kinds of process: API servers and SQS workers.
Any number of each run side by side; within one process, every `await` lets other
requests run. Credits, subscriptions and payments are in Postgres; documents
(conversations, messages, notes, folders, files, microscope workspaces,
notifications) in MongoDB; the macro graph in Neo4j; sessions, push tokens and the
event channels in Redis; files and archives in S3. An external AI service reads requests
from one SQS queue and answers on another, and an external File Service takes
uploads of archives; queues deliver at least once.

| component | state | operations | hard behaviour |
|---|---|---|---|
| credit ledger (`CreditService`, `CreditRepositoryPrisma`, `BillingCron`) | balance row, HOLD/COMMIT/ROLLBACK/REFILL rows, usage logs | deduct, hold, commit, rollback, refund, refill, expire | checks outside the transaction, redelivered results, cron against result, swallowed failures |
| billing (`WebhookController`, `WebhookProcessingService`, `SubscriptionService`) | subscriptions, payments, webhook events | webhook events, sign-up, upgrade, cancel, grant | events repeated and reordered, work done after the answer, no transaction |
| macro graph pipeline (`GraphGenerationService`, three result handlers, `workers/index`) | status row, nodes, edges, queues, holds | generate, AddNode, summary, delete, handle results | late and repeated results, overlapping handlers, crash between writes, ids that the AI names |
| microscope ingest (`MicroscopeManagementService`, `MicroscopeIngestResultHandler`) | workspace documents with two sub-statuses, payloads, queues, holds | ingest files or sources, handle results, delete | two results merged by read and write back |
| notes and folders (`NoteService`, `NoteRepositoryMongo`, `CleanupCron`) | notes, folders, their graph nodes | create, update, trash, restore, purge | reads outside the session, Mongo and Neo4j not atomic together, cleanup |
| conversations and messages (`ChatManagementService`, `SyncService.push`, `CleanupCron`) | conversations, messages, their graph nodes | the same, and push from devices | stale checks, last write wins, crash before the graph is cleaned |
| sync (`SyncService`, the repositories' queries) | the collections, `since` of each device | pull, push, paged lists | writes stamped before they can be seen, ties at a page boundary |
| graph store and editor (`Neo4jMacroGraphAdapter`, `GraphEditorService`, `GraphManagementService`) | nodes, edges in two forms, clusters, subclusters | user edits, graph API, cascades, restoring | read and write in different transactions, operations of several transactions |
| search (`SearchService`, `GraphManagementService` snapshot) | reads only | Graph RAG search, keyword search, snapshot | parallel reads of what changes |
| AI chat and agent (`AiInteractionService`, `AgentService`) | conversation, summary, credits, stream | ask, retry, RAG, stream with tools | charge, answer and refund in separate steps, two calls on one conversation |
| sessions (`SessionStoreRedis`, `AuthSession`, `authJwt`) | sorted set of refresh tokens, cookies | login, refresh, logout, revoke | count, trim and add not atomic, retried commands, lost answers |
| notifications and push (`NotificationService`, `RedisEventBusAdapter`, `NotificationController`) | notifications, channel handlers, token set | send, stream with replay, register, push | replay against subscription, two streams of one process, set that expires |
| files (`UserFileService`) | rows, S3 objects, summary jobs, nodes | upload, rename, move, delete, summarise | names from a stale list, order of writes in three stores |
| export and import (`ChatExportService`, `ImportArchiveService`, `ImportFinalizeProcessor`) | jobs, ZIPs, imported conversations | start, load pages, upload, clean; claim, queue, chunks | a job dies with its process, a page boundary, redelivery |
| Notion (`NotionService`, `NotionCacheRepositoryMongo`, webhook) | cached pages, integrations | connect, webhook events, fetch stale pages | events repeated and out of order, answered before they are handled, a fetch beside an event |
| users and logins (`AuthGoogle`, `AuthApple`, `UserService`, `UserRepositoryMySQL`) | users, onboarding answers, the browser's state cookie | login by a provider, settings, keys, onboarding, test users | find then create, first answers saved twice |
| feedback (`FeedbackService`, `FeedbackRepositoryPrisma`) | feedback rows, uploaded attachments | create, change, delete, paged list | a list read page by page while rows come and go |
| gateway adapters, daily usage, HTTP layer, mappers | none, or a count nobody uses | | I/O (section 6) |

How they interact: AI chat and the agent call `deduct` and, on failure, `refund`;
the graph and microscope services and the file summary call `hold` before they
send a request, and the worker's handlers call `commitByTaskId` or `rollbackByTaskId`
when the result comes; the hourly `BillingCron` settles what nobody settled and refills
ended cycles; the billing webhooks and subscription requests call `refill`; the note,
conversation and file services call the graph store when a document goes to the
trash, comes back or is purged; the pipeline reads the documents and writes the graph,
which the editor changes and the searches read; every service that finishes something calls
`NotificationService`; export and import read and write the conversations that
the user edits.

What makes each correct, in a sentence: a hold is settled once and nobody spends
more than they have (ledger); an event acts once and no plan starts unpaid
(billing); the graph holds what it was sent, on the documents it was meant for
(pipeline); a document's status is what its two results say (microscope); trees
have no orphans, the graph agrees with the documents and the trash is emptied
(notes, conversations, files); a device learns every change (sync); the two copies
of an edge agree (store); edits leave the graph in shape (editor); credits go to
answers and a question has one (chat, agent); a search ranks by what it found
(search); the limit on sessions holds and a signed-in device stays so (sessions);
what was sent is heard (notifications); a cached page that does not count as stale is current
(Notion); an account is one user and no write undoes another (users); a walk through
the list shows every row once (feedback); what an export or an import leaves out is accounted
for (transfers). `PROJECT.json` lists every component, and every hazard at its line.

## 2. Modules

| module | models | composes |
|---|---|---|
| `CreditEscrow` | what the ledger promises, every operation atomic | |
| `CreditLedger` | the ledger, one database statement or transaction a step | implements `CreditEscrow` |
| `Billing` | webhooks, subscriptions, payments | |
| `GraphPipeline` | one user's graph and the jobs that build it | `CreditEscrow` for its holds |
| `MacroGraphStore` | the statements and transactions of the Neo4j adapter, as functions of a graph | |
| `GraphEditor` | the requests and jobs that change the graph's shape | `MacroGraphStore` |
| `GraphResults` | what the results of the AI leave in the graph | `MacroGraphStore` |
| `GraphSearch` | searches over the graph and the snapshot | `MacroGraphStore` |
| `Microscope` | one workspace | `CreditEscrow` for its holds |
| `Notes`, `Conversations` | documents, their nodes, the cleanup | |
| `MongoDocs` | the repositories' methods, as functions of a collection | |
| `Sync` | pulls, pushes and lists of the devices | `MongoDocs`, for notes and for chats |
| `AiChat`, `Agent` | the chat's calls, the agent's streams | |
| `Sessions`, `Notifications`, `Pushes` | what a device has open on the servers | |
| `UserFiles` | library files | |
| `Notion` | the cache of Notion pages | |
| `Accounts` | users, their logins, settings and answers | |
| `Feedback` | feedback and the list of it | |
| `ConversationDocs`, `ChatExport`, `ImportFinalize`, `Transfers` | the conversations, and what is read from and written to them in bulk | `Transfers` composes the other three |
| `MC...` | the instance of each run | `MCDevices`, `MCSync`, `MCAiChat`, `MCUserFiles` put models that share no state beside each other |
| `..._proofs` | theorems (section 5) | |

The pipelines use the abstract escrow in place of the ledger: `ImplementsEscrow`,
proved, is what makes that sound. In all models a process is a frame (a record
with the step it has reached and what it has read); an action is what one call
does between two awaits that others can observe. Definitions marked "Mutant" in their
comments are not used by any specification: each is a plausible bug that one of the
properties must catch.

### CreditLedger and CreditEscrow

`account` is `credit_balances`, `holdTx` and `settleTx` are the HOLD rows and the
count of COMMIT and ROLLBACK rows of each task, `usageLog` is `usage_logs`,
`proc[p]` the call that runner `p` is in. `deduct` and `hold` first read the balance
(`ensureBalance`, which creates a FREE row when there is none) and then run a
transaction that checks again (`DeductBalance`, `HoldBalance`); a settlement reads
the HOLD (`BeginSettle`), settles under the task's lock if nobody has
(`SettleHold`), and writes the log row if it did (`SettleLog`); `getBalance` and the
daily batch read rows whose cycle has ended and refill them later (`RefillRead`,
`RefillWrite`). `DatabaseError` rejects a transaction, with what each caller's
catch block makes of it; `Crash` ends a call anywhere. `journal` and
`refills` are history: the sum of the append-only rows and the number of refills.

Prices are any `Costs`. At this commit `FEATURE_COSTS` is 0 for every feature; the
limits are 30, 500 and 9999, a hold expires in two hours, a cycle is 30 days.

### Billing

`subs[u]` is the user's rows of `subscriptions`, oldest first; `payments`,
`webhook` and `credit` are the other tables (`credit` keeps only the plan of the
balance row, since the ledger has a model of its own); `scheduled` says for whom
the gateway has a recurring schedule. `ReceiveWebhook` is an event that arrives, for
the first time or again; the handler's repository calls are steps (`StoreEvent`,
`FindPending`, `Activate`, `Extend`, `GrantGrace`, `RecordPayment`, `Refill`,
`MarkProcessed` ...), and users' requests run the same way. `DatabaseError` and
`Crash` may strike at any step. A row has its period (`start`, `end`); a payment says which event
booked what on which row. `runs`, `given` and `crossed` are history: how often the handler of an
event ran, what was activated or extended for which event, and the rows that one handler wrote
while another had found them and was still to write them.

An event is not a payment: the resolver takes five Stripe types for `PAYMENT_COMPLETED`, each with a
key of its own, and each is handled. The properties speak of events and of what was done for them,
never of money received.

Simplifications: what the gateway sends is plausible (for a user who has a schedule, a refund after a
completed event) and an event has one content, recorded in `sent` when it is first delivered; every
event has an amount and a key; every plan is billed by the month (`Cycle`; a year differs only in its
length); two rows are never created in the same millisecond; the clock moves only when no
handler runs.

### GraphPipeline

`stats` is the MacroStats row, `nodes` the MacroNodes by their numeric id, each with the document it
came from and that document's version; `sent` and `results` are the two queues. A request walks
through hold, status, collection of documents, send, and on failure the rollback; a worker's handler
takes a result, which stays in the queue until the handler ends, so an abandoned or crashed handler
(`Abandon`) is run again. `PersistSnapshot` is one step here; the code writes clusters, nodes,
edges, subclusters and status in transactions of their own
(`GraphManagementService.persistSnapshotBulk`), which `GraphResults` and `GraphEditor` take apart,
and no property of this model turns on a part of a snapshot. AddNode's nodes are written in chunks
(`UpsertNodes`), a document a chunk; documents that the AI skips with an error
(`workers/handlers/AddNodeResultHandler.ts:237`) are left out. `SaveStatsIfMutable` is the
compare-and-set that generation and summary use, `SaveUpdated` the plain write of AddNode over a row
it read before. A send that fails in doubt may have left copies in the queue. `DeleteNodes` and
`DeleteStats` are `deleteGraph`.

Reductions, each of which removes only interleavings with steps that commute:
taking a message and the first database access are one step; the last access,
the settlement of the hold and the deletion of the message are one step; the
clock moves only when a document is edited; tasks begin in the order of
their numbers; a task's documents keep an order (`Rank`) that the AI chose.
`overlap` is history: some handler applied a result while another AddNode held
ids it had allocated, or over nodes the result does not know.

### Microscope

`docs[d]` is a document's record: overall status, the status of its two results,
whether it has its graph; `saved` are the payloads in collections of their own.
Uploaded files are held for one by one, many sources at once (`Ways`); each document's two
requests are sent one after the other, and a failed send marks the document FAILED
or rolls the hold back. A handler saves the payload (`SavePayload`, `SaveTexts`), computes
the overall status from the record it read (`ComputeStatus`), writes the sub-status
with it, and for the graph writes both again (`SaveStatus`), settles the credits of the
message's task id and tells the user when no document is under way (`Announce`). The AI
service answers each request once; its answers are delivered until a handler ends.

### GraphResults

A generation writes clusters, nodes, edges and subclusters,
a transaction each; an addition resolves
every name the AI gives (`ResolveNodeId`: a prefix of the user, a wrapper, a name that reads as a
number), allocates ids from the highest in the graph, and writes in transactions that a delivery may
die between (`Die`) or fail in (`Throw`). The queue redelivers until a delivery ends well or
`MaxTries` is used up. Documents are trashed, restored and destroyed meanwhile, each with its node
in one step. The end of a generation is reported by the delivery that sets the task's key in Redis
(`finishedKey`), and also by one whose command fails; the key is gone after a day (`KeyExpires`);
`lapses` counts both. `named`, `strays`, `touched`, `unpruned`, `placed` and `lapses` are history:
what the AI meant, and what the property excepts.

### MacroGraphStore and GraphEditor

A graph is the records of its nodes, edges, clusters and subclusters with their `deletedAt`
and the two forms an edge is kept in (the MacroRelation node and the materialized
MACRO_RELATED relationship). Each operator is one statement of
`macroGraph.cypher.ts`, and each transaction of the adapter the composition of its statements
in their order. In `GraphEditor` a request reads what it checks, then writes, each read and each
write a transaction of its own; beside the editor's operations run the graph API (`Direct`),
deletion and restoring of source documents, and the transactions of AddNode, generation and
`deleteGraph`. `Mixes` bounds which of them meet. `cut` and `repointed` are history.

### GraphSearch

`probe[k]` is one keyword's Graph RAG search: seeds by vector, then the three neighbour
queries in parallel, then the titles; several keywords run in parallel and are merged. `threads` is
the keyword search, `snapshot` the read of the whole graph. A vector gives each document a
score per keyword; edges weigh one. The property compares what was answered with
a reference definition: distances in the graph and best values, computed without the
queries.

### Notes and Conversations

`folder`, `note` and `doc` are the collections: a document is absent (`NULL`), live,
or in the trash since `deletedAt`; `node` is the state of the graph node made from
it. `deleteFolder` and `restoreFolder` read the folder, its parent, its descendants
and their notes in separate steps outside the session, then commit; the Neo4j
change inside the transaction takes effect even if the transaction is
aborted and run again (`AbortCommit`). A message's conversation is checked in one
step (`ValidateOwner`) and the transaction is another. `push` reads the existing
documents (`ReadExisting`), then writes those whose stamp is newer (`WritePush`), all or
nothing. The cleanup lists what has expired and purges one document after the
other, each through the same delete operation as a user. `CutShort` is a graph
outage, or an answer lost so that the retry of the write finds nothing.

`loose` and `due` are history: documents whose node an overlap or a failure has
left, and documents ever kept past the retention. `stale` in a call says that another
writer has written documents since the call's first read.

Simplifications: a Mongo transaction is one step (a write conflict makes the second
fail and run again); messages have no graph nodes, so what the code does to them is
nothing; new documents have no node (the pipeline, modelled apart, adds them);
a message stays in its conversation; stamps pushed by a device are not ahead of
the server; `deleteAllConversations` works on chunks of one conversation.

### MongoDocs and Sync

`MongoDocs` says what each repository method returns or makes of a collection. In
`Sync` a request stamps its documents when the method runs and commits them later (`Commit`),
one stamp a transaction; a pull runs one query per collection in any order (`Query`) and
its device keeps the `serverTime` taken after the last as its next `since` (`ReceivePull`,
or `LosePull`). Lists are read page by page with the cursor of the last document (`ReadPage`,
`CursorAfter`). `missed` and `alone` are history: per device, what was written while it pulled
or under a time its pulls had passed (`Overlaps`) and the messages whose conversation was written
without them, from the trash or under such a time (`LeftBehind`); and the messages pushed without
their conversation.

### AiChat and Agent

A call of the chat finds the conversation, reads the messages, renews the summary when a batch of
turns has left the window (`BuildContextMessages`), deducts, asks the provider, saves question and
answer, and refunds on failure; `Retry` drops the last answer first. A message is an id and a role,
the memory the set of the messages it was made from. An agent stream deducts, lets the provider
classify the request, then answers at once or in at most `MaxLoops` rounds with tools; an error in
any of this is caught once (`Catch`), which refunds a charge that the stream knows of. A charge
whose usage log could not be written is not known and is lost (`DeductAgentChatCredit`; `lost`
counts those). `AI_CHAT_COST` and `AGENT_CHAT_COST` are 0 today; the models take any `Cost`.

### Sessions, Notifications and Pushes

`sessions` is the Redis sorted set, `cookie` what each device holds. A token is the second it was
made in, so that two made in one second are the same. A login or a rotation drops the old token,
counts, trims, adds and answers (`DropOld` .. `Reply`), one Redis command a step, and a device that
is signed in may log in again; a command may be retried (`StartOver`), an answer lost.
`Notifications` has the store and publication of each notification and the replay and subscription
of each stream; a process has one handler for the user's channel, which the last stream owns. In
`Pushes` a registration is two commands, the set lives `Lifetime` ticks from the last one, and a
push reads the set, sends, and takes out what FCM no longer knows.

### UserFiles

`row`, `objects`, `node` and `job` are a file's document, its S3 object, its graph node
and its summary job. `uploadFile` checks the folder, lists the names there, puts the object,
inserts the row; `updateFile` reads the row, the folder and the names, then writes;
`deleteFile` deletes row, object and node in this order; a graph task copies the active
files and later writes their nodes. A name is its sequence of suffixes. `broken` and
`raced` are history: files a failed step was about, and files named from a list that
another request had made stale, or moved under their own name.

### Notion, Accounts and Feedback

In `Notion`, `notion` is what Notion has of a page (a number counts its changes), `events` the
webhook events on their way, `cache` the documents of `notion_page_caches`. `Deliver` is the
request, answered with 200, after which the handler writes for one integration after another (`WriteFor`)
and may fail or die. A fetch calls Notion's API for the page and then for its
blocks (`CallNotion`), so that title and blocks may be of different revisions, and writes what
it has (`UpsertPage`). `suspect` is history: pages whose event was lost, or was handled while a
fetch of them was under way.

In `Accounts` a login goes to the provider's page with a state (kept in a cookie by Google's,
signed by Apple's), comes back, exchanges its code, looks the account up and creates or touches
its row (`FindByProvider`, `CreateUser`, `TouchUser`). Settings are one column each; the answers
of the onboarding are read and written in one transaction at READ COMMITTED
(`ReadInfoId`, `CommitOnboarding`). `joined`, `last`, `saved` and `together` are history.

`Feedback` has the rows, the requests that upload attachments one by one and then insert, change or
delete a row, and an administrator's walk through the list by cursor. `steady` is history: the rows
that were there during the whole walk.

### ConversationDocs, ChatExport, ImportFinalize and Transfers

`docs` has each conversation's last update and trash mark; `listByOwner` is the query behind the
pages. An export checks for an active job, stores its own, loads page after page in the background,
uploads the ZIP, marks the job DONE and mails; the daily cleanup removes object and row. An import's
finalization is claimed, queued, received by workers up to `MaxReceives` times, and created chunk by
chunk, a transaction each, skipping what is stored already; a chunk whose commit lost its answer
counts as failed although it is stored. A process may die at any step. Two histories name what an
export cannot recover from: `severed` (its process died, its catch handler failed, or its request
failed with the row stored) and `halfCleaned` (a cleanup failed with the ZIP gone); a step that
throws sets neither. Messages are not modelled, so neither is that an import inserts them for a
conversation it found stored. `Transfers` lets both run while the user edits, trashes, restores and
destroys.

## 3. Runs

| run | module, cfg | checked | what it shows |
|---|---|---|---|
| `credit_one_task` | `MCCreditLedger`, `CreditOneTask.cfg` | `SettledAtMostOnce`, `NeverOverdrawn`, `OnlyRefillBreaksBooks`, `ImplementsEscrow` | settlement races, stale reads and a refill in the middle of a hold keep ledger and balance right |
| `billing` | `MCBilling`, `Billing.cfg` | `HandledOnce`, `BooksFitPlans` | no order, repetition or failure handles an event twice; the books have what processed events gave, and only handlers that cross leave a row with what it was not given |
| `pipeline` | `MCGraphPipeline`, `GraphPipeline.cfg` | `ChargedForResult`, `OnlyOverlapLosesNodes`, `AddNodeStatusKept` | nobody is charged for a result that is not there, AddNode keeps its status, only overlap loses nodes |
| `microscope` | `MCMicroscope`, `Microscope.cfg` | `StatusTells` | status, graph and texts of a document survive crashes and repetition, and the user is told |
| `notes` | `MCNotes`, `Notes.cfg` | `NodesFollowNotes`, `TreeBreaksOnlyByRace`, `ExpiredNotesPurged` | only a race breaks the tree, nodes follow notes, the trash is emptied of notes |
| `conversations` | `MCConversations`, `Conversations.cfg` | `NodeOnlyOfLiveConversation`, `OnlyOldChecksLeaveMessages`, `OlderEditWinsOnlyByRace`, `ExpiredConversationsPurged` | only old checks leave messages behind, only a race loses an edit, the trash is emptied |
| `sync` | `MCSync`, `Sync.cfg` | `OnlyOverlapsAndTiesAreMissed`, `FreshPagesAreCurrent` | what a pull or a list misses was written while it ran, or shares a stamp with a page's last document; a cached Notion page that is not stale is what Notion has |
| `macro_graph` | `MCGraphEditor`, `MacroGraph.cfg` | `GraphHolds`, `SerialEditsKeepShape` | the two copies of the edges agree; edits that nothing crossed keep the graph in shape |
| `ai_chat` | `MCAiChat`, `AiChat.cfg` | `PaidForAnswers`, `AnswersFitQuestions`, `OnlyMissedBatchesForget`, `AgentSettlesStreams`, `SearchesAgree`, `ResultsLand` | credits buy answers, a question has one, the context is complete; streams end once; searches rank by distance; results land on the documents named |
| `devices` | `MCDevices`, `Devices.cfg` | `OnlyOverlapExceedsLimit`, `SignedInDevicesKeepSession`, `SentIsHeard`, `AccountsAgree` | sessions, streams and push tokens follow their devices but for the cases listed; an account is one user whose writes stay |
| `user_files` | `MCUserFiles`, `UserFiles.cfg` | `ClashOnlyByRaceOrMove`, `ObjectsFollowRows`, `NodesFollowFiles`, `WalkShowsAll`, `LeftoversSettle` | rows, objects and nodes agree, names clash only by a race, every summary and every hold comes to its end; the list of feedback shows all |
| `transfers` | `MCTransfers`, `Transfers.cfg` | `ExportMissesOnlyTies`, `ExportsStand`, `FinalizedHasAll`, `TransfersEnd` | what an export or a finalized import leaves out, and that both end |

Bounds and why they are enough. Rows of different users never meet, so one user
is enough, except for who shares a Notion page (two owners) and for accounts that become users
(`Accounts`, two ids).

- *credit_one_task*: two callers and the cron on one task, a clock of one tick, one refill,
  one crash. The races are between two runners on one row or one task; amounts matter
  only by whether the second fits (limits 1 and 2 for a cost of 1).
- *billing*: two events, two processes, two requests, two rows a user, one cycle of time, grace enabled;
  errors and crashes are not bounded. An event and its rival meet each handler
  and a concurrent writer.
- *pipeline*: two documents, a generation and a task of another kind, two handlers, one request,
  one edit, node ids up to 2 (a snapshot that would need more is not written). One
  handler more than one is what an overlap needs; two documents make an order of ids.
- *microscope*: one file with two handlers, or two sources with one handler whose
  results succeed. The two results of one document are the only writers of its record, and
  the second document shows the shared hold and the notice.
- *notes*, *conversations*: a folder in a folder, a note in it and an id for a new one; a
  conversation with two messages, pushes of up to three documents. Two requests and the
  cleanup overlap, one of them is cut short; `Retention = 1` with the trash put at 0
  lets a document expire at the start.
- *sync*: a note in a folder and an id for a new note, written one request at a time ("copies"), or
  a conversation with a message, written by two at once ("threads": that is where two stamps on one
  document matter); the two kinds of documents meet only in a pull of both, which "threads" has. One
  device, two writes, pages of one document (20 in the code), pulls or lists. One Notion page with
  two changes, two owners, one handler, two fetches of two API calls, one fault: a handler writes a
  cached page once, so two handlers do no more than one that takes the events in any order.
- *macro_graph*: three node ids, four documents, two clusters, two subclusters, three edges,
  two requests: up to three that move things or that link things, two of any kind.
- *ai_chat*: a window of two messages, batches of two turns, conversations of 0, 3 and 4
  turns, so that calls meet a batch's boundary with and without a memory; three calls, two of
  them at once, one failure. Two rounds and tools for the agent's five. Every graph of
  four documents with two placements in clusters while nothing changes, and some
  that change twice. One generation and one addition of three documents, two deliveries.
- *devices*: two devices, two requests, a limit of one session (the default), three calls, a
  clock of two seconds; two streams, two notifications, a replay of one; a token
  set of two ticks, two ticks (`MaxTicks`), three requests (`MaxRequests`); one failure each. Three
  accounts, one of each provider (`UserAccounts`), two user ids, two requests at once (`LoginRequests`),
  two logins begun (`MaxStarts`), four calls (`MaxLogins`), two columns of settings, one of them a key
  (`UserColumns`, `KeyColumns`).
- *user_files*: three files and a folder, two requests, one failure, one graph task; two tasks, one
  caller, a cron and a crash for the holds. Three feedbacks, two of them there at first, pages of one,
  a clock of one second, three requests with one attachment each, one walk, one failure.
- *transfers*: four conversations, pages of two (100 in the code), chunks of at most two
  (20), two exports, two messages, two receptions each; `ThreePlans` says what meets.

`CHECK_DEADLOCK FALSE` is set where requests, tasks or the clock run out by their bound
and the system then rests. Symmetry is used only for interchangeable processes,
tasks, documents and events, and in no run with a liveness property. In `devices` a model value
stands for something else in each part; the parts share no state.

Fairness. `user_files` assumes that a job queued by `setImmediate` runs (weak), that the clock
and the hourly cron's steps are taken (weak; node-cron awaits each rollback) and that the
database does not reject the cron's rollback for ever (strong); nothing is assumed of
callers or workers. `notes` and `conversations` assume weak fairness of the cleanup
job's steps alone (daily, and it goes on after an error of one document). `transfers` assumes
that a background task that is alive goes on, that a claim's message is sent or fails,
that a queued message is received and that workers go on (`ExportFairness`,
`ImportFairness`); a process may die at any time all the same. Users may stop at any point everywhere.

## 4. Properties

Each is stated with a comment in its module. Those that say what may go wrong, and
only that, are of the form "X is lost only if Y" (the names with `Only`, and the
ones that name excepted cases). They record that the code does have the race Y, and that
nothing else (repetition, crash, failure, any other interleaving) breaks X; the
history variable that says Y is set only by Y. Every property has a mutant of
the code that breaks it.

### Where the code and its documents disagree, and what the models met

No run is about these: each is a line of the code read against a line of a document, or a
case that the properties above except.

- Credits: two refills read one ended cycle, and the second refills a cycle that has just begun
  (`core/services/CreditService.ts:298`; `src/docs/architecture/CREDIT_SYSTEM.md:614,627`).
- Billing: two first logins leave two ACTIVE subscriptions
  (`core/services/SubscriptionService.ts:62`; `src/prisma/schema.prisma:160`), and a FREE row
  created between upgrade and payment hides the paid plan. Nothing expires a CANCELED subscription
  (`src/docs/architecture/PAYMENT_SYSTEM_FLOW.md:182`), a renewal does not refill (`:216`), FAILED
  webhook events are never reprocessed. One payment may extend a plan, and be booked, as often as
  Stripe reports it under types that count as completed
  (`infra/payment/webhookEventResolver.ts:11`). A renewal that crosses another is lost, and one that
  crosses an end revives the row (`core/services/WebhookProcessingService.ts:158`); an error between
  a handler's writes leaves what it gave unbooked.
- Graph: an edit made while the AI works is behind the watermark and not sent by the next AddNode
  (`ai_graph_output.mapper.ts:25`; `20260226-add-node-batch.md:14`). AddNode reads a name that it
  cannot resolve as a number and attaches edges to the wrong nodes
  (`workers/handlers/AddNodeResultHandler.ts:775`); a crash before the prune keeps a moved node's
  old memberships (`:345`); a FAILED delivery's report is not taken back by a good one; an end is
  reported twice when Redis fails or the message comes again after a day
  (`workers/handlers/GraphGenerationResultHandler.ts:470`); ids of hard-deleted highest nodes are
  used again.
- Microscope: an ingest's hold is settled under another id, so never
  (`workers/handlers/MicroscopeIngestResultHandler.ts:263`; `CREDIT_SYSTEM.md:322`). Deleting a
  workspace leaves block graphs and raw texts (`core/services/MicroscopeManagementService.ts:294`),
  a failed hold an empty workspace; "completed" may be told early or never.
- Notes and conversations: the cleanup cannot purge folders (`core/services/NoteService.ts:459`;
  `src/docs/architecture/cleanup-mechanism.md:28`), trashing a folder stamps again what was in the
  trash and restoring it revives what had been trashed alone. `restoreConversation` restores nodes
  of its messages, which have none, and not its own (`src/docs/architecture/data-lifecycle.md:79`).
- Sync: a pushed update stores `createdAt` 0 (`infra/repositories/ConversationRepositoryMongo.ts:185`,
  `MessageRepositoryMongo.ts:175`); devices never learn of a purge; what is committed
  while a pull runs is not pulled until it is written again; a message comes only with a
  conversation modified since; an edit of a note in the server's trash meets its own
  id and rolls the whole push back; documents of one stamp are lost at a page's end
  (`ConversationRepositoryMongo.ts:138`), in exports too.
- Chat: the context loses batches that no call was there to summarise
  (`core/services/AiInteractionService.ts:299`). The agent's tool rounds may run out with neither
  result nor error, and the charge stays (`core/services/AgentService.ts:226`); so does one whose
  usage log could not be written (`core/services/CreditService.ts:76`, `AgentService.ts:101`). The
  summary of a file reads the payload bucket while uploads go to the file bucket
  (`AiInteractionService.ts:856`, `core/services/UserFileService.ts:200`).
- Editor: `executeBatch` is not atomic (`core/services/GraphEditorService.ts:800`, `:826`); a
  restored node brings edges back onto deleted nodes. Search and snapshot show the titles of trashed
  conversations, not of trashed notes.
- Files: a file renamed and moved at once keeps a name that the new folder has
  (`UserFileService.ts:539`); a patch with the folder it is in renames it (`:541`); lost
  answers leave objects, nodes and summaries; a process that dies leaves `summaryStatus`
  'processing'; deleting a folder leaves its files.
- Notion: a row that `markAsStale` creates names no integration, so `pullStalePages` passes it over
  (`core/services/NotionService.ts:188`), and nothing but a test calls that; a page taken out
  of the trash stays deleted in the cache until it is fetched
  (`infra/repositories/NotionCacheRepositoryMongo.ts`, `markAsStale`); a page that two users share is
  cached for the first alone (the key is the page's id); blocks beyond the first hundred
  of a block are not read; a fetch clears a mark that an event set while it was under way.
- Users: two overlapping first saves of the onboarding answers leave a `user_info` row that nobody reads
  (`infra/repositories/UserRepositoryMySQL.ts:214`); deleting test users leaves theirs.
- Feedback: the objects of attachments outlive their rows, and those of a request that fails have none
  (`core/services/FeedbackService.ts`); the list ends early when the cursor's row is deleted.
- Notifications: a failed unsubscribe ends the server (`index.ts:61`); between replay and
  subscription a notification is lost; logging out does not unregister a push token, a
  registration given up between its commands leaves a set without an end
  (`core/services/NotificationService.ts:104`).
- Transfers: a death or a failed catch leaves an export PENDING and later ones refused
  (`core/services/ChatExportService.ts:144`); a failed send leaves an import 'finalizing'
  (`core/services/ImportArchiveService.ts:86`); completion names every id even when a chunk failed
  (`core/services/ImportFinalizeProcessor.ts:50`); a redelivery creates again what the user has
  destroyed.

## 5. Proofs

The theorems hold for every value of the constants that the named assumptions of the
modules allow: any sets of users, documents, requests, processes, names, any prices, limits
and bounds.

| module | theorem | states |
|---|---|---|
| `CreditLedger_proofs` | `TypeCorrect` | types |
| | `Settlement` | `SettledAtMostOnce` |
| | `Solvency` | `NeverOverdrawn` |
| | `LogAgreement` | a usage log says how its hold was settled |
| | `Refinement` | `ImplementsEscrow` |
| | `BooksBreakOnlyByRefill` | `OnlyRefillBreaksBooks` |
| `Billing_proofs` | `BillingTyped`, `OneHandler`, `BooksFit` | types, `HandledOnce`, `BooksFitPlans` |
| `GraphPipeline_proofs` | `PipelineTyped`, `ResultsPaid`, `StatusKept`, `NodesKept` | types, `ChargedForResult`, `AddNodeStatusKept`, `OnlyOverlapLosesNodes` |
| `Sessions_proofs` | `SessionsTyped`, `LimitPassedOnlyByOverlap`, `RotationKeepsDevices` | types, `OnlyOverlapExceedsLimit`, `SignedInDevicesKeepSession` |
| | `StreamsHear`, `TokensFollowDevices`, `SentIsAlwaysHeard` | `StreamsTell` of `Notifications`, `PushesFollowDevices` of `Pushes`, both: `SentIsHeard` |
| | `UsersAgree` | `AccountsAgree` of `Accounts` |
| `Microscope_proofs` | `MicroscopeInvariant`, `MicroscopeStatusTells` | the inductive invariant, `StatusTells` |
| `AiChat_proofs` | `AiChatInvariant`, `AiChatPaidForAnswers`, `AiChatAnswersFitQuestions` | the inductive invariant, `PaidForAnswers`, `AnswersFitQuestions` |
| | `AgentSettles` | `AgentSettlesStreams` of `Agent` |
| `UserFiles_proofs` | `NamesClashOnlyByRace`, `ObjectsStayWithRows`, `NodesStayWithFiles` | `ClashOnlyByRaceOrMove`, `ObjectsFollowRows`, `NodesFollowFiles` |
| | `WalksShowAll` | `WalkShowsAll` of `Feedback` |
| `Transfers_proofs` | `ExportsComplete`, `ExportsStandFirm`, `ImportsComplete` | `ExportMissesOnlyTies`, `ExportsStand`, `FinalizedHasAll` |
| | `ReadersMissOnlyOverlaps` | `OnlyOverlapsAndTiesAreMissed` of `Sync` |
| | `FreshPagesStayCurrent` | `FreshPagesAreCurrent` of `Notion` |

What they assume of the constants is named in the modules (`MicroscopeAssumption`: one or two
documents, as `LastDoc` has them; `DevicesAssumption`, `FeedbackAssumption`: that what stands for
"none" is no id, that the entries that are there at first are finitely many, and that a page has room;
`SyncAssumption`: ids are of one collection each and finitely many; `NotionAssumption`: a fetch
makes at least one call) or in the theorem: finitely many `Requests` for `AiChat` and `Agent`
(their charges are counted), a number of rounds for `Agent`, finitely many `Conversations` for
exports and imports (a page is the first of them), and for `Sync` that the messages stored to
begin with are in their conversations. The theorems about parts that an MC module puts beside others
(`StreamsHear` .. `UsersAgree`, `AgentSettles`, `WalksShowAll`, `FreshPagesStayCurrent`) are about
the instance made there, whose constants are free: `UsersAgree` is for any accounts, ids, columns,
requests and bounds, of which `DevicesAssumption` asks only that an account is a pair of provider and
subject and that `NULL` is no row's id.

None of these properties is inductive: every write uses what its call read some steps
before. Each proof strengthens it with what a call in flight may rely on, checked by TLC first.

- *The ledger.* `IInv` is the types, `CallsOK` (a call's frame is one its operation can have,
  the balance row it will change exists, the HOLD it read is the one it will settle, only
  the winner of a settlement is about to write a log row, a HOLD is placed by one call
  only), `HoldersOK` (the holder of a HOLD has a balance row) and the three safety
  properties. It is kept because rows only grow (`StepGrow`). Every writing step changes what its user
  may spend by a known amount (`Becomes`), which gives `NeverOverdrawn` and, step by step, the
  actions of `CreditEscrow`: a deduction is `Spend`, a hold `Place`, a settlement `Commit` or `Release`,
  a refill `Refill`, all else a stutter. `OnlyRefillBreaksBooks` compares a balance row with a sum
  over all holds: `BooksInv` adds that finitely many holds are placed and that rows that
  do not exist have moved nothing, and the sum lemmas (a sum does not depend on the order it is
  taken in, and changes by what one member changes) are proved by the smallest
  set that would contradict them.
- *Billing.* `BillingInv`: a running handler has its event stored as its own and no other works for
  it (`OneAtWork`); the row that it is to write is as it found it, unless crossed (`Fresh`); it gives
  once, and before it books (`Gift`); what was given and is not in the books is about to be
  booked by its event's handler, or that handler failed or died (`Unbooked`), so that the event
  is not PROCESSED first; deeds are of rows and stored events (`DeedsOK`), so that a new row has
  none. `WriteStep` proves once what every write of a row keeps.
- *The pipeline.* `PipelineInv` says of each handler at each step what its task, its result and its
  hold are; `NodesInv` that the plan of an AddNode still fits the graph (`PlanFits`) unless
  results overlap, and that a task whose documents may still be collected is unknown to queues and
  handlers (`FreshOK`).
- *Sessions.* `RoomForNew`: between its trim and its add a lone writer has left room. `KeepInv`: a
  token has its holders, a device has one request unless it is in `parallel`, and the token
  that is about to become its cookie is kept.
- *Streams.* `StreamsInv`: streams that were at one process at once are listed in `shared`
  (`SharedKnown`), a process's handler writes to a stream of that process that is open or closing
  (`HandlersOwn`), and a tab and its stream know each other (`TabsOwn`). `MessagesInv`:
  notifications are stored in the order of their ids; what a tab has moved past it has, may miss
  (`missable`), or it was never stored; a tab past its replay has all that is sent.
- *Accounts.* `UsersInv`: one row an account and one free row an id (`RowsInv`), a login about to touch
  a row has its account, and of the saves under way for one user at most one has read that there is
  no row of answers, unless two overlapped (`SavesApart`).
- *Pushes.* `PushesInv`: the set lives while a token is in it, a device has one request or is
  `crossed`, and an answered request stands for what the set has.
- *Agent.* `AgentInv`: types, a frame fits its place (`CallOK`), and an equation between
  the balance, the open charges, the answered streams and the listed losses.
- *Microscope.* Its `IInv` says where each task is (request, queue, result, handler), that a handler
  past its save has its payload in its collection (`ViewOK`, `GraphOK`), that a result which is
  gone, or about to go, has its sub-status in the record unless two handlers wrote that record at
  once (`HeardOK`), and that a workspace whose documents have all settled is announced or has a
  result yet to come (`ToldOK`). The steps are first reduced to what they change of the record, so
  that each conjunct is proved once for each kind of change and not for each of the handlers'
  actions.
- *The chat.* Its `IInv`: the balance is the funds less what is open, answered and kept (`BalanceOK`, a
  count over the requests), ids are used once (`IdsOK`), as long as no message
  is deleted an answered question stays and no two open calls have saved one question
  (`QuestionsOK`), and while calls come one at a time
  the last message is what the open call thinks it is (`TurnsOK`).
- *Sync.* Every commit, whatever the request, is one of the form `Commits(w, written)`: the
  collections outside `written` stay, and what is live of it has the call's stamp or is newer than
  what was there. With that, `PullInv` is kept: what a pull has found is what was live and stamped
  at or after its `since`, unless it was written since the pull began; a message found has its
  conversation found; and the property itself (`Brings`). `ListInv`: what stayed in a list and was
  not shown lies behind the cursor or ties with one. The attempt to prove the property showed that
  it did not hold with two writers, which the run did not have then: a message can lose its
  conversation's time to a slower, older write, or be left behind when its conversation comes back
  from the trash, and is then never pulled. TLC found both once two writers were allowed; the
  histories (`LeftBehind`) and the comment of the property name the cases now, and the run has two
  writers.
- *Notion.* `PagesInv`: every answer that a fetch holds or a page shows is what Notion has, or an
  event of a later revision is on its way or in the hands of a handler that has not come to that
  user (`Known`), for pages that are not suspect and fetches that no event has overtaken.
- *Files.* `CallsInv`: frames fit their step and finitely many files are active, so that a free
  suffix exists and `resolveDisplayName` finds the least (`ResolvesFree`). `LifeInv`: an upload
  has its file for itself, an object is deleted only when its row is gone, and each object
  without a row and each node too many is the business of a request that is half done.
  `NamesInv`: a name that an upload or an update holds is free unless the frame is marked stale. The
  library to begin with is any finite one in which no two files of a folder share a name
  (`LibraryOK`).
- *Feedback.* `WalkInv`, while the walk is open and no cursor's row was deleted: what was there all the
  while is shown or comes after the cursor, and what was shown does not come after it in the list,
  also when its id is taken again by a row of the same second (`WalkOn`).
- *Transfers.* `ExportsInv`: the pages loaded so far hold what is before the cursor, but for ties; a
  job that is active has its task or is severed; a DONE job has its ZIP, unless its cleanup has
  begun. `ImportsInv`: the chunks behind a worker are stored, destroyed or dropped. The paging lemma
  and an induction over the pages come from a least counterexample.

Only model-checked:

- liveness (`ExpiredNotesPurged`, `ExpiredConversationsPurged`, `LeftoversSettle`,
  `TransfersEnd`), which is out of the provers' reach;
- what recursive functions compute over a graph, for a few given graphs (`SearchesAgree`,
  `ResultsLand`): an induction over data;
- `OnlyMissedBatchesForget`, which turns on counts modulo the length of a batch, of which the
  solvers make nothing;
- the trees of documents and the store: `NodesFollowNotes`, `TreeBreaksOnlyByRace`,
  `NodeOnlyOfLiveConversation`, `OnlyOldChecksLeaveMessages`, `OlderEditWinsOnlyByRace`, `GraphHolds`
  and `SerialEditsKeepShape`. Nothing stands against them but their size: the frame of each
  call in flight has to say which of what it read another writer has changed, for twenty operations
  and more.

## 6. Not modelled

- Payment gateway adapters (HTTP calls; `Billing` keeps what the gateway may report),
  `DailyUsageService` (never called), reading Notion's pages through without the cache
  (`searchRootPages`, `listBlockChildrenProxy`), the HTTP layer, dependency injection, auditing.
- In the graph: vectors, attribute-only updates (`updateNode`, `updateCluster`,
  `updateSubcluster`), summary and statistics documents, operations that nothing calls
  (`upsertGraph`, `purgeUserData`, `softDeleteAll*`, `restoreAll*`, `deleteEdgeBetween`,
  `deduplicateBelongsTo`, `restoreSubcluster`; `restoreGraph` always throws).
- In microscope: the graph's content and legacy tasks without a suffix. In chat and agent: prompts,
  providers, the texts of tools, a client that disconnects from an agent stream. Titles, tags and
  counts of conversations; `listSessions`; the expiry of tokens and keys by time.
- Uploading and cancelling an import's archive (File Service), and its fallback without a queue.

The reasons are with each component in `PROJECT.json`.

## 7. Plan

Done: the models of section 2; the proofs of section 5, of every component's main safety
properties but those of the documents' trees and of the graph store.

Next: `NodesFollowNotes` and `NodeOnlyOfLiveConversation` (the frame of a call in flight knows which of
the documents it read another writer has touched), then `GraphHolds`, statement by statement of
`MacroGraphStore`.
