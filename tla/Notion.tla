-------------------------------- MODULE Notion --------------------------------
(***************************************************************************)
(* The cache of a workspace's Notion pages: NotionService over             *)
(* notion_page_caches and notion_integrations.  Notion is external: its    *)
(* pages change, and it sends an event of each change, at least once and   *)
(* in any order.  The webhook only marks a cached page stale; whoever      *)
(* needs it fetches it later, one API call after another.                  *)
(***************************************************************************)
EXTENDS Naturals, Sequences

CONSTANTS
    Pages, Owners,      \* ids of pages and of users
    Hooks, Jobs,        \* the webhook handlers and the fetches that may run at once
    NULL,
    Calls,              \* the API calls that fetch a page: retrievePage, then its blocks
    MaxRev,             \* bound on the changes of a page
    MaxFetches,         \* bound on the fetches begun
    MaxFaults           \* bound on failures, repeated events and deaths

VARIABLES
    notion,     \* per page, what Notion tells of it: its revision, and where it is
    events,     \* the events to be delivered
    linked,     \* the users with an integration for the workspace
    cache,      \* per page, its document
    hook,       \* per handler, its event and the users it has yet to write for
    job,        \* per fetch, its user, page, answers so far, and the pages to fetch next
    fetches, faults,    \* counts against the bounds
    suspect     \* history: pages whose event was lost, or handled beside a fetch that ended later

vars == <<notion, events, linked, cache, hook, job, fetches, faults, suspect>>

\* Mutant: a page that only was edited is not marked.
StructureOnly == {"page.created", "page.undeleted"}

PAGE_SYNC_EVENT_TYPES == {"page.content_updated", "page.created", "page.undeleted"}
PAGE_DELETE_EVENT_TYPES == {"page.deleted"}

\* What Notion sends; a change of properties counts as one of the content.
EventTypes == {"page.created", "page.content_updated", "page.undeleted", "page.deleted"}

NoHook == [event |-> NULL, at |-> "idle", users |-> {}]
NoJob == [user |-> NULL, page |-> NULL, got |-> <<>>, rest |-> {}, fresh |-> TRUE]

Running(j) == job[j] # NoJob
Handling(h) == hook[h] # NoHook
Fault == faults < MaxFaults /\ faults' = faults + 1

Init ==
    /\ notion \in [Pages -> [rev : {0}, is : {"nowhere", "there", "in trash"}]]
    /\ events = {} /\ linked = {}
    /\ cache = [p \in Pages |-> NULL]
    /\ hook = [h \in Hooks |-> NoHook]
    /\ job = [j \in Jobs |-> NoJob]
    /\ fetches = 0 /\ faults = 0 /\ suspect = {}

-----------------------------------------------------------------------------
(* Notion.                                                                 *)

\* A page is created, edited, put in the trash or taken out of it.
Change(p, type) ==
    /\ notion[p].rev < MaxRev
    /\ notion[p].is = CASE type = "page.created" -> "nowhere"
                        [] type = "page.undeleted" -> "in trash"
                        [] OTHER -> "there"
    /\ notion' = [notion EXCEPT ![p] = [rev |-> @.rev + 1,
                                       is |-> IF type = "page.deleted" THEN "in trash" ELSE "there"]]
    /\ events' = events \cup {[page |-> p, type |-> type, rev |-> notion[p].rev + 1]}
    /\ UNCHANGED <<linked, cache, hook, job, fetches, faults, suspect>>

upsertByUserAndWorkspace(u) == linked \cup {u}
findByNotionWorkspaceId == linked

\* The user comes back from Notion's consent page with a signed state that names
\* them; linking again only renews the tokens.
Connect(u) ==
    /\ linked' = upsertByUserAndWorkspace(u) /\ linked' # linked
    /\ UNCHANGED <<notion, events, cache, hook, job, fetches, faults, suspect>>

-----------------------------------------------------------------------------
(* NotionCacheRepositoryMongo.  The page's id alone is the key: the second *)
(* user of a page gets a duplicate key error and changes nothing.          *)

Live(p) == cache[p] # NULL /\ ~cache[p].deleted
OwnedBy(p, u) == cache[p] # NULL /\ cache[p].owner = u
Taken(p, u) == cache[p] # NULL /\ cache[p].owner # u

\* $setOnInsert names no integration.
markAsStale(p, u) ==
    IF cache[p] = NULL
    THEN [owner |-> u, title |-> NULL, blockTree |-> <<>>, stale |-> TRUE, deleted |-> FALSE,
          integration |-> FALSE]
    ELSE IF OwnedBy(p, u) THEN [cache[p] EXCEPT !.stale = TRUE] ELSE cache[p]

softDeletePage(p, u) == IF OwnedBy(p, u) THEN [cache[p] EXCEPT !.deleted = TRUE] ELSE cache[p]

\* What a fetch writes: a stale or deleted page is live and fresh again.
upsertPage(u, title, tree) ==
    [owner |-> u, title |-> title, blockTree |-> tree, stale |-> FALSE, deleted |-> FALSE,
     integration |-> TRUE]

findStalePages(u) == {p \in Pages : Live(p) /\ OwnedBy(p, u) /\ cache[p].stale}

\* Since the epoch: stale or not.
findPagesModifiedSince(u) == {p \in Pages : Live(p) /\ OwnedBy(p, u)}

\* What a graph generation is given of each page: the answers its text is made from.
streamNotionPages(u) ==
    [p \in findPagesModifiedSince(u) |-> <<cache[p].title>> \o cache[p].blockTree]

-----------------------------------------------------------------------------
(* The webhook: answered with 200, then handled.                           *)

\* Which of the free slots a handler or a fetch takes makes no difference.
Deliver(h, e) ==
    /\ ~Handling(h) /\ h = CHOOSE k \in Hooks : ~Handling(k)
    /\ e \in events
    /\ hook' = [hook EXCEPT ![h] = [NoHook EXCEPT !.event = e, !.at = "find"]]
    /\ \/ events' = events \ {e} /\ UNCHANGED faults
       \/ Fault /\ UNCHANGED events
    /\ UNCHANGED <<notion, linked, cache, job, fetches, suspect>>

FindIntegrations(h) ==
    /\ hook[h].at = "find"
    /\ hook' = [hook EXCEPT ![h] = IF findByNotionWorkspaceId = {} THEN NoHook
                 ELSE [@ EXCEPT !.at = "write", !.users = findByNotionWorkspaceId]]
    /\ UNCHANGED <<notion, events, linked, cache, job, fetches, faults, suspect>>

\* A fetch of p that has begun to read may not have seen what the event tells.
Overtaken(p) == [j \in Jobs |-> [job[j] EXCEPT !.fresh = @ /\ ~(job[j].page = p /\ job[j].got # <<>>)]]

DoneFor(h, u) ==
    LET users == hook[h].users \ {u} IN
    hook' = [hook EXCEPT ![h] = IF users = {} THEN NoHook ELSE [@ EXCEPT !.users = users]]

\* One write per user; neither loop nor Promise.all stops the others when one fails.
WriteFor(h, u) ==
    LET p == hook[h].event.page  type == hook[h].event.type IN
    /\ hook[h].at = "write" /\ u \in hook[h].users /\ DoneFor(h, u)
    /\ cache' = [cache EXCEPT ![p] =
                   IF type \in PAGE_DELETE_EVENT_TYPES THEN softDeletePage(p, u)
                   ELSE IF type \in PAGE_SYNC_EVENT_TYPES THEN markAsStale(p, u) ELSE @]
    /\ job' = Overtaken(p)
    /\ UNCHANGED <<notion, events, linked, fetches, faults, suspect>>

FailFor(h, u) ==
    LET p == hook[h].event.page IN
    /\ hook[h].at = "write" /\ u \in hook[h].users /\ DoneFor(h, u) /\ Fault
    /\ suspect' = suspect \cup {p} /\ job' = Overtaken(p)
    /\ UNCHANGED <<notion, events, linked, cache, fetches>>

-----------------------------------------------------------------------------
(* Fetching pages: of the development router, or of pullStalePages.        *)

\* The pages are fetched one after another.
Next1(u, ps) == IF ps = {} THEN {NoJob}
                ELSE {[NoJob EXCEPT !.user = u, !.page = p, !.rest = ps \ {p}] : p \in ps}

Begin(j, u, ps) ==
    /\ ~Running(j) /\ j = CHOOSE k \in Jobs : ~Running(k)
    /\ u \in linked /\ ps # {}
    /\ fetches < MaxFetches /\ fetches' = fetches + 1
    /\ \E next \in Next1(u, ps) : job' = [job EXCEPT ![j] = next]
    /\ UNCHANGED <<notion, events, linked, cache, hook, faults, suspect>>

SyncPage(j, u, p) == Begin(j, u, {p})

\* A page that only a webhook has written names no integration and is passed over.
PullStalePages(j, u) == Begin(j, u, {p \in findStalePages(u) : cache[p].integration})

\* retrievePage and listBlockChildren answer for a page in the trash too.
Answer(p) == notion[p]

\* retrievePage, then listBlockChildren of one block after another.
CallNotion(j) ==
    LET p == job[j].page IN
    /\ Running(j) /\ Len(job[j].got) < Calls /\ notion[p].is # "nowhere"
    /\ job' = [job EXCEPT ![j].got = Append(@, Answer(p))]
    /\ UNCHANGED <<notion, events, linked, cache, hook, fetches, faults, suspect>>

extractPageTitle(got) == Head(got)
buildTreeFromHierarchy(got) == Tail(got)

UpsertPage(j) ==
    LET p == job[j].page IN
    /\ Running(j) /\ Len(job[j].got) = Calls /\ ~Taken(p, job[j].user)
    /\ cache' = [cache EXCEPT ![p] = upsertPage(job[j].user, extractPageTitle(job[j].got),
                                             buildTreeFromHierarchy(job[j].got))]
    /\ suspect' = IF job[j].fresh THEN suspect \ {p} ELSE suspect \cup {p}
    /\ \E next \in Next1(job[j].user, job[j].rest) : job' = [job EXCEPT ![j] = next]
    /\ UNCHANGED <<notion, events, linked, hook, fetches, faults>>

\* An error ends the whole fetch: Notion's (it has no such page, or its calls failed
\* to the last retry) or the database's (the page is cached for another user).
FailFetch(j) ==
    /\ Running(j)
    /\ \/ notion[job[j].page].is = "nowhere" /\ UNCHANGED faults
       \/ Len(job[j].got) = Calls /\ Taken(job[j].page, job[j].user) /\ UNCHANGED faults
       \/ Fault
    /\ job' = [job EXCEPT ![j] = NoJob]
    /\ UNCHANGED <<notion, events, linked, cache, hook, fetches, suspect>>

\* The process dies with its handlers, whose events were answered, and its fetches.
Crash ==
    /\ \E h \in Hooks : Handling(h)
    /\ Fault
    /\ hook' = [h \in Hooks |-> NoHook] /\ job' = [j \in Jobs |-> NoJob]
    /\ suspect' = suspect \cup {hook[h].event.page : h \in {k \in Hooks : Handling(k)}}
    /\ UNCHANGED <<notion, events, linked, cache, fetches>>

Next ==
    \/ \E p \in Pages, t \in EventTypes : Change(p, t)
    \/ \E u \in Owners : Connect(u)
    \/ \E h \in Hooks, e \in events : Deliver(h, e)
    \/ \E h \in Hooks : FindIntegrations(h)
    \/ \E h \in Hooks, u \in Owners : WriteFor(h, u) \/ FailFor(h, u)
    \/ \E j \in Jobs, u \in Owners : PullStalePages(j, u) \/ \E p \in Pages : SyncPage(j, u, p)
    \/ \E j \in Jobs : CallNotion(j) \/ UpsertPage(j) \/ FailFetch(j)
    \/ Crash

Spec == Init /\ [][Next]_vars

-----------------------------------------------------------------------------
\* An event of a revision above r that will mark p: on its way, or in the hands of a
\* handler that has not come to the page's owner.
WillMark(p, r) ==
    \/ \E e \in events : e.page = p /\ e.rev > r
    \/ \E h \in Hooks : /\ Handling(h) /\ hook[h].event.page = p /\ hook[h].event.rev > r
                        /\ hook[h].at = "find" \/ cache[p].owner \in hook[h].users

\* A page that a graph generation is given, and that does not count as stale, is what
\* Notion has, title and blocks of one revision, unless an event that will mark it is
\* still on its way, or one was lost after its 200, or was handled while the page was
\* being fetched: the fetch then clears a mark whose cause it has not seen.
FreshPagesAreCurrent ==
    \A u \in Owners : \A p \in DOMAIN streamNotionPages(u) :
        LET given == streamNotionPages(u)[p] IN
        ~cache[p].stale => \A i \in DOMAIN given : \/ given[i] = notion[p]
                                                    \/ WillMark(p, given[i].rev)
                                                    \/ p \in suspect
=============================================================================
