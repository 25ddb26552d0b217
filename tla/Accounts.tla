------------------------------- MODULE Accounts -------------------------------
(***************************************************************************)
(* The users' rows: signing in with an account of Google, Apple or the     *)
(* development login (AuthGoogle, AuthApple, UserRepositoryMySQL), the     *)
(* settings and the onboarding answers of a user (UserService), and the    *)
(* test users.  Every await is a step and other requests run in between.   *)
(* What follows a login (its session) is in Sessions.                      *)
(***************************************************************************)
EXTENDS Naturals, FiniteSets

CONSTANTS
    Accounts,           \* the accounts: pairs of a provider and a subject
    Ids, InfoIds,       \* ids of users and of user_info rows, each used once
    Columns, Keys,      \* the columns that are settings, and which of them are API keys
    Requests, NULL,
    MaxStarts,          \* bound on the logins begun at a provider
    MaxCalls            \* bound on the requests made

VARIABLES
    user,       \* users, by id
    info,       \* user_info, by id
    usedIds,    \* the ids given out, of both
    oauthState, \* the oauth_state cookie of the browser
    pending,    \* the consent pages that the browser has open: provider and state
    call,       \* per request, what it does
    starts, calls,  \* counts against the bounds
    joined,     \* history: the accounts that signed in and the users they became
    last,       \* history: per user and column, the value last written
    saved,      \* history: per user, the answers last saved
    together    \* history: users whose first answers were saved by two requests at once

vars == <<user, info, usedIds, oauthState, pending, call, starts, calls, joined, last,
          saved, together>>

Provider(a) == a[1]
Subject(a) == a[2]

Idle == [at |-> "idle", account |-> NULL, id |-> NULL, provider |-> NULL, column |-> NULL,
         value |-> 0, info |-> NULL]
NewUser(a) == [account |-> a, settings |-> [c \in Columns |-> 0], loggedIn |-> FALSE, info |-> NULL]

Stored(id) == user[id] # NULL
Running(r) == call[r] # Idle
At(r, step) == call[r].at = step
Goto(r, step) == call' = [call EXCEPT ![r].at = step]
End(r) == call' = [call EXCEPT ![r] = Idle]
FreeIds == Ids \ usedIds
FreeInfoIds == InfoIds \ usedIds

Init ==
    /\ user = [id \in Ids |-> NULL] /\ info = [i \in InfoIds |-> NULL] /\ usedIds = {}
    /\ oauthState = 0 /\ pending = {}
    /\ call = [r \in Requests |-> Idle]
    /\ starts = 0 /\ calls = 0
    /\ joined = {} /\ last = [id \in Ids |-> [c \in Columns |-> 0]]
    /\ saved = [id \in Ids |-> 0] /\ together = {}

Begin(r, c) ==
    /\ ~Running(r) /\ r = CHOOSE q \in Requests : ~Running(q)
    /\ calls < MaxCalls /\ calls' = calls + 1
    /\ call' = [call EXCEPT ![r] = c]

Tables == <<user, info, usedIds>>
Browser == <<oauthState, pending, starts>>
History == <<joined, last, saved, together>>

-----------------------------------------------------------------------------
(* Signing in.                                                             *)

\* Google's state goes into a cookie, which a later start overwrites; Apple's is signed
\* and kept nowhere.
StartGoogle ==
    /\ starts < MaxStarts /\ starts' = starts + 1
    /\ oauthState' = starts + 1
    /\ pending' = pending \cup {[provider |-> "google", state |-> starts + 1]}
    /\ UNCHANGED <<Tables, call, calls, History>>

StartApple ==
    /\ starts < MaxStarts /\ starts' = starts + 1
    /\ pending' = pending \cup {[provider |-> "apple", state |-> starts + 1]}
    /\ UNCHANGED <<Tables, oauthState, call, calls, History>>

\* Of two logins begun in one browser only the later one's callback is accepted.
GoogleCallback(r, p) ==
    /\ p \in pending /\ p.provider = "google" /\ pending' = pending \ {p}
    /\ IF oauthState = p.state
       THEN oauthState' = 0 /\ Begin(r, [Idle EXCEPT !.at = "exchange", !.provider = "google"])
       ELSE UNCHANGED <<oauthState, call, calls>>
    /\ UNCHANGED <<Tables, starts, History>>

AppleCallback(r, p) ==
    /\ p \in pending /\ p.provider = "apple" /\ pending' = pending \ {p}
    /\ Begin(r, [Idle EXCEPT !.at = "exchange", !.provider = "apple"])
    /\ UNCHANGED <<Tables, oauthState, starts, History>>

\* The provider tells whose code it is, or refuses it (Fail).
ExchangeCode(r, a) ==
    /\ At(r, "exchange") /\ Provider(a) = call[r].provider
    /\ call' = [call EXCEPT ![r].at = "find", ![r].account = a]
    /\ UNCHANGED <<Tables, Browser, calls, History>>

TestLogin(r, a) ==
    /\ Provider(a) = "dev" /\ Begin(r, [Idle EXCEPT !.at = "find", !.account = a])
    /\ UNCHANGED <<Tables, Browser, History>>

Of(provider, subject) == {id \in Ids : Stored(id) /\ user[id].account = <<provider, subject>>}

\* Mutant: the subject alone is looked for.
SubjectOnly(a) == {id \in Ids : Stored(id) /\ Subject(user[id].account) = Subject(a)}

findByProvider(a) == Of(Provider(a), Subject(a))

FindByProvider(r) ==
    /\ At(r, "find")
    /\ IF findByProvider(call[r].account) = {} THEN Goto(r, "create")
       ELSE \E id \in findByProvider(call[r].account) :
                call' = [call EXCEPT ![r].at = "touch", ![r].id = id]
    /\ UNCHANGED <<Tables, Browser, calls, History>>

LoggedIn(row) == [row EXCEPT !.loggedIn = TRUE]

\* The update finds no row if the user was deleted since: the login fails.
TouchUser(r) ==
    LET id == call[r].id IN
    /\ At(r, "touch") /\ End(r)
    /\ IF Stored(id)
       THEN /\ user' = [user EXCEPT ![id] = LoggedIn(@)]
            /\ joined' = joined \cup {<<call[r].account, id>>}
       ELSE UNCHANGED <<user, joined>>
    /\ UNCHANGED <<info, usedIds, Browser, calls, last, saved, together>>

\* Two users of one account: the unique key refuses the second.
Refused(a) == \E id \in Ids : Stored(id) /\ user[id].account = a

CreateUser(r, id) ==
    LET a == call[r].account IN
    /\ At(r, "create") /\ id \in FreeIds /\ End(r)
    /\ IF Refused(a) THEN UNCHANGED <<user, usedIds, joined>>
       ELSE /\ user' = [user EXCEPT ![id] = NewUser(a)]
            /\ usedIds' = usedIds \cup {id}
            /\ joined' = joined \cup {<<a, id>>}
    /\ UNCHANGED <<info, Browser, calls, last, saved, together>>

-----------------------------------------------------------------------------
(* Settings.                                                               *)

\* A key is first tried at its provider, which may refuse it (Fail); the assistant's id
\* is written without a look at the user.
FirstStep(c) == IF c \in Keys THEN "validate"
                ELSE IF c = "openaiAssistantId" THEN "write" ELSE "check"

UpdateSetting(r, id, c) ==
    /\ id \in usedIds
    /\ Begin(r, [Idle EXCEPT !.at = FirstStep(c), !.id = id, !.column = c, !.value = calls + 1])
    /\ UNCHANGED <<Tables, Browser, History>>

\* null is 0.
DeleteKey(r, id, c) ==
    /\ c \in Keys /\ id \in usedIds
    /\ Begin(r, [Idle EXCEPT !.at = "check", !.id = id, !.column = c])
    /\ UNCHANGED <<Tables, Browser, History>>

ValidateKey(r) ==
    /\ At(r, "validate") /\ Goto(r, "check")
    /\ UNCHANGED <<Tables, Browser, calls, History>>

CheckUser(r) ==
    /\ At(r, "check")
    /\ IF Stored(call[r].id) THEN Goto(r, "write") ELSE End(r)
    /\ UNCHANGED <<Tables, Browser, calls, History>>

WithColumn(row, c, v) == [row EXCEPT !.settings[c] = v]

WriteColumn(r) ==
    LET id == call[r].id  c == call[r].column IN
    /\ At(r, "write") /\ End(r)
    /\ IF Stored(id)
       THEN /\ user' = [user EXCEPT ![id] = WithColumn(@, c, call[r].value)]
            /\ last' = [last EXCEPT ![id][c] = call[r].value]
       ELSE UNCHANGED <<user, last>>
    /\ UNCHANGED <<info, usedIds, Browser, calls, joined, saved, together>>

-----------------------------------------------------------------------------
(* Onboarding: a transaction (READ COMMITTED) that reads the user's        *)
(* user_info_id and then writes.  Its writes are seen when it commits, and *)
(* until then the user's row is locked: they are one step here.            *)

UpdateOnboarding(r, id) ==
    /\ id \in usedIds
    /\ Begin(r, [Idle EXCEPT !.at = "find user", !.id = id, !.value = calls + 1])
    /\ UNCHANGED <<Tables, Browser, History>>

FindUser(r) ==
    /\ At(r, "find user")
    /\ IF Stored(call[r].id) THEN Goto(r, "read") ELSE End(r)
    /\ UNCHANGED <<Tables, Browser, calls, History>>

FirstSave(r) == At(r, "commit") /\ call[r].info = NULL

ReadInfoId(r) ==
    LET id == call[r].id IN
    /\ At(r, "read")
    /\ call' = [call EXCEPT ![r] = IF Stored(id) THEN [@ EXCEPT !.at = "commit", !.info = user[id].info]
                                   ELSE Idle]
    /\ together' = IF \E q \in Requests : FirstSave(q) /\ call[q].id = id
                   THEN together \cup {id} ELSE together
    /\ UNCHANGED <<Tables, Browser, calls, joined, last, saved>>

\* Mutant: every save creates a row.
AlwaysCreate(r) == FreeInfoIds

\* The row is created and linked if none was read.
InfoToWrite(r) == IF call[r].info = NULL THEN FreeInfoIds ELSE {call[r].info}

CommitOnboarding(r, i) ==
    LET id == call[r].id IN
    /\ At(r, "commit") /\ i \in InfoToWrite(r) /\ End(r)
    /\ IF Stored(id) \/ ~FirstSave(r)
       THEN /\ info' = [info EXCEPT ![i] = [value |-> call[r].value, of |-> id]]
            /\ usedIds' = usedIds \cup {i}
            /\ user' = IF FirstSave(r) THEN [user EXCEPT ![id].info = i] ELSE user
            /\ saved' = [saved EXCEPT ![id] = call[r].value]
       ELSE UNCHANGED <<user, info, usedIds, saved>>
    /\ UNCHANGED <<Browser, calls, joined, last, together>>

getOnboarding(id) == IF user[id].info = NULL THEN 0 ELSE info[user[id].info].value

-----------------------------------------------------------------------------
(* Test users.                                                             *)

\* One upsert of a batch.
SeedTestUser(a) ==
    /\ Provider(a) = "dev" /\ calls < MaxCalls /\ calls' = calls + 1
    /\ IF Refused(a)
       THEN /\ user' = [id \in Ids |-> IF id \in findByProvider(a) THEN LoggedIn(user[id]) ELSE user[id]]
            /\ UNCHANGED usedIds
       ELSE \E id \in FreeIds : /\ user' = [user EXCEPT ![id] = NewUser(a)]
                                /\ usedIds' = usedIds \cup {id}
    /\ UNCHANGED <<info, Browser, call, History>>

\* Their user_info rows stay.
DeleteTestUsers ==
    LET gone == {id \in Ids : Stored(id) /\ Provider(user[id].account) = "dev"} IN
    /\ gone # {} /\ calls < MaxCalls /\ calls' = calls + 1
    /\ user' = [id \in Ids |-> IF id \in gone THEN NULL ELSE user[id]]
    /\ UNCHANGED <<info, usedIds, Browser, call, History>>

\* A provider refuses, the database fails, or the process dies.
Fail(r) == Running(r) /\ End(r) /\ UNCHANGED <<Tables, Browser, calls, History>>

Next ==
    \/ StartGoogle \/ StartApple
    \/ \E r \in Requests, p \in pending : GoogleCallback(r, p) \/ AppleCallback(r, p)
    \/ \E r \in Requests, a \in Accounts : ExchangeCode(r, a) \/ TestLogin(r, a)
    \/ \E r \in Requests : FindByProvider(r) \/ TouchUser(r) \/ ValidateKey(r) \/ CheckUser(r)
                             \/ WriteColumn(r) \/ FindUser(r) \/ ReadInfoId(r) \/ Fail(r)
    \/ \E r \in Requests, id \in Ids : CreateUser(r, id) \/ UpdateOnboarding(r, id)
    \/ \E r \in Requests, id \in Ids, c \in Columns : UpdateSetting(r, id, c) \/ DeleteKey(r, id, c)
    \/ \E r \in Requests, i \in InfoIds : CommitOnboarding(r, i)
    \/ \E a \in Accounts : SeedTestUser(a)
    \/ DeleteTestUsers

Spec == Init /\ [][Next]_vars

-----------------------------------------------------------------------------
\* An account always comes to one user, as long as that user is there, and no other
\* account comes to it, although finding and creating are separate steps.
OneUserPerAccount ==
    /\ \A j \in joined : Stored(j[2]) => user[j[2]].account = j[1]
    /\ \A j, k \in joined : j[1] = k[1] /\ Stored(j[2]) /\ Stored(k[2]) => j[2] = k[2]

\* No request undoes what another wrote: a setting is as last written, and the answers
\* are as last saved unless two first saves overlapped (the later one links a row of its
\* own, and a save that read the link of the earlier writes to a row nobody reads).
WritesStay ==
    \A id \in Ids : Stored(id) => /\ user[id].settings = last[id]
                                  /\ getOnboarding(id) = saved[id] \/ id \in together

\* A user_info row is its user's, unless two first saves overlapped or the user is gone.
InfoRowsOwned ==
    \A i \in InfoIds : info[i] # NULL =>
        LET id == info[i].of IN
        \/ Stored(id) /\ user[id].info = i
        \/ id \in together
        \/ ~Stored(id)

AccountsAgree == OneUserPerAccount /\ WritesStay /\ InfoRowsOwned
=============================================================================
