------------------------------ MODULE MCDevices ------------------------------
(***************************************************************************)
(* The models of who uses the servers, for TLC.  What the devices of one   *)
(* user have open there: their login sessions (Sessions, with a limit of   *)
(* one, the default, and tokens of three seconds), their notification      *)
(* streams (Notifications) and their push tokens (Pushes).  The users'     *)
(* rows (Accounts): one account of each provider.  The four share no       *)
(* state, so a behaviour is one of them.                                   *)
(***************************************************************************)
EXTENDS Sessions, TLC

CONSTANTS Streams, Procs, MaxId, Limit, PushLifetime, MaxTicks, MaxRequests,
          UserAccounts, UserIds, InfoIds, UserColumns, KeyColumns, LoginRequests,
          MaxStarts, MaxLogins, NULL,
          a1, a2, b1, b2, c1, c2

VARIABLES part, docs, sending, subscribed, handler, stream, client, cursor,
          received, streamFaults, stopping, shared, missable,
          tokens, life, gone, asked, push, made, ticks, pushFaults, standing,
          crossed, unaged,
          user, info, usedIds, oauthState, pending, login, starts, logins, joined, last,
          saved, together

Live == INSTANCE Notifications
            WITH Clients <- Devices, None <- NoToken,
                 faults <- streamFaults, crowded <- shared

\* What stands for nothing is not a stream or a row, a push key lives for a while, and
\* an account is a provider and a subject.
ASSUME DevicesAssumption ==
    /\ MaxId \in Nat /\ PushLifetime \in Nat \ {0}
    /\ NoToken \notin Streams /\ Live!Dead \notin Streams /\ NULL \notin InfoIds
    /\ \A a \in UserAccounts : a = <<a[1], a[2]>>

liveVars == <<docs, sending, subscribed, handler, stream, client, cursor, received,
              streamFaults, stopping, shared, missable>>

Pushing == INSTANCE Pushes
             WITH req <- asked, faults <- pushFaults, Lifetime <- PushLifetime

pushVars == <<tokens, life, gone, asked, push, made, ticks, pushFaults, standing,
              crossed, unaged>>

Users == INSTANCE Accounts
             WITH Accounts <- UserAccounts, Ids <- UserIds, Columns <- UserColumns,
                  Keys <- KeyColumns, Requests <- LoginRequests, MaxCalls <- MaxLogins,
                  call <- login, calls <- logins

\* One account of each provider.
MCAccounts == {<<"google", 1>>, <<"apple", 1>>, <<"dev", 1>>}

userVars == <<user, info, usedIds, oauthState, pending, login, starts, logins, joined, last,
              saved, together>>

Init2 ==
    /\ part \in {"sessions", "streams", "pushes", "users"}
    /\ Init /\ Live!Init /\ Pushing!Init /\ Users!Init

Next2 ==
    \/ part = "sessions" /\ Next /\ UNCHANGED <<part, liveVars, pushVars, userVars>>
    \/ part = "streams" /\ Live!Next /\ UNCHANGED <<part, vars, pushVars, userVars>>
    \/ part = "pushes" /\ Pushing!Next /\ UNCHANGED <<part, vars, liveVars, userVars>>
    \/ part = "users" /\ Users!Next /\ UNCHANGED <<part, vars, liveVars, pushVars>>

Spec2 == Init2 /\ [][Next2]_<<part, vars, liveVars, pushVars, userVars>>

\* What NotificationService sends is heard: in the tabs that have a stream, or open one
\* again, and by the devices that asked for pushes, but for the cases that the two list.
SentIsHeard == Live!StreamsTell /\ Pushing!PushesFollowDevices

\* The property of the users' rows.
AccountsAgree == Users!AccountsAgree

\* The models share the values of what is interchangeable in them (a1 is a device in one
\* and a user in another): TLC's time grows with the number of the permutations.
Sym == Permutations({a1, a2}) \cup Permutations({b1, b2}) \cup Permutations({c1, c2})
=============================================================================
