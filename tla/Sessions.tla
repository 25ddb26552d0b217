------------------------------ MODULE Sessions ------------------------------
(***************************************************************************)
(* The login sessions of one user: the Redis sorted set of refresh tokens  *)
(* (SessionStoreRedis), the handlers that mint, rotate and remove them     *)
(* (completeLogin, authJwt, AuthSession, MeController.revokeSession), and  *)
(* the cookies of the user's devices.  A handler is a chain of Redis       *)
(* commands and other handlers run between any two of them.  A refresh     *)
(* token is a JWT of the user and the second it was made in, so two made   *)
(* in one second are the same token.  A token is its second here, and that *)
(* is its place in the set too: the score is the time right after.  Runs   *)
(* are shorter than the token's life of seven days, and a request of this  *)
(* module is one whose access token, of an hour, has expired.              *)
(***************************************************************************)
EXTENDS Naturals, FiniteSets

CONSTANTS
    Devices,            \* the user's devices
    Requests,           \* the requests that may run at once
    NoToken,
    MaxSessions,        \* MAX_CONCURRENT_SESSIONS
    MaxNow,             \* bound on the clock, in seconds
    MaxCalls,           \* bound on the requests made
    MaxFaults           \* bound on failures of Redis and lost answers

ASSUME SessionsAssumption ==
    /\ MaxSessions \in Nat \ {0}
    /\ MaxNow \in Nat /\ MaxCalls \in Nat /\ MaxFaults \in Nat /\ NoToken \notin Nat

VARIABLES
    sessions,       \* the sorted set of tokens, oldest first
    cookie,         \* per device, the refresh token in its cookie
    now,            \* the clock
    call,           \* per request, the handler it runs
    calls, faults,  \* how many requests were made, how many things went wrong
    holders,        \* history: per token, the devices it was made for
    removed,        \* history: tokens that the limit or a logout took away
    parallel,       \* history: devices whose requests overlapped or broke off
    crowded         \* history: whether two writers of the set overlapped

vars == <<sessions, cookie, now, call, calls, faults, holders, removed, parallel, crowded>>

Times == 0..MaxNow
Tokens == Times
Writers == {"drop", "count", "trim", "add"}
Idle == [op |-> "none", at |-> "idle", device |-> NoToken, old |-> NoToken,
         new |-> NoToken, count |-> 0]

Running(r) == call[r].at # "idle"
At(r, step) == call[r].at = step
Writing(r) == call[r].at \in Writers

Init ==
    /\ sessions = {} /\ cookie = [d \in Devices |-> NoToken]
    /\ now = 0 /\ call = [r \in Requests |-> Idle]
    /\ calls = 0 /\ faults = 0
    /\ holders = [t \in Tokens |-> {}] /\ removed = {} /\ parallel = {} /\ crowded = FALSE

-----------------------------------------------------------------------------
(* Book-keeping of calls.                                                  *)

Goto(r, step) == call' = [call EXCEPT ![r].at = step]
End(r) == call' = [call EXCEPT ![r] = Idle]
Fault == faults < MaxFaults /\ faults' = faults + 1

\* The devices of requests that are under way.
Busy == {call[r].device : r \in {q \in Requests : Running(q)}}

Begin(r, c) ==
    /\ ~Running(r) /\ calls < MaxCalls /\ calls' = calls + 1
    /\ call' = [call EXCEPT ![r] = c]
    /\ parallel' = parallel \cup ({c.device} \cap Busy)

\* generateRefreshToken.
Mint(r, step) ==
    /\ call' = [call EXCEPT ![r] = [@ EXCEPT !.new = now, !.at = step]]
    /\ holders' = [holders EXCEPT ![now] = @ \cup {call[r].device}]
    /\ crowded' = (crowded \/ \E q \in Requests \ {r} : Writing(q))

-----------------------------------------------------------------------------
(* The handlers.                                                           *)

\* completeLogin, on a device without a session or with one, which it does not look at.
Login(r, d) ==
    /\ Begin(r, [Idle EXCEPT !.op = "login", !.at = "mint", !.device = d])
    /\ UNCHANGED <<sessions, cookie, now, faults, holders, removed, crowded>>

MintLogin(r) ==
    /\ At(r, "mint")
    /\ Mint(r, "count")
    /\ UNCHANGED <<sessions, cookie, now, calls, faults, removed, parallel>>

\* A request without a valid access token: the middleware authJwt rotates the
\* refresh token on any route, /auth/refresh on demand.
Refresh(r, d, op) ==
    /\ cookie[d] # NoToken
    /\ Begin(r, [Idle EXCEPT !.op = op, !.at = "check", !.device = d, !.old = cookie[d]])
    /\ UNCHANGED <<sessions, cookie, now, faults, holders, removed, crowded>>

\* /auth/refresh clears the cookies of a request it refuses, authJwt does not.
Refuse(r) ==
    /\ cookie' = IF call[r].op = "refresh" THEN [cookie EXCEPT ![call[r].device] = NoToken] ELSE cookie
    /\ End(r)

\* hasSession answers false as well when Redis fails.
HasSession(r) ==
    /\ At(r, "check")
    /\ \/ /\ call[r].old \in sessions
          /\ Mint(r, "drop")
          /\ UNCHANGED <<cookie, faults>>
       \/ /\ call[r].old \notin sessions
          /\ Refuse(r) /\ UNCHANGED <<faults, holders, crowded>>
       \/ /\ call[r].old \in sessions /\ Fault
          /\ Refuse(r) /\ UNCHANGED <<holders, crowded>>
    /\ UNCHANGED <<sessions, now, calls, removed, parallel>>

\* logout: the session goes and the cookies with it; a failure of Redis is
\* swallowed and leaves the session.
Logout(d) ==
    /\ cookie[d] # NoToken /\ calls < MaxCalls /\ calls' = calls + 1
    /\ \/ /\ sessions' = sessions \ {cookie[d]}
          /\ removed' = removed \cup {cookie[d]}
          /\ UNCHANGED faults
       \/ Fault /\ UNCHANGED <<sessions, removed>>
    /\ cookie' = [cookie EXCEPT ![d] = NoToken]
    /\ parallel' = parallel \cup ({d} \cap Busy)
    /\ UNCHANGED <<now, call, holders, crowded>>

\* removeSessionBySessionId, from another device.
RevokeSession(t) ==
    /\ t \in sessions /\ calls < MaxCalls /\ calls' = calls + 1
    /\ sessions' = sessions \ {t}
    /\ removed' = removed \cup {t}
    /\ UNCHANGED <<cookie, now, call, faults, holders, parallel, crowded>>

-----------------------------------------------------------------------------
(* addSession and replaceSession, command by command.                      *)

DropOld(r) ==
    /\ At(r, "drop")
    /\ sessions' = sessions \ {call[r].old}
    /\ Goto(r, "count")
    /\ UNCHANGED <<cookie, now, calls, faults, holders, removed, parallel, crowded>>

CountSessions(r) ==
    /\ At(r, "count")
    /\ call' = [call EXCEPT ![r] = [@ EXCEPT !.count = Cardinality(sessions), !.at = "trim"]]
    /\ UNCHANGED <<sessions, cookie, now, calls, faults, holders, removed, parallel, crowded>>

\* Mutant: room is made once the limit is exceeded.
ExcessOnly(r) == IF call[r].count > MaxSessions THEN call[r].count - MaxSessions ELSE 0

ToRemove(r) == IF call[r].count >= MaxSessions THEN call[r].count - MaxSessions + 1 ELSE 0

\* The n oldest tokens, or all there are (ZREMRANGEBYRANK 0 n-1).
AreOldest(S, n) ==
    /\ Cardinality(S) = IF n < Cardinality(sessions) THEN n ELSE Cardinality(sessions)
    /\ \A t \in S, u \in sessions \ S : t < u

TrimSessions(r) ==
    /\ At(r, "trim")
    /\ \E S \in SUBSET sessions :
           /\ AreOldest(S, ToRemove(r))
           /\ sessions' = sessions \ S
           /\ removed' = removed \cup S
    /\ Goto(r, "add")
    /\ UNCHANGED <<cookie, now, calls, faults, holders, parallel, crowded>>

AddNew(r) ==
    /\ At(r, "add")
    /\ sessions' = sessions \cup {call[r].new}
    /\ removed' = removed \ {call[r].new}
    /\ Goto(r, "reply")
    /\ UNCHANGED <<cookie, now, calls, faults, holders, parallel, crowded>>

\* A command fails, or expire after the last of them, or an answer is lost:
\* withRetry starts over from the first command.
StartOver(r) ==
    /\ Writing(r) \/ At(r, "reply")
    /\ Goto(r, IF call[r].op = "login" THEN "count" ELSE "drop") /\ Fault
    /\ crowded' = (crowded \/ \E q \in Requests \ {r} : Writing(q))
    /\ UNCHANGED <<sessions, cookie, now, calls, holders, removed, parallel>>

\* Mutant: the cookie of the refresh token is not renewed.
OldCookie(r) == IF call[r].op = "login" THEN call[r].new ELSE call[r].old

NewCookie(r) == call[r].new

\* The answer sets the device's cookie, in whatever order the answers come.
Reply(r) ==
    /\ At(r, "reply")
    /\ cookie' = [cookie EXCEPT ![call[r].device] = NewCookie(r)]
    /\ End(r)
    /\ UNCHANGED <<sessions, now, calls, faults, holders, removed, parallel, crowded>>

\* Redis fails for good, the process dies or the client is gone: the device
\* keeps its cookie, or loses it when /auth/refresh can still answer.
Break(r) ==
    /\ At(r, "mint") \/ At(r, "reply") \/ Writing(r)
    /\ Fault
    /\ \/ UNCHANGED cookie
       \/ call[r].op = "refresh" /\ cookie' = [cookie EXCEPT ![call[r].device] = NoToken]
    /\ End(r)
    /\ parallel' = parallel \cup {call[r].device}
    /\ UNCHANGED <<sessions, now, calls, holders, removed, crowded>>

Tick ==
    /\ now < MaxNow /\ now' = now + 1
    /\ UNCHANGED <<sessions, cookie, call, calls, faults, holders, removed, parallel, crowded>>

Step(r) ==
    \/ MintLogin(r) \/ HasSession(r)
    \/ DropOld(r) \/ CountSessions(r) \/ TrimSessions(r) \/ AddNew(r)
    \/ StartOver(r) \/ Reply(r) \/ Break(r)

Next ==
    \/ \E r \in Requests, d \in Devices :
           Login(r, d) \/ \E op \in {"authJwt", "refresh"} : Refresh(r, d, op)
    \/ \E r \in Requests : Step(r)
    \/ \E d \in Devices : Logout(d)
    \/ \E t \in Tokens : RevokeSession(t)
    \/ Tick

Spec == Init /\ [][Next]_vars

-----------------------------------------------------------------------------
(* Properties.                                                             *)

\* A request under way has a device, and one past the mint its token.
CallsOK ==
    /\ call \in [Requests -> [op : {"none", "login", "authJwt", "refresh"},
                            at : {"idle", "mint", "check", "reply"} \cup Writers,
                            device : Devices \cup {NoToken},
                            old : 0..now \cup {NoToken}, new : 0..now \cup {NoToken},
                            count : Nat]]
    /\ \A r \in Requests :
           /\ Running(r) => call[r].device \in Devices
           /\ Writing(r) \/ At(r, "reply") => call[r].new \in 0..now

\* Every variable keeps its type, and no token is from the future.
TypeOK ==
    /\ now \in Times
    /\ sessions \subseteq 0..now
    /\ cookie \in [Devices -> 0..now \cup {NoToken}]
    /\ CallsOK
    /\ calls \in Nat /\ faults \in Nat
    /\ holders \in [Tokens -> SUBSET Devices]
    /\ removed \subseteq 0..now /\ parallel \subseteq Devices /\ crowded \in BOOLEAN

\* No more sessions than MAX_CONCURRENT_SESSIONS, unless two handlers counted
\* and made room at the same time: a lost answer and its retry do not exceed it.
OnlyOverlapExceedsLimit == crowded \/ Cardinality(sessions) <= MaxSessions

\* While no two handlers have written at once there is at most one that may,
\* what it counted has not grown since, and once it has trimmed there is room.
RoomForNew ==
    crowded \/
    /\ Cardinality(sessions) <= MaxSessions
    /\ \A q, r \in Requests : Writing(q) /\ Writing(r) => q = r
    /\ \A r \in Requests : At(r, "trim") => Cardinality(sessions) <= call[r].count
    /\ \A r \in Requests : At(r, "add") => Cardinality(sessions) < MaxSessions

\* A device whose answers have all arrived holds a token of the set, unless the
\* limit or a logout took that token, two devices have the same one, or requests
\* of that device overlapped or broke off: a rotation alone signs nobody out.
SignedInDevicesKeepSession ==
    \A d \in Devices :
        LET t == cookie[d]
        IN  \/ t = NoToken \/ d \in Busy \/ d \in parallel
            \/ t \in sessions \/ t \in removed \/ holders[t] # {d}
=============================================================================
