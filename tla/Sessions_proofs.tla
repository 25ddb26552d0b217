--------------------------- MODULE Sessions_proofs ---------------------------
(***************************************************************************)
(* Proofs about what the devices of a user have open and about the users'  *)
(* rows, for any devices, requests, streams, ids, limits and bounds:       *)
(*  - Sessions: its type invariant, that the limit on sessions is passed   *)
(*    only when two handlers wrote the set at once, and that a device that *)
(*    is signed in keeps a session it can refresh, unless requests of its  *)
(*    own overlap;                                                         *)
(*  - Pushes, Accounts and Notifications: the invariants of MCDevices.     *)
(***************************************************************************)
EXTENDS MCDevices, FiniteSetTheorems, WellFoundedInduction, TLAPS

-----------------------------------------------------------------------------
(* Types.                                                                  *)

LEMMA InitTyped == Init => TypeOK
<1> SUFFICES ASSUME Init PROVE TypeOK
  OBVIOUS
<1>1. 0 \in Times /\ now = 0 BY SessionsAssumption DEF Init, Times
<1>2. CallsOK BY DEF Init, CallsOK, Idle, Running, Writing, At, Writers
<1>3. QED BY <1>1, <1>2 DEF Init, TypeOK, Tokens

LEMMA TypedFinite ==
    ASSUME TypeOK
    PROVE  IsFiniteSet(sessions) /\ Cardinality(sessions) \in Nat
<1>1. now \in Int /\ 0 \in Int BY SessionsAssumption DEF TypeOK, Times
<1>2. IsFiniteSet(0..now) BY <1>1, FS_Interval
<1>3. IsFiniteSet(sessions) BY <1>2, FS_Subset DEF TypeOK
<1>4. QED BY <1>3, FS_CardinalityType

\* A request that begins, goes on or ends leaves the calls well formed.
LEMMA BeginTyped ==
    ASSUME CallsOK, NEW r \in Requests, NEW d \in Devices, NEW c, Begin(r, c), now' = now,
           c \in [op : {"login", "authJwt", "refresh"}, at : {"mint", "check"}, device : {d},
                  old : 0..now \cup {NoToken}, new : {NoToken}, count : {0}]
    PROVE  CallsOK' /\ c.device = d
BY DEF CallsOK, Begin, Running, Writing, At, Writers

LEMMA GotoTyped ==
    ASSUME CallsOK, NEW r \in Requests, NEW s \in {"reply"} \cup Writers, Goto(r, s), now' = now,
           Writing(r) \/ At(r, "reply")
    PROVE  CallsOK'
BY DEF CallsOK, Goto, Running, Writing, At, Writers

\* A call with two fields changed, for any sets of fields.
LEMMA TwoFields ==
    ASSUME NEW O, NEW A, NEW D, NEW T, NEW N,
           NEW c \in [op : O, at : A, device : D, old : T, new : T, count : N],
           NEW s \in A, NEW t \in T, NEW n \in N
    PROVE  /\ [c EXCEPT !.new = t, !.at = s]
              \in [op : O, at : {s}, device : {c.device}, old : T, new : {t}, count : N]
           /\ [c EXCEPT !.count = n, !.at = s]
              \in [op : O, at : {s}, device : {c.device}, old : T, new : {c.new}, count : N]
OBVIOUS

\* A call at a new place, with its token or its count set.
LEMMA MovedCall ==
    ASSUME CallsOK, NEW r \in Requests, NEW s \in Writers, NEW t \in 0..now, NEW n \in Nat
    PROVE  /\ [call[r] EXCEPT !.new = t, !.at = s]
              \in [op : {"none", "login", "authJwt", "refresh"}, at : {s},
                   device : {call[r].device}, old : 0..now \cup {NoToken}, new : {t},
                   count : Nat]
           /\ [call[r] EXCEPT !.count = n, !.at = s]
              \in [op : {"none", "login", "authJwt", "refresh"}, at : {s},
                   device : {call[r].device}, old : 0..now \cup {NoToken},
                   new : {call[r].new}, count : Nat]
<1> DEFINE c == call[r]
           O == {"none", "login", "authJwt", "refresh"}
           A == {"idle", "mint", "check", "reply"} \cup Writers
           D == Devices \cup {NoToken}
           T == 0..now \cup {NoToken}
<1>1. c \in [op : O, at : A, device : D, old : T, new : T, count : Nat] /\ s \in A /\ t \in T
  BY DEF CallsOK
<1> HIDE DEF c, O, A, D, T
<1>2. /\ [c EXCEPT !.new = t, !.at = s]
         \in [op : O, at : {s}, device : {c.device}, old : T, new : {t}, count : Nat]
      /\ [c EXCEPT !.count = n, !.at = s]
         \in [op : O, at : {s}, device : {c.device}, old : T, new : {c.new}, count : Nat]
  BY <1>1, TwoFields
<1>3. QED BY <1>2 DEF c, O, T

LEMMA ChangedTyped ==
    ASSUME CallsOK, NEW r \in Requests, NEW s \in Writers, NEW t \in 0..now,
           NEW c \in [op : {"none", "login", "authJwt", "refresh"}, at : {s},
                      device : {call[r].device}, old : 0..now \cup {NoToken}, new : {t},
                      count : Nat],
           Running(r), now' = now, call' = [call EXCEPT ![r] = c]
    PROVE  CallsOK'
BY DEF CallsOK, Running, Writing, At

\* The count of the set, and the step after it.
LEMMA CountTyped ==
    ASSUME CallsOK, NEW r \in Requests, NEW n \in Nat, "trim" \in Writers,
           call[r].new \in 0..now, Running(r), now' = now,
           call' = [call EXCEPT ![r] = [call[r] EXCEPT !.count = n, !.at = "trim"]]
    PROVE  CallsOK'
<1> DEFINE c == [call[r] EXCEPT !.count = n, !.at = "trim"]
           t == call[r].new
           s == "trim"
<1>1. t \in 0..now /\ s \in Writers OBVIOUS
<1> HIDE DEF t, s
<1>2. [call[r] EXCEPT !.count = n, !.at = s]
        \in [op : {"none", "login", "authJwt", "refresh"}, at : {s},
             device : {call[r].device}, old : 0..now \cup {NoToken},
             new : {call[r].new}, count : Nat]
  BY <1>1, MovedCall
<1>3. c \in [op : {"none", "login", "authJwt", "refresh"}, at : {s},
             device : {call[r].device}, old : 0..now \cup {NoToken},
             new : {t}, count : Nat]
  BY <1>2 DEF s, t
<1>4. call' = [call EXCEPT ![r] = c] OBVIOUS
<1> HIDE DEF c
<1>5. QED BY <1>1, <1>3, <1>4, ChangedTyped

LEMMA EndTyped ==
    ASSUME CallsOK, NEW r \in Requests, End(r), now' = now
    PROVE  CallsOK'
BY DEF CallsOK, End, Idle, Running, Writing, At, Writers

LEMMA SameCallsTyped ==
    ASSUME CallsOK, UNCHANGED call, now \in Nat, now' \in Nat, now <= now'
    PROVE  CallsOK'
BY DEF CallsOK, Running, Writing, At

LEMMA NextTyped == TypeOK /\ [Next]_vars => TypeOK'
<1> SUFFICES ASSUME TypeOK, [Next]_vars PROVE TypeOK'
  OBVIOUS
<1> USE SessionsAssumption DEF TypeOK, Times, Tokens
<1>0. now \in Nat /\ now \in 0..now OBVIOUS
<1>1. ASSUME NEW r \in Requests, NEW d \in Devices, Login(r, d) PROVE TypeOK'
  <2> DEFINE c == [Idle EXCEPT !.op = "login", !.at = "mint", !.device = d]
  <2>1. c \in [op : {"login", "authJwt", "refresh"}, at : {"mint", "check"}, device : {d},
               old : 0..now \cup {NoToken}, new : {NoToken}, count : {0}]
    BY DEF Idle
  <2>2. Begin(r, c) /\ now' = now BY <1>1 DEF Login
  <2> HIDE DEF c
  <2>3. CallsOK' /\ c.device = d BY <2>1, <2>2, BeginTyped
  <2>4. calls' \in Nat /\ parallel' \subseteq Devices BY <2>2, <2>3 DEF Begin
  <2>5. QED BY <1>1, <2>3, <2>4 DEF Login
<1>2. ASSUME NEW r \in Requests, NEW d \in Devices, NEW op \in {"authJwt", "refresh"},
             Refresh(r, d, op)
      PROVE  TypeOK'
  <2> DEFINE c == [Idle EXCEPT !.op = op, !.at = "check", !.device = d, !.old = cookie[d]]
  <2>1. c \in [op : {"login", "authJwt", "refresh"}, at : {"mint", "check"}, device : {d},
               old : 0..now \cup {NoToken}, new : {NoToken}, count : {0}]
    BY DEF Idle
  <2>2. Begin(r, c) /\ now' = now BY <1>2 DEF Refresh
  <2> HIDE DEF c
  <2>3. CallsOK' /\ c.device = d BY <2>1, <2>2, BeginTyped
  <2>4. calls' \in Nat /\ parallel' \subseteq Devices BY <2>2, <2>3 DEF Begin
  <2>5. QED BY <1>2, <2>3, <2>4 DEF Refresh
<1>3. ASSUME NEW r \in Requests, NEW s \in Writers, Mint(r, s), now' = now, Running(r)
      PROVE  CallsOK' /\ holders' \in [Tokens -> SUBSET Devices] /\ crowded' \in BOOLEAN
  <2>1. CallsOK'
    <3> DEFINE c == [call[r] EXCEPT !.new = now, !.at = s]
    <3>1. c \in [op : {"none", "login", "authJwt", "refresh"}, at : {s},
                 device : {call[r].device}, old : 0..now \cup {NoToken}, new : {now},
                 count : Nat]
      BY <1>0, <1>3, MovedCall
    <3>2. call' = [call EXCEPT ![r] = c] BY <1>3 DEF Mint
    <3> HIDE DEF c
    <3>3. now \in 0..now OBVIOUS
    <3>4. QED BY <1>3, <3>1, <3>2, <3>3, ChangedTyped
  <2>2. call[r].device \in Devices BY <1>3 DEF CallsOK
  <2>3. QED BY <1>3, <2>1, <2>2 DEF Mint
<1>4. ASSUME NEW r \in Requests, MintLogin(r) PROVE TypeOK'
  <2>1. Running(r) /\ "count" \in Writers BY <1>4 DEF MintLogin, At, Running, Writers
  <2>2. QED BY <1>3, <1>4, <2>1 DEF MintLogin
<1>5. ASSUME NEW r \in Requests, Refuse(r), now' = now, Running(r)
      PROVE  CallsOK' /\ cookie' \in [Devices -> 0..now \cup {NoToken}]
  <2>1. call[r].device \in Devices BY <1>5 DEF CallsOK
  <2>2. CallsOK' BY <1>5, EndTyped DEF Refuse
  <2>3. cookie' \in [Devices -> 0..now \cup {NoToken}] BY <1>5, <2>1 DEF Refuse
  <2>4. QED BY <2>2, <2>3
<1>6. ASSUME NEW r \in Requests, HasSession(r) PROVE TypeOK'
  <2>1. Running(r) /\ "drop" \in Writers BY <1>6 DEF HasSession, At, Running, Writers
  <2>2. QED BY <1>3, <1>5, <1>6, <2>1 DEF HasSession, Fault
<1>7. ASSUME NEW r \in Requests, DropOld(r) PROVE TypeOK'
  <2>1. CallsOK' BY <1>7, GotoTyped DEF DropOld, Writing, At, Writers
  <2>2. QED BY <1>7, <2>1 DEF DropOld
<1>8. ASSUME NEW r \in Requests, CountSessions(r) PROVE TypeOK'
  <2>1. Cardinality(sessions) \in Nat /\ "trim" \in Writers BY TypedFinite DEF Writers
  <2>2. Running(r) /\ call[r].new \in 0..now
    BY <1>8 DEF CountSessions, CallsOK, Running, Writing, At, Writers
  <2>3. /\ call' = [call EXCEPT ![r] = [call[r] EXCEPT !.count = Cardinality(sessions),
                                                      !.at = "trim"]]
        /\ now' = now
    BY <1>8 DEF CountSessions
  <2>4. CallsOK
    OBVIOUS
  <2>5. CallsOK'
    BY ONLY <2>1, <2>2, <2>3, <2>4, CountTyped, r \in Requests
  <2>6. QED BY <1>8, <2>5 DEF CountSessions
<1>9. ASSUME NEW r \in Requests, TrimSessions(r) PROVE TypeOK'
  <2>1. CallsOK' BY <1>9, GotoTyped DEF TrimSessions, Writing, At, Writers
  <2>2. QED BY <1>9, <2>1 DEF TrimSessions
<1>10. ASSUME NEW r \in Requests, AddNew(r) PROVE TypeOK'
  <2>1. CallsOK' BY <1>10, GotoTyped DEF AddNew, Writing, At, Writers
  <2>2. call[r].new \in 0..now BY <1>10 DEF AddNew, CallsOK, Writing, At, Writers
  <2>3. QED BY <1>10, <2>1, <2>2 DEF AddNew
<1>11. ASSUME NEW r \in Requests, StartOver(r) PROVE TypeOK'
  <2>1. CallsOK' BY <1>11, GotoTyped DEF StartOver, Writers
  <2>2. QED BY <1>11, <2>1 DEF StartOver, Fault
<1>12. ASSUME NEW r \in Requests, Reply(r) PROVE TypeOK'
  <2>1. CallsOK' BY <1>12, EndTyped DEF Reply
  <2>2. call[r].new \in 0..now /\ call[r].device \in Devices
    BY <1>12 DEF Reply, CallsOK, Running, At
  <2>3. QED BY <1>12, <2>1, <2>2 DEF Reply, NewCookie
<1>13. ASSUME NEW r \in Requests, Break(r) PROVE TypeOK'
  <2>1. CallsOK' BY <1>13, EndTyped DEF Break
  <2>2. call[r].device \in Devices BY <1>13 DEF Break, CallsOK, Running, Writing, At, Writers
  <2>3. QED BY <1>13, <2>1, <2>2 DEF Break, Fault
<1>14. ASSUME NEW d \in Devices, Logout(d) PROVE TypeOK'
  <2>1. CallsOK' BY <1>14, SameCallsTyped DEF Logout
  <2>2. cookie[d] \in 0..now BY <1>14 DEF Logout
  <2>3. now' = now /\ cookie' \in [Devices -> 0..now \cup {NoToken}] BY <1>14 DEF Logout
  <2>4. /\ sessions' \subseteq 0..now /\ removed' \subseteq 0..now
        /\ faults' \in Nat /\ calls' \in Nat
    <3>1. calls' \in Nat BY <1>14 DEF Logout
    <3>2. CASE Fault /\ UNCHANGED <<sessions, removed>> BY <3>1, <3>2 DEF Fault
    <3>3. CASE /\ sessions' = sessions \ {cookie[d]} /\ removed' = removed \cup {cookie[d]}
               /\ UNCHANGED faults
      BY <3>1, <3>3, <2>2
    <3>4. QED BY <1>14, <3>2, <3>3 DEF Logout
  <2>5. parallel' \subseteq Devices
    <3>1. parallel' = parallel \cup ({d} \cap Busy) BY <1>14 DEF Logout
    <3>2. QED BY <3>1
  <2>6. holders' = holders /\ crowded' = crowded BY <1>14 DEF Logout
  <2>7. QED BY <2>1, <2>3, <2>4, <2>5, <2>6
<1>15. ASSUME NEW t \in Tokens, RevokeSession(t) PROVE TypeOK'
  <2>1. CallsOK' BY <1>15, SameCallsTyped DEF RevokeSession
  <2>2. QED BY <1>15, <2>1 DEF RevokeSession
<1>16. ASSUME Tick PROVE TypeOK'
  <2>1. CallsOK' BY <1>16, SameCallsTyped DEF Tick
  <2>2. QED BY <1>16, <2>1 DEF Tick
<1>17. ASSUME UNCHANGED vars PROVE TypeOK'
  <2>1. CallsOK' BY <1>17, SameCallsTyped DEF vars
  <2>2. QED BY <1>17, <2>1 DEF vars
<1>18. QED
  BY <1>1, <1>2, <1>4, <1>6, <1>7, <1>8, <1>9, <1>10, <1>11, <1>12, <1>13, <1>14, <1>15,
     <1>16, <1>17 DEF Next, Step

\* Every variable of the session store, its handlers and the devices' cookies
\* keeps its type, and no token is from the future.
THEOREM SessionsTyped == Spec => []TypeOK
<1>1. QED BY InitTyped, NextTyped, PTL DEF Spec

-----------------------------------------------------------------------------
(* The limit.                                                              *)

\* Taking tokens away leaves no more of them.
LEMMA FewerLeft ==
    ASSUME TypeOK, NEW S
    PROVE  /\ IsFiniteSet(sessions \ S) /\ Cardinality(sessions \ S) \in Nat
           /\ Cardinality(sessions \ S) <= Cardinality(sessions)
<1>1. IsFiniteSet(sessions) BY TypedFinite
<1>2. (sessions \ S) \in SUBSET sessions OBVIOUS
<1>3. QED BY <1>1, <1>2, FS_Subset, FS_CardinalityType

\* Taking a part of the tokens away leaves as many as the difference.
LEMMA RestOf ==
    ASSUME TypeOK, NEW S \in SUBSET sessions
    PROVE  /\ Cardinality(S) \in Nat
           /\ Cardinality(sessions \ S) = Cardinality(sessions) - Cardinality(S)
<1>1. IsFiniteSet(sessions) /\ Cardinality(sessions) \in Nat BY TypedFinite
<1>2. IsFiniteSet(S) /\ Cardinality(S) \in Nat BY <1>1, FS_Subset, FS_CardinalityType
<1>3. IsFiniteSet(sessions \ S) /\ Cardinality(sessions \ S) \in Nat BY FewerLeft
<1>4. Cardinality((sessions \ S) \cup S)
        = Cardinality(sessions \ S) + Cardinality(S) - Cardinality((sessions \ S) \cap S)
  BY <1>2, <1>3, FS_Union
<1>5. (sessions \ S) \cup S = sessions /\ (sessions \ S) \cap S = {} OBVIOUS
<1>6. /\ Cardinality((sessions \ S) \cup S) = Cardinality(sessions)
      /\ Cardinality((sessions \ S) \cap S) = 0
  <2>1. Cardinality((sessions \ S) \cup S) = Cardinality(sessions) BY <1>5
  <2>2. Cardinality({}) = 0 BY FS_EmptySet
  <2>3. Cardinality((sessions \ S) \cap S) = 0 BY <1>5, <2>2
  <2>4. QED BY <2>1, <2>3
<1>7. QED BY <1>1, <1>2, <1>3, <1>4, <1>6

\* Where the handlers are after a step of request r to place s.
LEMMA OthersStay ==
    ASSUME TypeOK, NEW r \in Requests, NEW s, call' = [call EXCEPT ![r].at = s]
    PROVE  /\ call'[r].at = s /\ call'[r].count = call[r].count
           /\ \A q \in Requests : q # r => call'[q] = call[q]
BY DEF TypeOK, CallsOK

LEMMA InitRoom == Init => RoomForNew
<1> SUFFICES ASSUME Init PROVE RoomForNew
  OBVIOUS
<1>1. Cardinality(sessions) = 0 BY FS_EmptySet DEF Init
<1>2. \A r \in Requests : call[r].at = "idle" BY DEF Init, Idle
<1>3. QED BY <1>1, <1>2, SessionsAssumption DEF RoomForNew, Writing, At, Writers

\* A step that adds no token and brings no handler to a place where it writes.
LEMMA NoNewWriter ==
    ASSUME TypeOK, RoomForNew, UNCHANGED crowded,
           Cardinality(sessions') \in Nat, Cardinality(sessions') <= Cardinality(sessions),
           \A r \in Requests : call'[r].at \notin Writers \/ call'[r] = call[r]
    PROVE  RoomForNew'
BY TypedFinite, SessionsAssumption DEF RoomForNew, TypeOK, CallsOK, Writing, At, Writers

LEMMA NextRoom == TypeOK /\ RoomForNew /\ [Next]_vars => RoomForNew'
<1> SUFFICES ASSUME TypeOK, RoomForNew, [Next]_vars PROVE RoomForNew'
  OBVIOUS
<1> USE SessionsAssumption
<1>0. IsFiniteSet(sessions) /\ Cardinality(sessions) \in Nat BY TypedFinite
<1>1. ASSUME NEW r \in Requests, NEW c, Begin(r, c), c.at \notin Writers,
             UNCHANGED <<sessions, crowded>>
      PROVE  RoomForNew'
  <2>1. \A q \in Requests : call'[q].at \notin Writers \/ call'[q] = call[q]
    BY <1>1 DEF Begin, TypeOK, CallsOK
  <2>2. QED BY <1>0, <1>1, <2>1, NoNewWriter
<1>2. ASSUME NEW r \in Requests, NEW d \in Devices, Login(r, d) PROVE RoomForNew'
  <2> DEFINE c == [Idle EXCEPT !.op = "login", !.at = "mint", !.device = d]
  <2>1. c.at \notin Writers BY DEF Idle, Writers
  <2> HIDE DEF c
  <2>2. QED BY <1>1, <1>2, <2>1 DEF Login, c
<1>3. ASSUME NEW r \in Requests, NEW d \in Devices, NEW op \in {"authJwt", "refresh"},
             Refresh(r, d, op)
      PROVE  RoomForNew'
  <2> DEFINE c == [Idle EXCEPT !.op = op, !.at = "check", !.device = d, !.old = cookie[d]]
  <2>1. c.at \notin Writers BY DEF Idle, Writers
  <2> HIDE DEF c
  <2>2. QED BY <1>1, <1>3, <2>1 DEF Refresh, c
<1>4. ASSUME NEW r \in Requests, NEW s \in {"count", "drop"}, Mint(r, s), sessions' = sessions,
             ~Writing(r)
      PROVE  RoomForNew'
  <2> DEFINE c == [call[r] EXCEPT !.new = now, !.at = s]
  <2>1. c.at = s BY DEF TypeOK, CallsOK
  <2>2. call' = [call EXCEPT ![r] = c] BY <1>4 DEF Mint
  <2> HIDE DEF c
  <2>3. call'[r].at = s /\ \A q \in Requests : q # r => call'[q] = call[q]
    BY <2>1, <2>2 DEF TypeOK, CallsOK
  <2>4. crowded' = (crowded \/ \E q \in Requests \ {r} : Writing(q)) BY <1>4 DEF Mint
  <2>5. QED BY <1>4, <2>3, <2>4 DEF RoomForNew, Writing, At, Writers
<1>5. ASSUME NEW r \in Requests, MintLogin(r) PROVE RoomForNew'
  BY <1>4, <1>5 DEF MintLogin, Writing, At, Writers
<1>6. ASSUME NEW r \in Requests, End(r), UNCHANGED <<sessions, crowded>> PROVE RoomForNew'
  <2>1. \A q \in Requests : call'[q].at \notin Writers \/ call'[q] = call[q]
    BY <1>6 DEF End, Idle, Writers, TypeOK, CallsOK
  <2>2. QED BY <1>0, <1>6, <2>1, NoNewWriter
<1>7. ASSUME NEW r \in Requests, HasSession(r) PROVE RoomForNew'
  BY <1>4, <1>6, <1>7 DEF HasSession, Refuse, Writing, At, Writers
<1>8. ASSUME NEW r \in Requests, DropOld(r) PROVE RoomForNew'
  <2>1. /\ call'[r].at = "count"
        /\ \A q \in Requests : q # r => call'[q] = call[q]
    BY <1>8, OthersStay DEF DropOld, Goto
  <2>2. Cardinality(sessions') \in Nat /\ Cardinality(sessions') <= Cardinality(sessions)
    BY <1>8, FewerLeft DEF DropOld
  <2>3. Writing(r) /\ crowded' = crowded BY <1>8 DEF DropOld, Writing, At, Writers
  <2>4. QED BY <1>0, <2>1, <2>2, <2>3 DEF RoomForNew, TypeOK, CallsOK, Writing, At, Writers
<1>9. ASSUME NEW r \in Requests, CountSessions(r) PROVE RoomForNew'
  <2> DEFINE c == [call[r] EXCEPT !.count = Cardinality(sessions), !.at = "trim"]
  <2>1. c.at = "trim" /\ c.count = Cardinality(sessions) BY DEF TypeOK, CallsOK
  <2>2. call' = [call EXCEPT ![r] = c] BY <1>9 DEF CountSessions
  <2> HIDE DEF c
  <2>3. /\ call'[r] = c
        /\ \A q \in Requests : q # r => call'[q] = call[q]
    BY <2>2 DEF TypeOK, CallsOK
  <2>4. Writing(r) /\ sessions' = sessions /\ crowded' = crowded
    BY <1>9 DEF CountSessions, Writing, At, Writers
  <2>5. QED BY <1>0, <2>1, <2>3, <2>4 DEF RoomForNew, Writing, At, Writers
<1>10. ASSUME NEW r \in Requests, TrimSessions(r) PROVE RoomForNew'
  <2>1. /\ call'[r].at = "add"
        /\ \A q \in Requests : q # r => call'[q] = call[q]
    BY <1>10, OthersStay DEF TrimSessions, Goto
  <2>2. PICK S \in SUBSET sessions : AreOldest(S, ToRemove(r)) /\ sessions' = sessions \ S
    BY <1>10 DEF TrimSessions
  <2>3. /\ Cardinality(S) \in Nat
        /\ Cardinality(sessions') = Cardinality(sessions) - Cardinality(S)
    BY <2>2, RestOf
  <2>4. call[r].count \in Nat BY DEF TypeOK, CallsOK
  <2>5. Writing(r) /\ At(r, "trim") /\ crowded' = crowded
    BY <1>10 DEF TrimSessions, Writing, At, Writers
  <2>6. crowded \/ Cardinality(sessions') < MaxSessions
    BY <1>0, <2>2, <2>3, <2>4, <2>5 DEF RoomForNew, AreOldest, ToRemove
  <2>7. QED BY <2>1, <2>3, <2>5, <2>6, <1>0 DEF RoomForNew, Writing, At, Writers
<1>11. ASSUME NEW r \in Requests, AddNew(r) PROVE RoomForNew'
  <2>1. /\ call'[r].at = "reply"
        /\ \A q \in Requests : q # r => call'[q] = call[q]
    BY <1>11, OthersStay DEF AddNew, Goto
  <2>2. /\ Cardinality(sessions') \in Nat
        /\ Cardinality(sessions') <= Cardinality(sessions) + 1
    <3>1. sessions' = sessions \cup {call[r].new} BY <1>11 DEF AddNew
    <3>2. \/ Cardinality(sessions \cup {call[r].new}) = Cardinality(sessions)
          \/ Cardinality(sessions \cup {call[r].new}) = Cardinality(sessions) + 1
      BY <1>0, FS_AddElement
    <3>3. QED BY <1>0, <3>1, <3>2
  <2>3. Writing(r) /\ At(r, "add") /\ crowded' = crowded
    BY <1>11 DEF AddNew, Writing, At, Writers
  <2>4. QED BY <1>0, <2>1, <2>2, <2>3 DEF RoomForNew, Writing, At, Writers
<1>12. ASSUME NEW r \in Requests, StartOver(r) PROVE RoomForNew'
  <2>1. PICK s \in {"count", "drop"} : Goto(r, s) BY <1>12 DEF StartOver
  <2>2. /\ call'[r].at = s
        /\ \A q \in Requests : q # r => call'[q] = call[q]
    BY <2>1, OthersStay DEF Goto
  <2>3. /\ crowded' = (crowded \/ \E q \in Requests \ {r} : Writing(q))
        /\ sessions' = sessions
    BY <1>12 DEF StartOver
  <2>4. QED BY <2>2, <2>3 DEF RoomForNew, Writing, At, Writers
<1>13. ASSUME NEW r \in Requests, Reply(r) PROVE RoomForNew'
  BY <1>6, <1>13 DEF Reply
<1>14. ASSUME NEW r \in Requests, Break(r) PROVE RoomForNew'
  BY <1>6, <1>14 DEF Break
<1>15. ASSUME NEW d \in Devices, Logout(d) PROVE RoomForNew'
  <2>1. Cardinality(sessions') \in Nat /\ Cardinality(sessions') <= Cardinality(sessions)
    BY <1>0, <1>15, FewerLeft DEF Logout
  <2>2. call' = call /\ crowded' = crowded BY <1>15 DEF Logout
  <2>3. QED BY <2>1, <2>2, NoNewWriter
<1>16. ASSUME NEW t \in Tokens, RevokeSession(t) PROVE RoomForNew'
  <2>1. Cardinality(sessions') \in Nat /\ Cardinality(sessions') <= Cardinality(sessions)
    BY <1>0, <1>16, FewerLeft DEF RevokeSession
  <2>2. call' = call /\ crowded' = crowded BY <1>16 DEF RevokeSession
  <2>3. QED BY <2>1, <2>2, NoNewWriter
<1>17. ASSUME Tick \/ UNCHANGED vars PROVE RoomForNew'
  BY <1>17 DEF Tick, vars, RoomForNew, Writing, At
<1>18. QED
  BY <1>2, <1>3, <1>5, <1>7, <1>8, <1>9, <1>10, <1>11, <1>12, <1>13, <1>14, <1>15, <1>16,
     <1>17 DEF Next, Step

\* The user's sessions pass MAX_CONCURRENT_SESSIONS only if two of addSession
\* and replaceSession ran at once, whatever commands fail and are repeated.
THEOREM LimitPassedOnlyByOverlap == Spec => []OnlyOverlapExceedsLimit
<1>1. RoomForNew => OnlyOverlapExceedsLimit BY DEF RoomForNew, OnlyOverlapExceedsLimit
<1>2. QED BY <1>1, InitRoom, NextRoom, SessionsTyped, PTL DEF Spec
-----------------------------------------------------------------------------
(* The devices that are signed in.                                         *)

\* What excuses a device d whose token is t from having lost its session.
Kept(d, t) == t \in sessions \/ t \in removed \/ holders[t] # {d}

Answering(r) == Writing(r) \/ At(r, "reply")

\* Who holds which token: a device's cookie and its requests have tokens made for
\* it, so a token that a handler drops for one device is not another one's alone.
HeldTokens ==
    /\ \A d \in Devices : cookie[d] # NoToken => d \in holders[cookie[d]]
    /\ \A r \in Requests : Running(r) /\ call[r].old # NoToken =>
                               call[r].device \in holders[call[r].old]
    /\ \A r \in Requests : Answering(r) => call[r].device \in holders[call[r].new]

\* While the requests of a device do not overlap it has one at most, a token that
\* is about to be its cookie is in the set, and so is the cookie itself unless
\* the one request is replacing it.
KeepInv ==
    /\ HeldTokens
    /\ \A q, r \in Requests :
           q # r /\ Running(q) /\ Running(r) /\ call[q].device = call[r].device =>
               call[r].device \in parallel
    /\ \A r \in Requests :
           At(r, "reply") => call[r].device \in parallel \/ Kept(call[r].device, call[r].new)
    /\ \A d \in Devices :
           \/ cookie[d] = NoToken \/ d \in parallel \/ Kept(d, cookie[d])
           \/ \E r \in Requests : Answering(r) /\ call[r].device = d

LEMMA InitKeep == Init => KeepInv
<1> SUFFICES ASSUME Init PROVE KeepInv
  OBVIOUS
<1>1. \A r \in Requests : call[r].at = "idle" BY DEF Init, Idle
<1>2. \A d \in Devices : cookie[d] = NoToken BY DEF Init
<1>3. QED BY <1>1, <1>2 DEF KeepInv, HeldTokens, Running, Answering, Writing, Writers, At

\* What a step does to the set: a token that leaves it is listed as removed or was
\* made for the device that drops it, and one that is no longer listed is back.
SetMoves(e) ==
    /\ \A t \in sessions \ sessions' : t \in removed' \/ (e \in Devices /\ e \in holders[t])
    /\ removed \subseteq removed' \cup sessions'
    /\ \A t \in Tokens : holders[t] \subseteq holders'[t]

\* A device that is not the one that drops its token keeps what it has.
LEMMA KeptOn ==
    ASSUME TypeOK, NEW d, NEW e, NEW t \in Tokens, d \in holders[t], Kept(d, t),
           SetMoves(e), e # d
    PROVE  Kept(d, t)'
<1>1. holders[t] \subseteq holders'[t] BY DEF SetMoves
<1>2. CASE holders[t] # {d} BY <1>1, <1>2 DEF Kept
<1>3. CASE holders[t] = {d} BY <1>1, <1>3 DEF Kept, SetMoves
<1>4. QED BY <1>2, <1>3

\* With nothing dropped, every device keeps what it has.
LEMMA AllKeptOn ==
    ASSUME TypeOK, NEW d, NEW t \in Tokens, d \in holders[t], Kept(d, t),
           sessions \subseteq sessions' \cup removed', removed \subseteq removed' \cup sessions',
           \A u \in Tokens : holders[u] \subseteq holders'[u]
    PROVE  Kept(d, t)'
BY DEF Kept
\* A cookie and a request's tokens are tokens.
LEMMA TokensTyped ==
    ASSUME TypeOK
    PROVE  /\ \A d \in Devices : cookie[d] # NoToken => cookie[d] \in Tokens
           /\ \A r \in Requests : call[r].old # NoToken => call[r].old \in Tokens
           /\ \A r \in Requests : Answering(r) => /\ call[r].new \in Tokens
                                                  /\ Running(r) /\ call[r].device \in Devices
BY SessionsAssumption
   DEF TypeOK, CallsOK, Tokens, Times, Answering, Writing, Writers, At, Running

\* A step inside a handler of request r.
LEMMA StepKeeps ==
    ASSUME TypeOK, KeepInv, NEW r \in Requests, Running(r), Answering(r)',
           call'[r].device = call[r].device, call'[r].old = call[r].old,
           \A q \in Requests : q # r => call'[q] = call[q],
           UNCHANGED <<cookie, parallel>>,
           SetMoves(call[r].device), call[r].device \in holders'[call'[r].new],
           At(r, "reply")' => Kept(call[r].device, call[r].new)'
    PROVE  KeepInv'
<1> DEFINE e == call[r].device
<1>0. /\ Running(r)' /\ e \in Devices
      /\ \A t \in Tokens : holders[t] \subseteq holders'[t]
  BY DEF TypeOK, CallsOK, SetMoves, Answering, Writing, Writers, At, Running
<1>1. HeldTokens'
  <2>1. ASSUME NEW d \in Devices, cookie'[d] # NoToken PROVE d \in holders'[cookie'[d]]
    BY <1>0, <2>1, TokensTyped DEF KeepInv, HeldTokens
  <2>2. ASSUME NEW q \in Requests, Running(q)', call'[q].old # NoToken
        PROVE  call'[q].device \in holders'[call'[q].old]
    <3>1. Running(q) /\ call'[q].old = call[q].old /\ call'[q].device = call[q].device
      BY <2>2 DEF Running
    <3>2. QED BY <1>0, <2>2, <3>1, TokensTyped DEF KeepInv, HeldTokens
  <2>3. ASSUME NEW q \in Requests, Answering(q)'
        PROVE  call'[q].device \in holders'[call'[q].new]
    <3>1. CASE q = r BY <3>1
    <3>2. CASE q # r
      <4>1. Answering(q) /\ call'[q] = call[q] BY <2>3, <3>2 DEF Answering, Writing, At
      <4>2. QED BY <1>0, <4>1, TokensTyped DEF KeepInv, HeldTokens
    <3>3. QED BY <3>1, <3>2
  <2>4. QED BY <2>1, <2>2, <2>3 DEF HeldTokens
<1>2. \A p, q \in Requests :
          p # q /\ Running(p)' /\ Running(q)' /\ call'[p].device = call'[q].device =>
              call'[q].device \in parallel'
  <2>1. \A q \in Requests : call'[q].device = call[q].device /\ (Running(q)' => Running(q))
    BY DEF Running
  <2>2. QED BY <2>1 DEF KeepInv
<1>3. ASSUME NEW q \in Requests, At(q, "reply")'
      PROVE  call'[q].device \in parallel' \/ Kept(call[q].device, call[q].new)'
  <2>1. CASE q = r BY <1>3, <2>1
  <2>2. CASE q # r
    <3>1. At(q, "reply") /\ Answering(q) /\ Running(q) /\ call'[q] = call[q]
      BY <1>3, <2>2 DEF At, Answering, Running
    <3>2. PICK d : d = call[q].device OBVIOUS
    <3>3. PICK t : t = call[q].new OBVIOUS
    <3>4. CASE d = e BY <2>2, <3>1, <3>2, <3>4 DEF KeepInv
    <3>5. CASE d # e
      <4>1. t \in Tokens /\ d \in holders[t]
        BY <3>1, <3>2, <3>3, TokensTyped DEF KeepInv, HeldTokens
      <4>2. d \in parallel \/ Kept(d, t) BY <3>1, <3>2, <3>3 DEF KeepInv
      <4>3. d \in parallel \/ Kept(d, t)'
        <5>1. PICK f : f = e OBVIOUS
        <5>2. SetMoves(f) /\ f # d BY <5>1, <3>5
        <5>3. QED BY <4>1, <4>2, <5>2, KeptOn
      <4>4. QED BY <3>1, <3>2, <3>3, <4>3 DEF Kept
    <3>6. QED BY <3>4, <3>5
  <2>3. QED BY <2>1, <2>2
<1>4. ASSUME NEW d \in Devices
      PROVE  \/ cookie'[d] = NoToken \/ d \in parallel' \/ Kept(d, cookie[d])'
             \/ \E q \in Requests : Answering(q)' /\ call'[q].device = d
  <2>1. CASE d = e BY <2>1
  <2>2. CASE d # e /\ \E q \in Requests : Answering(q) /\ call[q].device = d
    <3>1. PICK q \in Requests : Answering(q) /\ call[q].device = d BY <2>2
    <3>2. q # r BY <2>2, <3>1
    <3>3. call'[q] = call[q] BY <3>2
    <3>4. Answering(q)' /\ call'[q].device = d BY <3>1, <3>3 DEF Answering, Writing, At
    <3>5. QED BY <3>4
  <2>3. CASE d # e /\ cookie[d] # NoToken /\ Kept(d, cookie[d])
    <3>1. PICK t : t = cookie[d] OBVIOUS
    <3>2. t \in Tokens /\ d \in holders[t] BY <2>3, <3>1, TokensTyped DEF KeepInv, HeldTokens
    <3>3. PICK f : f = e OBVIOUS
    <3>4. SetMoves(f) /\ f # d BY <3>3, <2>3
    <3>5. Kept(d, t)' BY <2>3, <3>1, <3>2, <3>4, KeptOn
    <3>6. QED BY <3>1, <3>5 DEF Kept
  <2>4. QED BY <2>1, <2>2, <2>3 DEF KeepInv
<1>5. QED BY <1>1, <1>2, <1>3, <1>4 DEF KeepInv

\* The end of a handler.
LEMMA EndKeeps ==
    ASSUME TypeOK, KeepInv, NEW r \in Requests, Running(r), End(r),
           UNCHANGED <<sessions, holders, removed>>, parallel \subseteq parallel',
           DOMAIN cookie' = Devices, \A d \in Devices : d # call[r].device => cookie'[d] = cookie[d],
           LET d == call[r].device
           IN  \/ cookie'[d] = NoToken
               \/ d \in holders[cookie'[d]] /\ (d \in parallel' \/ Kept(d, cookie'[d]))
    PROVE  KeepInv'
<1> DEFINE e == call[r].device
<1>0. /\ call'[r].at = "idle" /\ e \in Devices
      /\ \A q \in Requests : q # r => call'[q] = call[q]
  BY DEF TypeOK, CallsOK, End, Idle, Running
<1>1. \A q \in Requests : Running(q)' => q # r /\ Running(q) /\ call'[q] = call[q]
  BY <1>0 DEF Running
<1>2. \A q \in Requests : Answering(q)' <=> q # r /\ Answering(q)
  BY <1>0 DEF Answering, Writing, Writers, At
<1>3. \A q \in Requests : Answering(q)' => Running(q)'
  BY DEF Answering, Writing, Writers, At, Running
<1>4. HeldTokens'
  <2>1. \A d \in Devices : cookie'[d] # NoToken => d \in holders'[cookie'[d]]
    BY DEF KeepInv, HeldTokens
  <2>2. QED BY <1>1, <1>2, <1>3, <2>1 DEF KeepInv, HeldTokens
<1>5. \A p, q \in Requests :
          p # q /\ Running(p)' /\ Running(q)' /\ call'[p].device = call'[q].device =>
              call'[q].device \in parallel'
  BY <1>1 DEF KeepInv
<1>6. \A q \in Requests :
          At(q, "reply")' => \/ call'[q].device \in parallel'
                             \/ Kept(call[q].device, call[q].new)'
  <2>1. \A q \in Requests : At(q, "reply")' => Running(q)' /\ (q # r => At(q, "reply"))
    BY <1>0 DEF At, Running
  <2>2. QED BY <1>1, <2>1 DEF KeepInv, Kept
<1>7. ASSUME NEW d \in Devices
      PROVE  \/ cookie'[d] = NoToken \/ d \in parallel' \/ Kept(d, cookie[d])'
             \/ \E q \in Requests : Answering(q)' /\ call'[q].device = d
  <2>1. CASE d = e BY <2>1 DEF Kept
  <2>2. CASE d # e /\ \E q \in Requests : Answering(q) /\ call[q].device = d
    <3>1. PICK q \in Requests : Answering(q) /\ call[q].device = d BY <2>2
    <3>2. q # r BY <2>2, <3>1
    <3>3. QED BY <1>0, <1>2, <3>1, <3>2
  <2>3. CASE d # e /\ ~\E q \in Requests : Answering(q) /\ call[q].device = d
    BY <2>3 DEF KeepInv, Kept
  <2>4. QED BY <2>1, <2>2, <2>3
<1>8. QED BY <1>4, <1>5, <1>6, <1>7 DEF KeepInv

\* The begin of a handler.
LEMMA BeginKeeps ==
    ASSUME TypeOK, KeepInv, NEW r \in Requests, NEW d \in Devices, NEW c, Begin(r, c),
           c.device = d, c.at \in {"mint", "check"}, c.old \in {NoToken, cookie[d]},
           UNCHANGED <<sessions, cookie, holders, removed>>
    PROVE  KeepInv'
<1>0. call'[r] = c /\ \A q \in Requests : q # r => call'[q] = call[q]
  BY DEF Begin, TypeOK, CallsOK
<1>1. parallel' = parallel \cup ({d} \cap Busy) /\ ~Running(r) BY DEF Begin
<1>2. \A q \in Requests : Answering(q)' <=> q # r /\ Answering(q)
  BY <1>0, <1>1 DEF Answering, Writing, Writers, At, Running
<1>3. HeldTokens'
  BY <1>0, <1>2 DEF KeepInv, HeldTokens, Running
<1>4. ASSUME NEW p \in Requests, NEW q \in Requests, p # q, Running(p)', Running(q)',
             call'[p].device = call'[q].device
      PROVE  call'[q].device \in parallel'
  <2>1. CASE p # r /\ q # r BY <1>0, <1>1, <1>4, <2>1 DEF KeepInv, Running
  <2>2. CASE p = r BY <1>0, <1>1, <1>4, <2>2 DEF Busy, Running
  <2>3. CASE q = r BY <1>0, <1>1, <1>4, <2>3 DEF Busy, Running
  <2>4. QED BY <2>1, <2>2, <2>3
<1>5. \A q \in Requests :
          At(q, "reply")' => \/ call'[q].device \in parallel'
                             \/ Kept(call[q].device, call[q].new)'
  BY <1>0, <1>1 DEF KeepInv, Kept, At
<1>6. ASSUME NEW f \in Devices
      PROVE  \/ cookie'[f] = NoToken \/ f \in parallel' \/ Kept(f, cookie[f])'
             \/ \E q \in Requests : Answering(q)' /\ call'[q].device = f
  <2>1. CASE \E q \in Requests : Answering(q) /\ call[q].device = f
    <3>1. PICK q \in Requests : Answering(q) /\ call[q].device = f BY <2>1
    <3>2. q # r BY <1>1, <3>1 DEF Answering, Writing, Writers, At, Running
    <3>3. QED BY <1>0, <1>2, <3>1, <3>2
  <2>2. CASE ~\E q \in Requests : Answering(q) /\ call[q].device = f
    BY <1>1, <2>2 DEF KeepInv, Kept
  <2>3. QED BY <2>1, <2>2
<1>7. QED BY <1>3, <1>4, <1>5, <1>6 DEF KeepInv

\* A step that is not a handler's, or is none at all.
LEMMA QuietKeeps ==
    ASSUME TypeOK, KeepInv, UNCHANGED <<call, holders>>, parallel \subseteq parallel',
           sessions \subseteq sessions' \cup removed', removed \subseteq removed' \cup sessions',
           \A d \in Devices : cookie'[d] \in {NoToken, cookie[d]}
    PROVE  KeepInv'
<1>1. \A q \in Requests : /\ Running(q)' <=> Running(q)
                          /\ Answering(q)' <=> Answering(q)
                          /\ At(q, "reply")' <=> At(q, "reply")
  BY DEF Running, Answering, Writing, At
<1>2. \A d, t : Kept(d, t) => Kept(d, t)' BY DEF Kept
<1>3. HeldTokens' BY <1>1 DEF KeepInv, HeldTokens
<1>4. QED BY <1>1, <1>2, <1>3 DEF KeepInv, Kept
LEMMA NoTokenKept == ASSUME TypeOK PROVE NoToken \notin sessions
<1>1. sessions \subseteq Nat
  <2>1. now \in Nat /\ sessions \subseteq 0..now BY SessionsAssumption DEF TypeOK, Times
  <2>2. 0..now \subseteq Nat BY <2>1
  <2>3. QED BY <2>1, <2>2
<1>2. QED BY <1>1, SessionsAssumption

LEMMA NextKeeps == TypeOK /\ KeepInv /\ [Next]_vars => KeepInv'
<1> SUFFICES ASSUME TypeOK, KeepInv, [Next]_vars PROVE KeepInv'
  OBVIOUS
<1> USE SessionsAssumption
<1>1. ASSUME NEW r \in Requests, NEW d \in Devices, Login(r, d) PROVE KeepInv'
  <2> DEFINE c == [Idle EXCEPT !.op = "login", !.at = "mint", !.device = d]
  <2>1. c.device = d /\ c.at = "mint" /\ c.old = NoToken BY DEF Idle
  <2> HIDE DEF c
  <2>2. QED BY <1>1, <2>1, BeginKeeps DEF Login, c
<1>2. ASSUME NEW r \in Requests, NEW d \in Devices, NEW op \in {"authJwt", "refresh"},
             Refresh(r, d, op)
      PROVE  KeepInv'
  <2> DEFINE c == [Idle EXCEPT !.op = op, !.at = "check", !.device = d, !.old = cookie[d]]
  <2>1. c.device = d /\ c.at = "check" /\ c.old = cookie[d] BY DEF Idle
  <2> HIDE DEF c
  <2>2. QED BY <1>2, <2>1, BeginKeeps DEF Refresh, c
<1>3. ASSUME NEW r \in Requests, NEW s \in {"count", "drop"}, Mint(r, s), Running(r),
             UNCHANGED <<sessions, cookie, removed, parallel>>
      PROVE  KeepInv'
  <2> DEFINE c == [call[r] EXCEPT !.new = now, !.at = s]
  <2>1. /\ c.at = s /\ c.new = now /\ c.device = call[r].device /\ c.old = call[r].old
    BY DEF TypeOK, CallsOK
  <2>2. call' = [call EXCEPT ![r] = c] BY <1>3 DEF Mint
  <2> HIDE DEF c
  <2>3. call'[r] = c /\ \A q \in Requests : q # r => call'[q] = call[q]
    BY <2>2 DEF TypeOK, CallsOK
  <2>4. holders' = [holders EXCEPT ![now] = @ \cup {call[r].device}] /\ now \in Tokens
    BY <1>3 DEF Mint, TypeOK, Tokens
  <2>5. SetMoves(call[r].device) /\ call[r].device \in holders'[now]
    BY <1>3, <2>4 DEF SetMoves, TypeOK
  <2>6. Answering(r)' /\ ~At(r, "reply")'
    BY <1>3, <2>1, <2>3 DEF Answering, Writing, Writers, At
  <2>7. QED BY <1>3, <2>1, <2>3, <2>5, <2>6, StepKeeps
<1>4. ASSUME NEW r \in Requests, MintLogin(r) PROVE KeepInv'
  BY <1>3, <1>4 DEF MintLogin, At, Running
<1>5. ASSUME NEW r \in Requests, At(r, "check"), Refuse(r),
             UNCHANGED <<sessions, holders, removed, parallel>>
      PROVE  KeepInv'
  <2> DEFINE d == call[r].device
  <2>1. Running(r) /\ d \in Devices /\ ~Answering(r)
    BY <1>5 DEF TypeOK, CallsOK, At, Running, Answering, Writing, Writers
  <2>2. cookie' = [cookie EXCEPT ![d] = NoToken] \/ cookie' = cookie BY <1>5 DEF Refuse
  <2>3. cookie[d] = NoToken \/ d \in parallel \/ Kept(d, cookie[d])
    <3>1. ASSUME NEW q \in Requests, Answering(q), call[q].device = d PROVE d \in parallel
      <4>1. q # r /\ Running(q) BY <2>1, <3>1, TokensTyped
      <4>2. QED BY <2>1, <3>1, <4>1 DEF KeepInv
    <3>2. QED BY <2>1, <3>1 DEF KeepInv
  <2>4. /\ DOMAIN cookie' = Devices /\ \A f \in Devices : f # d => cookie'[f] = cookie[f]
        /\ cookie'[d] = NoToken \/ cookie'[d] = cookie[d]
    BY <2>1, <2>2 DEF TypeOK
  <2>5. cookie[d] # NoToken => d \in holders[cookie[d]] BY <2>1 DEF KeepInv, HeldTokens
  <2>6. End(r) BY <1>5 DEF Refuse
  <2>7. QED BY <1>5, <2>1, <2>3, <2>4, <2>5, <2>6, EndKeeps
<1>6. ASSUME NEW r \in Requests, HasSession(r) PROVE KeepInv'
  BY <1>3, <1>5, <1>6 DEF HasSession, At, Running
\* The steps that only move on: what each does to the set.
<1>7. ASSUME NEW r \in Requests, NEW s \in {"count", "drop", "trim", "add", "reply"}, Goto(r, s),
             Answering(r), UNCHANGED <<cookie, holders, parallel>>, SetMoves(call[r].device),
             s = "reply" => call[r].new \in sessions'
      PROVE  KeepInv'
  <2>1. /\ call'[r].at = s /\ call'[r].device = call[r].device
        /\ call'[r].old = call[r].old /\ call'[r].new = call[r].new
        /\ \A q \in Requests : q # r => call'[q] = call[q]
    BY <1>7 DEF Goto, TypeOK, CallsOK
  <2>2. Running(r) /\ call[r].device \in holders[call[r].new]
    BY <1>7, TokensTyped DEF KeepInv, HeldTokens
  <2>3. Answering(r)' /\ (At(r, "reply")' => Kept(call[r].device, call[r].new)')
    BY <1>7, <2>1 DEF Answering, Writing, Writers, At, Kept
  <2>4. QED BY <1>7, <2>1, <2>2, <2>3, StepKeeps
<1>8. ASSUME NEW r \in Requests, DropOld(r) PROVE KeepInv'
  <2>1. call[r].device \in Devices /\ Running(r) /\ Answering(r)
    BY <1>8 DEF DropOld, TypeOK, CallsOK, At, Running, Answering, Writing, Writers
  <2>2. call[r].old \in sessions => call[r].device \in holders[call[r].old]
    <3>1. NoToken \notin sessions BY NoTokenKept
    <3>2. QED BY <2>1, <3>1 DEF KeepInv, HeldTokens
  <2>3. SetMoves(call[r].device) BY <1>8, <2>1, <2>2 DEF DropOld, SetMoves
  <2>4. QED BY <1>7, <1>8, <2>1, <2>3 DEF DropOld
<1>9. ASSUME NEW r \in Requests, CountSessions(r) PROVE KeepInv'
  <2> DEFINE c == [call[r] EXCEPT !.count = Cardinality(sessions), !.at = "trim"]
  <2>1. /\ c.at = "trim" /\ c.new = call[r].new /\ c.device = call[r].device
        /\ c.old = call[r].old
    BY DEF TypeOK, CallsOK
  <2>2. call' = [call EXCEPT ![r] = c] BY <1>9 DEF CountSessions
  <2> HIDE DEF c
  <2>3. call'[r] = c /\ \A q \in Requests : q # r => call'[q] = call[q]
    BY <2>2 DEF TypeOK, CallsOK
  <2>4. Running(r) /\ call[r].device \in holders[call[r].new]
    <3>1. Answering(r) BY <1>9 DEF CountSessions, At, Answering, Writing, Writers
    <3>2. QED BY <3>1, TokensTyped DEF KeepInv, HeldTokens
  <2>5. Answering(r)' /\ ~At(r, "reply")' BY <2>1, <2>3 DEF Answering, Writing, Writers, At
  <2>6. SetMoves(call[r].device) BY <1>9 DEF CountSessions, SetMoves
  <2>7. QED BY <1>9, <2>1, <2>3, <2>4, <2>5, <2>6, StepKeeps DEF CountSessions
<1>10. ASSUME NEW r \in Requests, TrimSessions(r) PROVE KeepInv'
  <2>1. SetMoves(call[r].device) BY <1>10 DEF TrimSessions, SetMoves
  <2>2. Answering(r) BY <1>10 DEF TrimSessions, Answering, Writing, Writers, At
  <2>3. QED BY <1>7, <1>10, <2>1, <2>2 DEF TrimSessions
<1>11. ASSUME NEW r \in Requests, AddNew(r) PROVE KeepInv'
  <2>1. SetMoves(call[r].device) BY <1>11 DEF AddNew, SetMoves
  <2>2. Answering(r) BY <1>11 DEF AddNew, Answering, Writing, Writers, At
  <2>3. QED BY <1>7, <1>11, <2>1, <2>2 DEF AddNew
<1>12. ASSUME NEW r \in Requests, StartOver(r) PROVE KeepInv'
  <2>1. SetMoves(call[r].device) BY <1>12 DEF StartOver, SetMoves
  <2>2. Answering(r) BY <1>12 DEF StartOver, Answering
  <2>3. QED BY <1>7, <1>12, <2>1, <2>2 DEF StartOver
<1>13. ASSUME NEW r \in Requests, Reply(r) PROVE KeepInv'
  <2> DEFINE d == call[r].device
  <2>1. Running(r) /\ d \in Devices /\ d \in holders[call[r].new]
    BY <1>13, TokensTyped DEF Reply, KeepInv, HeldTokens, Answering
  <2>2. d \in parallel \/ Kept(d, call[r].new) BY <1>13 DEF Reply, KeepInv
  <2>3. cookie' = [cookie EXCEPT ![d] = call[r].new] BY <1>13 DEF Reply, NewCookie
  <2>4. /\ DOMAIN cookie' = Devices /\ \A f \in Devices : f # d => cookie'[f] = cookie[f]
        /\ cookie'[d] = call[r].new
    BY <2>1, <2>3 DEF TypeOK
  <2>5. QED BY <1>13, <2>1, <2>2, <2>4, EndKeeps DEF Reply
<1>14. ASSUME NEW r \in Requests, Break(r) PROVE KeepInv'
  <2> DEFINE d == call[r].device
  <2>1. Running(r) /\ d \in Devices
    BY <1>14 DEF Break, TypeOK, CallsOK, At, Running, Writing, Writers
  <2>2. cookie' = [cookie EXCEPT ![d] = NoToken] \/ cookie' = cookie BY <1>14 DEF Break
  <2>3. /\ DOMAIN cookie' = Devices /\ \A f \in Devices : f # d => cookie'[f] = cookie[f]
        /\ cookie'[d] = NoToken \/ cookie'[d] = cookie[d]
    BY <2>1, <2>2 DEF TypeOK
  <2>4. cookie[d] # NoToken => d \in holders[cookie[d]] BY <2>1 DEF KeepInv, HeldTokens
  <2>5. d \in parallel' BY <1>14 DEF Break
  <2>6. QED BY <1>14, <2>1, <2>3, <2>4, <2>5, EndKeeps DEF Break
<1>15. ASSUME NEW d \in Devices, Logout(d) PROVE KeepInv'
  <2>1. \A f \in Devices : cookie'[f] \in {NoToken, cookie[f]} BY <1>15 DEF Logout, TypeOK
  <2>2. sessions \subseteq sessions' \cup removed' /\ removed \subseteq removed'
    BY <1>15 DEF Logout
  <2>3. parallel \subseteq parallel' BY <1>15 DEF Logout
  <2>4. QED BY <1>15, <2>1, <2>2, <2>3, QuietKeeps DEF Logout
<1>16. ASSUME NEW t \in Tokens, RevokeSession(t) PROVE KeepInv'
  <2>1. sessions \subseteq sessions' \cup removed' /\ removed \subseteq removed'
    BY <1>16 DEF RevokeSession
  <2>2. QED BY <1>16, <2>1, QuietKeeps DEF RevokeSession
<1>17. ASSUME Tick \/ UNCHANGED vars PROVE KeepInv'
  BY <1>17, QuietKeeps DEF Tick, vars
<1>18. QED
  BY <1>1, <1>2, <1>4, <1>6, <1>8, <1>9, <1>10, <1>11, <1>12, <1>13, <1>14, <1>15, <1>16,
     <1>17 DEF Next, Step

\* A device whose answers have arrived, one request at a time, has a session of the
\* store unless the limit or a logout took it or its token is another device's too:
\* rotating refresh tokens signs nobody out, whatever fails and is repeated.
THEOREM RotationKeepsDevices == Spec => []SignedInDevicesKeepSession
<1>1. TypeOK /\ KeepInv => SignedInDevicesKeepSession
  <2> SUFFICES ASSUME TypeOK, KeepInv, NEW d \in Devices
               PROVE  LET t == cookie[d]
                      IN  \/ t = NoToken \/ d \in Busy \/ d \in parallel
                          \/ t \in sessions \/ t \in removed \/ holders[t] # {d}
    BY DEF SignedInDevicesKeepSession
  <2>1. ASSUME NEW r \in Requests, Answering(r), call[r].device = d PROVE d \in Busy
    BY <2>1, TokensTyped DEF Busy
  <2>2. QED BY <2>1 DEF KeepInv, Kept
<1>2. QED BY <1>1, InitKeep, NextKeeps, SessionsTyped, PTL DEF Spec
-----------------------------------------------------------------------------
(* The inductive invariant.                                                *)

NoAsk == [op : {"none"}, device : {"none"}, step : {"none"}]
Registering == [op : {"register"}, device : Devices, step : {"sadd", "expire"}]
Unregistering == [op : {"unregister"}, device : Devices, step : {"srem"}]
Asking(q) == asked[q] \in Registering \cup Unregistering
Asks(q, d) == Asking(q) /\ asked[q].device = d

PushesTypeOK ==
    /\ tokens \in SUBSET Devices
    /\ life \in 0..Pushing!Forever
    /\ gone \in SUBSET Devices
    /\ crossed \in SUBSET Devices
    /\ standing \in [Devices -> {"off", "open", "on", "lapsed"}]
    /\ unaged \in BOOLEAN
    /\ asked \in [Requests -> NoAsk \cup Registering \cup Unregistering]
    /\ push.failed \subseteq gone

\* Redis holds no empty set, and the set in it always has time left.
SetLives == tokens = {} <=> life = 0

\* A device not crossed has one request at most, and while it has one no answer
\* stands.
OneRequest ==
    \A q \in Requests, d \in Devices \ crossed :
        Asks(q, d) => /\ standing[d] = "open"
                    /\ \A p \in Requests : Asks(p, d) => p = q

\* Between the two commands of a registration the device is in the set.
HalfwayIn ==
    \A q \in Requests, d \in Devices \ crossed :
        Asks(q, d) /\ asked[q].step = "expire" => d \in tokens \cup gone

AnswersStand ==
    \A d \in Devices \ crossed :
        /\ standing[d] = "on" => d \in tokens \cup gone
        /\ standing[d] = "off" => d \notin tokens

Unending == life = Pushing!Forever => unaged \/ \E q \in Requests : asked[q].op = "register"

PushesInv ==
    PushesTypeOK /\ SetLives /\ OneRequest /\ HalfwayIn /\ AnswersStand /\ Unending

-----------------------------------------------------------------------------
(* The steps.                                                              *)

LEMMA PushesInit == ASSUME PushLifetime \in Nat \ {0} PROVE Pushing!Init => PushesInv
<1> SUFFICES ASSUME Pushing!Init PROVE PushesInv
  OBVIOUS
<1>1. PushesTypeOK
  <2>1. Pushing!NoRequest \in NoAsk BY DEF Pushing!NoRequest, NoAsk
  <2>2. asked \in [Requests -> NoAsk \cup Registering \cup Unregistering]
    BY <2>1 DEF Pushing!Init
  <2>3. push.failed \subseteq gone BY DEF Pushing!Init, Pushing!NoPush
  <2>4. life \in 0..Pushing!Forever BY DEF Pushing!Init, Pushing!Forever
  <2>5. QED BY <2>2, <2>3, <2>4 DEF Pushing!Init, PushesTypeOK
<1>2. \A q \in Requests : ~Asking(q)
  BY DEF Pushing!Init, Pushing!NoRequest, Asking, Registering, Unregistering
<1>3. QED
  BY <1>1, <1>2
     DEF PushesInv, Pushing!Init, SetLives, OneRequest, HalfwayIn, AnswersStand, Unending,
                   Asks, Pushing!Forever

LEMMA AskingOrNot ==
    ASSUME PushesTypeOK, NEW q \in Requests
    PROVE  /\ asked[q] = Pushing!NoRequest => ~Asking(q) /\ asked[q].op = "none"
           /\ asked[q] # Pushing!NoRequest => Asking(q)
           /\ Asking(q) => /\ asked[q].device \in Devices
                         /\ asked[q].op \in {"register", "unregister"}
BY DEF PushesTypeOK, Asking, NoAsk, Registering, Unregistering, Pushing!NoRequest

LEMMA PushTickStep ==
    ASSUME PushLifetime \in Nat \ {0}, PushesInv, Pushing!Tick
    PROVE  PushesInv'
<1> USE DEF PushesInv
<1>0. UNCHANGED <<asked, gone, push, unaged>> BY DEF Pushing!Tick
<1>1. CASE life = 1
  <2>1. /\ tokens' = {} /\ life' = 0
        /\ standing' = [d \in Devices |-> IF standing[d] = "on" THEN "lapsed" ELSE standing[d]]
        /\ crossed' = crossed \cup {asked[q].device : q \in Pushing!Halfway}
    <3>1. life' = 0 BY <1>1 DEF Pushing!Tick, Pushing!Forever
    <3>2. QED BY <1>1, <3>1, Zenon DEF Pushing!Tick
  <2>2. \A q \in Pushing!Halfway : Asking(q) /\ asked[q].device \in Devices
    BY AskingOrNot DEF Pushing!Halfway, Pushing!NoRequest
  <2>3. PushesTypeOK'
    BY <1>0, <2>1, <2>2 DEF PushesTypeOK, Pushing!Forever, Pushing!Halfway
  <2>4. OneRequest'
    BY <1>0, <2>1, <2>3 DEF OneRequest, Asks, Asking, PushesTypeOK
  <2>5. HalfwayIn'
    BY <1>0, <2>1 DEF HalfwayIn, Pushing!Halfway, Asks, Asking
  <2>6. AnswersStand' /\ SetLives' /\ Unending'
    BY <1>0, <2>1 DEF AnswersStand, SetLives, Unending, Pushing!Forever, PushesTypeOK
  <2>7. QED BY <2>3, <2>4, <2>5, <2>6
<1>2. CASE life # 1
  <2>1. /\ UNCHANGED <<tokens, standing, crossed>>
        /\ life' = IF life \in {0, Pushing!Forever} THEN life ELSE life - 1
    BY <1>2 DEF Pushing!Tick
  <2>2. PushesTypeOK'
    BY <1>0, <1>2, <2>1 DEF PushesTypeOK, Pushing!Forever
  <2>3. OneRequest' /\ HalfwayIn' /\ AnswersStand'
    BY <1>0, <2>1 DEF OneRequest, HalfwayIn, AnswersStand, Asks, Asking
  <2>4. SetLives' /\ Unending'
    BY <1>0, <1>2, <2>1 DEF SetLives, Unending, Pushing!Forever, PushesTypeOK
  <2>5. QED BY <2>2, <2>3, <2>4
<1>3. QED BY <1>1, <1>2

LEMMA PushAskStep ==
    ASSUME PushLifetime \in Nat \ {0}, PushesInv, NEW q \in Requests, NEW d \in Devices,
           NEW op \in {"register", "unregister"}, Pushing!Ask(q, d, op)
    PROVE  PushesInv'
<1> USE DEF PushesInv
<1>0. UNCHANGED <<tokens, life, gone, push, unaged>> BY DEF Pushing!Ask
<1>1. /\ asked'[q] \in Registering \cup Unregistering
      /\ asked'[q].device = d /\ asked'[q].op = op /\ asked'[q].step # "expire"
      /\ \A p \in Requests \ {q} : asked'[p] = asked[p]
      /\ asked' \in [Requests -> NoAsk \cup Registering \cup Unregistering]
  BY DEF Pushing!Ask, PushesTypeOK, Pushing!FirstStep, Registering, Unregistering
<1>2. /\ standing'[d] = "open"
      /\ \A e \in Devices \ {d} : standing'[e] = standing[e]
      /\ standing' \in [Devices -> {"off", "open", "on", "lapsed"}]
  BY DEF Pushing!Ask, PushesTypeOK
<1>3. crossed' \in SUBSET Devices /\ \A e \in Devices \ {d} : e \in crossed' <=> e \in crossed
  BY DEF Pushing!Ask, PushesTypeOK
<1>4. d \notin crossed' => \A p \in Requests : ~Asks(p, d)
  BY AskingOrNot DEF Pushing!Ask, Asks
<1>5. PushesTypeOK'
  BY <1>0, <1>1, <1>2, <1>3 DEF PushesTypeOK, Pushing!Forever
<1>6. \A p \in Requests \ {q}, e \in Devices : Asks(p, e)' <=> Asks(p, e)
  BY <1>1 DEF Asks, Asking
<1>7. \A e \in Devices : Asks(q, e)' => e = d
  BY <1>1 DEF Asks
<1>8. OneRequest'
  BY <1>2, <1>3, <1>4, <1>6, <1>7 DEF OneRequest
<1>9. HalfwayIn'
  BY <1>0, <1>1, <1>3, <1>4, <1>6, <1>7 DEF HalfwayIn
<1>10. AnswersStand'
  BY <1>0, <1>2, <1>3 DEF AnswersStand
<1>11. SetLives' /\ Unending'
  <2>1. \A p \in Requests : asked[p].op = "register" => p # q
    BY DEF Pushing!Ask, Pushing!NoRequest
  <2>2. QED BY <1>0, <1>1, <2>1 DEF SetLives, Unending, Pushing!Forever
<1>12. QED BY <1>5, <1>8, <1>9, <1>10, <1>11

\* What a command does to the set: it moves no device but the request's own, and
\* leaves a set that may live without end only for a registration.
LEMMA PushCommandEffect ==
    ASSUME PushLifetime \in Nat \ {0}, PushesInv, NEW q \in Requests, Asking(q),
           Pushing!Command(q) \/ UNCHANGED <<tokens, life>>
    PROVE  /\ tokens' \in SUBSET Devices /\ life' \in 0..Pushing!Forever
           /\ SetLives'
           /\ \A d \in Devices \ {asked[q].device} : d \in tokens' <=> d \in tokens
           /\ life' = Pushing!Forever => life = Pushing!Forever \/ asked[q].op = "register"
           /\ Pushing!Command(q) =>
                CASE asked[q].step = "sadd" -> asked[q].device \in tokens'
                  [] asked[q].step = "expire" -> life' # Pushing!Forever /\ tokens' = tokens
                  [] OTHER -> asked[q].device \notin tokens'
<1> USE DEF PushesInv
<1>1. asked[q].device \in Devices BY AskingOrNot
<1>2. \/ asked[q].op = "register" /\ asked[q].step \in {"sadd", "expire"}
      \/ asked[q].op = "unregister" /\ asked[q].step = "srem"
  BY DEF Asking, Registering, Unregistering
<1>3. CASE UNCHANGED <<tokens, life>> /\ ~Pushing!Command(q)
  BY <1>3 DEF PushesTypeOK, SetLives, Pushing!Forever
<1>4. CASE Pushing!Command(q) /\ asked[q].step = "sadd"
  BY <1>1, <1>2, <1>4 DEF Pushing!Command, Pushing!Sadd, PushesTypeOK, SetLives, Pushing!Forever
<1>5. CASE Pushing!Command(q) /\ asked[q].step = "expire"
  BY <1>1, <1>2, <1>5
     DEF Pushing!Command, Pushing!Expire, PushesTypeOK, SetLives, Pushing!Forever
<1>6. CASE Pushing!Command(q) /\ asked[q].step = "srem"
  BY <1>1, <1>2, <1>6 DEF Pushing!Command, Pushing!Srem, PushesTypeOK, SetLives, Pushing!Forever
<1>7. QED BY <1>2, <1>3, <1>4, <1>5, <1>6

\* The request of a registration or removal goes on or is answered.
LEMMA PushRunStep ==
    ASSUME PushLifetime \in Nat \ {0}, PushesInv, NEW q \in Requests, Pushing!Run(q)
    PROVE  PushesInv'
<1> USE DEF PushesInv
<1>0. UNCHANGED <<gone, push, crossed, unaged>> BY DEF Pushing!Run
<1>1. Asking(q)
  BY AskingOrNot DEF Pushing!Run, Pushing!Command, Pushing!NoRequest
<1>2. /\ tokens' \in SUBSET Devices /\ life' \in 0..Pushing!Forever /\ SetLives'
      /\ \A d \in Devices \ {asked[q].device} : d \in tokens' <=> d \in tokens
      /\ life' = Pushing!Forever => life = Pushing!Forever \/ asked[q].op = "register"
      /\ CASE asked[q].step = "sadd" -> asked[q].device \in tokens'
           [] asked[q].step = "expire" -> life' # Pushing!Forever /\ tokens' = tokens
           [] OTHER -> asked[q].device \notin tokens'
  <2>1. Pushing!Command(q) BY DEF Pushing!Run
  <2>2. QED BY <1>1, <2>1, PushCommandEffect
<1>3. asked[q].device \in Devices BY <1>1, AskingOrNot
<1>4. CASE asked[q].step = "sadd"
  <2>1. /\ asked'[q] \in Registering /\ asked'[q].device = asked[q].device
        /\ asked'[q].op = "register"
        /\ \A p \in Requests \ {q} : asked'[p] = asked[p]
        /\ asked' \in [Requests -> NoAsk \cup Registering \cup Unregistering]
        /\ standing' = standing
    BY <1>1, <1>4
       DEF Pushing!Run, Pushing!Advance, PushesTypeOK, Asking, Registering, Unregistering
  <2>2. \A p \in Requests, e \in Devices : Asks(p, e)' <=> Asks(p, e)
    BY <1>1, <2>1 DEF Asks, Asking
  <2>3. PushesTypeOK'
    BY <1>0, <1>2, <2>1 DEF PushesTypeOK
  <2>4. OneRequest'
    BY <1>0, <2>1, <2>2 DEF OneRequest
  <2>5. HalfwayIn'
    BY <1>0, <1>2, <1>4, <2>1, <2>2 DEF HalfwayIn, Asks
  <2>6. AnswersStand'
    <3>1. Asks(q, asked[q].device) BY <1>1 DEF Asks
    <3>2. asked[q].device \notin crossed => standing[asked[q].device] = "open"
      BY <1>3, <3>1 DEF OneRequest
    <3>3. QED BY <1>0, <1>2, <1>3, <2>1, <3>2 DEF AnswersStand
  <2>7. Unending'
    BY <2>1 DEF Unending
  <2>8. QED BY <1>2, <2>3, <2>4, <2>5, <2>6, <2>7
<1>5. CASE asked[q].step # "sadd"
  <2>1. /\ asked'[q] = Pushing!NoRequest
        /\ \A p \in Requests \ {q} : asked'[p] = asked[p]
        /\ asked' \in [Requests -> NoAsk \cup Registering \cup Unregistering]
        /\ standing'[asked[q].device] = IF asked[q].op = "register" THEN "on" ELSE "off"
        /\ \A e \in Devices \ {asked[q].device} : standing'[e] = standing[e]
        /\ standing' \in [Devices -> {"off", "open", "on", "lapsed"}]
    BY <1>3, <1>5
       DEF Pushing!Run, Pushing!Advance, Pushing!Answered, PushesTypeOK, Pushing!NoRequest, NoAsk
  <2>2. \A p \in Requests, e \in Devices : Asks(p, e)' <=> p # q /\ Asks(p, e)
    BY <2>1 DEF Asks, Asking, Pushing!NoRequest, Registering, Unregistering
  <2>3. PushesTypeOK'
    BY <1>0, <1>2, <2>1 DEF PushesTypeOK
  <2>4. \A p \in Requests : asked[q].device \notin crossed /\ Asks(p, asked[q].device) => p = q
    BY <1>1, <1>3 DEF OneRequest, Asks
  <2>5. OneRequest'
    BY <1>0, <2>1, <2>2, <2>4 DEF OneRequest
  <2>6. HalfwayIn'
    BY <1>0, <1>2, <2>1, <2>2, <2>4 DEF HalfwayIn
  <2>7. AnswersStand'
    <3>1. \/ asked[q].op = "register" /\ asked[q].step = "expire"
          \/ asked[q].op = "unregister" /\ asked[q].step = "srem"
      BY <1>1, <1>5 DEF Asking, Registering, Unregistering
    <3>2. asked[q].device \notin crossed /\ asked[q].step = "expire"
            => asked[q].device \in tokens' \cup gone'
      BY <1>0, <1>1, <1>2, <1>3 DEF HalfwayIn, Asks
    <3>3. QED BY <1>0, <1>2, <2>1, <3>1, <3>2 DEF AnswersStand
  <2>8. Unending'
    <3>1. SUFFICES ASSUME life' = Pushing!Forever, ~unaged
                   PROVE  \E p \in Requests \ {q} : asked[p].op = "register"
      BY <1>0, <2>1 DEF Unending, Pushing!Forever
    <3>2. asked[q].op # "register" /\ life = Pushing!Forever
      BY <1>1, <1>2, <1>5, <3>1 DEF Asking, Registering, Unregistering
    <3>3. QED BY <3>1, <3>2 DEF Unending
  <2>9. QED BY <1>2, <2>3, <2>5, <2>6, <2>7, <2>8
<1>6. QED BY <1>4, <1>5

\* An attempt fails, and begins again or is given up.
LEMMA PushFaultStep ==
    ASSUME PushLifetime \in Nat \ {0}, PushesInv, NEW q \in Requests, NEW again \in BOOLEAN,
           Pushing!Fault(q, again)
    PROVE  PushesInv'
<1> USE DEF PushesInv
<1>0. UNCHANGED <<gone, push, crossed, standing>> BY DEF Pushing!Fault
<1>1. Asking(q) /\ asked[q].device \in Devices
  BY AskingOrNot DEF Pushing!Fault
<1>2. /\ tokens' \in SUBSET Devices /\ life' \in 0..Pushing!Forever /\ SetLives'
      /\ \A d \in Devices \ {asked[q].device} : d \in tokens' <=> d \in tokens
      /\ life' = Pushing!Forever => life = Pushing!Forever \/ asked[q].op = "register"
  <2>1. Pushing!Command(q) \/ UNCHANGED <<tokens, life>> BY DEF Pushing!Fault
  <2>2. QED BY <1>1, <2>1, PushCommandEffect
<1>3. /\ \A p \in Requests \ {q} : asked'[p] = asked[p]
      /\ asked'[q] = IF again THEN [asked[q] EXCEPT !.step = Pushing!FirstStep(asked[q].op)]
                     ELSE Pushing!NoRequest
  BY DEF Pushing!Fault, PushesTypeOK
<1>4. again => /\ asked'[q] \in Registering \cup Unregistering
               /\ asked'[q].device = asked[q].device /\ asked'[q].op = asked[q].op
               /\ asked'[q].step # "expire"
  BY <1>1, <1>3 DEF Asking, Pushing!FirstStep, Registering, Unregistering
<1>5. ~again => asked'[q] \in NoAsk /\ ~Asking(q)'
  BY <1>3 DEF Asking, Pushing!NoRequest, NoAsk, Registering, Unregistering
<1>6. asked' \in [Requests -> NoAsk \cup Registering \cup Unregistering]
  <2>1. \A p \in Requests : asked'[p] \in NoAsk \cup Registering \cup Unregistering
    BY <1>3, <1>4, <1>5 DEF PushesTypeOK
  <2>2. \E f : asked' = [asked EXCEPT ![q] = f]
    BY DEF Pushing!Fault
  <2>3. QED BY <2>1, <2>2 DEF PushesTypeOK
<1>7. unaged' \in BOOLEAN /\ (unaged => unaged')
      /\ (asked[q].op = "register" /\ ~again => unaged')
  BY DEF Pushing!Fault, PushesTypeOK
<1>8. \A p \in Requests, e \in Devices : Asks(p, e)' => Asks(p, e)
  BY <1>1, <1>3, <1>4, <1>5 DEF Asks, Asking
<1>9. PushesTypeOK'
  BY <1>0, <1>2, <1>6, <1>7 DEF PushesTypeOK
<1>10. OneRequest'
  BY <1>0, <1>8 DEF OneRequest
<1>11. \A d \in Devices \ crossed : Asks(q, d) => \A p \in Requests : Asks(p, d) => p = q
  BY DEF OneRequest
<1>12. HalfwayIn'
  <2> SUFFICES ASSUME NEW p \in Requests, NEW d \in Devices \ crossed', Asks(p, d)',
                      asked'[p].step = "expire"
               PROVE  d \in tokens' \cup gone'
    BY DEF HalfwayIn
  <2>1. p # q BY <1>4, <1>5 DEF Asks
  <2>2. Asks(p, d) /\ asked[p].step = "expire" BY <1>3, <1>8, <2>1
  <2>3. d # asked[q].device BY <1>0, <1>1, <1>11, <2>1, <2>2 DEF Asks
  <2>4. QED BY <1>0, <1>2, <2>2, <2>3 DEF HalfwayIn
<1>13. AnswersStand'
  <2>1. asked[q].device \notin crossed => standing[asked[q].device] = "open"
    BY <1>1 DEF OneRequest, Asks
  <2>2. QED BY <1>0, <1>2, <2>1 DEF AnswersStand
<1>14. Unending'
  <2> SUFFICES ASSUME life' = Pushing!Forever, ~unaged'
               PROVE  \E p \in Requests : asked'[p].op = "register"
    BY DEF Unending, Pushing!Forever
  <2>1. asked[q].op = "register" => asked'[q].op = "register" BY <1>4, <1>7
  <2>2. \E p \in Requests : asked[p].op = "register" BY <1>2, <1>7 DEF Unending
  <2>3. QED BY <1>3, <2>1, <2>2
<1>15. QED BY <1>2, <1>9, <1>10, <1>12, <1>13, <1>14

\* A push takes out only tokens that FCM no longer knows.
LEMMA PushSendStep ==
    ASSUME PushLifetime \in Nat \ {0}, PushesInv,
           \/ Pushing!ReadTokens \/ Pushing!Multicast \/ Pushing!Clean \/ Pushing!GiveUp
           \/ \E d \in Devices : Pushing!Uninstall(d)
    PROVE  PushesInv'
<1> USE DEF PushesInv
<1>0. UNCHANGED <<asked, crossed, standing, unaged>> /\ gone \subseteq gone'
      /\ gone' \in SUBSET Devices
  BY
     DEF Pushing!ReadTokens, Pushing!Multicast, Pushing!Clean, Pushing!GiveUp,
         Pushing!Uninstall, PushesTypeOK
<1>1. push'.failed \subseteq gone'
  <2>1. CASE Pushing!Multicast
    <3>1. PICK busy \in SUBSET (push.to \ gone) :
             push' = IF Pushing!FailedTokens(push.to, busy) = {} THEN Pushing!NoPush
                     ELSE [push EXCEPT !.step = "clean", !.failed = Pushing!FailedTokens(push.to, busy)]
      BY <2>1 DEF Pushing!Multicast
    <3>2. QED BY <2>1, <3>1 DEF Pushing!Multicast, Pushing!FailedTokens, Pushing!NoPush
  <2>2. CASE Pushing!ReadTokens \/ Pushing!Clean \/ Pushing!GiveUp
    <3>1. Pushing!NoPush.failed = {} BY DEF Pushing!NoPush
    <3>2. [Pushing!NoPush EXCEPT !.step = "send", !.to = tokens].failed = {}
      BY DEF Pushing!NoPush
    <3>3. push' \in {Pushing!NoPush, [Pushing!NoPush EXCEPT !.step = "send", !.to = tokens]}
      BY <2>2 DEF Pushing!ReadTokens, Pushing!Clean, Pushing!GiveUp
    <3>4. QED BY <3>1, <3>2, <3>3
  <2>3. CASE \E d \in Devices : Pushing!Uninstall(d)
    BY <2>3, <1>0 DEF Pushing!Uninstall, PushesTypeOK
  <2>4. QED BY <2>1, <2>2, <2>3
<1>2. /\ tokens' \in SUBSET tokens /\ tokens \ tokens' \subseteq gone
      /\ life' = IF tokens' = {} THEN 0 ELSE life
  BY
     DEF Pushing!ReadTokens, Pushing!Multicast, Pushing!Clean, Pushing!GiveUp,
         Pushing!Uninstall, Pushing!Srem, PushesTypeOK, SetLives
<1>3. PushesTypeOK'
  BY <1>0, <1>1, <1>2 DEF PushesTypeOK, Pushing!Forever
<1>4. SetLives' /\ Unending'
  <2>1. tokens' # {} => tokens # {} BY <1>2
  <2>2. SetLives' BY <1>2, <2>1 DEF SetLives
  <2>3. life' = Pushing!Forever => life = Pushing!Forever BY <1>2 DEF Pushing!Forever
  <2>4. QED BY <1>0, <2>2, <2>3 DEF Unending, Pushing!Forever
<1>5. OneRequest' /\ HalfwayIn' /\ AnswersStand'
  BY <1>0, <1>2 DEF OneRequest, HalfwayIn, AnswersStand, Asks, Asking
<1>6. QED BY <1>3, <1>4, <1>5

LEMMA PushesNext ==
    ASSUME PushLifetime \in Nat \ {0}, PushesInv, [Pushing!Next]_(Pushing!vars)
    PROVE  PushesInv'
<1>1. CASE Pushing!Tick BY <1>1, PushTickStep
<1>2. CASE \/ Pushing!ReadTokens \/ Pushing!Multicast \/ Pushing!Clean \/ Pushing!GiveUp
           \/ \E d \in Devices : Pushing!Uninstall(d)
  BY <1>2, PushSendStep
<1>3. CASE \E q \in Requests : Pushing!Run(q)
  BY <1>3, PushRunStep
<1>4. CASE \E q \in Requests, again \in BOOLEAN : Pushing!Fault(q, again)
  BY <1>4, PushFaultStep
<1>5. CASE \E q \in Requests, d \in Devices, op \in {"register", "unregister"} : Pushing!Ask(q, d, op)
  BY <1>5, PushAskStep
<1>6. CASE UNCHANGED Pushing!vars
  BY <1>6
     DEF Pushing!vars, PushesInv, PushesTypeOK, SetLives, OneRequest, HalfwayIn, AnswersStand,
              Unending, Asks, Asking
<1>7. QED BY <1>1, <1>2, <1>3, <1>4, <1>5, <1>6 DEF Pushing!Next

\* What holds of the pushes in MCDevices holds of Spec2, of which they are a part.
LEMMA PushesPart ==
    [Next2]_<<part, vars, liveVars, pushVars, userVars>> => [Pushing!Next]_(Pushing!vars)
BY DEF Next2, pushVars, Pushing!vars

\* A device whose registration or removal was answered is in the set that pushes
\* are sent to or out of it, and the set has an end once no device registers, but
\* for the overlaps that PushesFollowDevices names (NotificationService:104-140).
THEOREM TokensFollowDevices == Spec2 => []Pushing!PushesFollowDevices
<1>1. Init2 => PushesInv BY DevicesAssumption, PushesInit DEF Init2
<1>2. PushesInv /\ [Next2]_<<part, vars, liveVars, pushVars, userVars>> => PushesInv'
  BY DevicesAssumption, PushesNext, PushesPart
<1>3. PushesInv => Pushing!PushesFollowDevices
  BY DEF PushesInv, AnswersStand, Unending, Pushing!PushesFollowDevices
<1>4. QED BY <1>1, <1>2, <1>3, PTL DEF Spec2

-----------------------------------------------------------------------------
(* The users' rows (Accounts): the inductive invariant.                    *)

UserRow == [account : UserAccounts, settings : [UserColumns -> Nat], loggedIn : BOOLEAN,
            info : InfoIds \cup {NULL}]
InfoRow == [value : Nat, of : UserIds]
LoginSteps == {"idle", "exchange", "find", "create", "touch", "validate", "check", "write",
               "find user", "read", "commit"}
LoginCall == [at : LoginSteps, account : UserAccounts \cup {NULL}, id : UserIds \cup {NULL},
              provider : {"google", "apple", NULL}, column : UserColumns \cup {NULL}, value : Nat,
              info : InfoIds \cup {NULL}]

UsersTyped ==
    /\ user \in [UserIds -> UserRow \cup {NULL}]
    /\ info \in [InfoIds -> InfoRow \cup {NULL}]
    /\ login \in [LoginRequests -> LoginCall]
    /\ last \in [UserIds -> [UserColumns -> Nat]]
    /\ saved \in [UserIds -> Nat]
    /\ logins \in Nat

\* An id that was not given out is nobody's.
FreeBlank ==
    \A id \in UserIds \ usedIds :
        user[id] = NULL /\ last[id] = [c \in UserColumns |-> 0] /\ saved[id] = 0

KeyUnique ==
    \A x, y \in UserIds :
        Users!Stored(x) /\ Users!Stored(y) /\ user[x].account = user[y].account => x = y

JoinsStand ==
    \A j \in joined : /\ j[2] \in UserIds \cap usedIds
                      /\ Users!Stored(j[2]) => user[j[2]].account = j[1]

SettingsLast == \A id \in UserIds : Users!Stored(id) => user[id].settings = last[id]

AnswersSaved ==
    \A id \in UserIds \ together : Users!Stored(id) => Users!getOnboarding(id) = saved[id]

\* The row that a user is linked to, or that a save has read, is of that user.
InfoOf(i, id) == i # NULL => i \in usedIds /\ info[i] \in InfoRow /\ info[i].of = id

LinksOwn == \A id \in UserIds : Users!Stored(id) => InfoOf(user[id].info, id)

\* A row of answers is linked to its user, who is no other than when it was made.
RowsOwned ==
    \A i \in InfoIds : info[i] # NULL =>
        LET id == info[i].of IN
        /\ i \in usedIds /\ id \in usedIds
        /\ Users!Stored(id) /\ id \notin together => user[id].info = i

RowsInv == /\ FreeBlank /\ KeyUnique /\ JoinsStand /\ SettingsLast /\ AnswersSaved
           /\ LinksOwn /\ RowsOwned

\* What a request knows holds as long as the user is there: the account it looked
\* for, and the link it read unless another first save overlapped.
LoginOK(c) ==
    /\ c.at \in {"find", "create", "touch"} => c.account \in UserAccounts
    /\ c.at = "touch" => /\ c.id \in UserIds \cap usedIds
                         /\ Users!Stored(c.id) => user[c.id].account = c.account
    /\ c.at \in {"validate", "check", "write"} =>
           c.id \in UserIds \cap usedIds /\ c.column \in UserColumns
    /\ c.at \in {"find user", "read", "commit"} => c.id \in UserIds \cap usedIds
    /\ c.at = "commit" =>
           /\ InfoOf(c.info, c.id)
           /\ Users!Stored(c.id) /\ c.id \notin together => c.info = user[c.id].info

LoginsOK == \A r \in LoginRequests : LoginOK(login[r])

\* Only one save of a user that read no link is under way, unless two overlapped.
SavesApart ==
    \A r, q \in LoginRequests :
        /\ r # q /\ login[r].at = "commit" /\ login[q].at = "commit"
        /\ login[r].id = login[q].id
        /\ Users!Stored(login[r].id) /\ login[r].id \notin together
        => login[r].info # NULL

UsersInv == UsersTyped /\ RowsInv /\ LoginsOK /\ SavesApart

LEMMA UsersInit == Users!Init => UsersInv
<1> SUFFICES ASSUME Users!Init PROVE UsersInv
  OBVIOUS
<1>1. Users!Idle \in LoginCall /\ Users!Idle.at = "idle"
  BY DEF Users!Idle, LoginCall, LoginSteps
<1>2. \A r \in LoginRequests : login[r] = Users!Idle
  BY DEF Users!Init
<1>3. [c \in UserColumns |-> 0] \in [UserColumns -> Nat]
  OBVIOUS
<1>4. UsersTyped
  BY <1>1, <1>3 DEF Users!Init, UsersTyped
<1>5. LoginsOK /\ SavesApart
  BY <1>1, <1>2 DEF LoginsOK, LoginOK, SavesApart
<1>6. RowsInv
  BY DEF Users!Init, RowsInv, FreeBlank, KeyUnique, JoinsStand, SettingsLast, AnswersSaved,
         LinksOwn, RowsOwned, Users!Stored
<1>7. QED BY <1>4, <1>5, <1>6 DEF UsersInv

-----------------------------------------------------------------------------
(* Steps that change no row: one request moves on.                         *)

UserTables == <<user, info, usedIds, joined, last, saved, together>>

LEMMA RowsStay == ASSUME RowsInv, UNCHANGED UserTables PROVE RowsInv'
BY DEF RowsInv, UserTables, FreeBlank, KeyUnique, JoinsStand, SettingsLast, AnswersSaved,
       LinksOwn, RowsOwned, InfoOf, Users!Stored, Users!getOnboarding

LEMMA LoginStays == ASSUME UNCHANGED UserTables, NEW c PROVE LoginOK(c)' <=> LoginOK(c')
BY DEF UserTables, LoginOK, InfoOf, Users!Stored

LEMMA LoginMoves ==
    ASSUME UsersInv, UNCHANGED UserTables, logins' \in Nat, NEW r \in LoginRequests,
           NEW c \in LoginCall, login' = [login EXCEPT ![r] = c], LoginOK(c), c.at # "commit"
    PROVE  UsersInv'
<1>1. login'[r] = c /\ \A q \in LoginRequests : q # r => login'[q] = login[q]
  BY DEF UsersInv, UsersTyped
<1>2. UsersTyped'
  BY DEF UsersInv, UsersTyped, UserTables
<1>3. RowsInv' BY RowsStay DEF UsersInv
<1>4. LoginsOK'
  <2>1. LoginOK(c)' BY DEF UserTables, LoginOK, InfoOf, Users!Stored
  <2>2. \A q \in LoginRequests : LoginOK(login[q])' <=> LoginOK(login'[q])
    BY DEF UserTables, LoginOK, InfoOf, Users!Stored
  <2>3. \A q \in LoginRequests : q # r => LoginOK(login'[q]) BY <1>1 DEF UsersInv, LoginsOK
  <2>4. QED BY <1>1, <2>2, <2>3 DEF LoginsOK
<1>5. SavesApart'
  BY <1>1 DEF UsersInv, SavesApart, UserTables, Users!Stored
<1>6. QED BY <1>2, <1>3, <1>4, <1>5 DEF UsersInv

LEMMA NobodyMoves ==
    ASSUME UsersInv, UNCHANGED <<UserTables, login>>, logins' \in Nat
    PROVE  UsersInv'
<1>1. UsersTyped' BY DEF UsersInv, UsersTyped, UserTables
<1>2. RowsInv' BY RowsStay DEF UsersInv
<1>3. LoginsOK' /\ SavesApart'
  BY DEF UsersInv, LoginsOK, SavesApart, UserTables, LoginOK, InfoOf, Users!Stored
<1>4. QED BY <1>1, <1>2, <1>3 DEF UsersInv

LEMMA IdleOK == Users!Idle \in LoginCall /\ LoginOK(Users!Idle) /\ Users!Idle.at = "idle"
BY DEF Users!Idle, LoginCall, LoginSteps, LoginOK

LEMMA LoginEnds ==
    ASSUME UsersInv, UNCHANGED UserTables, logins' \in Nat, NEW r \in LoginRequests, Users!End(r)
    PROVE  UsersInv'
BY IdleOK, LoginMoves DEF Users!End

\* A call at another step, by its fields.
LEMMA LoginAt ==
    ASSUME NEW c \in LoginCall, NEW s \in LoginSteps
    PROVE  LET n == [c EXCEPT !.at = s]
           IN  /\ n \in LoginCall /\ n.at = s /\ n.account = c.account /\ n.id = c.id
               /\ n.column = c.column /\ n.info = c.info
BY DEF LoginCall

-----------------------------------------------------------------------------
(* Steps that change the users' rows.                                      *)

\* What requests know stays known when rows only go, or keep their account and link.
LEMMA LoginsKeep ==
    ASSUME UsersInv, UNCHANGED <<info, together>>, usedIds \subseteq usedIds',
           \A id \in UserIds \cap usedIds : Users!Stored(id)' =>
               /\ Users!Stored(id) /\ user'[id].account = user[id].account
               /\ user'[id].info = user[id].info,
           \/ login' = login
           \/ \E r \in LoginRequests : login' = [login EXCEPT ![r] = Users!Idle]
    PROVE  LoginsOK' /\ SavesApart' /\ login' \in [LoginRequests -> LoginCall]
<1>1. \A q \in LoginRequests : login'[q] = login[q] \/ login'[q] = Users!Idle
  BY DEF UsersInv, UsersTyped
<1>2. login' \in [LoginRequests -> LoginCall]
  BY IdleOK DEF UsersInv, UsersTyped
<1>3. ASSUME NEW q \in LoginRequests, login'[q] = login[q]
      PROVE  LoginOK(login[q])'
  <2> DEFINE c == login[q]
  <2>1. LoginOK(c) BY DEF UsersInv, LoginsOK
  <2>2. c' = c BY <1>3
  <2> HIDE DEF c
  <2>3. c.at = "touch" => (user'[c.id] # NULL => user'[c.id].account = c.account)
    BY <2>1 DEF LoginOK, Users!Stored
  <2>4. c.at = "commit" =>
            /\ c.info # NULL => c.info \in usedIds' /\ info'[c.info] \in InfoRow /\ info'[c.info].of = c.id
            /\ user'[c.id] # NULL /\ c.id \notin together' => c.info = user'[c.id].info
    BY <2>1 DEF LoginOK, InfoOf, Users!Stored
  <2>5. LoginOK(c)'
    BY <2>1, <2>2, <2>3, <2>4 DEF LoginOK, InfoOf, Users!Stored
  <2>6. QED BY <2>5 DEF c
<1>4. ASSUME NEW q \in LoginRequests, login'[q] = Users!Idle
      PROVE  LoginOK(login[q])'
  BY <1>4, IdleOK DEF LoginOK
<1>5. LoginsOK' BY <1>1, <1>3, <1>4 DEF LoginsOK
<1>6. SavesApart'
  <2> SUFFICES ASSUME NEW r \in LoginRequests, NEW q \in LoginRequests, r # q,
                      login'[r].at = "commit", login'[q].at = "commit",
                      login'[r].id = login'[q].id,
                      Users!Stored(login[r].id)', login'[r].id \notin together'
               PROVE  login'[r].info # NULL
    BY DEF SavesApart
  <2>1. login'[r] = login[r] /\ login'[q] = login[q] BY <1>1, IdleOK
  <2>2. login[r].id \in UserIds \cap usedIds BY <2>1 DEF UsersInv, LoginsOK, LoginOK
  <2>3. Users!Stored(login[r].id) BY <2>1, <2>2 DEF Users!Stored
  <2>4. QED BY <2>1, <2>3 DEF UsersInv, SavesApart
<1>7. QED BY <1>2, <1>5, <1>6

\* Rows go, or keep all but their login flag; others may have signed in with them.
LEMMA RowsKeep ==
    ASSUME UsersInv, UNCHANGED <<info, usedIds, last, saved, together>>, logins' \in Nat,
           user' \in [UserIds -> UserRow \cup {NULL}],
           \A id \in UserIds : Users!Stored(id)' =>
               /\ Users!Stored(id) /\ user'[id].account = user[id].account
               /\ user'[id].info = user[id].info /\ user'[id].settings = user[id].settings,
           \A j \in joined' : \/ j \in joined
                              \/ /\ j[2] \in UserIds \cap usedIds
                                 /\ Users!Stored(j[2])' => user'[j[2]].account = j[1],
           \/ login' = login
           \/ \E r \in LoginRequests : login' = [login EXCEPT ![r] = Users!Idle]
    PROVE  UsersInv'
<1>1. LoginsOK' /\ SavesApart' /\ login' \in [LoginRequests -> LoginCall] BY LoginsKeep
<1>2. UsersTyped' BY <1>1 DEF UsersInv, UsersTyped
<1>3. FreeBlank' BY DEF UsersInv, RowsInv, FreeBlank, Users!Stored
<1>4. KeyUnique' BY DEF UsersInv, RowsInv, KeyUnique
<1>5. JoinsStand' BY DEF UsersInv, RowsInv, JoinsStand, Users!Stored
<1>6. SettingsLast' BY DEF UsersInv, RowsInv, SettingsLast
<1>7. AnswersSaved' BY DEF UsersInv, RowsInv, AnswersSaved, Users!getOnboarding
<1>8. LinksOwn' BY DEF UsersInv, RowsInv, LinksOwn, InfoOf
<1>9. RowsOwned'
  <2> SUFFICES ASSUME NEW i \in InfoIds, info[i] # NULL
               PROVE  /\ i \in usedIds /\ info[i].of \in usedIds
                      /\ Users!Stored(info[i].of)' /\ info[i].of \notin together
                           => user'[info[i].of].info = i
    BY DEF RowsOwned, Users!Stored
  <2>1. info[i].of \in UserIds BY DEF UsersInv, UsersTyped, InfoRow
  <2>2. Users!Stored(info[i].of)' => user'[info[i].of] # NULL /\ user[info[i].of] # NULL
    BY <2>1 DEF Users!Stored
  <2>3. QED BY <2>1, <2>2 DEF UsersInv, RowsInv, RowsOwned, Users!Stored
<1>10. QED BY <1>1, <1>2, <1>3, <1>4, <1>5, <1>6, <1>7, <1>8, <1>9 DEF UsersInv, RowsInv

\* A row is made, of an id that was free and an account that had none.
LEMMA RowMade ==
    ASSUME UsersInv, NULL \notin InfoIds, UNCHANGED <<info, last, saved, together>>, logins' \in Nat,
           NEW id \in Users!FreeIds, NEW a \in UserAccounts, ~Users!Refused(a),
           user' = [user EXCEPT ![id] = Users!NewUser(a)], usedIds' = usedIds \cup {id},
           joined' \subseteq joined \cup {<<a, id>>},
           \/ login' = login
           \/ \E r \in LoginRequests : login' = [login EXCEPT ![r] = Users!Idle]
    PROVE  UsersInv'
<1>0. id \in UserIds \ usedIds BY DEF Users!FreeIds
<1>1. /\ Users!NewUser(a) \in UserRow
      /\ Users!NewUser(a).account = a /\ Users!NewUser(a).info = NULL
      /\ Users!NewUser(a).settings = [c \in UserColumns |-> 0]
  BY DEF Users!NewUser, UserRow
<1>2. /\ user'[id] = Users!NewUser(a)
      /\ \A x \in UserIds \ {id} : user'[x] = user[x]
      /\ user' \in [UserIds -> UserRow \cup {NULL}]
  BY <1>0, <1>1 DEF UsersInv, UsersTyped
<1>3. LoginsOK' /\ SavesApart' /\ login' \in [LoginRequests -> LoginCall]
  <2>1. \A x \in UserIds \cap usedIds : Users!Stored(x)' =>
            /\ Users!Stored(x) /\ user'[x].account = user[x].account
            /\ user'[x].info = user[x].info
    BY <1>0, <1>2 DEF Users!Stored
  <2>2. QED BY <2>1, LoginsKeep
<1>4. UsersTyped' BY <1>2, <1>3 DEF UsersInv, UsersTyped
<1>5. FreeBlank' BY <1>0, <1>2 DEF UsersInv, RowsInv, FreeBlank
<1>6. KeyUnique'
  BY <1>0, <1>1, <1>2 DEF UsersInv, RowsInv, KeyUnique, Users!Refused, Users!Stored
<1>7. JoinsStand'
  BY <1>0, <1>1, <1>2 DEF UsersInv, RowsInv, JoinsStand, Users!Stored
<1>8. SettingsLast'
  BY <1>0, <1>1, <1>2 DEF UsersInv, RowsInv, SettingsLast, FreeBlank, Users!Stored
<1>9. AnswersSaved'
  BY <1>0, <1>1, <1>2 DEF UsersInv, RowsInv, AnswersSaved, FreeBlank, Users!Stored,
                          Users!getOnboarding
<1>10. LinksOwn'
  BY <1>0, <1>1, <1>2 DEF UsersInv, RowsInv, LinksOwn, InfoOf, Users!Stored
<1>11. RowsOwned'
  BY <1>0, <1>1, <1>2 DEF UsersInv, RowsInv, RowsOwned, Users!Stored
<1>12. QED BY <1>3, <1>4, <1>5, <1>6, <1>7, <1>8, <1>9, <1>10, <1>11 DEF UsersInv, RowsInv

-----------------------------------------------------------------------------
(* The users' actions.                                                     *)

LEMMA LoginOf ==
    ASSUME UsersInv, NEW r \in LoginRequests
    PROVE  login[r] \in LoginCall /\ LoginOK(login[r]) /\ logins \in Nat
BY DEF UsersInv, UsersTyped, LoginsOK

LEMMA UsersTablesAre ==
    UserTables = <<user, info, usedIds, joined, last, saved, together>>
BY DEF UserTables

\* A request begins: a consent page's callback, a test login, a setting or the answers.
LEMMA UserBegins ==
    ASSUME UsersInv, NEW r \in LoginRequests,
           \/ \E p \in pending : Users!GoogleCallback(r, p) \/ Users!AppleCallback(r, p)
           \/ \E a \in UserAccounts : Users!TestLogin(r, a)
           \/ \E id \in UserIds : Users!UpdateOnboarding(r, id)
           \/ \E id \in UserIds, c \in UserColumns :
                 Users!UpdateSetting(r, id, c) \/ Users!DeleteKey(r, id, c)
    PROVE  UsersInv'
<1>1. logins \in Nat /\ logins + 1 \in Nat BY LoginOf
<1>2. UNCHANGED UserTables /\ logins' \in Nat
  BY <1>1 DEF UserTables, Users!GoogleCallback, Users!AppleCallback, Users!TestLogin,
              Users!UpdateOnboarding, Users!UpdateSetting, Users!DeleteKey, Users!Begin,
              Users!Tables, Users!History
<1> DEFINE Begins(c) == login' = [login EXCEPT ![r] = c]
<1>3. CASE \E p \in pending : Users!GoogleCallback(r, p) \/ Users!AppleCallback(r, p)
  <2>1. login' = login
        \/ \E p \in {"google", "apple"} :
              Begins([Users!Idle EXCEPT !.at = "exchange", !.provider = p])
    BY <1>3 DEF Users!GoogleCallback, Users!AppleCallback, Users!Begin
  <2>2. CASE login' = login BY <1>2, <2>2, NobodyMoves
  <2>3. ASSUME NEW p \in {"google", "apple"},
               Begins([Users!Idle EXCEPT !.at = "exchange", !.provider = p])
        PROVE  UsersInv'
    <3>1. [Users!Idle EXCEPT !.at = "exchange", !.provider = p] \in LoginCall
      BY DEF Users!Idle, LoginCall, LoginSteps
    <3>2. LoginOK([Users!Idle EXCEPT !.at = "exchange", !.provider = p])
      BY DEF Users!Idle, LoginOK
    <3>3. [Users!Idle EXCEPT !.at = "exchange", !.provider = p].at # "commit" BY DEF Users!Idle
    <3>4. QED BY <1>2, <2>3, <3>1, <3>2, <3>3, LoginMoves
  <2>4. QED BY <2>1, <2>2, <2>3
<1>4. ASSUME NEW a \in UserAccounts, Users!TestLogin(r, a) PROVE UsersInv'
  <2> DEFINE n == [Users!Idle EXCEPT !.at = "find", !.account = a]
  <2>1. login' = [login EXCEPT ![r] = n] BY <1>4 DEF Users!TestLogin, Users!Begin
  <2>2. n \in LoginCall /\ LoginOK(n) /\ n.at # "commit"
    BY DEF Users!Idle, LoginCall, LoginSteps, LoginOK
  <2> HIDE DEF n
  <2>3. QED BY <1>2, <2>1, <2>2, LoginMoves
<1>5. ASSUME NEW id \in UserIds, Users!UpdateOnboarding(r, id) PROVE UsersInv'
  <2> DEFINE n == [Users!Idle EXCEPT !.at = "find user", !.id = id, !.value = logins + 1]
  <2>1. login' = [login EXCEPT ![r] = n] /\ id \in usedIds
    BY <1>5 DEF Users!UpdateOnboarding, Users!Begin
  <2>2. n \in LoginCall /\ LoginOK(n) /\ n.at # "commit"
    BY <1>1, <2>1 DEF Users!Idle, LoginCall, LoginSteps, LoginOK
  <2> HIDE DEF n
  <2>3. QED BY <1>2, <2>1, <2>2, LoginMoves
<1>6. ASSUME NEW id \in UserIds, NEW c \in UserColumns,
             Users!UpdateSetting(r, id, c) \/ Users!DeleteKey(r, id, c)
      PROVE  UsersInv'
  <2> DEFINE n(s, v) == [Users!Idle EXCEPT !.at = s, !.id = id, !.column = c, !.value = v]
             m == [Users!Idle EXCEPT !.at = "check", !.id = id, !.column = c]
  <2>1. id \in usedIds BY <1>6 DEF Users!UpdateSetting, Users!DeleteKey
  <2>2. CASE Users!UpdateSetting(r, id, c)
    <3> DEFINE s == Users!FirstStep(c)
    <3>1. s \in {"validate", "write", "check"} BY DEF Users!FirstStep
    <3>2. login' = [login EXCEPT ![r] = n(s, logins + 1)]
      BY <2>2 DEF Users!UpdateSetting, Users!Begin
    <3> HIDE DEF s
    <3>3. n(s, logins + 1) \in LoginCall
      BY <1>1, <3>1 DEF Users!Idle, LoginCall, LoginSteps
    <3>4. LoginOK(n(s, logins + 1)) /\ n(s, logins + 1).at # "commit"
      BY <2>1, <3>1 DEF Users!Idle, LoginOK
    <3> HIDE DEF n
    <3>5. QED BY <1>2, <3>2, <3>3, <3>4, LoginMoves
  <2>3. CASE Users!DeleteKey(r, id, c)
    <3>1. login' = [login EXCEPT ![r] = m]
      BY <2>3 DEF Users!DeleteKey, Users!Begin
    <3>2. m \in LoginCall BY DEF Users!Idle, LoginCall, LoginSteps
    <3>3. LoginOK(m) /\ m.at # "commit" BY <2>1 DEF Users!Idle, LoginOK
    <3> HIDE DEF m
    <3>4. QED BY <1>2, <3>1, <3>2, <3>3, LoginMoves
  <2>4. QED BY <1>6, <2>2, <2>3
<1>7. QED BY <1>3, <1>4, <1>5, <1>6

\* A request goes on without writing.
LEMMA UserGoesOn ==
    ASSUME UsersInv, NEW r \in LoginRequests,
           \/ \E a \in UserAccounts : Users!ExchangeCode(r, a)
           \/ Users!FindByProvider(r) \/ Users!ValidateKey(r) \/ Users!CheckUser(r)
           \/ Users!FindUser(r) \/ Users!Fail(r)
    PROVE  UsersInv'
<1>0. login[r] \in LoginCall /\ LoginOK(login[r]) BY LoginOf
<1>2. UNCHANGED UserTables /\ logins' \in Nat
  BY LoginOf DEF UserTables, Users!ExchangeCode, Users!FindByProvider, Users!ValidateKey,
              Users!CheckUser, Users!FindUser, Users!Fail, Users!Tables, Users!History
<1>3. ASSUME NEW a \in UserAccounts, Users!ExchangeCode(r, a) PROVE UsersInv'
  <2> DEFINE n == [login[r] EXCEPT !.at = "find", !.account = a]
  <2>1. login' = [login EXCEPT ![r] = n]
    BY <1>3 DEF Users!ExchangeCode, UsersInv, UsersTyped
  <2>2. n \in LoginCall /\ LoginOK(n) /\ n.at # "commit"
    BY <1>0 DEF LoginCall, LoginSteps, LoginOK
  <2> HIDE DEF n
  <2>3. QED BY <1>2, <2>1, <2>2, LoginMoves
<1>4. CASE Users!FindByProvider(r)
  <2> DEFINE a == login[r].account
  <2>1. a \in UserAccounts BY <1>0, <1>4 DEF Users!FindByProvider, Users!At, LoginOK
  <2>2. CASE login' = [login EXCEPT ![r].at = "create"]
    <3> DEFINE n == [login[r] EXCEPT !.at = "create"]
    <3>1. login' = [login EXCEPT ![r] = n] BY <2>2 DEF UsersInv, UsersTyped
    <3>2. n \in LoginCall /\ LoginOK(n) /\ n.at # "commit"
      BY <1>0, <2>1 DEF LoginCall, LoginSteps, LoginOK
    <3> HIDE DEF n
    <3>3. QED BY <1>2, <3>1, <3>2, LoginMoves
  <2>3. ASSUME NEW id \in Users!findByProvider(a),
               login' = [login EXCEPT ![r].at = "touch", ![r].id = id]
        PROVE  UsersInv'
    <3> DEFINE n == [login[r] EXCEPT !.at = "touch", !.id = id]
    <3>1. login' = [login EXCEPT ![r] = n] BY <2>3 DEF UsersInv, UsersTyped
    <3>2. id \in UserIds /\ Users!Stored(id) /\ user[id].account = a
      <4>1. <<a[1], a[2]>> = a BY <2>1, DevicesAssumption
      <4>2. QED BY <4>1 DEF Users!findByProvider, Users!Of, Users!Provider, Users!Subject
    <3>3. id \in usedIds
      BY <3>2 DEF UsersInv, RowsInv, FreeBlank, Users!Stored
    <3>4. n \in LoginCall /\ n.at = "touch" /\ n.id = id /\ n.account = a
      BY <1>0, <3>2 DEF LoginCall, LoginSteps
    <3>5. LoginOK(n)
      BY <2>1, <3>2, <3>3, <3>4 DEF LoginOK
    <3> HIDE DEF n
    <3>6. QED BY <1>2, <3>1, <3>4, <3>5, LoginMoves
  <2>4. QED BY <1>4, <2>2, <2>3 DEF Users!FindByProvider, Users!Goto
<1>5. CASE \E s \in {"check", "write", "read"} : 
             /\ login' = [login EXCEPT ![r].at = s]
             /\ s \in {"check", "write"} => login[r].at \in {"validate", "check"}
             /\ s = "read" => login[r].at = "find user"
  <2>1. PICK s \in {"check", "write", "read"} : 
             /\ login' = [login EXCEPT ![r].at = s]
             /\ s \in {"check", "write"} => login[r].at \in {"validate", "check"}
             /\ s = "read" => login[r].at = "find user"
    BY <1>5
  <2> DEFINE n == [login[r] EXCEPT !.at = s]
  <2>2. login' = [login EXCEPT ![r] = n] BY <2>1 DEF UsersInv, UsersTyped
  <2>3. n \in LoginCall /\ n.at = s /\ n.id = login[r].id /\ n.column = login[r].column
    BY <1>0 DEF LoginCall, LoginSteps
  <2>4. LoginOK(n)
    BY <1>0, <2>1, <2>3 DEF LoginOK
  <2> HIDE DEF n
  <2>5. QED BY <1>2, <2>2, <2>3, <2>4, LoginMoves
<1>6. CASE Users!End(r) BY <1>2, <1>6, LoginEnds
<1>7. QED
  <2>1. CASE Users!ValidateKey(r)
    BY <1>5, <2>1 DEF Users!ValidateKey, Users!Goto, Users!At
  <2>2. CASE Users!CheckUser(r)
    BY <1>5, <1>6, <2>2 DEF Users!CheckUser, Users!Goto, Users!At
  <2>3. CASE Users!FindUser(r)
    BY <1>5, <1>6, <2>3 DEF Users!FindUser, Users!Goto, Users!At
  <2>4. CASE Users!Fail(r) BY <1>6, <2>4 DEF Users!Fail
  <2>5. QED BY <1>3, <1>4, <2>1, <2>2, <2>3, <2>4

LEMMA TouchStep ==
    ASSUME UsersInv, NEW r \in LoginRequests, Users!TouchUser(r)
    PROVE  UsersInv'
<1> DEFINE x == login[r].id
<1>1. /\ login[r].at = "touch" /\ login' = [login EXCEPT ![r] = Users!Idle]
      /\ UNCHANGED <<info, usedIds, last, saved, together>> /\ logins' \in Nat
  BY LoginOf DEF Users!TouchUser, Users!At, Users!End
<1>2. /\ x \in UserIds \cap usedIds
      /\ Users!Stored(x) => user[x].account = login[r].account
  BY <1>1, LoginOf DEF LoginOK
<1>3. CASE ~Users!Stored(x)
  <2>1. UNCHANGED UserTables
    BY <1>1, <1>3 DEF Users!TouchUser, UserTables
  <2>2. QED BY <1>1, <2>1, LoginEnds DEF Users!End
<1>4. CASE Users!Stored(x)
  <2>1. /\ user' = [user EXCEPT ![x] = Users!LoggedIn(user[x])]
        /\ joined' = joined \cup {<<login[r].account, x>>}
    BY <1>4 DEF Users!TouchUser
  <2>2. user[x] \in UserRow BY <1>2, <1>4 DEF UsersInv, UsersTyped, Users!Stored
  <2>3. /\ Users!LoggedIn(user[x]) \in UserRow
        /\ Users!LoggedIn(user[x]).account = user[x].account
        /\ Users!LoggedIn(user[x]).info = user[x].info
        /\ Users!LoggedIn(user[x]).settings = user[x].settings
    BY <2>2 DEF Users!LoggedIn, UserRow
  <2>4. user' \in [UserIds -> UserRow \cup {NULL}]
    BY <2>1, <2>3 DEF UsersInv, UsersTyped
  <2>5. user'[x] = Users!LoggedIn(user[x]) /\ \A id \in UserIds \ {x} : user'[id] = user[id]
    BY <1>2, <2>1 DEF UsersInv, UsersTyped
  <2>6. \A id \in UserIds : Users!Stored(id)' =>
            /\ Users!Stored(id) /\ user'[id].account = user[id].account
            /\ user'[id].info = user[id].info /\ user'[id].settings = user[id].settings
    BY <1>4, <2>3, <2>5 DEF Users!Stored
  <2>7. \A j \in joined' : \/ j \in joined
                           \/ /\ j[2] \in UserIds \cap usedIds
                              /\ Users!Stored(j[2])' => user'[j[2]].account = j[1]
    BY <1>2, <1>4, <2>1, <2>3, <2>5
  <2>8. QED BY <1>1, <2>4, <2>6, <2>7, RowsKeep
<1>5. QED BY <1>3, <1>4

LEMMA CreateStep ==
    ASSUME UsersInv, NULL \notin InfoIds, NEW r \in LoginRequests, NEW id \in UserIds,
           Users!CreateUser(r, id)
    PROVE  UsersInv'
<1> DEFINE a == login[r].account
<1>1. /\ login[r].at = "create" /\ login' = [login EXCEPT ![r] = Users!Idle]
      /\ UNCHANGED <<info, last, saved, together>> /\ logins' \in Nat
      /\ id \in Users!FreeIds
  BY LoginOf DEF Users!CreateUser, Users!At, Users!End
<1>2. a \in UserAccounts BY <1>1, LoginOf DEF LoginOK
<1>3. CASE Users!Refused(a)
  <2>1. UNCHANGED UserTables
    BY <1>1, <1>3 DEF Users!CreateUser, UserTables
  <2>2. QED BY <1>1, <2>1, LoginEnds DEF Users!End
<1>4. CASE ~Users!Refused(a)
  <2>1. /\ user' = [user EXCEPT ![id] = Users!NewUser(a)] /\ usedIds' = usedIds \cup {id}
        /\ joined' = joined \cup {<<a, id>>}
    BY <1>4 DEF Users!CreateUser
  <2> HIDE DEF a
  <2>2. QED BY <1>1, <1>2, <1>4, <2>1, RowMade
<1>5. QED BY <1>3, <1>4

\* One upsert of the test users, and their deletion.
LEMMA TestUserStep ==
    ASSUME UsersInv, NULL \notin InfoIds,
           Users!DeleteTestUsers \/ \E a \in UserAccounts : Users!SeedTestUser(a)
    PROVE  UsersInv'
<1>1. UNCHANGED <<info, login, last, saved, together, joined>> /\ logins' \in Nat
  BY LoginOf DEF Users!DeleteTestUsers, Users!SeedTestUser, Users!History, UsersInv, UsersTyped
<1>2. ASSUME \A id \in UserIds :
                 \/ user'[id] \in {user[id], NULL}
                 \/ Users!Stored(id) /\ user'[id] = Users!LoggedIn(user[id]),
             user' = [id \in UserIds |-> user'[id]], usedIds' = usedIds
      PROVE  UsersInv'
  <2>1. \A id \in UserIds : Users!Stored(id) =>
           /\ Users!LoggedIn(user[id]) \in UserRow
           /\ Users!LoggedIn(user[id]).account = user[id].account
           /\ Users!LoggedIn(user[id]).info = user[id].info
           /\ Users!LoggedIn(user[id]).settings = user[id].settings
    <3> SUFFICES ASSUME NEW id \in UserIds, Users!Stored(id)
                 PROVE  /\ Users!LoggedIn(user[id]) \in UserRow
                        /\ Users!LoggedIn(user[id]).account = user[id].account
                        /\ Users!LoggedIn(user[id]).info = user[id].info
                        /\ Users!LoggedIn(user[id]).settings = user[id].settings
      OBVIOUS
    <3>1. user[id] \in UserRow BY DEF UsersInv, UsersTyped, Users!Stored
    <3>2. QED BY <3>1 DEF Users!LoggedIn, UserRow
  <2>2. \A id \in UserIds : Users!Stored(id)' =>
            /\ Users!Stored(id) /\ user'[id].account = user[id].account
            /\ user'[id].info = user[id].info /\ user'[id].settings = user[id].settings
    BY <1>2, <2>1 DEF Users!Stored
  <2>3. \A id \in UserIds : user'[id] \in UserRow \cup {NULL}
    BY <1>2, <2>1 DEF UsersInv, UsersTyped
  <2>4. user' \in [UserIds -> UserRow \cup {NULL}] BY <1>2, <2>3
  <2>5. QED BY <1>1, <1>2, <2>2, <2>4, RowsKeep
<1>3. CASE Users!DeleteTestUsers
  <2>1. user' = [id \in UserIds |->
                   IF id \in {x \in UserIds : Users!Stored(x) /\ Users!Provider(user[x].account) = "dev"}
                   THEN NULL ELSE user[id]]
        /\ usedIds' = usedIds
    BY <1>3 DEF Users!DeleteTestUsers
  <2>2. user' = [id \in UserIds |-> user'[id]] BY <2>1
  <2>3. \A id \in UserIds : user'[id] \in {user[id], NULL} BY <2>1
  <2>4. QED BY <1>2, <2>1, <2>2, <2>3
<1>4. ASSUME NEW a \in UserAccounts, Users!SeedTestUser(a) PROVE UsersInv'
  <2>1. CASE Users!Refused(a)
    <3>1. user' = [id \in UserIds |-> IF id \in Users!findByProvider(a) THEN Users!LoggedIn(user[id])
                                      ELSE user[id]]
          /\ usedIds' = usedIds
      BY <1>4, <2>1 DEF Users!SeedTestUser
    <3>2. \A id \in Users!findByProvider(a) : Users!Stored(id)
      BY DEF Users!findByProvider, Users!Of
    <3>3. user' = [id \in UserIds |-> user'[id]] BY <3>1
    <3>4. \A id \in UserIds : \/ user'[id] \in {user[id], NULL}
                              \/ Users!Stored(id) /\ user'[id] = Users!LoggedIn(user[id])
      BY <3>1, <3>2
    <3>5. QED BY <1>2, <3>1, <3>3, <3>4
  <2>2. CASE ~Users!Refused(a)
    <3>1. PICK id \in Users!FreeIds : /\ user' = [user EXCEPT ![id] = Users!NewUser(a)]
                                      /\ usedIds' = usedIds \cup {id}
      BY <1>4, <2>2 DEF Users!SeedTestUser
    <3>2. QED BY <1>1, <2>2, <3>1, RowMade
  <2>3. QED BY <2>1, <2>2
<1>5. QED BY <1>3, <1>4

LEMMA WriteStep ==
    ASSUME UsersInv, NEW r \in LoginRequests, Users!WriteColumn(r)
    PROVE  UsersInv'
<1> DEFINE id == login[r].id  c == login[r].column  v == login[r].value
<1>1. /\ login[r].at = "write" /\ login' = [login EXCEPT ![r] = Users!Idle]
      /\ UNCHANGED <<info, usedIds, joined, saved, together>> /\ logins' \in Nat
  BY LoginOf DEF Users!WriteColumn, Users!At, Users!End
<1>2. id \in UserIds \cap usedIds /\ c \in UserColumns /\ v \in Nat
  BY <1>1, LoginOf DEF LoginOK, LoginCall
<1>3. CASE ~Users!Stored(id)
  <2>1. UNCHANGED UserTables
    BY <1>1, <1>3 DEF Users!WriteColumn, UserTables
  <2>2. QED BY <1>1, <2>1, LoginEnds DEF Users!End
<1>4. CASE Users!Stored(id)
  <2>1. /\ user' = [user EXCEPT ![id] = Users!WithColumn(user[id], c, v)]
        /\ last' = [last EXCEPT ![id][c] = v]
    BY <1>4 DEF Users!WriteColumn
  <2>2. user[id] \in UserRow BY <1>2, <1>4 DEF UsersInv, UsersTyped, Users!Stored
  <2> DEFINE row == Users!WithColumn(user[id], c, v)
  <2>3. /\ row \in UserRow /\ row.account = user[id].account /\ row.info = user[id].info
        /\ row.settings = [user[id].settings EXCEPT ![c] = v]
    BY <1>2, <2>2 DEF Users!WithColumn, UserRow
  <2>4. /\ user' \in [UserIds -> UserRow \cup {NULL}] /\ user'[id] = row
        /\ \A x \in UserIds \ {id} : user'[x] = user[x]
    <3> HIDE DEF row
    <3>1. QED BY <1>2, <2>1, <2>3 DEF UsersInv, UsersTyped, row
  <2>5. /\ last' \in [UserIds -> [UserColumns -> Nat]]
        /\ last'[id] = [last[id] EXCEPT ![c] = v]
        /\ \A x \in UserIds \ {id} : last'[x] = last[x]
    BY <1>2, <2>1 DEF UsersInv, UsersTyped
  <2> HIDE DEF row
  <2>6. LoginsOK' /\ SavesApart' /\ login' \in [LoginRequests -> LoginCall]
    <3>1. \A x \in UserIds \cap usedIds : Users!Stored(x)' =>
              /\ Users!Stored(x) /\ user'[x].account = user[x].account
              /\ user'[x].info = user[x].info
      BY <1>4, <2>3, <2>4 DEF Users!Stored
    <3>2. QED BY <1>1, <3>1, LoginsKeep
  <2>7. UsersTyped' BY <1>1, <2>4, <2>5, <2>6 DEF UsersInv, UsersTyped
  <2>8. FreeBlank' BY <1>1, <1>2, <2>4, <2>5 DEF UsersInv, RowsInv, FreeBlank
  <2>9. KeyUnique'
    BY <1>4, <2>3, <2>4 DEF UsersInv, RowsInv, KeyUnique, Users!Stored
  <2>10. JoinsStand'
    BY <1>1, <1>4, <2>3, <2>4 DEF UsersInv, RowsInv, JoinsStand, Users!Stored
  <2>11. SettingsLast'
    <3>1. user[id].settings = last[id] BY <1>2, <1>4 DEF UsersInv, RowsInv, SettingsLast
    <3>2. user'[id].settings = last'[id] BY <2>3, <2>4, <2>5, <3>1
    <3>3. QED BY <2>4, <2>5, <3>2 DEF UsersInv, RowsInv, SettingsLast, Users!Stored
  <2>12. AnswersSaved'
    BY <1>1, <1>4, <2>3, <2>4 DEF UsersInv, RowsInv, AnswersSaved, Users!Stored,
                                  Users!getOnboarding
  <2>13. LinksOwn'
    BY <1>1, <1>4, <2>3, <2>4 DEF UsersInv, RowsInv, LinksOwn, InfoOf, Users!Stored
  <2>14. RowsOwned'
    BY <1>1, <1>4, <2>3, <2>4
       DEF UsersInv, RowsInv, UsersTyped, InfoRow, RowsOwned, Users!Stored
  <2>15. QED
    BY <2>6, <2>7, <2>8, <2>9, <2>10, <2>11, <2>12, <2>13, <2>14 DEF UsersInv, RowsInv
<1>5. QED BY <1>3, <1>4

LEMMA ReadStep ==
    ASSUME UsersInv, NEW r \in LoginRequests, Users!ReadInfoId(r)
    PROVE  UsersInv'
<1> DEFINE id == login[r].id  n == [login[r] EXCEPT !.at = "commit", !.info = user[id].info]
<1>1. /\ login[r].at = "read" /\ id \in UserIds \cap usedIds
      /\ UNCHANGED <<user, info, usedIds, joined, last, saved>> /\ logins' \in Nat
      /\ together' \in {together, together \cup {id}}
      /\ \A q \in LoginRequests : Users!FirstSave(q) /\ login[q].id = id => id \in together'
  BY LoginOf DEF Users!ReadInfoId, Users!At, Users!Tables, LoginOK
<1>2. together \subseteq together' BY <1>1
<1>3. RowsInv'
  <2>1. FreeBlank' /\ KeyUnique' /\ JoinsStand' /\ SettingsLast' /\ LinksOwn'
    BY <1>1 DEF UsersInv, RowsInv, FreeBlank, KeyUnique, JoinsStand, SettingsLast, LinksOwn,
                InfoOf, Users!Stored
  <2>2. AnswersSaved' /\ RowsOwned'
    BY <1>1, <1>2 DEF UsersInv, RowsInv, AnswersSaved, RowsOwned, Users!Stored,
                      Users!getOnboarding
  <2>3. QED BY <2>1, <2>2 DEF RowsInv
<1>4. /\ login'[r] = IF Users!Stored(id) THEN n ELSE Users!Idle
      /\ \A q \in LoginRequests : q # r => login'[q] = login[q]
      /\ login' = [login EXCEPT ![r] = IF Users!Stored(id) THEN n ELSE Users!Idle]
  BY DEF Users!ReadInfoId, UsersInv, UsersTyped
<1>5. Users!Stored(id) => user[id] \in UserRow /\ InfoOf(user[id].info, id)
  BY <1>1 DEF UsersInv, UsersTyped, RowsInv, LinksOwn, Users!Stored
<1>6. Users!Stored(id) => /\ n \in LoginCall /\ n.at = "commit" /\ n.id = id
                          /\ n.info = user[id].info
  <2>1. login[r] \in LoginCall BY LoginOf
  <2>2. QED BY <1>5, <2>1 DEF LoginCall, LoginSteps, UserRow
<1> HIDE DEF n
<1>7. UsersTyped'
  BY <1>1, <1>4, <1>6, IdleOK DEF UsersInv, UsersTyped
<1>8. LoginsOK'
  <2>1. ASSUME NEW q \in LoginRequests, q # r PROVE LoginOK(login[q])'
    <3>1. login'[q] = login[q] /\ LoginOK(login[q]) BY <1>4, <2>1, LoginOf
    <3>2. QED BY <1>1, <1>2, <3>1 DEF LoginOK, InfoOf, Users!Stored
  <2>2. LoginOK(login[r])'
    <3>1. CASE Users!Stored(id)
      <4>1. /\ login'[r].at = "commit" /\ login'[r].id = id /\ login'[r].info = user[id].info
            /\ id \in UserIds \cap usedIds'
        BY <1>1, <1>4, <1>6, <3>1
      <4>2. InfoOf(user[id].info, id) BY <1>5, <3>1
      <4>3. user' = user /\ info' = info /\ usedIds' = usedIds BY <1>1
      <4>4. QED BY <4>1, <4>2, <4>3 DEF LoginOK, InfoOf
    <3>2. CASE ~Users!Stored(id)
      BY <1>4, <3>2, IdleOK DEF LoginOK
    <3>3. QED BY <3>1, <3>2
  <2>3. QED BY <2>1, <2>2 DEF LoginsOK
<1>9. SavesApart'
  <2> SUFFICES ASSUME NEW p \in LoginRequests, NEW q \in LoginRequests, p # q,
                      login'[p].at = "commit", login'[q].at = "commit",
                      login'[p].id = login'[q].id, login'[p].info = NULL,
                      Users!Stored(login'[p].id), login'[p].id \notin together'
               PROVE  FALSE
    BY <1>1 DEF SavesApart, Users!Stored
  <2>1. CASE p # r /\ q # r
    BY <1>2, <1>4, <2>1 DEF UsersInv, SavesApart, Users!Stored
  <2>2. CASE p = r
    <3>1. login'[q] = login[q] /\ login'[p] = n /\ Users!Stored(id) BY <1>4, <2>2, IdleOK
    <3>2. login[q].id = id /\ user[id].info = NULL BY <1>6, <3>1
    <3>3. id \notin together BY <1>2, <1>6, <3>1
    <3>4. login[q].info = NULL BY <3>1, <3>2, <3>3, LoginOf DEF LoginOK
    <3>5. Users!FirstSave(q) BY <3>1, <3>4 DEF Users!FirstSave, Users!At
    <3>6. QED BY <1>1, <1>6, <3>1, <3>2, <3>5
  <2>3. CASE q = r
    <3>1. login'[p] = login[p] /\ login'[q] = n /\ Users!Stored(id) BY <1>4, <2>3, IdleOK
    <3>2. Users!FirstSave(p) BY <3>1 DEF Users!FirstSave, Users!At
    <3>3. QED BY <1>1, <1>6, <3>1, <3>2
  <2>4. QED BY <2>1, <2>2, <2>3
<1>10. QED BY <1>3, <1>7, <1>8, <1>9 DEF UsersInv

LEMMA CommitStep ==
    ASSUME UsersInv, NULL \notin InfoIds, NEW r \in LoginRequests, NEW i \in InfoIds,
           Users!CommitOnboarding(r, i)
    PROVE  UsersInv'
<1> DEFINE id == login[r].id  v == login[r].value  first == login[r].info = NULL
<1>1. /\ login[r].at = "commit" /\ login' = [login EXCEPT ![r] = Users!Idle]
      /\ UNCHANGED <<joined, last, together>> /\ logins' \in Nat
      /\ i \in Users!InfoToWrite(r) /\ (Users!FirstSave(r) <=> first)
  BY LoginOf DEF Users!CommitOnboarding, Users!At, Users!End, Users!FirstSave
<1>2. /\ id \in UserIds \cap usedIds /\ v \in Nat
      /\ InfoOf(login[r].info, id)
      /\ Users!Stored(id) /\ id \notin together => login[r].info = user[id].info
  BY <1>1, LoginOf DEF LoginOK, LoginCall
<1>3. CASE first /\ ~Users!Stored(id)
  <2>1. UNCHANGED UserTables
    BY <1>1, <1>3 DEF Users!CommitOnboarding, UserTables
  <2>2. QED BY <1>1, <2>1, LoginEnds DEF Users!End
<1>4. CASE ~(first /\ ~Users!Stored(id))
  <2>1. /\ info' = [info EXCEPT ![i] = [value |-> v, of |-> id]]
        /\ usedIds' = usedIds \cup {i}
        /\ user' = IF first THEN [user EXCEPT ![id].info = i] ELSE user
        /\ saved' = [saved EXCEPT ![id] = v]
    BY <1>1, <1>4 DEF Users!CommitOnboarding
  <2>2. /\ info'[i] = [value |-> v, of |-> id] /\ info'[i] \in InfoRow
        /\ info'[i].value = v /\ info'[i].of = id
        /\ info' \in [InfoIds -> InfoRow \cup {NULL}]
        /\ \A k \in InfoIds \ {i} : info'[k] = info[k]
    BY <1>2, <2>1 DEF UsersInv, UsersTyped, InfoRow
  <2>3. /\ saved'[id] = v /\ saved' \in [UserIds -> Nat]
        /\ \A x \in UserIds \ {id} : saved'[x] = saved[x]
    BY <1>2, <2>1 DEF UsersInv, UsersTyped
  \* What the row of the user becomes, and what of the ids.
  <2>4. /\ user' \in [UserIds -> UserRow \cup {NULL}]
        /\ \A x \in UserIds \ {id} : user'[x] = user[x]
        /\ user'[id] # NULL => Users!Stored(id)
        /\ user'[id].account = user[id].account /\ user'[id].settings = user[id].settings
        /\ first => user'[id].info = i /\ i \notin usedIds
        /\ ~first => user'[id] = user[id] /\ login[r].info = i /\ info[i].of = id /\ i \in usedIds
    <3>1. CASE first
      <4>1. Users!Stored(id) /\ user[id] \in UserRow
        BY <1>2, <1>4, <3>1 DEF UsersInv, UsersTyped, Users!Stored
      <4>2. user' = [user EXCEPT ![id] = [user[id] EXCEPT !.info = i]]
        BY <2>1, <3>1 DEF UsersInv, UsersTyped
      <4> DEFINE row == [user[id] EXCEPT !.info = i]
      <4>3. /\ row \in UserRow /\ row.account = user[id].account
            /\ row.settings = user[id].settings /\ row.info = i
        BY <4>1 DEF UserRow
      <4>4. user' = [user EXCEPT ![id] = row] BY <4>2
      <4> HIDE DEF row
      <4>5. i \notin usedIds
        BY <1>1, <3>1 DEF Users!InfoToWrite, Users!FreeInfoIds
      <4>6. /\ user'[id] = row /\ \A x \in UserIds \ {id} : user'[x] = user[x]
            /\ user' \in [UserIds -> UserRow \cup {NULL}]
        BY <1>2, <4>3, <4>4 DEF UsersInv, UsersTyped
      <4>7. QED BY <3>1, <4>1, <4>3, <4>5, <4>6 DEF Users!Stored
    <3>2. CASE ~first
      <4>1. user' = user BY <2>1, <3>2
      <4>2. i = login[r].info BY <1>1, <3>2 DEF Users!InfoToWrite
      <4>3. QED BY <1>2, <3>2, <4>1, <4>2 DEF UsersInv, UsersTyped, InfoOf, Users!Stored
    <3>3. QED BY <3>1, <3>2
  <2> HIDE DEF id, v
  <2>5. login' \in [LoginRequests -> LoginCall] /\ login'[r] = Users!Idle
        /\ \A q \in LoginRequests : q # r => login'[q] = login[q]
    BY <1>1, IdleOK DEF UsersInv, UsersTyped
  <2>6. UsersTyped' BY <1>1, <2>2, <2>3, <2>4, <2>5 DEF UsersInv, UsersTyped
  <2>7. FreeBlank'
    BY <1>1, <1>2, <2>1, <2>3, <2>4 DEF UsersInv, RowsInv, FreeBlank
  <2>8. KeyUnique' /\ JoinsStand' /\ SettingsLast'
    <3>1. \A x \in UserIds : Users!Stored(x)' =>
            Users!Stored(x) /\ user'[x].account = user[x].account
            /\ user'[x].settings = user[x].settings
      BY <2>4 DEF Users!Stored
    <3>2. KeyUnique' BY <3>1 DEF UsersInv, RowsInv, KeyUnique
    <3>3. JoinsStand' BY <1>1, <2>1, <3>1 DEF UsersInv, RowsInv, JoinsStand, Users!Stored
    <3>4. SettingsLast' BY <1>1, <3>1 DEF UsersInv, RowsInv, SettingsLast
    <3>5. QED BY <3>2, <3>3, <3>4
  \* No other user is linked to the row.
  <2>9. \A x \in UserIds \ {id} : Users!Stored(x) => user[x].info # i
    BY <2>4 DEF UsersInv, RowsInv, LinksOwn, InfoOf
  <2>10. AnswersSaved'
    <3> SUFFICES ASSUME NEW x \in UserIds, x \notin together, user'[x] # NULL
                 PROVE  (IF user'[x].info = NULL THEN 0 ELSE info'[user'[x].info].value) = saved'[x]
      BY <1>1 DEF AnswersSaved, Users!Stored, Users!getOnboarding
    <3>1. CASE x = id
      <4>1. user'[x].info = i
        BY <1>2, <2>4, <3>1 DEF Users!Stored
      <4>2. QED BY <2>2, <2>3, <3>1, <4>1
    <3>2. CASE x # id
      <4>1. user'[x] = user[x] /\ Users!Stored(x) /\ saved'[x] = saved[x]
        BY <2>3, <2>4, <3>2 DEF Users!Stored
      <4>2. user[x].info # i BY <2>9, <3>2, <4>1
      <4>3. user[x].info \in InfoIds \cup {NULL}
        BY <4>1 DEF UsersInv, UsersTyped, UserRow, Users!Stored
      <4>4. Users!getOnboarding(x) = saved[x]
        BY <4>1 DEF UsersInv, RowsInv, AnswersSaved
      <4>5. QED BY <2>2, <4>1, <4>2, <4>3, <4>4 DEF Users!getOnboarding
    <3>3. QED BY <3>1, <3>2
  <2>11. \A k, x : InfoOf(k, x) /\ k \in InfoIds \cup {NULL} /\ (k = i => x = id)
                    => (k # NULL => k \in usedIds' /\ info'[k] \in InfoRow /\ info'[k].of = x)
    BY <2>1, <2>2 DEF InfoOf
  <2>12. LinksOwn'
    <3> SUFFICES ASSUME NEW x \in UserIds, user'[x] # NULL, user'[x].info # NULL
                 PROVE  /\ user'[x].info \in usedIds' /\ info'[user'[x].info] \in InfoRow
                        /\ info'[user'[x].info].of = x
      BY DEF LinksOwn, InfoOf, Users!Stored
    <3>1. CASE user'[x].info = i
      <4>1. x = id BY <2>4, <2>9, <3>1 DEF Users!Stored
      <4>2. QED BY <2>1, <2>2, <3>1, <4>1
    <3>2. CASE user'[x].info # i
      <4>1. user[x] # NULL /\ user'[x].info = user[x].info
        BY <2>4, <3>2 DEF Users!Stored
      <4>2. InfoOf(user[x].info, x) /\ user[x].info \in InfoIds \cup {NULL}
        BY <4>1 DEF UsersInv, UsersTyped, UserRow, RowsInv, LinksOwn, Users!Stored
      <4>3. QED BY <2>11, <3>2, <4>1, <4>2
    <3>3. QED BY <3>1, <3>2
  <2>13. RowsOwned'
    <3> SUFFICES ASSUME NEW k \in InfoIds, info'[k] # NULL
                 PROVE  /\ k \in usedIds' /\ info'[k].of \in usedIds'
                        /\ user'[info'[k].of] # NULL /\ info'[k].of \notin together
                             => user'[info'[k].of].info = k
      BY <1>1 DEF RowsOwned, Users!Stored
    <3>1. CASE k = i
      BY <1>2, <2>1, <2>2, <2>4, <3>1 DEF Users!Stored
    <3>2. CASE k # i
      <4> DEFINE x == info[k].of
      <4>1. info'[k] = info[k] /\ x \in UserIds
        BY <2>2, <3>2 DEF UsersInv, UsersTyped, InfoRow
      <4>2. /\ k \in usedIds /\ x \in usedIds
            /\ Users!Stored(x) /\ x \notin together => user[x].info = k
        BY <4>1 DEF UsersInv, RowsInv, RowsOwned
      <4>3. CASE x = id
        <5>1. Users!Stored(id) /\ id \notin together => login[r].info = k
          BY <1>2, <4>2, <4>3
        <5>2. ~(Users!Stored(id) /\ id \notin together)
          BY <2>4, <3>2, <5>1
        <5>3. QED BY <2>1, <2>4, <4>1, <4>2, <4>3, <5>2 DEF Users!Stored
      <4>4. CASE x # id BY <2>1, <2>4, <4>1, <4>2, <4>4 DEF Users!Stored
      <4>5. QED BY <4>3, <4>4
    <3>3. QED BY <3>1, <3>2
  <2>14. LoginsOK'
    <3> SUFFICES ASSUME NEW q \in LoginRequests PROVE LoginOK(login[q])'
      BY DEF LoginsOK
    <3>1. CASE q = r BY <2>5, <3>1, IdleOK DEF LoginOK
    <3>2. CASE q # r
      <4> DEFINE c == login[q]
      <4>1. login'[q] = c /\ LoginOK(c) /\ c \in LoginCall BY <2>5, <3>2, LoginOf
      <4>2. c.at = "commit" /\ c.info = i => c.id = id
        <5>1. CASE first BY <2>4, <4>1, <5>1 DEF LoginOK, InfoOf
        <5>2. CASE ~first BY <2>4, <4>1, <5>2 DEF LoginOK, InfoOf
        <5>3. QED BY <5>1, <5>2
      <4>3. c.at = "commit" => (c.info # NULL => /\ c.info \in usedIds' /\ info'[c.info] \in InfoRow
                                                /\ info'[c.info].of = c.id)
        <5>1. c.info \in InfoIds \cup {NULL} BY <4>1 DEF LoginCall
        <5>2. c.at = "commit" => InfoOf(c.info, c.id) BY <4>1 DEF LoginOK
        <5>3. QED BY <2>11, <4>2, <5>1, <5>2
      <4>4. c.at = "commit" /\ user'[c.id] # NULL /\ c.id \notin together => c.info = user'[c.id].info
        <5> SUFFICES ASSUME c.at = "commit", user'[c.id] # NULL, c.id \notin together
                     PROVE  c.info = user'[c.id].info
          OBVIOUS
        <5>1. c.id \in UserIds /\ Users!Stored(c.id)
          BY <2>4, <4>1 DEF LoginOK, Users!Stored
        <5>2. c.info = user[c.id].info BY <4>1, <5>1 DEF LoginOK
        <5>3. CASE c.id = id /\ first
          <6>1. login[r].info # NULL
            BY <1>1, <3>2, <5>1, <5>3 DEF UsersInv, SavesApart, id
          <6>2. QED BY <5>3, <6>1
        <5>4. CASE ~(c.id = id /\ first) BY <2>4, <5>1, <5>2, <5>4
        <5>5. QED BY <5>3, <5>4
      <4>5. c.at = "touch" => (user'[c.id] # NULL => user'[c.id].account = c.account)
        BY <2>4, <4>1 DEF LoginOK, Users!Stored
      <4> HIDE DEF c
      <4>6. usedIds \subseteq usedIds' /\ together' = together BY <1>1, <2>1
      <4>7. QED BY <4>1, <4>3, <4>4, <4>5, <4>6 DEF LoginOK, InfoOf, Users!Stored
    <3>3. QED BY <3>1, <3>2
  <2>15. SavesApart'
    <3> SUFFICES ASSUME NEW p \in LoginRequests, NEW q \in LoginRequests, p # q,
                        login'[p].at = "commit", login'[q].at = "commit",
                        login'[p].id = login'[q].id,
                        Users!Stored(login[p].id)', login'[p].id \notin together'
                 PROVE  login'[p].info # NULL
      BY DEF SavesApart
    <3>1. login'[p] = login[p] /\ login'[q] = login[q] BY <2>5, IdleOK
    <3>2. login[p].id \in UserIds BY <3>1 DEF UsersInv, LoginsOK, LoginOK
    <3>3. Users!Stored(login[p].id) BY <2>4, <3>1, <3>2 DEF Users!Stored
    <3>4. QED BY <1>1, <3>1, <3>3 DEF UsersInv, SavesApart
  <2>16. QED
    BY <2>6, <2>7, <2>8, <2>10, <2>12, <2>13, <2>14, <2>15 DEF UsersInv, RowsInv
<1>5. QED BY <1>3, <1>4

LEMMA UsersNext ==
    ASSUME UsersInv, NULL \notin InfoIds, [Users!Next]_(Users!vars)
    PROVE  UsersInv'
<1>1. CASE Users!StartGoogle \/ Users!StartApple
  <2>1. UNCHANGED <<UserTables, login>> /\ logins' = logins
    BY <1>1 DEF Users!StartGoogle, Users!StartApple, UserTables, Users!Tables, Users!History
  <2>2. QED BY <2>1, NobodyMoves DEF UsersInv, UsersTyped
<1>2. CASE \E r \in LoginRequests, p \in pending : Users!GoogleCallback(r, p) \/ Users!AppleCallback(r, p)
  BY <1>2, UserBegins
<1>3. CASE \E r \in LoginRequests, a \in UserAccounts : Users!ExchangeCode(r, a) \/ Users!TestLogin(r, a)
  BY <1>3, UserBegins, UserGoesOn
<1>4. CASE \E r \in LoginRequests : \/ Users!FindByProvider(r) \/ Users!TouchUser(r) \/ Users!ValidateKey(r)
                          \/ Users!CheckUser(r) \/ Users!WriteColumn(r) \/ Users!FindUser(r)
                          \/ Users!ReadInfoId(r) \/ Users!Fail(r)
  BY <1>4, UserGoesOn, TouchStep, WriteStep, ReadStep
<1>5. CASE \E r \in LoginRequests, id \in UserIds : Users!CreateUser(r, id) \/ Users!UpdateOnboarding(r, id)
  BY <1>5, CreateStep, UserBegins
<1>6. CASE \E r \in LoginRequests, id \in UserIds, c \in UserColumns :
               Users!UpdateSetting(r, id, c) \/ Users!DeleteKey(r, id, c)
  BY <1>6, UserBegins
<1>7. CASE \E r \in LoginRequests, i \in InfoIds : Users!CommitOnboarding(r, i)
  BY <1>7, CommitStep
<1>8. CASE Users!DeleteTestUsers \/ \E a \in UserAccounts : Users!SeedTestUser(a)
  BY <1>8, TestUserStep
<1>9. CASE UNCHANGED Users!vars
  BY <1>9, NobodyMoves DEF Users!vars, UserTables, UsersInv, UsersTyped
<1>10. QED
  BY <1>1, <1>2, <1>3, <1>4, <1>5, <1>6, <1>7, <1>8, <1>9
     DEF Users!Next

LEMMA UsersTell == ASSUME UsersInv PROVE Users!AccountsAgree
<1>1. Users!OneUserPerAccount
  BY DEF UsersInv, RowsInv, JoinsStand, KeyUnique, Users!OneUserPerAccount
<1>2. Users!WritesStay
  BY DEF UsersInv, RowsInv, SettingsLast, AnswersSaved, Users!WritesStay
<1>3. Users!InfoRowsOwned
  BY DEF UsersInv, RowsInv, RowsOwned, Users!InfoRowsOwned
<1>4. QED BY <1>1, <1>2, <1>3 DEF Users!AccountsAgree

LEMMA UsersPart == [Next2]_<<part, vars, liveVars, pushVars, userVars>> => [Users!Next]_(Users!vars)
BY DEF Next2, userVars, Users!vars

\* For any accounts, ids, columns, number of requests and bounds:
\* an account comes to one user although finding and creating one are separate steps,
\* a setting is as last written and the answers as last saved, and a row of answers is
\* its user's, but for first saves that overlap (AuthGoogle, AuthApple, UserService).
THEOREM UsersAgree == Spec2 => []AccountsAgree
<1>1. Init2 => UsersInv BY DevicesAssumption, UsersInit DEF Init2
<1>2. UsersInv /\ [Next2]_<<part, vars, liveVars, pushVars, userVars>> => UsersInv'
  BY DevicesAssumption, UsersNext, UsersPart
<1>3. UsersInv => AccountsAgree BY UsersTell DEF AccountsAgree
<1>4. QED BY <1>1, <1>2, <1>3, PTL DEF Spec2

-----------------------------------------------------------------------------
(* The streams (Notifications), for any tabs, streams, processes and       *)
(* limit: what holds of the streams and the handlers.                      *)

StreamPlaces == {"none", "replay", "subscribe", "subscribing", "open", "closing"}
StreamRow == [at : StreamPlaces, proc : Procs \cup {NoToken}, client : Devices \cup {NoToken},
              since : Nat, alive : BOOLEAN]

StreamsTyped ==
    /\ stream \in [Streams -> StreamRow]
    /\ subscribed \in [Procs -> BOOLEAN]
    /\ handler \in [Procs -> Streams \cup {NoToken, Live!Dead}]
    /\ client \in [Devices -> Streams \cup {NoToken}]
    /\ \A s \in Streams : stream[s].at # "none" => /\ stream[s].proc \in Procs
                                                   /\ stream[s].client \in Devices

\* Streams that are at one process at once are known for it.
SharedKnown ==
    \A s, t \in Streams :
        /\ s # t /\ stream[s].at # "none" /\ stream[t].at # "none"
        /\ stream[s].proc = stream[t].proc
        => s \in shared

\* A process with a handler has the channel, and the handler writes to a stream of
\* that process.
HandlersOwn ==
    \A p \in Procs :
        /\ handler[p] # NoToken => subscribed[p]
        /\ \A s \in Streams : handler[p] = s => /\ stream[s].proc = p
                                                /\ stream[s].at \in {"open", "closing"}

\* A tab and its stream know each other, as long as the tab is there.
TabsOwn ==
    /\ \A c \in Devices : client[c] # NoToken => /\ stream[client[c]].client = c
                                                 /\ stream[client[c]].alive
    /\ \A s \in Streams : stream[s].alive => /\ stream[s].at \notin {"none", "closing"}
                                             /\ client[stream[s].client] = s

StreamsInv == StreamsTyped /\ SharedKnown /\ HandlersOwn /\ TabsOwn /\ Live!OpenStreamHears

NamesApart == NoToken \notin Streams /\ Live!Dead \notin Streams

LEMMA StreamsInit == ASSUME NamesApart PROVE Live!Init => StreamsInv
<1> SUFFICES ASSUME Live!Init PROVE StreamsInv
  OBVIOUS
<1>1. Live!NoStream \in StreamRow /\ Live!NoStream.at = "none" /\ Live!NoStream.alive = FALSE
  BY DEF Live!NoStream, StreamRow, StreamPlaces
<1>2. \A s \in Streams : stream[s] = Live!NoStream BY DEF Live!Init
<1>3. StreamsTyped BY <1>1, <1>2 DEF Live!Init, StreamsTyped
<1>4. SharedKnown BY <1>1, <1>2 DEF SharedKnown
<1>5. HandlersOwn /\ TabsOwn BY <1>1, <1>2 DEF Live!Init, HandlersOwn, TabsOwn, NamesApart
<1>6. Live!OpenStreamHears BY <1>1, <1>2 DEF Live!OpenStreamHears
<1>7. QED BY <1>3, <1>4, <1>5, <1>6 DEF StreamsInv

LEMMA StreamGoes ==
    ASSUME StreamsInv, NEW s \in Streams, NEW phase \in StreamPlaces, Live!Goto(s, phase)
    PROVE  /\ stream' \in [Streams -> StreamRow]
           /\ stream'[s].at = phase /\ stream'[s].proc = stream[s].proc
           /\ stream'[s].client = stream[s].client /\ stream'[s].since = stream[s].since
           /\ stream'[s].alive = stream[s].alive
           /\ \A t \in Streams \ {s} : stream'[t] = stream[t]
<1> DEFINE n == [stream[s] EXCEPT !.at = phase]
<1>1. stream[s] \in StreamRow BY DEF StreamsInv, StreamsTyped
<1>2. /\ n \in StreamRow /\ n.at = phase /\ n.proc = stream[s].proc
      /\ n.client = stream[s].client /\ n.since = stream[s].since /\ n.alive = stream[s].alive
  BY <1>1 DEF StreamRow
<1>3. stream' = [stream EXCEPT ![s] = n] BY DEF Live!Goto, StreamsInv, StreamsTyped
<1> HIDE DEF n
<1>4. QED BY <1>2, <1>3 DEF StreamsInv, StreamsTyped

LEMMA StreamEnds ==
    ASSUME StreamsInv, NEW s \in Streams, Live!End(s)
    PROVE  /\ stream' \in [Streams -> StreamRow]
           /\ stream'[s].at = "none" /\ stream'[s].alive = FALSE
           /\ \A t \in Streams \ {s} : stream'[t] = stream[t]
           /\ shared' = shared \ {s}
<1>1. Live!NoStream \in StreamRow /\ Live!NoStream.at = "none" /\ Live!NoStream.alive = FALSE
  BY DEF Live!NoStream, StreamRow, StreamPlaces
<1>2. stream' = [stream EXCEPT ![s] = Live!NoStream] /\ shared' = shared \ {s} BY DEF Live!End
<1>3. QED BY <1>1, <1>2 DEF StreamsInv, StreamsTyped

-----------------------------------------------------------------------------
(* The streams' actions.                                                   *)

LEMMA ConnectKeeps ==
    ASSUME StreamsInv, NamesApart, NEW c \in Devices, NEW s \in Streams, NEW p \in Procs,
           cursor[c] \in Nat, Live!Connect(c, s, p)
    PROVE  StreamsInv'
<1> DEFINE n == [at |-> "replay", proc |-> p, client |-> c, since |-> cursor[c], alive |-> TRUE]
           others == {t \in Streams \ {s} : ~Live!Ended(t) /\ stream[t].proc = p}
<1>1. /\ client[c] = NoToken /\ stream[s].at = "none"
      /\ stream' = [stream EXCEPT ![s] = n] /\ client' = [client EXCEPT ![c] = s]
      /\ shared' = shared \cup (IF others = {} THEN {} ELSE others \cup {s})
      /\ UNCHANGED <<subscribed, handler>>
  BY DEF Live!Connect, Live!Ended
<1>2. n \in StreamRow BY DEF StreamRow, StreamPlaces
<1>3. /\ n.at = "replay" /\ n.proc = p /\ n.client = c /\ n.alive = TRUE
  OBVIOUS
<1> HIDE DEF n
<1>4. /\ stream' \in [Streams -> StreamRow] /\ stream'[s] = n
      /\ \A t \in Streams \ {s} : stream'[t] = stream[t]
  BY <1>1, <1>2 DEF StreamsInv, StreamsTyped
<1>5. client' \in [Devices -> Streams \cup {NoToken}] /\ client'[c] = s
      /\ \A d \in Devices \ {c} : client'[d] = client[d]
  BY <1>1 DEF StreamsInv, StreamsTyped
<1>6. StreamsTyped' BY <1>1, <1>3, <1>4, <1>5 DEF StreamsInv, StreamsTyped
<1>7. SharedKnown'
  <2> SUFFICES ASSUME NEW t \in Streams, NEW u \in Streams, t # u,
                      stream'[t].at # "none", stream'[u].at # "none",
                      stream'[t].proc = stream'[u].proc
               PROVE  t \in shared'
    BY DEF SharedKnown
  <2>1. CASE t = s
    <3>1. u \in others BY <1>3, <1>4, <2>1 DEF Live!Ended
    <3>2. QED BY <1>1, <2>1, <3>1
  <2>2. CASE u = s
    <3>1. t \in others BY <1>3, <1>4, <2>2 DEF Live!Ended
    <3>2. QED BY <1>1, <3>1
  <2>3. CASE t # s /\ u # s BY <1>1, <1>4, <2>3 DEF StreamsInv, SharedKnown
  <2>4. QED BY <2>1, <2>2, <2>3
<1>8. HandlersOwn'
  BY <1>1, <1>4 DEF StreamsInv, HandlersOwn
<1>9. TabsOwn'
  BY <1>1, <1>3, <1>4, <1>5 DEF StreamsInv, StreamsTyped, TabsOwn, NamesApart
<1>10. Live!OpenStreamHears'
  BY <1>1, <1>3, <1>4 DEF StreamsInv, Live!OpenStreamHears
<1>11. QED BY <1>6, <1>7, <1>8, <1>9, <1>10 DEF StreamsInv

LEMMA ReplayKeeps ==
    ASSUME StreamsInv, NEW s \in Streams, stream[s].at \in {"replay", "subscribe"},
           NEW phase \in {"subscribe", "subscribing"}, Live!Goto(s, phase),
           UNCHANGED <<subscribed, handler, client, shared>>
    PROVE  StreamsInv'
<1>1. phase \in StreamPlaces BY DEF StreamPlaces
<1>2. /\ stream' \in [Streams -> StreamRow]
      /\ stream'[s].at = phase /\ stream'[s].proc = stream[s].proc
      /\ stream'[s].client = stream[s].client /\ stream'[s].alive = stream[s].alive
      /\ \A t \in Streams \ {s} : stream'[t] = stream[t]
  BY <1>1, StreamGoes
<1>3. StreamsTyped' BY <1>2 DEF StreamsInv, StreamsTyped
<1>4. SharedKnown' BY <1>2 DEF StreamsInv, SharedKnown
<1>5. HandlersOwn' BY <1>2 DEF StreamsInv, HandlersOwn
<1>6. TabsOwn' BY <1>2 DEF StreamsInv, StreamsTyped, TabsOwn
<1>7. Live!OpenStreamHears' BY <1>2 DEF StreamsInv, Live!OpenStreamHears
<1>8. QED BY <1>3, <1>4, <1>5, <1>6, <1>7 DEF StreamsInv

\* The process has a handler that is set: the stream's, or a dead one if it has ended.
LEMMA SetHandlerKeeps ==
    ASSUME StreamsInv, NamesApart, NEW s \in Streams,
           stream[s].at \in {"subscribe", "subscribing"}, Live!SetHandler(s),
           UNCHANGED client, subscribed' \in [Procs -> BOOLEAN],
           subscribed'[stream[s].proc], \A p \in Procs : subscribed[p] => subscribed'[p]
    PROVE  StreamsInv'
<1> DEFINE p == stream[s].proc
<1>1. p \in Procs BY DEF StreamsInv, StreamsTyped
<1>2. /\ handler' \in [Procs -> Streams \cup {NoToken, Live!Dead}]
      /\ handler'[p] = IF stream[s].alive THEN s ELSE Live!Dead
      /\ \A q \in Procs \ {p} : handler'[q] = handler[q]
  BY <1>1 DEF Live!SetHandler, StreamsInv, StreamsTyped
<1>3. CASE stream[s].alive
  <2>1. Live!Goto(s, "open") /\ shared' = shared BY <1>3 DEF Live!SetHandler
  <2>2. /\ stream' \in [Streams -> StreamRow]
        /\ stream'[s].at = "open" /\ stream'[s].proc = p
        /\ stream'[s].client = stream[s].client /\ stream'[s].alive = stream[s].alive
        /\ \A t \in Streams \ {s} : stream'[t] = stream[t]
    BY <2>1, StreamGoes DEF StreamPlaces
  <2> HIDE DEF p
  <2>3. StreamsTyped' BY <1>2, <2>2, <1>1 DEF StreamsInv, StreamsTyped
  <2>4. SharedKnown' BY <2>1, <2>2 DEF StreamsInv, SharedKnown, p
  <2>5. HandlersOwn' BY <1>1, <1>2, <1>3, <2>2 DEF StreamsInv, HandlersOwn, NamesApart, p
  <2>6. TabsOwn' BY <2>2 DEF StreamsInv, StreamsTyped, TabsOwn
  <2>7. Live!OpenStreamHears'
    <3> SUFFICES ASSUME NEW t \in Streams, stream'[t].at = "open", t \notin shared'
                 PROVE  subscribed'[stream'[t].proc] /\ handler'[stream'[t].proc] = t
      BY DEF Live!OpenStreamHears
    <3>1. CASE t = s BY <1>2, <1>3, <2>2, <3>1 DEF p
    <3>2. CASE t # s
      <4>1. stream'[t] = stream[t] /\ stream[t].proc \in Procs
        BY <2>2, <3>2 DEF StreamsInv, StreamsTyped
      <4>2. stream[t].proc # p BY <2>1, <3>2, <4>1 DEF StreamsInv, SharedKnown, p
      <4>3. QED BY <1>2, <2>1, <4>1, <4>2 DEF StreamsInv, Live!OpenStreamHears
    <3>3. QED BY <3>1, <3>2
  <2>8. QED BY <2>3, <2>4, <2>5, <2>6, <2>7 DEF StreamsInv
<1>4. CASE ~stream[s].alive
  <2>1. Live!End(s) BY <1>4 DEF Live!SetHandler
  <2>2. /\ stream' \in [Streams -> StreamRow]
        /\ stream'[s].at = "none" /\ stream'[s].alive = FALSE
        /\ \A t \in Streams \ {s} : stream'[t] = stream[t]
        /\ shared' = shared \ {s}
    BY <2>1, StreamEnds
  <2> HIDE DEF p
  <2>3. StreamsTyped' BY <1>2, <2>2 DEF StreamsInv, StreamsTyped
  <2>4. SharedKnown' BY <2>2 DEF StreamsInv, SharedKnown
  <2>5. HandlersOwn' BY <1>1, <1>2, <1>4, <2>2 DEF StreamsInv, HandlersOwn, NamesApart, p
  <2>6. TabsOwn' BY <1>4, <2>2 DEF StreamsInv, StreamsTyped, TabsOwn
  <2>7. Live!OpenStreamHears'
    <3> SUFFICES ASSUME NEW t \in Streams, stream'[t].at = "open", t \notin shared'
                 PROVE  subscribed'[stream'[t].proc] /\ handler'[stream'[t].proc] = t
      BY DEF Live!OpenStreamHears
    <3>1. t # s /\ stream'[t] = stream[t] /\ stream[t].proc \in Procs /\ t \notin shared
      BY <2>2 DEF StreamsInv, StreamsTyped
    <3>2. stream[t].proc # p BY <3>1 DEF StreamsInv, SharedKnown, p
    <3>3. QED BY <1>2, <3>1, <3>2 DEF StreamsInv, Live!OpenStreamHears
  <2>8. QED BY <2>3, <2>4, <2>5, <2>6, <2>7 DEF StreamsInv
<1>5. QED BY <1>3, <1>4

LEMMA SubscribeKeeps ==
    ASSUME StreamsInv, NamesApart, NEW s \in Streams, Live!Subscribe(s)
    PROVE  StreamsInv'
<1> DEFINE p == stream[s].proc
<1>1. /\ stream[s].at = "subscribe" /\ UNCHANGED <<subscribed, client>>
  BY DEF Live!Subscribe
<1>2. p \in Procs BY <1>1 DEF StreamsInv, StreamsTyped
<1>3. CASE handler[p] = NoToken
  <2>1. Live!Goto(s, "subscribing") /\ UNCHANGED <<handler, shared>>
    BY <1>3 DEF Live!Subscribe
  <2>2. QED BY <1>1, <2>1, ReplayKeeps
<1>4. CASE handler[p] # NoToken
  <2>1. Live!SetHandler(s) BY <1>4 DEF Live!Subscribe, Live!OverwriteHandler
  <2>2. subscribed[p] BY <1>2, <1>4 DEF StreamsInv, HandlersOwn
  <2>3. subscribed' \in [Procs -> BOOLEAN] /\ subscribed'[p]
        /\ \A q \in Procs : subscribed[q] => subscribed'[q]
    BY <1>1, <2>2 DEF StreamsInv, StreamsTyped
  <2>4. QED BY <1>1, <2>1, <2>3, SetHandlerKeeps
<1>5. QED BY <1>3, <1>4

\* A stream ends, with its tab or after it, and the handlers of its process that were
\* its own are gone.
LEMMA StreamEndKeeps ==
    ASSUME StreamsInv, NamesApart, NEW s \in Streams, stream[s].at # "none", Live!End(s),
           client' \in [Devices -> Streams \cup {NoToken}],
           \A c \in Devices : client'[c] = IF client[c] = s THEN NoToken ELSE client[c],
           subscribed' \in [Procs -> BOOLEAN],
           handler' \in [Procs -> Streams \cup {NoToken, Live!Dead}],
           \A q \in Procs : q # stream[s].proc =>
               handler'[q] = handler[q] /\ subscribed'[q] = subscribed[q],
           \/ UNCHANGED <<subscribed, handler>> /\ handler[stream[s].proc] # s
           \/ handler'[stream[s].proc] = NoToken
           \/ handler'[stream[s].proc] = Live!Dead /\ subscribed'[stream[s].proc]
           \/ /\ handler'[stream[s].proc] = handler[stream[s].proc]
              /\ handler[stream[s].proc] # s
              /\ subscribed'[stream[s].proc] = subscribed[stream[s].proc]
    PROVE  StreamsInv'
<1> DEFINE p == stream[s].proc
<1>1. p \in Procs BY DEF StreamsInv, StreamsTyped
<1>2. /\ stream' \in [Streams -> StreamRow]
      /\ stream'[s].at = "none" /\ stream'[s].alive = FALSE
      /\ \A t \in Streams \ {s} : stream'[t] = stream[t]
      /\ shared' = shared \ {s}
  BY StreamEnds
<1>3. StreamsTyped' BY <1>2 DEF StreamsInv, StreamsTyped
<1>4. SharedKnown' BY <1>2 DEF StreamsInv, SharedKnown
<1> HIDE DEF p
<1>5. HandlersOwn'
  <2> SUFFICES ASSUME NEW q \in Procs
               PROVE  /\ handler'[q] # NoToken => subscribed'[q]
                      /\ \A t \in Streams : handler'[q] = t =>
                            stream'[t].proc = q /\ stream'[t].at \in {"open", "closing"}
    BY DEF HandlersOwn
  <2>1. \A t \in Streams : handler[q] = t =>
            stream[t].proc = q /\ stream[t].at \in {"open", "closing"}
    BY DEF StreamsInv, HandlersOwn
  <2>2. handler[q] # NoToken => subscribed[q] BY DEF StreamsInv, HandlersOwn
  <2>3. CASE q # p BY <1>2, <2>1, <2>2, <2>3 DEF p
  <2>4. CASE q = p BY <1>2, <2>1, <2>2, <2>4 DEF p, NamesApart
  <2>5. QED BY <2>3, <2>4
<1>6. TabsOwn'
  <2>1. \A c \in Devices : client'[c] # NoToken => client'[c] = client[c] /\ client[c] # s
    OBVIOUS
  <2>2. \A t \in Streams \ {s} : stream[t].alive => client'[stream[t].client] = t
    BY DEF StreamsInv, StreamsTyped, TabsOwn
  <2>3. QED BY <1>2, <2>1, <2>2 DEF StreamsInv, StreamsTyped, TabsOwn
<1>7. Live!OpenStreamHears'
  <2> SUFFICES ASSUME NEW t \in Streams, stream'[t].at = "open", t \notin shared'
               PROVE  subscribed'[stream'[t].proc] /\ handler'[stream'[t].proc] = t
    BY DEF Live!OpenStreamHears
  <2>1. t # s /\ stream'[t] = stream[t] /\ stream[t].proc \in Procs /\ t \notin shared
    BY <1>2 DEF StreamsInv, StreamsTyped
  <2>2. stream[t].proc # p BY <2>1 DEF StreamsInv, SharedKnown, p
  <2>3. QED BY <2>1, <2>2 DEF StreamsInv, Live!OpenStreamHears, p
<1>8. QED BY <1>3, <1>4, <1>5, <1>6, <1>7 DEF StreamsInv

LEMMA SubscribedKeeps ==
    ASSUME StreamsInv, NamesApart, NEW s \in Streams, Live!Subscribed(s)
    PROVE  StreamsInv'
<1> DEFINE p == stream[s].proc  c == stream[s].client
<1>1. stream[s].at = "subscribing" BY DEF Live!Subscribed
<1>2. p \in Procs /\ c \in Devices BY <1>1 DEF StreamsInv, StreamsTyped
<1>3. CASE /\ subscribed' = [subscribed EXCEPT ![p] = TRUE]
           /\ Live!SetHandler(s) /\ UNCHANGED client
  <2>1. subscribed' \in [Procs -> BOOLEAN] /\ subscribed'[p]
        /\ \A q \in Procs : subscribed[q] => subscribed'[q]
    BY <1>2, <1>3 DEF StreamsInv, StreamsTyped
  <2>2. QED BY <1>1, <1>3, <2>1, SetHandlerKeeps
<1>4. CASE /\ Live!End(s) /\ UNCHANGED <<subscribed, handler>>
           /\ client' = IF client[c] = s THEN [client EXCEPT ![c] = NoToken] ELSE client
  <2>1. \A d \in Devices : client[d] = s => d = c
    BY DEF StreamsInv, TabsOwn, NamesApart
  <2>2. /\ client' \in [Devices -> Streams \cup {NoToken}]
        /\ \A d \in Devices : client'[d] = IF client[d] = s THEN NoToken ELSE client[d]
    BY <1>2, <1>4, <2>1 DEF StreamsInv, StreamsTyped
  <2>3. handler[p] # s BY <1>1, <1>2 DEF StreamsInv, HandlersOwn
  <2>4. subscribed' \in [Procs -> BOOLEAN]
        /\ handler' \in [Procs -> Streams \cup {NoToken, Live!Dead}]
    BY <1>4 DEF StreamsInv, StreamsTyped
  <2>5. QED BY <1>1, <1>4, <2>2, <2>3, <2>4, StreamEndKeeps
<1>5. QED BY <1>3, <1>4 DEF Live!Subscribed

LEMMA UnsubscribeKeeps ==
    ASSUME StreamsInv, NamesApart, NEW s \in Streams, Live!Unsubscribe(s)
    PROVE  StreamsInv'
<1> DEFINE p == stream[s].proc
<1>1. stream[s].at = "closing" /\ Live!End(s) /\ client' = client BY DEF Live!Unsubscribe
<1>2. p \in Procs BY <1>1 DEF StreamsInv, StreamsTyped
<1>3. \A d \in Devices : client[d] # s
  BY <1>1 DEF StreamsInv, TabsOwn, NamesApart
<1>4. /\ client' \in [Devices -> Streams \cup {NoToken}]
      /\ \A d \in Devices : client'[d] = IF client[d] = s THEN NoToken ELSE client[d]
  BY <1>1, <1>3 DEF StreamsInv, StreamsTyped
<1>5. CASE /\ subscribed' = [subscribed EXCEPT ![p] = FALSE]
           /\ handler' = [handler EXCEPT ![p] = NoToken]
  <2>1. /\ subscribed' \in [Procs -> BOOLEAN]
        /\ handler' \in [Procs -> Streams \cup {NoToken, Live!Dead}]
        /\ handler'[p] = NoToken
        /\ \A q \in Procs : q # p => handler'[q] = handler[q] /\ subscribed'[q] = subscribed[q]
    BY <1>2, <1>5 DEF StreamsInv, StreamsTyped
  <2>2. QED BY <1>1, <1>4, <2>1, StreamEndKeeps
<1>6. CASE /\ subscribed' = subscribed
           /\ handler' = [handler EXCEPT ![p] = IF handler[p] = s THEN Live!Dead ELSE handler[p]]
  <2>1. /\ subscribed' \in [Procs -> BOOLEAN]
        /\ handler' \in [Procs -> Streams \cup {NoToken, Live!Dead}]
        /\ handler'[p] = IF handler[p] = s THEN Live!Dead ELSE handler[p]
        /\ \A q \in Procs : q # p => handler'[q] = handler[q] /\ subscribed'[q] = subscribed[q]
    BY <1>2, <1>6 DEF StreamsInv, StreamsTyped
  <2>2. handler[p] = s => subscribed'[p]
    BY <1>2, <1>6 DEF StreamsInv, HandlersOwn, NamesApart
  <2>3. \/ handler'[p] = Live!Dead /\ subscribed'[p]
        \/ handler'[p] = handler[p] /\ handler[p] # s /\ subscribed'[p] = subscribed[p]
    BY <1>6, <2>1, <2>2
  <2>4. QED BY <1>1, <1>4, <2>1, <2>3, StreamEndKeeps
<1>7. QED BY <1>5, <1>6 DEF Live!Unsubscribe

LEMMA LeaveKeeps ==
    ASSUME StreamsInv, NamesApart, NEW c \in Devices, Live!Leave(c)
    PROVE  StreamsInv'
<1> DEFINE s == client[c]  there == IF stream[s].at = "open" THEN "closing" ELSE stream[s].at
           n == [stream[s] EXCEPT !.alive = FALSE, !.at = there]
<1>1. /\ s \in Streams /\ client' = [client EXCEPT ![c] = NoToken]
      /\ stream' = [stream EXCEPT ![s] = n]
      /\ UNCHANGED <<subscribed, handler, shared>>
  BY DEF Live!Leave, StreamsInv, StreamsTyped
<1>2. stream[s] \in StreamRow /\ stream[s].client = c /\ stream[s].alive
  BY <1>1 DEF StreamsInv, StreamsTyped, TabsOwn, NamesApart
<1>3. /\ n \in StreamRow /\ n.alive = FALSE /\ n.at = there /\ n.proc = stream[s].proc
      /\ n.client = c
  BY <1>2 DEF StreamRow, StreamPlaces
<1> HIDE DEF n
<1>4. /\ stream' \in [Streams -> StreamRow] /\ stream'[s] = n
      /\ \A t \in Streams \ {s} : stream'[t] = stream[t]
  BY <1>1, <1>3 DEF StreamsInv, StreamsTyped
<1>5. /\ client' \in [Devices -> Streams \cup {NoToken}] /\ client'[c] = NoToken
      /\ \A d \in Devices \ {c} : client'[d] = client[d]
  BY <1>1 DEF StreamsInv, StreamsTyped
<1> HIDE DEF s
<1>6. StreamsTyped' BY <1>1, <1>3, <1>4, <1>5 DEF StreamsInv, StreamsTyped
<1>7. SharedKnown' BY <1>1, <1>3, <1>4 DEF StreamsInv, SharedKnown
<1>8. HandlersOwn' BY <1>1, <1>3, <1>4 DEF StreamsInv, HandlersOwn
<1>9. TabsOwn'
  <2>1. \A d \in Devices \ {c} : client[d] # NoToken => client[d] # s
    BY <1>2 DEF StreamsInv, TabsOwn
  <2>2. \A t \in Streams \ {s} : stream[t].alive => stream[t].client # c
    BY DEF StreamsInv, TabsOwn, s
  <2>3. QED BY <1>1, <1>3, <1>4, <1>5, <2>1, <2>2 DEF StreamsInv, StreamsTyped, TabsOwn
<1>10. Live!OpenStreamHears'
  BY <1>1, <1>3, <1>4 DEF StreamsInv, Live!OpenStreamHears
<1>11. QED BY <1>6, <1>7, <1>8, <1>9, <1>10 DEF StreamsInv

LEMMA CrashKeeps ==
    ASSUME StreamsInv, NamesApart, NEW p \in Procs, Live!Crash(p)
    PROVE  StreamsInv'
<1> DEFINE dead == {s \in Streams : ~Live!Ended(s) /\ stream[s].proc = p}
<1>1. /\ subscribed' = [subscribed EXCEPT ![p] = FALSE]
      /\ handler' = [handler EXCEPT ![p] = NoToken]
      /\ stream' = [s \in Streams |-> IF s \in dead THEN Live!NoStream ELSE stream[s]]
      /\ shared' = shared \ dead
      /\ client' = [c \in Devices |-> IF client[c] \in dead THEN NoToken ELSE client[c]]
  BY DEF Live!Crash
<1>2. Live!NoStream \in StreamRow /\ Live!NoStream.at = "none" /\ Live!NoStream.alive = FALSE
  BY DEF Live!NoStream, StreamRow, StreamPlaces
<1>3. \A s \in dead : stream'[s].at = "none" /\ stream'[s].alive = FALSE
  BY <1>1, <1>2
<1>4. \A s \in Streams \ dead : stream'[s] = stream[s] BY <1>1
<1>5. \A s \in Streams \ dead : stream[s].at = "none" \/ stream[s].proc # p BY DEF Live!Ended
<1>6. /\ stream' \in [Streams -> StreamRow]
      /\ subscribed' \in [Procs -> BOOLEAN]
      /\ handler' \in [Procs -> Streams \cup {NoToken, Live!Dead}]
      /\ client' \in [Devices -> Streams \cup {NoToken}]
  BY <1>1, <1>2 DEF StreamsInv, StreamsTyped
<1>7. /\ handler'[p] = NoToken
      /\ \A q \in Procs \ {p} : handler'[q] = handler[q] /\ subscribed'[q] = subscribed[q]
  BY <1>1 DEF StreamsInv, StreamsTyped
<1>8. \A c \in Devices : client'[c] = IF client[c] \in dead THEN NoToken ELSE client[c] BY <1>1
<1>9. dead \subseteq Streams /\ \A s \in dead : stream[s].proc = p OBVIOUS
<1>10. shared' = shared \ dead BY <1>1
<1> HIDE DEF dead
<1>11. StreamsTyped' BY <1>3, <1>4, <1>6 DEF StreamsInv, StreamsTyped
<1>12. SharedKnown' BY <1>3, <1>4, <1>10 DEF StreamsInv, SharedKnown
<1>13. HandlersOwn'
  <2> SUFFICES ASSUME NEW q \in Procs
               PROVE  /\ handler'[q] # NoToken => subscribed'[q]
                      /\ \A t \in Streams : handler'[q] = t =>
                            stream'[t].proc = q /\ stream'[t].at \in {"open", "closing"}
    BY DEF HandlersOwn
  <2>1. CASE q = p BY <1>7, <2>1 DEF NamesApart
  <2>2. CASE q # p
    BY <1>4, <1>7, <1>9, <2>2 DEF StreamsInv, HandlersOwn
  <2>3. QED BY <2>1, <2>2
<1>14. TabsOwn'
  <2>1. \A s \in Streams : stream'[s].alive => s \notin dead /\ stream'[s] = stream[s]
    BY <1>3, <1>4
  <2>2. QED BY <1>4, <1>8, <2>1 DEF StreamsInv, StreamsTyped, TabsOwn
<1>15. Live!OpenStreamHears'
  BY <1>3, <1>4, <1>5, <1>7, <1>10 DEF StreamsInv, StreamsTyped, Live!OpenStreamHears
<1>16. QED BY <1>11, <1>12, <1>13, <1>14, <1>15 DEF StreamsInv

-----------------------------------------------------------------------------
(* What holds of the notifications and of what the tabs have received.     *)

MessagesTyped ==
    /\ docs \in SUBSET Live!Ids
    /\ sending \in [Live!Ids -> {"none", "made", "stored", "done"}]
    /\ cursor \in [Devices -> Nat]
    /\ received \in [Devices -> SUBSET Live!Ids]
    /\ missable \in [Devices -> SUBSET Live!Ids]

\* The ids are given out in order, and a message is stored before it is published.
SentInOrder ==
    /\ \A n \in docs : sending[n] \in {"stored", "done"}
    /\ \A n \in Live!Ids : sending[n] = "stored" => n \in docs
    /\ \A n, m \in Live!Ids : n < m /\ sending[m] # "none" => sending[n] # "none"

\* A tab's cursor is a message that it has.
CursorSeen == \A c \in Devices : cursor[c] # 0 => cursor[c] \in docs /\ cursor[c] \in received[c]

\* What a tab has moved past it has, or may miss, or it was never stored and never will.
MovedPast ==
    \A c \in Devices, n \in Live!Ids : n < cursor[c] =>
        \/ n \in received[c] \/ n \in missable[c]
        \/ n \notin docs /\ sending[n] = "done"

\* A tab past its replay has all whose sending is over, or may miss them.
PastHas ==
    \A c \in Devices : Live!PastReplay(c) =>
        \A n \in docs : sending[n] = "done" => n \in received[c] \/ n \in missable[c]

SinceKept ==
    \A c \in Devices : client[c] # NoToken /\ stream[client[c]].at = "replay" =>
        stream[client[c]].since = cursor[c]

MessagesInv == MessagesTyped /\ SentInOrder /\ CursorSeen /\ MovedPast /\ PastHas /\ SinceKept

LEMMA MessagesInit == Live!Init => MessagesInv
<1> SUFFICES ASSUME Live!Init PROVE MessagesInv
  OBVIOUS
<1>1. MessagesTyped /\ SentInOrder /\ CursorSeen /\ MovedPast
  BY DEF Live!Init, MessagesTyped, SentInOrder, CursorSeen, MovedPast, Live!Ids
<1>2. PastHas /\ SinceKept
  BY DEF Live!Init, PastHas, SinceKept, Live!PastReplay
<1>3. QED BY <1>1, <1>2 DEF MessagesInv

LEMMA HearersArePast ==
    ASSUME StreamsInv, NamesApart, NEW c \in Devices, client[c] \in Live!Hearing
    PROVE  Live!PastReplay(c)
<1>1. PICK p \in Procs : handler[p] = client[c] /\ stream[client[c]].alive /\ client[c] \in Streams
  BY DEF Live!Hearing
<1>2. stream[client[c]].at = "open"
  BY <1>1 DEF StreamsInv, HandlersOwn, TabsOwn
<1>3. QED BY <1>1, <1>2 DEF Live!PastReplay, NamesApart

\* Streams that come, go on or go leave what holds of the messages, if no tab gets past
\* its replay.
LEMMA MessagesStay ==
    ASSUME MessagesInv, UNCHANGED <<docs, sending, cursor, received, missable>>,
           \A c \in Devices : Live!PastReplay(c)' => Live!PastReplay(c),
           SinceKept'
    PROVE  MessagesInv'
<1>1. MessagesTyped' /\ SentInOrder' /\ CursorSeen' /\ MovedPast'
  BY DEF MessagesInv, MessagesTyped, SentInOrder, CursorSeen, MovedPast
<1>2. PastHas' BY DEF MessagesInv, PastHas
<1>3. QED BY <1>1, <1>2 DEF MessagesInv

LEMMA MakeKeeps ==
    ASSUME MessagesInv, MaxId \in Nat, NEW n \in Live!Ids, Live!Make(n)
    PROVE  MessagesInv'
<1>1. /\ sending[n] = "none" /\ \A m \in 1..n - 1 : sending[m] # "none"
      /\ sending' = [sending EXCEPT ![n] = "made"]
      /\ UNCHANGED <<docs, cursor, received, missable, stream, client>>
  BY DEF Live!Make, Live!StreamsStay
<1>2. /\ sending' \in [Live!Ids -> {"none", "made", "stored", "done"}]
      /\ sending'[n] = "made" /\ \A m \in Live!Ids \ {n} : sending'[m] = sending[m]
  BY <1>1 DEF MessagesInv, MessagesTyped
<1>3. MessagesTyped' BY <1>1, <1>2 DEF MessagesInv, MessagesTyped
<1>4. SentInOrder'
  <2>1. \A m \in Live!Ids : m < n => m \in 1..n - 1 BY DEF Live!Ids
  <2>2. QED BY <1>1, <1>2, <2>1 DEF MessagesInv, MessagesTyped, SentInOrder
<1>5. CursorSeen' BY <1>1 DEF MessagesInv, CursorSeen
<1>6. MovedPast' BY <1>1, <1>2 DEF MessagesInv, MovedPast
<1>7. PastHas'
  BY <1>1, <1>2 DEF MessagesInv, MessagesTyped, SentInOrder, PastHas, Live!PastReplay
<1>8. SinceKept' BY <1>1 DEF MessagesInv, SinceKept
<1>9. QED BY <1>3, <1>4, <1>5, <1>6, <1>7, <1>8 DEF MessagesInv

LEMMA StoreKeeps ==
    ASSUME MessagesInv, NEW n \in Live!Ids, Live!Store(n)
    PROVE  MessagesInv'
<1>1. /\ sending[n] = "made" /\ UNCHANGED <<cursor, received, stream, client>>
      /\ \/ /\ docs' = docs \cup {n} /\ sending' = [sending EXCEPT ![n] = "stored"]
            /\ missable' = missable
         \/ docs' = docs \cup {n} /\ sending' = [sending EXCEPT ![n] = "done"] /\ Live!Unheard(n)
         \/ docs' = docs /\ missable' = missable /\ sending' = [sending EXCEPT ![n] = "done"]
  BY DEF Live!Store, Live!Ready, Live!After, Live!StreamsStay
<1>2. /\ sending' \in [Live!Ids -> {"none", "made", "stored", "done"}]
      /\ \A m \in Live!Ids \ {n} : sending'[m] = sending[m]
      /\ sending'[n] \in {"stored", "done"} /\ (sending'[n] = "stored" => n \in docs')
  BY <1>1 DEF MessagesInv, MessagesTyped
<1>3. docs' \in SUBSET Live!Ids /\ docs \subseteq docs' /\ docs' \subseteq docs \cup {n}
  BY <1>1 DEF MessagesInv, MessagesTyped
<1>4. /\ missable' \in [Devices -> SUBSET Live!Ids]
      /\ \A c \in Devices : missable[c] \subseteq missable'[c]
  BY <1>1 DEF MessagesInv, MessagesTyped, Live!Unheard
<1>5. MessagesTyped' BY <1>1, <1>2, <1>3, <1>4 DEF MessagesInv, MessagesTyped
<1>6. SentInOrder'
  BY <1>1, <1>2, <1>3 DEF MessagesInv, MessagesTyped, SentInOrder
<1>7. CursorSeen' BY <1>1, <1>3 DEF MessagesInv, CursorSeen
<1>8. MovedPast'
  BY <1>1, <1>2, <1>3, <1>4 DEF MessagesInv, MovedPast
<1>9. PastHas'
  <2> SUFFICES ASSUME NEW c \in Devices, Live!PastReplay(c), NEW m \in docs', sending'[m] = "done"
               PROVE  m \in received[c] \/ m \in missable'[c]
    BY <1>1 DEF PastHas, Live!PastReplay
  <2>1. CASE m = n
    <3>1. n \notin docs BY <1>1 DEF MessagesInv, SentInOrder
    <3>2. sending'[n] # "stored" /\ docs' # docs BY <2>1, <3>1
    <3>3. Live!Unheard(n)
      BY <1>1, <3>2 DEF MessagesInv, MessagesTyped
    <3>4. QED BY <2>1, <3>3 DEF Live!Unheard
  <2>2. CASE m # n
    BY <1>2, <1>3, <1>4, <2>2 DEF MessagesInv, PastHas
  <2>3. QED BY <2>1, <2>2
<1>10. SinceKept' BY <1>1 DEF MessagesInv, SinceKept
<1>11. QED BY <1>5, <1>6, <1>7, <1>8, <1>9, <1>10 DEF MessagesInv

LEMMA PublishKeeps ==
    ASSUME StreamsInv, NamesApart, MessagesInv, MaxId \in Nat, NEW n \in Live!Ids, Live!Publish(n)
    PROVE  MessagesInv'
<1>1. /\ sending[n] = "stored" /\ UNCHANGED <<docs, stream, client>>
      /\ \/ Live!Deliver(n) /\ sending' = [sending EXCEPT ![n] = "done"]
         \/ Live!Deliver(n) /\ sending' = sending
         \/ Live!Unheard(n) /\ sending' = [sending EXCEPT ![n] = "done"]
            /\ UNCHANGED <<cursor, received>>
  BY DEF Live!Publish, Live!Ready, Live!After, Live!StreamsStay
<1>2. /\ sending' \in [Live!Ids -> {"none", "made", "stored", "done"}]
      /\ \A m \in Live!Ids \ {n} : sending'[m] = sending[m]
      /\ sending'[n] \in {"stored", "done"}
  BY <1>1 DEF MessagesInv, MessagesTyped
<1>3. n \in docs /\ n \in Nat /\ n # 0
  BY <1>1 DEF MessagesInv, SentInOrder, Live!Ids
<1>4. SentInOrder'
  BY <1>1, <1>2, <1>3 DEF MessagesInv, MessagesTyped, SentInOrder
<1>5. SinceKept'
  <2> SUFFICES ASSUME NEW c \in Devices, client[c] # NoToken, stream[client[c]].at = "replay"
               PROVE  cursor'[c] = cursor[c]
    BY <1>1 DEF MessagesInv, SinceKept
  <2>1. client[c] \notin Live!Hearing BY HearersArePast DEF Live!PastReplay
  <2>2. QED BY <1>1, <2>1 DEF Live!Deliver, MessagesInv, MessagesTyped
<1>6. CASE Live!Deliver(n)
  <2>1. \A c \in Devices :
          IF client[c] \in Live!Hearing
          THEN /\ cursor'[c] = n /\ received'[c] = received[c] \cup {n}
               /\ missable'[c] = missable[c] \cup Live!Behind(n)
          ELSE /\ cursor'[c] = cursor[c] /\ received'[c] = received[c]
               /\ missable'[c] = missable[c] \cup (IF Live!PastReplay(c) THEN {n} ELSE {})
    BY <1>6 DEF Live!Deliver
  <2>2. Live!Behind(n) \in SUBSET Live!Ids BY DEF Live!Behind
  <2>3. /\ cursor' \in [Devices -> Nat] /\ received' \in [Devices -> SUBSET Live!Ids]
        /\ missable' \in [Devices -> SUBSET Live!Ids]
    <3>1. \A c \in Devices : /\ cursor'[c] \in Nat /\ received'[c] \in SUBSET Live!Ids
                             /\ missable'[c] \in SUBSET Live!Ids
      BY <1>3, <2>1, <2>2 DEF MessagesInv, MessagesTyped
    <3>2. /\ cursor' = [c \in Devices |-> cursor'[c]]
          /\ received' = [c \in Devices |-> received'[c]]
          /\ missable' = [c \in Devices |-> missable'[c]]
      BY <1>6 DEF Live!Deliver
    <3>3. QED BY <3>1, <3>2
  <2>4. MessagesTyped' BY <1>1, <1>2, <2>3 DEF MessagesInv, MessagesTyped
  <2>5. CursorSeen' BY <1>1, <1>3, <2>1 DEF MessagesInv, CursorSeen
  <2>6. \A c \in Devices : received[c] \subseteq received'[c] /\ missable[c] \subseteq missable'[c]
    BY <2>1
  <2>7. MovedPast'
    <3> SUFFICES ASSUME NEW c \in Devices, NEW m \in Live!Ids, m < cursor'[c]
                 PROVE  \/ m \in received'[c] \/ m \in missable'[c]
                        \/ m \notin docs /\ sending'[m] = "done"
      BY <1>1 DEF MovedPast
    <3>1. CASE client[c] \notin Live!Hearing
      <4>1. m < cursor[c] BY <2>1, <3>1
      <4>2. m = n => m \in docs BY <1>3
      <4>3. QED BY <1>2, <1>3, <2>6, <4>1, <4>2 DEF MessagesInv, MovedPast
    <3>2. CASE client[c] \in Live!Hearing
      <4>1. m < n /\ m # n BY <1>3, <2>1, <3>2
      <4>2. sending[m] # "none" BY <1>1, <4>1 DEF MessagesInv, SentInOrder
      <4>3. CASE sending[m] \in {"made", "stored"}
        BY <2>1, <3>2, <4>1, <4>3 DEF Live!Behind
      <4>4. CASE sending[m] = "done" /\ m \in docs
        <5>1. Live!PastReplay(c) BY <3>2, HearersArePast
        <5>2. QED BY <2>6, <4>4, <5>1 DEF MessagesInv, PastHas
      <4>5. CASE sending[m] = "done" /\ m \notin docs BY <1>2, <4>1, <4>5
      <4>6. QED BY <4>2, <4>3, <4>4, <4>5 DEF MessagesInv, MessagesTyped
    <3>3. QED BY <3>1, <3>2
  <2>8. PastHas'
    <3> SUFFICES ASSUME NEW c \in Devices, Live!PastReplay(c), NEW m \in docs, sending'[m] = "done"
                 PROVE  m \in received'[c] \/ m \in missable'[c]
      BY <1>1 DEF PastHas, Live!PastReplay
    <3>1. CASE m = n BY <2>1, <3>1
    <3>2. CASE m # n
      <4>1. sending[m] = "done" BY <1>2, <3>2 DEF MessagesInv, MessagesTyped
      <4>2. QED BY <2>6, <4>1 DEF MessagesInv, PastHas
    <3>3. QED BY <3>1, <3>2
  <2>9. QED BY <1>4, <1>5, <2>4, <2>5, <2>7, <2>8 DEF MessagesInv
<1>7. CASE Live!Unheard(n) /\ sending' = [sending EXCEPT ![n] = "done"]
           /\ UNCHANGED <<cursor, received>>
  <2>1. /\ missable' \in [Devices -> SUBSET Live!Ids]
        /\ \A c \in Devices : missable[c] \subseteq missable'[c]
                              /\ (Live!PastReplay(c) => n \in missable'[c])
    BY <1>7 DEF MessagesInv, MessagesTyped, Live!Unheard
  <2>2. MessagesTyped' BY <1>1, <1>2, <1>7, <2>1 DEF MessagesInv, MessagesTyped
  <2>3. CursorSeen' BY <1>1, <1>7 DEF MessagesInv, CursorSeen
  <2>4. MovedPast'
    BY <1>1, <1>2, <1>3, <1>7, <2>1 DEF MessagesInv, MovedPast
  <2>5. PastHas'
    <3> SUFFICES ASSUME NEW c \in Devices, Live!PastReplay(c), NEW m \in docs, sending'[m] = "done"
                 PROVE  m \in received[c] \/ m \in missable'[c]
      BY <1>1, <1>7 DEF PastHas, Live!PastReplay
    <3>1. CASE m = n BY <2>1, <3>1
    <3>2. CASE m # n
      <4>1. sending[m] = "done" BY <1>2, <3>2 DEF MessagesInv, MessagesTyped
      <4>2. QED BY <2>1, <4>1 DEF MessagesInv, PastHas
    <3>3. QED BY <3>1, <3>2
  <2>6. QED BY <1>4, <1>5, <2>2, <2>3, <2>4, <2>5 DEF MessagesInv
<1>8. QED BY <1>1, <1>6, <1>7

LEMMA SmallestOf ==
    ASSUME NEW S \in SUBSET Nat, S # {}
    PROVE  \E x \in S : \A y \in S : x <= y
<1>1. PICK x \in S : \A y \in S : ~(<<y, x>> \in OpToRel(<, Nat))
  BY NatLessThanWellFounded, WFMin
<1>2. \A y \in S : ~(y < x) BY <1>1 DEF OpToRel
<1>3. QED BY <1>2

LEMMA LastOf ==
    ASSUME MaxId \in Nat, NEW S \in SUBSET Live!Ids, S # {}
    PROVE  (CHOOSE n \in S : \A m \in S : m <= n) \in S
<1> DEFINE T == {MaxId - x : x \in S}
<1>0. \A x \in S : x \in Int /\ x >= 0 /\ x <= MaxId BY DEF Live!Ids
<1>1. T \in SUBSET Nat /\ T # {}
  <2>1. \A x \in S : MaxId - x \in Nat BY <1>0
  <2>2. QED BY <2>1
<1>2. PICK t \in T : \A y \in T : t <= y BY <1>1, SmallestOf
<1>3. PICK n \in S : t = MaxId - n BY <1>2
<1>4. \A m \in S : m <= n
  <2>1. \A m \in S : MaxId - n <= MaxId - m BY <1>2, <1>3
  <2>2. QED BY <1>0, <2>1
<1>5. QED BY <1>4

\* What a replay writes, and what it leaves out, is all that is stored.
LEMMA ReplayTells ==
    ASSUME StreamsInv, NamesApart, MessagesInv, MaxId \in Nat, NEW s \in Streams, Live!Replay(s)
    PROVE  MessagesInv'
<1> DEFINE c == stream[s].client  since == stream[s].since
           Written(ns) ==
               IF ~stream[s].alive THEN UNCHANGED <<cursor, received, missable>>
               ELSE /\ received' = [received EXCEPT ![c] = received[c] \cup ns]
                    /\ cursor' = IF ns = {} THEN cursor
                                 ELSE [cursor EXCEPT ![c] = CHOOSE n \in ns : \A m \in ns : m <= n]
                    /\ missable' = [missable EXCEPT ![c] =
                          missable[c] \cup (Live!Missed(since) \ ns)
                          \cup {n \in Live!Ids : /\ sending[n] # "none"
                                                 /\ \E m \in ns : n < m /\ n \notin docs}]
<1>1. /\ stream[s].at = "replay" /\ Live!Goto(s, "subscribe")
      /\ UNCHANGED <<docs, sending, client>>
  BY DEF Live!Replay, Live!SenderStays
<1>2. PICK ns \in {Live!listAfter(since), {}} : Written(ns)
  BY DEF Live!Replay
<1>3. ns \in SUBSET Live!Missed(since) /\ Live!Missed(since) \in SUBSET docs
      /\ docs \in SUBSET Live!Ids
      /\ \A n \in docs : n \in Live!Missed(since) <=> n > since
  BY <1>2 DEF Live!listAfter, Live!Missed, MessagesInv, MessagesTyped
<1>4. c \in Devices /\ since \in Nat BY <1>1 DEF StreamsInv, StreamsTyped, StreamRow
<1>5. /\ stream'[s].at = "subscribe"
      /\ \A t \in Streams \ {s} : stream'[t] = stream[t]
  BY <1>1, StreamGoes DEF StreamPlaces
<1>6. \A d \in Devices : client[d] = s => d = c /\ stream[s].alive
  BY DEF StreamsInv, TabsOwn, NamesApart
<1>7. SentInOrder' BY <1>1 DEF MessagesInv, SentInOrder
<1>8. CASE ~stream[s].alive
  <2>1. UNCHANGED <<cursor, received, missable>> BY <1>2, <1>8
  <2>2. \A d \in Devices : client[d] # s BY <1>6, <1>8
  <2>3. \A d \in Devices : Live!PastReplay(d)' => Live!PastReplay(d)
    BY <1>1, <1>5, <2>2 DEF StreamsInv, StreamsTyped, Live!PastReplay
  <2>4. SinceKept'
    BY <1>1, <1>5, <2>1, <2>2 DEF StreamsInv, StreamsTyped, MessagesInv, SinceKept
  <2>5. QED BY <1>1, <2>1, <2>3, <2>4, MessagesStay
<1>9. CASE stream[s].alive
  <2>1. client[c] = s BY <1>9 DEF StreamsInv, TabsOwn
  <2>2. since = cursor[c] BY <1>1, <1>4, <2>1 DEF MessagesInv, SinceKept, NamesApart
  <2> DEFINE more == (Live!Missed(since) \ ns)
                     \cup {n \in Live!Ids : /\ sending[n] # "none"
                                            /\ \E m \in ns : n < m /\ n \notin docs}
             last2 == CHOOSE n \in ns : \A m \in ns : m <= n
  <2>3. more \in SUBSET Live!Ids BY <1>3
  <2>4. ns # {} => last2 \in ns
    <3>1. ns \in SUBSET Live!Ids BY <1>3
    <3>2. QED BY <3>1, LastOf
  <2>5. /\ received' = [received EXCEPT ![c] = received[c] \cup ns]
        /\ cursor' = IF ns = {} THEN cursor ELSE [cursor EXCEPT ![c] = last2]
        /\ missable' = [missable EXCEPT ![c] = missable[c] \cup more]
    <3>1. missable[c] \cup more
            = missable[c] \cup (Live!Missed(since) \ ns)
              \cup {n \in Live!Ids : /\ sending[n] # "none"
                                     /\ \E m \in ns : n < m /\ n \notin docs}
      OBVIOUS
    <3>2. QED BY <1>2, <1>9, <3>1, Zenon
  <2>6. /\ \A n \in Live!Missed(since) : n \in ns \/ n \in more
        /\ \A n \in Live!Ids \ docs, m \in ns : sending[n] # "none" /\ n < m => n \in more
    OBVIOUS
  <2> HIDE DEF more, last2
  <2>7. /\ received'[c] = received[c] \cup ns /\ missable'[c] = missable[c] \cup more
        /\ cursor'[c] = IF ns = {} THEN cursor[c] ELSE last2
        /\ \A d \in Devices \ {c} : /\ received'[d] = received[d] /\ missable'[d] = missable[d]
                                    /\ cursor'[d] = cursor[d]
        /\ received' \in [Devices -> SUBSET Live!Ids] /\ missable' \in [Devices -> SUBSET Live!Ids]
        /\ cursor' \in [Devices -> Nat]
    <3>1. ns \in SUBSET Live!Ids /\ (ns # {} => last2 \in Nat)
      <4>1. ns \in SUBSET Live!Ids BY <1>3
      <4>2. Live!Ids \subseteq Nat BY DEF Live!Ids
      <4>3. QED BY <2>4, <4>1, <4>2
    <3>2. QED BY <1>4, <2>3, <2>5, <3>1 DEF MessagesInv, MessagesTyped
  <2>8. MessagesTyped' BY <1>1, <2>7 DEF MessagesInv, MessagesTyped
  <2>9. CursorSeen'
    BY <1>1, <1>3, <2>4, <2>7 DEF MessagesInv, CursorSeen
  \* All that is stored is received or listed.
  <2>10. \A n \in docs : n \in received'[c] \/ n \in missable'[c]
    <3> SUFFICES ASSUME NEW n \in docs PROVE n \in received'[c] \/ n \in missable'[c]
      OBVIOUS
    <3>1. n \in Live!Ids /\ n \in Nat /\ n # 0 BY <1>3 DEF Live!Ids
    <3>2. CASE n < since
      BY <1>4, <2>2, <2>7, <3>1, <3>2 DEF MessagesInv, MovedPast
    <3>3. CASE n = since
      BY <1>4, <2>2, <2>7, <3>1, <3>3 DEF MessagesInv, CursorSeen
    <3>4. CASE n > since
      BY <1>3, <2>6, <2>7, <3>4
    <3>5. QED BY <1>4, <3>1, <3>2, <3>3, <3>4
  <2>11. MovedPast'
    <3> SUFFICES ASSUME NEW d \in Devices, NEW n \in Live!Ids, n < cursor'[d]
                 PROVE  \/ n \in received'[d] \/ n \in missable'[d]
                        \/ n \notin docs /\ sending[n] = "done"
      BY <1>1 DEF MovedPast
    <3>1. CASE d # c BY <2>7, <3>1 DEF MessagesInv, MovedPast
    <3>2. CASE d = c /\ n \in docs BY <2>10, <3>2
    <3>3. CASE d = c /\ n \notin docs /\ ns = {}
      BY <2>7, <3>3 DEF MessagesInv, MovedPast
    <3>4. CASE d = c /\ n \notin docs /\ ns # {}
      <4>1. last2 \in ns /\ n < last2 BY <2>4, <2>7, <3>4
      <4>2. sending[last2] # "none" /\ last2 \in Live!Ids
        BY <1>3, <4>1 DEF MessagesInv, SentInOrder
      <4>3. sending[n] # "none" BY <4>1, <4>2 DEF MessagesInv, SentInOrder
      <4>4. QED BY <2>6, <2>7, <3>4, <4>1, <4>3
    <3>5. QED BY <3>1, <3>2, <3>3, <3>4
  <2>12. PastHas'
    <3> SUFFICES ASSUME NEW d \in Devices, Live!PastReplay(d)', NEW n \in docs, sending[n] = "done"
                 PROVE  n \in received'[d] \/ n \in missable'[d]
      BY <1>1 DEF PastHas
    <3>1. CASE d = c BY <2>10, <3>1
    <3>2. CASE d # c
      <4>1. client[d] # s BY <1>6, <3>2
      <4>2. Live!PastReplay(d)
        BY <1>1, <1>5, <4>1 DEF StreamsInv, StreamsTyped, Live!PastReplay
      <4>3. QED BY <2>7, <3>2, <4>2 DEF MessagesInv, PastHas
    <3>3. QED BY <3>1, <3>2
  <2>13. SinceKept'
    <3> SUFFICES ASSUME NEW d \in Devices, client[d] # NoToken, stream'[client[d]].at = "replay"
                 PROVE  stream'[client[d]].since = cursor'[d]
      BY <1>1 DEF SinceKept
    <3>1. client[d] # s BY <1>5
    <3>2. d # c BY <2>1, <3>1
    <3>3. stream'[client[d]] = stream[client[d]]
      BY <1>5, <3>1 DEF StreamsInv, StreamsTyped
    <3>4. QED BY <2>7, <3>2, <3>3 DEF MessagesInv, SinceKept
  <2>14. QED BY <1>7, <2>8, <2>9, <2>11, <2>12, <2>13 DEF MessagesInv
<1>10. QED BY <1>8, <1>9

LEMMA OthersTell ==
    ASSUME StreamsInv, NamesApart, MessagesInv,
           \/ \E c \in Devices : \/ Live!Leave(c)
                                 \/ \E s \in Streams, p \in Procs : Live!Connect(c, s, p)
           \/ \E s \in Streams : Live!Subscribe(s) \/ Live!Subscribed(s) \/ Live!Unsubscribe(s)
           \/ \E p \in Procs : Live!Crash(p)
    PROVE  MessagesInv'
<1>1. UNCHANGED <<docs, sending, cursor, received, missable>>
  BY
     DEF Live!Leave, Live!Connect, Live!Subscribe, Live!Subscribed, Live!Unsubscribe, Live!Crash,
         Live!SenderStays
\* A tab keeps its stream, which stays before or past its replay; or it has none, or a new one.
<1>2. \A d \in Devices :
         \/ client'[d] = NoToken
         \/ /\ client'[d] # NoToken /\ stream'[client'[d]].at = "replay"
            /\ stream'[client'[d]].since = cursor[d]
         \/ client'[d] = client[d] /\ stream'[client[d]] = stream[client[d]]
         \/ /\ client'[d] = client[d] /\ client[d] # NoToken
            /\ stream[client[d]].at \in {"subscribe", "subscribing"}
            /\ stream'[client[d]].at # "replay"
  <2>1. ASSUME NEW c \in Devices, Live!Leave(c), NEW d \in Devices
        PROVE  \/ client'[d] = NoToken
               \/ client'[d] = client[d] /\ stream'[client[d]] = stream[client[d]]
    <3> DEFINE s == client[c]
    <3>1. s \in Streams /\ client' = [client EXCEPT ![c] = NoToken]
      BY <2>1 DEF Live!Leave, StreamsInv, StreamsTyped
    <3>2. d # c /\ client[d] # NoToken => client[d] # s
      BY <3>1 DEF StreamsInv, TabsOwn, NamesApart
    <3>3. \A t \in Streams \ {s} : stream'[t] = stream[t]
      BY <2>1 DEF Live!Leave, StreamsInv, StreamsTyped
    <3> HIDE DEF s
    <3>4. QED BY <3>1, <3>2, <3>3 DEF StreamsInv, StreamsTyped
  <2>2. ASSUME NEW c \in Devices, NEW s \in Streams, NEW p \in Procs, Live!Connect(c, s, p),
               NEW d \in Devices
        PROVE  \/ client'[d] = NoToken
               \/ /\ client'[d] # NoToken /\ stream'[client'[d]].at = "replay"
                  /\ stream'[client'[d]].since = cursor[d]
               \/ client'[d] = client[d] /\ stream'[client[d]] = stream[client[d]]
    <3>1. /\ stream[s].at = "none" /\ client' = [client EXCEPT ![c] = s]
          /\ stream' = [stream EXCEPT ![s] = [at |-> "replay", proc |-> p, client |-> c,
                                              since |-> cursor[c], alive |-> TRUE]]
      BY <2>2 DEF Live!Connect, Live!Ended
    <3>2. CASE d = c
      BY <3>1, <3>2 DEF StreamsInv, StreamsTyped, NamesApart
    <3>3. CASE d # c
      <4>1. client'[d] = client[d] BY <3>1, <3>3 DEF StreamsInv, StreamsTyped
      <4>2. client[d] # NoToken => client[d] \in Streams \ {s}
        BY <3>1 DEF StreamsInv, StreamsTyped, TabsOwn
      <4>3. QED BY <3>1, <4>1, <4>2 DEF StreamsInv, StreamsTyped
    <3>4. QED BY <3>2, <3>3
  <2>3. ASSUME NEW s \in Streams, Live!Subscribe(s) \/ Live!Subscribed(s) \/ Live!Unsubscribe(s),
               NEW d \in Devices
        PROVE  \/ client'[d] = NoToken
               \/ client'[d] = client[d] /\ stream'[client[d]] = stream[client[d]]
               \/ /\ client'[d] = client[d] /\ client[d] # NoToken
                  /\ stream[client[d]].at \in {"subscribe", "subscribing"}
                  /\ stream'[client[d]].at # "replay"
    <3>1. /\ \A t \in Streams \ {s} : stream'[t] = stream[t]
          /\ stream'[s].at # "replay"
      <4>1. Live!End(s) \/ \E phase \in {"open", "subscribing"} : Live!Goto(s, phase)
        BY <2>3 DEF Live!Subscribe, Live!Subscribed, Live!Unsubscribe, Live!OverwriteHandler,
                    Live!SetHandler
      <4>2. CASE Live!End(s) BY <4>2, StreamEnds
      <4>3. ASSUME NEW phase \in {"open", "subscribing"}, Live!Goto(s, phase)
            PROVE  (\A t \in Streams \ {s} : stream'[t] = stream[t]) /\ stream'[s].at = phase
        BY <4>3, StreamGoes DEF StreamPlaces
      <4>4. QED BY <4>1, <4>2, <4>3
    <3>2. client'[d] = client[d] \/ client'[d] = NoToken
      BY <2>3 DEF Live!Subscribe, Live!Subscribed, Live!Unsubscribe, StreamsInv, StreamsTyped
    <3>3. client[d] = s => /\ stream[s].at \in {"subscribe", "subscribing"}
      BY <2>3
         DEF Live!Subscribe, Live!Subscribed, Live!Unsubscribe, StreamsInv, TabsOwn, NamesApart
    <3>4. client[d] \in Streams \cup {NoToken} BY DEF StreamsInv, StreamsTyped
    <3>5. QED BY <3>1, <3>2, <3>3, <3>4 DEF NamesApart
  <2>4. ASSUME NEW p \in Procs, Live!Crash(p), NEW d \in Devices
        PROVE  \/ client'[d] = NoToken
               \/ client'[d] = client[d] /\ stream'[client[d]] = stream[client[d]]
    <3> DEFINE dead == {s \in Streams : ~Live!Ended(s) /\ stream[s].proc = p}
    <3>1. /\ stream' = [s \in Streams |-> IF s \in dead THEN Live!NoStream ELSE stream[s]]
          /\ client' = [c \in Devices |-> IF client[c] \in dead THEN NoToken ELSE client[c]]
      BY <2>4 DEF Live!Crash
    <3> HIDE DEF dead
    <3>2. QED BY <3>1 DEF StreamsInv, StreamsTyped
  <2>5. QED BY <2>1, <2>2, <2>3, <2>4
<1>3. \A d \in Devices : Live!PastReplay(d)' => Live!PastReplay(d)
  BY <1>2 DEF Live!PastReplay
<1>4. SinceKept'
  BY <1>1, <1>2 DEF MessagesInv, SinceKept
<1>5. QED BY <1>1, <1>3, <1>4, MessagesStay

-----------------------------------------------------------------------------
(* The theorems.                                                           *)

LEMMA LiveNext ==
    ASSUME StreamsInv, MessagesInv, NamesApart, MaxId \in Nat, [Live!Next]_(Live!vars)
    PROVE  StreamsInv' /\ MessagesInv'
<1>1. ASSUME NEW n \in Live!Ids, Live!Send(n) PROVE StreamsInv' /\ MessagesInv'
  <2>1. UNCHANGED <<subscribed, handler, stream, client, shared>>
    BY <1>1 DEF Live!Send, Live!Make, Live!Store, Live!Publish, Live!StreamsStay
  <2>2. StreamsInv'
    BY <2>1
       DEF StreamsInv, StreamsTyped, SharedKnown, HandlersOwn, TabsOwn, Live!OpenStreamHears
  <2>3. QED BY <1>1, <2>2, MakeKeeps, StoreKeeps, PublishKeeps DEF Live!Send
<1>2. ASSUME NEW c \in Devices,
             Live!Leave(c) \/ \E s \in Streams, p \in Procs : Live!Connect(c, s, p)
      PROVE  StreamsInv' /\ MessagesInv'
  <2>1. cursor[c] \in Nat BY DEF MessagesInv, MessagesTyped
  <2>2. QED BY <1>2, <2>1, LeaveKeeps, ConnectKeeps, OthersTell
<1>3. ASSUME NEW s \in Streams, Live!Replay(s) PROVE StreamsInv' /\ MessagesInv'
  <2>1. /\ stream[s].at = "replay" /\ Live!Goto(s, "subscribe")
        /\ UNCHANGED <<subscribed, handler, client, shared>>
    BY <1>3 DEF Live!Replay
  <2>2. StreamsInv' BY <2>1, ReplayKeeps
  <2>3. QED BY <1>3, <2>2, ReplayTells
<1>4. ASSUME NEW s \in Streams, Live!Subscribe(s) \/ Live!Subscribed(s) \/ Live!Unsubscribe(s)
      PROVE  StreamsInv' /\ MessagesInv'
  BY <1>4, SubscribeKeeps, SubscribedKeeps, UnsubscribeKeeps, OthersTell
<1>5. ASSUME NEW p \in Procs, Live!Crash(p) PROVE StreamsInv' /\ MessagesInv'
  BY <1>5, CrashKeeps, OthersTell
<1>6. CASE UNCHANGED Live!vars
  <2>1. UNCHANGED <<docs, sending, subscribed, handler, stream, client, cursor, received,
                    shared, missable>>
    BY <1>6 DEF Live!vars
  <2>2. StreamsInv'
    BY <2>1
       DEF StreamsInv, StreamsTyped, SharedKnown, HandlersOwn, TabsOwn, Live!OpenStreamHears
  <2>3. MessagesInv'
    BY <2>1, MessagesStay DEF MessagesInv, SinceKept, Live!PastReplay
  <2>4. QED BY <2>2, <2>3
<1>7. QED
  BY <1>1, <1>2, <1>3, <1>4, <1>5, <1>6 DEF Live!Next, Live!Serve

LEMMA LiveTells == ASSUME StreamsInv, MessagesInv PROVE Live!StreamsTell
<1>1. Live!OnlyMissableLost
  BY DEF MessagesInv, MessagesTyped, MovedPast, Live!OnlyMissableLost
<1>2. QED BY <1>1 DEF StreamsInv, Live!StreamsTell

LEMMA LivePart == [Next2]_<<part, vars, liveVars, pushVars, userVars>> => [Live!Next]_(Live!vars)
BY DEF Next2, liveVars, Live!vars

\* An open stream is the one its process writes the user's messages to, unless it shared
\* the process with another stream of the user, and a tab that has moved past a message
\* has received it, but for what missable lists (NotificationService.sendNotification,
\* NotificationController.stream).
THEOREM StreamsHear == Spec2 => []Live!StreamsTell
<1> NamesApart /\ MaxId \in Nat BY DevicesAssumption DEF NamesApart
<1>1. Init2 => StreamsInv /\ MessagesInv BY StreamsInit, MessagesInit DEF Init2
<1>2. /\ StreamsInv /\ MessagesInv
      /\ [Next2]_<<part, vars, liveVars, pushVars, userVars>>
      => StreamsInv' /\ MessagesInv'
  BY LiveNext, LivePart
<1>3. StreamsInv /\ MessagesInv => Live!StreamsTell BY LiveTells
<1>4. QED BY <1>1, <1>2, <1>3, PTL DEF Spec2

\* The two together: what NotificationService sends is heard in the tabs and by the
\* devices that asked for pushes, but for the cases that the two name.
THEOREM SentIsAlwaysHeard == Spec2 => []SentIsHeard
BY StreamsHear, TokensFollowDevices, PTL DEF SentIsHeard
=============================================================================
