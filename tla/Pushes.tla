-------------------------------- MODULE Pushes --------------------------------
(***************************************************************************)
(* The push tokens of one user's devices: NotificationService keeps them   *)
(* in a Redis set that lives for a time after the last registration, sends *)
(* a push to those it reads there and takes out the ones that FCM no       *)
(* longer knows.  A registration is two commands, each request is retried  *)
(* as a whole, and a failed attempt may have had its effect.               *)
(***************************************************************************)
EXTENDS Naturals

CONSTANTS
    Devices,        \* each stands for its token
    Requests,       \* the requests that may be handled at once
    Lifetime,       \* 60 days, in ticks
    MaxRequests,    \* bound on the requests made
    MaxTicks,       \* bound on the time
    MaxFaults       \* bound on failed attempts and deaths

VARIABLES
    tokens,     \* the set in Redis
    life,       \* ticks the set has left, Forever without an expiry
    gone,       \* devices that FCM no longer knows
    req,        \* per request, what it does
    push,       \* the push being sent
    made, ticks, faults,
    standing,   \* history: per device, how its last request was answered
    crossed,    \* history: devices with two requests at once, or with one the
                \* set's end came upon between its commands
    unaged      \* history: a registration was given up

vars == <<tokens, life, gone, req, push, made, ticks, faults, standing, crossed, unaged>>

Forever == Lifetime + 1
NoRequest == [op |-> "none", device |-> "none", step |-> "none"]
NoPush == [step |-> "none", to |-> {}, failed |-> {}]

Init ==
    /\ tokens = {} /\ life = 0 /\ gone = {}
    /\ req = [q \in Requests |-> NoRequest] /\ push = NoPush
    /\ made = 0 /\ ticks = 0 /\ faults = 0
    /\ standing = [d \in Devices |-> "off"] /\ crossed = {} /\ unaged = FALSE

-----------------------------------------------------------------------------
(* Redis.  A set that becomes empty is gone, and one that is made anew has *)
(* no expiry.                                                              *)

Sadd(d) ==
    /\ tokens' = tokens \cup {d}
    /\ life' = IF tokens = {} THEN Forever ELSE life
Expire == life' = (IF tokens = {} THEN 0 ELSE Lifetime) /\ UNCHANGED tokens
Srem(ds) ==
    /\ tokens' = tokens \ ds
    /\ life' = IF tokens \ ds = {} THEN 0 ELSE life

Halfway == {q \in Requests : req[q].step = "expire"}
Tick ==
    /\ ticks < MaxTicks /\ ticks' = ticks + 1
    /\ LET over == life = 1
       IN  /\ life' = IF life \in {0, Forever} THEN life ELSE life - 1
           /\ tokens' = IF over THEN {} ELSE tokens
           /\ standing' = IF over THEN [d \in Devices |-> IF standing[d] = "on" THEN "lapsed"
                                                          ELSE standing[d]]
                          ELSE standing
           /\ crossed' = IF over THEN crossed \cup {req[q].device : q \in Halfway} ELSE crossed
    /\ UNCHANGED <<gone, req, push, made, faults, unaged>>

-----------------------------------------------------------------------------
(* registerDeviceToken and unregisterDeviceToken.                          *)

FirstStep(op) == IF op = "register" THEN "sadd" ELSE "srem"
Ask(q, d, op) ==
    /\ req[q] = NoRequest /\ made < MaxRequests /\ made' = made + 1
    /\ d \notin gone
    /\ req' = [req EXCEPT ![q] = [op |-> op, device |-> d, step |-> FirstStep(op)]]
    /\ standing' = [standing EXCEPT ![d] = "open"]
    /\ crossed' = IF \E p \in Requests : req[p] # NoRequest /\ req[p].device = d THEN crossed \cup {d}
                  ELSE crossed \ {d}
    /\ UNCHANGED <<tokens, life, gone, push, ticks, faults, unaged>>

\* What the command of a request does to the set.
Command(q) ==
    \/ req[q].step = "sadd" /\ Sadd(req[q].device)
    \/ req[q].step = "expire" /\ Expire
    \/ req[q].step = "srem" /\ Srem({req[q].device})

Answered(q) ==
    /\ req' = [req EXCEPT ![q] = NoRequest]
    /\ standing' = [standing EXCEPT ![req[q].device] =
                      IF req[q].op = "register" THEN "on" ELSE "off"]
\* Mutant: the set's lifetime is not renewed.
AnswerAtOnce(q) == Answered(q)
Advance(q) ==
    IF req[q].step = "sadd"
      THEN req' = [req EXCEPT ![q].step = "expire"] /\ UNCHANGED standing
      ELSE Answered(q)

Run(q) ==
    /\ Command(q) /\ Advance(q)
    /\ UNCHANGED <<gone, push, made, ticks, faults, crossed, unaged>>

\* An attempt fails, with its effect or without.  withRetry begins again with the
\* first command; or no try is left, or the process dies, and nobody is answered.
Fault(q, again) ==
    /\ req[q] # NoRequest /\ faults < MaxFaults /\ faults' = faults + 1
    /\ Command(q) \/ UNCHANGED <<tokens, life>>
    /\ req' = [req EXCEPT ![q] = IF again THEN [@ EXCEPT !.step = FirstStep(req[q].op)]
                                 ELSE NoRequest]
    /\ unaged' = (unaged \/ (req[q].op = "register" /\ ~again))
    /\ UNCHANGED <<gone, push, made, ticks, standing, crossed>>

-----------------------------------------------------------------------------
(* sendFcmPushNotification.                                                *)

ReadTokens ==
    /\ push = NoPush /\ tokens # {}
    /\ push' = [NoPush EXCEPT !.step = "send", !.to = tokens]
    /\ UNCHANGED <<tokens, life, gone, req, made, ticks, faults, standing, crossed, unaged>>

\* Mutant: every token that failed is taken out.
AllFailed(to, busy) == (to \cap gone) \cup busy
\* Of the tokens that failed, those that FCM does not know; busy ones stay.
FailedTokens(to, busy) == to \cap gone

Multicast ==
    /\ push.step = "send"
    /\ \E busy \in SUBSET (push.to \ gone) :
          LET failed == FailedTokens(push.to, busy)
          IN  push' = IF failed = {} THEN NoPush
                      ELSE [push EXCEPT !.step = "clean", !.failed = failed]
    /\ UNCHANGED <<tokens, life, gone, req, made, ticks, faults, standing, crossed, unaged>>

Clean ==
    /\ push.step = "clean" /\ Srem(push.failed) /\ push' = NoPush
    /\ UNCHANGED <<gone, req, made, ticks, faults, standing, crossed, unaged>>

\* The push is given up, logged, and nothing else stops for it.
GiveUp ==
    /\ push # NoPush /\ push' = NoPush
    /\ UNCHANGED <<tokens, life, gone, req, made, ticks, faults, standing, crossed, unaged>>

\* The app is removed: FCM never knows the token again.
Uninstall(d) ==
    /\ d \notin gone /\ gone' = gone \cup {d}
    /\ UNCHANGED <<tokens, life, req, push, made, ticks, faults, standing, crossed, unaged>>

Next ==
    \/ Tick \/ ReadTokens \/ Multicast \/ Clean \/ GiveUp
    \/ \E q \in Requests :
          \/ Run(q) \/ \E again \in BOOLEAN : Fault(q, again)
          \/ \E d \in Devices, op \in {"register", "unregister"} : Ask(q, d, op)
    \/ \E d \in Devices : Uninstall(d)

Spec == Init /\ [][Next]_vars

-----------------------------------------------------------------------------
\* A device whose registration was answered is in the set that pushes are sent to,
\* as long as FCM knows it and the set lives, whatever failed for it or for others;
\* one whose removal was answered is not; and the set lives on without end only
\* while a device registers or after a registration was given up.  Two requests of one
\* device at once may leave it either way, and the set may end between the two
\* commands of a registration.
PushesFollowDevices ==
    /\ \A d \in Devices \ crossed :
          /\ standing[d] = "on" /\ d \notin gone => d \in tokens
          /\ standing[d] = "off" => d \notin tokens
    /\ life = Forever => unaged \/ \E q \in Requests : req[q].op = "register"
=============================================================================
