------------------------------- MODULE Billing -------------------------------
(***************************************************************************)
(* Subscriptions and payments: WebhookController, WebhookProcessingService *)
(* and SubscriptionService over the Postgres tables subscriptions,         *)
(* payment_histories and webhook_events.  A payment gateway (PG) sends     *)
(* events at least once; a request stores the event, answers 200 and goes  *)
(* on to process it, while users and administrators change the same rows.  *)
(* No handler runs in a transaction: every repository call is a step.      *)
(***************************************************************************)
EXTENDS Integers, Sequences, FiniteSets, FiniteSetsExt

CONSTANTS
    Users,
    Events,         \* idempotency keys of webhook_events
    Procs,          \* webhook requests and user requests in flight
    FreePlan,
    PaidPlans,
    GraceEnabled,   \* operationPolicy.grace.enabled
    Cycle,          \* BILLING_CYCLE_DAYS, in ticks
    Grace,          \* operationPolicy.grace.days, in ticks
    MaxNow,         \* bound: the clock stops here
    MaxSubs,        \* bound: rows of subscriptions per user
    MaxRequests     \* bound: requests of users and administrators

ASSUME PlansAssumption == FreePlan \notin PaidPlans
ASSUME GraceAssumption == GraceEnabled \in BOOLEAN
ASSUME TimeAssumption == Cycle \in Nat /\ Grace \in Nat /\ MaxNow \in Nat
ASSUME BoundsAssumption == MaxSubs \in Nat /\ MaxRequests \in Nat

VARIABLES
    now,
    subs,       \* subscriptions: the rows of each user, oldest first
    payments,   \* payment_histories: the event, the row of subscriptions and the operation
    scheduled,  \* the users for whom the PG has a recurring schedule
    sent,       \* the events the PG has sent, as it sends them
    webhook,    \* webhook_events: the status of each stored event
    credit,     \* the plan of the user's credit_balances row, if there is one
    runs,       \* history: how many handlers have run for each event
    given,      \* history: what was activated and extended, and for which event
    crossed,    \* history: rows written by one handler while another was still to write them
    proc,       \* what each handler is doing
    requests

rows == <<subs, payments, webhook, credit>>
gateway == <<scheduled, sent>>
history == <<runs, given, crossed>>
vars == <<now, rows, gateway, history, proc, requests>>

Plans == PaidPlans \cup {FreePlan}

Statuses == {"PENDING", "ACTIVE", "CANCELED", "EXPIRED"}

\* PAYMENT_READY stands for every event that changes nothing: READY, IGNORED,
\* an unknown type, a payload without a user.
EventTypes == {"PAYMENT_COMPLETED", "SUBSCRIPTION_RENEWED", "SUBSCRIPTION_CANCELED",
               "PAYMENT_FAILED", "PAYMENT_REFUNDED", "PAYMENT_READY"}
Requests == {"signup", "upgrade", "cancel", "grant"}
Steps == {"idle", "store", "findPending", "findActive", "findCanceled", "activate",
          "extend", "expire", "grace", "cancelCurrent", "create", "payment",
          "findFree", "createFree", "refill", "processed", "failed"}

Subscriptions == [plan : Plans, status : Statuses, start : Nat, end : Nat,
                  source : {"PAYMENT", "ADMIN_GRANT"}]

Messages == [event : Events, user : Users, type : EventTypes]

\* What an event did to a row; its type tells a payment's status: SUCCESS for
\* PAYMENT_COMPLETED and SUBSCRIPTION_RENEWED, FAILED, REFUNDED.
Deeds == [event : Events, user : Users, sub : Nat, op : EventTypes]

Frames == [step : Steps, op : EventTypes \cup Requests \cup {"none"},
           event : Events \cup {"none"}, user : Users \cup {"none"},
           sub : Nat,      \* index of the row found, 0 for none
           end : Nat,      \* its currentPeriodEnd when it was found, for a renewal
           plan : Plans]   \* plan to create or to refill

Idle == [step |-> "idle", op |-> "none", event |-> "none", user |-> "none",
         sub |-> 0, end |-> 0, plan |-> FreePlan]

Init ==
    /\ now = 0
    /\ subs = [u \in Users |-> << >>]
    /\ payments = {}
    /\ scheduled = {}
    /\ sent = {}
    /\ webhook = [e \in Events |-> "none"]
    /\ credit = [u \in Users |-> "none"]
    /\ runs = [e \in Events |-> 0] /\ given = {} /\ crossed = {}
    /\ proc = [p \in Procs |-> Idle]
    /\ requests = 0

-----------------------------------------------------------------------------
WithStatus(u, s) == {i \in DOMAIN subs[u] : subs[u][i].status = s}

\* findFirst with orderBy createdAt desc; 0 is null.
Latest(u, s) == IF WithStatus(u, s) = {} THEN 0 ELSE Max(WithStatus(u, s))

Begin(p, frame) == proc[p].step = "idle" /\ proc' = [proc EXCEPT ![p] = frame]

Goto(p, s) == proc' = [proc EXCEPT ![p].step = s]

IsWebhook(p) == proc[p].op \in EventTypes

\* process() marks the event when its handler returns or throws; a user's
\* request just ends.
Finish(p, s) ==
    proc' = [proc EXCEPT ![p] = IF IsWebhook(p)
                THEN [Idle EXCEPT !.step = s, !.op = proc[p].op, !.event = proc[p].event]
                ELSE Idle]
Return(p) == Finish(p, "processed")
Throw(p)  == Finish(p, "failed")

Found(p, i, s) ==
    proc' = [proc EXCEPT ![p].step = s, ![p].sub = i,
                         ![p].end = IF s = "extend" THEN subs[proc[p].user][i].end ELSE 0]

At(p, s) == proc[p].step = s

-----------------------------------------------------------------------------
(* The gateway and the controller.                                         *)

\* A payment is reported by one event or by several: Stripe has five types that
\* the resolver takes for PAYMENT_COMPLETED, each with a key of its own, and
\* every one is handled as a payment.
Completions(u) == {m \in sent : m.user = u /\ m.type = "PAYMENT_COMPLETED"}

\* What a gateway reports follows a purchase, and a refund a payment.
Plausible(m) ==
    /\ m.user \in scheduled
    /\ m.type = "PAYMENT_REFUNDED" => Completions(m.user) # {}
    /\ \A k \in sent : k.event = m.event => k = m

\* The gateway sends an event, again until it is answered.  A delivery of an
\* event that is stored is answered "duplicate" and changes nothing.
ReceiveWebhook(p, m) ==
    /\ Plausible(m)
    /\ webhook[m.event] = "none"
    /\ Begin(p, [Idle EXCEPT !.step = "store", !.op = m.type,
                             !.event = m.event, !.user = m.user])
    /\ sent' = sent \cup {m}
    /\ UNCHANGED <<now, rows, scheduled, history, requests>>

FirstStep(type) ==
    CASE type = "PAYMENT_COMPLETED" -> "findPending"
      [] type = "PAYMENT_READY"     -> "processed"
      [] OTHER                      -> "findActive"

StartHandler(p) ==
    /\ webhook' = [webhook EXCEPT ![proc[p].event] = "RECEIVED"]
    /\ runs' = [runs EXCEPT ![proc[p].event] = @ + 1]
    /\ Goto(p, FirstStep(proc[p].op))
    /\ UNCHANGED <<now, subs, payments, credit, gateway, given, crossed, requests>>

\* Mutant: no unique index behind the look-up of the key.
StoreEventAlways(p) == At(p, "store") /\ StartHandler(p)

\* The unique key rejects the second of two deliveries that both found none;
\* the gateway gets an error and the first one's handler goes on.
StoreEvent(p) ==
    /\ At(p, "store")
    /\ IF webhook[proc[p].event] = "none"
       THEN StartHandler(p)
       ELSE /\ proc' = [proc EXCEPT ![p] = Idle]
            /\ UNCHANGED <<now, rows, gateway, history, requests>>

MarkProcessed(p) ==
    /\ At(p, "processed")
    /\ webhook' = [webhook EXCEPT ![proc[p].event] = "PROCESSED"]
    /\ proc' = [proc EXCEPT ![p] = Idle]
    /\ UNCHANGED <<now, subs, payments, credit, gateway, history, requests>>

MarkFailed(p) ==
    /\ At(p, "failed")
    /\ webhook' = [webhook EXCEPT ![proc[p].event] = "FAILED"]
    /\ proc' = [proc EXCEPT ![p] = Idle]
    /\ UNCHANGED <<now, subs, payments, credit, gateway, history, requests>>

-----------------------------------------------------------------------------
(* Requests of users and administrators.                                   *)

Request(p, frame) ==
    /\ requests < MaxRequests
    /\ requests' = requests + 1
    /\ Begin(p, frame)
    /\ UNCHANGED <<now, rows, sent, history>>

BeginSignup(p, u) ==
    /\ Request(p, [Idle EXCEPT !.step = "findFree", !.op = "signup", !.user = u])
    /\ UNCHANGED scheduled

\* The schedule is registered before the upgrade is looked at, and stays when
\* the upgrade is refused or fails.
BeginRequest(p, op, u, plan) ==
    /\ op = "upgrade" => plan \in PaidPlans
    /\ op = "cancel" => plan = FreePlan     \* cancel has no plan
    /\ Request(p, [Idle EXCEPT !.step = "findActive", !.op = op, !.user = u, !.plan = plan])
    /\ scheduled' = IF op = "upgrade" THEN scheduled \cup {u} ELSE scheduled

\* The balance row is created by the first use of a credit feature.
UseCredits(u) ==
    /\ credit[u] = "none"
    /\ credit' = [credit EXCEPT ![u] = FreePlan]
    /\ UNCHANGED <<now, subs, payments, webhook, gateway, history, proc, requests>>

-----------------------------------------------------------------------------
(* Reads.                                                                  *)

\* A completed payment of a user without a PENDING row is a renewal.
FindPending(p) ==
    LET u == proc[p].user
        i == Latest(u, "PENDING") IN
    /\ At(p, "findPending")
    /\ IF i = 0
       THEN proc' = [proc EXCEPT ![p].step = "findActive", ![p].op = "SUBSCRIPTION_RENEWED"]
       ELSE proc' = [proc EXCEPT ![p].step = "activate", ![p].sub = i,
                                 ![p].plan = subs[u][i].plan]
    /\ UNCHANGED <<now, rows, gateway, history, requests>>

\* findActiveByUserId, and what each caller does with a row or with null.
FindActive(p) ==
    LET u == proc[p].user
        i == Latest(u, "ACTIVE")
        op == proc[p].op
        none == i = 0
        plan == subs[u][i].plan IN
    /\ At(p, "findActive")
    /\ CASE op = "SUBSCRIPTION_RENEWED" ->
              IF none THEN Return(p) ELSE Found(p, i, "extend")
         [] op = "SUBSCRIPTION_CANCELED" ->
              IF none THEN Goto(p, "findCanceled") ELSE Found(p, i, "expire")
         [] op = "PAYMENT_FAILED" ->
              IF none THEN Goto(p, "findFree") ELSE Found(p, i, "payment")
         [] op = "PAYMENT_REFUNDED" ->
              IF none THEN Goto(p, "findFree")
              ELSE IF plan = FreePlan THEN Goto(p, "findFree") ELSE Found(p, i, "expire")
         [] op = "cancel" ->
              IF none THEN Throw(p) ELSE Found(p, i, "cancelCurrent")
         [] op = "upgrade" ->
              IF none THEN Goto(p, "create")
              ELSE IF plan = proc[p].plan THEN Throw(p) ELSE Found(p, i, "cancelCurrent")
         [] OTHER ->
              IF none THEN Goto(p, "create") ELSE Found(p, i, "cancelCurrent")
    /\ UNCHANGED <<now, rows, gateway, history, requests>>

FindCanceled(p) ==
    LET i == Latest(proc[p].user, "CANCELED") IN
    /\ At(p, "findCanceled")
    /\ IF i = 0 THEN Goto(p, "findFree") ELSE Found(p, i, "expire")
    /\ UNCHANGED <<now, rows, gateway, history, requests>>

FindFree(p) ==
    /\ At(p, "findFree")
    /\ CASE Latest(proc[p].user, "ACTIVE") = 0 -> Goto(p, "createFree")
         [] proc[p].op = "signup"              -> Return(p)
         [] OTHER                              -> Goto(p, "refill")
    /\ UNCHANGED <<now, rows, gateway, history, requests>>

-----------------------------------------------------------------------------
(* Writes.  updateStatus writes the row it is given by id, whatever has    *)
(* happened to it since it was found.                                      *)

WillWrite(q) ==
    \/ proc[q].step \in {"activate", "extend", "expire", "grace", "cancelCurrent"}
    \/ proc[q].step = "payment" /\ proc[q].op = "PAYMENT_FAILED"

RowOf(p) == <<proc[p].user, proc[p].sub>>

Crosses(p) ==
    crossed' = IF \E q \in Procs \ {p} : WillWrite(q) /\ RowOf(q) = RowOf(p)
               THEN crossed \cup {RowOf(p)} ELSE crossed

\* The payment that is recorded next is the row's.
UpdateStatus(p, s, status, end, next) ==
    /\ At(p, s)
    /\ subs' = [subs EXCEPT ![proc[p].user][proc[p].sub].status = status,
                            ![proc[p].user][proc[p].sub].end = end]
    /\ proc' = [proc EXCEPT ![p].step = next, ![p].end = 0,
                            ![p].sub = IF next = "payment" THEN @ ELSE 0]
    /\ Crosses(p)
    /\ UNCHANGED <<now, payments, webhook, credit, gateway, runs, requests>>

RowEnd(p) == subs[proc[p].user][proc[p].sub].end

Deed(p) == [event |-> proc[p].event, user |-> proc[p].user, sub |-> proc[p].sub, op |-> proc[p].op]

Activate(p) ==
    /\ UpdateStatus(p, "activate", "ACTIVE", RowEnd(p), "payment")
    /\ given' = given \cup {Deed(p)}

\* Mutant: the new period begins now.
ExtendFromNow(p) ==
    /\ UpdateStatus(p, "extend", "ACTIVE", now + Cycle, "payment")
    /\ given' = given \cup {Deed(p)}

Extend(p) ==
    /\ UpdateStatus(p, "extend", "ACTIVE", proc[p].end + Cycle, "payment")
    /\ given' = given \cup {Deed(p)}

Expire(p) ==
    /\ UpdateStatus(p, "expire", "EXPIRED", RowEnd(p),
                    IF proc[p].op = "PAYMENT_REFUNDED" THEN "payment" ELSE "findFree")
    /\ UNCHANGED given

GrantGrace(p) ==
    /\ UpdateStatus(p, "grace", "CANCELED", now + Grace, "processed")
    /\ UNCHANGED given

\* A user's cancellation ends here (the gateway's schedule is cancelled next,
\* and an error of that call is only logged); a new plan goes on.
CancelCurrent(p) ==
    /\ At(p, "cancelCurrent")
    /\ subs' = [subs EXCEPT ![proc[p].user][proc[p].sub].status = "CANCELED"]
    /\ IF proc[p].op = "cancel" THEN Return(p)
       ELSE proc' = [proc EXCEPT ![p].step = "create", ![p].sub = 0]
    /\ Crosses(p)
    /\ UNCHANGED <<now, payments, webhook, credit, gateway, runs, given, requests>>

Append1(u, row) ==
    /\ Len(subs[u]) < MaxSubs
    /\ subs' = [subs EXCEPT ![u] = Append(@, row)]

CreatePlan(p) ==
    LET granted == proc[p].op = "grant" IN
    /\ At(p, "create")
    /\ Append1(proc[p].user,
          [plan |-> proc[p].plan, start |-> now, end |-> now + Cycle,
           status |-> IF granted THEN "ACTIVE" ELSE "PENDING",
           source |-> IF granted THEN "ADMIN_GRANT" ELSE "PAYMENT"])
    /\ IF granted THEN Goto(p, "refill") ELSE Return(p)
    /\ UNCHANGED <<now, payments, webhook, credit, gateway, history, requests>>

CreateFree(p) ==
    /\ At(p, "createFree")
    /\ Append1(proc[p].user, [plan |-> FreePlan, start |-> now, end |-> now + Cycle,
                              status |-> "ACTIVE", source |-> "PAYMENT"])
    /\ Goto(p, "refill")
    /\ UNCHANGED <<now, payments, webhook, credit, gateway, history, requests>>

AfterPayment(p) ==
    CASE proc[p].op = "PAYMENT_COMPLETED"    -> "refill"
      [] proc[p].op = "SUBSCRIPTION_RENEWED" -> "processed"
      [] proc[p].op = "PAYMENT_REFUNDED"     -> "findFree"
      [] OTHER -> IF GraceEnabled THEN "grace" ELSE "expire"

\* paymentHistoryRepo.create; every event here has an amount.  The key of the
\* row is unique and no event has it twice: each is handled once.
RecordPayment(p) ==
    /\ At(p, "payment")
    /\ payments' = payments \cup {Deed(p)}
    /\ proc' = [proc EXCEPT ![p].step = AfterPayment(p),
                            ![p].sub = IF proc[p].op = "PAYMENT_FAILED" THEN @ ELSE 0]
    /\ UNCHANGED <<now, subs, webhook, credit, gateway, history, requests>>

\* creditService.refill: without a balance row its update throws.
Refill(p) ==
    LET u == proc[p].user IN
    /\ At(p, "refill")
    /\ IF credit[u] = "none"
       THEN Throw(p) /\ UNCHANGED credit
       ELSE /\ credit' = [credit EXCEPT ![u] = proc[p].plan]
            /\ Return(p)
    /\ UNCHANGED <<now, subs, payments, webhook, gateway, history, requests>>

-----------------------------------------------------------------------------
(* Failures and time.                                                      *)

\* Mutant: the error of a handler is logged and its event marked PROCESSED.
SwallowError(p) ==
    /\ proc[p].step # "idle"
    /\ IF proc[p].step \in {"store", "failed"}
       THEN proc' = [proc EXCEPT ![p] = Idle]
       ELSE Return(p)
    /\ UNCHANGED <<now, rows, gateway, history, requests>>

\* The awaited statement is rejected.  An error of the PROCESSED update is
\* caught like one of the handler; an error of the FAILED update is logged;
\* one before the event is stored is answered with an error status.
DatabaseError(p) ==
    /\ proc[p].step # "idle"
    /\ IF proc[p].step \in {"store", "failed"}
       THEN proc' = [proc EXCEPT ![p] = Idle]
       ELSE Throw(p)
    /\ UNCHANGED <<now, rows, gateway, history, requests>>

\* The process dies; the event was answered 200 and nobody looks for it.
Crash(p) ==
    /\ proc[p].step # "idle"
    /\ proc' = [proc EXCEPT ![p] = Idle]
    /\ UNCHANGED <<now, rows, gateway, history, requests>>

\* A tick is days long, a handler seconds: none is running when it comes.
Tick ==
    /\ now < MaxNow
    /\ \A p \in Procs : At(p, "idle")
    /\ now' = now + 1
    /\ UNCHANGED <<rows, gateway, history, proc, requests>>

Handle(p) ==
    \/ StoreEvent(p) \/ FindPending(p) \/ FindActive(p) \/ FindCanceled(p) \/ FindFree(p)
    \/ Activate(p) \/ Extend(p) \/ Expire(p) \/ GrantGrace(p) \/ CancelCurrent(p)
    \/ CreatePlan(p) \/ CreateFree(p) \/ RecordPayment(p) \/ Refill(p)
    \/ MarkProcessed(p) \/ MarkFailed(p)

Next ==
    \/ \E p \in Procs, m \in Messages : ReceiveWebhook(p, m)
    \/ \E p \in Procs, u \in Users : BeginSignup(p, u)
    \/ \E p \in Procs, op \in Requests \ {"signup"}, u \in Users, plan \in Plans :
          BeginRequest(p, op, u, plan)
    \/ \E p \in Procs : Handle(p) \/ DatabaseError(p) \/ Crash(p)
    \/ \E u \in Users : UseCredits(u)
    \/ Tick

Spec == Init /\ [][Next]_vars

-----------------------------------------------------------------------------
(* Properties.                                                             *)

\* Type invariant of the tables, the gateway and the handlers in flight.
TypeOK ==
    /\ now \in Nat
    /\ subs \in [Users -> Seq(Subscriptions)]
    /\ payments \subseteq Deeds /\ given \subseteq Deeds
    /\ crossed \subseteq Users \X Nat
    /\ scheduled \subseteq Users
    /\ sent \subseteq Messages
    /\ webhook \in [Events -> {"none", "RECEIVED", "PROCESSED", "FAILED"}]
    /\ credit \in [Users -> Plans \cup {"none"}]
    /\ runs \in [Events -> Nat]
    /\ proc \in [Procs -> Frames]
    /\ requests \in Nat

\* Whatever the gateway delivers, and however its deliveries overlap, one
\* handler runs for an event (PAYMENT_SYSTEM_FLOW.md, idempotency).
HandledOnce == \A e \in Events : runs[e] <= 1

BoughtAndStarted(u) ==
    {i \in DOMAIN subs[u] : /\ subs[u][i].source = "PAYMENT"
                            /\ subs[u][i].plan \in PaidPlans
                            /\ subs[u][i].status # "PENDING"}

Of(deeds, u, i, op) == {d \in deeds : d.user = u /\ d.sub = i /\ d.op = op}

\* A period ends one cycle after its start and one more for each extension, or is a
\* grace period: the one of a row that a failed payment has ended.
PeriodFits(u, i) ==
    LET row == subs[u][i] IN
    \/ row.end = row.start + Cycle * (1 + Cardinality(Of(given, u, i, "SUBSCRIPTION_RENEWED")))
    \/ Of(payments, u, i, "PAYMENT_FAILED") # {} /\ row.status \in {"CANCELED", "EXPIRED"}

\* A row that no two handlers wrote at once was activated once, ends when what was
\* given says, and is over once its refund is in the books.
RowFits(u, i) ==
    /\ Cardinality(Of(given, u, i, "PAYMENT_COMPLETED")) <= 1
    /\ PeriodFits(u, i)
    /\ Of(payments, u, i, "PAYMENT_REFUNDED") # {} => subs[u][i].status = "EXPIRED"

\* The books and the plans agree, although a handler writes a row, its payment and
\* its event in three statements, and writes a row that it read before.  What a PROCESSED
\* event activated or extended is in the books; the books have no payment that gave
\* nothing; a bought plan starts only for a completed event of the gateway; and every
\* row fits what was given and refunded for it, unless two handlers crossed: one wrote
\* it while another had found it and was still to write it (so a renewal revives a row
\* that has ended, and of two renewals one is lost).
BooksFitPlans ==
    /\ \A d \in given \ payments : webhook[d.event] # "PROCESSED"
    /\ \A d \in payments : d.op \in {"PAYMENT_COMPLETED", "SUBSCRIPTION_RENEWED"} => d \in given
    /\ \A u \in Users :
          /\ \A i \in BoughtAndStarted(u) : Of(given, u, i, "PAYMENT_COMPLETED") # {}
          /\ \A i \in DOMAIN subs[u] : <<u, i>> \in crossed \/ RowFits(u, i)
=============================================================================
