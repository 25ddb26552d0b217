---------------------------- MODULE Billing_proofs ----------------------------
(***************************************************************************)
(* Proofs about Billing for any users, events, handlers, plans and bounds: *)
(* its type invariant, that an event has one handler, and that the books   *)
(* fit the plans.                                                          *)
(***************************************************************************)
EXTENDS Billing, FiniteSetTheorems, WellFoundedInduction, TLAPS

-----------------------------------------------------------------------------
(* The inductive invariant: what a handler knows.                          *)

Successes == {"PAYMENT_COMPLETED", "SUBSCRIPTION_RENEWED"}

Working(p) == proc[p].step \notin {"idle", "processed", "failed"}

\* A handler of a stored event.
Handling(p) == proc[p].op \in EventTypes /\ proc[p].step \notin {"idle", "store"}

\* One that may still activate or extend a row.
Giving(p) ==
    /\ Handling(p) /\ proc[p].op \in Successes
    /\ proc[p].step \in {"findPending", "activate", "findActive", "extend"}

Row(p) == subs[proc[p].user][proc[p].sub]

\* What its step says of what it is doing.
Known(p) ==
    /\ Working(p) => proc[p].user \in Users
    /\ proc[p].op \in EventTypes => proc[p].event \in Events
    /\ proc[p].step \in {"store", "processed", "failed"} => proc[p].op \in EventTypes
    /\ proc[p].step \in {"findPending", "activate"} => proc[p].op = "PAYMENT_COMPLETED"
    /\ proc[p].step = "findActive" =>
          proc[p].op \in Requests \cup (EventTypes \ {"PAYMENT_COMPLETED", "PAYMENT_READY"})
    /\ proc[p].step = "extend" => proc[p].op = "SUBSCRIPTION_RENEWED"
    /\ proc[p].step = "grace" => proc[p].op = "PAYMENT_FAILED"
    /\ proc[p].step \in {"cancelCurrent", "create"} => proc[p].op \in Requests
    /\ proc[p].step = "payment" =>
          proc[p].op \in Successes \cup {"PAYMENT_REFUNDED", "PAYMENT_FAILED"}

\* The row it will write, or has written and records the payment of, is there.
RowKnown(p) ==
    /\ WillWrite(p) \/ proc[p].step = "payment" => proc[p].sub \in DOMAIN subs[proc[p].user]
    /\ WillWrite(p) /\ proc[p].step # "activate" => Row(p).status # "PENDING"

\* That row is as it was found, unless another handler crossed this one.
Fresh(p) ==
    RowOf(p) \notin crossed =>
        /\ proc[p].step = "activate" => Row(p).status = "PENDING"
        /\ proc[p].step = "extend" => Row(p).status = "ACTIVE" /\ Row(p).end = proc[p].end
        /\ \/ proc[p].step \in {"grace", "cancelCurrent"}
           \/ proc[p].step = "payment" /\ proc[p].op = "PAYMENT_FAILED"
           => Row(p).status = "ACTIVE"
        /\ proc[p].step = "expire" => Row(p).status \in {"ACTIVE", "CANCELED"}
        /\ proc[p].step = "payment" /\ proc[p].op = "PAYMENT_REFUNDED"
           => Row(p).status = "EXPIRED"

\* It gives once, and before it records the payment; a grace period follows a failed one.
Gift(p) ==
    /\ proc[p].step = "payment" /\ proc[p].op \in Successes => Deed(p) \in given
    /\ Giving(p) => \A d \in given : d.event # proc[p].event
    /\ proc[p].step = "grace" => Of(payments, proc[p].user, proc[p].sub, "PAYMENT_FAILED") # {}

Received(p) == Handling(p) => webhook[proc[p].event] = "RECEIVED"

FrameOK(p) == Known(p) /\ RowKnown(p) /\ Fresh(p) /\ Gift(p) /\ Received(p)

FramesOK == \A p \in Procs : FrameOK(p)

-----------------------------------------------------------------------------
(* The inductive invariant: events, rows and books.                        *)

StoredFirst == \A e \in Events : runs[e] <= 1 /\ (webhook[e] = "none" => runs[e] = 0)

OneAtWork ==
    \A p, q \in Procs :
       Handling(p) /\ Handling(q) /\ proc[p].event = proc[q].event => p = q

RowOK(u, i) ==
    /\ subs[u][i].status = "PENDING" => Of(given, u, i, "PAYMENT_COMPLETED") = {}
    /\ i \in BoughtAndStarted(u) => Of(given, u, i, "PAYMENT_COMPLETED") # {}
    /\ <<u, i>> \in crossed \/ RowFits(u, i)

RowsOK == \A u \in Users : \A i \in DOMAIN subs[u] : RowOK(u, i)

\* What was done was done to rows, for stored events.
DeedsOK ==
    /\ IsFiniteSet(given)
    /\ \A d \in given \cup payments : d.sub \in DOMAIN subs[d.user]
    /\ \A d \in given : webhook[d.event] # "none"

\* What is not in the books is about to be, or its handler has failed or died.
Unbooked(d) ==
    /\ webhook[d.event] # "PROCESSED"
    /\ \A p \in Procs : Handling(p) /\ proc[p].event = d.event =>
          proc[p].step = "failed" \/ (proc[p].step = "payment" /\ Deed(p) = d)

BooksOK ==
    /\ \A d \in given \ payments : Unbooked(d)
    /\ \A d \in payments : d.op \in Successes => d \in given

BillingInv ==
    /\ TypeOK /\ StoredFirst
    /\ FramesOK /\ OneAtWork
    /\ RowsOK /\ DeedsOK /\ BooksOK

-----------------------------------------------------------------------------
(* The latest of some rows.                                                *)

LEMMA SmallestOf ==
    ASSUME NEW S \in SUBSET Nat, S # {}
    PROVE  \E x \in S : \A y \in S : x <= y
<1>1. PICK x \in S : \A y \in S : ~(<<y, x>> \in OpToRel(<, Nat))
  BY NatLessThanWellFounded, WFMin
<1>2. \A y \in S : ~(y < x) BY <1>1 DEF OpToRel
<1>3. QED BY <1>2

LEMMA MaxIn ==
    ASSUME NEW n \in Nat, NEW S \in SUBSET (1..n), S # {}
    PROVE  Max(S) \in S
<1> DEFINE T == {n - x : x \in S}
<1>0. \A x \in S : x \in Int /\ x >= 0 /\ x <= n OBVIOUS
<1>1. T \in SUBSET Nat /\ T # {}
  <2>1. \A x \in S : n - x \in Nat BY <1>0
  <2>2. QED BY <2>1
<1>2. PICK t \in T : \A y \in T : t <= y BY <1>1, SmallestOf
<1>3. PICK x \in S : t = n - x BY <1>2
<1>4. \A y \in S : n - y \in T BY DEF T
<1>5. \A y \in S : x >= y BY <1>0, <1>2, <1>3, <1>4
<1>6. QED BY <1>5 DEF Max

\* findFirst finds a row of the status it looks for, or none.
LEMMA LatestFound ==
    ASSUME TypeOK, NEW u \in Users, NEW s \in Statuses
    PROVE  /\ Latest(u, s) \in Nat
           /\ Latest(u, s) # 0 =>
                /\ Latest(u, s) \in DOMAIN subs[u]
                /\ subs[u][Latest(u, s)] \in Subscriptions
                /\ subs[u][Latest(u, s)].status = s
<1>1. subs[u] \in Seq(Subscriptions) /\ Len(subs[u]) \in Nat BY DEF TypeOK
<1>2. DOMAIN subs[u] = 1..Len(subs[u]) BY <1>1
<1>3. CASE WithStatus(u, s) = {} BY <1>3 DEF Latest
<1>4. CASE WithStatus(u, s) # {}
  <2>1. WithStatus(u, s) \in SUBSET (1..Len(subs[u])) BY <1>2 DEF WithStatus
  <2>2. Max(WithStatus(u, s)) \in WithStatus(u, s) BY <1>1, <1>4, <2>1, MaxIn
  <2>3. Latest(u, s) \in WithStatus(u, s) BY <1>4, <2>2 DEF Latest
  <2>4. Latest(u, s) \in 1..Len(subs[u]) /\ subs[u][Latest(u, s)].status = s
    BY <2>1, <2>3 DEF WithStatus
  <2>5. QED BY <1>1, <1>2, <2>4
<1>5. QED BY <1>3, <1>4

-----------------------------------------------------------------------------
(* What a step of one handler leaves to the others.                        *)

\* Only p moves.
Moves(p) == proc' \in [Procs -> Frames] /\ \A q \in Procs : q # p => proc'[q] = proc[q]

\* A row changes only when p writes it, which crosses whoever else is to write it.
Writes(p) ==
    \A u \in Users, i \in Nat : i \in DOMAIN subs[u] =>
        /\ i \in DOMAIN subs'[u]
        /\ subs[u][i].status # "PENDING" => subs'[u][i].status # "PENDING"
        /\ \/ subs'[u][i] = subs[u][i]
           \/ /\ WillWrite(p) /\ RowOf(p) = <<u, i>>
              /\ \A q \in Procs : q # p /\ WillWrite(q) /\ RowOf(q) = <<u, i>>
                    => <<u, i>> \in crossed'

\* Histories and books grow, and what p gives and marks is its own event's.
Marks(p) ==
    /\ crossed \subseteq crossed' /\ payments \subseteq payments' /\ given \subseteq given'
    /\ \A d \in given' : d \in given \/ (Handling(p) /\ d.event = proc[p].event)
    /\ \A e \in Events :
          \/ webhook'[e] = webhook[e]
          \/ webhook[e] = "none" /\ webhook'[e] # "PROCESSED"
          \/ Handling(p) /\ e = proc[p].event /\ webhook'[e] # "none"

\* p goes on handling its event, or begins with one that was not stored.
Begins(p) ==
    Handling(p)' =>
       \/ Handling(p) /\ proc'[p].event = proc[p].event
       \/ webhook[proc'[p].event] = "none"

LEMMA FrameTyped ==
    ASSUME TypeOK, NEW p \in Procs
    PROVE  proc[p] \in Frames /\ proc[p].sub \in Nat /\ proc[p].end \in Nat
           /\ proc[p].plan \in Plans /\ proc[p].step \in Steps
BY DEF TypeOK, Frames

LEMMA WriterWorks ==
    ASSUME NEW p \in Procs, FrameOK(p), WillWrite(p) \/ proc[p].step = "payment"
    PROVE  proc[p].user \in Users /\ proc[p].sub \in DOMAIN subs[proc[p].user]
BY DEF FrameOK, Known, RowKnown, Working, WillWrite

\* A handler that is to write a row which nobody crossed has not seen it expire.
LEMMA WriterSees ==
    ASSUME NEW p \in Procs, FrameOK(p), WillWrite(p), RowOf(p) \notin crossed
    PROVE  Row(p).status # "EXPIRED"
BY DEF FrameOK, Fresh, WillWrite

LEMMA OtherKept ==
    ASSUME BillingInv, NEW p \in Procs, NEW q \in Procs, q # p, Moves(p), Writes(p), Marks(p)
    PROVE  FrameOK(q)'
<1> DEFINE u == proc[q].user
           i == proc[q].sub
<1>1. /\ proc'[q] = proc[q] /\ proc[q] \in Frames /\ i \in Nat
      /\ FrameOK(q) /\ FrameOK(p)
  BY FrameTyped DEF Moves, BillingInv, FramesOK
<1>2. Known(q)' BY <1>1 DEF FrameOK, Known, Working
<1>3. ASSUME WillWrite(q) \/ proc[q].step = "payment"
      PROVE  u \in Users /\ i \in DOMAIN subs[u] /\ i \in DOMAIN subs'[u]
  <2>1. u \in Users /\ i \in DOMAIN subs[u] BY <1>1, <1>3, WriterWorks
  <2>2. QED BY <1>1, <2>1 DEF Writes
<1>4. RowKnown(q)'
  <2>1. WillWrite(q)' <=> WillWrite(q) BY <1>1 DEF WillWrite
  <2>2. ASSUME WillWrite(q), proc[q].step # "activate" PROVE subs'[u][i].status # "PENDING"
    <3>1. subs[u][i].status # "PENDING" BY <1>1, <2>2 DEF FrameOK, RowKnown, Row
    <3>2. QED BY <1>1, <1>3, <2>2, <3>1 DEF Writes
  <2>3. QED BY <1>1, <1>3, <2>1, <2>2 DEF RowKnown, Row
<1>5. Fresh(q)'
  <2> DEFINE writer == WillWrite(q) \/ (proc[q].step = "payment" /\ proc[q].op = "PAYMENT_REFUNDED")
  <2>1. RowOf(q)' = <<u, i>> /\ RowOf(q) = <<u, i>> BY <1>1 DEF RowOf
  <2>2. ASSUME RowOf(q)' \notin crossed', writer
        PROVE  subs'[u][i] = subs[u][i] /\ RowOf(q) \notin crossed
    <3>1. RowOf(q) \notin crossed BY <2>1, <2>2 DEF Marks
    <3>2. u \in Users /\ i \in DOMAIN subs[u] BY <1>3, <2>2
    <3>3. CASE WillWrite(q) BY <1>1, <2>1, <2>2, <3>1, <3>2, <3>3 DEF Writes
    <3>4. CASE ~WillWrite(q)
      <4>1. Row(q).status = "EXPIRED" BY <1>1, <2>2, <3>1, <3>4 DEF FrameOK, Fresh
      <4>2. ~(WillWrite(p) /\ RowOf(p) = <<u, i>>)
        BY <1>1, <2>1, <3>1, <4>1, WriterSees DEF Row, RowOf
      <4>3. QED BY <1>1, <3>1, <3>2, <4>2 DEF Writes
    <3>5. QED BY <3>3, <3>4
  <2>3. CASE writer /\ RowOf(q)' \notin crossed'
    <3>1. Fresh(q) /\ Row(q)' = Row(q) /\ RowOf(q) \notin crossed
      BY <1>1, <2>2, <2>3 DEF FrameOK, Row
    <3>2. QED BY <1>1, <3>1 DEF Fresh
  <2>4. CASE ~writer BY <1>1, <2>4 DEF Fresh, WillWrite
  <2>5. CASE RowOf(q)' \in crossed' BY <2>5 DEF Fresh
  <2>6. QED BY <2>3, <2>4, <2>5
\* The events that p and q handle are two.
<1>6. Handling(q) =>
        /\ proc[q].event \in Events /\ webhook[proc[q].event] = "RECEIVED"
        /\ ~(Handling(p) /\ proc[p].event = proc[q].event)
  <2>1. Handling(q) => proc[q].event \in Events /\ webhook[proc[q].event] = "RECEIVED"
    BY <1>1 DEF FrameOK, Known, Received, Handling
  <2>2. QED BY <1>1, <2>1 DEF BillingInv, OneAtWork
<1>7. Gift(q)'
  <2>1. Deed(q)' = Deed(q) /\ (Giving(q)' <=> Giving(q)) BY <1>1 DEF Deed, Giving, Handling
  <2>2. Gift(q) BY <1>1 DEF FrameOK
  <2>3. proc[q].step = "payment" /\ proc[q].op \in Successes => Deed(q) \in given'
    BY <2>2 DEF Gift, Marks
  <2>4. Giving(q) => \A d \in given' : d.event # proc[q].event
    BY <1>6, <2>2 DEF Gift, Marks, Giving
  <2>5. Of(payments, u, i, "PAYMENT_FAILED") \subseteq Of(payments', u, i, "PAYMENT_FAILED")
    BY DEF Marks, Of
  <2>6. proc[q].step = "grace" => Of(payments', u, i, "PAYMENT_FAILED") # {}
    BY <2>2, <2>5 DEF Gift
  <2>7. QED BY <1>1, <2>1, <2>3, <2>4, <2>6 DEF Gift
<1>8. Received(q)'
  <2>1. Handling(q) => webhook'[proc[q].event] = "RECEIVED" BY <1>6 DEF Marks
  <2>2. QED BY <1>1, <2>1 DEF Received, Handling
<1>9. QED BY <1>2, <1>4, <1>5, <1>7, <1>8 DEF FrameOK

LEMMA OneKept ==
    ASSUME BillingInv, NEW p \in Procs, Moves(p), Begins(p)
    PROVE  OneAtWork'
<1>1. ASSUME NEW q \in Procs, q # p, Handling(p)', Handling(q)', proc'[p].event = proc'[q].event
      PROVE  FALSE
  <2>1. proc'[q] = proc[q] /\ Handling(q) BY <1>1 DEF Moves, Handling
  <2>2. webhook[proc[q].event] = "RECEIVED"
    BY <2>1 DEF BillingInv, FramesOK, FrameOK, Received
  <2>3. Handling(p) /\ proc[p].event = proc[q].event BY <1>1, <2>1, <2>2 DEF Begins
  <2>4. QED BY <1>1, <2>1, <2>3 DEF BillingInv, OneAtWork
<1>2. \A q, r \in Procs : q # p /\ r # p /\ Handling(q)' /\ Handling(r)'
                          /\ proc'[q].event = proc'[r].event => q = r
  BY DEF Moves, Handling, BillingInv, OneAtWork
<1>3. QED BY <1>1, <1>2 DEF OneAtWork

LEMMA FramesKept ==
    ASSUME BillingInv, NEW p \in Procs, Moves(p), Writes(p), Marks(p), Begins(p), FrameOK(p)'
    PROVE  FramesOK' /\ OneAtWork'
BY OtherKept, OneKept DEF FramesOK

\* A deed that is in no book stays about to be recorded, or failed or died with its handler.
LEMMA UnbookedKept ==
    ASSUME BillingInv, NEW p \in Procs, Moves(p), Marks(p), Begins(p),
           \A e \in Events : webhook'[e] = "PROCESSED" =>
              webhook[e] = "PROCESSED" \/ proc[p].step = "processed",
           NEW d \in given \ payments,
           proc[p].step = "payment" =>
              proc'[p].step \in {"idle", "failed"} \/ Deed(p) # d,
           proc[p].step = "failed" => proc'[p].step \in {"idle", "failed"}
    PROVE  Unbooked(d)'
<1>1. Unbooked(d) /\ d.event \in Events /\ webhook[d.event] # "none"
  BY DEF BillingInv, BooksOK, DeedsOK, TypeOK, Deeds
<1>2. webhook'[d.event] # "PROCESSED"
  <2> SUFFICES ASSUME webhook'[d.event] = "PROCESSED" PROVE FALSE OBVIOUS
  <2>1. webhook[d.event] # "PROCESSED" /\ proc[p].step = "processed"
    BY <1>1 DEF Unbooked
  <2>2. Handling(p) /\ d.event = proc[p].event BY <1>1, <2>1 DEF Marks
  <2>3. QED BY <1>1, <2>1, <2>2 DEF Unbooked
<1>3. ASSUME NEW q \in Procs, Handling(q)', proc'[q].event = d.event
      PROVE  proc'[q].step = "failed" \/ (proc'[q].step = "payment" /\ Deed(q)' = d)
  <2>1. CASE q = p
    <3>1. Handling(p) /\ proc[p].event = d.event BY <1>1, <1>3, <2>1 DEF Begins
    <3>2. proc[p].step = "failed" \/ (proc[p].step = "payment" /\ Deed(p) = d)
      BY <1>1, <3>1 DEF Unbooked
    <3>3. proc'[p].step # "idle" BY <1>3, <2>1 DEF Handling
    <3>4. QED BY <2>1, <3>2, <3>3
  <2>2. CASE q # p
    <3>1. proc'[q] = proc[q] /\ Handling(q) BY <1>3, <2>2 DEF Moves, Handling
    <3>2. QED BY <1>1, <1>3, <3>1 DEF Unbooked, Deed
  <2>3. QED BY <2>1, <2>2
<1>4. QED BY <1>2, <1>3 DEF Unbooked

\* Steps that leave rows, gifts and books alone.
LEMMA Quiet ==
    ASSUME BillingInv, NEW p \in Procs, TypeOK', StoredFirst', Moves(p), Begins(p), FrameOK(p)',
           UNCHANGED <<subs, payments, given, crossed>>,
           \A e \in Events :
              \/ webhook'[e] = webhook[e]
              \/ webhook[e] = "none" /\ webhook'[e] # "PROCESSED"
              \/ Handling(p) /\ e = proc[p].event /\ webhook'[e] # "none",
           \A e \in Events : webhook'[e] = "PROCESSED" =>
              webhook[e] = "PROCESSED" \/ proc[p].step = "processed",
           proc[p].step \in {"payment", "failed"} => proc'[p].step \in {"idle", "failed"}
    PROVE  BillingInv'
<1>1. Writes(p) /\ Marks(p) BY DEF Writes, Marks
<1>2. FramesOK' /\ OneAtWork' BY <1>1, FramesKept
<1>3. RowsOK' BY DEF BillingInv, RowsOK, RowOK, RowFits, PeriodFits, BoughtAndStarted
<1>4. DeedsOK'
  <2>1. \A d \in given : d.event \in Events BY DEF BillingInv, TypeOK, Deeds
  <2>2. QED BY <2>1 DEF BillingInv, DeedsOK
<1>5. BooksOK' BY <1>1, UnbookedKept DEF BillingInv, BooksOK
<1>6. QED BY <1>2, <1>3, <1>4, <1>5 DEF BillingInv

\* Steps in which p only goes on, with what is a frame of a request or a handler.
LEMMA GoOn ==
    ASSUME BillingInv, NEW p \in Procs, Moves(p), FrameOK(p)',
           UNCHANGED <<now, subs, payments, webhook, credit, scheduled, sent, history, requests>>,
           Handling(p)' => Handling(p) /\ proc'[p].event = proc[p].event,
           proc[p].step \in {"payment", "failed"} => proc'[p].step \in {"idle", "failed"}
    PROVE  BillingInv'
<1>1. UNCHANGED <<runs, given, crossed>> BY DEF history
<1>2. TypeOK' BY <1>1 DEF BillingInv, TypeOK, Moves
<1>3. StoredFirst' BY <1>1 DEF BillingInv, StoredFirst
<1>4. Begins(p) BY DEF Begins
<1>5. QED BY <1>1, <1>2, <1>3, <1>4, Quiet

-----------------------------------------------------------------------------
(* The gateway, the controller and the requests.                           *)

LEMMA InitHolds == Init => BillingInv
<1> SUFFICES ASSUME Init PROVE BillingInv OBVIOUS
<1>1. TypeOK
  BY TimeAssumption DEF Init, TypeOK, Idle, Frames, Steps, Plans, Subscriptions
<1>2. \A p \in Procs : proc[p] = Idle /\ Idle.step = "idle" /\ Idle.op = "none"
  BY DEF Init, Idle
<1>3. FramesOK
  BY <1>2 DEF FramesOK, FrameOK, Known, RowKnown, Fresh, Gift, Received, Working, Handling,
              Giving, WillWrite, EventTypes
<1>4. OneAtWork /\ StoredFirst BY <1>2 DEF OneAtWork, Handling, StoredFirst, Init
<1>5. RowsOK BY DEF Init, RowsOK
<1>6. DeedsOK /\ BooksOK BY FS_EmptySet DEF Init, DeedsOK, BooksOK
<1>7. QED BY <1>1, <1>3, <1>4, <1>5, <1>6 DEF BillingInv

LEMMA IdleTyped == Idle \in Frames /\ Idle.step = "idle" /\ Idle.op \notin EventTypes
BY DEF Idle, Frames, Steps, Plans, EventTypes

LEMMA IdleOK ==
    ASSUME NEW p \in Procs, proc'[p] = Idle
    PROVE  FrameOK(p)' /\ ~Handling(p)'
BY IdleTyped DEF FrameOK, Known, RowKnown, Fresh, Gift, Received, Working, Handling, Giving,
                 WillWrite

LEMMA IdleMoves ==
    ASSUME TypeOK, NEW p \in Procs, proc' = [proc EXCEPT ![p] = Idle]
    PROVE  Moves(p) /\ proc'[p] = Idle
BY IdleTyped DEF TypeOK, Moves

\* A frame that is put in place of an idle one.
LEMMA BeginMoves ==
    ASSUME TypeOK, NEW p \in Procs, NEW f \in Frames, Begin(p, f)
    PROVE  Moves(p) /\ proc'[p] = f /\ proc[p].step = "idle"
BY DEF TypeOK, Moves, Begin

LEMMA ReceiveStep ==
    ASSUME BillingInv, NEW p \in Procs, NEW m \in Messages, ReceiveWebhook(p, m)
    PROVE  BillingInv'
<1> DEFINE f == [Idle EXCEPT !.step = "store", !.op = m.type, !.event = m.event, !.user = m.user]
<1>1. TypeOK /\ StoredFirst BY DEF BillingInv
<1>2. f \in Frames /\ f.step = "store" /\ f.op \in EventTypes /\ f.event \in Events /\ f.user \in Users
  BY DEF Messages, Idle, Frames, Steps, Plans
<1>3. Begin(p, f) BY DEF ReceiveWebhook
<1> HIDE DEF f
<1>4. Moves(p) /\ proc'[p] = f /\ proc[p].step = "idle" BY <1>1, <1>2, <1>3, BeginMoves
<1>5. /\ UNCHANGED <<now, subs, payments, webhook, credit, scheduled, requests>>
      /\ UNCHANGED <<runs, given, crossed>> /\ sent' = sent \cup {m}
  BY DEF ReceiveWebhook, rows, history
<1>6. TypeOK' BY <1>1, <1>4, <1>5 DEF TypeOK, Moves
<1>7. StoredFirst' BY <1>1, <1>5 DEF StoredFirst
<1>8. ~Handling(p)' BY <1>2, <1>4 DEF Handling
<1>9. FrameOK(p)'
  BY <1>2, <1>4, <1>8 DEF FrameOK, Known, RowKnown, Fresh, Gift, Received, Giving, WillWrite
<1>10. QED BY <1>4, <1>5, <1>6, <1>7, <1>8, <1>9, Quiet DEF Begins

LEMMA GotoTyped ==
    ASSUME TypeOK, NEW p \in Procs, NEW s \in Steps, Goto(p, s)
    PROVE  /\ Moves(p) /\ proc'[p].step = s /\ proc'[p].op = proc[p].op
           /\ proc'[p].event = proc[p].event /\ proc'[p].user = proc[p].user
           /\ proc'[p].sub = proc[p].sub
<1>1. proc[p] \in Frames BY DEF TypeOK
<1>2. QED BY <1>1 DEF Goto, TypeOK, Frames, Moves

\* The unique key: one handler begins for an event, and it alone works for it.
LEMMA StoreStep ==
    ASSUME BillingInv, NEW p \in Procs, StoreEvent(p), webhook[proc[p].event] = "none"
    PROVE  BillingInv'
<1> DEFINE e == proc[p].event
<1>1. TypeOK /\ StoredFirst /\ FrameOK(p) /\ DeedsOK BY DEF BillingInv, FramesOK
<1>2. StartHandler(p) /\ proc[p].step = "store" BY DEF StoreEvent, At
<1>3. e \in Events /\ proc[p].user \in Users /\ proc[p].op \in EventTypes
  BY <1>1, <1>2 DEF FrameOK, Known, Working
<1>4. FirstStep(proc[p].op) \in {"findPending", "processed", "findActive"}
      /\ (FirstStep(proc[p].op) = "findPending" => proc[p].op = "PAYMENT_COMPLETED")
      /\ (FirstStep(proc[p].op) = "findActive" =>
            proc[p].op \notin {"PAYMENT_COMPLETED", "PAYMENT_READY"})
  BY DEF FirstStep
<1>5. /\ Moves(p) /\ proc'[p].step = FirstStep(proc[p].op) /\ proc'[p].op = proc[p].op
      /\ proc'[p].event = e /\ proc'[p].user = proc[p].user
  BY <1>1, <1>2, <1>4, GotoTyped DEF StartHandler, Steps
<1>6. /\ webhook' = [webhook EXCEPT ![e] = "RECEIVED"] /\ runs' = [runs EXCEPT ![e] = @ + 1]
      /\ UNCHANGED <<subs, sent, now, payments, scheduled, credit, given, crossed, requests>>
  BY <1>2 DEF StartHandler, gateway
<1> HIDE DEF e
<1>7. TypeOK' BY <1>1, <1>3, <1>5, <1>6 DEF TypeOK, Moves
<1>8. webhook'[e] = "RECEIVED" /\ webhook[e] = "none" BY <1>1, <1>3, <1>6 DEF TypeOK, e
<1>9. StoredFirst'
  <2>1. runs[e] = 0 BY <1>1, <1>3, <1>8 DEF StoredFirst
  <2>2. QED BY <1>1, <1>3, <1>6, <1>8, <2>1 DEF StoredFirst, TypeOK
<1>10. Begins(p) BY <1>5, <1>8 DEF Begins
<1>11. FrameOK(p)'
  <2>1. \A d \in given : d.event # e BY <1>1, <1>8 DEF DeedsOK
  <2>2. Known(p)' BY <1>3, <1>4, <1>5 DEF Known
  <2>3. Gift(p)' BY <1>4, <1>5, <1>6, <2>1 DEF Gift
  <2>4. Received(p)' BY <1>5, <1>8 DEF Received
  <2>5. RowKnown(p)' /\ Fresh(p)' BY <1>4, <1>5 DEF RowKnown, Fresh, WillWrite
  <2>6. QED BY <2>2, <2>3, <2>4, <2>5 DEF FrameOK
<1>12. \A x \in Events : \/ webhook'[x] = webhook[x]
                         \/ webhook[x] = "none" /\ webhook'[x] # "PROCESSED"
  BY <1>1, <1>3, <1>6, <1>8 DEF TypeOK
<1>13. QED BY <1>2, <1>5, <1>6, <1>7, <1>9, <1>10, <1>11, <1>12, Quiet

\* The second of two deliveries that both found no event is rejected, or a process dies.
LEMMA StopStep ==
    ASSUME BillingInv, NEW p \in Procs, proc' = [proc EXCEPT ![p] = Idle],
           UNCHANGED <<now, subs, payments, webhook, credit, scheduled, sent, history, requests>>
    PROVE  BillingInv'
<1>1. Moves(p) /\ proc'[p] = Idle BY IdleMoves DEF BillingInv
<1>2. proc'[p].step = "idle" BY <1>1, IdleTyped
<1>3. QED BY <1>1, <1>2, IdleOK, GoOn

\* A request begins.
LEMMA RequestStep ==
    ASSUME BillingInv, NEW p \in Procs, NEW f \in Frames, Request(p, f),
           f.step \in {"findFree", "findActive"}, f.user \in Users, f.op \in Requests,
           scheduled' \subseteq Users
    PROVE  BillingInv'
<1>1. TypeOK /\ StoredFirst BY DEF BillingInv
<1>2. Moves(p) /\ proc'[p] = f /\ proc[p].step = "idle" BY <1>1, BeginMoves DEF Request
<1>3. UNCHANGED <<now, subs, payments, webhook, credit, sent, runs, given, crossed>>
  BY DEF Request, rows, history
<1>4. requests' \in Nat BY <1>1 DEF Request, TypeOK
<1>5. TypeOK' BY <1>1, <1>2, <1>3, <1>4 DEF TypeOK, Moves
<1>6. StoredFirst' BY <1>1, <1>3 DEF StoredFirst
<1>7. ~Handling(p)' BY <1>2 DEF Handling, Requests, EventTypes
<1>8. FrameOK(p)'
  BY <1>2, <1>7 DEF FrameOK, Known, RowKnown, Fresh, Gift, Received, Giving, WillWrite, Requests,
                    EventTypes
<1>9. QED BY <1>2, <1>3, <1>5, <1>6, <1>7, <1>8, Quiet DEF Begins

LEMMA SignupStep ==
    ASSUME BillingInv, NEW p \in Procs, NEW u \in Users, BeginSignup(p, u)
    PROVE  BillingInv'
<1> DEFINE f == [Idle EXCEPT !.step = "findFree", !.op = "signup", !.user = u]
<1>1. f \in Frames /\ f.step = "findFree" /\ f.user = u /\ f.op \in Requests
  BY DEF Idle, Frames, Steps, Plans, Requests
<1>2. Request(p, f) /\ scheduled' \subseteq Users BY DEF BeginSignup, BillingInv, TypeOK
<1> HIDE DEF f
<1>3. QED BY <1>1, <1>2, RequestStep

LEMMA BeginStep ==
    ASSUME BillingInv, NEW p \in Procs, NEW op \in Requests, NEW u \in Users,
           NEW plan \in Plans, BeginRequest(p, op, u, plan)
    PROVE  BillingInv'
<1> DEFINE f == [Idle EXCEPT !.step = "findActive", !.op = op, !.user = u, !.plan = plan]
<1>1. f \in Frames /\ f.step = "findActive" /\ f.user = u /\ f.op \in Requests
  BY DEF Idle, Frames, Steps, Plans, Requests
<1>2. Request(p, f) /\ scheduled' \subseteq Users BY DEF BeginRequest, BillingInv, TypeOK
<1> HIDE DEF f
<1>3. QED BY <1>1, <1>2, RequestStep

-----------------------------------------------------------------------------
(* The ends and the reads.                                                 *)

\* Returning or throwing.
LEMMA Finished ==
    ASSUME TypeOK, NEW p \in Procs, FrameOK(p), NEW s \in {"processed", "failed"}, Finish(p, s),
           proc[p].step # "store", proc[p].step # "idle", UNCHANGED webhook
    PROVE  /\ Moves(p) /\ FrameOK(p)'
           /\ Handling(p)' => Handling(p) /\ proc'[p].event = proc[p].event
           /\ proc'[p].step \in {"idle", s}
<1> DEFINE f == [Idle EXCEPT !.step = s, !.op = proc[p].op, !.event = proc[p].event]
<1>1. proc[p] \in Frames BY DEF TypeOK
<1>2. /\ f \in Frames /\ f.step = s /\ f.op = proc[p].op /\ f.event = proc[p].event
  BY <1>1 DEF Idle, Frames, Steps, Plans
<1>3. CASE IsWebhook(p)
  <2>1. proc' = [proc EXCEPT ![p] = f] BY <1>3 DEF Finish
  <2> HIDE DEF f
  <2>2. Moves(p) /\ proc'[p] = f BY <1>2, <2>1 DEF TypeOK, Moves
  <2>3. Handling(p) /\ proc'[p].event = proc[p].event /\ proc[p].event \in Events
    BY <1>2, <1>3, <2>2 DEF IsWebhook, Handling, FrameOK, Known
  <2>4. FrameOK(p)'
    BY <1>2, <1>3, <2>2, <2>3 DEF IsWebhook, FrameOK, Known, RowKnown, Fresh, Gift, Received,
                                  Giving, WillWrite, Working, Handling
  <2>5. QED BY <1>2, <2>2, <2>3, <2>4
<1>4. CASE ~IsWebhook(p)
  <2>1. Moves(p) /\ proc'[p] = Idle BY <1>4, IdleMoves DEF Finish
  <2>2. QED BY <2>1, IdleOK, IdleTyped
<1>5. QED BY <1>3, <1>4

LEMMA EndStep ==
    ASSUME BillingInv, NEW p \in Procs, NEW s \in {"processed", "failed"}, Finish(p, s),
           proc[p].step # "store", proc[p].step # "idle",
           proc[p].step \in {"payment", "failed"} => s = "failed",
           UNCHANGED <<now, subs, payments, webhook, credit, scheduled, sent, history, requests>>
    PROVE  BillingInv'
<1>1. TypeOK /\ FrameOK(p) BY DEF BillingInv, FramesOK
<1>2. /\ Moves(p) /\ FrameOK(p)'
      /\ Handling(p)' => Handling(p) /\ proc'[p].event = proc[p].event
      /\ proc'[p].step \in {"idle", s}
  BY <1>1, Finished
<1>3. QED BY <1>2, GoOn

\* Going on to a read or an insertion, that gives nothing.
LEMMA GotoRead ==
    ASSUME BillingInv, NEW p \in Procs,
           NEW s \in {"findCanceled", "findFree", "createFree", "create", "refill"},
           Goto(p, s), Working(p), proc[p].step \notin {"store", "payment"},
           s = "create" => proc[p].op \in Requests,
           UNCHANGED <<now, subs, payments, webhook, credit, scheduled, sent, history, requests>>
    PROVE  BillingInv'
<1>1. s \in Steps /\ TypeOK /\ FrameOK(p) BY DEF Steps, BillingInv, FramesOK
<1>2. /\ Moves(p) /\ proc'[p].step = s /\ proc'[p].user = proc[p].user
      /\ proc'[p].op = proc[p].op /\ proc'[p].event = proc[p].event
  BY <1>1, GotoTyped
<1>3. Handling(p)' => Handling(p) /\ proc'[p].event = proc[p].event
  BY <1>2 DEF Handling, Working
<1>4. UNCHANGED <<given>> BY DEF history
<1>5. FrameOK(p)'
  <2>1. Known(p)' BY <1>1, <1>2 DEF FrameOK, Known, Working
  <2>2. RowKnown(p)' /\ Fresh(p)' BY <1>2 DEF RowKnown, Fresh, WillWrite
  <2>3. Gift(p)' BY <1>1, <1>2, <1>4 DEF FrameOK, Gift, Giving, Handling
  <2>4. Received(p)' BY <1>1, <1>2, <1>3 DEF FrameOK, Received
  <2>5. QED BY <2>1, <2>2, <2>3, <2>4 DEF FrameOK
<1>6. QED BY <1>2, <1>3, <1>5, GoOn DEF Working

\* Going on with a row that was found.
LEMMA FoundStep ==
    ASSUME BillingInv, NEW p \in Procs, NEW st \in {"ACTIVE", "CANCELED"},
           NEW s \in {"extend", "expire", "payment", "cancelCurrent"},
           proc[p].step \in {"findActive", "findCanceled"}, Latest(proc[p].user, st) # 0,
           s # "expire" => st = "ACTIVE",
           s = "extend" => proc[p].op = "SUBSCRIPTION_RENEWED" /\ proc[p].step = "findActive",
           s = "payment" => proc[p].op = "PAYMENT_FAILED",
           s = "cancelCurrent" => proc[p].op \in Requests,
           Found(p, Latest(proc[p].user, st), s),
           UNCHANGED <<now, subs, payments, webhook, credit, scheduled, sent, history, requests>>
    PROVE  BillingInv'
<1> DEFINE u == proc[p].user
           i == Latest(u, st)
           n == IF s = "extend" THEN subs[u][i].end ELSE 0
<1>1. TypeOK /\ FrameOK(p) /\ u \in Users BY DEF BillingInv, FramesOK, FrameOK, Known, Working
<1>2. /\ i \in Nat /\ i \in DOMAIN subs[u] /\ subs[u][i] \in Subscriptions
      /\ subs[u][i].status = st
  <2>1. st \in Statuses BY DEF Statuses
  <2>2. QED BY <1>1, <2>1, LatestFound
<1>3. n \in Nat BY <1>2 DEF Subscriptions
<1>4. proc' = [proc EXCEPT ![p].step = s, ![p].sub = i, ![p].end = n] BY DEF Found
<1>5. proc[p] \in Frames /\ s \in Steps BY <1>1 DEF TypeOK, Steps
<1> HIDE DEF i
<1>6. /\ Moves(p) /\ proc'[p].step = s /\ proc'[p].sub = i /\ proc'[p].user = u
      /\ proc'[p].op = proc[p].op /\ proc'[p].event = proc[p].event
      /\ (s = "extend" => proc'[p].end = subs[u][i].end)
  BY <1>1, <1>2, <1>3, <1>4, <1>5 DEF TypeOK, Frames, Moves
<1> HIDE DEF n
<1>7. Handling(p)' => Handling(p) /\ proc'[p].event = proc[p].event
  BY <1>6 DEF Handling
<1>8. UNCHANGED <<given, crossed>> BY DEF history
<1>9. FrameOK(p)'
  <2>1. Known(p)' BY <1>1, <1>6 DEF FrameOK, Known, Working
  <2>2. RowKnown(p)' BY <1>2, <1>6 DEF RowKnown, Row
  <2>3. Fresh(p)'
    BY <1>2, <1>6 DEF Fresh, Row, EventTypes
  <2>4. Gift(p)' BY <1>1, <1>6, <1>7, <1>8 DEF FrameOK, Gift, Giving, Handling, Successes
  <2>5. Received(p)' BY <1>1, <1>6, <1>7 DEF FrameOK, Received
  <2>6. QED BY <2>1, <2>2, <2>3, <2>4, <2>5 DEF FrameOK
<1>10. QED BY <1>6, <1>7, <1>9, GoOn

LEMMA FindPendingStep ==
    ASSUME BillingInv, NEW p \in Procs, FindPending(p)
    PROVE  BillingInv'
<1> DEFINE u == proc[p].user
           i == Latest(u, "PENDING")
<1>1. TypeOK /\ FrameOK(p) /\ proc[p] \in Frames BY DEF BillingInv, FramesOK, TypeOK
<1>2. /\ u \in Users /\ proc[p].step = "findPending" /\ proc[p].op = "PAYMENT_COMPLETED"
      /\ Handling(p) /\ Giving(p)
  BY <1>1 DEF FindPending, At, FrameOK, Known, Working, Handling, Giving, EventTypes, Successes
<1>3. UNCHANGED <<now, subs, payments, webhook, credit, scheduled, sent, history, requests>>
  BY DEF FindPending, rows, gateway
<1>4. UNCHANGED <<given, crossed>> BY <1>3 DEF history
<1>5. webhook[proc[p].event] = "RECEIVED" /\ proc[p].event \in Events
      /\ \A d \in given : d.event # proc[p].event
  BY <1>1, <1>2 DEF FrameOK, Received, Gift, Known, EventTypes
<1>6. CASE i = 0
  <2>1. proc' = [proc EXCEPT ![p].step = "findActive", ![p].op = "SUBSCRIPTION_RENEWED"]
    BY <1>6 DEF FindPending
  <2>2. /\ Moves(p) /\ proc'[p].step = "findActive" /\ proc'[p].user = u
        /\ proc'[p].op = "SUBSCRIPTION_RENEWED" /\ proc'[p].event = proc[p].event
    BY <1>1, <2>1 DEF TypeOK, Frames, Moves, Steps, EventTypes
  <2>3. FrameOK(p)'
    BY <1>2, <1>3, <1>4, <1>5, <2>2
    DEF FrameOK, Known, RowKnown, Fresh, Gift, Received, WillWrite, Working, EventTypes
  <2>4. QED BY <1>2, <1>3, <2>2, <2>3, GoOn
<1>7. CASE i # 0
  <2>1. i \in Nat /\ i \in DOMAIN subs[u] /\ subs[u][i] \in Subscriptions
        /\ subs[u][i].status = "PENDING"
    BY <1>1, <1>2, <1>7, LatestFound DEF Statuses
  <2>2. subs[u][i].plan \in Plans BY <2>1 DEF Subscriptions
  <2>3. proc' = [proc EXCEPT ![p].step = "activate", ![p].sub = i, ![p].plan = subs[u][i].plan]
    BY <1>7 DEF FindPending
  <2> HIDE DEF i
  <2>4. /\ Moves(p) /\ proc'[p].step = "activate" /\ proc'[p].user = u /\ proc'[p].sub = i
        /\ proc'[p].op = "PAYMENT_COMPLETED" /\ proc'[p].event = proc[p].event
    BY <1>1, <1>2, <2>1, <2>2, <2>3 DEF TypeOK, Frames, Moves, Steps
  <2>5. FrameOK(p)'
    BY <1>2, <1>3, <1>4, <1>5, <2>1, <2>4
    DEF FrameOK, Known, RowKnown, Fresh, Gift, Received, WillWrite, Working, EventTypes, Row
  <2>6. QED BY <1>2, <1>3, <2>4, <2>5, GoOn
<1>8. QED BY <1>6, <1>7

LEMMA FindActiveStep ==
    ASSUME BillingInv, NEW p \in Procs, FindActive(p)
    PROVE  BillingInv'
<1> DEFINE i == Latest(proc[p].user, "ACTIVE")
<1>1. TypeOK /\ FrameOK(p) BY DEF BillingInv, FramesOK
<1>2. proc[p].step = "findActive" BY DEF FindActive, At
<1>3. proc[p].op \in Requests \cup (EventTypes \ {"PAYMENT_COMPLETED", "PAYMENT_READY"})
  BY <1>1, <1>2 DEF FrameOK, Known
<1>4. UNCHANGED <<now, subs, payments, webhook, credit, scheduled, sent, history, requests>>
  BY DEF FindActive, rows, gateway
<1>5. \/ Finish(p, "processed") \/ Finish(p, "failed")
      \/ \E s \in {"findCanceled", "findFree"} : Goto(p, s)
      \/ proc[p].op \in Requests /\ Goto(p, "create")
      \/ i # 0 /\ \E s \in {"extend", "expire", "payment", "cancelCurrent"} :
                    /\ Found(p, i, s)
                    /\ s = "extend" => proc[p].op = "SUBSCRIPTION_RENEWED"
                    /\ s = "payment" => proc[p].op = "PAYMENT_FAILED"
                    /\ s = "cancelCurrent" => proc[p].op \in Requests
  <2> HIDE DEF i
  <2>1. CASE proc[p].op = "SUBSCRIPTION_RENEWED" BY <2>1 DEF FindActive, Return, i
  <2>2. CASE proc[p].op = "SUBSCRIPTION_CANCELED" BY <2>2 DEF FindActive, i
  <2>3. CASE proc[p].op = "PAYMENT_FAILED" BY <2>3 DEF FindActive, i
  <2>4. CASE proc[p].op = "PAYMENT_REFUNDED" BY <2>4 DEF FindActive, i
  <2>5. CASE proc[p].op = "cancel" BY <2>5 DEF FindActive, Throw, Requests, i
  <2>6. CASE proc[p].op = "upgrade" BY <2>6 DEF FindActive, Throw, Requests, i
  <2>7. CASE proc[p].op \in {"signup", "grant"} BY <2>7 DEF FindActive, Requests, i
  <2>8. QED BY <1>3, <2>1, <2>2, <2>3, <2>4, <2>5, <2>6, <2>7 DEF EventTypes, Requests
<1>6. CASE Finish(p, "processed") \/ Finish(p, "failed") BY <1>2, <1>4, <1>6, EndStep
<1>7. CASE \E s \in {"findCanceled", "findFree"} : Goto(p, s)
  BY <1>2, <1>4, <1>7, GotoRead DEF Working
<1>8. CASE proc[p].op \in Requests /\ Goto(p, "create")
  BY <1>2, <1>4, <1>8, GotoRead DEF Working
<1>9. CASE i # 0 /\ \E s \in {"extend", "expire", "payment", "cancelCurrent"} :
                    /\ Found(p, i, s)
                    /\ s = "extend" => proc[p].op = "SUBSCRIPTION_RENEWED"
                    /\ s = "payment" => proc[p].op = "PAYMENT_FAILED"
                    /\ s = "cancelCurrent" => proc[p].op \in Requests
  BY <1>2, <1>4, <1>9, FoundStep
<1>10. QED BY <1>5, <1>6, <1>7, <1>8, <1>9

LEMMA FindCanceledStep ==
    ASSUME BillingInv, NEW p \in Procs, FindCanceled(p)
    PROVE  BillingInv'
<1> DEFINE i == Latest(proc[p].user, "CANCELED")
<1>1. proc[p].step = "findCanceled" BY DEF FindCanceled, At
<1>2. UNCHANGED <<now, subs, payments, webhook, credit, scheduled, sent, history, requests>>
  BY DEF FindCanceled, rows, gateway
<1>3. CASE i = 0 BY <1>1, <1>2, <1>3, GotoRead DEF FindCanceled, Working
<1>4. CASE i # 0
  <2>1. Found(p, i, "expire") BY <1>4 DEF FindCanceled
  <2>2. QED BY <1>1, <1>2, <1>4, <2>1, FoundStep
<1>5. QED BY <1>3, <1>4

LEMMA FindFreeStep ==
    ASSUME BillingInv, NEW p \in Procs, FindFree(p)
    PROVE  BillingInv'
<1>1. proc[p].step = "findFree" BY DEF FindFree, At
<1>2. UNCHANGED <<now, subs, payments, webhook, credit, scheduled, sent, history, requests>>
  BY DEF FindFree, rows, gateway
<1>3. Goto(p, "createFree") \/ Goto(p, "refill") \/ Finish(p, "processed")
  BY DEF FindFree, Return
<1>4. CASE Goto(p, "createFree") \/ Goto(p, "refill") BY <1>1, <1>2, <1>4, GotoRead DEF Working
<1>5. CASE Finish(p, "processed") BY <1>1, <1>2, <1>5, EndStep
<1>6. QED BY <1>3, <1>4, <1>5

-----------------------------------------------------------------------------
(* The writes.                                                             *)

RowIs(u, i, st, e) == subs' = [subs EXCEPT ![u][i].status = st, ![u][i].end = e]

\* A row is written by its id.
LEMMA RowWritten ==
    ASSUME TypeOK, NEW u \in Users, NEW i \in DOMAIN subs[u], NEW st \in Statuses, NEW e \in Nat,
           RowIs(u, i, st, e)
    PROVE  /\ subs' \in [Users -> Seq(Subscriptions)]
           /\ \A v \in Users : v # u => subs'[v] = subs[v]
           /\ DOMAIN subs'[u] = DOMAIN subs[u]
           /\ \A j \in DOMAIN subs[u] : j # i => subs'[u][j] = subs[u][j]
           /\ subs'[u][i].status = st /\ subs'[u][i].end = e
           /\ subs'[u][i].plan = subs[u][i].plan /\ subs'[u][i].start = subs[u][i].start
           /\ subs'[u][i].source = subs[u][i].source
<1>1. subs \in [Users -> Seq(Subscriptions)] /\ subs[u] \in Seq(Subscriptions) BY DEF TypeOK
<1>2. subs[u][i] \in Subscriptions BY <1>1
<1> DEFINE r == [subs[u][i] EXCEPT !.status = st, !.end = e]
           s == [subs[u] EXCEPT ![i] = r]
<1>3. /\ r \in Subscriptions /\ r.status = st /\ r.plan = subs[u][i].plan
      /\ r.source = subs[u][i].source /\ r.start = subs[u][i].start /\ r.end = e
  BY <1>2 DEF Subscriptions
<1>4. subs' = [subs EXCEPT ![u] = s] BY <1>1, <1>2 DEF Subscriptions, RowIs
<1> HIDE DEF r
<1>5. s \in Seq(Subscriptions) /\ DOMAIN s = DOMAIN subs[u] /\ s[i] = r
      /\ \A j \in DOMAIN subs[u] : j # i => s[j] = subs[u][j]
  BY <1>1, <1>3
<1> HIDE DEF s
<1>6. subs'[u] = s BY <1>1, <1>4
<1>7. QED BY <1>1, <1>3, <1>4, <1>5, <1>6

\* What a handler gives is new.
LEMMA GiftNew ==
    ASSUME BillingInv, NEW p \in Procs, Giving(p), proc[p].step \in {"activate", "extend"}
    PROVE  /\ Deed(p) \in Deeds /\ Deed(p) \notin given
           /\ Deed(p).sub \in DOMAIN subs[Deed(p).user]
           /\ Handling(p) /\ webhook[proc[p].event] = "RECEIVED"
<1>1. FrameOK(p) /\ proc[p].sub \in Nat BY FrameTyped DEF BillingInv, FramesOK
<1>2. proc[p].user \in Users /\ proc[p].sub \in DOMAIN subs[proc[p].user]
  BY <1>1, WriterWorks DEF WillWrite
<1>3. Handling(p) /\ proc[p].op \in EventTypes /\ proc[p].event \in Events
      /\ webhook[proc[p].event] = "RECEIVED"
  BY <1>1 DEF Giving, Handling, FrameOK, Known, Received
<1>4. Deed(p) \in Deeds /\ Deed(p).event = proc[p].event
      /\ Deed(p).sub = proc[p].sub /\ Deed(p).user = proc[p].user
  BY <1>1, <1>2, <1>3 DEF Deed, Deeds
<1>5. \A d \in given : d.event # proc[p].event BY <1>1 DEF FrameOK, Gift
<1>6. QED BY <1>2, <1>3, <1>4, <1>5

\* A handler writes the row that it found, and may give it a period.
LEMMA WriteStep ==
    ASSUME BillingInv, NEW p \in Procs, WillWrite(p), proc[p].step # "payment",
           NEW st \in Statuses \ {"PENDING"}, NEW e \in Nat,
           NEW u \in Users, NEW i \in Nat, RowOf(p) = <<u, i>>, RowIs(u, i, st, e),
           Crosses(p), Moves(p),
           UNCHANGED <<now, payments, webhook, credit, scheduled, sent, runs, requests>>,
           \/ given' = given
           \/ /\ given' = given \cup {Deed(p)} /\ Giving(p)
              /\ proc[p].step \in {"activate", "extend"}
              /\ proc'[p].step = "payment" /\ Deed(p)' = Deed(p),
           Handling(p)' => Handling(p) /\ proc'[p].event = proc[p].event,
           FrameOK(p)', RowOK(u, i)'
    PROVE  BillingInv'
<1>1. /\ TypeOK /\ StoredFirst /\ FrameOK(p) /\ i \in DOMAIN subs[u]
      /\ u = proc[p].user /\ i = proc[p].sub
  BY FrameTyped, WriterWorks DEF BillingInv, FramesOK, RowOf
<1>2. /\ subs' \in [Users -> Seq(Subscriptions)]
      /\ \A v \in Users : v # u => subs'[v] = subs[v]
      /\ DOMAIN subs'[u] = DOMAIN subs[u]
      /\ \A j \in DOMAIN subs[u] : j # i => subs'[u][j] = subs[u][j]
      /\ subs'[u][i].status # "PENDING"
  BY <1>1, RowWritten
<1>3. crossed \subseteq crossed' /\ crossed' \subseteq crossed \cup {<<u, i>>}
  BY DEF Crosses
<1>4. \A q \in Procs : q # p /\ WillWrite(q) /\ RowOf(q) = <<u, i>> => <<u, i>> \in crossed'
  BY DEF Crosses
<1>5. given \subseteq given' /\ IsFiniteSet(given') /\ given' \subseteq Deeds
      /\ \A d \in given' : d \in given \/ (d = Deed(p) /\ Handling(p) /\ d.event = proc[p].event)
  <2>1. CASE given' = given BY <2>1 DEF BillingInv, DeedsOK, TypeOK
  <2>2. CASE given' = given \cup {Deed(p)} /\ Giving(p) /\ proc[p].step \in {"activate", "extend"}
    <3>1. IsFiniteSet(given) /\ given \subseteq Deeds BY DEF BillingInv, DeedsOK, TypeOK
    <3>2. IsFiniteSet(given') BY <2>2, <3>1, FS_AddElement
    <3>3. QED BY <2>2, <3>1, <3>2, GiftNew DEF Deed
  <2>3. QED BY <2>1, <2>2
<1>6. TypeOK'
  <2>1. crossed' \subseteq Users \X Nat BY <1>1, <1>3 DEF TypeOK
  <2>2. QED BY <1>1, <1>2, <1>5, <2>1 DEF TypeOK, Moves
<1>7. Writes(p) BY <1>1, <1>2, <1>4 DEF Writes
<1>8. Marks(p) BY <1>3, <1>5 DEF Marks
<1>9. Begins(p) BY DEF Begins
<1>10. FramesOK' /\ OneAtWork' BY <1>7, <1>8, <1>9, FramesKept
<1>11. StoredFirst' BY <1>1 DEF StoredFirst
<1>12. RowsOK'
  <2>1. ASSUME NEW v \in Users, NEW j \in DOMAIN subs'[v], <<v, j>> # <<u, i>> PROVE RowOK(v, j)'
    <3>1. j \in DOMAIN subs[v] /\ subs'[v][j] = subs[v][j] BY <1>2, <2>1
    <3>2. \A op : Of(given', v, j, op) = Of(given, v, j, op)
      <4>1. \A d \in given' \ given : d.user = u /\ d.sub = i BY <1>1, <1>5 DEF Deed
      <4>2. QED BY <1>5, <2>1, <4>1 DEF Of
    <3>3. <<v, j>> \in crossed' <=> <<v, j>> \in crossed BY <1>3, <2>1
    <3>4. RowOK(v, j) BY <3>1 DEF BillingInv, RowsOK
    <3>5. j \in BoughtAndStarted(v)' <=> j \in BoughtAndStarted(v)
      BY <3>1 DEF BoughtAndStarted
    <3>6. RowFits(v, j) => RowFits(v, j)'
      BY <3>1, <3>2 DEF RowFits, PeriodFits
    <3>7. QED BY <3>1, <3>2, <3>3, <3>4, <3>5, <3>6 DEF RowOK
  <2>2. QED BY <2>1 DEF RowsOK
<1>13. DeedsOK'
  <2>1. \A d \in given' \cup payments : d.sub \in DOMAIN subs[d.user] /\ d.user \in Users
    BY <1>1, <1>5, GiftNew DEF BillingInv, DeedsOK, TypeOK, Deeds, Deed
  <2>2. \A d \in given' : webhook[d.event] # "none"
    <3>1. Handling(p) => webhook[proc[p].event] = "RECEIVED" BY <1>1 DEF FrameOK, Received
    <3>2. QED BY <1>5, <3>1 DEF BillingInv, DeedsOK
  <2>3. QED BY <1>2, <1>5, <2>1, <2>2 DEF DeedsOK
<1>14. BooksOK'
  <2>1. ASSUME NEW d \in given' \ payments PROVE Unbooked(d)'
    <3>1. CASE d \in given
      <4>1. proc[p].step # "failed" BY DEF WillWrite
      <4>2. QED BY <1>8, <1>9, <2>1, <3>1, <4>1, UnbookedKept
    <3>2. CASE d \notin given
      <4>1. /\ d = Deed(p) /\ Giving(p) /\ d.event = proc[p].event
            /\ proc'[p].step = "payment" /\ Deed(p)' = d
        BY <1>5, <2>1, <3>2
      <4>2. webhook[d.event] = "RECEIVED" /\ Handling(p)
        BY <1>1, <4>1 DEF FrameOK, Received, Giving
      <4>3. ASSUME NEW q \in Procs, q # p, Handling(q)' PROVE proc'[q].event # d.event
        <5>1. proc'[q] = proc[q] /\ Handling(q) BY <4>3 DEF Moves, Handling
        <5>2. QED BY <4>1, <4>2, <4>3, <5>1 DEF BillingInv, OneAtWork
      <4>4. QED BY <4>1, <4>2, <4>3 DEF Unbooked
    <3>3. QED BY <3>1, <3>2
  <2>2. \A d \in payments' : d.op \in Successes => d \in given'
    BY <1>5 DEF BillingInv, BooksOK
  <2>3. QED BY <2>1, <2>2 DEF BooksOK
<1>15. QED BY <1>6, <1>10, <1>11, <1>12, <1>13, <1>14 DEF BillingInv


\* What updateStatus does to its caller.
LEMMA UpdateFrame ==
    ASSUME TypeOK, NEW p \in Procs, NEW s, NEW st, NEW e, NEW n \in Steps, NEW u, NEW i,
           RowOf(p) = <<u, i>>, UpdateStatus(p, s, st, e, n)
    PROVE  /\ Moves(p) /\ proc[p].step = s /\ proc'[p].step = n
           /\ proc'[p].op = proc[p].op /\ proc'[p].event = proc[p].event
           /\ proc'[p].user = u /\ (n = "payment" => proc'[p].sub = i)
           /\ RowIs(u, i, st, e) /\ Crosses(p)
           /\ UNCHANGED <<now, payments, webhook, credit, scheduled, sent, runs, requests>>
<1>1. proc[p] \in Frames /\ u = proc[p].user /\ i = proc[p].sub BY DEF TypeOK, RowOf
<1>2. proc' = [proc EXCEPT ![p].step = n, ![p].end = 0,
                           ![p].sub = IF n = "payment" THEN proc[p].sub ELSE 0]
  BY DEF UpdateStatus
<1>3. /\ Moves(p) /\ proc'[p].step = n /\ proc'[p].op = proc[p].op
      /\ proc'[p].event = proc[p].event /\ proc'[p].user = proc[p].user
      /\ (n = "payment" => proc'[p].sub = proc[p].sub)
  BY <1>1, <1>2 DEF TypeOK, Frames, Moves
<1>4. RowIs(u, i, st, e) BY <1>1 DEF UpdateStatus, RowIs
<1>5. QED BY <1>1, <1>3, <1>4 DEF UpdateStatus, At, gateway

\* The row that a handler is to write, and what it was when nobody crossed it.
LEMMA Target ==
    ASSUME BillingInv, NEW p \in Procs, WillWrite(p)
    PROVE  /\ TypeOK /\ FrameOK(p)
           /\ proc[p].user \in Users /\ proc[p].sub \in Nat
           /\ proc[p].sub \in DOMAIN subs[proc[p].user]
           /\ Row(p) \in Subscriptions
           /\ RowOK(proc[p].user, proc[p].sub)
           /\ RowOf(p) = <<proc[p].user, proc[p].sub>>
<1>1. TypeOK /\ FrameOK(p) BY DEF BillingInv, FramesOK
<1>2. proc[p].user \in Users /\ proc[p].sub \in DOMAIN subs[proc[p].user]
  BY <1>1, WriterWorks
<1>3. subs[proc[p].user] \in Seq(Subscriptions) BY <1>1, <1>2 DEF TypeOK
<1>4. QED BY <1>1, <1>2, <1>3, FrameTyped DEF Row, RowOf, BillingInv, RowsOK

\* A row that had started ends or runs out, and fits what was given for it.
LEMMA RowStays ==
    ASSUME BillingInv, NEW p \in Procs, proc[p].step \in {"expire", "grace", "cancelCurrent"},
           NEW u \in Users, NEW i \in Nat, u = proc[p].user, i = proc[p].sub,
           NEW st \in {"CANCELED", "EXPIRED"}, NEW e \in Nat, RowIs(u, i, st, e),
           e = subs[u][i].end \/ proc[p].step = "grace",
           proc[p].step = "expire" <=> st = "EXPIRED",
           Crosses(p), UNCHANGED <<given, payments>>
    PROVE  RowOK(u, i)'
<1>1. WillWrite(p) BY DEF WillWrite
<1>2. /\ TypeOK /\ FrameOK(p) /\ i \in DOMAIN subs[u] /\ Row(p) = subs[u][i]
      /\ RowOK(u, i) /\ RowOf(p) = <<u, i>>
  BY <1>1, Target DEF Row
<1>3. st \in Statuses BY DEF Statuses
<1>4. /\ DOMAIN subs'[u] = DOMAIN subs[u]
      /\ subs'[u][i].status = st /\ subs'[u][i].end = e
      /\ subs'[u][i].plan = subs[u][i].plan /\ subs'[u][i].start = subs[u][i].start
      /\ subs'[u][i].source = subs[u][i].source
  BY <1>2, <1>3, RowWritten
<1>5. subs[u][i].status # "PENDING" BY <1>1, <1>2 DEF FrameOK, RowKnown
<1>6. i \in BoughtAndStarted(u)' => i \in BoughtAndStarted(u)
  BY <1>2, <1>4, <1>5 DEF BoughtAndStarted
<1>7. ASSUME <<u, i>> \notin crossed' PROVE RowFits(u, i)'
  <2>1. RowOf(p) \notin crossed /\ <<u, i>> \notin crossed BY <1>2, <1>7 DEF Crosses
  <2>2. RowFits(u, i) BY <1>2, <2>1 DEF RowOK
  <2>3. Of(payments, u, i, "PAYMENT_REFUNDED") # {} => st = "EXPIRED"
    <3>1. CASE proc[p].step \in {"grace", "cancelCurrent"}
      <4>1. subs[u][i].status = "ACTIVE" BY <1>2, <2>1, <3>1 DEF FrameOK, Fresh
      <4>2. QED BY <2>2, <4>1 DEF RowFits
    <3>2. QED BY <3>1
  <2>4. PeriodFits(u, i)'
    <3>1. CASE e = subs[u][i].end BY <1>4, <2>2, <3>1 DEF RowFits, PeriodFits
    <3>2. CASE proc[p].step = "grace"
      <4>1. Of(payments, u, i, "PAYMENT_FAILED") # {} BY <1>2, <3>2 DEF FrameOK, Gift
      <4>2. QED BY <1>4, <4>1 DEF PeriodFits
    <3>3. QED BY <3>1, <3>2
  <2>5. QED BY <1>4, <2>2, <2>3, <2>4 DEF RowFits
<1>8. QED BY <1>2, <1>4, <1>6, <1>7 DEF RowOK

LEMMA ExpireStep ==
    ASSUME BillingInv, NEW p \in Procs, Expire(p)
    PROVE  BillingInv'
<1> DEFINE n == IF proc[p].op = "PAYMENT_REFUNDED" THEN "payment" ELSE "findFree"
<1>1. proc[p].step = "expire" /\ WillWrite(p) BY DEF Expire, UpdateStatus, At, WillWrite
<1>2. PICK u \in Users, i \in Nat :
        /\ u = proc[p].user /\ i = proc[p].sub /\ i \in DOMAIN subs[u] /\ Row(p) = subs[u][i]
        /\ Row(p) \in Subscriptions /\ RowOf(p) = <<u, i>>
  BY <1>1, Target DEF Row
<1>3. TypeOK /\ FrameOK(p) /\ n \in Steps BY <1>1, Target DEF Steps
<1> DEFINE e == subs[u][i].end
<1>4. e \in Nat BY <1>2 DEF Subscriptions
<1>5. UpdateStatus(p, "expire", "EXPIRED", e, n) /\ given' = given
  BY <1>2 DEF Expire, RowEnd
<1> HIDE DEF n, e
<1>6. /\ Moves(p) /\ proc'[p].step = n
      /\ proc'[p].op = proc[p].op /\ proc'[p].event = proc[p].event
      /\ proc'[p].user = u /\ (n = "payment" => proc'[p].sub = i)
      /\ RowIs(u, i, "EXPIRED", e) /\ Crosses(p)
      /\ UNCHANGED <<now, payments, webhook, credit, scheduled, sent, runs, requests>>
  BY <1>2, <1>3, <1>5, UpdateFrame
<1>7. RowOK(u, i)' BY <1>1, <1>2, <1>4, <1>5, <1>6, RowStays DEF e
<1>8. Handling(p)' => Handling(p) /\ proc'[p].event = proc[p].event
  BY <1>1, <1>6 DEF Handling
<1>9. FrameOK(p)'
  <2>1. i \in DOMAIN subs'[u] /\ subs'[u][i].status = "EXPIRED"
    BY <1>2, <1>3, <1>4, <1>6, RowWritten DEF Statuses
  <2>2. n = "findFree" \/ (n = "payment" /\ proc[p].op = "PAYMENT_REFUNDED") BY DEF n
  <2>3. Known(p)' BY <1>1, <1>3, <1>6, <2>2 DEF FrameOK, Known, Working
  <2>4. RowKnown(p)' BY <1>2, <1>6, <2>1, <2>2 DEF RowKnown, Row, WillWrite
  <2>5. Fresh(p)' BY <1>2, <1>6, <2>1, <2>2 DEF Fresh, Row
  <2>6. Gift(p)' BY <1>6, <2>2 DEF Gift, Giving, Successes
  <2>7. Received(p)' BY <1>3, <1>6, <1>8 DEF FrameOK, Received
  <2>8. QED BY <2>3, <2>4, <2>5, <2>6, <2>7 DEF FrameOK
<1>10. "EXPIRED" \in Statuses \ {"PENDING"} BY DEF Statuses
<1>11. QED BY <1>1, <1>2, <1>4, <1>5, <1>6, <1>7, <1>8, <1>9, <1>10, WriteStep

LEMMA GrantGraceStep ==
    ASSUME BillingInv, NEW p \in Procs, GrantGrace(p)
    PROVE  BillingInv'
<1> DEFINE e == now + Grace
<1>1. proc[p].step = "grace" /\ WillWrite(p) BY DEF GrantGrace, UpdateStatus, At, WillWrite
<1>2. PICK u \in Users, i \in Nat :
        /\ u = proc[p].user /\ i = proc[p].sub /\ i \in DOMAIN subs[u] /\ RowOf(p) = <<u, i>>
  BY <1>1, Target
<1>3. TypeOK /\ FrameOK(p) /\ "processed" \in Steps BY <1>1, Target DEF Steps
<1>4. e \in Nat BY <1>3, TimeAssumption DEF TypeOK
<1>5. UpdateStatus(p, "grace", "CANCELED", e, "processed") /\ given' = given
  BY DEF GrantGrace
<1> HIDE DEF e
<1>6. /\ Moves(p) /\ proc'[p].step = "processed"
      /\ proc'[p].op = proc[p].op /\ proc'[p].event = proc[p].event
      /\ RowIs(u, i, "CANCELED", e) /\ Crosses(p)
      /\ UNCHANGED <<now, payments, webhook, credit, scheduled, sent, runs, requests>>
  BY <1>2, <1>3, <1>5, UpdateFrame
<1>7. RowOK(u, i)' BY <1>1, <1>2, <1>4, <1>5, <1>6, RowStays
<1>8. Handling(p) /\ proc[p].op = "PAYMENT_FAILED"
  BY <1>1, <1>3 DEF Handling, FrameOK, Known, EventTypes
<1>9. FrameOK(p)'
  <2>1. Known(p)' BY <1>3, <1>6, <1>8 DEF FrameOK, Known, Working, EventTypes
  <2>2. RowKnown(p)' /\ Fresh(p)' BY <1>6 DEF RowKnown, Fresh, WillWrite
  <2>3. Gift(p)' BY <1>6 DEF Gift, Giving
  <2>4. Received(p)' BY <1>3, <1>6, <1>8 DEF FrameOK, Received
  <2>5. QED BY <2>1, <2>2, <2>3, <2>4 DEF FrameOK
<1>10. "CANCELED" \in Statuses \ {"PENDING"} BY DEF Statuses
<1>11. QED BY <1>1, <1>2, <1>4, <1>5, <1>6, <1>7, <1>8, <1>9, <1>10, WriteStep

LEMMA CancelCurrentStep ==
    ASSUME BillingInv, NEW p \in Procs, CancelCurrent(p)
    PROVE  BillingInv'
<1>1. proc[p].step = "cancelCurrent" /\ WillWrite(p) BY DEF CancelCurrent, At, WillWrite
<1>2. PICK u \in Users, i \in Nat :
        /\ u = proc[p].user /\ i = proc[p].sub /\ i \in DOMAIN subs[u] /\ Row(p) = subs[u][i]
        /\ Row(p) \in Subscriptions /\ RowOf(p) = <<u, i>>
  BY <1>1, Target DEF Row
<1>3. TypeOK /\ FrameOK(p) /\ proc[p] \in Frames BY <1>1, Target DEF TypeOK
<1> DEFINE e == subs[u][i].end
<1>4. e \in Nat BY <1>2 DEF Subscriptions
<1>5. RowIs(u, i, "CANCELED", e)
  <2>1. subs' = [subs EXCEPT ![u][i].status = "CANCELED"] BY <1>2 DEF CancelCurrent
  <2>2. subs[u][i] \in Subscriptions BY <1>2
  <2>3. [subs[u][i] EXCEPT !.status = "CANCELED"]
          = [subs[u][i] EXCEPT !.status = "CANCELED", !.end = e]
    BY <2>2 DEF Subscriptions
  <2>4. QED BY <2>1, <2>3 DEF RowIs
<1>6. /\ Crosses(p) /\ given' = given
      /\ UNCHANGED <<now, payments, webhook, credit, scheduled, sent, runs, requests>>
  BY DEF CancelCurrent, gateway
<1> HIDE DEF e
<1>7. RowOK(u, i)' BY <1>1, <1>2, <1>4, <1>5, <1>6, RowStays DEF e
<1>8. proc[p].op \in Requests /\ proc[p].op \notin EventTypes
  BY <1>1, <1>3 DEF FrameOK, Known, Requests, EventTypes
<1>9. Moves(p) /\ FrameOK(p)' /\ ~Handling(p)'
  <2>1. CASE proc[p].op = "cancel"
    <3>1. proc' = [proc EXCEPT ![p] = Idle]
      BY <1>8, <2>1 DEF CancelCurrent, Return, Finish, IsWebhook
    <3>2. QED BY <1>3, <3>1, IdleMoves, IdleOK
  <2>2. CASE proc[p].op # "cancel"
    <3>1. proc' = [proc EXCEPT ![p].step = "create", ![p].sub = 0] BY <2>2 DEF CancelCurrent
    <3>2. /\ Moves(p) /\ proc'[p].step = "create" /\ proc'[p].op = proc[p].op
          /\ proc'[p].user = u
      BY <1>2, <1>3, <3>1 DEF TypeOK, Frames, Moves, Steps
    <3>3. ~Handling(p)' BY <1>8, <3>2 DEF Handling
    <3>4. FrameOK(p)'
      BY <1>8, <3>2, <3>3 DEF FrameOK, Known, RowKnown, Fresh, Gift, Received, Giving, WillWrite
    <3>5. QED BY <3>2, <3>3, <3>4
  <2>3. QED BY <2>1, <2>2
<1>10. "CANCELED" \in Statuses \ {"PENDING"} BY DEF Statuses
<1>11. QED BY <1>1, <1>2, <1>4, <1>5, <1>6, <1>7, <1>9, <1>10, WriteStep

\* A handler that gives a period knows its payment, and records it next.
LEMMA GiverOK ==
    ASSUME BillingInv, NEW p \in Procs, proc[p].step \in {"activate", "extend"},
           NEW u \in Users, NEW i \in Nat, u = proc[p].user, i = proc[p].sub,
           NEW e \in Nat, RowIs(u, i, "ACTIVE", e),
           proc'[p].step = "payment", proc'[p].user = u, proc'[p].sub = i,
           proc'[p].op = proc[p].op, proc'[p].event = proc[p].event,
           given' = given \cup {Deed(p)}, UNCHANGED webhook
    PROVE  /\ Giving(p) /\ Deed(p)' = Deed(p) /\ FrameOK(p)'
           /\ Handling(p)' => Handling(p) /\ proc'[p].event = proc[p].event
<1>1. WillWrite(p) BY DEF WillWrite
<1>2. TypeOK /\ FrameOK(p) /\ i \in DOMAIN subs[u] BY <1>1, Target
<1>3. Giving(p) /\ Handling(p) /\ proc[p].op \in Successes /\ proc[p].op \in EventTypes
  BY <1>2 DEF FrameOK, Known, Giving, Handling, Successes, EventTypes
<1>4. Deed(p)' = Deed(p) BY DEF Deed
<1>5. i \in DOMAIN subs'[u] BY <1>2, RowWritten DEF Statuses
<1>6. Known(p)' BY <1>2, <1>3 DEF FrameOK, Known, Working
<1>7. RowKnown(p)' /\ Fresh(p)' BY <1>3, <1>5 DEF RowKnown, Fresh, WillWrite, Successes
<1>8. Gift(p)' BY <1>4 DEF Gift, Giving
<1>9. Received(p)' BY <1>2, <1>3 DEF FrameOK, Received
<1>10. QED BY <1>3, <1>4, <1>6, <1>7, <1>8, <1>9 DEF FrameOK

LEMMA ActivateStep ==
    ASSUME BillingInv, NEW p \in Procs, Activate(p)
    PROVE  BillingInv'
<1>1. proc[p].step = "activate" /\ WillWrite(p) BY DEF Activate, UpdateStatus, At, WillWrite
<1>2. PICK u \in Users, i \in Nat :
        /\ u = proc[p].user /\ i = proc[p].sub /\ i \in DOMAIN subs[u] /\ Row(p) = subs[u][i]
        /\ Row(p) \in Subscriptions /\ RowOf(p) = <<u, i>> /\ RowOK(u, i)
  BY <1>1, Target DEF Row
<1>3. TypeOK /\ FrameOK(p) /\ "payment" \in Steps BY <1>1, Target DEF Steps
<1> DEFINE e == subs[u][i].end
           D == Deed(p)
<1>4. e \in Nat BY <1>2 DEF Subscriptions
<1>5. UpdateStatus(p, "activate", "ACTIVE", e, "payment") /\ given' = given \cup {D}
  BY <1>2 DEF Activate, RowEnd
<1> HIDE DEF e
<1>6. /\ Moves(p) /\ proc'[p].step = "payment"
      /\ proc'[p].op = proc[p].op /\ proc'[p].event = proc[p].event
      /\ proc'[p].user = u /\ proc'[p].sub = i
      /\ RowIs(u, i, "ACTIVE", e) /\ Crosses(p)
      /\ UNCHANGED <<now, payments, webhook, credit, scheduled, sent, runs, requests>>
  BY <1>2, <1>3, <1>5, UpdateFrame
<1>7. Giving(p) /\ Deed(p)' = Deed(p) /\ FrameOK(p)'
      /\ (Handling(p)' => Handling(p) /\ proc'[p].event = proc[p].event)
  BY <1>1, <1>2, <1>4, <1>5, <1>6, GiverOK
<1>8. D.user = u /\ D.sub = i /\ D.op = "PAYMENT_COMPLETED"
  BY <1>1, <1>2, <1>3 DEF Deed, FrameOK, Known
<1> HIDE DEF D
<1>9. RowOK(u, i)'
  <2>1. /\ DOMAIN subs'[u] = DOMAIN subs[u]
        /\ subs'[u][i].status = "ACTIVE" /\ subs'[u][i].end = subs[u][i].end
        /\ subs'[u][i].start = subs[u][i].start
    BY <1>2, <1>3, <1>4, <1>6, RowWritten DEF Statuses, e
  <2>2. D \in Of(given', u, i, "PAYMENT_COMPLETED") BY <1>5, <1>8 DEF Of
  <2>3. Of(given', u, i, "SUBSCRIPTION_RENEWED") = Of(given, u, i, "SUBSCRIPTION_RENEWED")
    BY <1>5, <1>8 DEF Of
  <2>4. ASSUME <<u, i>> \notin crossed' PROVE RowFits(u, i)'
    <3>1. RowOf(p) \notin crossed /\ <<u, i>> \notin crossed BY <1>2, <1>6, <2>4 DEF Crosses
    <3>2. subs[u][i].status = "PENDING" BY <1>1, <1>2, <1>3, <3>1 DEF FrameOK, Fresh
    <3>3. Of(given, u, i, "PAYMENT_COMPLETED") = {} BY <1>2, <3>2 DEF RowOK
    <3>4. Of(given', u, i, "PAYMENT_COMPLETED") = {D} BY <1>5, <2>2, <3>3 DEF Of
    <3>5. Cardinality({D}) = 1 BY FS_Singleton
    <3>6. RowFits(u, i) BY <1>2, <3>1 DEF RowOK
    <3>7. PeriodFits(u, i)' BY <1>6, <2>1, <2>3, <3>2, <3>6 DEF RowFits, PeriodFits
    <3>8. Of(payments, u, i, "PAYMENT_REFUNDED") = {} BY <3>2, <3>6 DEF RowFits
    <3>9. QED BY <1>6, <3>4, <3>5, <3>7, <3>8 DEF RowFits
  <2>5. QED BY <2>1, <2>2, <2>4 DEF RowOK
<1>10. "ACTIVE" \in Statuses \ {"PENDING"} BY DEF Statuses
<1>11. QED BY <1>1, <1>2, <1>4, <1>5, <1>6, <1>7, <1>9, <1>10, WriteStep DEF D

LEMMA ExtendStep ==
    ASSUME BillingInv, NEW p \in Procs, Extend(p)
    PROVE  BillingInv'
<1>1. proc[p].step = "extend" /\ WillWrite(p) BY DEF Extend, UpdateStatus, At, WillWrite
<1>2. PICK u \in Users, i \in Nat :
        /\ u = proc[p].user /\ i = proc[p].sub /\ i \in DOMAIN subs[u] /\ Row(p) = subs[u][i]
        /\ Row(p) \in Subscriptions /\ RowOf(p) = <<u, i>> /\ RowOK(u, i)
  BY <1>1, Target DEF Row
<1>3. TypeOK /\ FrameOK(p) /\ "payment" \in Steps /\ proc[p].end \in Nat
  BY <1>1, Target, FrameTyped DEF Steps
<1> DEFINE e == proc[p].end + Cycle
           D == Deed(p)
<1>4. e \in Nat BY <1>3, TimeAssumption
<1>5. UpdateStatus(p, "extend", "ACTIVE", e, "payment") /\ given' = given \cup {D}
  BY DEF Extend
<1> HIDE DEF e
<1>6. /\ Moves(p) /\ proc'[p].step = "payment"
      /\ proc'[p].op = proc[p].op /\ proc'[p].event = proc[p].event
      /\ proc'[p].user = u /\ proc'[p].sub = i
      /\ RowIs(u, i, "ACTIVE", e) /\ Crosses(p)
      /\ UNCHANGED <<now, payments, webhook, credit, scheduled, sent, runs, requests>>
  BY <1>2, <1>3, <1>5, UpdateFrame
<1>7. Giving(p) /\ Deed(p)' = Deed(p) /\ FrameOK(p)'
      /\ (Handling(p)' => Handling(p) /\ proc'[p].event = proc[p].event)
  BY <1>1, <1>2, <1>4, <1>5, <1>6, GiverOK
<1>8. D.user = u /\ D.sub = i /\ D.op = "SUBSCRIPTION_RENEWED" /\ D \notin given
  BY <1>1, <1>2, <1>3, <1>7, GiftNew DEF Deed, FrameOK, Known
<1> HIDE DEF D
<1>9. RowOK(u, i)'
  <2> DEFINE R == Of(given, u, i, "SUBSCRIPTION_RENEWED")
  <2>1. /\ DOMAIN subs'[u] = DOMAIN subs[u]
        /\ subs'[u][i].status = "ACTIVE" /\ subs'[u][i].end = e
        /\ subs'[u][i].plan = subs[u][i].plan /\ subs'[u][i].start = subs[u][i].start
        /\ subs'[u][i].source = subs[u][i].source
    BY <1>2, <1>3, <1>4, <1>6, RowWritten DEF Statuses
  <2>2. Of(given', u, i, "PAYMENT_COMPLETED") = Of(given, u, i, "PAYMENT_COMPLETED")
    BY <1>5, <1>8 DEF Of
  <2>3. Of(given', u, i, "SUBSCRIPTION_RENEWED") = R \cup {D} /\ D \notin R
    BY <1>5, <1>8 DEF Of
  <2>4. IsFiniteSet(R)
    <3>1. R \subseteq given BY DEF Of
    <3>2. QED BY <3>1, FS_Subset DEF BillingInv, DeedsOK
  <2>5. Cardinality(R) \in Nat /\ Cardinality(R \cup {D}) = Cardinality(R) + 1
    BY <2>3, <2>4, FS_CardinalityType, FS_AddElement
  <2> HIDE DEF R
  <2>6. i \in BoughtAndStarted(u)' => i \in BoughtAndStarted(u)
    <3>1. subs[u][i].status # "PENDING" BY <1>1, <1>2, <1>3 DEF FrameOK, RowKnown
    <3>2. QED BY <1>2, <2>1, <3>1 DEF BoughtAndStarted
  <2>7. ASSUME <<u, i>> \notin crossed' PROVE RowFits(u, i)'
    <3>1. RowOf(p) \notin crossed /\ <<u, i>> \notin crossed BY <1>2, <1>6, <2>7 DEF Crosses
    <3>2. subs[u][i].status = "ACTIVE" /\ subs[u][i].end = proc[p].end
      BY <1>1, <1>2, <1>3, <3>1 DEF FrameOK, Fresh
    <3>3. RowFits(u, i) BY <1>2, <3>1 DEF RowOK
    <3>4. PeriodFits(u, i)'
      <4>1. subs[u][i].end = subs[u][i].start + Cycle * (1 + Cardinality(R))
        BY <3>2, <3>3 DEF RowFits, PeriodFits, R
      <4>2. subs[u][i].start \in Nat BY <1>2 DEF Subscriptions
      <4> DEFINE c == Cardinality(R)
      <4>3. c \in Nat /\ Cardinality(R \cup {D}) = c + 1 BY <2>5
      <4>4. subs[u][i].end = subs[u][i].start + Cycle * (1 + c) BY <4>1
      <4> HIDE DEF c
      <4>5. Cycle * (1 + (c + 1)) = Cycle * (1 + c) + Cycle BY <4>3, TimeAssumption
      <4>6. Cycle * (1 + c) \in Nat BY <4>3, TimeAssumption
      <4>7. e = subs[u][i].start + Cycle * (1 + (c + 1))
        BY <3>2, <4>2, <4>4, <4>5, <4>6, TimeAssumption DEF e
      <4>8. QED BY <2>1, <2>3, <4>3, <4>7 DEF PeriodFits
    <3>5. Of(payments, u, i, "PAYMENT_REFUNDED") = {} BY <3>2, <3>3 DEF RowFits
    <3>6. QED BY <1>6, <2>2, <3>3, <3>4, <3>5 DEF RowFits
  <2>8. i \in BoughtAndStarted(u)' => Of(given, u, i, "PAYMENT_COMPLETED") # {}
    BY <1>2, <2>6 DEF RowOK
  <2>9. QED BY <2>1, <2>2, <2>7, <2>8 DEF RowOK
<1>10. "ACTIVE" \in Statuses \ {"PENDING"} BY DEF Statuses
<1>11. QED BY <1>1, <1>2, <1>4, <1>5, <1>6, <1>7, <1>9, <1>10, WriteStep DEF D

\* A new row has no history.
LEMMA InsertStep ==
    ASSUME BillingInv, NEW p \in Procs, NEW u \in Users, NEW r \in Subscriptions, Append1(u, r),
           r.end = r.start + Cycle,
           r.status = "PENDING" \/ r.plan = FreePlan \/ r.source = "ADMIN_GRANT",
           Moves(p), FrameOK(p)', proc[p].step \notin {"payment", "failed"},
           Handling(p)' => Handling(p) /\ proc'[p].event = proc[p].event,
           UNCHANGED <<now, payments, webhook, credit, gateway, history, requests>>
    PROVE  BillingInv'
<1>1. /\ TypeOK /\ subs' = [subs EXCEPT ![u] = Append(@, r)]
      /\ subs \in [Users -> Seq(Subscriptions)]
  BY DEF BillingInv, TypeOK, Append1
<1>0. PICK n \in Nat : n = Len(subs[u]) + 1 BY <1>1
<1>2. /\ subs' \in [Users -> Seq(Subscriptions)]
      /\ \A v \in Users : v # u => subs'[v] = subs[v]
      /\ DOMAIN subs[u] = 1..Len(subs[u]) /\ DOMAIN subs'[u] = 1..n
      /\ n \in Nat /\ n \notin DOMAIN subs[u] /\ DOMAIN subs'[u] = DOMAIN subs[u] \cup {n}
      /\ \A j \in DOMAIN subs[u] : subs'[u][j] = subs[u][j]
      /\ subs'[u][n] = r
  <2>1. subs'[u] = Append(subs[u], r) /\ \A v \in Users : v # u => subs'[v] = subs[v]
    BY <1>1
  <2>2. subs[u] \in Seq(Subscriptions) /\ Len(subs[u]) \in Nat BY <1>1
  <2>3. QED BY <1>0, <1>1, <2>1, <2>2
<1>3. UNCHANGED <<now, payments, webhook, credit, scheduled, sent, runs, given, crossed, requests>>
  BY DEF gateway, history
<1>4. TypeOK' BY <1>1, <1>2, <1>3 DEF TypeOK, Moves
<1>5. Writes(p) BY <1>2 DEF Writes
<1>6. Marks(p) /\ Begins(p) BY <1>3 DEF Marks, Begins
<1>7. FramesOK' /\ OneAtWork' BY <1>5, <1>6, FramesKept
<1>8. StoredFirst' BY <1>3 DEF BillingInv, StoredFirst
<1>9. \A d \in given \cup payments : d.user \in Users /\ d.sub \in DOMAIN subs[d.user]
  BY <1>1 DEF BillingInv, DeedsOK, TypeOK, Deeds
<1>10. RowsOK'
  <2>1. ASSUME NEW v \in Users, NEW j \in DOMAIN subs'[v], <<v, j>> # <<u, n>> PROVE RowOK(v, j)'
    <3>1. j \in DOMAIN subs[v] /\ subs'[v][j] = subs[v][j] BY <1>2, <2>1
    <3>2. RowOK(v, j) BY <3>1 DEF BillingInv, RowsOK
    <3>3. j \in BoughtAndStarted(v)' <=> j \in BoughtAndStarted(v)
      BY <3>1 DEF BoughtAndStarted
    <3>4. QED BY <1>3, <3>1, <3>2, <3>3 DEF RowOK, RowFits, PeriodFits
  <2>2. RowOK(u, n)'
    <3>1. \A op : Of(given, u, n, op) = {} /\ Of(payments, u, n, op) = {}
      BY <1>2, <1>9 DEF Of
    <3>2. Cardinality({}) = 0 BY FS_EmptySet
    <3>3. n \notin BoughtAndStarted(u)' BY <1>2, PlansAssumption DEF BoughtAndStarted
    <3>4. Cycle * (1 + 0) = Cycle BY TimeAssumption
    <3>5. PeriodFits(u, n)' BY <1>2, <1>3, <3>1, <3>2, <3>4 DEF PeriodFits
    <3>6. RowFits(u, n)'
      <4>1. Of(given', u, n, "PAYMENT_COMPLETED") = {} BY <1>3, <3>1
      <4>2. Of(payments', u, n, "PAYMENT_REFUNDED") = {} BY <1>3, <3>1
      <4>3. Cardinality(Of(given', u, n, "PAYMENT_COMPLETED")) <= 1 BY <3>2, <4>1
      <4>4. QED BY <3>5, <4>2, <4>3 DEF RowFits
    <3>7. QED BY <1>3, <3>1, <3>3, <3>6 DEF RowOK
  <2>3. QED BY <2>1, <2>2 DEF RowsOK
<1>11. DeedsOK'
  BY <1>2, <1>3, <1>9 DEF BillingInv, DeedsOK
<1>12. BooksOK'
  BY <1>3, <1>6, UnbookedKept DEF BillingInv, BooksOK
<1>13. QED BY <1>4, <1>7, <1>8, <1>10, <1>11, <1>12 DEF BillingInv

LEMMA CreatePlanStep ==
    ASSUME BillingInv, NEW p \in Procs, CreatePlan(p)
    PROVE  BillingInv'
<1> DEFINE u == proc[p].user
           granted == proc[p].op = "grant"
           r == [plan |-> proc[p].plan, start |-> now, end |-> now + Cycle,
                 status |-> IF granted THEN "ACTIVE" ELSE "PENDING",
                 source |-> IF granted THEN "ADMIN_GRANT" ELSE "PAYMENT"]
<1>1. TypeOK /\ FrameOK(p) /\ proc[p].step = "create" BY DEF BillingInv, FramesOK, CreatePlan, At
<1>2. u \in Users /\ proc[p].op \in Requests /\ proc[p].op \notin EventTypes
  BY <1>1 DEF FrameOK, Known, Working, Requests, EventTypes
<1>3. /\ r \in Subscriptions /\ r.end = r.start + Cycle
      /\ r.status = "PENDING" \/ r.source = "ADMIN_GRANT"
  <2>1. proc[p].plan \in Plans /\ now \in Nat /\ now + Cycle \in Nat
    BY <1>1, FrameTyped, TimeAssumption DEF TypeOK
  <2>2. QED BY <2>1 DEF Subscriptions, Statuses
<1>4. Append1(u, r) /\ UNCHANGED <<now, payments, webhook, credit, gateway, history, requests>>
  BY DEF CreatePlan
<1> HIDE DEF r
<1>5. Moves(p) /\ FrameOK(p)' /\ ~Handling(p)'
  <2>1. CASE granted
    <3>1. Goto(p, "refill") /\ "refill" \in Steps BY <2>1 DEF CreatePlan, Steps
    <3>2. /\ Moves(p) /\ proc'[p].step = "refill" /\ proc'[p].op = proc[p].op
          /\ proc'[p].user = u
      BY <1>1, <3>1, GotoTyped
    <3>3. ~Handling(p)' BY <1>2, <3>2 DEF Handling
    <3>4. FrameOK(p)'
      BY <1>2, <3>2, <3>3 DEF FrameOK, Known, RowKnown, Fresh, Gift, Received, Giving, WillWrite
    <3>5. QED BY <3>2, <3>3, <3>4
  <2>2. CASE ~granted
    <3>1. proc' = [proc EXCEPT ![p] = Idle]
      BY <1>2, <2>2 DEF CreatePlan, Return, Finish, IsWebhook
    <3>2. QED BY <1>1, <3>1, IdleMoves, IdleOK
  <2>3. QED BY <2>1, <2>2
<1>6. QED BY <1>1, <1>2, <1>3, <1>4, <1>5, InsertStep

LEMMA CreateFreeStep ==
    ASSUME BillingInv, NEW p \in Procs, CreateFree(p)
    PROVE  BillingInv'
<1> DEFINE u == proc[p].user
           r == [plan |-> FreePlan, start |-> now, end |-> now + Cycle,
                 status |-> "ACTIVE", source |-> "PAYMENT"]
<1>1. /\ TypeOK /\ FrameOK(p) /\ proc[p].step = "createFree" /\ "refill" \in Steps
  BY DEF BillingInv, FramesOK, CreateFree, At, Steps
<1>2. u \in Users BY <1>1 DEF FrameOK, Known, Working
<1>3. r \in Subscriptions /\ r.end = r.start + Cycle /\ r.plan = FreePlan
  BY <1>1, TimeAssumption DEF TypeOK, Subscriptions, Statuses, Plans
<1>4. Append1(u, r) /\ UNCHANGED <<now, payments, webhook, credit, gateway, history, requests>>
  BY DEF CreateFree
<1> HIDE DEF r
<1>5. /\ Moves(p) /\ proc'[p].step = "refill" /\ proc'[p].op = proc[p].op
      /\ proc'[p].user = u /\ proc'[p].event = proc[p].event
  BY <1>1, GotoTyped DEF CreateFree
<1>6. Handling(p)' => Handling(p) /\ proc'[p].event = proc[p].event
  BY <1>1, <1>5 DEF Handling
<1>7. FrameOK(p)'
  <2>1. Known(p)' BY <1>1, <1>2, <1>5 DEF FrameOK, Known
  <2>2. RowKnown(p)' /\ Fresh(p)' /\ Gift(p)'
    BY <1>5 DEF RowKnown, Fresh, WillWrite, Gift, Giving
  <2>3. Received(p)' BY <1>1, <1>4, <1>5, <1>6 DEF FrameOK, Received
  <2>4. QED BY <2>1, <2>2, <2>3 DEF FrameOK
<1>8. QED BY <1>1, <1>2, <1>3, <1>4, <1>5, <1>6, <1>7, InsertStep

\* The payment of a deed is booked.
LEMMA RecordStep ==
    ASSUME BillingInv, NEW p \in Procs, RecordPayment(p)
    PROVE  BillingInv'
<1> DEFINE D == Deed(p)
           s == AfterPayment(p)
<1>1. /\ TypeOK /\ FrameOK(p) /\ proc[p].step = "payment" /\ proc[p] \in Frames
      /\ proc[p].op \in Successes \cup {"PAYMENT_REFUNDED", "PAYMENT_FAILED"}
  BY DEF BillingInv, FramesOK, RecordPayment, At, FrameOK, Known, TypeOK
<1>2. PICK u \in Users, i \in Nat :
        /\ u = proc[p].user /\ i = proc[p].sub /\ i \in DOMAIN subs[u] /\ RowOf(p) = <<u, i>>
        /\ RowOK(u, i)
  BY <1>1, WriterWorks, FrameTyped DEF RowOf, BillingInv, RowsOK
<1>3. /\ Handling(p) /\ proc[p].op \in EventTypes /\ proc[p].event \in Events
      /\ webhook[proc[p].event] = "RECEIVED"
  BY <1>1 DEF Handling, FrameOK, Known, Received, Successes, EventTypes
<1>4. D \in Deeds /\ D.user = u /\ D.sub = i /\ D.op = proc[p].op /\ D.event = proc[p].event
  BY <1>2, <1>3 DEF Deed, Deeds
<1>5. /\ s \in {"refill", "processed", "findFree", "grace", "expire"}
      /\ s \in {"grace", "expire"} <=> proc[p].op = "PAYMENT_FAILED"
  BY <1>1 DEF AfterPayment, Successes
<1>6. /\ payments' = payments \cup {D}
      /\ UNCHANGED <<now, subs, webhook, credit, scheduled, sent, runs, given, crossed, requests>>
      /\ proc' = [proc EXCEPT ![p].step = s,
                              ![p].sub = IF proc[p].op = "PAYMENT_FAILED" THEN proc[p].sub ELSE 0]
  BY DEF RecordPayment, gateway, history
<1> HIDE DEF s
<1>7. /\ Moves(p) /\ proc'[p].step = s /\ proc'[p].op = proc[p].op /\ proc'[p].user = u
      /\ proc'[p].event = proc[p].event
      /\ (proc[p].op = "PAYMENT_FAILED" => proc'[p].sub = i)
  <2>1. s \in Steps BY <1>5 DEF Steps
  <2>2. QED BY <1>1, <1>2, <1>6, <2>1 DEF TypeOK, Frames, Moves
<1>8. TypeOK' BY <1>1, <1>4, <1>6, <1>7 DEF TypeOK, Moves
<1>9. Writes(p) /\ Marks(p) BY <1>6 DEF Writes, Marks
<1>10. Begins(p) BY <1>3, <1>7 DEF Begins
<1>11. FrameOK(p)'
  <2>1. Known(p)' BY <1>2, <1>3, <1>5, <1>7 DEF Known
  <2>2. CASE proc[p].op = "PAYMENT_FAILED"
    <3>1. WillWrite(p) /\ subs[u][i].status # "PENDING"
      BY <1>1, <1>2, <2>2 DEF WillWrite, FrameOK, RowKnown, Row
    <3>2. RowKnown(p)' BY <1>2, <1>6, <1>7, <2>2, <3>1 DEF RowKnown, Row
    <3>3. <<u, i>> \notin crossed => subs[u][i].status = "ACTIVE"
      BY <1>1, <1>2, <2>2 DEF FrameOK, Fresh, Row
    <3>4. Fresh(p)'
      <4>1. RowOf(p)' = <<u, i>> /\ Row(p)' = subs[u][i] BY <1>6, <1>7, <2>2 DEF Row, RowOf
      <4>2. <<u, i>> \notin crossed' => Row(p)'.status = "ACTIVE" BY <1>6, <3>3, <4>1
      <4>3. s \in {"grace", "expire"} BY <1>5, <2>2
      <4>4. QED BY <1>7, <4>1, <4>2, <4>3 DEF Fresh
    <3>5. D \in Of(payments', u, i, "PAYMENT_FAILED") BY <1>4, <1>6, <2>2 DEF Of
    <3>6. Gift(p)' BY <1>5, <1>7, <2>2, <3>5 DEF Gift, Giving
    <3>7. QED BY <3>2, <3>4, <3>6, <2>1, <1>3, <1>6, <1>7 DEF FrameOK, Received
  <2>3. CASE proc[p].op # "PAYMENT_FAILED"
    <3>1. s \in {"refill", "processed", "findFree"} BY <1>5, <2>3
    <3>2. RowKnown(p)' /\ Fresh(p)' /\ Gift(p)'
      BY <1>7, <3>1 DEF RowKnown, Fresh, Gift, Giving, WillWrite
    <3>3. QED BY <2>1, <3>2, <1>3, <1>6, <1>7 DEF FrameOK, Received
  <2>4. QED BY <2>2, <2>3
<1>12. FramesOK' /\ OneAtWork' BY <1>7, <1>9, <1>10, <1>11, FramesKept
<1>13. StoredFirst' BY <1>6 DEF BillingInv, StoredFirst
<1>14. RowsOK'
  <2>1. ASSUME NEW v \in Users, NEW j \in DOMAIN subs[v] PROVE RowOK(v, j)'
    <3>1. RowOK(v, j) BY DEF BillingInv, RowsOK
    <3>2. ASSUME <<v, j>> \notin crossed PROVE RowFits(v, j)'
      <4>1. RowFits(v, j) BY <3>1, <3>2 DEF RowOK
      <4>2. PeriodFits(v, j)'
        <5>1. Of(payments, v, j, "PAYMENT_FAILED") \subseteq Of(payments', v, j, "PAYMENT_FAILED")
          BY <1>6 DEF Of
        <5>2. PeriodFits(v, j) BY <4>1 DEF RowFits
        <5>3. QED BY <1>6, <5>1, <5>2 DEF PeriodFits
      <4>3. Of(payments', v, j, "PAYMENT_REFUNDED") # {} => subs[v][j].status = "EXPIRED"
        <5>1. CASE D \in Of(payments', v, j, "PAYMENT_REFUNDED")
          <6>1. v = u /\ j = i /\ proc[p].op = "PAYMENT_REFUNDED" BY <1>4, <5>1 DEF Of
          <6>2. RowOf(p) \notin crossed BY <1>2, <3>2, <6>1
          <6>3. QED BY <1>1, <1>2, <6>1, <6>2 DEF FrameOK, Fresh, Row
        <5>2. CASE D \notin Of(payments', v, j, "PAYMENT_REFUNDED")
          <6>1. Of(payments', v, j, "PAYMENT_REFUNDED") = Of(payments, v, j, "PAYMENT_REFUNDED")
            BY <1>6, <5>2 DEF Of
          <6>2. QED BY <4>1, <6>1 DEF RowFits
        <5>3. QED BY <5>1, <5>2
      <4>4. QED BY <1>6, <4>1, <4>2, <4>3 DEF RowFits
    <3>3. QED BY <1>6, <3>1, <3>2 DEF RowOK, BoughtAndStarted
  <2>2. QED BY <1>6, <2>1 DEF RowsOK
<1>15. DeedsOK'
  BY <1>2, <1>4, <1>6 DEF BillingInv, DeedsOK
<1>16. BooksOK'
  <2>1. ASSUME NEW d \in given \ payments, d # D PROVE Unbooked(d)'
    BY <1>1, <1>6, <1>7, <1>9, <1>10, <2>1, UnbookedKept
  <2>2. D.op \in Successes => D \in given BY <1>1, <1>4 DEF FrameOK, Gift
  <2>3. \A d \in payments' : d.op \in Successes => d \in given'
    BY <1>6, <2>2 DEF BillingInv, BooksOK
  <2>4. QED BY <1>6, <2>1, <2>3 DEF BooksOK
<1>17. QED BY <1>8, <1>12, <1>13, <1>14, <1>15, <1>16 DEF BillingInv

LEMMA RefillStep ==
    ASSUME BillingInv, NEW p \in Procs, Refill(p)
    PROVE  BillingInv'
<1>1. /\ TypeOK /\ FrameOK(p) /\ proc[p].step = "refill" /\ proc[p].plan \in Plans
      /\ proc[p].user \in Users
  BY FrameTyped DEF BillingInv, FramesOK, Refill, At, FrameOK, Known, Working
<1>2. /\ UNCHANGED <<now, subs, payments, webhook, scheduled, sent, runs, given, crossed, requests>>
      /\ credit' = credit \/ credit' = [credit EXCEPT ![proc[p].user] = proc[p].plan]
      /\ \E s \in {"processed", "failed"} : Finish(p, s)
  BY DEF Refill, gateway, history, Throw, Return
<1>3. /\ Moves(p) /\ FrameOK(p)'
      /\ Handling(p)' => Handling(p) /\ proc'[p].event = proc[p].event
  BY <1>1, <1>2, Finished
<1>4. TypeOK' BY <1>1, <1>2, <1>3 DEF TypeOK, Moves
<1>5. StoredFirst' BY <1>2 DEF BillingInv, StoredFirst
<1>6. QED BY <1>1, <1>2, <1>3, <1>4, <1>5, Quiet DEF Begins

-----------------------------------------------------------------------------
(* Marks, failures and time.                                               *)

LEMMA MarkStep ==
    ASSUME BillingInv, NEW p \in Procs, MarkProcessed(p) \/ MarkFailed(p)
    PROVE  BillingInv'
<1>1. PICK s \in {"PROCESSED", "FAILED"} :
        /\ webhook' = [webhook EXCEPT ![proc[p].event] = s]
        /\ proc[p].step = IF s = "PROCESSED" THEN "processed" ELSE "failed"
  BY DEF MarkProcessed, MarkFailed, At
<1>2. /\ proc' = [proc EXCEPT ![p] = Idle]
      /\ UNCHANGED <<now, subs, payments, credit, scheduled, sent, runs, given, crossed, requests>>
  BY DEF MarkProcessed, MarkFailed, gateway, history
<1>3. TypeOK /\ FrameOK(p) BY DEF BillingInv, FramesOK
<1>4. Moves(p) /\ proc'[p] = Idle BY <1>2, <1>3, IdleMoves
<1>5. FrameOK(p)' /\ ~Handling(p)' /\ proc'[p].step = "idle" BY <1>4, IdleOK, IdleTyped
<1>6. proc[p].event \in Events /\ Handling(p)
  BY <1>1, <1>3 DEF FrameOK, Known, Handling
<1>7. webhook'[proc[p].event] = s /\ \A e \in Events : e # proc[p].event => webhook'[e] = webhook[e]
  BY <1>1, <1>3, <1>6 DEF TypeOK
<1>8. TypeOK' BY <1>1, <1>2, <1>3, <1>4, <1>6 DEF TypeOK, Moves
<1>9. StoredFirst' BY <1>2, <1>7 DEF BillingInv, StoredFirst
<1>10. \A e \in Events :
          /\ webhook'[e] = webhook[e] \/ (Handling(p) /\ e = proc[p].event /\ webhook'[e] # "none")
          /\ webhook'[e] = "PROCESSED" =>
                webhook[e] = "PROCESSED" \/ proc[p].step = "processed"
  BY <1>1, <1>6, <1>7
<1>11. QED BY <1>2, <1>4, <1>5, <1>8, <1>9, <1>10, Quiet DEF Begins

LEMMA FailStep ==
    ASSUME BillingInv, NEW p \in Procs, DatabaseError(p) \/ Crash(p)
    PROVE  BillingInv'
<1>1. /\ UNCHANGED <<now, subs, payments, webhook, credit, scheduled, sent, history, requests>>
      /\ proc[p].step # "idle"
  BY DEF DatabaseError, Crash, rows, gateway
<1>2. \/ proc' = [proc EXCEPT ![p] = Idle]
      \/ proc[p].step \notin {"store", "failed"} /\ Finish(p, "failed")
  BY DEF DatabaseError, Crash, Throw
<1>3. CASE proc' = [proc EXCEPT ![p] = Idle] BY <1>1, <1>3, StopStep
<1>4. CASE proc[p].step \notin {"store", "failed"} /\ Finish(p, "failed")
  BY <1>1, <1>4, EndStep
<1>5. QED BY <1>2, <1>3, <1>4

\* Nothing moves but the clock or a balance.
LEMMA StillStep ==
    ASSUME BillingInv, TypeOK',
           UNCHANGED <<subs, payments, webhook, runs, given, crossed, proc>>
    PROVE  BillingInv'
<1>1. StoredFirst' BY DEF BillingInv, StoredFirst
<1>2. FramesOK'
  BY DEF BillingInv, FramesOK, FrameOK, Known, RowKnown, Fresh, Gift, Received, Working, Handling,
         Giving, WillWrite, Row, RowOf, Deed, Of
<1>3. OneAtWork' BY DEF BillingInv, OneAtWork, Handling
<1>4. RowsOK' BY DEF BillingInv, RowsOK, RowOK, RowFits, PeriodFits, BoughtAndStarted
<1>5. DeedsOK' BY DEF BillingInv, DeedsOK
<1>6. BooksOK' BY DEF BillingInv, BooksOK, Unbooked, Handling, Deed
<1>7. QED BY <1>1, <1>2, <1>3, <1>4, <1>5, <1>6 DEF BillingInv

LEMMA HandleStep ==
    ASSUME BillingInv, NEW p \in Procs, Handle(p)
    PROVE  BillingInv'
<1>1. CASE StoreEvent(p)
  <2>1. CASE webhook[proc[p].event] = "none" BY <1>1, <2>1, StoreStep
  <2>2. CASE webhook[proc[p].event] # "none"
    <3>1. proc' = [proc EXCEPT ![p] = Idle]
          /\ UNCHANGED <<now, subs, payments, webhook, credit, scheduled, sent, history, requests>>
      BY <1>1, <2>2 DEF StoreEvent, rows, gateway
    <3>2. QED BY <3>1, StopStep
  <2>3. QED BY <2>1, <2>2
<1>2. CASE FindPending(p) BY <1>2, FindPendingStep
<1>3. CASE FindActive(p) BY <1>3, FindActiveStep
<1>4. CASE FindCanceled(p) BY <1>4, FindCanceledStep
<1>5. CASE FindFree(p) BY <1>5, FindFreeStep
<1>6. CASE Activate(p) BY <1>6, ActivateStep
<1>7. CASE Extend(p) BY <1>7, ExtendStep
<1>8. CASE Expire(p) BY <1>8, ExpireStep
<1>9. CASE GrantGrace(p) BY <1>9, GrantGraceStep
<1>10. CASE CancelCurrent(p) BY <1>10, CancelCurrentStep
<1>11. CASE CreatePlan(p) BY <1>11, CreatePlanStep
<1>12. CASE CreateFree(p) BY <1>12, CreateFreeStep
<1>13. CASE RecordPayment(p) BY <1>13, RecordStep
<1>14. CASE Refill(p) BY <1>14, RefillStep
<1>15. CASE MarkProcessed(p) \/ MarkFailed(p) BY <1>15, MarkStep
<1>16. QED BY <1>1, <1>2, <1>3, <1>4, <1>5, <1>6, <1>7, <1>8, <1>9, <1>10, <1>11, <1>12,
              <1>13, <1>14, <1>15 DEF Handle

LEMMA NextHolds ==
    ASSUME BillingInv, [Next]_vars
    PROVE  BillingInv'
<1>1. CASE \E p \in Procs, m \in Messages : ReceiveWebhook(p, m) BY <1>1, ReceiveStep
<1>2. CASE \E p \in Procs, u \in Users : BeginSignup(p, u) BY <1>2, SignupStep
<1>3. CASE \E p \in Procs, op \in Requests \ {"signup"}, u \in Users, plan \in Plans :
              BeginRequest(p, op, u, plan)
  BY <1>3, BeginStep
<1>4. CASE \E p \in Procs : Handle(p) \/ DatabaseError(p) \/ Crash(p)
  BY <1>4, HandleStep, FailStep
<1>5. CASE \E u \in Users : UseCredits(u)
  <2>1. PICK u \in Users : UseCredits(u) BY <1>5
  <2>2. credit' = [credit EXCEPT ![u] = FreePlan] /\ TypeOK
        /\ UNCHANGED <<now, subs, payments, webhook, scheduled, sent, runs, given, crossed, proc, requests>>
    BY <2>1 DEF UseCredits, gateway, history, BillingInv
  <2>3. TypeOK' BY <2>2 DEF TypeOK, Plans
  <2>4. QED BY <2>2, <2>3, StillStep
<1>6. CASE Tick
  <2>1. now' = now + 1 /\ TypeOK
        /\ UNCHANGED <<subs, payments, webhook, credit, scheduled, sent, runs, given, crossed, proc, requests>>
    BY <1>6 DEF Tick, rows, gateway, history, BillingInv
  <2>2. TypeOK' BY <2>1 DEF TypeOK
  <2>3. QED BY <2>1, <2>2, StillStep
<1>7. CASE UNCHANGED vars
  <2>1. TypeOK /\ UNCHANGED <<now, subs, payments, webhook, credit, scheduled, sent, runs, given,
                              crossed, proc, requests>>
    BY <1>7 DEF vars, rows, gateway, history, BillingInv
  <2>2. TypeOK' BY <2>1 DEF TypeOK
  <2>3. QED BY <2>1, <2>2, StillStep
<1>8. QED BY <1>1, <1>2, <1>3, <1>4, <1>5, <1>6, <1>7 DEF Next

-----------------------------------------------------------------------------
(* The theorems.                                                           *)

\* The invariant holds of every behaviour.
THEOREM BillingInvariant == Spec => []BillingInv
BY InitHolds, NextHolds, PTL DEF Spec

\* The tables, the gateway and the handlers in flight keep their types.
THEOREM BillingTyped == Spec => []TypeOK
<1>1. BillingInv => TypeOK BY DEF BillingInv
<1>2. QED BY <1>1, BillingInvariant, PTL

\* However the deliveries of an event overlap, fail or are repeated, one handler runs
\* for it.
THEOREM OneHandler == Spec => []HandledOnce
<1>1. BillingInv => HandledOnce BY DEF BillingInv, StoredFirst, HandledOnce
<1>2. QED BY <1>1, BillingInvariant, PTL

\* Though a handler writes its row, its payment and its event in three statements, what
\* a processed event gave is in the books, the books have no payment that gave nothing,
\* a bought plan started for an event of a payment, and every row that no two handlers
\* crossed has the periods it was given and no more.
THEOREM BooksFit == Spec => []BooksFitPlans
<1>1. ASSUME BillingInv PROVE BooksFitPlans
  <2>1. \A d \in given \ payments : webhook[d.event] # "PROCESSED"
    BY <1>1 DEF BillingInv, BooksOK, Unbooked
  <2>2. \A d \in payments : d.op \in {"PAYMENT_COMPLETED", "SUBSCRIPTION_RENEWED"} => d \in given
    BY <1>1 DEF BillingInv, BooksOK, Successes
  <2>3. ASSUME NEW u \in Users
        PROVE  /\ \A i \in BoughtAndStarted(u) : Of(given, u, i, "PAYMENT_COMPLETED") # {}
               /\ \A i \in DOMAIN subs[u] : <<u, i>> \in crossed \/ RowFits(u, i)
    <3>1. \A i \in DOMAIN subs[u] : RowOK(u, i) BY <1>1 DEF BillingInv, RowsOK
    <3>2. \A i \in BoughtAndStarted(u) : i \in DOMAIN subs[u] BY DEF BoughtAndStarted
    <3>3. QED BY <3>1, <3>2 DEF RowOK
  <2>4. QED BY <2>1, <2>2, <2>3 DEF BooksFitPlans
<1>2. QED BY <1>1, BillingInvariant, PTL
=============================================================================
