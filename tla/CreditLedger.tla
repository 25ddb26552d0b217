---------------------------- MODULE CreditLedger ----------------------------
(***************************************************************************)
(* The credit system: CreditService, CreditRepositoryPrisma and the hourly *)
(* hold-expiry cron, over the Postgres tables credit_balances (one row per *)
(* user), credit_transactions (append-only) and usage_logs.                *)
(*                                                                         *)
(* Every service method is split where it awaits the database: what it     *)
(* read before an await is kept in the process's record and may be stale   *)
(* when it is used.  A transaction that takes its row locks before reading *)
(* (deductBalance, holdBalance, commitHold, rollbackHold) is one step;     *)
(* refillBalance reads the row without a lock, so its read and its write   *)
(* are two.                                                                *)
(***************************************************************************)
EXTENDS Integers, FiniteSets, FiniteSetsExt

CONSTANTS
    Users,
    Tasks,          \* ids of asynchronous jobs, one HOLD each (fresh ulids)
    Procs,          \* requests, queue workers and refill crons in flight
    Crons,          \* runners of the hourly hold-expiry job
    Plans,          \* PlanType
    FreePlan,       \* the plan of a lazily created balance row
    Limit,          \* PLAN_CREDIT_LIMITS
    Costs,          \* what FEATURE_COSTS may charge for one operation
    HoldExpiry,     \* HOLD_EXPIRY_MS, in ticks
    BillingCycle,   \* BILLING_CYCLE_DAYS, in ticks
    MaxNow,         \* bound: the clock stops here
    MaxRefills,     \* bound: REFILL rows per user
    MaxCrashes      \* bound: how many times a process may die

ASSUME NonEmptyAssumption == Users # {} /\ Tasks # {}
ASSUME PlansAssumption ==
    FreePlan \in Plans /\ Limit \in [Plans -> Nat]
ASSUME CostsAssumption == Costs \subseteq Nat
ASSUME TimeAssumption ==
    HoldExpiry \in Nat /\ BillingCycle \in Nat /\ MaxNow \in Nat
ASSUME BoundsAssumption == MaxRefills \in Nat /\ MaxCrashes \in Nat
ASSUME RunnersAssumption == Procs \cap Crons = {}

VARIABLES
    now,        \* the database clock
    account,    \* credit_balances
    holdTx,     \* the HOLD rows of credit_transactions, by taskId
    settleTx,   \* how many COMMIT and ROLLBACK rows each taskId has
    journal,    \* per user: the sum of its rows that move the balance
    refills,    \* per user: number of REFILL rows
    usageLog,   \* per task: the statuses in its usage_logs rows
    proc,       \* what each runner is doing
    crashes     \* how many runners have died so far

rows == <<account, holdTx, settleTx, journal, refills, usageLog>>
vars == <<now, rows, proc, crashes>>

Runners == Procs \cup Crons

Balances == [exists : BOOLEAN, balance : Int, hold : Int, plan : Plans, cycleEnd : Nat]

NoHold == [placed |-> FALSE]
Holds  == [placed : {TRUE}, user : Users, amount : Nat, expiresAt : Nat]
Kinds  == {"COMMIT", "ROLLBACK"}
Steps  == {"idle", "createBalance", "spendTx", "usageLog", "aiCall", "refund",
           "settleTx", "settleLog", "expireNext", "refillRead", "refillWrite",
           "batchNext"}
Ops    == {"none", "deduct", "hold", "getBalance", "COMMIT", "ROLLBACK",
           "expire", "refill", "batch"}

\* The local variables of the call a runner is in; a field is meaningful in
\* the steps that use it.
Frames == [step   : Steps,
           op     : Ops,
           user   : Users,
           task   : Tasks,
           amount : Nat,                  \* cost, or the HOLD row's amount
           since  : Nat,                  \* Date.now() when the call took it
           plan   : Plans,                \* plan a refill will write
           prev   : Int,                  \* prevBalance of refillBalance
           todo   : SUBSET Tasks,         \* rest of findExpiredHolds
           batch  : SUBSET (Users \X Plans)]  \* rest of findUsersWithExpiredCycle

\* Each CHOOSE only fills a field that nobody reads.
Idle == [step |-> "idle", op |-> "none",
         user |-> CHOOSE u \in Users : TRUE, task |-> CHOOSE t \in Tasks : TRUE,
         amount |-> 0, since |-> 0, plan |-> FreePlan, prev |-> 0, todo |-> {}, batch |-> {}]

Init ==
    /\ now = 0
    /\ account = [u \in Users |-> [exists |-> FALSE, balance |-> 0, hold |-> 0,
                                   plan |-> FreePlan, cycleEnd |-> 0]]
    /\ holdTx = [t \in Tasks |-> NoHold]
    /\ settleTx = [t \in Tasks |-> [k \in Kinds |-> 0]]
    /\ journal = [u \in Users |-> 0]
    /\ refills = [u \in Users |-> 0]
    /\ usageLog = [t \in Tasks |-> {}]
    /\ proc = [p \in Runners |-> Idle]
    /\ crashes = 0

-----------------------------------------------------------------------------
Available(u) == account[u].balance - account[u].hold

Settlements(t) == settleTx[t]["COMMIT"] + settleTx[t]["ROLLBACK"]

\* Neither commitHold nor rollbackHold returns before its transaction.
Settleable(t) == holdTx[t].placed /\ Settlements(t) = 0

FreshTask(t) == ~holdTx[t].placed /\ \A q \in Runners : proc[q].task # t \/ proc[q].op # "hold"

Begin(p, frame) == proc[p].step = "idle" /\ proc' = [proc EXCEPT ![p] = frame]

Goto(p, s) == proc' = [proc EXCEPT ![p].step = s]

\* The awaited call is over: the two loops go on, anything else returns.
Resume(p) ==
    IF proc[p].op = "expire" /\ proc[p].todo # {} THEN Goto(p, "expireNext")
    ELSE IF proc[p].op = "batch" /\ proc[p].batch # {} THEN Goto(p, "batchNext")
    ELSE proc' = [proc EXCEPT ![p] = Idle]

-----------------------------------------------------------------------------
(* ensureBalance and the first check of deduct and hold.  A call that is   *)
(* refused here changes nothing, so only the calls that go on are steps.   *)

EnsureBalance(p, u, c, frame) ==
    \/ /\ account[u].exists
       /\ Available(u) >= c
       /\ Begin(p, [frame EXCEPT !.step = "spendTx"])
    \/ /\ ~account[u].exists
       /\ Begin(p, [frame EXCEPT !.step = "createBalance", !.since = now])

BeginDeduct(p, u, c) ==
    /\ EnsureBalance(p, u, c, [Idle EXCEPT !.op = "deduct", !.user = u, !.amount = c])
    /\ UNCHANGED <<now, rows, crashes>>

BeginHold(p, t, u, c) ==
    /\ FreshTask(t)
    /\ now + HoldExpiry <= MaxNow
    /\ EnsureBalance(p, u, c,
          [Idle EXCEPT !.op = "hold", !.user = u, !.task = t, !.amount = c,
                       !.since = now])
    /\ UNCHANGED <<now, rows, crashes>>

\* getBalance: a row whose cycle is over is refilled with the plan just read.
BeginGetBalance(p, u) ==
    /\ \/ /\ account[u].exists
          /\ account[u].cycleEnd < now
          /\ Begin(p, [Idle EXCEPT !.step = "refillRead", !.op = "getBalance",
                                   !.user = u, !.plan = account[u].plan,
                                   !.since = now])
       \/ /\ ~account[u].exists
          /\ Begin(p, [Idle EXCEPT !.step = "createBalance", !.op = "getBalance",
                                   !.user = u, !.since = now])
    /\ UNCHANGED <<now, rows, crashes>>

\* createBalance: the unique user_id rejects the second of two creations.
CreateBalance(p) ==
    LET u == proc[p].user IN
    /\ proc[p].step = "createBalance"
    /\ IF account[u].exists
       THEN /\ Resume(p)
            /\ UNCHANGED rows
       ELSE /\ account' = [account EXCEPT ![u] =
                  [exists |-> TRUE, balance |-> Limit[FreePlan], hold |-> 0,
                   plan |-> FreePlan, cycleEnd |-> proc[p].since + BillingCycle]]
            /\ journal' = [journal EXCEPT ![u] = Limit[FreePlan]]
            /\ IF proc[p].op \in {"deduct", "hold"} /\ Limit[FreePlan] >= proc[p].amount
               THEN Goto(p, "spendTx")
               ELSE Resume(p)
            /\ UNCHANGED <<holdTx, settleTx, refills, usageLog>>
    /\ UNCHANGED <<now, crashes>>

-----------------------------------------------------------------------------
(* deduct, and the AI call it pays for.                                    *)

DeductRows(u, c) ==
    /\ account' = [account EXCEPT ![u].balance = @ - c]
    /\ journal' = [journal EXCEPT ![u] = @ - c]
    /\ UNCHANGED <<holdTx, settleTx, refills, usageLog>>

\* Mutant: trusts the check made before the transaction.
DeductBalanceUnchecked(p) ==
    /\ proc[p].step = "spendTx" /\ proc[p].op = "deduct"
    /\ DeductRows(proc[p].user, proc[p].amount) /\ Goto(p, "usageLog")
    /\ UNCHANGED <<now, crashes>>

DeductBalance(p) ==
    /\ proc[p].step = "spendTx" /\ proc[p].op = "deduct"
    /\ IF Available(proc[p].user) >= proc[p].amount
       THEN DeductRows(proc[p].user, proc[p].amount) /\ Goto(p, "usageLog")
       ELSE UNCHANGED rows /\ Resume(p)
    /\ UNCHANGED <<now, crashes>>

CreateUsageLog(p) ==
    /\ proc[p].step = "usageLog"
    /\ Goto(p, "aiCall")
    /\ UNCHANGED <<now, rows, crashes>>

AiCallSucceeds(p) ==
    /\ proc[p].step = "aiCall"
    /\ Resume(p)
    /\ UNCHANGED <<now, rows, crashes>>

\* The catch blocks refund only when a positive amount was deducted.
AiCallFails(p) ==
    /\ proc[p].step = "aiCall"
    /\ IF proc[p].amount > 0 THEN Goto(p, "refund") ELSE Resume(p)
    /\ UNCHANGED <<now, rows, crashes>>

RefundRows(u, c) ==
    /\ account' = [account EXCEPT ![u].balance = @ + c]
    /\ journal' = [journal EXCEPT ![u] = @ + c]
    /\ UNCHANGED <<holdTx, settleTx, refills, usageLog>>

RefundBalance(p) ==
    /\ proc[p].step = "refund"
    /\ RefundRows(proc[p].user, proc[p].amount)
    /\ Resume(p)
    /\ UNCHANGED <<now, crashes>>

-----------------------------------------------------------------------------
(* hold, commitByTaskId, rollbackByTaskId and expireStaleHolds.            *)

HoldRows(p) ==
    /\ account' = [account EXCEPT ![proc[p].user].hold = @ + proc[p].amount]
    /\ holdTx' = [holdTx EXCEPT ![proc[p].task] =
          [placed |-> TRUE, user |-> proc[p].user, amount |-> proc[p].amount,
           expiresAt |-> proc[p].since + HoldExpiry]]
    /\ UNCHANGED <<settleTx, journal, refills, usageLog>>

HoldBalance(p) ==
    /\ proc[p].step = "spendTx" /\ proc[p].op = "hold"
    /\ IF Available(proc[p].user) >= proc[p].amount THEN HoldRows(p) ELSE UNCHANGED rows
    /\ Resume(p)
    /\ UNCHANGED <<now, crashes>>

\* The two reads before the transaction; both are repeatable, since rows of
\* credit_transactions are never changed or deleted.
BeginSettle(p, t, k) ==
    /\ Settleable(t)
    /\ Begin(p, [Idle EXCEPT !.step = "settleTx", !.op = k, !.task = t,
                             !.user = holdTx[t].user, !.amount = holdTx[t].amount])
    /\ UNCHANGED <<now, rows, crashes>>

BeginExpireStaleHolds(p) ==
    LET expired == {t \in Tasks : holdTx[t].placed /\ holdTx[t].expiresAt <= now} IN
    /\ expired # {}
    /\ Begin(p, [Idle EXCEPT !.step = "expireNext", !.op = "expire", !.todo = expired])
    /\ UNCHANGED <<now, rows, crashes>>

\* Mutant: the loop returns at the first hold that is already settled.
ExpireNextReturns(p, t) ==
    LET rest == [proc[p] EXCEPT !.todo = @ \ {t}] IN
    /\ proc[p].step = "expireNext" /\ t \in proc[p].todo
    /\ proc' = [proc EXCEPT ![p] =
          IF Settleable(t)
          THEN [rest EXCEPT !.step = "settleTx", !.task = t,
                            !.user = holdTx[t].user, !.amount = holdTx[t].amount]
          ELSE Idle]
    /\ UNCHANGED <<now, rows, crashes>>

\* One turn of the loop: findExpiredHolds returns settled holds too, and
\* rollbackHold's first read skips them.
ExpireNext(p, t) ==
    LET rest == [proc[p] EXCEPT !.todo = @ \ {t}] IN
    /\ proc[p].step = "expireNext" /\ t \in proc[p].todo
    /\ proc' = [proc EXCEPT ![p] =
          IF Settleable(t)
          THEN [rest EXCEPT !.step = "settleTx", !.task = t,
                            !.user = holdTx[t].user, !.amount = holdTx[t].amount]
          ELSE IF rest.todo = {} THEN Idle ELSE rest]
    /\ UNCHANGED <<now, rows, crashes>>

KindOf(p) == IF proc[p].op = "COMMIT" THEN "COMMIT" ELSE "ROLLBACK"

\* What a settlement takes from the balance.
Spent(p) == IF KindOf(p) = "COMMIT" THEN proc[p].amount ELSE 0

SettleRows(p, released) ==
    /\ account' = [account EXCEPT ![proc[p].user].balance = @ - Spent(p),
                                  ![proc[p].user].hold = @ - released]
    /\ settleTx' = [settleTx EXCEPT ![proc[p].task][KindOf(p)] = @ + 1]
    /\ journal' = [journal EXCEPT ![proc[p].user] = @ - Spent(p)]
    /\ UNCHANGED <<holdTx, refills, usageLog>>

AfterSettle(p) == IF proc[p].op = "expire" THEN Resume(p) ELSE Goto(p, "settleLog")

\* Mutant: no second look-up inside the transaction.
SettleHoldUnchecked(p) ==
    /\ proc[p].step = "settleTx"
    /\ SettleRows(p, proc[p].amount) /\ AfterSettle(p)
    /\ UNCHANGED <<now, crashes>>

\* Mutant: a commit takes the balance and leaves the escrow.
SettleHoldKeepsEscrow(p) ==
    /\ proc[p].step = "settleTx"
    /\ IF Settlements(proc[p].task) = 0
       THEN SettleRows(p, proc[p].amount - Spent(p)) /\ AfterSettle(p)
       ELSE UNCHANGED rows /\ Resume(p)
    /\ UNCHANGED <<now, crashes>>

\* The transactions of commitHold and rollbackHold: under the advisory lock
\* of the task the settlement is looked up again.
SettleHold(p) ==
    /\ proc[p].step = "settleTx"
    /\ IF Settlements(proc[p].task) = 0
       THEN SettleRows(p, proc[p].amount) /\ AfterSettle(p)
       ELSE UNCHANGED rows /\ Resume(p)
    /\ UNCHANGED <<now, crashes>>

SettleLog(p) ==
    /\ proc[p].step = "settleLog"
    /\ usageLog' = [usageLog EXCEPT ![proc[p].task] =
          @ \cup {IF proc[p].op = "COMMIT" THEN "SUCCESS" ELSE "FAILED"}]
    /\ Resume(p)
    /\ UNCHANGED <<now, account, holdTx, settleTx, journal, refills, crashes>>

-----------------------------------------------------------------------------
(* refill: asked for by a webhook or an administrator with a plan, by      *)
(* getBalance or by the daily batch for a cycle that is over.              *)

BeginRefill(p, u, plan) ==
    /\ refills[u] < MaxRefills
    /\ Begin(p, [Idle EXCEPT !.step = "refillRead", !.op = "refill",
                             !.user = u, !.plan = plan, !.since = now])
    /\ UNCHANGED <<now, rows, crashes>>

BeginRefillAll(p) ==
    LET expired == {u \in Users : account[u].exists /\ account[u].cycleEnd <= now} IN
    /\ expired # {}
    /\ Begin(p, [Idle EXCEPT !.step = "batchNext", !.op = "batch",
                             !.batch = {<<u, account[u].plan>> : u \in expired}])
    /\ UNCHANGED <<now, rows, crashes>>

BatchNext(p, u, plan) ==
    LET turn == [proc[p] EXCEPT !.step = "refillRead", !.user = u, !.plan = plan,
                                !.since = now, !.batch = @ \ {<<u, plan>>}] IN
    /\ proc[p].step = "batchNext"
    /\ <<u, plan>> \in proc[p].batch
    /\ proc' = [proc EXCEPT ![p] = turn]
    /\ UNCHANGED <<now, rows, crashes>>

\* refillBalance, first statement: a plain read of the row.  A row that is not there
\* counts as 0, and may be there when the update comes.
RefillRead(p) ==
    /\ proc[p].step = "refillRead"
    /\ proc' = [proc EXCEPT ![p].step = "refillWrite",
                            ![p].prev = account[proc[p].user].balance]
    /\ UNCHANGED <<now, rows, crashes>>

RefillRows(p, hold, cycleEnd) ==
    LET u == proc[p].user
        limit == Limit[proc[p].plan] IN
    /\ account' = [account EXCEPT ![u] =
          [exists |-> TRUE, balance |-> limit, hold |-> hold,
           plan |-> proc[p].plan, cycleEnd |-> cycleEnd]]
    /\ journal' = [journal EXCEPT ![u] = @ + (limit - proc[p].prev)]
    /\ refills' = [refills EXCEPT ![u] = @ + 1]
    /\ UNCHANGED <<holdTx, settleTx, usageLog>>

\* The update throws when there still is no row (then DatabaseError is what is left).
CanRefill(p) ==
    /\ proc[p].step = "refillWrite" /\ account[proc[p].user].exists
    /\ refills[proc[p].user] < MaxRefills

\* refillBalance, the update and the REFILL row: whatever the row holds now
\* is overwritten.
RefillWrite(p) ==
    /\ CanRefill(p)
    /\ RefillRows(p, 0, proc[p].since + BillingCycle)
    /\ Resume(p)
    /\ UNCHANGED <<now, crashes>>

-----------------------------------------------------------------------------
(* Failures and time.                                                      *)

\* The awaited statement or transaction is rejected (serialization failure,
\* lost connection): nothing was written.  deduct and hold throw, refund,
\* commitByTaskId, rollbackByTaskId and both loops swallow the error.
DatabaseError(p) ==
    /\ proc[p].step \in {"createBalance", "spendTx", "usageLog", "refund",
                         "settleTx", "settleLog", "refillRead", "refillWrite"}
    /\ Resume(p)
    /\ UNCHANGED <<now, rows, crashes>>

Crash(p) ==
    /\ crashes < MaxCrashes
    /\ proc[p].step # "idle"
    /\ proc' = [proc EXCEPT ![p] = Idle]
    /\ crashes' = crashes + 1
    /\ UNCHANGED <<now, rows>>

Tick ==
    /\ now < MaxNow
    /\ now' = now + 1
    /\ UNCHANGED <<rows, proc, crashes>>

Service(p) ==
    \/ \E u \in Users, c \in Costs : BeginDeduct(p, u, c)
    \/ \E t \in Tasks, u \in Users, c \in Costs : BeginHold(p, t, u, c)
    \/ \E u \in Users : BeginGetBalance(p, u)
    \/ \E t \in Tasks, k \in Kinds : BeginSettle(p, t, k)
    \/ \E u \in Users, plan \in Plans : BeginRefill(p, u, plan)
    \/ BeginRefillAll(p)
    \/ \E u \in Users, plan \in Plans : BatchNext(p, u, plan)
    \/ CreateBalance(p) \/ DeductBalance(p) \/ HoldBalance(p)
    \/ CreateUsageLog(p) \/ AiCallSucceeds(p) \/ AiCallFails(p)
    \/ RefundBalance(p) \/ SettleLog(p)
    \/ RefillRead(p) \/ RefillWrite(p)

Expiry(c) == BeginExpireStaleHolds(c) \/ \E t \in Tasks : ExpireNext(c, t)

Next ==
    \/ \E p \in Procs : Service(p)
    \/ \E c \in Crons : Expiry(c)
    \/ \E p \in Runners : SettleHold(p) \/ DatabaseError(p) \/ Crash(p)
    \/ Tick

Spec == Init /\ [][Next]_vars

-----------------------------------------------------------------------------
(* Properties.                                                             *)

\* Type invariant of the tables and of the frames of the calls in flight.
TypeOK ==
    /\ now \in Nat
    /\ account \in [Users -> Balances]
    /\ holdTx \in [Tasks -> Holds \cup {NoHold}]
    /\ settleTx \in [Tasks -> [Kinds -> Nat]]
    /\ journal \in [Users -> Int]
    /\ refills \in [Users -> Nat]
    /\ usageLog \in [Tasks -> SUBSET {"SUCCESS", "FAILED"}]
    /\ proc \in [Runners -> Frames]
    /\ crashes \in Nat

\* A HOLD is settled at most once, by a COMMIT or by a ROLLBACK but never by
\* both, whoever races: redelivered results, a result against the expiry cron,
\* two crons (commitHold and rollbackHold re-check under the task's lock).
SettledAtMostOnce ==
    \A t \in Tasks : /\ Settlements(t) <= 1
                     /\ Settlements(t) = 1 => holdTx[t].placed

\* No interleaving of deductions, holds, settlements, refunds and refills makes
\* what a user may still spend negative (the in-transaction check of
\* deductBalance and holdBalance).
NeverOverdrawn == \A u \in Users : Available(u) >= 0

Outstanding(u) == {t \in Tasks : Settleable(t) /\ holdTx[t].user = u}

\* What the HOLD rows say is in escrow, against what the balance row says.
HoldDrift(u) ==
    MapThenSumSet(LAMBDA t : holdTx[t].amount, Outstanding(u)) - account[u].hold
JournalDrift(u) == account[u].balance - journal[u]

\* The balance row and the append-only rows move together in every step of
\* every operation, except in refillBalance, which zeroes holdAmount without
\* settling a HOLD and books the difference to a balance it read earlier.
OnlyRefillBreaksBooks ==
    [][\A u \in Users :
          (HoldDrift(u)' # HoldDrift(u) \/ JournalDrift(u)' # JournalDrift(u))
             => refills'[u] = refills[u] + 1]_vars

\* usage_logs never tells another story than the ledger: the caller that lost
\* the race for a settlement writes no log row (the early return on false).
UsageLogAgrees ==
    \A t \in Tasks :
        /\ "SUCCESS" \in usageLog[t] => settleTx[t]["COMMIT"] = 1
        /\ "FAILED" \in usageLog[t] => settleTx[t]["ROLLBACK"] = 1

TaskStatus(t) ==
    IF ~holdTx[t].placed THEN "none"
    ELSE IF Settlements(t) = 0 THEN "held"
    ELSE IF settleTx[t]["COMMIT"] > 0 THEN "committed" ELSE "released"

EscrowAvailable ==
    [u \in Users |-> IF account[u].exists THEN Available(u) ELSE Limit[FreePlan]]
EscrowStatus == [t \in Tasks |-> TaskStatus(t)]
EscrowPlaced ==
    [t \in Tasks |->
        IF holdTx[t].placed
        THEN [placed |-> TRUE, user |-> holdTx[t].user, amount |-> holdTx[t].amount]
        ELSE [placed |-> FALSE]]

Escrow == INSTANCE CreditEscrow WITH
    available <- EscrowAvailable, status <- EscrowStatus, escrow <- EscrowPlaced

\* The whole of it behaves as the atomic escrow: the checks that read stale
\* balances, the lazy creation of the row and the retried settlements are
\* invisible to the user.
ImplementsEscrow == Escrow!Spec

\* A hold whose result is lost does not lock the credits for ever: the hourly
\* cron ends by settling it (CreditService.expireStaleHolds).
HoldsEventuallySettled ==
    \A t \in Tasks : holdTx[t].placed ~> Settlements(t) = 1
=============================================================================
