------------------------ MODULE CreditLedger_proofs ------------------------
(***************************************************************************)
(* Proofs about CreditLedger for any users, tasks, runners, plans and      *)
(* costs, and for every value of the bounds: the type invariant, the       *)
(* inductive invariant with its safety properties, the refinement of       *)
(* CreditEscrow, and that only refillBalance parts the balance row from    *)
(* the append-only rows, with the lemmas on sums of amounts it needs.      *)
(***************************************************************************)
EXTENDS CreditLedger, TLAPS, FiniteSetTheorems, WellFoundedInduction

-----------------------------------------------------------------------------
(* Types.                                                                  *)

\* The frame of a runner with no call is well formed.
LEMMA IdleIsFrame == Idle \in Frames /\ Idle.step = "idle" /\ Idle.op = "none"
BY NonEmptyAssumption, PlansAssumption DEF Idle, Frames, Steps, Ops

\* A call that ends, or goes back to its loop, leaves well-formed frames.
LEMMA ResumeTyped ==
    ASSUME NEW p \in Runners, proc \in [Runners -> Frames], Resume(p)
    PROVE  proc' \in [Runners -> Frames]
BY IdleIsFrame DEF Resume, Goto, Frames, Steps

\* A call that goes on to its next statement leaves well-formed frames.
LEMMA GotoTyped ==
    ASSUME NEW p \in Runners, proc \in [Runners -> Frames], NEW s \in Steps, Goto(p, s)
    PROVE  proc' \in [Runners -> Frames]
BY DEF Goto, Frames

\* A call that begins with a well-formed frame leaves well-formed frames.
LEMMA BeginTyped ==
    ASSUME NEW p \in Runners, proc \in [Runners -> Frames],
           NEW f \in Frames, Begin(p, f)
    PROVE  proc' \in [Runners -> Frames]
BY DEF Begin

\* So does a call that begins through ensureBalance.
LEMMA EnsureBalanceTyped ==
    ASSUME NEW p \in Runners, TypeOK, NEW u, NEW c, NEW f \in Frames,
           EnsureBalance(p, u, c, f)
    PROVE  proc' \in [Runners -> Frames]
<1>1. /\ [f EXCEPT !.step = "spendTx"] \in Frames
      /\ [f EXCEPT !.step = "createBalance", !.since = now] \in Frames
  BY DEF Frames, Steps, TypeOK
<1>2. QED BY <1>1 DEF EnsureBalance, Begin, TypeOK

\* A HOLD row that was placed has its user, its amount and its expiry.
LEMMA PlacedHold ==
    ASSUME TypeOK, NEW t \in Tasks, holdTx[t].placed
    PROVE  /\ holdTx[t] \in Holds
           /\ holdTx[t].user \in Users
           /\ holdTx[t].amount \in Nat
           /\ holdTx[t].expiresAt \in Nat
<1>1. holdTx[t] # NoHold BY DEF NoHold
<1>2. holdTx[t] \in Holds BY <1>1 DEF TypeOK
<1>3. QED BY <1>2 DEF Holds

\* The first step of each service method only sets the runner's frame.
LEMMA ServiceBeginTyped ==
    ASSUME TypeOK, NEW p \in Procs,
           \/ \E u \in Users, c \in Costs : BeginDeduct(p, u, c)
           \/ \E t \in Tasks, u \in Users, c \in Costs : BeginHold(p, t, u, c)
           \/ \E u \in Users : BeginGetBalance(p, u)
           \/ \E t \in Tasks, k \in Kinds : BeginSettle(p, t, k)
           \/ \E u \in Users, plan \in Plans : BeginRefill(p, u, plan)
           \/ BeginRefillAll(p)
           \/ \E u \in Users, plan \in Plans : BatchNext(p, u, plan)
    PROVE  TypeOK'
<1> USE IdleIsFrame
<1> p \in Runners BY DEF Runners
<1>1. CASE \E u \in Users, c \in Costs : BeginDeduct(p, u, c)
  <2>1. PICK u \in Users, c \in Costs : BeginDeduct(p, u, c) BY <1>1
  <2>2. [Idle EXCEPT !.op = "deduct", !.user = u, !.amount = c] \in Frames
    BY CostsAssumption DEF Frames, Ops
  <2>3. proc' \in [Runners -> Frames] BY <2>1, <2>2, EnsureBalanceTyped DEF BeginDeduct
  <2>4. QED BY <2>1, <2>3 DEF BeginDeduct, TypeOK, rows
<1>2. CASE \E t \in Tasks, u \in Users, c \in Costs : BeginHold(p, t, u, c)
  <2>1. PICK t \in Tasks, u \in Users, c \in Costs : BeginHold(p, t, u, c) BY <1>2
  <2>2. [Idle EXCEPT !.op = "hold", !.user = u, !.task = t, !.amount = c,
                     !.since = now] \in Frames
    BY CostsAssumption DEF Frames, Ops, TypeOK
  <2>3. proc' \in [Runners -> Frames] BY <2>1, <2>2, EnsureBalanceTyped DEF BeginHold
  <2>4. QED BY <2>1, <2>3 DEF BeginHold, TypeOK, rows
<1>3. CASE \E u \in Users : BeginGetBalance(p, u)
  <2>1. PICK u \in Users : BeginGetBalance(p, u) BY <1>3
  <2>2. /\ [Idle EXCEPT !.step = "refillRead", !.op = "getBalance", !.user = u,
                        !.plan = account[u].plan, !.since = now] \in Frames
        /\ [Idle EXCEPT !.step = "createBalance", !.op = "getBalance",
                        !.user = u, !.since = now] \in Frames
    BY DEF Frames, Ops, Steps, TypeOK, Balances
  <2>3. proc' \in [Runners -> Frames] BY <2>1, <2>2 DEF BeginGetBalance, Begin, TypeOK
  <2>4. QED BY <2>1, <2>3 DEF BeginGetBalance, TypeOK, rows
<1>4. CASE \E t \in Tasks, k \in Kinds : BeginSettle(p, t, k)
  <2>1. PICK t \in Tasks, k \in Kinds : BeginSettle(p, t, k) BY <1>4
  <2>2. [Idle EXCEPT !.step = "settleTx", !.op = k, !.task = t,
                     !.user = holdTx[t].user, !.amount = holdTx[t].amount] \in Frames
    BY <2>1, PlacedHold DEF BeginSettle, Settleable, Frames, Ops, Steps, Kinds
  <2>3. proc' \in [Runners -> Frames] BY <2>1, <2>2, BeginTyped DEF BeginSettle, TypeOK
  <2>4. QED BY <2>1, <2>3 DEF BeginSettle, TypeOK, rows
<1>5. CASE \E u \in Users, plan \in Plans : BeginRefill(p, u, plan)
  <2>1. PICK u \in Users, plan \in Plans : BeginRefill(p, u, plan) BY <1>5
  <2>2. [Idle EXCEPT !.step = "refillRead", !.op = "refill",
                     !.user = u, !.plan = plan, !.since = now] \in Frames
    BY DEF Frames, Ops, Steps, TypeOK
  <2>3. proc' \in [Runners -> Frames] BY <2>1, <2>2, BeginTyped DEF BeginRefill, TypeOK
  <2>4. QED BY <2>1, <2>3 DEF BeginRefill, TypeOK, rows
<1>6. CASE BeginRefillAll(p)
  <2> DEFINE due == {u \in Users : account[u].exists /\ account[u].cycleEnd <= now}
  <2> DEFINE frame == [Idle EXCEPT !.step = "batchNext", !.op = "batch",
                                   !.batch = {<<u, account[u].plan>> : u \in due}]
  <2>1. {<<u, account[u].plan>> : u \in due} \in SUBSET (Users \X Plans)
    BY DEF TypeOK, Balances
  <2>2. frame \in Frames BY <2>1 DEF Frames, Ops, Steps
  <2>3. Begin(p, frame) BY <1>6 DEF BeginRefillAll
  <2> HIDE DEF frame
  <2>4. proc' \in [Runners -> Frames] BY <2>2, <2>3, BeginTyped DEF TypeOK
  <2>5. QED BY <1>6, <2>4 DEF BeginRefillAll, TypeOK, rows
<1>7. CASE \E u \in Users, plan \in Plans : BatchNext(p, u, plan)
  <2>1. PICK u \in Users, plan \in Plans : BatchNext(p, u, plan) BY <1>7
  <2>2. [proc[p] EXCEPT !.step = "refillRead", !.user = u, !.plan = plan,
                        !.since = now, !.batch = @ \ {<<u, plan>>}] \in Frames
    <3>1. proc[p] \in Frames BY DEF TypeOK
    <3>2. proc[p].batch \ {<<u, plan>>} \in SUBSET (Users \X Plans) BY <3>1 DEF Frames
    <3>3. QED BY <3>1, <3>2 DEF Frames, Steps, TypeOK
  <2>3. proc' \in [Runners -> Frames] BY <2>1, <2>2 DEF BatchNext, TypeOK
  <2>4. QED BY <2>1, <2>3 DEF BatchNext, TypeOK, rows
<1>8. QED BY <1>1, <1>2, <1>3, <1>4, <1>5, <1>6, <1>7

\* A balance row of which two amounts change is still a balance row.
LEMMA ChangedRow ==
    ASSUME NEW r \in Balances, NEW b \in Int, NEW h \in Int
    PROVE  [r EXCEPT !.balance = b, !.hold = h] \in Balances
BY DEF Balances

\* An amount that moves in or out of one row keeps the table typed.
LEMMA MovedBalance ==
    ASSUME account \in [Users -> Balances], NEW u \in Users, NEW b \in Int
    PROVE  /\ [account EXCEPT ![u].balance = @ + b] \in [Users -> Balances]
           /\ [account EXCEPT ![u].balance = @ - b] \in [Users -> Balances]
           /\ [account EXCEPT ![u].hold = @ + b] \in [Users -> Balances]
<1>1. account[u] \in Balances /\ account[u].balance \in Int /\ account[u].hold \in Int
  BY DEF Balances
<1>2. /\ account[u].balance + b \in Int /\ account[u].balance - b \in Int
      /\ account[u].hold + b \in Int
  BY <1>1
<1>3. [account EXCEPT ![u].balance = @ + b] \in [Users -> Balances] BY <1>1, <1>2 DEF Balances
<1>4. [account EXCEPT ![u].balance = @ - b] \in [Users -> Balances] BY <1>1, <1>2 DEF Balances
<1>5. [account EXCEPT ![u].hold = @ + b] \in [Users -> Balances] BY <1>1, <1>2 DEF Balances
<1>6. QED BY <1>3, <1>4, <1>5

\* A settlement, which changes both amounts of a row, keeps the table typed.
LEMMA SettledBalance ==
    ASSUME account \in [Users -> Balances], NEW u \in Users, NEW b \in Int, NEW h \in Int
    PROVE  [account EXCEPT ![u].balance = @ - b, ![u].hold = @ - h] \in [Users -> Balances]
<1>1. /\ account[u] \in Balances
      /\ account[u].balance - b \in Int /\ account[u].hold - h \in Int
  BY DEF Balances
<1>2. [account[u] EXCEPT !.balance = @ - b, !.hold = @ - h] \in Balances
  BY <1>1, ChangedRow
<1>3. QED BY <1>2

\* The transactions of deductBalance and refundBalance keep the types.
LEMMA DeductRowsTyped ==
    ASSUME TypeOK, NEW u \in Users, NEW c \in Nat, DeductRows(u, c) \/ RefundRows(u, c)
    PROVE  /\ account' \in [Users -> Balances]
           /\ journal' \in [Users -> Int]
           /\ UNCHANGED <<holdTx, settleTx, refills, usageLog>>
<1>1. account' \in [Users -> Balances]
  <2>1. c \in Int /\ account \in [Users -> Balances] BY DEF TypeOK
  <2>2. CASE DeductRows(u, c)
    <3>1. account' = [account EXCEPT ![u].balance = @ - c] BY <2>2 DEF DeductRows
    <3>2. QED BY <2>1, <3>1, MovedBalance
  <2>3. CASE RefundRows(u, c)
    <3>1. account' = [account EXCEPT ![u].balance = @ + c] BY <2>3 DEF RefundRows
    <3>2. QED BY <2>1, <3>1, MovedBalance
  <2>4. QED BY <2>2, <2>3
<1>2. journal' \in [Users -> Int]
  BY DEF DeductRows, RefundRows, TypeOK
<1>3. QED BY <1>1, <1>2 DEF DeductRows, RefundRows

\* The transaction of holdBalance keeps the types.
LEMMA HoldRowsTyped ==
    ASSUME TypeOK, NEW p \in Runners, HoldRows(p)
    PROVE  /\ account' \in [Users -> Balances]
           /\ holdTx' \in [Tasks -> Holds \cup {NoHold}]
           /\ UNCHANGED <<settleTx, journal, refills, usageLog>>
<1>0. /\ proc[p].user \in Users /\ proc[p].task \in Tasks
      /\ proc[p].amount \in Nat /\ proc[p].since + HoldExpiry \in Nat
  BY TimeAssumption DEF TypeOK, Frames
<1>1. account' \in [Users -> Balances]
  <2>1. account' = [account EXCEPT ![proc[p].user].hold = @ + proc[p].amount] BY DEF HoldRows
  <2>2. proc[p].amount \in Int BY <1>0
  <2>3. QED BY <1>0, <2>1, <2>2, MovedBalance DEF TypeOK
<1> DEFINE row == [placed |-> TRUE, user |-> proc[p].user, amount |-> proc[p].amount,
                   expiresAt |-> proc[p].since + HoldExpiry]
<1>2. row \in Holds BY <1>0 DEF Holds
<1>3. holdTx' = [holdTx EXCEPT ![proc[p].task] = row] BY DEF HoldRows
<1> HIDE DEF row
<1>4. holdTx' \in [Tasks -> Holds \cup {NoHold}] BY <1>0, <1>2, <1>3 DEF TypeOK
<1>5. QED BY <1>1, <1>4 DEF HoldRows

\* The transactions of commitHold and rollbackHold keep the types.
LEMMA SettleRowsTyped ==
    ASSUME TypeOK, NEW p \in Runners, SettleRows(p, proc[p].amount)
    PROVE  /\ account' \in [Users -> Balances]
           /\ settleTx' \in [Tasks -> [Kinds -> Nat]]
           /\ journal' \in [Users -> Int]
           /\ UNCHANGED <<holdTx, refills, usageLog>>
<1>0. /\ proc[p].user \in Users /\ proc[p].task \in Tasks
      /\ proc[p].amount \in Nat /\ Spent(p) \in Nat /\ KindOf(p) \in Kinds
  BY DEF TypeOK, Frames, Spent, KindOf, Kinds
<1>1. account' \in [Users -> Balances]
  <2>1. account' = [account EXCEPT ![proc[p].user].balance = @ - Spent(p),
                                   ![proc[p].user].hold = @ - proc[p].amount]
    BY DEF SettleRows
  <2>2. proc[p].amount \in Int /\ Spent(p) \in Int BY <1>0
  <2>3. QED BY <1>0, <2>1, <2>2, SettledBalance DEF TypeOK
<1>2. settleTx' \in [Tasks -> [Kinds -> Nat]] BY <1>0 DEF SettleRows, TypeOK
<1>3. journal' \in [Users -> Int] BY <1>0 DEF SettleRows, TypeOK
<1>4. QED BY <1>1, <1>2, <1>3 DEF SettleRows

\* A whole row is written, by the creation of a balance or by a refill.
LEMMA WrittenRowTyped ==
    ASSUME TypeOK, NEW u \in Users, NEW plan \in Plans, NEW since \in Nat, NEW j \in Int,
           account' = [account EXCEPT ![u] =
               [exists |-> TRUE, balance |-> Limit[plan], hold |-> 0, plan |-> plan,
                cycleEnd |-> since + BillingCycle]],
           journal' = [journal EXCEPT ![u] = j]
    PROVE  account' \in [Users -> Balances] /\ journal' \in [Users -> Int]
<1> DEFINE row == [exists |-> TRUE, balance |-> Limit[plan], hold |-> 0, plan |-> plan,
                   cycleEnd |-> since + BillingCycle]
<1>1. row \in Balances BY PlansAssumption, TimeAssumption DEF Balances
<1>2. account' = [account EXCEPT ![u] = row] OBVIOUS
<1> HIDE DEF row
<1>3. QED BY <1>1, <1>2 DEF TypeOK

\* The transactions that move a balance row, its journal and its counters.
LEMMA RowsTyped ==
    ASSUME TypeOK, NEW p \in Runners,
           \/ DeductBalance(p) \/ HoldBalance(p) \/ SettleHold(p)
           \/ RefundBalance(p) \/ CreateBalance(p) \/ RefillWrite(p) \/ SettleLog(p)
    PROVE  TypeOK'
<1>0. /\ proc[p] \in Frames /\ proc[p].user \in Users /\ proc[p].task \in Tasks
      /\ proc[p].amount \in Nat /\ proc[p].since \in Nat /\ proc[p].plan \in Plans
      /\ proc[p].prev \in Int
  BY DEF TypeOK, Frames
<1>1. CASE DeductBalance(p)
  <2>1. proc' \in [Runners -> Frames]
    BY <1>1, ResumeTyped, GotoTyped DEF DeductBalance, TypeOK, Steps
  <2>2. CASE DeductRows(proc[p].user, proc[p].amount)
    BY <1>0, <1>1, <2>1, <2>2, DeductRowsTyped DEF DeductBalance, TypeOK
  <2>3. CASE UNCHANGED rows BY <1>1, <2>1, <2>3 DEF DeductBalance, TypeOK, rows
  <2>4. QED BY <1>1, <2>2, <2>3 DEF DeductBalance
<1>2. CASE HoldBalance(p)
  <2>1. proc' \in [Runners -> Frames] BY <1>2, ResumeTyped DEF HoldBalance, TypeOK
  <2>2. CASE HoldRows(p) BY <1>2, <2>1, <2>2, HoldRowsTyped DEF HoldBalance, TypeOK
  <2>3. CASE UNCHANGED rows BY <1>2, <2>1, <2>3 DEF HoldBalance, TypeOK, rows
  <2>4. QED BY <1>2, <2>2, <2>3 DEF HoldBalance
<1>3. CASE SettleHold(p)
  <2>1. proc' \in [Runners -> Frames]
    BY <1>3, ResumeTyped, GotoTyped DEF SettleHold, AfterSettle, TypeOK, Steps
  <2>2. CASE SettleRows(p, proc[p].amount)
    BY <1>3, <2>1, <2>2, SettleRowsTyped DEF SettleHold, TypeOK
  <2>3. CASE UNCHANGED rows BY <1>3, <2>1, <2>3 DEF SettleHold, TypeOK, rows
  <2>4. QED BY <1>3, <2>2, <2>3 DEF SettleHold
<1>4. CASE RefundBalance(p)
  <2>1. proc' \in [Runners -> Frames] BY <1>4, ResumeTyped DEF RefundBalance, TypeOK
  <2>2. RefundRows(proc[p].user, proc[p].amount) BY <1>4 DEF RefundBalance
  <2>3. QED BY <1>0, <1>4, <2>1, <2>2, DeductRowsTyped DEF RefundBalance, TypeOK
<1>5. CASE CreateBalance(p)
  <2>1. proc' \in [Runners -> Frames]
    BY <1>5, ResumeTyped, GotoTyped DEF CreateBalance, TypeOK, Steps
  <2>2. CASE UNCHANGED rows BY <1>5, <2>1, <2>2 DEF CreateBalance, TypeOK, rows
  <2>3. CASE ~account[proc[p].user].exists
    <3>1. Limit[FreePlan] \in Int /\ FreePlan \in Plans BY PlansAssumption
    <3>2. account' \in [Users -> Balances] /\ journal' \in [Users -> Int]
      BY <1>0, <1>5, <2>3, <3>1, WrittenRowTyped DEF CreateBalance
    <3>3. QED BY <1>5, <2>1, <2>3, <3>2 DEF CreateBalance, TypeOK
  <2>4. QED BY <1>5, <2>2, <2>3 DEF CreateBalance
<1>6. CASE RefillWrite(p)
  <2>1. proc' \in [Runners -> Frames] BY <1>6, ResumeTyped DEF RefillWrite, TypeOK
  <2>2. journal[proc[p].user] + (Limit[proc[p].plan] - proc[p].prev) \in Int
    BY <1>0, PlansAssumption DEF TypeOK
  <2>3. account' \in [Users -> Balances] /\ journal' \in [Users -> Int]
    BY <1>0, <1>6, <2>2, WrittenRowTyped DEF RefillWrite, RefillRows
  <2>4. refills' \in [Users -> Nat] BY <1>0, <1>6 DEF RefillWrite, RefillRows, TypeOK
  <2>5. QED BY <1>6, <2>1, <2>3, <2>4 DEF RefillWrite, RefillRows, TypeOK
<1>7. CASE SettleLog(p)
  <2>1. proc' \in [Runners -> Frames] BY <1>7, ResumeTyped DEF SettleLog, TypeOK
  <2>2. QED BY <1>0, <1>7, <2>1 DEF SettleLog, TypeOK
<1>8. QED BY <1>1, <1>2, <1>3, <1>4, <1>5, <1>6, <1>7

\* The steps that change nothing but the runner's own frame.
LEMMA FrameStepTyped ==
    ASSUME TypeOK, NEW p \in Runners,
           \/ CreateUsageLog(p) \/ AiCallSucceeds(p) \/ AiCallFails(p)
           \/ RefillRead(p) \/ DatabaseError(p) \/ Crash(p)
           \/ BeginExpireStaleHolds(p) \/ \E t \in Tasks : ExpireNext(p, t)
    PROVE  TypeOK'
<1>0. proc[p] \in Frames BY DEF TypeOK
<1>1. CASE CreateUsageLog(p)
  <2>1. proc' \in [Runners -> Frames] BY <1>1, GotoTyped DEF CreateUsageLog, TypeOK, Steps
  <2>2. QED BY <1>1, <2>1 DEF CreateUsageLog, TypeOK, rows
<1>2. CASE AiCallSucceeds(p)
  <2>1. proc' \in [Runners -> Frames] BY <1>2, ResumeTyped DEF AiCallSucceeds, TypeOK
  <2>2. QED BY <1>2, <2>1 DEF AiCallSucceeds, TypeOK, rows
<1>3. CASE AiCallFails(p)
  <2>1. proc' \in [Runners -> Frames]
    BY <1>3, ResumeTyped, GotoTyped DEF AiCallFails, TypeOK, Steps
  <2>2. QED BY <1>3, <2>1 DEF AiCallFails, TypeOK, rows
<1>4. CASE RefillRead(p)
  <2>1. account[proc[p].user].balance \in Int
    BY <1>0 DEF TypeOK, Frames, Balances
  <2>2. [proc[p] EXCEPT !.step = "refillWrite", !.prev = account[proc[p].user].balance]
          \in Frames
    BY <1>0, <2>1 DEF Frames, Steps
  <2>3. proc' \in [Runners -> Frames] BY <1>4, <2>2 DEF RefillRead, TypeOK
  <2>4. QED BY <1>4, <2>3 DEF RefillRead, TypeOK, rows
<1>5. CASE DatabaseError(p)
  <2>1. proc' \in [Runners -> Frames] BY <1>5, ResumeTyped DEF DatabaseError, TypeOK
  <2>2. QED BY <1>5, <2>1 DEF DatabaseError, TypeOK, rows
<1>6. CASE Crash(p)
  <2>1. proc' \in [Runners -> Frames] BY <1>6, IdleIsFrame DEF Crash, TypeOK
  <2>2. QED BY <1>6, <2>1 DEF Crash, TypeOK, rows
<1>7. CASE BeginExpireStaleHolds(p)
  <2> DEFINE due == {t \in Tasks : holdTx[t].placed /\ holdTx[t].expiresAt <= now}
  <2>1. [Idle EXCEPT !.step = "expireNext", !.op = "expire", !.todo = due] \in Frames
    BY IdleIsFrame DEF Frames, Ops, Steps
  <2>2. proc' \in [Runners -> Frames]
    BY <1>7, <2>1, BeginTyped DEF BeginExpireStaleHolds, TypeOK
  <2>3. QED BY <1>7, <2>2 DEF BeginExpireStaleHolds, TypeOK, rows
<1>8. CASE \E t \in Tasks : ExpireNext(p, t)
  <2>1. PICK t \in Tasks : ExpireNext(p, t) BY <1>8
  <2> DEFINE rest == [proc[p] EXCEPT !.todo = @ \ {t}]
  <2>2. rest \in Frames BY <1>0 DEF Frames
  <2>3. Settleable(t) =>
          [rest EXCEPT !.step = "settleTx", !.task = t, !.user = holdTx[t].user,
                       !.amount = holdTx[t].amount] \in Frames
    BY <2>2, PlacedHold DEF Settleable, Frames, Steps
  <2>4. proc' \in [Runners -> Frames]
    BY <2>1, <2>2, <2>3, IdleIsFrame DEF ExpireNext, TypeOK
  <2>5. QED BY <2>1, <2>4 DEF ExpireNext, TypeOK, rows
<1>9. QED BY <1>1, <1>2, <1>3, <1>4, <1>5, <1>6, <1>7, <1>8

\* The tables and the frames of the calls in flight keep their types.
THEOREM TypeCorrect == Spec => []TypeOK
<1>1. Init => TypeOK
  BY IdleIsFrame, PlansAssumption DEF Init, TypeOK, Balances, Kinds
<1>2. TypeOK /\ [Next]_vars => TypeOK'
  <2> SUFFICES ASSUME TypeOK, [Next]_vars PROVE TypeOK' OBVIOUS
  <2>1. CASE UNCHANGED vars BY <2>1 DEF vars, rows, TypeOK
  <2>2. ASSUME NEW p \in Procs, Service(p) PROVE TypeOK'
    BY <2>2, ServiceBeginTyped, RowsTyped, FrameStepTyped DEF Service, Runners
  <2>3. ASSUME NEW c \in Crons, Expiry(c) PROVE TypeOK'
    BY <2>3, FrameStepTyped DEF Expiry, Runners
  <2>4. ASSUME NEW p \in Runners, SettleHold(p) \/ DatabaseError(p) \/ Crash(p)
        PROVE TypeOK'
    BY <2>4, RowsTyped, FrameStepTyped
  <2>5. CASE Tick BY <2>5 DEF Tick, TypeOK, rows
  <2>6. QED BY <2>1, <2>2, <2>3, <2>4, <2>5 DEF Next
<1>3. QED BY <1>1, <1>2, PTL DEF Spec

-----------------------------------------------------------------------------
(* What a step may do to the tables.                                       *)

Deducts(p) ==
    /\ DeductBalance(p)
    /\ Available(proc[p].user) >= proc[p].amount
    /\ DeductRows(proc[p].user, proc[p].amount)

Places(p) ==
    /\ HoldBalance(p)
    /\ Available(proc[p].user) >= proc[p].amount
    /\ HoldRows(p)

Settles(p) ==
    /\ SettleHold(p)
    /\ Settlements(proc[p].task) = 0
    /\ SettleRows(p, proc[p].amount)

Creates(p) == CreateBalance(p) /\ ~account[proc[p].user].exists

RowStep(p) == \/ Deducts(p) \/ Places(p) \/ Settles(p) \/ Creates(p)
              \/ RefundBalance(p) \/ RefillWrite(p) \/ SettleLog(p)

\* Only seven steps write rows: every other one leaves the tables alone.
LEMMA RowSteps ==
    ASSUME [Next]_vars
    PROVE  UNCHANGED rows \/ \E p \in Runners : RowStep(p)
<1>1. CASE UNCHANGED vars BY <1>1 DEF vars
<1>2. ASSUME NEW p \in Procs, Service(p)
      PROVE  UNCHANGED rows \/ RowStep(p)
  <2>1. CASE CreateBalance(p) BY <2>1 DEF CreateBalance, Creates, RowStep
  <2>2. CASE DeductBalance(p) BY <2>2 DEF DeductBalance, Deducts, RowStep
  <2>3. CASE HoldBalance(p) BY <2>3 DEF HoldBalance, Places, RowStep
  <2>4. CASE RefundBalance(p) \/ RefillWrite(p) \/ SettleLog(p) BY <2>4 DEF RowStep
  <2>5. CASE \/ CreateUsageLog(p) \/ AiCallSucceeds(p) \/ AiCallFails(p) \/ RefillRead(p)
    BY <2>5 DEF CreateUsageLog, AiCallSucceeds, AiCallFails, RefillRead
  <2>6. CASE \/ \E u \in Users, c \in Costs : BeginDeduct(p, u, c)
             \/ \E t \in Tasks, u \in Users, c \in Costs : BeginHold(p, t, u, c)
             \/ \E u \in Users : BeginGetBalance(p, u)
             \/ \E t \in Tasks, k \in Kinds : BeginSettle(p, t, k)
             \/ \E u \in Users, plan \in Plans : BeginRefill(p, u, plan)
             \/ BeginRefillAll(p)
             \/ \E u \in Users, plan \in Plans : BatchNext(p, u, plan)
    BY <2>6 DEF BeginDeduct, BeginHold, BeginGetBalance, BeginSettle, BeginRefill,
                BeginRefillAll, BatchNext
  <2>7. QED BY <1>2, <2>1, <2>2, <2>3, <2>4, <2>5, <2>6 DEF Service
<1>3. ASSUME NEW c \in Crons, Expiry(c) PROVE UNCHANGED rows
  BY <1>3 DEF Expiry, BeginExpireStaleHolds, ExpireNext
<1>4. ASSUME NEW p \in Runners, SettleHold(p) \/ DatabaseError(p) \/ Crash(p)
      PROVE  UNCHANGED rows \/ RowStep(p)
  BY <1>4 DEF SettleHold, DatabaseError, Crash, Settles, RowStep
<1>5. CASE Tick BY <1>5 DEF Tick
<1>6. QED BY <1>1, <1>2, <1>3, <1>4, <1>5 DEF Next, Runners

\* The types of the frame a step works on.
LEMMA FrameTyped ==
    ASSUME TypeOK, NEW p \in Runners
    PROVE  /\ proc[p] \in Frames
           /\ proc[p].user \in Users /\ proc[p].task \in Tasks /\ proc[p].amount \in Nat
           /\ proc[p].plan \in Plans /\ KindOf(p) \in Kinds /\ Spent(p) \in Nat
           /\ Spent(p) <= proc[p].amount
           /\ Limit[proc[p].plan] \in Nat /\ Limit[FreePlan] \in Nat
BY PlansAssumption DEF TypeOK, Frames, KindOf, Spent, Kinds

-----------------------------------------------------------------------------
(* Available balances.                                                     *)

\* What a user may still spend is a number.
LEMMA AvailableTyped == TypeOK => \A u \in Users : Available(u) \in Int
BY DEF TypeOK, Balances, Available

\* What is available to u becomes x for u = v and stays for the others.
Becomes(v, x) == \A u \in Users : /\ Available(u)' = IF u = v THEN x ELSE Available(u)
                                  /\ account'[u].exists = (account[u].exists \/ u = v)

\* deductBalance takes the operation's price from its user and nobody else.
LEMMA DeductsAvailable ==
    ASSUME TypeOK, NEW p \in Runners, Deducts(p), account[proc[p].user].exists
    PROVE  Becomes(proc[p].user, Available(proc[p].user) - proc[p].amount)
BY FrameTyped DEF Deducts, DeductRows, TypeOK, Balances, Available, Becomes

\* refundBalance gives it back to the same user.
LEMMA RefundAvailable ==
    ASSUME TypeOK, NEW p \in Runners, RefundBalance(p), account[proc[p].user].exists
    PROVE  Becomes(proc[p].user, Available(proc[p].user) + proc[p].amount)
BY FrameTyped DEF RefundBalance, RefundRows, TypeOK, Balances, Available, Becomes

\* holdBalance takes a task's cost from its user and nobody else.
LEMMA PlacesAvailable ==
    ASSUME TypeOK, NEW p \in Runners, Places(p), account[proc[p].user].exists
    PROVE  Becomes(proc[p].user, Available(proc[p].user) - proc[p].amount)
BY FrameTyped DEF Places, HoldRows, TypeOK, Balances, Available, Becomes

\* commitHold changes nothing that can be spent; rollbackHold frees the cost.
LEMMA SettlesAvailable ==
    ASSUME TypeOK, NEW p \in Runners, Settles(p), account[proc[p].user].exists
    PROVE  Becomes(proc[p].user, Available(proc[p].user) + (proc[p].amount - Spent(p)))
BY FrameTyped DEF Settles, SettleRows, TypeOK, Balances, Available, Becomes

\* A row written whole, nothing held, leaves its balance to be spent.
LEMMA WrittenAvailable ==
    ASSUME TypeOK, NEW v \in Users, NEW x \in Nat, NEW plan, NEW end,
           account' = [account EXCEPT ![v] =
               [exists |-> TRUE, balance |-> x, hold |-> 0, plan |-> plan, cycleEnd |-> end]]
    PROVE  Becomes(v, x)
<1> DEFINE row == [exists |-> TRUE, balance |-> x, hold |-> 0, plan |-> plan, cycleEnd |-> end]
<1>1. row.exists = TRUE /\ row.balance - row.hold = x OBVIOUS
<1>2. account' = [account EXCEPT ![v] = row] OBVIOUS
<1> HIDE DEF row
<1>3. ASSUME NEW u \in Users
      PROVE  Available(u)' = IF u = v THEN x ELSE Available(u)
  BY <1>1, <1>2 DEF TypeOK, Available
<1>4. ASSUME NEW u \in Users
      PROVE  account'[u].exists = (account[u].exists \/ u = v)
  <2>1. CASE u = v BY <1>1, <1>2, <2>1 DEF TypeOK
  <2>2. CASE u # v
    <3>1. account'[u] = account[u] BY <1>2, <2>2 DEF TypeOK
    <3>2. account[u].exists \in BOOLEAN BY DEF TypeOK, Balances
    <3>3. QED BY <2>2, <3>1, <3>2
  <2>3. QED BY <2>1, <2>2
<1>5. QED BY <1>3, <1>4 DEF Becomes

\* ensureBalance's new row has the free plan's limit to spend.
LEMMA CreatesAvailable ==
    ASSUME TypeOK, NEW p \in Runners, Creates(p)
    PROVE  Becomes(proc[p].user, Limit[FreePlan])
BY FrameTyped, WrittenAvailable DEF Creates, CreateBalance

\* refillBalance leaves exactly the plan's limit to spend.
LEMMA RefillAvailable ==
    ASSUME TypeOK, NEW p \in Runners, RefillWrite(p)
    PROVE  Becomes(proc[p].user, Limit[proc[p].plan])
BY FrameTyped, WrittenAvailable DEF RefillWrite, RefillRows

-----------------------------------------------------------------------------
(* What a call in flight knows.  This is the strengthening the theorems    *)
(* below need: a frame that reached a transaction agrees with the rows it  *)
(* was filled from, although it read them outside the transaction.         *)

FrameOK(p) ==
    /\ proc[p].step = "idle" => proc[p].op = "none"
    /\ proc[p].step = "createBalance" => proc[p].op \in {"deduct", "hold", "getBalance"}
    /\ proc[p].step = "spendTx" => proc[p].op \in {"deduct", "hold"}
    /\ proc[p].step \in {"usageLog", "aiCall", "refund"} => proc[p].op = "deduct"
    /\ proc[p].step = "expireNext" => proc[p].op = "expire"
    /\ proc[p].step = "settleTx" => proc[p].op \in {"COMMIT", "ROLLBACK", "expire"}
    /\ proc[p].step = "settleLog" => proc[p].op \in {"COMMIT", "ROLLBACK"}
    /\ proc[p].step \in {"refillRead", "refillWrite", "batchNext"} =>
          proc[p].op \in {"getBalance", "refill", "batch"}
    /\ proc[p].op \in {"deduct", "hold"} => proc[p].amount \in Costs

\* A balance row the call found or created is still there.
RowOK(p) == proc[p].step \in {"spendTx", "usageLog", "aiCall", "refund"} =>
                account[proc[p].user].exists

\* The HOLD row a settlement read is the one it will settle.
SettleOK(p) ==
    proc[p].step = "settleTx" =>
        /\ holdTx[proc[p].task].placed
        /\ holdTx[proc[p].task].user = proc[p].user
        /\ holdTx[proc[p].task].amount = proc[p].amount

\* Only the winner of the settlement goes on to its usage log.
LogOK(p) == proc[p].step = "settleLog" => settleTx[proc[p].task][proc[p].op] = 1

\* A task has one HOLD: its identifier is fresh.
HoldOK(p) ==
    proc[p].op = "hold" =>
        /\ ~holdTx[proc[p].task].placed
        /\ \A q \in Runners : q # p /\ proc[q].op = "hold" => proc[q].task # proc[p].task

CallsOK == \A p \in Runners :
               FrameOK(p) /\ RowOK(p) /\ SettleOK(p) /\ LogOK(p) /\ HoldOK(p)

HoldersOK == \A t \in Tasks : holdTx[t].placed => account[holdTx[t].user].exists

IInv == TypeOK /\ CallsOK /\ HoldersOK /\ SettledAtMostOnce /\ UsageLogAgrees /\ NeverOverdrawn

\* The runner of a step; the frames of the others stay.
Moves(p) == /\ p \in Runners
            /\ \A q \in Runners : q # p => proc'[q] = proc[q]

\* Where a call is after it ends or goes back to its loop.
LEMMA AfterResume ==
    ASSUME TypeOK, NEW p \in Runners, Resume(p)
    PROVE  /\ Moves(p)
           /\ \/ proc'[p] = Idle
              \/ proc'[p] = [proc[p] EXCEPT !.step = "expireNext"] /\ proc[p].op = "expire"
              \/ proc'[p] = [proc[p] EXCEPT !.step = "batchNext"] /\ proc[p].op = "batch"
BY DEF Resume, Goto, Moves, TypeOK

\* Its frame is then one that FrameOK allows.
LEMMA ResumeFrame ==
    ASSUME TypeOK, NEW p \in Runners, Resume(p)
    PROVE  /\ Moves(p)
           /\ proc'[p].step \in {"idle", "expireNext", "batchNext"}
           /\ proc'[p].op \in {"none", "expire", "batch"}
           /\ FrameOK(p)'
BY AfterResume, FrameTyped, IdleIsFrame DEF FrameOK, Frames

\* A call that goes on changes only its own step.
LEMMA GotoFrame ==
    ASSUME TypeOK, NEW p \in Runners, NEW s, Goto(p, s)
    PROVE  Moves(p) /\ proc'[p] = [proc[p] EXCEPT !.step = s]
BY DEF Goto, Moves, TypeOK

CallOK(p) == FrameOK(p) /\ RowOK(p) /\ SettleOK(p) /\ LogOK(p) /\ HoldOK(p)

\* A call that ends, or goes back to its loop, claims nothing about the rows.
LEMMA ResumeOK ==
    ASSUME TypeOK, NEW p \in Runners, Resume(p)
    PROVE  Moves(p) /\ CallOK(p)'
<1>1. /\ Moves(p) /\ FrameOK(p)'
      /\ proc'[p].step \in {"idle", "expireNext", "batchNext"}
      /\ proc'[p].op \in {"none", "expire", "batch"}
  BY ResumeFrame
<1>2. RowOK(p)' /\ SettleOK(p)' /\ LogOK(p)' /\ HoldOK(p)'
  BY <1>1 DEF RowOK, SettleOK, LogOK, HoldOK
<1>3. QED BY <1>1, <1>2 DEF CallOK

\* Rows are never deleted, and a HOLD or a settled task never changes.
RowsGrow ==
    /\ \A u \in Users : account[u].exists => account'[u].exists
    /\ \A t \in Tasks : holdTx[t].placed => holdTx'[t] = holdTx[t]
    /\ \A t \in Tasks : Settlements(t) # 0 => settleTx'[t] = settleTx[t]

PlacedBy(p) ==
    \A t \in Tasks : holdTx'[t].placed =>
        holdTx[t].placed \/ (proc[p].op = "hold" /\ proc[p].task = t)

\* COMMIT and ROLLBACK rows are counted by naturals.
LEMMA SettlementsTyped ==
    ASSUME TypeOK, NEW t \in Tasks
    PROVE  /\ settleTx[t]["COMMIT"] \in Nat /\ settleTx[t]["ROLLBACK"] \in Nat
           /\ Settlements(t) \in Nat
BY DEF TypeOK, Kinds, Settlements

\* A step that writes no rows takes back none and places no hold.
LEMMA UnchangedGrow ==
    ASSUME UNCHANGED rows, NEW p
    PROVE  RowsGrow /\ PlacedBy(p)
BY DEF rows, RowsGrow, PlacedBy

\* No step removes a HOLD, a settlement or a log row, and only holdBalance
\* adds a HOLD: what a call in flight relies on stays true under the others.
LEMMA StepGrow ==
    ASSUME IInv, NEW p \in Runners, RowStep(p)
    PROVE  RowsGrow /\ PlacedBy(p)
<1> USE DEF IInv
<1>0. CallOK(p) BY DEF CallsOK, CallOK
<1>1. CASE Deducts(p)
  <2>1. account[proc[p].user].exists BY <1>0, <1>1 DEF CallOK, RowOK, Deducts, DeductBalance
  <2>2. Becomes(proc[p].user, Available(proc[p].user) - proc[p].amount)
    BY <1>1, <2>1, DeductsAvailable
  <2>3. QED BY <1>1, <2>2 DEF Becomes, Deducts, DeductRows, RowsGrow, PlacedBy
<1>2. CASE RefundBalance(p)
  <2>1. account[proc[p].user].exists BY <1>0, <1>2 DEF CallOK, RowOK, RefundBalance
  <2>2. Becomes(proc[p].user, Available(proc[p].user) + proc[p].amount)
    BY <1>2, <2>1, RefundAvailable
  <2>3. QED BY <1>2, <2>2 DEF Becomes, RefundBalance, RefundRows, RowsGrow, PlacedBy
<1>3. CASE Places(p)
  <2>1. account[proc[p].user].exists BY <1>0, <1>3 DEF CallOK, RowOK, Places, HoldBalance
  <2>2. Becomes(proc[p].user, Available(proc[p].user) - proc[p].amount)
    BY <1>3, <2>1, PlacesAvailable
  <2>3. ~holdTx[proc[p].task].placed /\ proc[p].op = "hold"
    BY <1>0, <1>3 DEF CallOK, HoldOK, Places, HoldBalance
  <2>4. \A t \in Tasks : t # proc[p].task => holdTx'[t] = holdTx[t]
    BY <1>3 DEF Places, HoldRows, TypeOK
  <2>5. settleTx' = settleTx BY <1>3 DEF Places, HoldRows
  <2>6. QED BY <2>2, <2>3, <2>4, <2>5 DEF Becomes, RowsGrow, PlacedBy
<1>4. CASE Settles(p)
  <2>0. proc[p].task \in Tasks BY FrameTyped
  <2>1. account[proc[p].user].exists
    BY <1>0, <1>4, <2>0 DEF CallOK, SettleOK, Settles, SettleHold, HoldersOK
  <2>2. Becomes(proc[p].user, Available(proc[p].user) + (proc[p].amount - Spent(p)))
    BY <1>4, <2>1, SettlesAvailable
  <2>3. \A t \in Tasks : t # proc[p].task => settleTx'[t] = settleTx[t]
    BY <1>4, FrameTyped DEF Settles, SettleRows, TypeOK
  <2>4. holdTx' = holdTx /\ Settlements(proc[p].task) = 0 BY <1>4 DEF Settles, SettleRows
  <2>5. QED BY <2>2, <2>3, <2>4 DEF Becomes, RowsGrow, PlacedBy
<1>5. CASE Creates(p)
  BY <1>5, CreatesAvailable DEF Becomes, Creates, CreateBalance, RowsGrow, PlacedBy
<1>6. CASE RefillWrite(p)
  BY <1>6, RefillAvailable DEF Becomes, RefillWrite, RefillRows, RowsGrow, PlacedBy
<1>7. CASE SettleLog(p) BY <1>7 DEF SettleLog, RowsGrow, PlacedBy
<1>8. QED BY <1>1, <1>2, <1>3, <1>4, <1>5, <1>6, <1>7 DEF RowStep

\* A step that leaves its own call in order leaves all of them in order.
LEMMA CallsPreserved ==
    ASSUME IInv, NEW p \in Runners, Moves(p), RowsGrow, PlacedBy(p), CallOK(p)', TypeOK'
    PROVE  CallsOK'
<1> SUFFICES ASSUME NEW q \in Runners, q # p PROVE CallOK(q)'
  BY DEF CallsOK, CallOK
<1>1. proc'[q] = proc[q] BY DEF Moves
<1>2. CallOK(q) /\ TypeOK BY DEF IInv, CallsOK, CallOK
<1>3. proc[q].user \in Users /\ proc[q].task \in Tasks BY <1>2, FrameTyped
<1>4. FrameOK(q)' BY <1>1, <1>2 DEF CallOK, FrameOK
<1>5. RowOK(q)' BY <1>1, <1>2, <1>3 DEF CallOK, RowOK, RowsGrow
<1>6. SettleOK(q)' BY <1>1, <1>2, <1>3 DEF CallOK, SettleOK, RowsGrow
<1>7. LogOK(q)'
  <2>1. SUFFICES ASSUME proc[q].step = "settleLog"
        PROVE settleTx'[proc[q].task][proc[q].op] = 1
    BY <1>1 DEF LogOK
  <2>2. settleTx[proc[q].task][proc[q].op] = 1 /\ proc[q].op \in {"COMMIT", "ROLLBACK"}
    BY <1>2, <2>1 DEF CallOK, LogOK, FrameOK
  <2>3. Settlements(proc[q].task) # 0
    BY <1>2, <1>3, <2>2, SettlementsTyped DEF Settlements
  <2>4. QED BY <1>3, <2>2, <2>3 DEF RowsGrow
<1>8. HoldOK(q)'
  <2>1. SUFFICES ASSUME proc[q].op = "hold"
        PROVE  /\ ~holdTx'[proc[q].task].placed
               /\ \A r \in Runners : r # q /\ proc'[r].op = "hold" => proc'[r].task # proc[q].task
    BY <1>1 DEF HoldOK
  <2>2. HoldOK(q) BY <1>2 DEF CallOK
  <2>3. ~holdTx'[proc[q].task].placed BY <1>3, <2>1, <2>2 DEF HoldOK, PlacedBy
  <2>4. ASSUME NEW r \in Runners, r # q, proc'[r].op = "hold"
        PROVE  proc'[r].task # proc[q].task
    <3>1. CASE r = p
      BY <1>1, <2>1, <2>4, <3>1 DEF CallOK, HoldOK
    <3>2. CASE r # p BY <2>1, <2>2, <2>4, <3>2 DEF HoldOK, Moves
    <3>3. QED BY <3>1, <3>2
  <2>5. QED BY <2>3, <2>4
<1>9. QED BY <1>4, <1>5, <1>6, <1>7, <1>8 DEF CallOK

\* A new call starts in order; its step is the first of its operation.
LEMMA BeginOK ==
    ASSUME IInv, NEW p \in Runners, NEW f \in Frames, Begin(p, f), UNCHANGED rows,
           \/ /\ f.op \in {"deduct", "hold"} /\ f.amount \in Costs
              /\ f.step = "createBalance" \/ (f.step = "spendTx" /\ account[f.user].exists)
              /\ f.op = "hold" => FreshTask(f.task)
           \/ f.op = "getBalance" /\ f.step \in {"createBalance", "refillRead"}
           \/ f.op = "refill" /\ f.step = "refillRead"
           \/ f.op = "batch" /\ f.step = "batchNext"
           \/ f.op = "expire" /\ f.step = "expireNext"
           \/ /\ f.op \in Kinds /\ f.step = "settleTx" /\ Settleable(f.task)
              /\ f.user = holdTx[f.task].user /\ f.amount = holdTx[f.task].amount
    PROVE  Moves(p) /\ CallOK(p)'
<1> USE DEF IInv
<1>1. Moves(p) /\ proc'[p] = f BY DEF Begin, Moves, TypeOK
<1>2. FrameOK(p)' BY <1>1 DEF FrameOK, Kinds
<1>3. RowOK(p)' BY <1>1 DEF RowOK, rows, Kinds
<1>4. SettleOK(p)' BY <1>1 DEF SettleOK, rows, Kinds, Settleable
<1>5. LogOK(p)' BY <1>1 DEF LogOK
<1>6. HoldOK(p)' BY <1>1 DEF HoldOK, Moves, FreshTask, rows, Kinds
<1>7. QED BY <1>1, <1>2, <1>3, <1>4, <1>5, <1>6 DEF CallOK

\* A call that begins relies only on what it has read at that moment.
LEMMA ServiceBeginOK ==
    ASSUME IInv, NEW p \in Procs,
           \/ \E u \in Users, c \in Costs : BeginDeduct(p, u, c)
           \/ \E t \in Tasks, u \in Users, c \in Costs : BeginHold(p, t, u, c)
           \/ \E u \in Users : BeginGetBalance(p, u)
           \/ \E t \in Tasks, k \in Kinds : BeginSettle(p, t, k)
           \/ \E u \in Users, plan \in Plans : BeginRefill(p, u, plan)
           \/ BeginRefillAll(p)
           \/ \E u \in Users, plan \in Plans : BatchNext(p, u, plan)
    PROVE  Moves(p) /\ CallOK(p)' /\ UNCHANGED rows
<1> USE IdleIsFrame DEF IInv
<1> p \in Runners BY DEF Runners
<1>1. CASE \E u \in Users, c \in Costs : BeginDeduct(p, u, c)
  <2>1. PICK u \in Users, c \in Costs : BeginDeduct(p, u, c) BY <1>1
  <2> DEFINE f == [Idle EXCEPT !.op = "deduct", !.user = u, !.amount = c]
  <2>2. /\ [f EXCEPT !.step = "spendTx"] \in Frames
        /\ [f EXCEPT !.step = "createBalance", !.since = now] \in Frames
    BY CostsAssumption DEF Frames, Ops, Steps, TypeOK
  <2>3. CASE account[u].exists /\ Begin(p, [f EXCEPT !.step = "spendTx"])
    BY <2>1, <2>2, <2>3, BeginOK DEF BeginDeduct, Frames
  <2>4. CASE Begin(p, [f EXCEPT !.step = "createBalance", !.since = now])
    BY <2>1, <2>2, <2>4, BeginOK DEF BeginDeduct, Frames
  <2>5. QED BY <2>1, <2>3, <2>4 DEF BeginDeduct, EnsureBalance
<1>2. CASE \E t \in Tasks, u \in Users, c \in Costs : BeginHold(p, t, u, c)
  <2>1. PICK t \in Tasks, u \in Users, c \in Costs : BeginHold(p, t, u, c) BY <1>2
  <2> DEFINE f == [Idle EXCEPT !.op = "hold", !.user = u, !.task = t, !.amount = c,
                               !.since = now]
  <2>2. /\ [f EXCEPT !.step = "spendTx"] \in Frames
        /\ [f EXCEPT !.step = "createBalance", !.since = now] \in Frames
    BY CostsAssumption DEF Frames, Ops, Steps, TypeOK
  <2>3. CASE account[u].exists /\ Begin(p, [f EXCEPT !.step = "spendTx"])
    BY <2>1, <2>2, <2>3, BeginOK DEF BeginHold, Frames
  <2>4. CASE Begin(p, [f EXCEPT !.step = "createBalance", !.since = now])
    BY <2>1, <2>2, <2>4, BeginOK DEF BeginHold, Frames
  <2>5. QED BY <2>1, <2>3, <2>4 DEF BeginHold, EnsureBalance
<1>3. CASE \E u \in Users : BeginGetBalance(p, u)
  <2>1. PICK u \in Users : BeginGetBalance(p, u) BY <1>3
  <2> DEFINE f == [Idle EXCEPT !.step = "refillRead", !.op = "getBalance", !.user = u,
                               !.plan = account[u].plan, !.since = now]
  <2> DEFINE g == [Idle EXCEPT !.step = "createBalance", !.op = "getBalance",
                               !.user = u, !.since = now]
  <2>2. f \in Frames /\ g \in Frames BY DEF Frames, Ops, Steps, TypeOK, Balances
  <2>3. (Begin(p, f) \/ Begin(p, g)) /\ UNCHANGED rows BY <2>1 DEF BeginGetBalance
  <2>4. /\ f.op = "getBalance" /\ f.step = "refillRead"
        /\ g.op = "getBalance" /\ g.step = "createBalance"
    BY DEF Frames
  <2> HIDE DEF f, g
  <2>5. QED BY <2>2, <2>3, <2>4, BeginOK
<1>4. CASE \E t \in Tasks, k \in Kinds : BeginSettle(p, t, k)
  <2>1. PICK t \in Tasks, k \in Kinds : BeginSettle(p, t, k) BY <1>4
  <2> DEFINE f == [Idle EXCEPT !.step = "settleTx", !.op = k, !.task = t,
                               !.user = holdTx[t].user, !.amount = holdTx[t].amount]
  <2>2. f \in Frames
    BY <2>1, PlacedHold DEF BeginSettle, Settleable, Frames, Ops, Steps, Kinds
  <2>3. /\ f.op = k /\ f.step = "settleTx" /\ f.task = t
        /\ f.user = holdTx[t].user /\ f.amount = holdTx[t].amount
    BY DEF Frames
  <2>4. Begin(p, f) /\ UNCHANGED rows /\ Settleable(t) BY <2>1 DEF BeginSettle
  <2> HIDE DEF f
  <2>5. QED BY <2>2, <2>3, <2>4, BeginOK
<1>5. CASE \E u \in Users, plan \in Plans : BeginRefill(p, u, plan)
  <2>1. PICK u \in Users, plan \in Plans : BeginRefill(p, u, plan) BY <1>5
  <2> DEFINE f == [Idle EXCEPT !.step = "refillRead", !.op = "refill",
                               !.user = u, !.plan = plan, !.since = now]
  <2>2. f \in Frames /\ f.step = "refillRead" /\ f.op = "refill"
    BY DEF Frames, Ops, Steps, TypeOK
  <2>3. Begin(p, f) /\ UNCHANGED rows BY <2>1 DEF BeginRefill
  <2> HIDE DEF f
  <2>4. QED BY <2>2, <2>3, BeginOK
<1>6. CASE BeginRefillAll(p)
  <2> DEFINE due == {u \in Users : account[u].exists /\ account[u].cycleEnd <= now}
  <2> DEFINE f == [Idle EXCEPT !.step = "batchNext", !.op = "batch",
                               !.batch = {<<u, account[u].plan>> : u \in due}]
  <2>1. {<<u, account[u].plan>> : u \in due} \in SUBSET (Users \X Plans)
    BY DEF TypeOK, Balances
  <2>2. f \in Frames /\ f.step = "batchNext" /\ f.op = "batch"
    BY <2>1 DEF Frames, Ops, Steps
  <2>3. Begin(p, f) /\ UNCHANGED rows BY <1>6 DEF BeginRefillAll
  <2> HIDE DEF f
  <2>4. QED BY <2>2, <2>3, BeginOK
<1>7. CASE \E u \in Users, plan \in Plans : BatchNext(p, u, plan)
  <2>1. PICK u \in Users, plan \in Plans : BatchNext(p, u, plan) BY <1>7
  <2> DEFINE f == [proc[p] EXCEPT !.step = "refillRead", !.user = u, !.plan = plan,
                                  !.since = now, !.batch = @ \ {<<u, plan>>}]
  <2>2. /\ f.step = "refillRead" /\ f.op = proc[p].op
        /\ proc[p].op \in {"getBalance", "refill", "batch"}
    BY <2>1, FrameTyped DEF Frames, BatchNext, CallsOK, FrameOK
  <2>3. proc' = [proc EXCEPT ![p] = f] /\ UNCHANGED rows BY <2>1 DEF BatchNext
  <2> HIDE DEF f
  <2>4. Moves(p) /\ proc'[p] = f BY <2>3 DEF Moves, TypeOK
  <2>5. CallOK(p)'
    BY <2>2, <2>4 DEF CallOK, FrameOK, RowOK, SettleOK, LogOK, HoldOK
  <2>6. QED BY <2>3, <2>4, <2>5
<1>8. QED BY <1>1, <1>2, <1>3, <1>4, <1>5, <1>6, <1>7

\* A step that writes rows leaves its own call with what the next one needs.
LEMMA RowStepOK ==
    ASSUME IInv, NEW p \in Runners, RowStep(p)
    PROVE  Moves(p) /\ CallOK(p)'
<1> USE DEF IInv
<1>0. CallOK(p) BY DEF CallsOK, CallOK
<1>1. CASE Resume(p) BY <1>1, ResumeOK
<1>2. CASE Deducts(p) /\ Goto(p, "usageLog")
  <2>1. Moves(p) /\ proc'[p] = [proc[p] EXCEPT !.step = "usageLog"] BY <1>2, GotoFrame
  <2>2. proc[p].op = "deduct" /\ proc[p].amount \in Costs
    BY <1>0, <1>2 DEF Deducts, DeductBalance, CallOK, FrameOK
  <2>3. /\ proc'[p].step = "usageLog" /\ proc'[p].op = "deduct"
        /\ proc'[p].amount \in Costs /\ proc'[p].user = proc[p].user
    BY <2>1, <2>2, FrameTyped DEF Frames
  <2>4. account'[proc[p].user].exists
    BY <1>0, <1>2, FrameTyped, StepGrow
    DEF RowStep, RowsGrow, Deducts, DeductBalance, CallOK, RowOK
  <2>5. QED BY <2>1, <2>3, <2>4 DEF CallOK, FrameOK, RowOK, SettleOK, LogOK, HoldOK
<1>3. CASE Settles(p) /\ Goto(p, "settleLog") /\ proc[p].op # "expire"
  <2>1. Moves(p) /\ proc'[p] = [proc[p] EXCEPT !.step = "settleLog"] BY <1>3, GotoFrame
  <2>2. proc[p].op \in {"COMMIT", "ROLLBACK"}
    BY <1>0, <1>3 DEF Settles, SettleHold, CallOK, FrameOK
  <2>3. /\ proc'[p].step = "settleLog" /\ proc'[p].op = proc[p].op
        /\ proc'[p].task = proc[p].task
    BY <2>1, FrameTyped DEF Frames
  <2>4. KindOf(p) = proc[p].op BY <2>2 DEF KindOf
  <2>5. settleTx[proc[p].task][proc[p].op] = 0
    BY <1>3, <2>2, FrameTyped, SettlementsTyped DEF Settles, Settlements
  <2>6. settleTx'[proc[p].task][proc[p].op] = 1
    BY <1>3, <2>2, <2>4, <2>5, FrameTyped DEF Settles, SettleRows, TypeOK, Kinds
  <2>7. QED BY <2>1, <2>2, <2>3, <2>6 DEF CallOK, FrameOK, RowOK, SettleOK, LogOK, HoldOK
<1>4. CASE Creates(p) /\ Goto(p, "spendTx") /\ proc[p].op \in {"deduct", "hold"}
  <2>1. Moves(p) /\ proc'[p] = [proc[p] EXCEPT !.step = "spendTx"] BY <1>4, GotoFrame
  <2>2. /\ proc'[p].step = "spendTx" /\ proc'[p].op = proc[p].op
        /\ proc'[p].amount = proc[p].amount /\ proc'[p].user = proc[p].user
        /\ proc'[p].task = proc[p].task
    BY <2>1, FrameTyped DEF Frames
  <2>3. proc[p].amount \in Costs BY <1>0, <1>4 DEF CallOK, FrameOK
  <2>4. account'[proc[p].user].exists
    BY <1>4, FrameTyped, CreatesAvailable DEF Becomes
  <2>5. HoldOK(p)'
    BY <1>0, <1>4, <2>1, <2>2 DEF CallOK, HoldOK, Moves, Creates, CreateBalance
  <2>6. QED BY <1>4, <2>1, <2>2, <2>3, <2>4, <2>5 DEF CallOK, FrameOK, RowOK, SettleOK, LogOK
<1>5. QED
  BY <1>1, <1>2, <1>3, <1>4
  DEF RowStep, Deducts, DeductBalance, Places, HoldBalance, Settles, SettleHold, AfterSettle,
      Creates, CreateBalance, RefundBalance, RefillWrite, SettleLog

\* A step that writes no rows leaves its own call with what the next one needs.
LEMMA FrameStepOK ==
    ASSUME IInv, NEW p \in Runners,
           \/ Resume(p) /\ UNCHANGED rows
           \/ CreateUsageLog(p) \/ AiCallSucceeds(p) \/ AiCallFails(p)
           \/ RefillRead(p) \/ DatabaseError(p) \/ Crash(p)
           \/ BeginExpireStaleHolds(p) \/ \E t \in Tasks : ExpireNext(p, t)
    PROVE  Moves(p) /\ CallOK(p)' /\ UNCHANGED rows
<1> USE IdleIsFrame DEF IInv
<1>0. CallOK(p) BY DEF CallsOK, CallOK
<1>1. CASE Resume(p) /\ UNCHANGED rows BY <1>1, ResumeOK
<1>2. CASE AiCallSucceeds(p) \/ DatabaseError(p)
  BY <1>2, ResumeOK DEF AiCallSucceeds, DatabaseError
<1>3. ASSUME NEW s \in {"aiCall", "refund"}, Goto(p, s), UNCHANGED rows,
             proc[p].step \in {"usageLog", "aiCall"}
      PROVE  Moves(p) /\ CallOK(p)'
  <2>1. Moves(p) /\ proc'[p] = [proc[p] EXCEPT !.step = s] BY <1>3, GotoFrame
  <2>2. /\ proc'[p].step = s /\ proc'[p].op = proc[p].op
        /\ proc'[p].amount = proc[p].amount /\ proc'[p].user = proc[p].user
    BY <2>1, FrameTyped DEF Frames
  <2>3. /\ proc[p].op = "deduct" /\ proc[p].amount \in Costs
        /\ account'[proc[p].user].exists
    BY <1>0, <1>3 DEF CallOK, FrameOK, RowOK, rows
  <2>4. QED BY <2>1, <2>2, <2>3 DEF CallOK, FrameOK, RowOK, SettleOK, LogOK, HoldOK
<1>4. CASE CreateUsageLog(p) BY <1>3, <1>4 DEF CreateUsageLog
<1>5. CASE AiCallFails(p) BY <1>3, <1>5, ResumeOK DEF AiCallFails
<1>6. CASE RefillRead(p)
  <2> DEFINE f == [proc[p] EXCEPT !.step = "refillWrite", !.prev = account[proc[p].user].balance]
  <2>1. Moves(p) /\ proc'[p] = f BY <1>6 DEF RefillRead, Moves, TypeOK
  <2>2. f.step = "refillWrite" /\ f.op = proc[p].op BY FrameTyped DEF Frames
  <2>3. proc[p].op \in {"getBalance", "refill", "batch"}
    BY <1>0, <1>6 DEF CallOK, FrameOK, RefillRead
  <2> HIDE DEF f
  <2>4. CallOK(p)' BY <2>1, <2>2, <2>3 DEF CallOK, FrameOK, RowOK, SettleOK, LogOK, HoldOK
  <2>5. QED BY <1>6, <2>1, <2>4 DEF RefillRead
<1>7. CASE Crash(p)
  <2>1. Moves(p) /\ proc'[p] = Idle BY <1>7 DEF Crash, Moves, TypeOK
  <2>2. CallOK(p)' BY <2>1 DEF CallOK, FrameOK, RowOK, SettleOK, LogOK, HoldOK
  <2>3. QED BY <1>7, <2>1, <2>2 DEF Crash
<1>8. CASE BeginExpireStaleHolds(p)
  <2> DEFINE due == {t \in Tasks : holdTx[t].placed /\ holdTx[t].expiresAt <= now}
  <2> DEFINE f == [Idle EXCEPT !.step = "expireNext", !.op = "expire", !.todo = due]
  <2>1. f \in Frames /\ f.step = "expireNext" /\ f.op = "expire" BY DEF Frames, Ops, Steps
  <2>2. Begin(p, f) /\ UNCHANGED rows BY <1>8 DEF BeginExpireStaleHolds
  <2> HIDE DEF f
  <2>3. QED BY <2>1, <2>2, BeginOK
<1>9. CASE \E t \in Tasks : ExpireNext(p, t)
  <2>1. PICK t \in Tasks : ExpireNext(p, t) BY <1>9
  <2> DEFINE rest == [proc[p] EXCEPT !.todo = @ \ {t}]
  <2> DEFINE f == [rest EXCEPT !.step = "settleTx", !.task = t, !.user = holdTx[t].user,
                               !.amount = holdTx[t].amount]
  <2>2. proc[p].op = "expire" /\ proc[p].step = "expireNext"
    BY <1>0, <2>1 DEF CallOK, FrameOK, ExpireNext
  <2>3. /\ rest.op = "expire" /\ rest.step = "expireNext"
        /\ f.op = "expire" /\ f.step = "settleTx" /\ f.task = t
        /\ f.user = holdTx[t].user /\ f.amount = holdTx[t].amount
    BY <2>2, FrameTyped DEF Frames
  <2>4. /\ Moves(p) /\ UNCHANGED rows
        /\ \/ Settleable(t) /\ proc'[p] = f
           \/ proc'[p] = Idle \/ proc'[p] = rest
    BY <2>1 DEF ExpireNext, Moves, TypeOK
  <2> HIDE DEF rest, f
  <2>5. CallOK(p)'
    BY <2>3, <2>4 DEF CallOK, FrameOK, RowOK, SettleOK, LogOK, HoldOK, Settleable, rows
  <2>6. QED BY <2>4, <2>5
<1>10. QED BY <1>1, <1>2, <1>4, <1>5, <1>6, <1>7, <1>8, <1>9
          DEF AiCallSucceeds, DatabaseError, CreateUsageLog, AiCallFails

-----------------------------------------------------------------------------
(* The invariant is inductive.                                             *)

\* The user of a placed HOLD has a balance row and keeps it.
LEMMA HoldersPreserved ==
    ASSUME IInv, NEW p \in Runners, RowStep(p)
    PROVE  HoldersOK'
<1> SUFFICES ASSUME NEW t \in Tasks, holdTx'[t].placed PROVE account'[holdTx'[t].user].exists
  BY DEF HoldersOK
<1>1. RowsGrow /\ PlacedBy(p) BY StepGrow
<1>2. CASE holdTx[t].placed
  BY <1>1, <1>2, PlacedHold DEF IInv, RowsGrow, HoldersOK
<1>3. CASE ~holdTx[t].placed
  <2>1. Places(p) /\ proc[p].task = t
    BY <1>1, <1>3
    DEF PlacedBy, RowStep, Deducts, DeductRows, Settles, SettleRows, Creates, CreateBalance,
        RefundBalance, RefundRows, RefillWrite, RefillRows, SettleLog
  <2>2. holdTx'[t].user = proc[p].user BY <2>1 DEF Places, HoldRows, IInv, TypeOK
  <2>3. account[proc[p].user].exists
    BY <2>1 DEF IInv, CallsOK, RowOK, Places, HoldBalance
  <2>4. QED BY <1>1, <2>2, <2>3, FrameTyped DEF RowsGrow, IInv
<1>4. QED BY <1>2, <1>3

\* A settlement is written only where there is none (the re-check under the
\* task's lock in commitHold and rollbackHold).
LEMMA SettlementsPreserved ==
    ASSUME IInv, NEW p \in Runners, RowStep(p), TypeOK'
    PROVE  SettledAtMostOnce'
<1> USE DEF IInv
<1>1. RowsGrow BY StepGrow
<1>2. CASE Settles(p)
  <2>1. holdTx[proc[p].task].placed /\ Settlements(proc[p].task) = 0
    BY <1>2 DEF CallsOK, SettleOK, Settles, SettleHold
  <2>2. proc[p].task \in Tasks /\ KindOf(p) \in Kinds BY FrameTyped
  <2>3. /\ settleTx[proc[p].task]["COMMIT"] = 0
        /\ settleTx[proc[p].task]["ROLLBACK"] = 0
    BY <2>1, <2>2, SettlementsTyped DEF Settlements
  <2>4. settleTx' = [settleTx EXCEPT ![proc[p].task][KindOf(p)] = @ + 1]
    BY <1>2 DEF Settles, SettleRows
  <2>5. /\ settleTx'[proc[p].task][KindOf(p)] = 1
        /\ \A k \in Kinds : k # KindOf(p) => settleTx'[proc[p].task][k] = 0
    BY <2>2, <2>3, <2>4 DEF TypeOK, Kinds
  <2>6. \A t \in Tasks : t = proc[p].task => Settlements(t)' = 1
    BY <2>2, <2>5 DEF Settlements, Kinds
  <2>7. \A t \in Tasks : t # proc[p].task => Settlements(t)' = Settlements(t)
    BY <1>2, FrameTyped DEF Settles, SettleRows, Settlements, TypeOK
  <2>8. holdTx' = holdTx BY <1>2 DEF Settles, SettleRows
  <2>9. ASSUME NEW t \in Tasks
        PROVE  Settlements(t)' <= 1 /\ (Settlements(t)' = 1 => holdTx'[t].placed)
    <3>1. Settlements(t) <= 1 /\ (Settlements(t) = 1 => holdTx[t].placed)
      BY DEF SettledAtMostOnce
    <3>2. QED BY <2>1, <2>6, <2>7, <2>8, <3>1
  <2>10. QED BY <2>9 DEF SettledAtMostOnce
<1>3. CASE ~Settles(p)
  <2>1. settleTx' = settleTx
    BY <1>3
    DEF RowStep, Deducts, DeductRows, Places, HoldRows, Creates, CreateBalance,
        RefundBalance, RefundRows, RefillWrite, RefillRows, SettleLog
  <2>2. QED BY <1>1, <2>1 DEF SettledAtMostOnce, Settlements, RowsGrow
<1>4. QED BY <1>2, <1>3

\* A log row is written only by the call whose settlement succeeded.
LEMMA LogsPreserved ==
    ASSUME IInv, NEW p \in Runners, RowStep(p)
    PROVE  UsageLogAgrees'
<1> USE DEF IInv
<1>1. CASE SettleLog(p)
  <2>1. settleTx[proc[p].task][proc[p].op] = 1 /\ proc[p].op \in {"COMMIT", "ROLLBACK"}
    BY <1>1 DEF CallsOK, LogOK, FrameOK, SettleLog
  <2>2. QED BY <1>1, <2>1, FrameTyped DEF SettleLog, UsageLogAgrees, TypeOK
<1>2. CASE ~SettleLog(p)
  <2>1. usageLog' = usageLog
    BY <1>2
    DEF RowStep, Deducts, DeductRows, Places, HoldRows, Settles, SettleRows, Creates,
        CreateBalance, RefundBalance, RefundRows, RefillWrite, RefillRows
  <2>2. ASSUME NEW t \in Tasks, NEW k \in Kinds, settleTx[t][k] = 1
        PROVE  settleTx'[t][k] = 1
    BY <2>2, StepGrow, SettlementsTyped DEF RowsGrow, Settlements, Kinds
  <2>3. QED BY <2>1, <2>2 DEF UsageLogAgrees, Kinds
<1>3. QED BY <1>1, <1>2

\* An amount is taken only when it was available in the same transaction.
LEMMA BalancesPreserved ==
    ASSUME IInv, NEW p \in Runners, RowStep(p)
    PROVE  NeverOverdrawn'
<1> USE DEF IInv
<1> DEFINE v == proc[p].user
<1>0. /\ CallOK(p) /\ HoldersOK /\ v \in Users /\ proc[p].task \in Tasks
      /\ \A u \in Users : Available(u) \in Int /\ Available(u) >= 0
  BY FrameTyped, AvailableTyped DEF CallsOK, CallOK, NeverOverdrawn
<1>1. ASSUME NEW x \in Nat, Becomes(v, x) PROVE NeverOverdrawn'
  BY <1>0, <1>1 DEF Becomes, NeverOverdrawn
<1>2. CASE Deducts(p)
  BY <1>0, <1>1, <1>2, DeductsAvailable, FrameTyped DEF CallOK, RowOK, Deducts, DeductBalance
<1>3. CASE Places(p)
  BY <1>0, <1>1, <1>3, PlacesAvailable, FrameTyped DEF CallOK, RowOK, Places, HoldBalance
<1>4. CASE RefundBalance(p)
  BY <1>0, <1>1, <1>4, RefundAvailable, FrameTyped DEF CallOK, RowOK, RefundBalance
<1>5. CASE Settles(p)
  BY <1>0, <1>1, <1>5, SettlesAvailable, FrameTyped
  DEF CallOK, SettleOK, Settles, SettleHold, HoldersOK
<1>6. CASE Creates(p) BY <1>1, <1>6, CreatesAvailable, FrameTyped
<1>7. CASE RefillWrite(p) BY <1>1, <1>7, RefillAvailable, FrameTyped
<1>8. CASE SettleLog(p) BY <1>8 DEF SettleLog, NeverOverdrawn, Available
<1>9. QED BY <1>2, <1>3, <1>4, <1>5, <1>6, <1>7, <1>8 DEF RowStep

\* The invariant holds of the empty tables.
LEMMA InitIInv == Init => IInv
<1> SUFFICES ASSUME Init PROVE IInv OBVIOUS
<1>1. TypeOK BY IdleIsFrame, PlansAssumption DEF Init, TypeOK, Balances, Kinds
<1>2. CallsOK BY IdleIsFrame DEF Init, CallsOK, FrameOK, RowOK, SettleOK, LogOK, HoldOK
<1>3. HoldersOK BY DEF Init, HoldersOK, NoHold
<1>4. SettledAtMostOnce /\ UsageLogAgrees
  BY DEF Init, SettledAtMostOnce, UsageLogAgrees, Settlements, Kinds
<1>5. NeverOverdrawn BY DEF Init, NeverOverdrawn, Available
<1>6. QED BY <1>1, <1>2, <1>3, <1>4, <1>5 DEF IInv

\* A step is one runner's, moves that runner's call alone, and leaves it right.
LEMMA CallsStep ==
    ASSUME IInv, [Next]_vars
    PROVE  \/ UNCHANGED <<rows, proc>>
           \/ \E p \in Runners :
                 Moves(p) /\ CallOK(p)' /\ (RowStep(p) \/ UNCHANGED rows)
<1>1. CASE UNCHANGED vars BY <1>1 DEF vars
<1>2. ASSUME NEW p \in Runners,
             \/ CreateBalance(p) \/ DeductBalance(p) \/ HoldBalance(p) \/ SettleHold(p)
             \/ RefundBalance(p) \/ SettleLog(p) \/ RefillWrite(p)
      PROVE  RowStep(p) \/ (Resume(p) /\ UNCHANGED rows)
  BY <1>2 DEF RowStep, Deducts, DeductBalance, Places, HoldBalance, Settles, SettleHold,
              Creates, CreateBalance
<1>3. ASSUME NEW p \in Runners, RowStep(p) \/ (Resume(p) /\ UNCHANGED rows)
      PROVE  Moves(p) /\ CallOK(p)' /\ (RowStep(p) \/ UNCHANGED rows)
  BY <1>3, RowStepOK, FrameStepOK
<1>4. ASSUME NEW p \in Procs, Service(p)
      PROVE  /\ p \in Runners
             /\ Moves(p) /\ CallOK(p)' /\ (RowStep(p) \/ UNCHANGED rows)
  BY <1>2, <1>3, <1>4, ServiceBeginOK, FrameStepOK DEF Service, Runners
<1>5. ASSUME NEW c \in Crons, Expiry(c)
      PROVE  c \in Runners /\ Moves(c) /\ CallOK(c)' /\ UNCHANGED rows
  BY <1>5, FrameStepOK DEF Expiry, Runners
<1>6. ASSUME NEW p \in Runners, SettleHold(p) \/ DatabaseError(p) \/ Crash(p)
      PROVE  Moves(p) /\ CallOK(p)' /\ (RowStep(p) \/ UNCHANGED rows)
  BY <1>2, <1>3, <1>6, FrameStepOK
<1>7. CASE Tick BY <1>7 DEF Tick
<1>8. QED BY <1>1, <1>4, <1>5, <1>6, <1>7 DEF Next

\* The invariant is inductive.
LEMMA NextIInv == IInv /\ TypeOK' /\ [Next]_vars => IInv'
<1> SUFFICES ASSUME IInv, TypeOK', [Next]_vars PROVE IInv' OBVIOUS
<1>1. CASE UNCHANGED <<rows, proc>>
  <2>1. CallsOK' BY <1>1 DEF IInv, CallsOK, FrameOK, RowOK, SettleOK, LogOK, HoldOK, rows
  <2>2. HoldersOK' /\ SettledAtMostOnce' /\ UsageLogAgrees' /\ NeverOverdrawn'
    BY <1>1 DEF IInv, HoldersOK, SettledAtMostOnce, Settlements, UsageLogAgrees,
                NeverOverdrawn, Available, rows
  <2>3. QED BY <2>1, <2>2 DEF IInv
<1>2. ASSUME NEW p \in Runners, Moves(p), CallOK(p)', RowStep(p) PROVE IInv'
  <2>1. CallsOK' BY <1>2, StepGrow, CallsPreserved
  <2>2. QED BY <1>2, <2>1, HoldersPreserved, SettlementsPreserved, LogsPreserved,
               BalancesPreserved DEF IInv
<1>3. ASSUME NEW p \in Runners, Moves(p), CallOK(p)', UNCHANGED rows PROVE IInv'
  <2>1. CallsOK' BY <1>3, UnchangedGrow, CallsPreserved
  <2>2. HoldersOK' /\ SettledAtMostOnce' /\ UsageLogAgrees' /\ NeverOverdrawn'
    BY <1>3 DEF IInv, HoldersOK, SettledAtMostOnce, Settlements, UsageLogAgrees,
                NeverOverdrawn, Available, rows
  <2>3. QED BY <2>1, <2>2 DEF IInv
<1>4. QED BY <1>1, <1>2, <1>3, CallsStep

\* In every reachable state the tables are typed, the calls in flight are
\* where the rows say they may be, and the three safety properties hold.
THEOREM InductiveInvariant == Spec => []IInv
<1>1. IInv /\ TypeOK' /\ [Next]_vars => IInv' BY NextIInv
<1>2. QED BY InitIInv, <1>1, TypeCorrect, PTL DEF Spec

\* A HOLD is settled at most once: commitHold and rollbackHold.
THEOREM Settlement == Spec => []SettledAtMostOnce
BY InductiveInvariant, PTL DEF IInv

\* No interleaving overdraws a user: deductBalance and holdBalance.
THEOREM Solvency == Spec => []NeverOverdrawn
BY InductiveInvariant, PTL DEF IInv

\* The usage log agrees with the ledger: commitByTaskId and rollbackByTaskId.
THEOREM LogAgreement == Spec => []UsageLogAgrees
BY InductiveInvariant, PTL DEF IInv

-----------------------------------------------------------------------------
(* The code implements the atomic escrow.                                  *)

\* The escrow's amount changes for one user when the row's available one does.
LEMMA AvailableBecomes ==
    ASSUME NEW v \in Users, NEW x, Becomes(v, x)
    PROVE  EscrowAvailable' = [EscrowAvailable EXCEPT ![v] = x]
BY DEF Becomes, EscrowAvailable

\* The escrow of the tasks depends on the HOLD and settlement rows alone.
LEMMA SameTasks ==
    ASSUME UNCHANGED <<holdTx, settleTx>>
    PROVE  UNCHANGED <<EscrowStatus, EscrowPlaced>>
BY DEF EscrowStatus, EscrowPlaced, TaskStatus, Settlements

\* Empty tables are the escrow's initial state.
LEMMA InitEscrow == Init => Escrow!Init
BY DEF Init, Escrow!Init, Escrow!NoEscrow, EscrowAvailable, EscrowStatus, EscrowPlaced,
       TaskStatus, NoHold

\* A row step and the action of the abstract escrow it is.
LEMMA EscrowStep ==
    ASSUME IInv, NEW p \in Runners, RowStep(p)
    PROVE  Escrow!Next \/ UNCHANGED Escrow!vars
<1> DEFINE v == proc[p].user
<1> DEFINE c == proc[p].amount
<1> DEFINE t == proc[p].task
<1>0. /\ TypeOK /\ CallOK(p) /\ HoldersOK
      /\ v \in Users /\ t \in Tasks /\ c \in Nat /\ Available(v) \in Int
      /\ account[v].exists => EscrowAvailable[v] = Available(v)
  BY FrameTyped, AvailableTyped DEF IInv, CallsOK, CallOK, EscrowAvailable
<1>1. CASE Deducts(p)
  <2>1. account[v].exists /\ c \in Costs
    BY <1>0, <1>1 DEF CallOK, RowOK, FrameOK, Deducts, DeductBalance
  <2>2. EscrowAvailable' = [EscrowAvailable EXCEPT ![v] = @ - c]
    BY <1>0, <1>1, <2>1, DeductsAvailable, AvailableBecomes
  <2>3. UNCHANGED <<EscrowStatus, EscrowPlaced>>
    BY <1>1, SameTasks DEF Deducts, DeductRows
  <2>4. Escrow!Spend(v, c)
    BY <1>0, <1>1, <2>1, <2>2, <2>3 DEF Escrow!Spend, Deducts
  <2>5. QED BY <1>0, <2>1, <2>4 DEF Escrow!Next
<1>2. CASE RefundBalance(p)
  <2>1. account[v].exists /\ c \in Costs
    BY <1>0, <1>2 DEF CallOK, RowOK, FrameOK, RefundBalance
  <2>2. EscrowAvailable' = [EscrowAvailable EXCEPT ![v] = @ + c]
    BY <1>0, <1>2, <2>1, RefundAvailable, AvailableBecomes
  <2>3. UNCHANGED <<EscrowStatus, EscrowPlaced>>
    BY <1>2, SameTasks DEF RefundBalance, RefundRows
  <2>4. Escrow!Refund(v, c) BY <2>2, <2>3 DEF Escrow!Refund
  <2>5. QED BY <1>0, <2>1, <2>4 DEF Escrow!Next
<1>3. CASE Places(p)
  <2>1. account[v].exists /\ c \in Costs /\ ~holdTx[t].placed
    BY <1>0, <1>3 DEF CallOK, RowOK, FrameOK, HoldOK, Places, HoldBalance
  <2>2. EscrowAvailable' = [EscrowAvailable EXCEPT ![v] = @ - c]
    BY <1>0, <1>3, <2>1, PlacesAvailable, AvailableBecomes
  <2>3. Settlements(t) = 0
    BY <1>0, <2>1, SettlementsTyped DEF IInv, SettledAtMostOnce
  <2>4. /\ holdTx'[t].placed = TRUE /\ holdTx'[t].user = v /\ holdTx'[t].amount = c
        /\ \A s \in Tasks : s # t => holdTx'[s] = holdTx[s]
        /\ settleTx' = settleTx
    BY <1>0, <1>3 DEF Places, HoldRows, TypeOK
  <2>5. EscrowStatus' = [EscrowStatus EXCEPT ![t] = "held"] /\ EscrowStatus[t] = "none"
    BY <1>0, <2>1, <2>3, <2>4 DEF EscrowStatus, TaskStatus, Settlements
  <2>6. EscrowPlaced' =
          [EscrowPlaced EXCEPT ![t] = [placed |-> TRUE, user |-> v, amount |-> c]]
    BY <1>0, <2>4 DEF EscrowPlaced
  <2>7. Escrow!Place(t, v, c)
    BY <1>0, <1>3, <2>1, <2>2, <2>5, <2>6 DEF Escrow!Place, Places
  <2>8. QED BY <1>0, <2>1, <2>7 DEF Escrow!Next
<1>4. CASE Settles(p)
  <2>1. /\ holdTx[t].placed /\ holdTx[t].user = v /\ holdTx[t].amount = c
        /\ Settlements(t) = 0 /\ account[v].exists
    BY <1>0, <1>4 DEF CallOK, SettleOK, Settles, SettleHold, HoldersOK
  <2>2. EscrowAvailable' = [EscrowAvailable EXCEPT ![v] = @ + (c - Spent(p))]
    BY <1>0, <1>4, <2>1, SettlesAvailable, AvailableBecomes
  <2>3. holdTx' = holdTx /\ settleTx' = [settleTx EXCEPT ![t][KindOf(p)] = @ + 1]
    BY <1>4 DEF Settles, SettleRows
  <2>4. EscrowPlaced' = EscrowPlaced BY <2>3 DEF EscrowPlaced
  <2>5. settleTx[t]["COMMIT"] = 0 /\ settleTx[t]["ROLLBACK"] = 0
    BY <1>0, <2>1, SettlementsTyped DEF Settlements
  <2>6. \A s \in Tasks : s # t => settleTx'[s] = settleTx[s]
    BY <1>0, <2>3 DEF TypeOK
  <2>7. EscrowStatus[t] = "held" BY <1>0, <2>1 DEF EscrowStatus, TaskStatus
  <2>8. \A s \in Tasks : s # t => TaskStatus(s)' = TaskStatus(s)
    BY <1>0, <2>3, <2>6 DEF TaskStatus, Settlements
  <2>9. CASE KindOf(p) = "COMMIT"
    <3>1. settleTx'[t]["COMMIT"] = 1 /\ settleTx'[t]["ROLLBACK"] = 0
      BY <1>0, <2>3, <2>5, <2>9 DEF TypeOK, Kinds
    <3>2. EscrowStatus' = [EscrowStatus EXCEPT ![t] = "committed"]
      <4>1. \A s \in Tasks : s = t => TaskStatus(s)' = "committed"
        BY <1>0, <2>1, <2>3, <3>1 DEF TaskStatus, Settlements
      <4>2. QED BY <1>0, <2>8, <4>1 DEF EscrowStatus
    <3>3. EscrowAvailable' = EscrowAvailable
      <4>1. Spent(p) = c BY <2>9 DEF Spent
      <4>2. EscrowAvailable[v] + (c - Spent(p)) = EscrowAvailable[v]
        BY <1>0, <2>1, <4>1
      <4>3. QED BY <1>0, <2>2, <4>2 DEF EscrowAvailable
    <3>4. Escrow!Commit(t) BY <2>4, <2>7, <3>2, <3>3 DEF Escrow!Commit
    <3>5. QED BY <1>0, <3>4 DEF Escrow!Next
  <2>10. CASE KindOf(p) = "ROLLBACK"
    <3>1. settleTx'[t]["COMMIT"] = 0 /\ settleTx'[t]["ROLLBACK"] = 1
      BY <1>0, <2>3, <2>5, <2>10 DEF TypeOK, Kinds
    <3>2. EscrowStatus' = [EscrowStatus EXCEPT ![t] = "released"]
      <4>1. \A s \in Tasks : s = t => TaskStatus(s)' = "released"
        BY <1>0, <2>1, <2>3, <3>1 DEF TaskStatus, Settlements
      <4>2. QED BY <1>0, <2>8, <4>1 DEF EscrowStatus
    <3>3. EscrowPlaced[t].user = v /\ EscrowPlaced[t].amount = c
      BY <1>0, <2>1 DEF EscrowPlaced
    <3>4. EscrowAvailable[v] + (c - Spent(p)) = EscrowAvailable[v] + c
      BY <1>0, <2>1, <2>10 DEF Spent
    <3>5. Escrow!Release(t) BY <2>2, <2>4, <2>7, <3>2, <3>3, <3>4 DEF Escrow!Release
    <3>6. QED BY <1>0, <3>5 DEF Escrow!Next
  <2>11. QED BY <2>9, <2>10, FrameTyped DEF IInv, Kinds
<1>5. CASE Creates(p)
  <2>1. EscrowAvailable' = [EscrowAvailable EXCEPT ![v] = Limit[FreePlan]]
    BY <1>0, <1>5, CreatesAvailable, AvailableBecomes
  <2>2. EscrowAvailable[v] = Limit[FreePlan] BY <1>0, <1>5 DEF Creates, EscrowAvailable
  <2>3. EscrowAvailable' = EscrowAvailable BY <2>1, <2>2 DEF EscrowAvailable
  <2>4. UNCHANGED <<EscrowStatus, EscrowPlaced>>
    BY <1>5, SameTasks DEF Creates, CreateBalance
  <2>5. QED BY <2>3, <2>4 DEF Escrow!vars
<1>6. CASE RefillWrite(p)
  <2>1. EscrowAvailable' = [EscrowAvailable EXCEPT ![v] = Limit[proc[p].plan]]
    BY <1>0, <1>6, RefillAvailable, AvailableBecomes
  <2>2. UNCHANGED <<EscrowStatus, EscrowPlaced>>
    BY <1>6, SameTasks DEF RefillWrite, RefillRows
  <2>3. Escrow!Refill(v, proc[p].plan) BY <2>1, <2>2 DEF Escrow!Refill
  <2>4. QED BY <1>0, <2>3, FrameTyped DEF Escrow!Next
<1>7. CASE SettleLog(p)
  <2>1. UNCHANGED EscrowAvailable BY <1>7 DEF SettleLog, EscrowAvailable, Available
  <2>2. UNCHANGED <<EscrowStatus, EscrowPlaced>> BY <1>7, SameTasks DEF SettleLog
  <2>3. QED BY <2>1, <2>2 DEF Escrow!vars
<1>8. QED BY <1>1, <1>2, <1>3, <1>4, <1>5, <1>6, <1>7 DEF RowStep

\* CreditService implements CreditEscrow: every step of every interleaving is
\* an atomic operation of the escrow or invisible to it.
THEOREM Refinement == Spec => ImplementsEscrow
<1>1. IInv /\ [Next]_vars => [Escrow!Next]_Escrow!vars
  <2> SUFFICES ASSUME IInv, [Next]_vars PROVE Escrow!Next \/ UNCHANGED Escrow!vars
    OBVIOUS
  <2>1. CASE UNCHANGED rows
    BY <2>1, SameTasks DEF rows, Escrow!vars, EscrowAvailable, Available
  <2>2. CASE \E p \in Runners : RowStep(p) BY <2>2, EscrowStep
  <2>3. QED BY <2>1, <2>2, RowSteps
<1>2. QED BY InitEscrow, InductiveInvariant, <1>1, PTL DEF Spec, ImplementsEscrow, Escrow!Spec

-----------------------------------------------------------------------------
(* Sums of amounts: MapThenSumSet adds up in any order.                    *)

\* Among subsets of a finite set there is one of which no smaller one is among them.
LEMMA SmallestSubset ==
    ASSUME NEW S, IsFiniteSet(S), NEW B \in SUBSET (SUBSET S), B # {}
    PROVE  \E s \in B : \A x \in s : s \ {x} \notin B
<1>1. B \subseteq FiniteSubsetsOf(S) BY FS_FiniteSubsetsOfFinite
<1>2. PICK s \in B : \A r \in B : ~(<<r, s>> \in StrictSubsetOrdering(S))
  BY <1>1, FS_StrictSubsetOrderingWellFounded, WFMin
<1>3. ASSUME NEW x \in s, s \ {x} \in B PROVE FALSE
  <2>1. <<s \ {x}, s>> \in StrictSubsetOrdering(S) BY <1>3 DEF StrictSubsetOrdering
  <2>2. QED BY <1>2, <1>3, <2>1
<1>4. QED BY <1>3

\* Two tables of holds have the same amounts for the tasks of S.
SameAmounts(h, k, S) == \A t \in S : h[t].amount = k[t].amount

HeldSum(h, S) == MapThenSumSet(LAMBDA t : h[t].amount, S)

First(s) == CHOOSE x \in s : TRUE

\* The sums of the subsets of S, each from that of the subset without one of its tasks.
Sums(h, S, F) ==
    F = [s \in SUBSET S |-> IF s = {} THEN 0 ELSE h[First(s)].amount + F[s \ {First(s)}]]

LEMMA SumsStep ==
    ASSUME NEW h, NEW S, NEW F, Sums(h, S, F)
    PROVE  \A s \in SUBSET S :
              /\ F[s] = IF s = {} THEN 0 ELSE h[First(s)].amount + F[s \ {First(s)}]
              /\ s # {} => First(s) \in s
BY DEF Sums, First

SameSums(F, G, T) == \A s \in SUBSET T : F[s] = G[s]

\* Amounts that agree have the same sums.
LEMMA SumsAgree ==
    ASSUME NEW h, NEW k, NEW S, NEW T \in SUBSET S, IsFiniteSet(T), NEW F, NEW G,
           Sums(h, S, F), Sums(k, T, G), SameAmounts(h, k, T)
    PROVE  SameSums(F, G, T)
<1>1. PICK B \in SUBSET (SUBSET T) : B = {s \in SUBSET T : F[s] # G[s]}
  <2>1. {s \in SUBSET T : F[s] # G[s]} \in SUBSET (SUBSET T) OBVIOUS
  <2>2. QED BY <2>1
<1>2. SUFFICES ASSUME B # {} PROVE FALSE BY <1>1 DEF SameSums
<1>3. PICK s \in B : \A x \in s : s \ {x} \notin B BY <1>2, SmallestSubset
<1>4. s \in SUBSET T /\ F[s] # G[s] /\ s \in SUBSET S BY <1>1, <1>3
<1>5. PICK c : c = First(s) OBVIOUS
<1>6. F[s] = (IF s = {} THEN 0 ELSE h[c].amount + F[s \ {c}]) /\ (s # {} => c \in s)
  <2>1. \A r \in SUBSET S :
           /\ F[r] = IF r = {} THEN 0 ELSE h[First(r)].amount + F[r \ {First(r)}]
           /\ r # {} => First(r) \in r
    BY SumsStep
  <2>2. QED BY <1>4, <1>5, <2>1
<1>7. G[s] = IF s = {} THEN 0 ELSE k[c].amount + G[s \ {c}]
  <2>1. \A r \in SUBSET T :
           /\ G[r] = IF r = {} THEN 0 ELSE k[First(r)].amount + G[r \ {First(r)}]
           /\ r # {} => First(r) \in r
    BY SumsStep
  <2>2. QED BY <1>4, <1>5, <2>1
<1>8. s # {} BY <1>4, <1>6, <1>7
<1>9. F[s \ {c}] = G[s \ {c}]
  <2>1. s \ {c} \in SUBSET T /\ s \ {c} \notin B BY <1>3, <1>4, <1>6, <1>8
  <2>2. QED BY <1>1, <2>1
<1>10. h[c].amount = k[c].amount BY <1>4, <1>6, <1>8 DEF SameAmounts
<1>11. QED BY <1>4, <1>6, <1>7, <1>8, <1>9, <1>10

Part(F, T) == [s \in SUBSET T |-> F[s]]

\* The sums of S hold those of its subsets.
LEMMA SumsRestrict ==
    ASSUME NEW h, NEW S, NEW F, Sums(h, S, F), NEW T \in SUBSET S
    PROVE  Sums(h, T, Part(F, T))
<1>0. PICK G : G = Part(F, T) OBVIOUS
<1>1. ASSUME NEW s \in SUBSET T
      PROVE  G[s] = IF s = {} THEN 0 ELSE h[First(s)].amount + G[s \ {First(s)}]
  <2>1. s \in SUBSET S /\ G[s] = F[s] BY <1>0 DEF Part
  <2>2. G[s \ {First(s)}] = F[s \ {First(s)}] BY <1>0 DEF Part
  <2>3. F[s] = IF s = {} THEN 0 ELSE h[First(s)].amount + F[s \ {First(s)}]
    BY <2>1, SumsStep
  <2>4. QED BY <2>1, <2>2, <2>3
<1>2. G = [s \in SUBSET T |->
             IF s = {} THEN 0 ELSE h[First(s)].amount + G[s \ {First(s)}]]
  BY <1>0, <1>1 DEF Part
<1>3. QED BY <1>0, <1>2 DEF Sums

\* The sums exist.
LEMMA SumsExist ==
    ASSUME NEW h, NEW S, IsFiniteSet(S), \A t \in S : h[t].amount \in Int
    PROVE  \E F \in [SUBSET S -> Int] : Sums(h, S, F)
<1> DEFINE Has(T) == \E F \in [SUBSET T -> Int] : Sums(h, T, F)
<1>1. PICK B \in SUBSET (SUBSET S) : B = {T \in SUBSET S : ~Has(T)}
  <2>1. {T \in SUBSET S : ~Has(T)} \in SUBSET (SUBSET S) OBVIOUS
  <2>2. QED BY <2>1
<1>2. SUFFICES ASSUME B # {} PROVE FALSE BY <1>1
<1>3. PICK T \in B : \A x \in T : T \ {x} \notin B BY <1>2, SmallestSubset
<1>4. T \in SUBSET S /\ ~Has(T) /\ IsFiniteSet(T) BY <1>1, <1>3, FS_Subset
<1>5. T # {}
  <2> SUFFICES ASSUME T = {} PROVE Has({})
    BY <1>4
  <2>1. PICK F : F = [s \in SUBSET {} |-> 0] OBVIOUS
  <2>2. F \in [SUBSET {} -> Int] /\ Sums(h, {}, F) BY <2>1 DEF Sums
  <2>3. QED BY <2>2
<1>6. PICK c : c \in T /\ c = First(T) BY <1>5 DEF First
<1>7. PICK V : V = {s \in SUBSET T : s # T} OBVIOUS
<1>8. \A s \in V : s \in SUBSET T /\ \E G \in [SUBSET s -> Int] : Sums(h, s, G)
  <2> SUFFICES ASSUME NEW s \in V
               PROVE  s \in SUBSET T /\ \E G \in [SUBSET s -> Int] : Sums(h, s, G)
    OBVIOUS
  <2>1. s \in SUBSET T /\ s # T BY <1>7
  <2>2. PICK x \in T : x \notin s BY <2>1
  <2>3. s \in SUBSET (T \ {x}) BY <2>1, <2>2
  <2>4. T \ {x} \in SUBSET S /\ Has(T \ {x}) BY <1>1, <1>3, <1>4
  <2>5. PICK F \in [SUBSET (T \ {x}) -> Int] : Sums(h, T \ {x}, F) BY <2>4
  <2>6. PICK G : G = Part(F, s) OBVIOUS
  <2>7. G \in [SUBSET s -> Int] BY <2>3, <2>5, <2>6 DEF Part
  <2>8. Sums(h, s, Part(F, s)) BY <2>3, <2>5, SumsRestrict
  <2>9. QED BY <2>1, <2>6, <2>7, <2>8
<1>9. PICK g : g = [s \in V |-> CHOOSE G \in [SUBSET s -> Int] : Sums(h, s, G)] OBVIOUS
<1>10. \A s \in V : g[s] \in [SUBSET s -> Int] /\ Sums(h, s, g[s]) BY <1>8, <1>9
<1>11. \A s \in V : \A r \in SUBSET s : r \in V /\ g[s][r] = g[r][r]
  <2> SUFFICES ASSUME NEW s \in V, NEW r \in SUBSET s
               PROVE  r \in V /\ g[s][r] = g[r][r]
    OBVIOUS
  <2>1. r \in V BY <1>7
  <2>2. IsFiniteSet(r) BY <1>4, <1>7, FS_Subset
  <2>3. PICK F, G : F = g[s] /\ G = g[r] OBVIOUS
  <2>4. SameSums(F, G, r)
    <3>1. SameAmounts(h, h, r) BY DEF SameAmounts
    <3>2. Sums(h, s, F) /\ Sums(h, r, G) BY <1>10, <2>1, <2>3
    <3>3. QED BY <2>2, <3>1, <3>2, SumsAgree
  <2>5. r \in SUBSET r OBVIOUS
  <2>6. QED BY <2>1, <2>3, <2>4, <2>5 DEF SameSums
<1>12. PICK R : R = T \ {c} OBVIOUS
<1>13. R \in V BY <1>6, <1>7, <1>12
<1>14. h[c].amount \in Int BY <1>4, <1>6
<1>15. PICK F : F = [s \in SUBSET T |-> IF s = T THEN h[c].amount + g[R][R] ELSE g[s][s]]
  OBVIOUS
<1>16. g[R][R] \in Int /\ \A s \in V : g[s][s] \in Int BY <1>10, <1>13
<1>17. F \in [SUBSET T -> Int] BY <1>7, <1>14, <1>15, <1>16
<1>18. ASSUME NEW s \in SUBSET T
       PROVE  F[s] = IF s = {} THEN 0 ELSE h[First(s)].amount + F[s \ {First(s)}]
  <2>1. CASE s = T
    <3>1. F[s] = h[c].amount + g[R][R] BY <1>15, <2>1
    <3>2. F[R] = g[R][R] BY <1>7, <1>13, <1>15
    <3>3. QED BY <1>5, <1>6, <1>12, <2>1, <3>1, <3>2
  <2>2. CASE s # T
    <3>1. s \in V /\ F[s] = g[s][s] BY <1>7, <1>15, <2>2
    <3>2. PICK G : G = g[s] /\ Sums(h, s, G) BY <1>10, <3>1
    <3>3. PICK d : d = First(s) OBVIOUS
    <3>4. /\ G[s] = IF s = {} THEN 0 ELSE h[d].amount + G[s \ {d}]
          /\ s # {} => d \in s
      <4>1. s \in SUBSET s OBVIOUS
      <4>2. /\ G[s] = IF s = {} THEN 0 ELSE h[First(s)].amount + G[s \ {First(s)}]
            /\ s # {} => First(s) \in s
        BY <3>2, <4>1, SumsStep
      <4>3. QED BY <3>3, <4>2
    <3>5. s \ {d} \in V /\ G[s \ {d}] = g[s \ {d}][s \ {d}] BY <1>11, <3>1, <3>2
    <3>6. F[s \ {d}] = g[s \ {d}][s \ {d}] BY <1>7, <1>15, <3>4, <3>5, <2>2
    <3>7. QED BY <3>1, <3>2, <3>3, <3>4, <3>5, <3>6
  <2>3. QED BY <2>1, <2>2
<1>19. Sums(h, T, F)
  <2>1. F = [s \in SUBSET T |->
               IF s = {} THEN 0 ELSE h[First(s)].amount + F[s \ {First(s)}]]
    BY <1>17, <1>18
  <2>2. QED BY <2>1 DEF Sums
<1>20. QED BY <1>4, <1>17, <1>19

\* HeldSum follows the recursive equation.
LEMMA HeldSums ==
    ASSUME NEW h, NEW S, IsFiniteSet(S), \A t \in S : h[t].amount \in Int
    PROVE  \E F \in [SUBSET S -> Int] : Sums(h, S, F) /\ HeldSum(h, S) = F[S]
<1>1. PICK F : F = CHOOSE iter : Sums(h, S, iter) OBVIOUS
<1>2. PICK G \in [SUBSET S -> Int] : Sums(h, S, G) BY SumsExist
<1>3. Sums(h, S, F) BY <1>1, <1>2
<1>4. HeldSum(h, S) = F[S]
  BY <1>1 DEF HeldSum, MapThenSumSet, MapThenFoldSet, Sums, First
<1>5. SameAmounts(h, h, S) /\ S \in SUBSET S BY DEF SameAmounts
<1>6. HeldSum(h, S) = G[S]
  <2>1. SameSums(G, F, S) BY <1>2, <1>3, <1>5, SumsAgree
  <2>2. QED BY <1>4, <1>5, <2>1 DEF SameSums
<1>7. QED BY <1>2, <1>6

\* Sums are numbers, and sums of amounts that agree agree.
LEMMA HeldSumSame ==
    ASSUME NEW h, NEW k, NEW S, IsFiniteSet(S),
           \A t \in S : h[t].amount \in Int /\ k[t].amount = h[t].amount
    PROVE  HeldSum(h, S) \in Int /\ HeldSum(k, S) = HeldSum(h, S)
<1>1. PICK F \in [SUBSET S -> Int] : Sums(h, S, F) /\ HeldSum(h, S) = F[S] BY HeldSums
<1>2. \A t \in S : k[t].amount \in Int OBVIOUS
<1>3. PICK G \in [SUBSET S -> Int] : Sums(k, S, G) /\ HeldSum(k, S) = G[S] BY <1>2, HeldSums
<1>4. SameAmounts(h, k, S) /\ S \in SUBSET S BY DEF SameAmounts
<1>5. SameSums(F, G, S) BY <1>1, <1>3, <1>4, SumsAgree
<1>6. QED BY <1>1, <1>3, <1>4, <1>5 DEF SameSums

AnyOrder(h, S, F) == \A s \in SUBSET S : \A x \in s : F[s] = h[x].amount + F[s \ {x}]

Amounts(h, S) == \A t \in S : h[t].amount \in Int

\* In whatever order they are added up.
LEMMA SumsAny ==
    ASSUME NEW h, NEW S, IsFiniteSet(S), Amounts(h, S),
           NEW F \in [SUBSET S -> Int], Sums(h, S, F)
    PROVE  AnyOrder(h, S, F)
<1>1. PICK B \in SUBSET (SUBSET S) :
        B = {s \in SUBSET S : \E x \in s : F[s] # h[x].amount + F[s \ {x}]}
  <2>1. {s \in SUBSET S : \E x \in s : F[s] # h[x].amount + F[s \ {x}]}
          \in SUBSET (SUBSET S)
    OBVIOUS
  <2>2. QED BY <2>1
<1>2. SUFFICES ASSUME B # {} PROVE FALSE BY <1>1 DEF AnyOrder
<1>3. PICK s \in B : \A y \in s : s \ {y} \notin B BY <1>2, SmallestSubset
<1>4. PICK x \in s : s \in SUBSET S /\ F[s] # h[x].amount + F[s \ {x}] BY <1>1, <1>3
<1>5. PICK c \in s : F[s] = h[c].amount + F[s \ {c}]
  <2>1. F[s] = h[First(s)].amount + F[s \ {First(s)}] /\ First(s) \in s
    BY <1>4, SumsStep
  <2>2. QED BY <2>1
<1>6. c # x BY <1>4, <1>5
<1>7. s \ {c} \in SUBSET S /\ s \ {x} \in SUBSET S /\ x \in s \ {c} /\ c \in s \ {x}
  BY <1>4, <1>5, <1>6
<1>8. F[s \ {c}] = h[x].amount + F[(s \ {c}) \ {x}] BY <1>1, <1>3, <1>5, <1>7
<1>9. F[s \ {x}] = h[c].amount + F[(s \ {x}) \ {c}] BY <1>1, <1>3, <1>4, <1>7
<1>10. (s \ {c}) \ {x} = (s \ {x}) \ {c} OBVIOUS
<1>11. PICK r \in SUBSET S : r = (s \ {c}) \ {x} BY <1>7
<1>12. F[r] \in Int /\ h[x].amount \in Int /\ h[c].amount \in Int
  BY <1>4, <1>5 DEF Amounts
<1>13. F[s] = h[c].amount + (h[x].amount + F[r]) BY <1>5, <1>8, <1>11
<1>14. F[s \ {x}] = h[c].amount + F[r] BY <1>9, <1>10, <1>11
<1>15. QED BY <1>4, <1>12, <1>13, <1>14

\* A task more adds its amount.
LEMMA HeldSumMore ==
    ASSUME NEW h, NEW S, NEW x, x \notin S, IsFiniteSet(S),
           \A t \in S \cup {x} : h[t].amount \in Int
    PROVE  /\ HeldSum(h, S) \in Int
           /\ HeldSum(h, S \cup {x}) = h[x].amount + HeldSum(h, S)
<1>1. PICK T : T = S \cup {x} OBVIOUS
<1>2. IsFiniteSet(T) /\ S \in SUBSET T /\ x \in T /\ T \ {x} = S /\ T \in SUBSET T
  BY <1>1, FS_AddElement
<1>3. PICK F \in [SUBSET T -> Int] : Sums(h, T, F) /\ HeldSum(h, T) = F[T]
  BY <1>1, <1>2, HeldSums
<1>4. PICK G \in [SUBSET S -> Int] : Sums(h, S, G) /\ HeldSum(h, S) = G[S]
  BY HeldSums
<1>5. F[T] = h[x].amount + F[S]
  <2>1. AnyOrder(h, T, F)
    <3>1. Amounts(h, T) BY <1>1 DEF Amounts
    <3>2. QED BY <1>2, <1>3, <3>1, SumsAny
  <2>2. F[T] = h[x].amount + F[T \ {x}] BY <1>2, <2>1 DEF AnyOrder
  <2>3. QED BY <1>2, <2>2
<1>6. F[S] = G[S]
  <2>1. SameAmounts(h, h, S) /\ S \in SUBSET S BY DEF SameAmounts
  <2>2. SameSums(F, G, S) BY <1>2, <1>3, <1>4, <2>1, SumsAgree
  <2>3. QED BY <2>1, <2>2 DEF SameSums
<1>7. G[S] \in Int BY <1>4
<1>8. QED BY <1>1, <1>3, <1>4, <1>5, <1>6, <1>7

-----------------------------------------------------------------------------
(* The books.                                                              *)

\* Only finitely many holds were ever placed, and a user without a balance
\* row has moved nothing.
PlacedTasks == {t \in Tasks : holdTx[t].placed}
EmptyRows == \A u \in Users : ~account[u].exists =>
                account[u].balance = 0 /\ account[u].hold = 0 /\ journal[u] = 0
BooksInv == IsFiniteSet(PlacedTasks) /\ EmptyRows

\* The drift of a user's escrow is a sum of amounts less the row's.
LEMMA DriftIsSum ==
    ASSUME NEW u \in Users
    PROVE  HoldDrift(u) = HeldSum(holdTx, Outstanding(u)) - account[u].hold
BY DEF HoldDrift, HeldSum

LEMMA DriftIsSumNext ==
    ASSUME NEW u \in Users
    PROVE  HoldDrift(u)' = HeldSum(holdTx', Outstanding(u)') - account'[u].hold
BY DEF HoldDrift, HeldSum, MapThenSumSet, MapThenFoldSet

\* What is outstanding is finite, and has amounts.
LEMMA OutstandingTyped ==
    ASSUME TypeOK, BooksInv, NEW u \in Users
    PROVE  /\ IsFiniteSet(Outstanding(u))
           /\ \A t \in Outstanding(u) : t \in Tasks /\ holdTx[t].amount \in Int
           /\ HeldSum(holdTx, Outstanding(u)) \in Int
<1>1. Outstanding(u) \in SUBSET PlacedTasks BY DEF Outstanding, Settleable, PlacedTasks
<1>2. IsFiniteSet(Outstanding(u)) BY <1>1, FS_Subset DEF BooksInv
<1>3. \A t \in Outstanding(u) : t \in Tasks /\ holdTx[t].amount \in Int
  BY <1>1, PlacedHold DEF PlacedTasks
<1>4. HeldSum(holdTx, Outstanding(u)) \in Int BY <1>2, <1>3, HeldSumSame
<1>5. QED BY <1>2, <1>3, <1>4

\* A step that neither places nor settles leaves the drift of a row whose
\* amount on hold it leaves.
LEMMA DriftKept ==
    ASSUME UNCHANGED <<holdTx, settleTx>>, NEW u \in Users,
           account'[u].hold = account[u].hold
    PROVE  HoldDrift(u)' = HoldDrift(u)
<1>1. Outstanding(u)' = Outstanding(u) BY DEF Outstanding, Settleable, Settlements
<1>2. QED BY <1>1, DriftIsSum, DriftIsSumNext

\* Placing a hold adds one amount to the row and one task to what is outstanding.
LEMMA PlacesDrift ==
    ASSUME IInv, BooksInv, NEW p \in Runners, Places(p), NEW u \in Users
    PROVE  /\ HoldDrift(u)' = HoldDrift(u)
           /\ JournalDrift(u)' = JournalDrift(u)
<1> USE DEF IInv
<1>1. PICK t, v, c : /\ t = proc[p].task /\ t \in Tasks
                     /\ v = proc[p].user /\ v \in Users
                     /\ c = proc[p].amount /\ c \in Nat
  BY FrameTyped
<1>2. ~holdTx[t].placed /\ Settlements(t) = 0
  <2>1. ~holdTx[t].placed BY <1>1 DEF CallsOK, HoldOK, Places, HoldBalance
  <2>2. Settlements(t) \in Nat BY <1>1, SettlementsTyped
  <2>3. Settlements(t) <= 1 /\ Settlements(t) # 1 BY <1>1, <2>1 DEF SettledAtMostOnce
  <2>4. QED BY <2>1, <2>2, <2>3
<1>3. /\ settleTx' = settleTx /\ journal' = journal
      /\ account' = [account EXCEPT ![v].hold = @ + c]
      /\ \A s \in Tasks : s # t => holdTx'[s] = holdTx[s]
      /\ holdTx'[t].placed /\ holdTx'[t].user = v /\ holdTx'[t].amount = c
  BY <1>1 DEF Places, HoldRows, TypeOK
<1>4. \A s \in Tasks : Settlements(s)' = Settlements(s) BY <1>3 DEF Settlements
<1>5. account[u] \in Balances /\ account[u].hold \in Int BY DEF TypeOK, Balances
<1>6. JournalDrift(u)' = JournalDrift(u) BY <1>1, <1>3 DEF JournalDrift, TypeOK
<1>7. PICK S : S = Outstanding(u) OBVIOUS
<1>8. /\ IsFiniteSet(S) /\ t \notin S
      /\ \A s \in S : s \in Tasks /\ holdTx[s].amount \in Int
      /\ HeldSum(holdTx, S) \in Int
  BY <1>2, <1>7, OutstandingTyped DEF Outstanding, Settleable
<1>9. \A s \in S : holdTx[s].amount \in Int /\ holdTx'[s].amount = holdTx[s].amount
  BY <1>3, <1>8
<1>10. HeldSum(holdTx', S) = HeldSum(holdTx, S) BY <1>8, <1>9, HeldSumSame
<1>11. CASE u # v
  <2>1. account'[u].hold = account[u].hold BY <1>1, <1>3, <1>11 DEF TypeOK
  <2>2. Outstanding(u)' = S
    BY <1>2, <1>3, <1>4, <1>7, <1>11 DEF Outstanding, Settleable
  <2>3. HoldDrift(u)' = HoldDrift(u)
    BY <1>7, <1>10, <2>1, <2>2, DriftIsSum, DriftIsSumNext
  <2>4. QED BY <1>6, <2>3
<1>12. CASE u = v
  <2>1. account'[u].hold = account[u].hold + c BY <1>1, <1>3, <1>12 DEF TypeOK
  <2>2. Outstanding(u)' = S \cup {t}
    BY <1>1, <1>2, <1>3, <1>4, <1>7, <1>12 DEF Outstanding, Settleable
  <2>3. \A s \in S \cup {t} : holdTx'[s].amount \in Int BY <1>1, <1>3, <1>9
  <2>4. HeldSum(holdTx', S \cup {t}) = holdTx'[t].amount + HeldSum(holdTx', S)
    BY <1>8, <2>3, HeldSumMore
  <2>5. HeldSum(holdTx', S \cup {t}) = c + HeldSum(holdTx, S) BY <1>3, <1>10, <2>4
  <2>6. HoldDrift(u)' = (c + HeldSum(holdTx, S)) - (account[u].hold + c)
    BY <2>1, <2>2, <2>5, DriftIsSumNext
  <2>7. HoldDrift(u) = HeldSum(holdTx, S) - account[u].hold BY <1>7, DriftIsSum
  <2>8. HoldDrift(u)' = HoldDrift(u) BY <1>1, <1>5, <1>8, <2>6, <2>7
  <2>9. QED BY <1>6, <2>8
<1>13. QED BY <1>11, <1>12

\* Settling takes the task out of what is outstanding and its amount off the
\* row; a COMMIT takes it from the balance and from the journal.
LEMMA SettlesDrift ==
    ASSUME IInv, BooksInv, NEW p \in Runners, Settles(p), NEW u \in Users
    PROVE  /\ HoldDrift(u)' = HoldDrift(u)
           /\ JournalDrift(u)' = JournalDrift(u)
<1> USE DEF IInv
<1>1. PICK t, v, c, d : /\ t = proc[p].task /\ t \in Tasks
                        /\ v = proc[p].user /\ v \in Users
                        /\ c = proc[p].amount /\ c \in Nat
                        /\ d = Spent(p) /\ d \in Nat
  BY FrameTyped
<1>2. /\ Settlements(t) = 0 /\ holdTx[t].placed
      /\ holdTx[t].user = v /\ holdTx[t].amount = c
  BY <1>1 DEF CallsOK, SettleOK, Settles, SettleHold
<1>3. /\ holdTx' = holdTx
      /\ account' = [account EXCEPT ![v].balance = @ - d, ![v].hold = @ - c]
      /\ journal' = [journal EXCEPT ![v] = @ - d]
      /\ settleTx' = [settleTx EXCEPT ![t][KindOf(p)] = @ + 1]
  BY <1>1 DEF Settles, SettleRows
<1>4. /\ \A s \in Tasks : s # t => Settlements(s)' = Settlements(s)
      /\ Settlements(t)' # 0
  <2>1. KindOf(p) \in Kinds BY FrameTyped
  <2>2. settleTx[t]["COMMIT"] = 0 /\ settleTx[t]["ROLLBACK"] = 0
    BY <1>1, <1>2, SettlementsTyped DEF Settlements
  <2>3. Settlements(t)' # 0
    BY <1>1, <1>3, <2>1, <2>2 DEF Settlements, TypeOK, Kinds
  <2>4. QED BY <1>1, <1>3, <2>3 DEF Settlements, TypeOK
<1>5. /\ account[u] \in Balances /\ account[u].hold \in Int /\ account[u].balance \in Int
      /\ journal[u] \in Int
  BY DEF TypeOK, Balances
<1>6. JournalDrift(u)' = JournalDrift(u) BY <1>1, <1>3, <1>5 DEF JournalDrift, TypeOK
<1>7. PICK S : S = Outstanding(u) OBVIOUS
<1>8. /\ IsFiniteSet(S)
      /\ \A s \in S : s \in Tasks /\ holdTx[s].amount \in Int
      /\ HeldSum(holdTx, S) \in Int
  BY <1>7, OutstandingTyped
<1>9. CASE u # v
  <2>1. account'[u].hold = account[u].hold BY <1>1, <1>3, <1>9 DEF TypeOK
  <2>2. Outstanding(u)' = S
    BY <1>2, <1>3, <1>4, <1>7, <1>9 DEF Outstanding, Settleable
  <2>3. HoldDrift(u)' = HoldDrift(u) BY <1>3, <1>7, <2>1, <2>2, DriftIsSum, DriftIsSumNext
  <2>4. QED BY <1>6, <2>3
<1>10. CASE u = v
  <2>1. account'[u].hold = account[u].hold - c BY <1>1, <1>3, <1>5, <1>10 DEF TypeOK
  <2>2. PICK R : R = S \ {t} OBVIOUS
  <2>3. t \in S /\ S = R \cup {t} /\ t \notin R
    BY <1>1, <1>2, <1>7, <1>10, <2>2 DEF Outstanding, Settleable
  <2>4. Outstanding(u)' = R
    BY <1>1, <1>3, <1>4, <1>7, <2>2 DEF Outstanding, Settleable
  <2>5. IsFiniteSet(R) BY <1>8, <2>2, FS_RemoveElement
  <2>6. HeldSum(holdTx, R) \in Int /\ HeldSum(holdTx, S) = holdTx[t].amount + HeldSum(holdTx, R)
    BY <1>8, <2>3, <2>5, HeldSumMore
  <2>7. HoldDrift(u)' = HeldSum(holdTx, R) - (account[u].hold - c)
    BY <1>3, <2>1, <2>4, DriftIsSumNext
  <2>8. HoldDrift(u) = (c + HeldSum(holdTx, R)) - account[u].hold
    BY <1>2, <1>7, <2>6, DriftIsSum
  <2>9. HoldDrift(u)' = HoldDrift(u) BY <1>1, <1>5, <2>6, <2>7, <2>8
  <2>10. QED BY <1>6, <2>9
<1>11. QED BY <1>9, <1>10

\* Every step but refillBalance's write moves the balance row together with
\* the append-only rows.
LEMMA RowStepKeepsDrifts ==
    ASSUME IInv, BooksInv, NEW p \in Runners, RowStep(p), ~RefillWrite(p), NEW u \in Users
    PROVE  HoldDrift(u)' = HoldDrift(u) /\ JournalDrift(u)' = JournalDrift(u)
<1> USE DEF IInv
<1>1. PICK v, c : v = proc[p].user /\ v \in Users /\ c = proc[p].amount /\ c \in Nat
  BY FrameTyped
<1>2. /\ account[u] \in Balances /\ account[u].hold \in Int /\ account[u].balance \in Int
      /\ journal[u] \in Int
  BY DEF TypeOK, Balances
<1>3. CASE Places(p) BY <1>3, PlacesDrift
<1>4. CASE Settles(p) BY <1>4, SettlesDrift
<1>5. CASE Deducts(p)
  <2>1. /\ UNCHANGED <<holdTx, settleTx>>
        /\ account' = [account EXCEPT ![v].balance = @ - c]
        /\ journal' = [journal EXCEPT ![v] = @ - c]
    BY <1>1, <1>5 DEF Deducts, DeductRows
  <2>2. account'[u].hold = account[u].hold BY <1>1, <2>1 DEF TypeOK
  <2>3. JournalDrift(u)' = JournalDrift(u) BY <1>1, <1>2, <2>1 DEF JournalDrift, TypeOK
  <2>4. QED BY <2>1, <2>2, <2>3, DriftKept
<1>6. CASE RefundBalance(p)
  <2>1. /\ UNCHANGED <<holdTx, settleTx>>
        /\ account' = [account EXCEPT ![v].balance = @ + c]
        /\ journal' = [journal EXCEPT ![v] = @ + c]
    BY <1>1, <1>6 DEF RefundBalance, RefundRows
  <2>2. account'[u].hold = account[u].hold BY <1>1, <2>1 DEF TypeOK
  <2>3. JournalDrift(u)' = JournalDrift(u) BY <1>1, <1>2, <2>1 DEF JournalDrift, TypeOK
  <2>4. QED BY <2>1, <2>2, <2>3, DriftKept
<1>7. CASE SettleLog(p)
  <2>1. UNCHANGED <<account, holdTx, settleTx, journal>> BY <1>7 DEF SettleLog
  <2>2. JournalDrift(u)' = JournalDrift(u) BY <2>1 DEF JournalDrift
  <2>3. QED BY <2>1, <2>2, DriftKept
<1>8. CASE Creates(p)
  <2>1. /\ ~account[v].exists
        /\ UNCHANGED <<holdTx, settleTx>>
        /\ account' = [account EXCEPT ![v] =
                [exists |-> TRUE, balance |-> Limit[FreePlan], hold |-> 0,
                 plan |-> FreePlan, cycleEnd |-> proc[p].since + BillingCycle]]
        /\ journal' = [journal EXCEPT ![v] = Limit[FreePlan]]
    BY <1>1, <1>8 DEF Creates, CreateBalance
  <2>2. account[v].balance = 0 /\ account[v].hold = 0 /\ journal[v] = 0
    BY <1>1, <2>1 DEF BooksInv, EmptyRows
  <2>3. account'[u].hold = account[u].hold BY <1>1, <2>1, <2>2 DEF TypeOK
  <2>4. Limit[FreePlan] \in Nat BY FrameTyped
  <2>5. JournalDrift(u)' = JournalDrift(u)
    BY <1>1, <1>2, <2>1, <2>2, <2>4 DEF JournalDrift, TypeOK
  <2>6. QED BY <2>1, <2>3, <2>5, DriftKept
<1>9. QED BY <1>3, <1>4, <1>5, <1>6, <1>7, <1>8 DEF RowStep

\* The write of refillBalance touches one user's row, and counts.
LEMMA RefillDrifts ==
    ASSUME IInv, NEW p \in Runners, RefillWrite(p), NEW u \in Users
    PROVE  \/ refills'[u] = refills[u] + 1
           \/ HoldDrift(u)' = HoldDrift(u) /\ JournalDrift(u)' = JournalDrift(u)
<1> USE DEF IInv
<1>1. PICK v : v = proc[p].user /\ v \in Users BY FrameTyped
<1>2. UNCHANGED <<holdTx, settleTx>> BY DEF RefillWrite, RefillRows
<1>3. CASE u = v
  BY <1>1, <1>3 DEF RefillWrite, RefillRows, TypeOK
<1>4. CASE u # v
  <2>1. account'[u] = account[u] /\ journal'[u] = journal[u]
    BY <1>1, <1>4 DEF RefillWrite, RefillRows, TypeOK
  <2>2. JournalDrift(u)' = JournalDrift(u) BY <2>1 DEF JournalDrift
  <2>3. QED BY <1>2, <2>1, <2>2, DriftKept
<1>5. QED BY <1>3, <1>4

\* No step places infinitely many holds or moves what has no row.
LEMMA BooksPreserved ==
    ASSUME IInv, BooksInv, NEW p \in Runners, RowStep(p)
    PROVE  BooksInv'
<1> USE DEF IInv
<1>1. PICK v, t : v = proc[p].user /\ v \in Users /\ t = proc[p].task /\ t \in Tasks
  BY FrameTyped
<1>2. IsFiniteSet(PlacedTasks')
  <2>1. PICK P : P = PlacedTasks OBVIOUS
  <2>2. IsFiniteSet(P \cup {t}) BY <2>1, FS_AddElement DEF BooksInv
  <2>3. PlacedBy(p) BY StepGrow
  <2>4. PlacedTasks' \in SUBSET (P \cup {t})
    BY <1>1, <2>1, <2>3 DEF PlacedTasks, PlacedBy
  <2>5. QED BY <2>2, <2>4, FS_Subset
<1>3. CASE Creates(p) \/ RefillWrite(p)
  <2>1. /\ \A u \in Users : u # v => account'[u] = account[u] /\ journal'[u] = journal[u]
        /\ account'[v].exists
    BY <1>1, <1>3
    DEF Creates, CreateBalance, RefillWrite, RefillRows, TypeOK
  <2>2. EmptyRows' BY <1>1, <2>1 DEF EmptyRows, BooksInv
  <2>3. QED BY <1>2, <2>2 DEF BooksInv
<1>4. CASE Deducts(p) \/ Places(p) \/ Settles(p) \/ RefundBalance(p)
  <2>1. account[v].exists
    BY <1>1, <1>4
    DEF CallsOK, RowOK, SettleOK, HoldersOK, Deducts, DeductBalance, Places, HoldBalance,
        Settles, SettleHold, RefundBalance
  <2>2. /\ \A u \in Users : u # v => account'[u] = account[u] /\ journal'[u] = journal[u]
        /\ account'[v].exists
    <3>1. CASE Deducts(p) BY <1>1, <2>1, <3>1 DEF Deducts, DeductRows, TypeOK, Balances
    <3>2. CASE Places(p)
      BY <1>1, <2>1, <3>2 DEF Places, HoldRows, TypeOK, Balances
    <3>3. CASE Settles(p)
      BY <1>1, <2>1, <3>3 DEF Settles, SettleRows, TypeOK, Balances
    <3>4. CASE RefundBalance(p)
      BY <1>1, <2>1, <3>4 DEF RefundBalance, RefundRows, TypeOK, Balances
    <3>5. QED BY <1>4, <3>1, <3>2, <3>3, <3>4
  <2>3. EmptyRows' BY <1>1, <2>2 DEF EmptyRows, BooksInv
  <2>4. QED BY <1>2, <2>3 DEF BooksInv
<1>5. CASE SettleLog(p)
  <2>1. EmptyRows' BY <1>5 DEF SettleLog, EmptyRows, BooksInv
  <2>2. QED BY <1>2, <2>1 DEF BooksInv
<1>6. QED BY <1>3, <1>4, <1>5 DEF RowStep

\* The balance row and the append-only rows part only in refillBalance
\* (CreditRepositoryPrisma): every other operation moves them together.
THEOREM BooksBreakOnlyByRefill == Spec => OnlyRefillBreaksBooks
<1> DEFINE Same == \A u \in Users :
                      HoldDrift(u)' = HoldDrift(u) /\ JournalDrift(u)' = JournalDrift(u)
           Broken(u) == HoldDrift(u)' # HoldDrift(u) \/ JournalDrift(u)' # JournalDrift(u)
<1>1. Init => BooksInv
  <2> SUFFICES ASSUME Init PROVE BooksInv OBVIOUS
  <2>1. PlacedTasks = {} BY DEF Init, PlacedTasks, NoHold
  <2>2. EmptyRows BY DEF Init, EmptyRows
  <2>3. QED BY <2>1, <2>2, FS_EmptySet DEF BooksInv
<1>2. IInv /\ BooksInv /\ [Next]_vars => BooksInv'
  <2> SUFFICES ASSUME IInv, BooksInv, [Next]_vars PROVE BooksInv' OBVIOUS
  <2>1. CASE UNCHANGED rows
    BY <2>1 DEF rows, BooksInv, PlacedTasks, EmptyRows
  <2>2. CASE \E p \in Runners : RowStep(p) BY <2>2, BooksPreserved
  <2>3. QED BY <2>1, <2>2, RowSteps
<1>3. IInv /\ BooksInv /\ [Next]_vars =>
         [\A u \in Users : Broken(u) => refills'[u] = refills[u] + 1]_vars
  <2> SUFFICES ASSUME IInv, BooksInv, [Next]_vars, NEW u \in Users, Broken(u)
               PROVE  refills'[u] = refills[u] + 1
    OBVIOUS
  <2>1. CASE UNCHANGED rows
    <3>1. UNCHANGED <<account, holdTx, settleTx, journal>> BY <2>1 DEF rows
    <3>2. HoldDrift(u)' = HoldDrift(u) BY <3>1, DriftKept
    <3>3. JournalDrift(u)' = JournalDrift(u) BY <3>1 DEF JournalDrift
    <3>4. QED BY <3>2, <3>3
  <2>2. CASE \E p \in Runners : RowStep(p)
    <3>1. PICK p \in Runners : RowStep(p) BY <2>2
    <3>2. CASE RefillWrite(p) BY <3>2, RefillDrifts
    <3>3. CASE ~RefillWrite(p) BY <3>1, <3>3, RowStepKeepsDrifts
    <3>4. QED BY <3>2, <3>3
  <2>3. QED BY <2>1, <2>2, RowSteps
<1>4. Spec => []BooksInv
  BY <1>1, <1>2, InductiveInvariant, PTL DEF Spec
<1>5. QED BY <1>3, <1>4, InductiveInvariant, PTL DEF Spec, OnlyRefillBreaksBooks
=============================================================================
