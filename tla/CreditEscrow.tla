---------------------------- MODULE CreditEscrow ----------------------------
(***************************************************************************)
(* What the credit system promises, with every operation atomic: a user    *)
(* has an amount to spend; synchronous work takes from it and may give it  *)
(* back; an asynchronous task puts its cost in escrow, and the escrow is   *)
(* either committed (the credits are gone) or released (they are back),    *)
(* once, for the amount and the user it was placed for.  A refill sets     *)
(* what is available to the plan's limit, whatever is in escrow.           *)
(***************************************************************************)
EXTENDS Integers

CONSTANTS Users, Tasks, Costs, Plans, FreePlan, Limit

VARIABLES
    available,  \* per user: what a new operation may spend
    status,     \* per task: where its escrow is
    escrow      \* per task: whose credits and how many, once placed

vars == <<available, status, escrow>>

NoEscrow == [placed |-> FALSE]

Init ==
    /\ available = [u \in Users |-> Limit[FreePlan]]
    /\ status = [t \in Tasks |-> "none"]
    /\ escrow = [t \in Tasks |-> NoEscrow]

Spend(u, c) ==
    /\ available[u] >= c
    /\ available' = [available EXCEPT ![u] = @ - c]
    /\ UNCHANGED <<status, escrow>>

Refund(u, c) ==
    /\ available' = [available EXCEPT ![u] = @ + c]
    /\ UNCHANGED <<status, escrow>>

Place(t, u, c) ==
    /\ status[t] = "none"
    /\ available[u] >= c
    /\ available' = [available EXCEPT ![u] = @ - c]
    /\ status' = [status EXCEPT ![t] = "held"]
    /\ escrow' = [escrow EXCEPT ![t] = [placed |-> TRUE, user |-> u, amount |-> c]]

Commit(t) ==
    /\ status[t] = "held"
    /\ status' = [status EXCEPT ![t] = "committed"]
    /\ UNCHANGED <<available, escrow>>

Release(t) ==
    /\ status[t] = "held"
    /\ status' = [status EXCEPT ![t] = "released"]
    /\ available' = [available EXCEPT ![escrow[t].user] = @ + escrow[t].amount]
    /\ UNCHANGED escrow

Refill(u, plan) ==
    /\ available' = [available EXCEPT ![u] = Limit[plan]]
    /\ UNCHANGED <<status, escrow>>

Next ==
    \/ \E u \in Users, c \in Costs : Spend(u, c) \/ Refund(u, c)
    \/ \E t \in Tasks, u \in Users, c \in Costs : Place(t, u, c)
    \/ \E t \in Tasks : Commit(t) \/ Release(t)
    \/ \E u \in Users, plan \in Plans : Refill(u, plan)

Spec == Init /\ [][Next]_vars
=============================================================================
