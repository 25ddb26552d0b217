----------------------------- MODULE MCUserFiles -----------------------------
(***************************************************************************)
(* What goes on after its request was answered, for TLC: the summaries of  *)
(* uploaded library files (UserFiles) and the cron that settles forgotten  *)
(* holds (CreditLedger); and the walk of an administrator through the      *)
(* feedback (Feedback), whose attachments are files too.  The three share  *)
(* no state, so a behaviour is one of them.  The library has a file at the *)
(* top, one of the same name in a folder, and an id for an upload.         *)
(***************************************************************************)
EXTENDS UserFiles, TLC

CONSTANTS
    Users, Tasks, Procs, Crons, Plans, FreePlan, Limit, Costs, HoldExpiry, BillingCycle,
    MaxNow, MaxRefills, MaxCrashes,
    Ids, First, NULL, Clients, FeedbackLimit, Given, MaxFiles, MaxTime, MaxAsked, MaxWalks,
    f1, f2, f3, d1, r1, r2, u1, t1, t2, p1, c1

VARIABLES
    part, now, account, holdTx, settleTx, journal, refills, usageLog, proc, crashes,
    feedback, attached, answering, walk, clock, asked, walks, failures, steady, cut

ledgerVars == <<now, account, holdTx, settleTx, journal, refills, usageLog, proc, crashes>>

Ledger == INSTANCE CreditLedger

Opinions == INSTANCE Feedback
                WITH Requests <- Clients, Limit <- FeedbackLimit, MaxNow <- MaxTime, MaxCalls <- MaxAsked,
                     objects <- attached, call <- answering, now <- clock, calls <- asked,
                     faults <- failures

\* The ids are ordered, as the database orders them, and no row is nothing.
ASSUME FeedbackAssumption ==
    /\ Ids \subseteq Nat /\ First \subseteq Ids /\ IsFiniteSet(First) /\ NULL \notin Ids
    /\ FeedbackLimit \in Nat \ {0}
    /\ NULL \notin [status : Opinions!FEEDBACK_STATUSES, attachments : SUBSET Nat, createdAt : Nat]

feedbackVars == <<feedback, attached, answering, walk, clock, asked, walks, failures, steady, cut>>

TypedNames == {<<>>, <<1>>}
Library == f1 :> Unused @@ f2 :> [Unused EXCEPT !.folder = d1]

\* Small limits: the second of two concurrent operations must not fit.
Limits == "FREE" :> 1 @@ "PRO" :> 2

Init ==
    /\ Ledger!Init /\ Opinions!Init
    /\ \/ part = "files" /\ InitWith(Library)
       \/ part \in {"holds", "feedback"} /\ InitWith(<<>>)

HoldStep(A) == part = "holds" /\ A /\ UNCHANGED <<part, vars, feedbackVars>>

Next2 ==
    \/ part = "files" /\ Next /\ UNCHANGED <<part, ledgerVars, feedbackVars>>
    \/ part = "holds" /\ Ledger!Next /\ UNCHANGED <<part, vars, feedbackVars>>
    \/ part = "feedback" /\ Opinions!Next /\ UNCHANGED <<part, vars, ledgerVars>>

\* CreditLedger's fairness, in the behaviours that are about holds.
HoldFairness ==
    LET all == <<part, vars, ledgerVars, feedbackVars>> IN
    /\ WF_all(HoldStep(Ledger!Tick))
    /\ \A c \in Crons : WF_all(HoldStep(Ledger!Expiry(c))) /\ SF_all(HoldStep(Ledger!SettleHold(c)))

Spec == Init /\ [][Next2]_<<part, vars, ledgerVars, feedbackVars>> /\ Fairness /\ HoldFairness

\* What the answered request left behind comes to its end: no summary stays under
\* way and no hold stays placed.
LeftoversSettle == SummaryEnds /\ Ledger!HoldsEventuallySettled

\* The property of the list of feedback.
WalkShowsAll == Opinions!WalkShowsAll
=============================================================================
