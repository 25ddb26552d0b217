----------------------------- MODULE MCBilling ------------------------------
(***************************************************************************)
(* Small instances of Billing: one user (rows of different users never     *)
(* meet), one paid plan, two events.                                       *)
(***************************************************************************)
EXTENDS Billing, TLC

CONSTANTS u1, e1, e2, p1, p2

OneUser == {u1}
TwoEvents == {e1, e2}
TwoProcs == {p1, p2}
Pro == {"PRO"}

EventSymmetry == Permutations(TwoEvents) \cup Permutations(TwoProcs)
=============================================================================
