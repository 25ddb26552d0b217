--------------------------- MODULE MCCreditLedger ---------------------------
(***************************************************************************)
(* Instances of CreditLedger for TLC.                                      *)
(***************************************************************************)
EXTENDS CreditLedger, TLC

CONSTANTS u1, t1, t2, p1, p2, c1, FREE, PRO

\* Small limits: the second of two concurrent operations must not fit.
MCLimit == (FREE :> 1) @@ (PRO :> 2)

\* The specification tells neither runners of a kind nor tasks apart.
MCSymmetry == Permutations({p1, p2}) \cup Permutations({t1, t2})
=============================================================================
