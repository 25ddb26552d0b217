----------------------------- MODULE MCTransfers -----------------------------
(***************************************************************************)
(* An instance of Transfers for TLC: one chunk of two conversations and    *)
(* one of one are imported among conversations the user has.               *)
(***************************************************************************)
EXTENDS Transfers, TLC

CONSTANTS x1, x2, w1, w2

Chunks == <<{2, 3}, {4}>>

\* Two exports; an export during an import; two workers and a message sent twice.
ThreePlans == {
    [exports |-> {x1, x2}, messages |-> {}, workers |-> {}, edits |-> 1, faults |-> 1],
    [exports |-> {x1}, messages |-> {1}, workers |-> {w1}, edits |-> 2, faults |-> 0],
    [exports |-> {}, messages |-> {1, 2}, workers |-> {w1, w2}, edits |-> 1, faults |-> 2]}
=============================================================================
