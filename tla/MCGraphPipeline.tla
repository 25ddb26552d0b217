--------------------------- MODULE MCGraphPipeline ---------------------------
(***************************************************************************)
(* Small instances of GraphPipeline: two documents, two tasks whose        *)
(* results list the documents in opposite orders.                          *)
(***************************************************************************)
EXTENDS GraphPipeline, TLC

CONSTANTS w1, w2

MCItems == {"a", "b"}
MCTasks == {1, 2}
TwoWorkers == {w1, w2}
MCRank == [t \in MCTasks |-> [i \in MCItems |-> IF (i = "a") = (t = 1) THEN 1 ELSE 2]]
MCKinds == 1 :> {"generate"} @@ 2 :> {"addNode", "summary"}

WorkerSymmetry == Permutations(TwoWorkers)
=============================================================================
