---------------------------- MODULE MCMicroscope ----------------------------
(***************************************************************************)
(* Small instances of Microscope: one workspace, two workers.              *)
(***************************************************************************)
EXTENDS Microscope, TLC

CONSTANTS w1, w2

OneFileOrTwoSources == [way \in {"files", "node", "sources"} |-> IF way = "sources" THEN 2 ELSE 1]

TwoOrOneWorkers ==
    [way \in {"files", "node", "sources"} |-> IF way = "files" THEN {w1, w2} ELSE {w1}]

SourcesSucceed ==
    [way \in {"files", "node", "sources"} |->
        IF way = "sources" THEN {} ELSE {"block", "nonblock"}]
=============================================================================
