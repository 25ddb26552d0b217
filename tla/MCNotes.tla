------------------------------ MODULE MCNotes ------------------------------
(***************************************************************************)
(* Small instances of Notes: a folder in a folder, a note in the inner one *)
(* and an id for a note yet to come.                                       *)
(***************************************************************************)
EXTENDS Notes, TLC

CONSTANTS f1, f2, n1, n2, r1, r2

Nested == f1 :> NULL @@ f2 :> f1
OneNote == n1 :> f2

\* All live; the note deleted alone; the outer folder deleted.
Trashes == {{}, {n1}, {f1, f2, n1}}

Init == \E trash \in Trashes : InitWith(Nested, OneNote, trash)
Spec == Init /\ [][Next]_vars /\ Fairness
=============================================================================
