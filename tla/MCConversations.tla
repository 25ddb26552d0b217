--------------------------- MODULE MCConversations ---------------------------
(***************************************************************************)
(* Small instances of Conversations: one conversation with a message, and  *)
(* the id of a second message yet to come.                                 *)
(***************************************************************************)
EXTENDS Conversations, TLC

CONSTANTS c1, m1, m2, r1, r2

OneConversation == m1 :> c1 @@ m2 :> c1

\* All live; the message deleted alone; the conversation deleted with it.
Init == \/ InitWith({c1, m1}, {})
        \/ InitWith({c1}, {m1})
        \/ InitWith({}, {c1, m1})
Spec == Init /\ [][Next]_vars /\ Fairness
=============================================================================
