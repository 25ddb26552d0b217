------------------------------- MODULE Transfers -------------------------------
(***************************************************************************)
(* Export and import of one user's conversations side by side, while the   *)
(* user edits, trashes, restores and deletes them.                         *)
(***************************************************************************)
EXTENDS ChatExport, ImportFinalize

CONSTANT Plans  \* records: exports, messages, workers, edits, faults

ASSUME TransfersAssumption ==
    Plans \subseteq [exports : SUBSET Exports, messages : SUBSET Messages,
                     workers : SUBSET Workers, edits : 0..MaxEdits, faults : 0..MaxFaults]

vars == <<docsVars, exportVars, importVars>>

\* One of the plans: what is asked for, who is there and how much goes wrong.
Init ==
    \E plan \in Plans :
        /\ InitDocs(Conversations \ ImportedIds, plan.edits, plan.faults)
        /\ InitExport(plan.exports) /\ InitImport(plan.messages, plan.workers)

\* The user at work on a conversation.
EditConversation(c) ==
    /\ UserEdits(c) /\ Unsteady(c)
    /\ UNCHANGED <<jobs, zips, cleaning, stopping, severed, halfCleaned, overlapped, importVars>>

Next ==
    \/ ExportNext /\ UNCHANGED importVars
    \/ ImportNext /\ UNCHANGED exportVars
    \/ \E c \in Conversations : EditConversation(c)

Spec == Init /\ [][Next]_vars /\ ExportFairness /\ ImportFairness

\* No transfer goes on for ever: an export becomes DONE or FAILED and a finalized
\* import COMPLETED, but for the deaths and failures that each of the two names.
TransfersEnd == ExportEnds /\ FinalizeEnds
=============================================================================
