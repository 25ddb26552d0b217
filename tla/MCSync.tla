------------------------------- MODULE MCSync -------------------------------
(***************************************************************************)
(* What is kept elsewhere of documents that change, for TLC.  The copies   *)
(* of a device (Sync): a folder with a note and the id of another note,    *)
(* which one request at a time writes; or a conversation with a message,   *)
(* which two write at once; one device.  The cache of the Notion pages     *)
(* (Notion): one page of a workspace that two users linked, one webhook    *)
(* handler and two fetches.  Sync and Notion share no state, so a          *)
(* behaviour is one of them.                                               *)
(***************************************************************************)
EXTENDS Sync, TLC

CONSTANTS
    n1, n2, f1, c1, m1, u1, u2,
    NotionPages, Owners, Hooks, Jobs, ApiCalls,
    MaxRev, MaxFetches, MaxPageFaults

ASSUME NotionAssumption ==
    ApiCalls \in Nat \ {0} /\ MaxRev \in Nat /\ MaxFetches \in Nat /\ MaxPageFaults \in Nat

VARIABLES part, notion, events, linked, cache, hook, job, fetches, pageFaults, suspect

Workspace == INSTANCE Notion
                 WITH Pages <- NotionPages, Calls <- ApiCalls, MaxFaults <- MaxPageFaults,
                      faults <- pageFaults

pageVars == <<notion, events, linked, cache, hook, job, fetches, pageFaults, suspect>>

OneConv == m1 :> c1
Kept == {n1, f1, c1, m1}
PlaceOf == n1 :> f1 @@ f1 :> NULL @@ c1 :> NULL @@ m1 :> c1
PushedTogether == {{n1, f1}, {m1}, {c1, m1}}

Init2 ==
    /\ Workspace!Init
    /\ \/ part \in {"copies", "threads"} /\ InitWith(Kept, PlaceOf)
          /\ \A p \in NotionPages : notion[p].is = "there"
       \/ /\ part = "pages" /\ InitWith({}, PlaceOf)
          /\ \A d \in Devices, k \in Kinds : since[d][k] = 0

\* The two kinds of documents meet only in a pull of both, which "threads" has.
OneByOne ==
    /\ \A v, w \in Writers : call'[v] # NoCall /\ call'[w] # NoCall => v = w
    /\ \A w \in Writers : call'[w].ids \subseteq Notes \cup Folders
    /\ \A d \in Devices : pull'[d].kinds \subseteq {"notes"}
    /\ list'.of # "trashConversations"
OnlyChats ==
    /\ \A w \in Writers : call'[w].ids \subseteq Convs \cup Msgs
    /\ \A d \in Devices : pull'[d].kinds # {"notes"}
    /\ list'.of \in {"none", "trashConversations"}

Next2 ==
    \/ part = "copies" /\ SyncNext /\ OneByOne /\ UNCHANGED <<part, pageVars>>
    \/ part = "threads" /\ SyncNext /\ OnlyChats /\ UNCHANGED <<part, pageVars>>
    \/ part = "pages" /\ Workspace!Next /\ UNCHANGED <<part, syncVars>>

Spec2 == Init2 /\ [][Next2]_<<part, syncVars, pageVars>>

\* The property of the cached pages.
FreshPagesAreCurrent == Workspace!FreshPagesAreCurrent

\* The users of a workspace are interchangeable, and the other parts leave them alone.
Sym == Permutations({u1, u2})
=============================================================================
