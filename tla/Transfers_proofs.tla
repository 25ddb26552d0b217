--------------------------- MODULE Transfers_proofs ---------------------------
(***************************************************************************)
(* Proofs about Transfers for any conversations, pages, chunks, requests   *)
(* and workers: what an export has, that no two run for one scope and no   *)
(* download lacks its ZIP, and what a finalized import has stored.  Proofs *)
(* about Sync for any documents, devices and writers: what pulls and lists *)
(* miss.  Proofs about Notion for any pages, users, handlers and fetches:  *)
(* when a page that is not stale is what Notion has.  The three share no   *)
(* variable.                                                               *)
(***************************************************************************)
EXTENDS Transfers, MCSync, FiniteSetTheorems, TLAPS

-----------------------------------------------------------------------------
(* Numbers.                                                                *)

\* What has 0 and the successor of each of its numbers has them all: otherwise the
\* numbers up to one it lacks would fit, without a clash, in one place less.
LEMMA SetInduction ==
    ASSUME NEW D, 0 \in D, \A k \in Nat : k \in D => k + 1 \in D
    PROVE  Nat \subseteq D
<1> SUFFICES ASSUME NEW n \in Nat, n \notin D PROVE FALSE
  OBVIOUS
<1> DEFINE f == [k \in 0..n |-> IF k \in D THEN k + 1 ELSE k]
<1>1. f \in [0..n -> 1..n]
  <2> SUFFICES ASSUME NEW k \in 0..n PROVE (IF k \in D THEN k + 1 ELSE k) \in 1..n
    OBVIOUS
  <2>1. CASE k \in D
    <3>1. k # n BY <2>1
    <3>2. QED BY <2>1, <3>1
  <2>2. CASE k \notin D
    <3>1. k # 0 BY <2>2
    <3>2. QED BY <2>2, <3>1
  <2>3. QED BY <2>1, <2>2
<1>2. /\ IsFiniteSet(0..n) /\ Cardinality(0..n) = n + 1
      /\ IsFiniteSet(1..n) /\ Cardinality(1..n) = n
  <2>1. IsFiniteSet(0..n) /\ Cardinality(0..n) = IF 0 > n THEN 0 ELSE n - 0 + 1
    BY FS_Interval
  <2>2. IsFiniteSet(1..n) /\ Cardinality(1..n) = IF 1 > n THEN 0 ELSE n - 1 + 1
    BY FS_Interval
  <2>3. QED BY <2>1, <2>2
<1>3. PICK x \in 0..n, y \in 0..n : x # y /\ f[x] = f[y]
  <2> HIDE DEF f
  <2>1. Cardinality(1..n) < Cardinality(0..n) BY <1>2
  <2>2. QED BY <1>1, <1>2, <2>1, FS_PigeonHole
<1>4. QED BY <1>3

\* A set of natural numbers has a least one.
LEMMA LeastNat ==
    ASSUME NEW N, N \subseteq Nat, N # {}
    PROVE  \E n \in N : \A m \in N : n <= m
<1> SUFFICES ASSUME \A n \in N : \E m \in N : ~(n <= m) PROVE FALSE
  OBVIOUS
<1> DEFINE D == {k \in Nat : \A m \in N : k < m}
<1>1. 0 \in D
  <2> SUFFICES ASSUME NEW m \in N PROVE 0 < m
    OBVIOUS
  <2>1. m \in Nat OBVIOUS
  <2>2. CASE m = 0
    <3>1. PICK p \in N : ~(m <= p) OBVIOUS
    <3>2. p \in Nat OBVIOUS
    <3>3. QED BY <2>2, <3>1, <3>2
  <2>3. QED BY <2>1, <2>2
<1>2. ASSUME NEW k \in Nat, k \in D PROVE k + 1 \in D
  <2> SUFFICES ASSUME NEW m \in N PROVE k + 1 < m
    OBVIOUS
  <2>1. m \in Nat /\ k < m BY <1>2
  <2>2. CASE m = k + 1
    <3>1. PICK p \in N : ~(m <= p) OBVIOUS
    <3>2. p \in Nat /\ k < p BY <1>2
    <3>3. QED BY <2>2, <3>1, <3>2
  <2>3. QED BY <2>1, <2>2
<1>3. Nat \subseteq D
  <2> HIDE DEF D
  <2>1. QED BY <1>1, <1>2, SetInduction
<1>4. PICK n \in N : n \in Nat OBVIOUS
<1>5. n \in D BY <1>3, <1>4
<1>6. n < n BY <1>5
<1>7. QED BY <1>4, <1>6

-----------------------------------------------------------------------------
(* The pages of listByOwner.                                               *)

DocsTyped ==
    /\ docs \in [Conversations -> [state : {"none", "active", "trashed"}, updatedAt : Nat]]
    /\ clock \in Nat

Ahead(c, S) == {d \in S : Before(d, c)}

\* The order of a listing is strict and total.
LEMMA BeforeOrders ==
    ASSUME DocsTyped, NEW b \in Conversations, NEW c \in Conversations, NEW d \in Conversations
    PROVE  /\ ~Before(c, c)
           /\ Before(b, c) /\ Before(c, d) => Before(b, d)
           /\ b # c => Before(b, c) \/ Before(c, b)
           /\ Before(b, c) => docs[c].updatedAt <= docs[b].updatedAt
<1>1. b \in Nat /\ c \in Nat /\ d \in Nat BY ConversationDocsAssumption
<1>2. /\ docs[b].updatedAt \in Nat /\ docs[c].updatedAt \in Nat /\ docs[d].updatedAt \in Nat
  BY DEF DocsTyped
<1>3. QED BY <1>1, <1>2 DEF Before

\* What comes first has fewer ahead of it.
LEMMA AheadGrows ==
    ASSUME DocsTyped, NEW S, IsFiniteSet(S), S \subseteq Conversations, NEW c \in S, NEW d \in S,
           Before(c, d)
    PROVE  /\ Cardinality(Ahead(c, S)) \in Nat /\ Cardinality(Ahead(d, S)) \in Nat
           /\ Cardinality(Ahead(c, S)) < Cardinality(Ahead(d, S))
<1>1. Ahead(c, S) \subseteq Ahead(d, S)
  <2> SUFFICES ASSUME NEW e \in S, Before(e, c) PROVE Before(e, d) BY DEF Ahead
  <2>1. e \in Conversations /\ c \in Conversations /\ d \in Conversations OBVIOUS
  <2>2. QED BY <2>1, BeforeOrders
<1>2. c \in Ahead(d, S) BY DEF Ahead
<1>3. c \notin Ahead(c, S)
  <2>1. c \in Conversations OBVIOUS
  <2>2. ~Before(c, c) BY <2>1, BeforeOrders
  <2>3. QED BY <2>2 DEF Ahead
<1>4. Ahead(d, S) \subseteq S BY DEF Ahead
<1>5. IsFiniteSet(Ahead(d, S)) BY <1>4, FS_Subset
<1>6. /\ IsFiniteSet(Ahead(c, S)) /\ Cardinality(Ahead(c, S)) <= Cardinality(Ahead(d, S))
      /\ Cardinality(Ahead(d, S)) = Cardinality(Ahead(c, S)) => Ahead(d, S) = Ahead(c, S)
  BY <1>1, <1>5, FS_Subset
<1>7. Cardinality(Ahead(c, S)) \in Nat /\ Cardinality(Ahead(d, S)) \in Nat
  BY <1>5, <1>6, FS_CardinalityType
<1>8. QED BY <1>2, <1>3, <1>6, <1>7

\* Something has the fewest ahead.
LEMMA FirstOf ==
    ASSUME DocsTyped, NEW S, IsFiniteSet(S), NEW T, T \subseteq S, T # {}
    PROVE  \E c \in T : \A d \in T : Cardinality(Ahead(c, S)) <= Cardinality(Ahead(d, S))
<1> DEFINE N == {Cardinality(Ahead(c, S)) : c \in T}
<1>1. \A c \in T : Cardinality(Ahead(c, S)) \in Nat
  <2> SUFFICES ASSUME NEW c \in T PROVE Cardinality(Ahead(c, S)) \in Nat
    OBVIOUS
  <2>1. Ahead(c, S) \subseteq S BY DEF Ahead
  <2>2. IsFiniteSet(Ahead(c, S)) BY <2>1, FS_Subset
  <2>3. QED BY <2>2, FS_CardinalityType
<1>2. N \subseteq Nat /\ N # {} BY <1>1
<1>3. PICK n \in N : \A m \in N : n <= m
  <2> HIDE DEF N
  <2>1. QED BY <1>2, LeastNat
<1>4. PICK c \in T : n = Cardinality(Ahead(c, S)) BY <1>3
<1>5. \A d \in T : Cardinality(Ahead(d, S)) \in N OBVIOUS
<1>6. QED BY <1>3, <1>4, <1>5

\* And something the most: the last of a page.
LEMMA LastOf ==
    ASSUME DocsTyped, NEW S, IsFiniteSet(S), S \subseteq Conversations, S # {}
    PROVE  \E c \in S : \A d \in S \ {c} : Before(d, c)
<1> DEFINE Behind(c) == {d \in S : Before(c, d)}
           N == {Cardinality(Behind(c)) : c \in S}
<1>1. ASSUME NEW c \in S PROVE IsFiniteSet(Behind(c)) /\ Cardinality(Behind(c)) \in Nat
  <2>1. Behind(c) \subseteq S OBVIOUS
  <2>2. IsFiniteSet(Behind(c)) BY <2>1, FS_Subset
  <2>3. QED BY <2>2, FS_CardinalityType
<1>2. N \subseteq Nat /\ N # {} BY <1>1
<1>3. PICK n \in N : \A m \in N : n <= m
  <2> HIDE DEF N
  <2>1. QED BY <1>2, LeastNat
<1>4. PICK c \in S : n = Cardinality(Behind(c)) BY <1>3
<1>5. ASSUME NEW d \in S \ {c} PROVE Before(d, c)
  <2> SUFFICES ASSUME ~Before(d, c) PROVE FALSE
    OBVIOUS
  <2>1. c \in Conversations /\ d \in Conversations OBVIOUS
  <2>2. Before(c, d) BY <2>1, BeforeOrders
  <2>3. Behind(d) \subseteq Behind(c)
    <3> SUFFICES ASSUME NEW e \in S, Before(d, e) PROVE Before(c, e)
      OBVIOUS
    <3>1. e \in Conversations OBVIOUS
    <3>2. QED BY <2>1, <2>2, <3>1, BeforeOrders
  <2>4. d \in Behind(c) BY <2>2
  <2>5. ~Before(d, d) BY <2>1, BeforeOrders
  <2>6. d \notin Behind(d) BY <2>5
  <2> HIDE DEF Behind
  <2>7. /\ Cardinality(Behind(d)) <= Cardinality(Behind(c))
        /\ Cardinality(Behind(c)) = Cardinality(Behind(d)) => Behind(c) = Behind(d)
    BY <1>1, <2>3, FS_Subset
  <2>8. Cardinality(Behind(d)) \in N OBVIOUS
  <2>9. Cardinality(Behind(c)) <= Cardinality(Behind(d)) BY <1>3, <1>4, <2>8
  <2>10. Cardinality(Behind(c)) \in Nat /\ Cardinality(Behind(d)) \in Nat BY <1>1
  <2>11. QED BY <2>4, <2>6, <2>7, <2>9, <2>10
<1>6. QED BY <1>5

\* The next cursor of a page is a time, 0 or that of its last, which is the oldest.
LEMMA CursorOf ==
    ASSUME DocsTyped, NEW page, IsFiniteSet(page), page \subseteq Conversations
    PROVE  /\ NextCursor(page) \in Nat
           /\ PageSize <= Cardinality(page) =>
                \E e \in page : /\ NextCursor(page) = docs[e].updatedAt
                                /\ \A d \in page \ {e} : Before(d, e)
<1>1. Cardinality(page) \in Nat /\ PageSize \in Nat /\ 0 < PageSize
  BY FS_CardinalityType, ConversationDocsAssumption
<1>2. CASE Cardinality(page) < PageSize BY <1>1, <1>2 DEF NextCursor
<1>3. CASE ~(Cardinality(page) < PageSize)
  <2> DEFINE e == CHOOSE c \in page : \A d \in page \ {c} : Before(d, c)
  <2>1. page # {} BY <1>1, <1>3, FS_EmptySet
  <2>2. \E c \in page : \A d \in page \ {c} : Before(d, c) BY <2>1, LastOf
  <2>3. e \in page /\ \A d \in page \ {e} : Before(d, e) BY <2>2
  <2>4. NextCursor(page) = docs[e].updatedAt BY <1>3 DEF NextCursor
  <2> HIDE DEF e
  <2>5. docs[e].updatedAt \in Nat BY <2>3 DEF DocsTyped
  <2>6. QED BY <2>3, <2>4, <2>5
<1>4. QED BY <1>2, <1>3

\* A page has what was asked for, or one as old, or leaves it for a later page.
LEMMA PageFinds ==
    ASSUME DocsTyped, IsFiniteSet(Conversations), NEW cursor \in Nat,
           NEW c \in Conversations, Active(c), cursor = 0 \/ docs[c].updatedAt < cursor
    PROVE  LET page == listByOwner(cursor)
           IN  \/ \E d \in page : docs[d].updatedAt = docs[c].updatedAt
               \/ NextCursor(page) # 0 /\ docs[c].updatedAt < NextCursor(page)
<1> DEFINE found == {d \in Conversations : Active(d) /\ (cursor = 0 \/ docs[d].updatedAt < cursor)}
           page == {d \in found : Cardinality(Ahead(d, found)) < PageSize}
<1>1. listByOwner(cursor) = page BY DEF listByOwner, Ahead
<1>2. found \subseteq Conversations /\ page \subseteq found /\ c \in found OBVIOUS
<1>3. IsFiniteSet(found) /\ IsFiniteSet(page)
  <2>1. IsFiniteSet(found) BY <1>2, FS_Subset
  <2>2. QED BY <1>2, <2>1, FS_Subset
<1>4. \A d \in found : d \in page <=> Cardinality(Ahead(d, found)) < PageSize OBVIOUS
<1>5. PageSize \in Nat BY ConversationDocsAssumption
<1> HIDE DEF found, page
<1>6. \A d \in found : Cardinality(Ahead(d, found)) \in Nat
  <2> SUFFICES ASSUME NEW d \in found PROVE Cardinality(Ahead(d, found)) \in Nat
    OBVIOUS
  <2>1. Ahead(d, found) \subseteq found BY DEF Ahead
  <2>2. IsFiniteSet(Ahead(d, found)) BY <1>3, <2>1, FS_Subset
  <2>3. QED BY <2>2, FS_CardinalityType
<1>7. CASE c \in page BY <1>1, <1>7
<1>8. CASE c \notin page
  \* The first one that is left out has a whole page ahead of it.
  <2>1. PICK b \in found \ page :
            \A d \in found \ page : Cardinality(Ahead(b, found)) <= Cardinality(Ahead(d, found))
    <3>1. found \ page \subseteq found /\ found \ page # {} BY <1>2, <1>8
    <3>2. QED BY <1>3, <3>1, FirstOf
  <2>2. Ahead(b, found) \subseteq page
    <3> SUFFICES ASSUME NEW d \in found, Before(d, b), d \notin page PROVE FALSE BY DEF Ahead
    <3>1. Cardinality(Ahead(d, found)) < Cardinality(Ahead(b, found)) BY <1>2, <1>3, AheadGrows
    <3>2. Cardinality(Ahead(b, found)) <= Cardinality(Ahead(d, found)) BY <2>1
    <3>3. QED BY <1>6, <3>1, <3>2
  <2>3. Cardinality(Ahead(b, found)) <= Cardinality(page) BY <1>3, <2>2, FS_Subset
  <2>4. PageSize <= Cardinality(page)
    <3>1. Cardinality(page) \in Nat BY <1>3, FS_CardinalityType
    <3>2. ~(Cardinality(Ahead(b, found)) < PageSize) BY <1>4
    <3>3. QED BY <1>5, <1>6, <2>3, <3>1, <3>2
  <2>5. page \subseteq Conversations BY <1>2
  <2>6. PICK e \in page : /\ NextCursor(page) = docs[e].updatedAt
                          /\ \A d \in page \ {e} : Before(d, e)
    BY <1>3, <2>4, <2>5, CursorOf
  <2>7. e \in Conversations /\ e \in found /\ e # c BY <1>2, <1>8, <2>5
  <2>8. Before(e, c)
    <3> SUFFICES ASSUME Before(c, e) PROVE FALSE BY <2>7, BeforeOrders
    <3>1. Cardinality(Ahead(c, found)) < Cardinality(Ahead(e, found))
      BY <1>2, <1>3, <2>7, AheadGrows
    <3>2. Cardinality(Ahead(e, found)) < PageSize BY <1>4, <2>7
    <3>3. c \in page BY <1>2, <1>4, <1>5, <1>6, <2>7, <3>1, <3>2
    <3>4. QED BY <1>8, <3>3
  <2>9. docs[c].updatedAt <= docs[e].updatedAt BY <2>7, <2>8, BeforeOrders
  <2>10. docs[c].updatedAt \in Nat /\ docs[e].updatedAt \in Nat BY <2>7 DEF DocsTyped
  <2>11. CASE docs[c].updatedAt = docs[e].updatedAt BY <1>1, <2>11
  <2>12. CASE docs[c].updatedAt # docs[e].updatedAt BY <1>1, <2>6, <2>9, <2>10, <2>12
  <2>13. QED BY <2>11, <2>12
<1>9. QED BY <1>7, <1>8

-----------------------------------------------------------------------------
(* The documents.                                                          *)

\* What a document does in a step that is not the user's edit of it: a conversation
\* that is active stays as it is.
ActiveStay == \A c \in Conversations : Active(c) => docs'[c] = docs[c]

LEMMA WriteTyped ==
    ASSUME DocsTyped, NEW cs, NEW state \in {"active", "trashed"}, Write(cs, state)
    PROVE  /\ DocsTyped'
           /\ \A c \in Conversations : c \notin cs => docs'[c] = docs[c]
           /\ \A c \in Conversations : c \in cs => docs'[c].state = state
<1> DEFINE new == [state |-> state, updatedAt |-> clock]
<1>1. /\ docs' = [c \in Conversations |-> IF c \in cs THEN new ELSE docs[c]]
      /\ clock' = clock + 1
  BY DEF Write
<1>2. new \in [state : {"none", "active", "trashed"}, updatedAt : Nat] /\ new.state = state
  BY DEF DocsTyped
<1> HIDE DEF new
<1>3. QED BY <1>1, <1>2 DEF DocsTyped

\* The user's edit of c: the others stay, and what it destroys is remembered.
LEMMA EditTyped ==
    ASSUME DocsTyped, NEW c \in Conversations, UserEdits(c)
    PROVE  /\ DocsTyped'
           /\ \A d \in Conversations : d # c => docs'[d] = docs[d]
           /\ destroyed \subseteq destroyed'
           /\ Exists(c) /\ (Exists(c)' \/ c \in destroyed')
<1>1. CASE Touch(c) \/ Trash(c) \/ Restore(c)
  <2>1. PICK state \in {"active", "trashed"} : Write({c}, state)
    BY <1>1 DEF Touch, Trash, Restore
  <2>2. destroyed' = destroyed /\ Exists(c)
    BY <1>1 DEF Touch, Trash, Restore, Active, Exists
  <2>3. QED BY <2>1, <2>2, WriteTyped DEF Exists
<1>2. CASE Destroy(c)
  <2>1. /\ docs' = [docs EXCEPT ![c] = NoDoc] /\ clock' = clock
        /\ destroyed' = destroyed \cup {c} /\ Exists(c)
    BY <1>2 DEF Destroy
  <2>2. NoDoc \in [state : {"none", "active", "trashed"}, updatedAt : Nat] BY DEF NoDoc
  <2>3. QED BY <2>1, <2>2 DEF DocsTyped
<1>3. QED BY <1>1, <1>2 DEF UserEdits

-----------------------------------------------------------------------------
(* Exports: the inductive invariant.                                       *)

ExportSteps == {"new", "create", "mark", "load", "upload", "finish", "mail", "catch", "over"}
ExportRecords == [at : ExportSteps, scope : Conversations \cup {All}, cursor : Nat,
                  got : SUBSET (Conversations \X Nat), steady : SUBSET Conversations]
JobRecords == [status : {"none", "PENDING", "PROCESSING", "DONE", "FAILED"}, hasFile : BOOLEAN]

ExportsTyped ==
    /\ export \in [Exports -> ExportRecords] /\ jobs \in [Exports -> JobRecords]
    /\ cleaning \in [Exports -> {"no", "object", "row"}]

\* The row follows its task while the task is there to write it and is active no longer
\* than that, the cleanup only takes what is done, and what is done has its ZIP.
JobOK(x) ==
    /\ export[x].at \in {"new", "create", "mark"} => export[x].cursor = 0
    /\ export[x].at \in {"new", "create"} => jobs[x].status = "none"
    /\ export[x].at = "mark" => jobs[x].status = "PENDING"
    /\ export[x].at \in {"load", "upload", "finish"} => jobs[x].status = "PROCESSING"
    /\ export[x].at = "finish" => x \in zips
    /\ cleaning[x] # "no" => export[x].at \in {"mail", "catch", "over"}
    /\ export[x].at = "mail" => ~ExportActive(x)
    /\ export[x].at = "over" /\ ExportActive(x) => x \in severed
    /\ Downloadable(x) => x \in zips \/ cleaning[x] = "row" \/ x \in halfCleaned

\* An export has its scope from its check on.
Claims(x) == export[x].at = "create" \/ ExportActive(x)
ClaimsOK(x, y) ==
    x # y /\ Claims(x) /\ Claims(y) /\ export[x].scope = export[y].scope => {x, y} \subseteq overlapped

\* What is steady is as it was; an export of everything has it, or a page to come has.
Has(x, c) == \E d \in Conversations : <<d, docs[c].updatedAt>> \in export[x].got
PagesOK(x) ==
    export[x].at \in {"load", "upload"} =>
        \A c \in export[x].steady :
            /\ Active(c)
            /\ export[x].scope = All =>
                 \/ Has(x, c)
                 \/ /\ export[x].at = "load"
                    /\ export[x].cursor = 0 \/ docs[c].updatedAt < export[x].cursor

ExportsInv ==
    /\ DocsTyped /\ ExportsTyped
    /\ \A x \in Exports : JobOK(x) /\ PagesOK(x)
    /\ \A x, y \in Exports : ClaimsOK(x, y)

-----------------------------------------------------------------------------
(* Exports: the steps.                                                     *)

\* A step of x: the other exports keep what is theirs.
Alone(x) ==
    /\ \A y \in Exports : y # x =>
           /\ export'[y] = export[y] /\ jobs'[y] = jobs[y] /\ cleaning'[y] = cleaning[y]
           /\ y \in zips' <=> y \in zips
    /\ severed \subseteq severed' /\ halfCleaned \subseteq halfCleaned'
    /\ overlapped \subseteq overlapped'
    /\ docs' = docs /\ clock' = clock

LEMMA AloneHolds ==
    ASSUME ExportsInv, NEW x \in Exports, Alone(x), ExportsTyped', JobOK(x)', PagesOK(x)',
           Claims(x)' => \A y \in Exports \ {x} :
               Claims(y) /\ export[y].scope = export'[x].scope => {x, y} \subseteq overlapped'
    PROVE  ExportsInv'
<1>1. DocsTyped' BY DEF ExportsInv, DocsTyped, Alone
<1>2. ASSUME NEW y \in Exports PROVE JobOK(y)'
  <2>1. CASE y # x BY <2>1 DEF ExportsInv, Alone, JobOK, Downloadable, ExportActive
  <2>2. QED BY <2>1
<1>3. ASSUME NEW y \in Exports PROVE PagesOK(y)'
  <2>1. CASE y # x BY <2>1 DEF ExportsInv, Alone, PagesOK, Has, Active
  <2>2. QED BY <2>1
<1>4. ASSUME NEW y \in Exports, y # x PROVE Claims(y)' = Claims(y)
  BY <1>4 DEF Alone, Claims, ExportActive
<1>5. ASSUME NEW y \in Exports, NEW z \in Exports PROVE ClaimsOK(y, z)'
  <2> SUFFICES ASSUME y # z, Claims(y)', Claims(z)', export'[y].scope = export'[z].scope
               PROVE  {y, z} \subseteq overlapped'
    BY DEF ClaimsOK
  <2>1. CASE y # x /\ z # x
    <3>1. Claims(y) /\ Claims(z) BY <1>4, <2>1
    <3>2. export[y].scope = export[z].scope BY <2>1 DEF Alone
    <3>3. {y, z} \subseteq overlapped BY <3>1, <3>2 DEF ExportsInv, ClaimsOK
    <3>4. QED BY <3>3 DEF Alone
  <2>2. CASE y = x
    <3>1. Claims(z) BY <1>4, <2>2
    <3>2. export[z].scope = export'[x].scope BY <2>2 DEF Alone
    <3>3. QED BY <2>2, <3>1, <3>2
  <2>3. CASE z = x
    <3>1. Claims(y) BY <1>4, <2>3
    <3>2. export[y].scope = export'[x].scope BY <2>3 DEF Alone
    <3>3. QED BY <2>3, <3>1, <3>2
  <2>4. QED BY <2>1, <2>2, <2>3
<1>6. QED BY <1>1, <1>2, <1>3, <1>5 DEF ExportsInv

\* A step of x that takes no claim.
LEMMA ClaimKept ==
    ASSUME ExportsInv, NEW x \in Exports, Alone(x), ExportsTyped', JobOK(x)', PagesOK(x)',
           Claims(x)' => Claims(x) /\ export'[x].scope = export[x].scope
    PROVE  ExportsInv'
<1>1. ASSUME Claims(x)', NEW y \in Exports \ {x}, Claims(y), export[y].scope = export'[x].scope
      PROVE  {x, y} \subseteq overlapped'
  <2>1. Claims(x) /\ export[x].scope = export[y].scope BY <1>1
  <2>2. ClaimsOK(x, y) BY DEF ExportsInv
  <2>3. {x, y} \subseteq overlapped BY <1>1, <2>1, <2>2 DEF ClaimsOK
  <2>4. QED BY <2>3 DEF Alone
<1>2. QED BY <1>1, AloneHolds

\* What a step of x finds.
LEMMA ExportFound ==
    ASSUME ExportsInv, NEW x \in Exports
    PROVE  /\ export[x] \in ExportRecords /\ jobs[x] \in JobRecords
           /\ cleaning[x] \in {"no", "object", "row"}
           /\ export \in [Exports -> ExportRecords] /\ jobs \in [Exports -> JobRecords]
           /\ cleaning \in [Exports -> {"no", "object", "row"}]
           /\ JobOK(x) /\ PagesOK(x)
BY DEF ExportsInv, ExportsTyped

\* A task that goes to a step that asks nothing of its row, and perhaps fails there.
LEMMA LeaveHolds ==
    ASSUME ExportsInv, NEW x \in Exports, NEW step \in {"mail", "catch", "over"},
           GotoExport(x, step), Alone(x), cleaning' = cleaning, jobs' \in [Exports -> JobRecords],
           Claims(x)' => Claims(x),
           step = "mail" => ~ExportActive(x)',
           step = "over" => (ExportActive(x)' => x \in severed'),
           Downloadable(x)' => x \in zips' \/ cleaning[x] = "row" \/ x \in halfCleaned'
    PROVE  ExportsInv'
<1>1. /\ export[x] \in ExportRecords /\ export \in [Exports -> ExportRecords]
      /\ cleaning \in [Exports -> {"no", "object", "row"}]
  BY ExportFound
<1>2. /\ export' \in [Exports -> ExportRecords]
      /\ export'[x].at = step /\ export'[x].scope = export[x].scope
  BY <1>1 DEF GotoExport, ExportRecords, ExportSteps
<1>3. ExportsTyped' BY <1>1, <1>2 DEF ExportsTyped
<1>4. JobOK(x)' BY <1>2 DEF JobOK
<1>5. PagesOK(x)' BY <1>2 DEF PagesOK
<1>6. QED BY <1>2, <1>3, <1>4, <1>5, ClaimKept

LEMMA StartHolds ==
    ASSUME ExportsInv, NEW x \in Exports, NEW scope \in Scopes, StartExport(x, scope)
    PROVE  ExportsInv'
<1>1. /\ export[x] \in ExportRecords /\ export \in [Exports -> ExportRecords]
      /\ JobOK(x) /\ ExportsTyped
  BY ExportFound DEF ExportsInv
<1>2. scope \in Conversations \cup {All} BY ChatExportAssumption
<1>3. PICK step \in {"create", "over"} :
          /\ export' = [export EXCEPT ![x].scope = scope, ![x].at = step]
          /\ step = "create" => findActiveJob(scope) = {}
  <2>1. CASE findActiveJob(scope) = {} BY <2>1 DEF StartExport
  <2>2. CASE findActiveJob(scope) # {} BY <2>2 DEF StartExport
  <2>3. QED BY <2>1, <2>2
<1>4. /\ export[x].at = "new" /\ UNCHANGED <<jobs, zips, cleaning, severed, halfCleaned, docs, clock>>
      /\ LET racing == {y \in Exports : ExportAt(y, "create") /\ export[y].scope = scope}
         IN  overlapped' = overlapped \cup (IF racing = {} THEN {} ELSE racing \cup {x})
  BY DEF StartExport, ExportAt, DocsStay
<1>5. /\ export' \in [Exports -> ExportRecords]
      /\ export'[x].at = step /\ export'[x].scope = scope /\ export'[x].cursor = export[x].cursor
      /\ \A y \in Exports : y # x => export'[y] = export[y]
  BY <1>1, <1>2, <1>3 DEF ExportRecords, ExportSteps
<1>6. Alone(x) BY <1>4, <1>5 DEF Alone
<1>7. ExportsTyped' BY <1>1, <1>4, <1>5 DEF ExportsTyped
<1>8. jobs[x].status = "none" BY <1>1, <1>4 DEF JobOK
<1>9. JobOK(x)' BY <1>1, <1>4, <1>5, <1>8 DEF JobOK, Downloadable, ExportActive
<1>10. PagesOK(x)' BY <1>5 DEF PagesOK
<1>11. ASSUME Claims(x)', NEW y \in Exports \ {x}, Claims(y), export[y].scope = export'[x].scope
       PROVE  {x, y} \subseteq overlapped'
  <2>1. step = "create" BY <1>4, <1>5, <1>8, <1>11 DEF Claims, ExportActive
  <2>2. ~ExportActive(y) BY <1>3, <1>5, <1>11, <2>1 DEF findActiveJob
  <2>3. ExportAt(y, "create") BY <1>11, <2>2 DEF Claims, ExportAt
  <2>4. y \in {z \in Exports : ExportAt(z, "create") /\ export[z].scope = scope}
    BY <1>5, <1>11, <2>3
  <2>5. QED BY <1>4, <2>4
<1>12. QED BY <1>6, <1>7, <1>9, <1>10, <1>11, AloneHolds

LEMMA CreateHolds ==
    ASSUME ExportsInv, NEW x \in Exports, CreateJob(x)
    PROVE  ExportsInv'
<1>1. /\ export[x] \in ExportRecords /\ export \in [Exports -> ExportRecords]
      /\ jobs[x] \in JobRecords /\ jobs \in [Exports -> JobRecords]
      /\ JobOK(x) /\ ExportsTyped
  BY ExportFound DEF ExportsInv
<1>2. /\ export[x].at = "create" /\ UNCHANGED <<zips, cleaning, halfCleaned, overlapped, docs, clock>>
  BY DEF CreateJob, ExportAt, Bookkeeping, DocsStay
<1>3. Claims(x) /\ jobs[x].status = "none" BY <1>1, <1>2 DEF Claims, JobOK
<1>4. ASSUME SetStatus(x, "PENDING")
      PROVE  /\ jobs' \in [Exports -> JobRecords] /\ jobs'[x].status = "PENDING"
             /\ \A y \in Exports : y # x => jobs'[y] = jobs[y]
  BY <1>1, <1>4 DEF SetStatus, JobRecords
<1>5. ASSUME NEW step \in {"mark", "over"}, GotoExport(x, step)
      PROVE  /\ export' \in [Exports -> ExportRecords]
             /\ export'[x].at = step /\ export'[x].scope = export[x].scope
             /\ export'[x].cursor = export[x].cursor
             /\ \A y \in Exports : y # x => export'[y] = export[y]
  BY <1>1, <1>5 DEF GotoExport, ExportRecords, ExportSteps
<1>6. CASE SetStatus(x, "PENDING") /\ GotoExport(x, "mark") /\ UNCHANGED <<faults, severed>>
  <2>1. Alone(x) BY <1>2, <1>4, <1>5, <1>6 DEF Alone
  <2>2. ExportsTyped' BY <1>1, <1>2, <1>4, <1>5, <1>6 DEF ExportsTyped
  <2>3. JobOK(x)' BY <1>1, <1>2, <1>4, <1>5, <1>6 DEF JobOK, Downloadable, ExportActive
  <2>4. PagesOK(x)' BY <1>5, <1>6 DEF PagesOK
  <2>5. QED BY <1>3, <1>5, <1>6, <2>1, <2>2, <2>3, <2>4, ClaimKept
<1>7. CASE /\ Fault /\ GotoExport(x, "over")
           /\ \/ SetStatus(x, "PENDING") /\ severed' = severed \cup {x}
              \/ UNCHANGED <<jobs, severed>>
  <2>1. /\ severed \subseteq severed' /\ jobs' \in [Exports -> JobRecords]
        /\ \A y \in Exports : y # x => jobs'[y] = jobs[y]
        /\ jobs'[x].status = "none" \/ (jobs'[x].status = "PENDING" /\ x \in severed')
    BY <1>1, <1>3, <1>4, <1>7
  <2>2. Alone(x) BY <1>2, <1>5, <1>7, <2>1 DEF Alone
  <2>3. ~Downloadable(x)' /\ (ExportActive(x)' => x \in severed')
    BY <2>1 DEF Downloadable, ExportActive
  <2>4. QED BY <1>2, <1>3, <1>7, <2>1, <2>2, <2>3, LeaveHolds
<1>8. QED BY <1>6, <1>7 DEF CreateJob

\* A task that throws goes to its handler.
LEMMA ThrowHolds ==
    ASSUME ExportsInv, NEW x \in Exports, Throws(x),
           UNCHANGED <<cleaning, severed, halfCleaned, overlapped, docs, clock>>,
           jobs' \in [Exports -> JobRecords],
           \A y \in Exports : y # x => jobs'[y] = jobs[y] /\ (y \in zips' <=> y \in zips),
           Claims(x)' => Claims(x), Downloadable(x)' => x \in zips'
    PROVE  ExportsInv'
<1>1. export \in [Exports -> ExportRecords] BY ExportFound
<1>2. GotoExport(x, "catch") BY DEF Throws
<1>3. \A y \in Exports : y # x => export'[y] = export[y] BY <1>1, <1>2 DEF GotoExport
<1>4. Alone(x) BY <1>2, <1>3 DEF Alone
<1>5. QED BY <1>2, <1>4, LeaveHolds

LEMMA MarkHolds ==
    ASSUME ExportsInv, NEW x \in Exports, MarkProcessing(x)
    PROVE  ExportsInv'
<1>1. /\ export[x] \in ExportRecords /\ export \in [Exports -> ExportRecords]
      /\ jobs[x] \in JobRecords /\ jobs \in [Exports -> JobRecords]
      /\ JobOK(x) /\ ExportsTyped
  BY ExportFound DEF ExportsInv
<1>2. /\ export[x].at = "mark"
      /\ UNCHANGED <<zips, cleaning, severed, halfCleaned, overlapped, docs, clock>>
  BY DEF MarkProcessing, ExportAt, Bookkeeping, DocsStay
<1>3. Claims(x) BY <1>1, <1>2 DEF Claims, JobOK, ExportActive
<1>4. CASE Throws(x) /\ UNCHANGED jobs
  <2>1. ~Downloadable(x)' BY <1>1, <1>2, <1>4 DEF JobOK, Downloadable
  <2>2. QED BY <1>1, <1>2, <1>3, <1>4, <2>1, ThrowHolds
<1>5. CASE /\ SetStatus(x, "PROCESSING") /\ UNCHANGED faults
           /\ export' = [export EXCEPT ![x].at = "load",
                                       ![x].steady = {c \in Conversations : Active(c)}]
  <2>1. /\ jobs' \in [Exports -> JobRecords] /\ jobs'[x].status = "PROCESSING"
        /\ \A y \in Exports : y # x => jobs'[y] = jobs[y]
    BY <1>1, <1>5 DEF SetStatus, JobRecords
  <2>2. {c \in Conversations : Active(c)} \in SUBSET Conversations OBVIOUS
  <2>3. /\ export' \in [Exports -> ExportRecords]
        /\ export'[x].at = "load" /\ export'[x].scope = export[x].scope
        /\ export'[x].steady = {c \in Conversations : Active(c)}
        /\ export'[x].cursor = export[x].cursor
        /\ \A y \in Exports : y # x => export'[y] = export[y]
    BY <1>1, <1>5, <2>2 DEF ExportRecords, ExportSteps
  <2>4. Alone(x) BY <1>2, <1>5, <2>1, <2>3 DEF Alone
  <2>5. ExportsTyped' BY <1>1, <1>2, <2>1, <2>3 DEF ExportsTyped
  <2>6. JobOK(x)' BY <1>1, <1>2, <2>1, <2>3 DEF JobOK, Downloadable, ExportActive
  <2>7. export[x].cursor = 0 BY <1>1, <1>2 DEF JobOK
  <2>8. PagesOK(x)' BY <1>2, <2>3, <2>7 DEF PagesOK, Active
  <2>9. QED BY <1>3, <2>3, <2>4, <2>5, <2>6, <2>8, ClaimKept
<1>6. QED BY <1>4, <1>5 DEF MarkProcessing

\* A page, or the conversation asked for, is read.
LEMMA LoadHolds ==
    ASSUME ExportsInv, IsFiniteSet(Conversations), NEW x \in Exports, Load(x)
    PROVE  ExportsInv'
<1>1. /\ export[x] \in ExportRecords /\ export \in [Exports -> ExportRecords]
      /\ JobOK(x) /\ PagesOK(x) /\ ExportsTyped /\ DocsTyped /\ jobs \in [Exports -> JobRecords]
  BY ExportFound DEF ExportsInv
<1>2. /\ export[x].at = "load"
      /\ UNCHANGED <<jobs, zips, cleaning, severed, halfCleaned, overlapped, docs, clock>>
  BY DEF Load, ExportAt, Bookkeeping, DocsStay
<1>3. Claims(x) BY <1>1, <1>2 DEF Claims, JobOK, ExportActive
<1>4. ASSUME Throws(x) PROVE ExportsInv'
  <2>1. ~Downloadable(x)' BY <1>1, <1>2 DEF JobOK, Downloadable
  <2>2. QED BY <1>1, <1>2, <1>3, <1>4, <2>1, ThrowHolds
<1>5. ASSUME NEW f \in ExportRecords, export' = [export EXCEPT ![x] = f],
             f.at \in {"load", "upload"}, f.scope = export[x].scope, PagesOK(x)'
      PROVE  ExportsInv'
  <2>1. /\ export' \in [Exports -> ExportRecords] /\ export'[x] = f
        /\ \A y \in Exports : y # x => export'[y] = export[y]
    BY <1>1, <1>5
  <2>2. Alone(x) BY <1>2, <1>5, <2>1 DEF Alone
  <2>3. ExportsTyped' BY <1>1, <1>2, <2>1 DEF ExportsTyped
  <2>4. JobOK(x)'
    <3>1. jobs'[x].status = "PROCESSING" /\ cleaning'[x] = "no" BY <1>1, <1>2 DEF JobOK, ExportsTyped
    <3>2. QED BY <1>5, <2>1, <3>1 DEF JobOK, Downloadable, ExportActive
  <2>5. QED BY <1>3, <1>5, <2>1, <2>2, <2>3, <2>4, ClaimKept
<1>6. CASE export[x].scope = All /\ LoadPage(x) /\ UNCHANGED faults
  <2>1. PICK page : page = listByOwner(export[x].cursor) OBVIOUS
  <2>2. page \subseteq Conversations BY <2>1 DEF listByOwner
  <2>3. IsFiniteSet(page) BY <2>2, FS_Subset
  <2>4. PICK next \in Nat : next = NextCursor(page) BY <1>1, <2>2, <2>3, CursorOf
  <2>5. PICK read : read = {<<c, docs[c].updatedAt>> : c \in page} OBVIOUS
  <2>6. read \in SUBSET (Conversations \X Nat)
    <3> SUFFICES ASSUME NEW c \in page PROVE <<c, docs[c].updatedAt>> \in Conversations \X Nat
      BY <2>5
    <3>1. c \in Conversations /\ docs[c].updatedAt \in Nat BY <1>1, <2>2 DEF DocsTyped
    <3>2. QED BY <3>1
  <2>7. PICK step \in {"load", "upload"} : /\ step = "load" <=> next # 0
                                           /\ step = (IF next = 0 THEN "upload" ELSE "load")
    <3>1. CASE next = 0 BY <3>1
    <3>2. CASE next # 0 BY <3>2
    <3>3. QED BY <3>1, <3>2
  <2>8. export' = [export EXCEPT ![x].got = @ \cup read, ![x].cursor = next, ![x].at = step]
    BY <1>6, <2>1, <2>4, <2>5, <2>7 DEF LoadPage
  <2>9. PICK got : got = export[x].got \cup read OBVIOUS
  <2>10. got \in SUBSET (Conversations \X Nat) BY <1>1, <2>6, <2>9 DEF ExportRecords
  <2>11. PICK f : f = [export[x] EXCEPT !.got = got, !.cursor = next, !.at = step] OBVIOUS
  <2>12. /\ f \in ExportRecords /\ f.at = step /\ f.scope = export[x].scope
         /\ f.got = got /\ f.cursor = next /\ f.steady = export[x].steady
    BY <1>1, <2>10, <2>11 DEF ExportRecords, ExportSteps
  <2>13. export' = [export EXCEPT ![x] = f] BY <1>1, <2>8, <2>9, <2>11
  <2>14. export'[x] = f BY <1>1, <2>13
  <2>15. ASSUME NEW c \in export[x].steady
         PROVE  /\ Active(c)
                /\ \/ \E d \in Conversations : <<d, docs[c].updatedAt>> \in got
                   \/ next # 0 /\ docs[c].updatedAt < next
    <3>1. c \in Conversations /\ Active(c)
          /\ \/ Has(x, c)
             \/ export[x].cursor = 0 \/ docs[c].updatedAt < export[x].cursor
      BY <1>1, <1>2, <1>6 DEF PagesOK, ExportRecords
    <3>2. CASE Has(x, c) BY <2>9, <3>1, <3>2 DEF Has
    <3>3. CASE export[x].cursor = 0 \/ docs[c].updatedAt < export[x].cursor
      <4>1. export[x].cursor \in Nat BY <1>1 DEF ExportRecords
      <4>2. \/ \E d \in page : docs[d].updatedAt = docs[c].updatedAt
            \/ next # 0 /\ docs[c].updatedAt < next
        BY <1>1, <2>1, <2>4, <3>1, <3>3, <4>1, PageFinds
      <4>3. ASSUME NEW d \in page, docs[d].updatedAt = docs[c].updatedAt
            PROVE  d \in Conversations /\ <<d, docs[c].updatedAt>> \in got
        <5>1. <<d, docs[d].updatedAt>> \in read BY <2>5
        <5>2. QED BY <2>2, <2>9, <4>3, <5>1
      <4>4. QED BY <3>1, <4>2, <4>3
    <3>4. QED BY <3>1, <3>2, <3>3
  <2>16. PagesOK(x)'
    <3> SUFFICES ASSUME NEW c \in f.steady
                 PROVE  /\ Active(c)'
                        /\ \/ Has(x, c)'
                           \/ f.at = "load" /\ (f.cursor = 0 \/ docs'[c].updatedAt < f.cursor)
      BY <2>14 DEF PagesOK
    <3>1. /\ Active(c)
          /\ \/ \E d \in Conversations : <<d, docs[c].updatedAt>> \in got
             \/ next # 0 /\ docs[c].updatedAt < next
      BY <2>12, <2>15
    <3>2. docs' = docs BY <1>2
    <3>3. QED BY <2>7, <2>12, <2>14, <3>1, <3>2 DEF Has, Active
  <2>17. QED BY <1>5, <1>6, <2>12, <2>13, <2>16
<1>7. CASE export[x].scope # All /\ LoadOne(x, export[x].scope) /\ UNCHANGED faults
  <2>1. PICK c : c = export[x].scope OBVIOUS
  <2>2. c \in Conversations BY <1>1, <1>7, <2>1 DEF ExportRecords
  <2>3. CASE Active(c)
    <3>1. PICK got : got = {<<c, docs[c].updatedAt>>} OBVIOUS
    <3>2. got \in SUBSET (Conversations \X Nat)
      <4>1. docs[c].updatedAt \in Nat BY <1>1, <2>2 DEF DocsTyped
      <4>2. <<c, docs[c].updatedAt>> \in Conversations \X Nat BY <2>2, <4>1
      <4>3. QED BY <3>1, <4>2
    <3>3. export' = [export EXCEPT ![x].got = got, ![x].at = "upload"]
      BY <1>7, <2>1, <2>3, <3>1 DEF LoadOne
    <3>4. PICK f : f = [export[x] EXCEPT !.got = got, !.at = "upload"] OBVIOUS
    <3>5. /\ f \in ExportRecords /\ f.at = "upload" /\ f.scope = export[x].scope
          /\ f.steady = export[x].steady
      BY <1>1, <3>2, <3>4 DEF ExportRecords, ExportSteps
    <3>6. export' = [export EXCEPT ![x] = f] BY <1>1, <3>3, <3>4
    <3>7. export'[x] = f BY <1>1, <3>6
    <3>8. PagesOK(x)' BY <1>1, <1>2, <1>7, <3>5, <3>7 DEF PagesOK, Active
    <3>9. QED BY <1>5, <1>7, <3>5, <3>6, <3>8
  <2>4. CASE ~Active(c)
    <3>1. GotoExport(x, "catch") BY <1>7, <2>1, <2>4 DEF LoadOne
    <3>2. \A y \in Exports : y # x => export'[y] = export[y] BY <1>1, <3>1 DEF GotoExport
    <3>3. Alone(x) BY <1>2, <1>7, <3>2 DEF Alone
    <3>4. ~Downloadable(x)' BY <1>1, <1>2 DEF JobOK, Downloadable
    <3>5. QED BY <1>1, <1>2, <1>3, <3>1, <3>3, <3>4, LeaveHolds
  <2>5. QED BY <2>3, <2>4
<1>8. QED BY <1>4, <1>6, <1>7 DEF Load

\* A task that goes on to the next step, its row as it was.
LEMMA UploadHolds ==
    ASSUME ExportsInv, NEW x \in Exports, UploadZip(x)
    PROVE  ExportsInv'
<1>1. /\ export[x] \in ExportRecords /\ export \in [Exports -> ExportRecords]
      /\ JobOK(x) /\ ExportsTyped /\ jobs \in [Exports -> JobRecords]
  BY ExportFound DEF ExportsInv
<1>2. /\ export[x].at = "upload"
      /\ UNCHANGED <<jobs, cleaning, severed, halfCleaned, overlapped, docs, clock>>
  BY DEF UploadZip, ExportAt, Bookkeeping, DocsStay
<1>3. Claims(x) /\ jobs[x].status = "PROCESSING" /\ cleaning[x] = "no"
  BY <1>1, <1>2 DEF Claims, JobOK, ExportActive, ExportsTyped
<1>4. CASE Throws(x) /\ (zips' = zips \cup {x} \/ UNCHANGED zips)
  <2>1. \A y \in Exports : y # x => (y \in zips' <=> y \in zips) BY <1>4
  <2>2. ~Downloadable(x)' BY <1>2, <1>3 DEF Downloadable
  <2>3. QED BY <1>1, <1>2, <1>3, <1>4, <2>1, <2>2, ThrowHolds
<1>5. CASE zips' = zips \cup {x} /\ GotoExport(x, "finish") /\ UNCHANGED faults
  <2>1. /\ export' \in [Exports -> ExportRecords]
        /\ export'[x].at = "finish" /\ export'[x].scope = export[x].scope
        /\ \A y \in Exports : y # x => export'[y] = export[y]
    BY <1>1, <1>5 DEF GotoExport, ExportRecords, ExportSteps
  <2>2. Alone(x) BY <1>2, <1>5, <2>1 DEF Alone
  <2>3. ExportsTyped' BY <1>1, <1>2, <2>1 DEF ExportsTyped
  <2>4. JobOK(x)' BY <1>2, <1>3, <1>5, <2>1 DEF JobOK, Downloadable, ExportActive
  <2>5. PagesOK(x)' BY <2>1 DEF PagesOK
  <2>6. QED BY <1>3, <2>1, <2>2, <2>3, <2>4, <2>5, ClaimKept
<1>6. QED BY <1>4, <1>5 DEF UploadZip

LEMMA FinishHolds ==
    ASSUME ExportsInv, NEW x \in Exports, FinishExport(x)
    PROVE  ExportsInv'
<1>1. /\ export[x] \in ExportRecords /\ export \in [Exports -> ExportRecords]
      /\ JobOK(x) /\ ExportsTyped /\ jobs \in [Exports -> JobRecords]
  BY ExportFound DEF ExportsInv
<1>2. /\ export[x].at = "finish"
      /\ UNCHANGED <<zips, cleaning, severed, halfCleaned, overlapped, docs, clock>>
  BY DEF FinishExport, ExportAt, Bookkeeping, DocsStay
<1>3. Claims(x) /\ x \in zips BY <1>1, <1>2 DEF Claims, JobOK, ExportActive
<1>4. ASSUME jobs' = [jobs EXCEPT ![x] = [status |-> "DONE", hasFile |-> TRUE]]
      PROVE  /\ jobs' \in [Exports -> JobRecords]
             /\ jobs'[x].status = "DONE" /\ \A y \in Exports : y # x => jobs'[y] = jobs[y]
  BY <1>1, <1>4 DEF JobRecords
<1>5. CASE /\ jobs' = [jobs EXCEPT ![x] = [status |-> "DONE", hasFile |-> TRUE]]
           /\ GotoExport(x, "mail") /\ UNCHANGED faults
  <2>1. \A y \in Exports : y # x => export'[y] = export[y] BY <1>1, <1>5 DEF GotoExport
  <2>2. Alone(x) BY <1>2, <1>4, <1>5, <2>1 DEF Alone
  <2>3. ~ExportActive(x)' BY <1>4, <1>5 DEF ExportActive
  <2>4. QED BY <1>2, <1>3, <1>4, <1>5, <2>2, <2>3, LeaveHolds
<1>6. CASE /\ Throws(x)
           /\ \/ jobs' = [jobs EXCEPT ![x] = [status |-> "DONE", hasFile |-> TRUE]]
              \/ UNCHANGED jobs
  <2>1. jobs' \in [Exports -> JobRecords] /\ \A y \in Exports : y # x => jobs'[y] = jobs[y]
    BY <1>1, <1>4, <1>6
  <2>2. QED BY <1>2, <1>3, <1>6, <2>1, ThrowHolds
<1>7. QED BY <1>5, <1>6 DEF FinishExport

LEMMA MailHolds ==
    ASSUME ExportsInv, NEW x \in Exports, SendMail(x)
    PROVE  ExportsInv'
<1>1. /\ export \in [Exports -> ExportRecords] /\ jobs \in [Exports -> JobRecords] /\ JobOK(x)
  BY ExportFound
<1>2. /\ export[x].at = "mail" /\ GotoExport(x, "over")
      /\ UNCHANGED <<jobs, zips, severed, halfCleaned, cleaning, overlapped, docs, clock>>
  BY DEF SendMail, ExportAt, Bookkeeping, DocsStay
<1>3. \A y \in Exports : y # x => export'[y] = export[y] BY <1>1, <1>2 DEF GotoExport
<1>4. Alone(x) BY <1>2, <1>3 DEF Alone
<1>5. Claims(x)' => Claims(x)
  <2>1. export'[x].at = "over"
    <3>1. export[x] \in ExportRecords BY ExportFound
    <3>2. QED BY <1>1, <1>2, <3>1 DEF GotoExport, ExportRecords
  <2>2. QED BY <1>2, <2>1 DEF Claims, ExportActive
<1>6. ~ExportActive(x)' BY <1>1, <1>2 DEF JobOK, ExportActive
<1>7. QED BY <1>1, <1>2, <1>4, <1>5, <1>6, LeaveHolds DEF JobOK, Downloadable

LEMMA CatchHolds ==
    ASSUME ExportsInv, NEW x \in Exports, CatchExport(x)
    PROVE  ExportsInv'
<1>1. /\ export[x] \in ExportRecords /\ export \in [Exports -> ExportRecords]
      /\ jobs[x] \in JobRecords /\ jobs \in [Exports -> JobRecords] /\ JobOK(x)
  BY ExportFound
<1>2. /\ export[x].at = "catch" /\ GotoExport(x, "over")
      /\ UNCHANGED <<zips, cleaning, halfCleaned, overlapped, docs, clock>>
  BY DEF CatchExport, ExportAt, DocsStay
<1>3. /\ export'[x].at = "over" /\ \A y \in Exports : y # x => export'[y] = export[y]
  BY <1>1, <1>2 DEF GotoExport, ExportRecords
<1>4. CASE RecordFailure(x) /\ UNCHANGED <<faults, severed, stopping>>
  <2>1. /\ jobs' \in [Exports -> JobRecords] /\ jobs'[x].status = "FAILED"
        /\ \A y \in Exports : y # x => jobs'[y] = jobs[y]
    BY <1>1, <1>4 DEF RecordFailure, SetStatus, JobRecords
  <2>2. Alone(x) BY <1>2, <1>3, <1>4, <2>1 DEF Alone
  <2>3. ~Claims(x)' /\ ~Downloadable(x)' /\ ~ExportActive(x)'
    BY <1>3, <2>1 DEF Claims, ExportActive, Downloadable
  <2>4. QED BY <1>2, <2>1, <2>2, <2>3, LeaveHolds
<1>5. CASE severed' = severed \cup {x} /\ UNCHANGED jobs
  <2>1. severed \subseteq severed' /\ x \in severed' /\ jobs' = jobs BY <1>5
  <2>2. Alone(x) BY <1>2, <1>3, <2>1 DEF Alone
  <2>3. Claims(x)' => Claims(x) BY <1>3, <2>1 DEF Claims, ExportActive
  <2>4. Downloadable(x)' => x \in zips' \/ cleaning[x] = "row" \/ x \in halfCleaned'
    BY <1>1, <1>2, <2>1 DEF JobOK, Downloadable
  <2>5. QED BY <1>1, <1>2, <2>1, <2>2, <2>3, <2>4, LeaveHolds
<1>6. QED BY <1>4, <1>5 DEF CatchExport

LEMMA CrashHolds ==
    ASSUME ExportsInv, CrashServer
    PROVE  ExportsInv'
<1>1. PICK dead \in SUBSET Alive :
          /\ export' = [x \in Exports |-> IF x \in dead THEN [export[x] EXCEPT !.at = "over"] ELSE export[x]]
          /\ severed' = severed \cup dead
          /\ UNCHANGED <<jobs, zips, cleaning, halfCleaned, overlapped, docs, clock>>
  BY DEF CrashServer, DocsStay
<1>2. ASSUME NEW x \in Exports
      PROVE  /\ export'[x] \in ExportRecords /\ export'[x].scope = export[x].scope
             /\ x \in dead => export'[x].at = "over"
             /\ x \notin dead => export'[x] = export[x]
  <2>1. export[x] \in ExportRecords BY ExportFound
  <2>2. CASE x \in dead
    <3>1. export'[x] = [export[x] EXCEPT !.at = "over"] BY <1>1, <2>2
    <3>2. QED BY <2>1, <2>2, <3>1 DEF ExportRecords, ExportSteps
  <2>3. CASE x \notin dead
    <3>1. export'[x] = export[x] BY <1>1, <2>3
    <3>2. QED BY <2>1, <2>3, <3>1
  <2>4. QED BY <2>2, <2>3
<1>3. export' \in [Exports -> ExportRecords] BY <1>1, <1>2
<1>4. ExportsTyped' /\ DocsTyped' BY <1>1, <1>3 DEF ExportsInv, ExportsTyped, DocsTyped
<1>5. ASSUME NEW x \in Exports PROVE JobOK(x)'
  <2>1. JobOK(x) BY DEF ExportsInv
  <2>2. CASE x \in dead BY <1>1, <1>2, <2>1, <2>2 DEF JobOK, Downloadable, ExportActive
  <2>3. CASE x \notin dead BY <1>1, <1>2, <2>1, <2>3 DEF JobOK, Downloadable, ExportActive
  <2>4. QED BY <2>2, <2>3
<1>6. ASSUME NEW x \in Exports PROVE PagesOK(x)'
  <2>1. PagesOK(x) BY DEF ExportsInv
  <2>2. CASE x \in dead BY <1>2, <2>2 DEF PagesOK
  <2>3. CASE x \notin dead BY <1>1, <1>2, <2>1, <2>3 DEF PagesOK, Has, Active
  <2>4. QED BY <2>2, <2>3
<1>7. ASSUME NEW x \in Exports, Claims(x)' PROVE Claims(x)
  BY <1>1, <1>2, <1>7 DEF Claims, ExportActive
<1>8. ASSUME NEW x \in Exports, NEW y \in Exports PROVE ClaimsOK(x, y)'
  <2>1. ClaimsOK(x, y) BY DEF ExportsInv
  <2>2. export'[x].scope = export[x].scope /\ export'[y].scope = export[y].scope BY <1>2
  <2>3. QED BY <1>1, <1>7, <2>1, <2>2 DEF ClaimsOK
<1>9. QED BY <1>4, <1>5, <1>6, <1>8 DEF ExportsInv

\* The cleanup, which only touches what is done.
LEMMA CleanHolds ==
    ASSUME ExportsInv, NEW x \in Exports, CleanStep(x)
    PROVE  ExportsInv'
<1>1. /\ export[x] \in ExportRecords /\ jobs[x] \in JobRecords /\ jobs \in [Exports -> JobRecords]
      /\ cleaning[x] \in {"no", "object", "row"} /\ cleaning \in [Exports -> {"no", "object", "row"}]
      /\ JobOK(x) /\ PagesOK(x) /\ ExportsTyped
  BY ExportFound DEF ExportsInv
<1>2. CASE FindExpired(x)
  <2>1. PICK step \in {"object", "row"} : /\ cleaning' = [cleaning EXCEPT ![x] = step]
                                          /\ step = "row" <=> ~jobs[x].hasFile
    <3>1. CASE jobs[x].hasFile BY <1>2, <3>1 DEF FindExpired
    <3>2. CASE ~jobs[x].hasFile BY <1>2, <3>2 DEF FindExpired
    <3>3. QED BY <3>1, <3>2
  <2>2. /\ jobs[x].status = "DONE" /\ UNCHANGED <<export, jobs, zips, severed, halfCleaned, overlapped, docs, clock>>
        /\ cleaning[x] = "no"
    BY <1>2 DEF FindExpired, DocsStay
  <2>3. export[x].at \in {"mail", "catch", "over"}
    BY <1>1, <2>2 DEF JobOK, ExportRecords, ExportSteps
  <2>4. /\ cleaning' \in [Exports -> {"no", "object", "row"}] /\ cleaning'[x] = step
        /\ \A y \in Exports : y # x => cleaning'[y] = cleaning[y]
    BY <1>1, <2>1
  <2>5. Alone(x) BY <2>2, <2>4 DEF Alone
  <2>6. ExportsTyped' BY <1>1, <2>2, <2>4 DEF ExportsTyped
  <2>7. JobOK(x)' BY <1>1, <2>1, <2>2, <2>3, <2>4 DEF JobOK, Downloadable, ExportActive
  <2>8. PagesOK(x)' BY <1>1, <2>2 DEF PagesOK, Has, Active
  <2>9. Claims(x)' => Claims(x) /\ export'[x].scope = export[x].scope
    BY <2>2 DEF Claims, ExportActive
  <2>10. QED BY <2>5, <2>6, <2>7, <2>8, <2>9, ClaimKept
<1>3. CASE CleanObject(x)
  <2>1. /\ cleaning[x] = "object" /\ UNCHANGED <<export, jobs, severed, overlapped, docs, clock>>
        /\ \/ /\ zips' = zips \ {x} /\ cleaning' = [cleaning EXCEPT ![x] = "row"]
              /\ halfCleaned' = halfCleaned
           \/ /\ cleaning' = [cleaning EXCEPT ![x] = "no"]
              /\ \/ UNCHANGED <<zips, halfCleaned>>
                 \/ zips' = zips \ {x} /\ halfCleaned' = halfCleaned \cup {x}
    BY <1>3 DEF CleanObject, DeleteZip, DocsStay
  <2>2. export[x].at \in {"mail", "catch", "over"} BY <1>1, <2>1 DEF JobOK
  <2>3. /\ cleaning' \in [Exports -> {"no", "object", "row"}]
        /\ cleaning'[x] = "row" \/ x \in halfCleaned' \/ UNCHANGED <<zips, halfCleaned>>
        /\ \A y \in Exports : y # x => cleaning'[y] = cleaning[y] /\ (y \in zips' <=> y \in zips)
        /\ halfCleaned \subseteq halfCleaned'
    BY <1>1, <2>1
  <2>4. Alone(x) BY <2>1, <2>3 DEF Alone
  <2>5. ExportsTyped' BY <1>1, <2>1, <2>3 DEF ExportsTyped
  <2>6. JobOK(x)' BY <1>1, <2>1, <2>2, <2>3 DEF JobOK, Downloadable, ExportActive
  <2>7. PagesOK(x)' BY <1>1, <2>1 DEF PagesOK, Has, Active
  <2>8. Claims(x)' => Claims(x) /\ export'[x].scope = export[x].scope
    BY <2>1 DEF Claims, ExportActive
  <2>9. QED BY <2>4, <2>5, <2>6, <2>7, <2>8, ClaimKept
<1>4. CASE CleanRow(x)
  <2>1. /\ cleaning[x] = "row" /\ cleaning' = [cleaning EXCEPT ![x] = "no"]
        /\ UNCHANGED <<export, zips, severed, overlapped, docs, clock>>
        /\ \/ jobs' = [jobs EXCEPT ![x] = NoJob] /\ halfCleaned' = halfCleaned
           \/ halfCleaned' = halfCleaned \cup {x} /\ jobs' = jobs
    BY <1>4 DEF CleanRow, DocsStay
  <2>2. export[x].at \in {"mail", "catch", "over"} BY <1>1, <2>1 DEF JobOK
  <2>3. NoJob \in JobRecords /\ NoJob.status = "none" BY DEF NoJob, JobRecords
  <2>4. /\ jobs' \in [Exports -> JobRecords]
        /\ jobs'[x].status = "none" \/ (x \in halfCleaned' /\ jobs'[x] = jobs[x])
        /\ \A y \in Exports : y # x => jobs'[y] = jobs[y]
        /\ halfCleaned \subseteq halfCleaned'
    BY <1>1, <2>1, <2>3
  <2>5. /\ cleaning' \in [Exports -> {"no", "object", "row"}] /\ cleaning'[x] = "no"
        /\ \A y \in Exports : y # x => cleaning'[y] = cleaning[y]
    BY <1>1, <2>1
  <2>6. Alone(x) BY <2>1, <2>4, <2>5 DEF Alone
  <2>7. ExportsTyped' BY <1>1, <2>1, <2>4, <2>5 DEF ExportsTyped
  <2>8. JobOK(x)' BY <1>1, <2>1, <2>2, <2>4, <2>5 DEF JobOK, Downloadable, ExportActive
  <2>9. PagesOK(x)' BY <1>1, <2>1 DEF PagesOK, Has, Active
  <2>10. Claims(x)' => Claims(x) /\ export'[x].scope = export[x].scope
    BY <2>1, <2>2, <2>4 DEF Claims, ExportActive
  <2>11. QED BY <2>6, <2>7, <2>8, <2>9, <2>10, ClaimKept
<1>5. QED BY <1>2, <1>3, <1>4 DEF CleanStep

LEMMA ExportNextHolds ==
    ASSUME ExportsInv, IsFiniteSet(Conversations), ExportNext
    PROVE  ExportsInv'
<1>1. CASE CrashServer BY <1>1, CrashHolds
<1>2. ASSUME NEW x \in Exports, NEW scope \in Scopes, StartExport(x, scope) PROVE ExportsInv'
  BY <1>2, StartHolds
<1>3. ASSUME NEW x \in Exports, TaskStep(x) PROVE ExportsInv'
  <2>1. CASE CreateJob(x) BY <2>1, CreateHolds
  <2>2. CASE MarkProcessing(x) BY <2>2, MarkHolds
  <2>3. CASE Load(x) BY <2>3, LoadHolds
  <2>4. CASE UploadZip(x) BY <2>4, UploadHolds
  <2>5. CASE FinishExport(x) BY <2>5, FinishHolds
  <2>6. CASE SendMail(x) BY <2>6, MailHolds
  <2>7. CASE CatchExport(x) BY <2>7, CatchHolds
  <2>8. QED BY <1>3, <2>1, <2>2, <2>3, <2>4, <2>5, <2>6, <2>7 DEF TaskStep
<1>4. ASSUME NEW x \in Exports, CleanStep(x) PROVE ExportsInv' BY <1>4, CleanHolds
<1>5. QED BY <1>1, <1>2, <1>3, <1>4 DEF ExportNext

\* What others do to the documents: the exports stay, their steady conversations too.
LEMMA DocsMoveHolds ==
    ASSUME ExportsInv, DocsTyped', UNCHANGED <<jobs, zips, cleaning, severed, halfCleaned, overlapped>>,
           export' \in [Exports -> ExportRecords],
           \A x \in Exports :
               /\ export'[x].at = export[x].at /\ export'[x].scope = export[x].scope
               /\ export'[x].cursor = export[x].cursor /\ export'[x].got = export[x].got
               /\ export'[x].steady \subseteq export[x].steady
               /\ \A c \in export'[x].steady : Active(c) => docs'[c] = docs[c]
    PROVE  ExportsInv'
<1>1. ExportsTyped' BY DEF ExportsInv, ExportsTyped
<1>2. ASSUME NEW x \in Exports PROVE JobOK(x)' /\ PagesOK(x)'
  <2>1. JobOK(x) /\ PagesOK(x) BY DEF ExportsInv
  <2>2. JobOK(x)' BY <2>1 DEF JobOK, Downloadable, ExportActive
  <2>3. PagesOK(x)'
    <3> SUFFICES ASSUME export'[x].at \in {"load", "upload"}, NEW c \in export'[x].steady
                 PROVE  /\ Active(c)'
                        /\ export'[x].scope = All =>
                             \/ Has(x, c)'
                             \/ /\ export'[x].at = "load"
                                /\ export'[x].cursor = 0 \/ docs'[c].updatedAt < export'[x].cursor
      BY DEF PagesOK
    <3>1. /\ c \in export[x].steady /\ export[x].at \in {"load", "upload"} /\ Active(c)
          /\ export[x].scope = All =>
               \/ Has(x, c)
               \/ /\ export[x].at = "load"
                  /\ export[x].cursor = 0 \/ docs[c].updatedAt < export[x].cursor
      BY <2>1 DEF PagesOK
    <3>2. docs'[c] = docs[c] BY <3>1
    <3>3. QED BY <3>1, <3>2 DEF Active, Has
  <2>4. QED BY <2>2, <2>3
<1>3. ASSUME NEW x \in Exports, NEW y \in Exports PROVE ClaimsOK(x, y)'
  <2>1. ClaimsOK(x, y) BY DEF ExportsInv
  <2>2. QED BY <2>1 DEF ClaimsOK, Claims, ExportActive
<1>4. QED BY <1>1, <1>2, <1>3 DEF ExportsInv

LEMMA EditHolds ==
    ASSUME ExportsInv, NEW c \in Conversations, EditConversation(c)
    PROVE  ExportsInv'
<1>1. /\ UserEdits(c) /\ UNCHANGED <<jobs, zips, cleaning, severed, halfCleaned, overlapped>>
      /\ export' = [x \in Exports |-> [export[x] EXCEPT !.steady = @ \ {c}]]
  BY DEF EditConversation, Unsteady
<1>2. DocsTyped' /\ \A d \in Conversations : d # c => docs'[d] = docs[d]
  BY <1>1, EditTyped DEF ExportsInv
<1>3. ASSUME NEW x \in Exports
      PROVE  /\ export'[x] \in ExportRecords
             /\ export'[x].at = export[x].at /\ export'[x].scope = export[x].scope
             /\ export'[x].cursor = export[x].cursor /\ export'[x].got = export[x].got
             /\ export'[x].steady = export[x].steady \ {c}
             /\ export[x].steady \subseteq Conversations
  <2>1. export[x] \in ExportRecords BY ExportFound
  <2>2. export'[x] = [export[x] EXCEPT !.steady = @ \ {c}] BY <1>1
  <2>3. QED BY <2>1, <2>2 DEF ExportRecords
<1>4. export' \in [Exports -> ExportRecords] BY <1>1, <1>3
<1>5. ASSUME NEW x \in Exports, NEW d \in export'[x].steady PROVE docs'[d] = docs[d]
  BY <1>2, <1>3
<1>6. QED BY <1>1, <1>2, <1>3, <1>4, <1>5, DocsMoveHolds

-----------------------------------------------------------------------------
(* Imports: the inductive invariant.                                       *)

WorkerRecords == [at : {"off", "idle", "lookup", "create", "complete", "fail"},
                  message : Messages \cup {0}, existing : SUBSET Conversations,
                  chunk : Nat, created : Nat]

Chunks == 1..Len(Imported)
Settled(c) == Exists(c) \/ c \in destroyed \/ c \in dropped
Handled(i) == \A c \in Imported[i] : Settled(c)

\* A worker has handled the chunks before its own, and what it found stored is
\* stored, or the user has deleted it since.
WorkerOK(w) ==
    /\ worker[w].at = "create" =>
         /\ worker[w].chunk \in Chunks
         /\ \A c \in worker[w].existing : Exists(c) \/ c \in destroyed
         /\ \A i \in Chunks : i < worker[w].chunk => Handled(i)
    /\ worker[w].at = "complete" => \A i \in Chunks : Handled(i)
    /\ worker[w].at = "lookup" => worker[w].chunk = 1

\* A chunk goes in as a whole: where one of its conversations is, all are settled.
\* That is why a worker that meets the conversation of another may leave the chunk.
ImportsInv ==
    /\ DocsTyped /\ worker \in [Workers -> WorkerRecords]
    /\ \A w \in Workers : WorkerOK(w)
    /\ \A i \in Chunks : (\E c \in Imported[i] : Exists(c)) => Handled(i)
    /\ finalize = "finalized" => \A i \in Chunks : Handled(i)

-----------------------------------------------------------------------------
(* Imports: the steps.                                                     *)

LEMMA ChunkFacts ==
    /\ Len(Imported) \in Nat
    /\ \A i \in Chunks : Imported[i] \subseteq Conversations
    /\ \A i, j \in Chunks : i # j => Imported[i] \cap Imported[j] = {}
    /\ ImportedIds \subseteq Conversations
    /\ \A i \in Chunks : Imported[i] \subseteq ImportedIds
    /\ \A c \in ImportedIds : \E i \in Chunks : c \in Imported[i]
    /\ Imported = <<>> \/ 1 \in Chunks
<1>1. Imported \in Seq((SUBSET Conversations) \ {{}}) BY ImportFinalizeAssumption
<1>2. Len(Imported) \in Nat /\ \A i \in Chunks : Imported[i] \subseteq Conversations
  BY <1>1 DEF Chunks
<1>3. \A i, j \in Chunks : i # j => Imported[i] \cap Imported[j] = {}
  BY ImportFinalizeAssumption DEF Chunks
<1>4. Imported = <<>> \/ 1 \in Chunks BY <1>1, <1>2 DEF Chunks
<1>5. QED BY <1>2, <1>3, <1>4 DEF ImportedIds, Chunks

\* A step that unsettles nothing.
Settles ==
    /\ destroyed \subseteq destroyed' /\ dropped \subseteq dropped'
    /\ \A c \in Conversations : Exists(c) => Exists(c)' \/ c \in destroyed'

LEMMA SettledStays ==
    ASSUME Settles, NEW i \in Chunks, Handled(i)
    PROVE  Handled(i)'
BY ChunkFacts DEF Settles, Handled, Settled

LEMMA ImportStepHolds ==
    ASSUME ImportsInv, Settles, DocsTyped', worker' \in [Workers -> WorkerRecords],
           \A w \in Workers : worker'[w] = worker[w] \/ WorkerOK(w)',
           \A i \in Chunks : (\E c \in Imported[i] : Exists(c)' /\ ~Exists(c)) => Handled(i)',
           finalize' = "finalized" => finalize = "finalized" \/ \A i \in Chunks : Handled(i)
    PROVE  ImportsInv'
<1>1. ASSUME NEW w \in Workers PROVE WorkerOK(w)'
  <2>1. CASE worker'[w] = worker[w]
    <3>1. WorkerOK(w) /\ worker[w] \in WorkerRecords BY DEF ImportsInv
    <3>2. CASE worker[w].at = "create"
      <4>1. /\ worker[w].chunk \in Chunks
            /\ \A c \in worker[w].existing : c \in Conversations /\ (Exists(c) \/ c \in destroyed)
            /\ \A i \in Chunks : i < worker[w].chunk => Handled(i)
        BY <3>1, <3>2 DEF WorkerOK, WorkerRecords
      <4>2. \A c \in worker[w].existing : Exists(c)' \/ c \in destroyed' BY <4>1 DEF Settles
      <4>3. \A i \in Chunks : i < worker[w].chunk => Handled(i)' BY <4>1, SettledStays
      <4>4. QED BY <2>1, <3>2, <4>1, <4>2, <4>3 DEF WorkerOK
    <3>3. CASE worker[w].at = "complete"
      <4>1. \A i \in Chunks : Handled(i)' BY <3>1, <3>3, SettledStays DEF WorkerOK
      <4>2. QED BY <2>1, <3>3, <4>1 DEF WorkerOK
    <3>4. QED BY <2>1, <3>1, <3>2, <3>3 DEF WorkerOK
  <2>2. QED BY <2>1
<1>2. ASSUME NEW i \in Chunks, NEW c \in Imported[i], Exists(c)' PROVE Handled(i)'
  <2>1. CASE Exists(c) BY <2>1, SettledStays DEF ImportsInv
  <2>2. CASE ~Exists(c) BY <1>2, <2>2
  <2>3. QED BY <2>1, <2>2
<1>3. ASSUME finalize' = "finalized", NEW i \in Chunks PROVE Handled(i)'
  <2>1. Handled(i) BY <1>3 DEF ImportsInv
  <2>2. QED BY <2>1, SettledStays
<1>4. QED BY <1>1, <1>2, <1>3 DEF ImportsInv

\* A worker that leaves the documents alone, and goes where nothing is asked of it.
LEMMA QuietHolds ==
    ASSUME ImportsInv, UserStays, dropped' = dropped, worker' \in [Workers -> WorkerRecords],
           \A w \in Workers : worker'[w] = worker[w] \/ WorkerOK(w)',
           finalize' = "finalized" => finalize = "finalized" \/ \A i \in Chunks : Handled(i)
    PROVE  ImportsInv'
<1>1. Settles BY DEF Settles, UserStays, Exists
<1>2. DocsTyped' BY DEF ImportsInv, DocsTyped, UserStays
<1>3. \A i \in Chunks : ~\E c \in Imported[i] : Exists(c)' /\ ~Exists(c) BY DEF UserStays, Exists
<1>4. QED BY <1>1, <1>2, <1>3, ImportStepHolds

LEMMA WorkerFound ==
    ASSUME ImportsInv, NEW w \in Workers
    PROVE  worker[w] \in WorkerRecords /\ worker \in [Workers -> WorkerRecords] /\ WorkerOK(w)
BY DEF ImportsInv

LEMMA IdleTyped == IdleWorker \in WorkerRecords /\ IdleWorker.at = "idle"
BY DEF IdleWorker, WorkerRecords

\* A worker that gets a message, fails, or is through with it.
LEMMA RestHolds ==
    ASSUME ImportsInv, UserStays, dropped' = dropped, NEW w \in Workers, NEW f \in WorkerRecords,
           worker' = [worker EXCEPT ![w] = f], f.at \in {"idle", "lookup", "fail"},
           f.at = "lookup" => f.chunk = 1,
           finalize' = "finalized" => finalize = "finalized" \/ \A i \in Chunks : Handled(i)
    PROVE  ImportsInv'
<1>1. worker \in [Workers -> WorkerRecords] BY WorkerFound
<1>2. /\ worker' \in [Workers -> WorkerRecords] /\ worker'[w] = f
      /\ \A v \in Workers : v # w => worker'[v] = worker[v]
  BY <1>1
<1>3. WorkerOK(w)' BY <1>2 DEF WorkerOK
<1>4. QED BY <1>2, <1>3, QuietHolds

LEMMA FailingTyped ==
    ASSUME ImportsInv, NEW w \in Workers, GotoWorker(w, "fail")
    PROVE  \E f \in WorkerRecords : worker' = [worker EXCEPT ![w] = f] /\ f.at = "fail"
<1>1. worker[w] \in WorkerRecords /\ worker \in [Workers -> WorkerRecords] BY WorkerFound
<1>2. PICK f : f = [worker[w] EXCEPT !.at = "fail"] OBVIOUS
<1>3. f \in WorkerRecords /\ f.at = "fail" BY <1>1, <1>2 DEF WorkerRecords
<1>4. worker' = [worker EXCEPT ![w] = f] BY <1>1, <1>2 DEF GotoWorker
<1>5. QED BY <1>3, <1>4

\* The steps of the request and of the queue, and a worker's death.
LEMMA QueueHolds ==
    ASSUME ImportsInv,
           \/ \E m \in Messages : claimFinalize(m) \/ SendMessage(m) \/ Reappear(m)
           \/ \E w \in Workers : WorkerDies(w) \/ \E m \in Messages : Receive(w, m)
    PROVE  ImportsInv'
<1>1. ASSUME NEW m \in Messages, claimFinalize(m) \/ SendMessage(m) \/ Reappear(m)
      PROVE  ImportsInv'
  <2>1. /\ UserStays /\ dropped' = dropped /\ worker' = worker
        /\ finalize' = "finalized" => finalize = "finalized"
    BY <1>1 DEF claimFinalize, SendMessage, Reappear
  <2>2. worker' \in [Workers -> WorkerRecords] BY <2>1 DEF ImportsInv
  <2>3. QED BY <2>1, <2>2, QuietHolds
<1>2. ASSUME NEW w \in Workers, WorkerDies(w) PROVE ImportsInv'
  <2>1. /\ UserStays /\ dropped' = dropped /\ finalize' = finalize
        /\ worker' = [worker EXCEPT ![w] = IdleWorker]
    BY <1>2 DEF WorkerDies
  <2>2. QED BY <2>1, IdleTyped, RestHolds
<1>3. ASSUME NEW w \in Workers, NEW m \in Messages, Receive(w, m) PROVE ImportsInv'
  <2>1. PICK f : f = [IdleWorker EXCEPT !.at = "lookup", !.message = m] OBVIOUS
  <2>2. f \in WorkerRecords /\ f.at = "lookup" /\ f.chunk = 1
    <3>1. IdleWorker \in WorkerRecords /\ IdleWorker.chunk = 1 BY IdleTyped DEF IdleWorker
    <3>2. QED BY <2>1, <3>1 DEF WorkerRecords
  <2>3. /\ UserStays /\ dropped' = dropped /\ finalize' = finalize
        /\ worker' = [worker EXCEPT ![w] = f]
    BY <1>3, <2>1 DEF Receive
  <2>4. QED BY <2>2, <2>3, RestHolds
<1>4. QED BY <1>1, <1>2, <1>3

LEMMA LookupHolds ==
    ASSUME ImportsInv, NEW w \in Workers, Lookup(w)
    PROVE  ImportsInv'
<1>1. /\ worker[w] \in WorkerRecords /\ worker \in [Workers -> WorkerRecords]
      /\ UserStays /\ dropped' = dropped /\ finalize' = finalize
  BY WorkerFound DEF Lookup
<1>2. CASE Throw(w)
  <2>1. PICK f \in WorkerRecords : worker' = [worker EXCEPT ![w] = f] /\ f.at = "fail"
    BY <1>2, FailingTyped DEF Throw
  <2>2. QED BY <1>1, <2>1, RestHolds
<1>3. CASE worker' = [worker EXCEPT ![w].at = IF Imported = <<>> THEN "complete" ELSE "create",
                                    ![w].existing = {c \in ImportedIds : Exists(c)}]
  <2>1. PICK step : step = IF Imported = <<>> THEN "complete" ELSE "create" OBVIOUS
  <2>2. PICK stored : stored = {c \in ImportedIds : Exists(c)} OBVIOUS
  <2>3. PICK f : f = [worker[w] EXCEPT !.at = step, !.existing = stored] OBVIOUS
  <2>4. step \in {"complete", "create"} /\ (step = "create" <=> Imported # <<>>) BY <2>1
  <2>5. stored \in SUBSET Conversations BY <2>2, ChunkFacts
  <2>6. /\ f \in WorkerRecords /\ f.at = step /\ f.existing = stored /\ f.chunk = worker[w].chunk
    BY <1>1, <2>3, <2>4, <2>5 DEF WorkerRecords
  <2>7. worker' = [worker EXCEPT ![w] = f] BY <1>1, <1>3, <2>1, <2>2, <2>3
  <2>8. /\ worker' \in [Workers -> WorkerRecords] /\ worker'[w] = f
        /\ \A v \in Workers : v # w => worker'[v] = worker[v]
    BY <1>1, <2>6, <2>7
  <2>9. worker[w].chunk = 1 BY WorkerFound DEF Lookup, WorkerAt, WorkerOK
  <2>10. \A c \in stored : Exists(c)' BY <1>1, <2>2 DEF UserStays, Exists
  <2>11. CASE step = "create"
    <3>1. 1 \in Chunks BY <2>4, <2>11, ChunkFacts
    <3>2. \A i \in Chunks : ~(i < 1) BY ChunkFacts DEF Chunks
    <3>3. WorkerOK(w)' BY <2>6, <2>8, <2>9, <2>10, <2>11, <3>1, <3>2 DEF WorkerOK
    <3>4. QED BY <1>1, <2>8, <3>3, QuietHolds
  <2>12. CASE step = "complete"
    <3>1. Chunks = {} BY <2>4, <2>12 DEF Chunks
    <3>2. WorkerOK(w)' BY <2>6, <2>8, <2>12, <3>1 DEF WorkerOK
    <3>3. QED BY <1>1, <2>8, <3>2, QuietHolds
  <2>13. QED BY <2>4, <2>11, <2>12
<1>4. QED BY <1>2, <1>3 DEF Lookup

\* A chunk's transaction stores what is new, and nothing else moves.
LEMMA StoreFacts ==
    ASSUME DocsTyped, NEW new, new \subseteq Conversations, createMany(new)
    PROVE  /\ DocsTyped' /\ destroyed' = destroyed
           /\ \A c \in Conversations : c \notin new => docs'[c] = docs[c]
           /\ \A c \in Conversations : c \in new => Exists(c)' /\ ~Exists(c)
<1>1. Write(new, "active") /\ destroyed' = destroyed /\ \A c \in new : ~Exists(c)
  BY DEF createMany
<1>2. /\ DocsTyped' /\ \A c \in Conversations : c \notin new => docs'[c] = docs[c]
      /\ \A c \in Conversations : c \in new => docs'[c].state = "active"
  BY <1>1, WriteTyped
<1>3. QED BY <1>1, <1>2 DEF Exists

\* The worker after its chunk.
LEMMA AfterChunkTyped ==
    ASSUME ImportsInv, NEW w \in Workers, NEW created \in {0, 1}, AfterChunk(w, created)
    PROVE  \E f \in WorkerRecords :
               /\ worker' = [worker EXCEPT ![w] = f]
               /\ f.existing = worker[w].existing /\ f.chunk = worker[w].chunk + 1
               /\ f.at \in {"create", "complete", "fail"}
               /\ f.at = "create" => worker[w].chunk < Len(Imported)
               /\ f.at = "complete" => ~(worker[w].chunk < Len(Imported))
<1>1. worker[w] \in WorkerRecords /\ worker \in [Workers -> WorkerRecords] BY WorkerFound
<1>2. PICK step : step = (IF worker[w].chunk < Len(Imported) THEN "create"
                          ELSE IF worker[w].created + created = 0 THEN "fail" ELSE "complete")
  OBVIOUS
<1>3. /\ step \in {"create", "complete", "fail"}
      /\ step = "create" => worker[w].chunk < Len(Imported)
      /\ step = "complete" => ~(worker[w].chunk < Len(Imported))
  BY <1>2
<1>4. PICK chunk \in Nat : chunk = worker[w].chunk + 1 BY <1>1 DEF WorkerRecords
<1>5. PICK n \in Nat : n = worker[w].created + created BY <1>1 DEF WorkerRecords
<1>6. PICK f : f = [worker[w] EXCEPT !.chunk = chunk, !.created = n, !.at = step] OBVIOUS
<1>7. f \in WorkerRecords /\ f.at = step /\ f.chunk = chunk /\ f.existing = worker[w].existing
  BY <1>1, <1>3, <1>6 DEF WorkerRecords
<1>8. worker' = [worker EXCEPT ![w].chunk = @ + 1, ![w].created = @ + created, ![w].at = step]
  BY <1>2 DEF AfterChunk
<1>9. worker' = [worker EXCEPT ![w] = f] BY <1>1, <1>4, <1>5, <1>6, <1>8
<1>10. QED BY <1>3, <1>4, <1>7, <1>9

\* A worker whose chunk is handled goes on to the next.
LEMMA ChunkDone ==
    ASSUME ImportsInv, NEW w \in Workers, WorkerAt(w, "create"), NEW created \in {0, 1},
           NEW k \in Chunks, k = worker[w].chunk, AfterChunk(w, created), DocsTyped', Settles, finalize' = finalize,
           \A c \in Conversations : Exists(c)' /\ ~Exists(c) => c \in Imported[k], Handled(k)'
    PROVE  ImportsInv'
<1>1. PICK f \in WorkerRecords :
          /\ worker' = [worker EXCEPT ![w] = f]
          /\ f.existing = worker[w].existing /\ f.chunk = worker[w].chunk + 1
          /\ f.at \in {"create", "complete", "fail"}
          /\ f.at = "create" => worker[w].chunk < Len(Imported)
          /\ f.at = "complete" => ~(worker[w].chunk < Len(Imported))
  BY AfterChunkTyped
<1>2. /\ worker[w] \in WorkerRecords /\ worker \in [Workers -> WorkerRecords]
      /\ worker[w].chunk \in Chunks
      /\ \A c \in worker[w].existing : c \in Conversations /\ (Exists(c) \/ c \in destroyed)
      /\ \A i \in Chunks : i < worker[w].chunk => Handled(i)
  BY WorkerFound DEF WorkerOK, WorkerAt, WorkerRecords
<1>3. /\ worker' \in [Workers -> WorkerRecords] /\ worker'[w] = f
      /\ \A v \in Workers : v # w => worker'[v] = worker[v]
  BY <1>1, <1>2
<1>4. \A c \in f.existing : Exists(c)' \/ c \in destroyed' BY <1>1, <1>2 DEF Settles
<1>5. ASSUME NEW i \in Chunks, i <= k PROVE Handled(i)'
  <2>1. i \in Nat /\ k \in Nat BY DEF Chunks
  <2>2. CASE i = k BY <2>2
  <2>3. CASE i < k BY <1>2, <2>3, SettledStays
  <2>4. QED BY <1>5, <2>1, <2>2, <2>3
<1>6. WorkerOK(w)'
  <2>1. k \in Nat /\ Len(Imported) \in Nat BY ChunkFacts DEF Chunks
  <2>2. CASE f.at = "create"
    <3>1. f.chunk \in Chunks BY <1>1, <2>1, <2>2 DEF Chunks
    <3>2. \A i \in Chunks : i < f.chunk => i <= k BY <1>1, <2>1 DEF Chunks
    <3>3. QED BY <1>3, <1>4, <1>5, <2>2, <3>1, <3>2 DEF WorkerOK
  <2>3. CASE f.at = "complete"
    <3>1. \A i \in Chunks : i <= k BY <1>1, <2>1, <2>3 DEF Chunks
    <3>2. QED BY <1>3, <1>5, <2>3, <3>1 DEF WorkerOK
  <2>4. CASE f.at = "fail" BY <1>3, <2>4 DEF WorkerOK
  <2>5. QED BY <1>1, <2>2, <2>3, <2>4
<1>7. ASSUME NEW i \in Chunks, NEW c \in Imported[i], Exists(c)', ~Exists(c) PROVE Handled(i)'
  <2>1. c \in Conversations BY ChunkFacts
  <2>2. c \in Imported[k] BY <1>7, <2>1
  <2>3. i = k BY <1>7, <2>2, ChunkFacts
  <2>4. QED BY <2>3
<1>8. \A i \in Chunks : (\E c \in Imported[i] : Exists(c)' /\ ~Exists(c)) => Handled(i)' BY <1>7
<1>9. \A v \in Workers : worker'[v] = worker[v] \/ WorkerOK(v)' BY <1>3, <1>6
<1>10. QED BY <1>3, <1>8, <1>9, ImportStepHolds

LEMMA ChunkHolds ==
    ASSUME ImportsInv, NEW w \in Workers, CreateChunk(w)
    PROVE  ImportsInv'
<1>k. PICK k \in Chunks : k = worker[w].chunk
  BY WorkerFound DEF CreateChunk, WorkerOK, WorkerAt
<1>n. PICK new : new = Imported[k] \ worker[w].existing OBVIOUS
<1>1. /\ WorkerAt(w, "create") /\ UNCHANGED <<finalize, message, unsent>>
      /\ \/ new = {} /\ AfterChunk(w, 1) /\ dropped' = dropped /\ UserStays
         \/ \E created \in {0, 1} : createMany(new) /\ AfterChunk(w, created) /\ dropped' = dropped
         \/ (\E c \in new : Exists(c)) /\ AfterChunk(w, 0) /\ dropped' = dropped /\ UserStays
         \/ dropped' = dropped \cup new /\ AfterChunk(w, 0) /\ UserStays
  BY <1>k, <1>n DEF CreateChunk
<1>2. /\ Imported[k] \subseteq Conversations /\ DocsTyped
      /\ \A c \in worker[w].existing : Exists(c) \/ c \in destroyed
      /\ (\E c \in Imported[k] : Exists(c)) => Handled(k)
  BY <1>k, <1>1, WorkerFound, ChunkFacts DEF WorkerOK, WorkerAt, ImportsInv
<1>3. ASSUME UserStays, dropped \subseteq dropped'
      PROVE  /\ Settles /\ DocsTyped'
             /\ \A c \in Conversations : ~(Exists(c)' /\ ~Exists(c))
  BY <1>2, <1>3 DEF UserStays, Settles, DocsTyped, Exists
<1>4. CASE new = {} /\ AfterChunk(w, 1) /\ dropped' = dropped /\ UserStays
  <2>1. Handled(k) BY <1>2, <1>4, <1>n DEF Handled, Settled
  <2>2. Settles /\ DocsTyped' /\ \A c \in Conversations : ~(Exists(c)' /\ ~Exists(c)) BY <1>3, <1>4
  <2>3. Handled(k)' BY <1>2, <2>1, <2>2, SettledStays
  <2>4. QED BY <1>k, <1>1, <1>4, <2>2, <2>3, ChunkDone
<1>5. ASSUME NEW created \in {0, 1}, createMany(new), AfterChunk(w, created), dropped' = dropped
      PROVE  ImportsInv'
  <2>1. /\ DocsTyped' /\ destroyed' = destroyed
        /\ \A c \in Conversations : c \notin new => docs'[c] = docs[c]
        /\ \A c \in Conversations : c \in new => Exists(c)' /\ ~Exists(c)
    BY <1>2, <1>5, <1>n, StoreFacts
  <2>2. Settles BY <1>5, <2>1 DEF Settles, Exists
  <2>3. Handled(k)'
    <3>1. \A c \in Imported[k] : c \in new \/ c \in worker[w].existing BY <1>n
    <3>2. \A c \in Imported[k] : c \in Conversations BY <1>2
    <3>3. \A c \in worker[w].existing : c \in Conversations => Exists(c)' \/ c \in destroyed'
      BY <1>2, <2>2 DEF Settles
    <3>4. QED BY <2>1, <3>1, <3>2, <3>3 DEF Handled, Settled
  <2>4. \A c \in Conversations : Exists(c)' /\ ~Exists(c) => c \in Imported[k]
    BY <1>n, <2>1 DEF Exists
  <2>5. QED BY <1>k, <1>1, <1>5, <2>1, <2>2, <2>3, <2>4, ChunkDone
<1>6. CASE (\E c \in new : Exists(c)) /\ AfterChunk(w, 0) /\ dropped' = dropped /\ UserStays
  <2>1. Handled(k) BY <1>2, <1>6, <1>n
  <2>2. Settles /\ DocsTyped' /\ \A c \in Conversations : ~(Exists(c)' /\ ~Exists(c)) BY <1>3, <1>6
  <2>3. Handled(k)' BY <1>2, <2>1, <2>2, SettledStays
  <2>4. QED BY <1>k, <1>1, <1>6, <2>2, <2>3, ChunkDone
<1>7. CASE dropped' = dropped \cup new /\ AfterChunk(w, 0) /\ UserStays
  <2>1. dropped \subseteq dropped' BY <1>7
  <2>2. Settles /\ DocsTyped' /\ \A c \in Conversations : ~(Exists(c)' /\ ~Exists(c))
    BY <1>3, <1>7, <2>1
  <2>3. Handled(k)'
    <3>1. \A c \in Imported[k] : c \in new \/ c \in worker[w].existing BY <1>n
    <3>2. \A c \in Imported[k] : c \in Conversations BY <1>2
    <3>3. \A c \in worker[w].existing : c \in Conversations => Exists(c)' \/ c \in destroyed'
      BY <1>2, <2>2 DEF Settles
    <3>4. QED BY <1>7, <3>1, <3>2, <3>3 DEF Handled, Settled
  <2>4. QED BY <1>k, <1>1, <1>7, <2>2, <2>3, ChunkDone
<1>8. QED BY <1>1, <1>4, <1>5, <1>6, <1>7

LEMMA CompleteHolds ==
    ASSUME ImportsInv, NEW w \in Workers, CompleteFinalize(w)
    PROVE  ImportsInv'
<1>1. /\ UserStays /\ dropped' = dropped /\ \A i \in Chunks : Handled(i)
  BY WorkerFound DEF CompleteFinalize, ReadyToComplete, WorkerAt, WorkerOK
<1>2. CASE worker' = [worker EXCEPT ![w] = IdleWorker]
  BY <1>1, <1>2, IdleTyped, RestHolds
<1>3. CASE Throw(w)
  <2>1. PICK f \in WorkerRecords : worker' = [worker EXCEPT ![w] = f] /\ f.at = "fail"
    BY <1>3, FailingTyped DEF Throw
  <2>2. QED BY <1>1, <2>1, RestHolds
<1>4. QED BY <1>2, <1>3 DEF CompleteFinalize

LEMMA FailHolds ==
    ASSUME ImportsInv, NEW w \in Workers, FailFinalize(w)
    PROVE  ImportsInv'
<1>1. /\ UserStays /\ dropped' = dropped /\ worker' = [worker EXCEPT ![w] = IdleWorker]
      /\ finalize' = "finalized" => finalize = "finalized"
  BY DEF FailFinalize, ReportFailure
<1>2. QED BY <1>1, IdleTyped, RestHolds

LEMMA ImportNextHolds ==
    ASSUME ImportsInv, ImportNext
    PROVE  ImportsInv'
<1>1. ASSUME NEW w \in Workers, WorkerStep(w) PROVE ImportsInv'
  BY <1>1, LookupHolds, ChunkHolds, CompleteHolds, FailHolds DEF WorkerStep
<1>2. QED BY <1>1, QueueHolds DEF ImportNext

\* An import's step is nothing to the exports: what it stores was not there.
LEMMA ImportLeavesExports ==
    ASSUME ExportsInv, ImportsInv, ImportNext, UNCHANGED exportVars
    PROVE  ExportsInv'
<1>1. /\ export \in [Exports -> ExportRecords]
      /\ UNCHANGED <<export, jobs, zips, cleaning, severed, halfCleaned, overlapped>>
      /\ \A x \in Exports : export[x].steady \subseteq Conversations
  BY DEF exportVars, ExportsInv, ExportsTyped, ExportRecords
<1>2. DocsTyped BY DEF ExportsInv
<1>3. DocsTyped' /\ \A c \in Conversations : Active(c) => docs'[c] = docs[c]
  <2>1. CASE UserStays BY <1>2, <2>1 DEF UserStays, DocsTyped
  <2>2. ASSUME NEW w \in Workers, CreateChunk(w), ~UserStays
        PROVE  DocsTyped' /\ \A c \in Conversations : Active(c) => docs'[c] = docs[c]
    <3> DEFINE new == Imported[worker[w].chunk] \ worker[w].existing
    <3>1. createMany(new) /\ WorkerAt(w, "create") BY <2>2 DEF CreateChunk
    <3>2. worker[w].chunk \in Chunks BY <3>1, WorkerFound DEF WorkerOK, WorkerAt
    <3>3. new \subseteq Conversations BY <3>2, ChunkFacts
    <3> HIDE DEF new
    <3>4. /\ DocsTyped' /\ \A c \in Conversations : c \notin new => docs'[c] = docs[c]
          /\ \A c \in Conversations : c \in new => ~Exists(c)
      BY <1>2, <3>1, <3>3, StoreFacts
    <3>5. QED BY <3>4 DEF Active, Exists
  <2>3. UserStays \/ \E w \in Workers : CreateChunk(w)
    BY DEF ImportNext, claimFinalize, SendMessage, Reappear, WorkerDies, Receive,
           WorkerStep, Lookup, CompleteFinalize, FailFinalize
  <2>4. QED BY <2>1, <2>2, <2>3
<1>4. QED BY <1>1, <1>3, DocsMoveHolds

\* Nor is an export's step anything to the imports.
LEMMA ExportLeavesImports ==
    ASSUME ImportsInv, ExportNext, UNCHANGED importVars
    PROVE  ImportsInv'
<1>1. UserStays
  BY DEF ExportNext, TaskStep, CleanStep, StartExport, CreateJob, MarkProcessing, Load, UploadZip,
         FinishExport, SendMail, CatchExport, CrashServer, FindExpired, CleanObject, CleanRow,
         DocsStay, UserStays
<1>2. /\ finalize' = finalize /\ worker' = worker /\ dropped' = dropped
      /\ worker \in [Workers -> WorkerRecords]
  BY DEF importVars, ImportsInv
<1>3. QED BY <1>1, <1>2, QuietHolds

LEMMA EditLeavesImports ==
    ASSUME ImportsInv, NEW c \in Conversations, EditConversation(c)
    PROVE  ImportsInv'
<1>1. UserEdits(c) /\ DocsTyped /\ worker \in [Workers -> WorkerRecords]
  BY DEF EditConversation, ImportsInv
<1>2. finalize' = finalize /\ worker' = worker /\ dropped' = dropped
  BY DEF EditConversation, importVars
<1>3. /\ DocsTyped' /\ \A d \in Conversations : d # c => docs'[d] = docs[d]
      /\ destroyed \subseteq destroyed' /\ Exists(c) /\ (Exists(c)' \/ c \in destroyed')
  BY <1>1, EditTyped
<1>4. Settles BY <1>2, <1>3 DEF Settles, Exists
<1>5. \A i \in Chunks : ~\E d \in Imported[i] : Exists(d)' /\ ~Exists(d)
  BY <1>3, ChunkFacts DEF Exists
<1>6. QED BY <1>1, <1>2, <1>3, <1>4, <1>5, ImportStepHolds

-----------------------------------------------------------------------------
(* The theorems.                                                           *)

TransfersInv == ExportsInv /\ ImportsInv

LEMMA InvInit ==
    ASSUME IsFiniteSet(Conversations), Init
    PROVE  TransfersInv
<1>1. PICK plan \in Plans :
          /\ InitDocs(Conversations \ ImportedIds, plan.edits, plan.faults)
          /\ InitExport(plan.exports) /\ InitImport(plan.messages, plan.workers)
  BY DEF Init
<1>2. /\ docs = [c \in Conversations |-> IF c \in Conversations \ ImportedIds
                                         THEN [state |-> "active", updatedAt |-> c] ELSE NoDoc]
      /\ clock = Cardinality(Conversations) + 1
  BY <1>1 DEF InitDocs
<1>3. DocsTyped
  <2>1. NoDoc \in [state : {"none", "active", "trashed"}, updatedAt : Nat] BY DEF NoDoc
  <2>2. \A c \in Conversations : c \in Nat BY ConversationDocsAssumption
  <2>3. \A c \in Conversations : [state |-> "active", updatedAt |-> c]
                                    \in [state : {"none", "active", "trashed"}, updatedAt : Nat]
    BY <2>2
  <2>4. Cardinality(Conversations) \in Nat BY FS_CardinalityType
  <2>5. QED BY <1>2, <2>1, <2>3, <2>4 DEF DocsTyped
<1>4. ExportsInv
  <2>1. /\ export = [x \in Exports |-> [at |-> IF x \in plan.exports THEN "new" ELSE "over",
                                        scope |-> All, cursor |-> 0, got |-> {}, steady |-> {}]]
        /\ jobs = [x \in Exports |-> NoJob] /\ cleaning = [x \in Exports |-> "no"]
    BY <1>1 DEF InitExport
  <2>2. ASSUME NEW x \in Exports
        PROVE  /\ export[x] \in ExportRecords /\ export[x].at \in {"new", "over"}
               /\ export[x].cursor = 0 /\ jobs[x] \in JobRecords /\ jobs[x].status = "none"
    <3>1. PICK step \in {"new", "over"} : step = IF x \in plan.exports THEN "new" ELSE "over"
      <4>1. CASE x \in plan.exports BY <4>1
      <4>2. CASE x \notin plan.exports BY <4>2
      <4>3. QED BY <4>1, <4>2
    <3>2. export[x] = [at |-> step, scope |-> All, cursor |-> 0, got |-> {}, steady |-> {}]
      BY <2>1, <3>1
    <3>3. jobs[x] = NoJob BY <2>1
    <3>4. QED BY <3>2, <3>3 DEF ExportRecords, ExportSteps, JobRecords, NoJob
  <2>3. ExportsTyped BY <2>1, <2>2 DEF ExportsTyped
  <2>4. \A x \in Exports : JobOK(x) /\ PagesOK(x) BY <2>1, <2>2 DEF JobOK, PagesOK, Downloadable, ExportActive
  <2>5. \A x \in Exports : ~Claims(x) BY <2>2 DEF Claims, ExportActive
  <2>6. QED BY <1>3, <2>3, <2>4, <2>5 DEF ExportsInv, ClaimsOK
<1>5. ImportsInv
  <2>1. /\ finalize = "none"
        /\ worker = [w \in Workers |-> [IdleWorker EXCEPT !.at = IF w \in plan.workers THEN "idle" ELSE "off"]]
    BY <1>1 DEF InitImport
  <2>2. ASSUME NEW w \in Workers
        PROVE  worker[w] \in WorkerRecords /\ worker[w].at \in {"idle", "off"}
    <3>1. PICK step \in {"idle", "off"} : step = IF w \in plan.workers THEN "idle" ELSE "off"
      <4>1. CASE w \in plan.workers BY <4>1
      <4>2. CASE w \notin plan.workers BY <4>2
      <4>3. QED BY <4>1, <4>2
    <3>2. worker[w] = [IdleWorker EXCEPT !.at = step] BY <2>1, <3>1
    <3>3. QED BY <3>2, IdleTyped DEF WorkerRecords
  <2>3. worker \in [Workers -> WorkerRecords] BY <2>1, <2>2
  <2>4. \A w \in Workers : WorkerOK(w) BY <2>2 DEF WorkerOK
  <2>5. \A c \in ImportedIds : ~Exists(c) BY <1>2, ChunkFacts DEF Exists, NoDoc
  <2>6. \A i \in Chunks : ~\E c \in Imported[i] : Exists(c) BY <2>5, ChunkFacts
  <2>7. QED BY <1>3, <2>1, <2>3, <2>4, <2>6 DEF ImportsInv
<1>6. QED BY <1>4, <1>5 DEF TransfersInv

LEMMA InvStep ==
    ASSUME IsFiniteSet(Conversations), TransfersInv, [Next]_vars
    PROVE  TransfersInv'
<1>1. CASE ExportNext /\ UNCHANGED importVars
  BY <1>1, ExportNextHolds, ExportLeavesImports DEF TransfersInv
<1>2. CASE ImportNext /\ UNCHANGED exportVars
  BY <1>2, ImportNextHolds, ImportLeavesExports DEF TransfersInv
<1>3. ASSUME NEW c \in Conversations, EditConversation(c) PROVE TransfersInv'
  BY <1>3, EditHolds, EditLeavesImports DEF TransfersInv
<1>4. CASE UNCHANGED vars
  <2>1. UNCHANGED <<docsVars, exportVars, importVars>> BY <1>4 DEF vars
  <2>2. /\ UNCHANGED <<docs, clock, edits, destroyed>>
        /\ UNCHANGED <<export, jobs, zips, cleaning, severed, halfCleaned, overlapped>>
        /\ UNCHANGED <<finalize, worker, dropped>>
    BY <2>1 DEF docsVars, exportVars, importVars
  <2>3. ExportsInv'
    <3>1. DocsTyped' BY <2>2 DEF TransfersInv, ExportsInv, DocsTyped
    <3>2. export' \in [Exports -> ExportRecords] BY <2>2 DEF TransfersInv, ExportsInv, ExportsTyped
    <3>3. QED BY <2>2, <3>1, <3>2, DocsMoveHolds DEF TransfersInv
  <2>4. ImportsInv'
    <3>1. UserStays BY <2>2 DEF UserStays
    <3>2. worker' \in [Workers -> WorkerRecords] BY <2>2 DEF TransfersInv, ImportsInv
    <3>3. QED BY <2>2, <3>1, <3>2, QuietHolds DEF TransfersInv
  <2>5. QED BY <2>3, <2>4 DEF TransfersInv
<1>5. QED BY <1>1, <1>2, <1>3, <1>4 DEF Next

\* What every state of the transfers satisfies.
LEMMA TransfersSafe ==
    ASSUME IsFiniteSet(Conversations)
    PROVE  Spec => []TransfersInv
<1>1. Init => TransfersInv BY InvInit
<1>2. TransfersInv /\ [Next]_vars => TransfersInv' BY InvStep
<1>3. QED BY <1>1, <1>2, PTL DEF Spec

\* For any number of conversations of any ages, any page size and any edits meanwhile,
\* an export of everything has each conversation that was there and left alone, or one of
\* its very time in its stead (listByOwner's cursor is a time only).
THEOREM ExportsComplete ==
    ASSUME IsFiniteSet(Conversations)
    PROVE  Spec => []ExportMissesOnlyTies
<1>1. TransfersInv => ExportMissesOnlyTies
  <2> SUFFICES ASSUME TransfersInv, NEW x \in Exports, ExportAt(x, "upload"), export[x].scope = All,
                      NEW c \in export[x].steady
               PROVE  \E d \in Conversations : <<d, docs[c].updatedAt>> \in export[x].got
    BY DEF ExportMissesOnlyTies
  <2>1. PagesOK(x) BY DEF TransfersInv, ExportsInv
  <2>2. Has(x, c) BY <2>1 DEF PagesOK, ExportAt
  <2>3. QED BY <2>2 DEF Has
<1>2. Spec => []TransfersInv BY TransfersSafe
<1>3. QED BY <1>1, <1>2, PTL

\* Whatever fails or dies, two exports of one scope are under way only if neither saw
\* the other's row (startExport checks and then creates); a job that can be downloaded
\* has its ZIP until the cleanup takes it, and is without it only between the cleanup's
\* two steps or after a cleanup that failed with the ZIP gone; and a job is active only
\* while its task runs, unless its process died, its catch handler failed, or its request
\* failed with the row stored.
THEOREM ExportsStandFirm ==
    ASSUME IsFiniteSet(Conversations)
    PROVE  Spec => []ExportsStand
<1>1. TransfersInv => ExportsStand
  <2> SUFFICES ASSUME TransfersInv PROVE SecondExportOnlyByRace /\ DownloadsHaveZip /\ ActiveJobsHaveTasks
    BY DEF ExportsStand
  <2>1. SecondExportOnlyByRace BY DEF TransfersInv, ExportsInv, ClaimsOK, Claims, SecondExportOnlyByRace
  <2>2. DownloadsHaveZip BY DEF TransfersInv, ExportsInv, JobOK, DownloadsHaveZip
  <2>3. ActiveJobsHaveTasks BY DEF TransfersInv, ExportsInv, JobOK, ExportAt, ActiveJobsHaveTasks
  <2>4. QED BY <2>1, <2>2, <2>3
<1>2. Spec => []TransfersInv BY TransfersSafe
<1>3. QED BY <1>1, <1>2, PTL

\* For any archive, any number of workers and any redelivery, a finalized import has every
\* conversation that no failed chunk and no user took away (ImportFinalizeProcessor).
THEOREM ImportsComplete ==
    ASSUME IsFiniteSet(Conversations)
    PROVE  Spec => []FinalizedHasAll
<1>1. TransfersInv => FinalizedHasAll
  <2> SUFFICES ASSUME ImportsInv, finalize = "finalized", NEW c \in ImportedIds
               PROVE  Exists(c) \/ c \in destroyed \/ c \in dropped
    BY DEF FinalizedHasAll, TransfersInv
  <2>1. PICK i \in Chunks : c \in Imported[i] BY ChunkFacts
  <2>2. Handled(i) BY DEF ImportsInv
  <2>3. QED BY <2>1, <2>2 DEF Handled, Settled
<1>2. Spec => []TransfersInv BY TransfersSafe
<1>3. QED BY <1>1, <1>2, PTL

-----------------------------------------------------------------------------
(* What a write makes of a collection (Sync): what it does not touch stays *)
(* as it was, and what is live after it has its stamp.                     *)

HasFields(d) == {"place", "updatedAt", "deletedAt", "edit"} \subseteq DOMAIN d
DocOK(d) == d # NULL => HasFields(d) /\ d.updatedAt \in Nat \ {0} /\ d.edit \in Nat
DocsOK(C) == \A i \in DOMAIN C : DocOK(C[i])
IsLive(d) == d # NULL /\ d.deletedAt = NULL

Stamped(C, D, ids, t) ==
    /\ DOMAIN D = DOMAIN C /\ DocsOK(D)
    /\ \A i \in DOMAIN C \ ids : D[i] = C[i]
    /\ \A i \in DOMAIN C \cap ids : IsLive(D[i]) => D[i].updatedAt = t

LEMMA StampedLess ==
    ASSUME NEW C, NEW D, NEW ids, NEW less, NEW t, Stamped(C, D, ids, t),
           \A i \in DOMAIN C \cap (ids \ less) : D[i] = C[i],
           \A i \in DOMAIN C \cap (less \ ids) : ~IsLive(D[i])
    PROVE  Stamped(C, D, less, t)
BY DEF Stamped

LEMMA StampedNone == ASSUME NEW C, NEW t, DocsOK(C) PROVE Stamped(C, C, {}, t)
BY DEF Stamped

\* A merged document.
LEMMA MergedIs ==
    ASSUME NEW doc, NEW updates, NEW t \in Nat \ {0}, DocOK(doc), doc # NULL,
           "edit" \in DOMAIN updates => updates["edit"] \in Nat
    PROVE  /\ HasFields(Repo!Merged(doc, updates, t)) /\ Repo!Merged(doc, updates, t).updatedAt = t
           /\ Repo!Merged(doc, updates, t).edit \in Nat
           /\ "place" \notin DOMAIN updates => Repo!Merged(doc, updates, t).place = doc.place
           /\ "place" \in DOMAIN updates => Repo!Merged(doc, updates, t).place = updates["place"]
BY DEF Repo!Merged, DocOK, HasFields

LEMMA SetAllStamps ==
    ASSUME NEW C, NEW ids, NEW updates, NEW t \in Nat \ {0}, DocsOK(C),
           "edit" \in DOMAIN updates => updates["edit"] \in Nat
    PROVE  Stamped(C, Repo!SetAll(C, ids, updates, t), ids, t)
<1>1. \A i \in DOMAIN C : C[i] # NULL => DocOK(Repo!Merged(C[i], updates, t))
  BY MergedIs DEF DocsOK, DocOK
<1>2. \A i \in DOMAIN C : C[i] # NULL => Repo!Merged(C[i], updates, t).updatedAt = t
  BY MergedIs DEF DocsOK
<1>3. QED BY <1>1, <1>2 DEF Stamped, Repo!SetAll, DocsOK, IsLive

LEMMA RemovedStamps ==
    ASSUME NEW C, NEW ids, NEW t, DocsOK(C)
    PROVE  Stamped(C, Repo!Removed(C, ids), ids, t)
BY DEF Stamped, Repo!Removed, DocsOK, DocOK, IsLive

LEMMA InsertedStamps ==
    ASSUME NEW C, NEW ids, NEW doc, NEW t \in Nat \ {0}, DocsOK(C), HasFields(doc), doc.edit \in Nat
    PROVE  Stamped(C, Repo!Inserted(C, ids, doc, t), ids, t)
<1>1. PICK new : new = [doc EXCEPT !.createdAt = t, !.updatedAt = t] OBVIOUS
<1>2. HasFields(new) /\ new.updatedAt = t /\ new.edit \in Nat BY <1>1 DEF HasFields
<1>3. DocOK(new) BY <1>2 DEF DocOK
<1>4. QED BY <1>1, <1>2, <1>3 DEF Stamped, Repo!Inserted, DocsOK

\* The conversations' repositories do the same.
LEMMA SameWrites ==
    /\ \A C, ids, updates, t : Chats!SetAll(C, ids, updates, t) = Repo!SetAll(C, ids, updates, t)
    /\ \A C, ids : Chats!Removed(C, ids) = Repo!Removed(C, ids)
    /\ \A C, ids, doc, t : Chats!Inserted(C, ids, doc, t) = Repo!Inserted(C, ids, doc, t)
BY DEF Chats!SetAll, Repo!SetAll, Chats!Removed, Repo!Removed, Chats!Inserted, Repo!Inserted,
       Chats!Merged, Repo!Merged

-----------------------------------------------------------------------------
(* What is where.                                                          *)

Places == Folders \cup {NULL}

\* What a request has read and was asked for.
CallOK(c) ==
    /\ c.op # "none" => c.stamp \in Nat \ {0} /\ c.edit \in Nat
    /\ c.op \in {"createNotes", "updateNote", "deleteNote", "restoreNote"} => c.ids \subseteq Notes
    /\ c.op \in {"createFolder", "updateFolder", "deleteFolder", "restoreFolder"} =>
          c.ids \subseteq Folders
    /\ c.op \in {"deleteFolder", "restoreFolder"} => c.ids \subseteq c.folders /\ c.folders \subseteq Folders
    /\ c.op = "createConversation" =>
          /\ c.place \in Convs /\ c.place \in c.ids
          /\ c.ids \subseteq {c.place} \cup {m \in Msgs : ConvOf[m] = c.place}
    /\ c.op \in {"updateConversation", "deleteConversation", "restoreConversation"} =>
          c.place \in Convs
    /\ c.op \in {"createMessage", "updateMessage", "deleteMessage", "restoreMessage"} =>
          c.ids \subseteq {m \in Msgs : ConvOf[m] = c.place} /\ c.place \in Convs
    /\ c.op = "push" => c.ids \subseteq Ids

PullType == [kinds : SUBSET Kinds, since : Nat, left : SUBSET {"conv", "msg", "note", "folder"},
             found : [Ids -> Nat \cup {NULL}], serverTime : Nat]
ListType == [of : ListNames \cup {"none"}, place : Places, cursor : Nat, seen : SUBSET Ids,
             cursors : SUBSET Nat, steady : SUBSET Ids, more : BOOLEAN]

InPlace(M) == \A m \in Msgs : M[m] # NULL => M[m].place = ConvOf[m]

StoresOK ==
    /\ DOMAIN note = Notes /\ DOMAIN folder = Folders /\ DOMAIN conv = Convs /\ DOMAIN msg = Msgs
    /\ DocsOK(note) /\ DocsOK(folder) /\ DocsOK(conv) /\ DocsOK(msg)
    /\ InPlace(msg)

CallsOK == made \in Nat /\ DOMAIN call = Writers /\ \A w \in Writers : CallOK(call[w])

ReadersOK ==
    /\ since \in [Devices -> [Kinds -> Nat]] /\ pull \in [Devices -> PullType]
    /\ DOMAIN copy = Devices /\ \A d \in Devices : DOMAIN copy[d] = Ids
    /\ list \in ListType /\ now \in Nat \ {0}

SyncTyped == StoresOK /\ CallsOK /\ ReadersOK

\* The effect of a commit: what was written, and under which stamp.
Wrote(written, t) ==
    /\ t \in Nat \ {0} /\ written \subseteq Ids
    /\ Stamped(note, note', written, t) /\ Stamped(folder, folder', written, t)
    /\ Stamped(conv, conv', written, t) /\ Stamped(msg, msg', written, t)
    /\ InPlace(msg')
    \* A message is written with its conversation, or counts as written alone.
    /\ \A m \in written \cap Msgs : ConvOf[m] \in written \/ m \in alone'
    /\ alone \ written \subseteq alone'

\* What a commit leaves alone.
Commits(w, written) ==
    /\ Wrote(written, call[w].stamp) /\ Recorded(written, call[w].stamp)
    /\ call' = [call EXCEPT ![w] = NoCall]
    /\ UNCHANGED <<now, copy, since, pull, pulls, made, lists>>

\* A request that writes nothing.
Quiet ==
    /\ UNCHANGED <<note, folder, conv, msg, copy, since, pull, list, missed, alone>>

LEMMA DoneIs ==
    ASSUME NEW w \in Writers, NEW written, Done(w, written)
    PROVE  /\ Recorded(written, call[w].stamp) /\ call' = [call EXCEPT ![w] = NoCall]
           /\ UNCHANGED <<now, copy, since, pull, pulls, made, lists>>
BY DEF Done, End, reader

LEMMA RefuseIs ==
    ASSUME NEW w \in Writers, Refuse(w)
    PROVE  /\ Quiet /\ call' = [call EXCEPT ![w] = NoCall]
           /\ UNCHANGED <<now, pulls, made, lists>>
BY DEF Refuse, End, reader, allDocs, Quiet

\* Only one of the collections is written.
LEMMA NotesWrote ==
    ASSUME SyncTyped, NEW ids, NEW t \in Nat \ {0}, ids \subseteq Notes,
           Stamped(note, note', ids, t), UNCHANGED <<folder, conv, msg, alone>>
    PROVE  Wrote(ids, t)
<1>1. /\ DOMAIN folder \cap ids = {} /\ DOMAIN conv \cap ids = {} /\ DOMAIN msg \cap ids = {}
      /\ ids \cap Msgs = {} /\ ids \subseteq Ids
  BY SyncAssumption DEF SyncTyped, StoresOK, Ids
<1>2. /\ Stamped(folder, folder', ids, t) /\ Stamped(conv, conv', ids, t) /\ Stamped(msg, msg', ids, t)
  BY <1>1 DEF Stamped, SyncTyped, StoresOK
<1>3. QED BY <1>1, <1>2 DEF Wrote, SyncTyped, StoresOK

LEMMA FoldersWrote ==
    ASSUME SyncTyped, NEW ids, NEW t \in Nat \ {0}, ids \subseteq Notes \cup Folders,
           Stamped(note, note', ids, t), Stamped(folder, folder', ids, t),
           UNCHANGED <<conv, msg, alone>>
    PROVE  Wrote(ids, t)
<1>1. /\ DOMAIN conv \cap ids = {} /\ DOMAIN msg \cap ids = {}
      /\ ids \cap Msgs = {} /\ ids \subseteq Ids
  BY SyncAssumption DEF SyncTyped, StoresOK, Ids
<1>2. /\ Stamped(conv, conv', ids, t) /\ Stamped(msg, msg', ids, t)
  BY <1>1 DEF Stamped, SyncTyped, StoresOK
<1>3. QED BY <1>1, <1>2 DEF Wrote, SyncTyped, StoresOK

LEMMA ChatsWrote ==
    ASSUME SyncTyped, NEW ids, NEW t \in Nat \ {0}, ids \subseteq Convs \cup Msgs,
           Stamped(conv, conv', ids, t), Stamped(msg, msg', ids, t), InPlace(msg'),
           UNCHANGED <<note, folder>>, alone \ ids \subseteq alone',
           \A m \in ids \cap Msgs : ConvOf[m] \in ids
    PROVE  Wrote(ids, t)
<1>1. /\ DOMAIN note \cap ids = {} /\ DOMAIN folder \cap ids = {} /\ ids \subseteq Ids
  BY SyncAssumption DEF SyncTyped, StoresOK, Ids
<1>2. /\ Stamped(note, note', ids, t) /\ Stamped(folder, folder', ids, t)
  BY <1>1 DEF Stamped, SyncTyped, StoresOK
<1>3. QED BY <1>1, <1>2 DEF Wrote

LEMMA CreateNotesWrites ==
    ASSUME SyncTyped, NEW w \in Writers, CommitCreateNotes(w)
    PROVE  (\E written : Commits(w, written)) \/ Refuse(w)
<1>1. CASE Repo!StoredIds(note, call[w].ids) # {} BY <1>1 DEF CommitCreateNotes
<1>2. CASE Repo!StoredIds(note, call[w].ids) = {}
  <2> DEFINE c == call[w]  doc == [New(c.place, c.edit) EXCEPT !.deletedAt = NULL]
  <2>1. /\ c.op = "createNotes" /\ note' = Repo!Inserted(note, c.ids, doc, c.stamp) /\ Done(w, c.ids)
        /\ UNCHANGED <<folder, conv, msg, alone>>
    BY <1>2 DEF CommitCreateNotes, At, Repo!createNotes
  <2>2. c.ids \subseteq Notes /\ c.stamp \in Nat \ {0} /\ c.edit \in Nat
    BY <2>1 DEF SyncTyped, CallsOK, CallOK
  <2>3. HasFields(doc) /\ doc.edit \in Nat BY <2>2 DEF New, HasFields
  <2>4. Stamped(note, note', c.ids, c.stamp)
    BY <2>1, <2>2, <2>3, InsertedStamps DEF SyncTyped, StoresOK
  <2>5. Wrote(c.ids, c.stamp) BY <2>1, <2>2, <2>4, NotesWrote
  <2>6. QED BY <2>1, <2>5, DoneIs DEF Commits
<1>3. QED BY <1>1, <1>2

LEMMA NoteWrites ==
    ASSUME SyncTyped, NEW w \in Writers, CommitNote(w)
    PROVE  \E written : Commits(w, written)
<1> DEFINE c == call[w]
<1>1. PICK n \in c.ids : /\ note' = NoteAfter(c, n)
                         /\ Done(w, IF note'[n] # note[n] THEN {n} ELSE {})
  BY DEF CommitNote
<1>2. /\ c.op \in {"updateNote", "deleteNote", "restoreNote"} /\ UNCHANGED <<folder, conv, msg, alone>>
  BY DEF CommitNote
<1>3. n \in Notes /\ c.stamp \in Nat \ {0} /\ c.edit \in Nat /\ DocsOK(note) /\ DOMAIN note = Notes
  BY <1>2 DEF SyncTyped, CallsOK, CallOK, StoresOK
<1>4. \E ids \in {{n}, {n} \cap Repo!LiveIds(note), {n} \cap Repo!TrashIds(note)} :
          Stamped(note, note', ids, c.stamp)
  <2>1. CASE c.op = "updateNote"
    <3> DEFINE updates == [place |-> c.place, edit |-> c.edit]
    <3>1. note' = Repo!SetAll(note, {n} \cap Repo!LiveIds(note), updates, c.stamp)
      BY <1>1, <2>1 DEF NoteAfter, Repo!updateNote
    <3>2. QED BY <1>3, <3>1, SetAllStamps
  <2>2. CASE c.op = "deleteNote" /\ c.permanent
    <3>1. note' = Repo!Removed(note, {n}) BY <1>1, <2>2 DEF NoteAfter, Repo!hardDeleteNote
    <3>2. QED BY <1>3, <3>1, RemovedStamps
  <2>3. CASE c.op = "deleteNote" /\ ~c.permanent
    <3>1. note' = Repo!SetAll(note, {n} \cap Repo!LiveIds(note), [deletedAt |-> c.stamp], c.stamp)
      BY <1>1, <2>3 DEF NoteAfter, Repo!softDeleteNote
    <3>2. QED BY <1>3, <3>1, SetAllStamps
  <2>4. CASE c.op = "restoreNote"
    <3> DEFINE updates == [deletedAt |-> NULL, place |-> c.place]
    <3>1. note' = Repo!SetAll(note, {n} \cap Repo!TrashIds(note), updates, c.stamp)
      BY <1>1, <2>4 DEF NoteAfter, Repo!restoreNote
    <3>2. QED BY <1>3, <3>1, SetAllStamps
  <2>5. QED BY <1>2, <2>1, <2>2, <2>3, <2>4
<1>5. PICK ids \in SUBSET {n} : Stamped(note, note', ids, c.stamp) BY <1>4
<1> DEFINE written == IF note'[n] # note[n] THEN {n} ELSE {}
<1>6. Stamped(note, note', written, c.stamp)
  <2>1. note'[n] # note[n] => ids = {n} BY <1>3, <1>5 DEF Stamped
  <2>2. QED BY <1>3, <1>5, <2>1 DEF Stamped
<1>7. Wrote(written, c.stamp) BY <1>2, <1>3, <1>6, NotesWrote
<1>8. QED BY <1>1, <1>7, DoneIs DEF Commits

LEMMA StampedTwice ==
    ASSUME NEW C, NEW D, NEW E, NEW ids, NEW more, NEW t, Stamped(C, D, ids, t), Stamped(D, E, more, t),
           more \subseteq ids
    PROVE  Stamped(C, E, ids, t)
BY DEF Stamped

LEMMA CreateFolderWrites ==
    ASSUME SyncTyped, NEW w \in Writers, CommitCreateFolder(w)
    PROVE  (\E written : Commits(w, written)) \/ Refuse(w)
<1> DEFINE c == call[w]  doc == [New(c.place, c.edit) EXCEPT !.deletedAt = NULL]
<1>1. CASE Repo!StoredIds(folder, c.ids) # {} BY <1>1 DEF CommitCreateFolder
<1>2. CASE Repo!StoredIds(folder, c.ids) = {}
  <2>1. PICK f \in c.ids : folder' = Repo!Inserted(folder, {f}, doc, c.stamp) /\ Done(w, {f})
    BY <1>2 DEF CommitCreateFolder, Repo!createFolder
  <2>2. c.op = "createFolder" /\ UNCHANGED <<note, conv, msg, alone>>
    BY <1>2 DEF CommitCreateFolder, At
  <2>3. c.ids \subseteq Folders /\ c.stamp \in Nat \ {0} /\ c.edit \in Nat
    BY <2>2 DEF SyncTyped, CallsOK, CallOK
  <2>4. HasFields(doc) /\ doc.edit \in Nat BY <2>3 DEF New, HasFields
  <2>5. Stamped(folder, folder', {f}, c.stamp)
    BY <2>1, <2>3, <2>4, InsertedStamps DEF SyncTyped, StoresOK
  <2>6. Stamped(note, note', {f}, c.stamp)
    BY <2>2, <2>3, SyncAssumption DEF Stamped, SyncTyped, StoresOK
  <2>7. Wrote({f}, c.stamp) BY <2>2, <2>3, <2>5, <2>6, FoldersWrote
  <2>8. QED BY <2>1, <2>7, DoneIs DEF Commits
<1>3. QED BY <1>1, <1>2

LEMMA UpdateFolderWrites ==
    ASSUME SyncTyped, NEW w \in Writers, CommitUpdateFolder(w)
    PROVE  \E written : Commits(w, written)
<1> DEFINE c == call[w]
<1>1. PICK f \in c.ids :
         /\ folder' = Repo!SetAll(folder, {f} \cap Repo!LiveIds(folder), [edit |-> c.edit], c.stamp)
         /\ Done(w, IF folder'[f] # folder[f] THEN {f} ELSE {})
  BY DEF CommitUpdateFolder, Repo!updateFolder
<1>2. c.op = "updateFolder" /\ UNCHANGED <<note, conv, msg, alone>> BY DEF CommitUpdateFolder, At
<1>3. f \in Folders /\ c.stamp \in Nat \ {0} /\ c.edit \in Nat /\ DocsOK(folder) /\ DOMAIN folder = Folders
  BY <1>2 DEF SyncTyped, CallsOK, CallOK, StoresOK
<1> DEFINE ids == {f} \cap Repo!LiveIds(folder)
           written == IF folder'[f] # folder[f] THEN {f} ELSE {}
<1>4. Stamped(folder, folder', ids, c.stamp) BY <1>1, <1>3, SetAllStamps
<1>5. Stamped(folder, folder', written, c.stamp)
  <2>1. folder'[f] # folder[f] => ids = {f} BY <1>3, <1>4 DEF Stamped
  <2> HIDE DEF ids
  <2>2. ids \in SUBSET {f} BY DEF ids
  <2>3. QED BY <1>3, <1>4, <2>1, <2>2 DEF Stamped
<1>6. Stamped(note, note', written, c.stamp)
  BY <1>2, <1>3, SyncAssumption DEF Stamped, SyncTyped, StoresOK
<1>7. Wrote(written, c.stamp) BY <1>2, <1>3, <1>5, <1>6, FoldersWrote
<1>8. QED BY <1>1, <1>7, DoneIs DEF Commits

\* The notes of the folders are written with the folders.
LEMMA FolderAndNotes ==
    ASSUME SyncTyped, NEW w \in Writers, NEW ns \in SUBSET Notes,
           call[w].op \in {"deleteFolder", "restoreFolder"},
           Stamped(note, note', ns, call[w].stamp),
           Stamped(folder, folder', call[w].folders, call[w].stamp),
           Done(w, call[w].folders \cup ns), UNCHANGED <<conv, msg, alone>>
    PROVE  \E written : Commits(w, written)
<1> DEFINE c == call[w]  written == c.folders \cup ns
<1>1. c.folders \subseteq Folders /\ c.stamp \in Nat \ {0} BY DEF SyncTyped, CallsOK, CallOK
<1>2. Stamped(note, note', written, c.stamp)
  BY <1>1, StampedLess, SyncAssumption DEF SyncTyped, StoresOK
<1>3. Stamped(folder, folder', written, c.stamp)
  BY <1>1, StampedLess, SyncAssumption DEF SyncTyped, StoresOK
<1>4. Wrote(written, c.stamp) BY <1>1, <1>2, <1>3, FoldersWrote
<1>5. QED BY <1>4, DoneIs DEF Commits

LEMMA DeleteFolderWrites ==
    ASSUME SyncTyped, NEW w \in Writers, CommitDeleteFolder(w)
    PROVE  \E written : Commits(w, written)
<1> DEFINE c == call[w]  ns == Repo!listNotesByFolderIds(note, c.folders, TRUE)
<1>1. c.op = "deleteFolder" /\ Done(w, c.folders \cup ns) /\ UNCHANGED <<conv, msg, alone>>
  BY DEF CommitDeleteFolder, At
<1>2. c.stamp \in Nat \ {0} BY <1>1 DEF SyncTyped, CallsOK, CallOK
<1>3. ns \in SUBSET Notes BY DEF SyncTyped, StoresOK, Repo!listNotesByFolderIds
<1>4. Stamped(note, note', ns, c.stamp) /\ Stamped(folder, folder', c.folders, c.stamp)
  <2>1. CASE c.permanent
    <3>1. note' = Repo!Removed(note, ns) /\ folder' = Repo!Removed(folder, c.folders)
      BY <2>1 DEF CommitDeleteFolder, Repo!hardDeleteNotesByFolderIds, Repo!hardDeleteFolders
    <3>2. QED BY <3>1, RemovedStamps DEF SyncTyped, StoresOK
  <2>2. CASE ~c.permanent
    <3>1. /\ note' = Repo!SetAll(note, ns, [deletedAt |-> c.stamp], c.stamp)
          /\ folder' = Repo!SetAll(folder, c.folders, [deletedAt |-> c.stamp], c.stamp)
      BY <2>2 DEF CommitDeleteFolder, Repo!softDeleteNotesByFolderIds, Repo!softDeleteFolders
    <3>2. QED BY <1>2, <3>1, SetAllStamps DEF SyncTyped, StoresOK
  <2>3. QED BY <2>1, <2>2
<1> HIDE DEF ns
<1>5. QED BY <1>1, <1>3, <1>4, FolderAndNotes

LEMMA RestoreFolderWrites ==
    ASSUME SyncTyped, NEW w \in Writers, CommitRestoreFolder(w)
    PROVE  \E written : Commits(w, written)
<1> DEFINE c == call[w]  ns == Repo!listNotesByFolderIds(note, c.folders, TRUE)
<1>1. c.op = "restoreFolder" /\ Done(w, c.folders \cup ns) /\ UNCHANGED <<conv, msg, alone>>
  BY DEF CommitRestoreFolder, At
<1>2. c.stamp \in Nat \ {0} /\ c.ids \subseteq c.folders
  BY <1>1 DEF SyncTyped, CallsOK, CallOK
<1>3. ns \in SUBSET Notes BY DEF SyncTyped, StoresOK, Repo!listNotesByFolderIds
<1>4. Stamped(note, note', ns, c.stamp)
  <2>1. note' = Repo!SetAll(note, ns, [deletedAt |-> NULL], c.stamp)
    BY DEF CommitRestoreFolder, Repo!restoreNotesByFolderIds
  <2>2. QED BY <1>2, <2>1, SetAllStamps DEF SyncTyped, StoresOK
<1>5. Stamped(folder, folder', c.folders, c.stamp)
  <2>1. PICK f \in c.ids : folder' = Repo!restoreFolders(folder, c.folders, f, NULL, c.stamp)
    BY DEF CommitRestoreFolder
  <2>2. PICK half : half = Repo!SetAll(folder, c.folders, [deletedAt |-> NULL], c.stamp) OBVIOUS
  <2>3. folder' = Repo!SetAll(half, {f}, [place |-> NULL], c.stamp)
    BY <2>1, <2>2 DEF Repo!restoreFolders
  <2>4. Stamped(folder, half, c.folders, c.stamp)
    BY <1>2, <2>2, SetAllStamps DEF SyncTyped, StoresOK
  <2>5. Stamped(half, folder', {f}, c.stamp)
    BY <1>2, <2>3, <2>4, SetAllStamps DEF Stamped
  <2>6. QED BY <1>2, <2>4, <2>5, StampedTwice
<1> HIDE DEF ns
<1>6. QED BY <1>1, <1>3, <1>4, <1>5, FolderAndNotes

-----------------------------------------------------------------------------
(* Conversations.                                                          *)

LEMMA CreateConversationWrites ==
    ASSUME SyncTyped, NEW w \in Writers, CommitCreateConversation(w)
    PROVE  (\E written : Commits(w, written)) \/ Refuse(w)
<1> DEFINE r == call[w]  ms == r.ids \cap Msgs  c == r.place
<1>1. CASE Chats!StoredIds(conv, r.ids \cap Convs) # {} \/ Chats!StoredIds(msg, ms) # {}
  BY <1>1 DEF CommitCreateConversation
<1>2. CASE ~(Chats!StoredIds(conv, r.ids \cap Convs) # {} \/ Chats!StoredIds(msg, ms) # {})
  <2>1. /\ conv' = Repo!Inserted(conv, {c}, New(NULL, r.edit), r.stamp)
        /\ msg' = Repo!Inserted(msg, ms, New(c, r.edit), r.stamp)
        /\ alone' = alone \ r.ids /\ Done(w, r.ids) /\ UNCHANGED <<note, folder>>
    BY <1>2, SameWrites DEF CommitCreateConversation, Chats!create, Chats!createMessages
  <2>2. r.op = "createConversation" BY DEF CommitCreateConversation, At
  <2>3. /\ c \in Convs /\ c \in r.ids /\ r.ids \subseteq {c} \cup {m \in Msgs : ConvOf[m] = c}
        /\ r.stamp \in Nat \ {0} /\ r.edit \in Nat
    BY <2>2 DEF SyncTyped, CallsOK, CallOK
  <2>4. Stamped(conv, conv', {c}, r.stamp) /\ Stamped(msg, msg', ms, r.stamp)
    <3>1. HasFields(New(NULL, r.edit)) /\ New(NULL, r.edit).edit \in Nat
          /\ HasFields(New(c, r.edit)) /\ New(c, r.edit).edit \in Nat
      BY <2>3 DEF New, HasFields
    <3>2. QED BY <2>1, <2>3, <3>1, InsertedStamps DEF SyncTyped, StoresOK
  <2>5. Stamped(conv, conv', r.ids, r.stamp) /\ Stamped(msg, msg', r.ids, r.stamp)
    BY <2>3, <2>4, StampedLess, SyncAssumption DEF SyncTyped, StoresOK
  <2>6. InPlace(msg')
    <3> SUFFICES ASSUME NEW m \in Msgs, msg'[m] # NULL PROVE msg'[m].place = ConvOf[m]
      BY DEF InPlace
    <3>1. DOMAIN msg = Msgs /\ InPlace(msg) BY DEF SyncTyped, StoresOK
    <3>2. CASE m \in ms
      <4>1. ConvOf[m] = c BY <2>3, <3>2, SyncAssumption
      <4>2. msg'[m].place = c BY <2>1, <3>1, <3>2 DEF Repo!Inserted, New
      <4>3. QED BY <4>1, <4>2
    <3>3. CASE m \notin ms
      <4>1. msg'[m] = msg[m] BY <2>1, <3>1, <3>3 DEF Repo!Inserted
      <4>2. QED BY <3>1, <4>1 DEF InPlace
    <3>4. QED BY <3>2, <3>3
  <2>7. Wrote(r.ids, r.stamp)
    <3>1. r.ids \subseteq Convs \cup Msgs /\ \A m \in r.ids \cap Msgs : ConvOf[m] \in r.ids
      BY <2>3, SyncAssumption
    <3>2. alone \ r.ids \subseteq alone' BY <2>1
    <3> HIDE DEF r
    <3>3. QED BY <2>1, <2>3, <2>5, <2>6, <3>1, <3>2, ChatsWrote
  <2>8. QED BY <2>1, <2>7, DoneIs DEF Commits
<1>3. QED BY <1>1, <1>2

LEMMA ConversationWrites ==
    ASSUME SyncTyped, NEW w \in Writers, CommitConversation(w)
    PROVE  \E written : Commits(w, written)
<1> DEFINE r == call[w]  c == r.place
           ms == IF r.op = "updateConversation" \/ conv[c] = NULL THEN {} ELSE Chats!messagesOf(msg, {c})
<1>1. /\ r.op \in {"updateConversation", "deleteConversation", "restoreConversation"}
      /\ alone' = alone \ ms /\ Done(w, {c} \cup ms) /\ UNCHANGED <<note, folder>>
  BY DEF CommitConversation
<1>2. c \in Convs /\ r.stamp \in Nat \ {0} /\ r.edit \in Nat
  BY <1>1 DEF SyncTyped, CallsOK, CallOK
<1>3. Stamped(conv, conv', {c}, r.stamp)
  <2>1. \/ conv' = Repo!SetAll(conv, {c}, [edit |-> r.edit], r.stamp)
        \/ conv' = Repo!SetAll(conv, {c}, [deletedAt |-> NULL], r.stamp)
        \/ conv' = Repo!Removed(conv, {c})
        \/ conv' = Repo!SetAll(conv, {c}, [deletedAt |-> r.stamp], r.stamp)
    BY SameWrites DEF CommitConversation, Chats!update, Chats!restore, Chats!hardDelete, Chats!softDelete
  <2>2. QED BY <1>2, <2>1, SetAllStamps, RemovedStamps DEF SyncTyped, StoresOK
<1>4. ms \subseteq {m \in Msgs : ConvOf[m] = c}
  BY DEF Chats!messagesOf, SyncTyped, StoresOK, InPlace
<1>5. \/ msg' = msg /\ ms = {}
      \/ \E updates : /\ msg' = Repo!SetAll(msg, ms, updates, r.stamp)
                      /\ "edit" \notin DOMAIN updates /\ "place" \notin DOMAIN updates
      \/ msg' = Repo!Removed(msg, ms)
  <2>1. CASE ms = {} BY <2>1 DEF CommitConversation
  <2>2. CASE ms # {}
    <3>1. ms = Chats!messagesOf(msg, {c}) BY <2>2
    <3>2. \/ msg' = Repo!SetAll(msg, ms, [deletedAt |-> NULL], r.stamp)
          \/ msg' = Repo!Removed(msg, ms)
          \/ msg' = Repo!SetAll(msg, ms, [deletedAt |-> r.stamp], r.stamp)
      BY <2>2, <3>1, SameWrites
         DEF CommitConversation, Chats!restoreAllByConversationId,
             Chats!hardDeleteAllByConversationId, Chats!softDeleteAllByConversationId
    <3> HIDE DEF ms
    <3>3. QED BY <3>2
  <2>3. QED BY <2>1, <2>2
<1> HIDE DEF ms
<1>6. Stamped(msg, msg', ms, r.stamp) /\ InPlace(msg')
  <2>1. CASE msg' = msg /\ ms = {} BY <2>1, StampedNone DEF SyncTyped, StoresOK
  <2>2. ASSUME NEW updates, msg' = Repo!SetAll(msg, ms, updates, r.stamp),
               "edit" \notin DOMAIN updates, "place" \notin DOMAIN updates
        PROVE  Stamped(msg, msg', ms, r.stamp) /\ InPlace(msg')
    <3>1. Stamped(msg, msg', ms, r.stamp) BY <1>2, <2>2, SetAllStamps DEF SyncTyped, StoresOK
    <3>2. ASSUME NEW m \in Msgs, msg'[m] # NULL PROVE msg'[m].place = ConvOf[m]
      <4>1. CASE m \in ms /\ msg[m] # NULL
        <5>1. msg'[m] = Repo!Merged(msg[m], updates, r.stamp)
          BY <2>2, <4>1 DEF Repo!SetAll, SyncTyped, StoresOK
        <5>2. DocOK(msg[m]) BY DEF SyncTyped, StoresOK, DocsOK
        <5>3. msg'[m].place = msg[m].place BY <1>2, <2>2, <4>1, <5>1, <5>2, MergedIs
        <5>4. QED BY <4>1, <5>3 DEF SyncTyped, StoresOK, InPlace
      <4>2. CASE ~(m \in ms /\ msg[m] # NULL)
        <5>1. msg'[m] = msg[m] BY <2>2, <4>2 DEF Repo!SetAll, SyncTyped, StoresOK
        <5>2. QED BY <3>2, <5>1 DEF SyncTyped, StoresOK, InPlace
      <4>3. QED BY <4>1, <4>2
    <3>3. QED BY <3>1, <3>2 DEF InPlace
  <2>3. CASE msg' = Repo!Removed(msg, ms)
    <3>1. Stamped(msg, msg', ms, r.stamp) BY <2>3, RemovedStamps DEF SyncTyped, StoresOK
    <3>2. InPlace(msg') BY <2>3 DEF Repo!Removed, InPlace, SyncTyped, StoresOK
    <3>3. QED BY <3>1, <3>2
  <2>4. QED BY <1>5, <2>1, <2>2, <2>3
<1>7. /\ Stamped(conv, conv', {c} \cup ms, r.stamp) /\ Stamped(msg, msg', {c} \cup ms, r.stamp)
  BY <1>2, <1>3, <1>4, <1>6, StampedLess, SyncAssumption DEF SyncTyped, StoresOK
<1>8. Wrote({c} \cup ms, r.stamp)
  BY <1>1, <1>2, <1>4, <1>6, <1>7, ChatsWrote, SyncAssumption
<1>9. QED BY <1>1, <1>8, DoneIs DEF Commits

LEMMA MessageWrites ==
    ASSUME SyncTyped, NEW w \in Writers, CommitMessage(w)
    PROVE  (\E written : Commits(w, written)) \/ Refuse(w)
<1> DEFINE r == call[w]  c == r.place
<1> SUFFICES ASSUME ~Refuse(w) PROVE \E written : Commits(w, written)
  OBVIOUS
<1>1. PICK m \in r.ids : /\ msg' = MessageAfter(r, m) /\ conv' = Touched(r)
                         /\ alone' = alone \ {m} /\ Done(w, {m, c}) /\ UNCHANGED <<note, folder>>
  BY DEF CommitMessage
<1>2. r.op \in {"createMessage", "updateMessage", "deleteMessage", "restoreMessage"}
  BY DEF CommitMessage
<1>3. m \in Msgs /\ ConvOf[m] = c /\ c \in Convs /\ r.stamp \in Nat \ {0} /\ r.edit \in Nat
  BY <1>2 DEF SyncTyped, CallsOK, CallOK
<1>4. Stamped(conv, conv', {c}, r.stamp)
  <2>1. conv' = Repo!SetAll(conv, {c}, <<>>, r.stamp)
    BY <1>1, SameWrites DEF Touched, Chats!update
  <2>2. "edit" \notin DOMAIN <<>> OBVIOUS
  <2>3. QED BY <1>3, <2>1, <2>2, SetAllStamps DEF SyncTyped, StoresOK
<1>5. Stamped(msg, msg', {m}, r.stamp) /\ InPlace(msg')
  <2>1. CASE r.op = "createMessage"
    <3>1. msg' = Repo!Inserted(msg, {m}, New(c, r.edit), r.stamp)
      BY <1>1, <2>1, SameWrites DEF MessageAfter, Chats!createMessages
    <3>2. HasFields(New(c, r.edit)) /\ New(c, r.edit).edit \in Nat BY <1>3 DEF New, HasFields
    <3>3. Stamped(msg, msg', {m}, r.stamp)
      BY <1>3, <3>1, <3>2, InsertedStamps DEF SyncTyped, StoresOK
    <3>4. InPlace(msg') BY <1>3, <3>1 DEF InPlace, SyncTyped, StoresOK, Repo!Inserted, New
    <3>5. QED BY <3>3, <3>4
  <2>2. CASE r.op # "createMessage"
    <3>1. \/ msg' = Repo!SetAll(msg, {m}, [edit |-> r.edit], r.stamp)
          \/ msg' = Repo!SetAll(msg, {m}, [deletedAt |-> NULL], r.stamp)
          \/ msg' = Repo!SetAll(msg, {m}, [deletedAt |-> r.stamp], r.stamp)
          \/ msg' = Repo!Removed(msg, {m})
      BY <1>1, <1>2, <2>2, SameWrites
         DEF MessageAfter, Chats!updateMessageDoc, Chats!restoreMessageDoc, Chats!hardDeleteMessage,
             Chats!softDeleteMessage
    <3>2. Stamped(msg, msg', {m}, r.stamp)
      BY <1>3, <3>1, SetAllStamps, RemovedStamps DEF SyncTyped, StoresOK
    <3>3. ASSUME NEW updates, msg' = Repo!SetAll(msg, {m}, updates, r.stamp), "place" \notin DOMAIN updates,
                 "edit" \in DOMAIN updates => updates["edit"] \in Nat
          PROVE  InPlace(msg')
      <4> SUFFICES ASSUME NEW n \in Msgs, msg'[n] # NULL PROVE msg'[n].place = ConvOf[n]
        BY DEF InPlace
      <4>1. CASE n = m /\ msg[m] # NULL
        <5>1. msg'[m] = Repo!Merged(msg[m], updates, r.stamp)
          BY <3>3, <4>1 DEF Repo!SetAll, SyncTyped, StoresOK
        <5>2. DocOK(msg[m]) BY <1>3 DEF SyncTyped, StoresOK, DocsOK
        <5>3. msg'[m].place = msg[m].place BY <1>3, <3>3, <4>1, <5>1, <5>2, MergedIs
        <5>4. QED BY <1>3, <4>1, <5>3 DEF SyncTyped, StoresOK, InPlace
      <4>2. CASE ~(n = m /\ msg[m] # NULL)
        <5>1. msg'[n] = msg[n] BY <3>3, <4>2 DEF Repo!SetAll, SyncTyped, StoresOK
        <5>2. QED BY <5>1 DEF SyncTyped, StoresOK, InPlace
      <4>3. QED BY <4>1, <4>2
    <3>4. msg' = Repo!Removed(msg, {m}) => InPlace(msg')
      BY DEF Repo!Removed, InPlace, SyncTyped, StoresOK
    <3>5. InPlace(msg') BY <1>3, <3>1, <3>3, <3>4
    <3>6. QED BY <3>2, <3>5
  <2>3. QED BY <2>1, <2>2
<1>6. Stamped(conv, conv', {m, c}, r.stamp) /\ Stamped(msg, msg', {m, c}, r.stamp)
  BY <1>3, <1>4, <1>5, StampedLess, SyncAssumption DEF SyncTyped, StoresOK
<1>7. Wrote({m, c}, r.stamp)
  BY <1>1, <1>3, <1>5, <1>6, ChatsWrote, SyncAssumption
<1>8. QED BY <1>1, <1>7, DoneIs DEF Commits

-----------------------------------------------------------------------------
(* A push.                                                                 *)

LEMMA StampedAt ==
    ASSUME NEW C, NEW D, NEW ids, NEW t, NEW n \in DOMAIN C, Stamped(C, D, ids, t),
           n \in ids \/ ~IsLive(C[n])
    PROVE  DocOK(D[n]) /\ (IsLive(D[n]) => D[n].updatedAt = t)
BY DEF Stamped, DocsOK

LEMMA UpsertStamps ==
    ASSUME NEW C, NEW c, NEW inserted, NEW updated, NEW t, DocsOK(C),
           \A i \in DOMAIN C \cap Newer(c) :
              /\ DocOK(inserted[i]) /\ (IsLive(inserted[i]) => inserted[i].updatedAt = t)
              /\ DocOK(updated[i]) /\ (IsLive(updated[i]) => updated[i].updatedAt = t)
    PROVE  Stamped(C, Upsert(C, c, inserted, updated), Newer(c), t)
BY DEF Stamped, Upsert, DocsOK

LEMMA PushWrites ==
    ASSUME SyncTyped, NEW w \in Writers, CommitPush(w)
    PROVE  (\E written : Commits(w, written)) \/ Refuse(w)
<1> SUFFICES ASSUME ~Refuse(w) PROVE \E written : Commits(w, written)
  OBVIOUS
<1> DEFINE c == call[w]  t == c.stamp
<1>1. /\ note' = Upsert(note, c, [n \in Notes |-> Repo!createNote(note, n, Pushed(c, n), t)[n]],
                                 [n \in Notes |-> Repo!updateNote(note, n, Pushed(c, n), t)[n]])
      /\ folder' = Upsert(folder, c, [f \in Folders |-> Repo!createFolder(folder, f, Pushed(c, f), t)[f]],
                                     [f \in Folders |-> Repo!updateFolder(folder, f, Pushed(c, f), t)[f]])
      /\ conv' = Upsert(conv, c, [i \in Convs |-> Chats!create(conv, i, Pushed(c, i), t)[i]],
                                 [i \in Convs |-> Chats!update(conv, i, Pushed(c, i), t)[i]])
      /\ msg' = Upsert(msg, c, [m \in Msgs |-> Chats!createMessages(msg, {m}, Pushed(c, m), t)[m]],
                               [m \in Msgs |-> Chats!updateMessageDoc(msg, m, Pushed(c, m), t)[m]])
      /\ alone' = (alone \ Newer(c)) \cup {m \in Newer(c) \cap Msgs : ConvOf[m] \notin Newer(c)}
      /\ Done(w, Newer(c))
  BY DEF CommitPush
<1>2. c.op = "push" BY DEF CommitPush, At
<1>3. c.ids \subseteq Ids /\ t \in Nat \ {0} /\ c.edit \in Nat
  BY <1>2 DEF SyncTyped, CallsOK, CallOK
<1>4. Newer(c) \subseteq Ids BY <1>3 DEF Newer
<1>5. \A i : /\ HasFields(Pushed(c, i)) /\ Pushed(c, i).edit \in Nat /\ Pushed(c, i)["edit"] \in Nat
             /\ HasFields([Pushed(c, i) EXCEPT !.deletedAt = NULL])
             /\ [Pushed(c, i) EXCEPT !.deletedAt = NULL].edit \in Nat
  BY <1>3 DEF Pushed, HasFields
<1> HIDE DEF c, t
<1>6. ASSUME NEW C, DocsOK(C), NEW i \in DOMAIN C
      PROVE  /\ LET D == Repo!Inserted(C, {i}, [Pushed(c, i) EXCEPT !.deletedAt = NULL], t)
                IN  DocOK(D[i]) /\ (IsLive(D[i]) => D[i].updatedAt = t)
             /\ LET D == Repo!Inserted(C, {i}, Pushed(c, i), t)
                IN  DocOK(D[i]) /\ (IsLive(D[i]) => D[i].updatedAt = t)
             /\ LET D == Repo!SetAll(C, {i}, Pushed(c, i), t)
                IN  DocOK(D[i]) /\ (IsLive(D[i]) => D[i].updatedAt = t)
             /\ LET D == Repo!SetAll(C, {i} \cap Repo!LiveIds(C), Pushed(c, i), t)
                IN  DocOK(D[i]) /\ (IsLive(D[i]) => D[i].updatedAt = t)
  <2>1. Stamped(C, Repo!Inserted(C, {i}, [Pushed(c, i) EXCEPT !.deletedAt = NULL], t), {i}, t)
    BY <1>3, <1>5, <1>6, InsertedStamps
  <2>2. Stamped(C, Repo!Inserted(C, {i}, Pushed(c, i), t), {i}, t)
    BY <1>3, <1>5, <1>6, InsertedStamps
  <2>3. Stamped(C, Repo!SetAll(C, {i}, Pushed(c, i), t), {i}, t)
    BY <1>3, <1>5, <1>6, SetAllStamps
  <2>4. Stamped(C, Repo!SetAll(C, {i} \cap Repo!LiveIds(C), Pushed(c, i), t), {i} \cap Repo!LiveIds(C), t)
    BY <1>3, <1>5, <1>6, SetAllStamps
  <2>5. i \in {i} \cap Repo!LiveIds(C) \/ ~IsLive(C[i]) BY <1>6 DEF Repo!LiveIds, Repo!Live, IsLive
  <2>6. i \in {i} OBVIOUS
  <2>7. QED BY <1>6, <2>1, <2>2, <2>3, <2>4, <2>5, <2>6, StampedAt
<1>7. Stamped(note, note', Newer(c), t)
  <2>1. DocsOK(note) /\ DOMAIN note = Notes BY DEF SyncTyped, StoresOK
  <2>2. ASSUME NEW n \in Notes
        PROVE  /\ DocOK(Repo!createNote(note, n, Pushed(c, n), t)[n])
               /\ IsLive(Repo!createNote(note, n, Pushed(c, n), t)[n]) =>
                     Repo!createNote(note, n, Pushed(c, n), t)[n].updatedAt = t
               /\ DocOK(Repo!updateNote(note, n, Pushed(c, n), t)[n])
               /\ IsLive(Repo!updateNote(note, n, Pushed(c, n), t)[n]) =>
                     Repo!updateNote(note, n, Pushed(c, n), t)[n].updatedAt = t
    BY <1>6, <2>1 DEF Repo!createNote, Repo!updateNote
  <2>3. QED BY <1>1, <2>1, <2>2, UpsertStamps
<1>8. Stamped(folder, folder', Newer(c), t)
  <2>1. DocsOK(folder) /\ DOMAIN folder = Folders BY DEF SyncTyped, StoresOK
  <2>2. ASSUME NEW n \in Folders
        PROVE  /\ DocOK(Repo!createFolder(folder, n, Pushed(c, n), t)[n])
               /\ IsLive(Repo!createFolder(folder, n, Pushed(c, n), t)[n]) =>
                     Repo!createFolder(folder, n, Pushed(c, n), t)[n].updatedAt = t
               /\ DocOK(Repo!updateFolder(folder, n, Pushed(c, n), t)[n])
               /\ IsLive(Repo!updateFolder(folder, n, Pushed(c, n), t)[n]) =>
                     Repo!updateFolder(folder, n, Pushed(c, n), t)[n].updatedAt = t
    BY <1>6, <2>1 DEF Repo!createFolder, Repo!updateFolder
  <2>3. QED BY <1>1, <2>1, <2>2, UpsertStamps
<1>9. Stamped(conv, conv', Newer(c), t)
  <2>1. DocsOK(conv) /\ DOMAIN conv = Convs BY DEF SyncTyped, StoresOK
  <2>2. ASSUME NEW n \in Convs
        PROVE  /\ DocOK(Chats!create(conv, n, Pushed(c, n), t)[n])
               /\ IsLive(Chats!create(conv, n, Pushed(c, n), t)[n]) =>
                     Chats!create(conv, n, Pushed(c, n), t)[n].updatedAt = t
               /\ DocOK(Chats!update(conv, n, Pushed(c, n), t)[n])
               /\ IsLive(Chats!update(conv, n, Pushed(c, n), t)[n]) =>
                     Chats!update(conv, n, Pushed(c, n), t)[n].updatedAt = t
    BY <1>6, <2>1, SameWrites DEF Chats!create, Chats!update
  <2>3. QED BY <1>1, <2>1, <2>2, UpsertStamps
<1>10. Stamped(msg, msg', Newer(c), t)
  <2>1. DocsOK(msg) /\ DOMAIN msg = Msgs BY DEF SyncTyped, StoresOK
  <2>2. ASSUME NEW n \in Msgs
        PROVE  /\ DocOK(Chats!createMessages(msg, {n}, Pushed(c, n), t)[n])
               /\ IsLive(Chats!createMessages(msg, {n}, Pushed(c, n), t)[n]) =>
                     Chats!createMessages(msg, {n}, Pushed(c, n), t)[n].updatedAt = t
               /\ DocOK(Chats!updateMessageDoc(msg, n, Pushed(c, n), t)[n])
               /\ IsLive(Chats!updateMessageDoc(msg, n, Pushed(c, n), t)[n]) =>
                     Chats!updateMessageDoc(msg, n, Pushed(c, n), t)[n].updatedAt = t
    BY <1>6, <2>1, SameWrites DEF Chats!createMessages, Chats!updateMessageDoc
  <2>3. QED BY <1>1, <2>1, <2>2, UpsertStamps
<1>11. InPlace(msg')
  <2> SUFFICES ASSUME NEW m \in Msgs, msg'[m] # NULL PROVE msg'[m].place = ConvOf[m]
    BY DEF InPlace
  <2>1. DOMAIN msg = Msgs /\ InPlace(msg) /\ DocOK(msg[m]) BY DEF SyncTyped, StoresOK, DocsOK
  <2>2. "place" \in DOMAIN Pushed(c, m) /\ Pushed(c, m)["place"] = ConvOf[m] BY DEF Pushed
  <2>3. CASE m \notin Newer(c)
    <3>1. msg'[m] = msg[m] BY <1>1, <2>1, <2>3 DEF Upsert
    <3>2. QED BY <2>1, <3>1 DEF InPlace
  <2>4. CASE m \in Newer(c) /\ m \in Inserts(c)
    <3>1. msg'[m] = Repo!Inserted(msg, {m}, Pushed(c, m), t)[m]
      BY <1>1, <2>1, <2>4, SameWrites DEF Upsert, Chats!createMessages
    <3>2. msg'[m] = [Pushed(c, m) EXCEPT !.createdAt = t, !.updatedAt = t]
      BY <2>1, <3>1 DEF Repo!Inserted
    <3>3. QED BY <3>2 DEF Pushed
  <2>5. CASE m \in Newer(c) /\ m \notin Inserts(c)
    <3>1. msg'[m] = Repo!SetAll(msg, {m}, Pushed(c, m), t)[m]
      BY <1>1, <2>1, <2>5, SameWrites DEF Upsert, Chats!updateMessageDoc
    <3>2. CASE msg[m] = NULL BY <2>1, <3>1, <3>2 DEF Repo!SetAll
    <3>3. CASE msg[m] # NULL
      <4>1. PICK sent : sent = Pushed(c, m) OBVIOUS
      <4>2. msg'[m] = Repo!Merged(msg[m], sent, t) BY <2>1, <3>1, <3>3, <4>1 DEF Repo!SetAll
      <4>3. "place" \in DOMAIN sent /\ sent["place"] = ConvOf[m] /\ sent["edit"] \in Nat
        BY <1>5, <2>2, <4>1
      <4>4. QED BY <1>3, <2>1, <3>3, <4>2, <4>3, MergedIs
    <3>4. QED BY <3>2, <3>3
  <2>6. QED BY <2>3, <2>4, <2>5
<1>12. \A m \in Newer(c) \cap Msgs : ConvOf[m] \in Newer(c) \/ m \in alone' BY <1>1
<1>13. alone \ Newer(c) \subseteq alone' BY <1>1
<1>14. Wrote(Newer(c), t)
  BY <1>3, <1>4, <1>7, <1>8, <1>9, <1>10, <1>11, <1>12, <1>13 DEF Wrote
<1>15. QED BY <1>1, <1>14, DoneIs DEF Commits, c, t

LEMMA CommitWrites ==
    ASSUME SyncTyped, NEW w \in Writers, Commit(w)
    PROVE  (\E written : Commits(w, written)) \/ Refuse(w)
BY CreateNotesWrites, NoteWrites, CreateFolderWrites, UpdateFolderWrites, DeleteFolderWrites,
   RestoreFolderWrites, CreateConversationWrites, ConversationWrites, MessageWrites, PushWrites
   DEF Commit

-----------------------------------------------------------------------------
(* Everything stays in place.                                              *)

LEMMA EndOK ==
    ASSUME SyncTyped, NEW w \in Writers, call' = [call EXCEPT ![w] = NoCall], made' = made
    PROVE  CallsOK'
<1>1. CallOK(NoCall) BY DEF CallOK, NoCall
<1>2. QED BY <1>1 DEF SyncTyped, CallsOK

LEMMA CommitTyped ==
    ASSUME SyncTyped, NEW w \in Writers, NEW written, Commits(w, written)
    PROVE  SyncTyped'
<1>1. StoresOK' BY DEF Commits, Wrote, Stamped, SyncTyped, StoresOK
<1>2. CallsOK' BY EndOK DEF Commits
<1>3. list' = [list EXCEPT !.steady = @ \ written] /\ UNCHANGED <<now, copy, since, pull>>
  BY DEF Commits, Recorded
<1>4. ReadersOK' BY <1>3 DEF SyncTyped, ReadersOK, ListType
<1>5. QED BY <1>1, <1>2, <1>4 DEF SyncTyped

LEMMA QuietStores == ASSUME SyncTyped, Quiet PROVE StoresOK'
BY DEF SyncTyped, StoresOK, Quiet

LEMMA QuietReaders == ASSUME SyncTyped, Quiet, now' = now PROVE ReadersOK'
BY DEF SyncTyped, ReadersOK, Quiet

LEMMA OneMore == \A n \in Nat : n + 1 \in Nat OBVIOUS

LEMMA BeginTyped ==
    ASSUME SyncTyped, NEW w \in Writers, NEW c, Begin(w, c),
           \A s \in Nat \ {0}, e \in Nat : CallOK([c EXCEPT !.stamp = s, !.edit = e])
    PROVE  SyncTyped' /\ Quiet
<1>1. Quiet /\ now' = now BY DEF Begin, Quiet, allDocs, reader
<1>2. CallsOK'
  <2>1. made' = made + 1 /\ call' = [call EXCEPT ![w] = [c EXCEPT !.stamp = now, !.edit = made + 1]]
    BY DEF Begin
  <2>2. now \in Nat \ {0} /\ made \in Nat BY DEF SyncTyped, ReadersOK, CallsOK
  <2>3. made + 1 \in Nat BY <2>2, OneMore, Zenon
  <2>4. CallOK([c EXCEPT !.stamp = now, !.edit = made + 1]) BY <2>2, <2>3
  <2>5. QED BY <2>1, <2>3, <2>4 DEF SyncTyped, CallsOK
<1>3. QED BY <1>1, <1>2, QuietStores, QuietReaders DEF SyncTyped

LEMMA WriteNotesTyped ==
    ASSUME SyncTyped, NEW w \in Writers, WriteNotes(w)
    PROVE  SyncTyped' /\ Quiet
<1>1. ASSUME NEW f, NEW ns \in SUBSET Notes, CreateNotes(w, ns, f) PROVE SyncTyped' /\ Quiet
  <2> DEFINE c == [NoCall EXCEPT !.op = "createNotes", !.ids = ns, !.place = f]
  <2>1. \A s \in Nat \ {0}, e \in Nat : CallOK([c EXCEPT !.stamp = s, !.edit = e])
    BY DEF CallOK, NoCall
  <2>2. QED BY <1>1, <2>1, BeginTyped DEF CreateNotes
<1>2. ASSUME NEW op \in {"updateNote", "deleteNote", "restoreNote"}, NEW n \in Notes, NEW f,
             NEW p, ChangeNote(w, op, n, f, p)
      PROVE  SyncTyped' /\ Quiet
  <2> DEFINE c == [NoCall EXCEPT !.op = op, !.ids = {n}, !.place = f, !.permanent = p]
  <2>1. \A s \in Nat \ {0}, e \in Nat : CallOK([c EXCEPT !.stamp = s, !.edit = e])
    BY DEF CallOK, NoCall
  <2>2. QED BY <1>2, <2>1, BeginTyped DEF ChangeNote
<1>3. ASSUME NEW op \in {"createFolder", "updateFolder"}, NEW f \in Folders,
             Begin(w, [NoCall EXCEPT !.op = op, !.ids = {f}])
      PROVE  SyncTyped' /\ Quiet
  <2> DEFINE c == [NoCall EXCEPT !.op = op, !.ids = {f}]
  <2>1. \A s \in Nat \ {0}, e \in Nat : CallOK([c EXCEPT !.stamp = s, !.edit = e])
    BY DEF CallOK, NoCall
  <2>2. QED BY <1>3, <2>1, BeginTyped
<1>4. ASSUME NEW op \in {"deleteFolder", "restoreFolder"}, NEW f \in Folders, NEW p,
             BeginFolder(w, op, f, p)
      PROVE  SyncTyped' /\ Quiet
  <2> DEFINE fs == {f} \cup Repo!findDescendantFolderIds(folder, f)
             c == [NoCall EXCEPT !.op = op, !.ids = {f}, !.permanent = p, !.folders = fs]
  <2>1. {f} \subseteq fs /\ fs \subseteq Folders
    BY DEF Repo!findDescendantFolderIds, SyncTyped, StoresOK
  <2>2. Begin(w, c) BY <1>4 DEF BeginFolder
  <2> HIDE DEF fs
  <2>3. \A s \in Nat \ {0}, e \in Nat : CallOK([c EXCEPT !.stamp = s, !.edit = e])
    BY <2>1 DEF CallOK, NoCall
  <2>4. QED BY <2>2, <2>3, BeginTyped
<1>5. QED BY <1>1, <1>2, <1>3, <1>4 DEF WriteNotes, RestoreNote, CreateFolder, UpdateFolder

LEMMA WriteChatsTyped ==
    ASSUME SyncTyped, NEW w \in Writers, WriteChats(w)
    PROVE  SyncTyped' /\ Quiet
<1>1. ASSUME NEW r \in Convs, NEW ms \in SUBSET {m \in Msgs : ConvOf[m] = r},
             CreateConversation(w, r, ms)
      PROVE  SyncTyped' /\ Quiet
  <2> DEFINE c == [NoCall EXCEPT !.op = "createConversation", !.ids = {r} \cup ms, !.place = r]
  <2>1. \A s \in Nat \ {0}, e \in Nat : CallOK([c EXCEPT !.stamp = s, !.edit = e])
    BY DEF CallOK, NoCall
  <2>2. QED BY <1>1, <2>1, BeginTyped DEF CreateConversation
<1>2. ASSUME NEW op \in {"updateConversation", "deleteConversation", "restoreConversation"},
             NEW r \in Convs, NEW p, ChangeConversation(w, op, r, p)
      PROVE  SyncTyped' /\ Quiet
  <2> DEFINE c == [NoCall EXCEPT !.op = op, !.ids = {r}, !.place = r, !.permanent = p]
  <2>1. \A s \in Nat \ {0}, e \in Nat : CallOK([c EXCEPT !.stamp = s, !.edit = e])
    BY DEF CallOK, NoCall
  <2>2. QED BY <1>2, <2>1, BeginTyped DEF ChangeConversation
<1>3. ASSUME NEW op \in {"createMessage", "updateMessage", "deleteMessage", "restoreMessage"},
             NEW m \in Msgs, NEW p, ChangeMessage(w, op, m, p)
      PROVE  SyncTyped' /\ Quiet
  <2> DEFINE c == [NoCall EXCEPT !.op = op, !.ids = {m}, !.place = ConvOf[m], !.permanent = p]
  <2>1. ConvOf[m] \in Convs BY SyncAssumption
  <2>2. \A s \in Nat \ {0}, e \in Nat : CallOK([c EXCEPT !.stamp = s, !.edit = e])
    BY <2>1 DEF CallOK, NoCall
  <2>3. QED BY <1>3, <2>2, BeginTyped DEF ChangeMessage
<1>4. QED BY <1>1, <1>2, <1>3 DEF WriteChats

LEMMA WritePushTyped ==
    ASSUME SyncTyped, NEW w \in Writers, WritePush(w)
    PROVE  SyncTyped' /\ Quiet
<1>1. PICK items \in Batches, edited \in 1..now, p \in BOOLEAN : Push(w, items, edited, p)
  BY DEF WritePush
<1> DEFINE seen == [i \in Ids |-> IF i \in items /\ Live(i) THEN Doc(i).updatedAt ELSE NULL]
           c == [NoCall EXCEPT !.op = "push", !.ids = items, !.edited = edited, !.permanent = p,
                               !.seen = seen]
<1>2. items \subseteq Ids BY SyncAssumption DEF Ids
<1>3. Begin(w, c) BY <1>1 DEF Push
<1> HIDE DEF seen
<1>4. \A s \in Nat \ {0}, e \in Nat : CallOK([c EXCEPT !.stamp = s, !.edit = e])
  BY <1>2 DEF CallOK, NoCall
<1>5. QED BY <1>3, <1>4, BeginTyped

\* A step of a writer.
LEMMA WriterSteps ==
    ASSUME SyncTyped, NEW w \in Writers,
           WriteNotes(w) \/ WriteChats(w) \/ WritePush(w) \/ Commit(w) \/ Fail(w)
    PROVE  SyncTyped' /\ (Quiet \/ \E written : Commits(w, written))
<1>1. ASSUME Refuse(w) PROVE SyncTyped' /\ Quiet
  BY <1>1, RefuseIs, QuietStores, QuietReaders, EndOK DEF SyncTyped
<1>2. QED
  BY <1>1, WriteNotesTyped, WriteChatsTyped, WritePushTyped, CommitWrites, CommitTyped DEF Fail

-----------------------------------------------------------------------------
(* Pulls: what a query has found is what there still is, but for what the  *)
(* device may miss; a message in the answer that the device lacks has its  *)
(* conversation there.                                                     *)

NameOf(i) == IF i \in Notes THEN "note" ELSE IF i \in Folders THEN "folder"
             ELSE IF i \in Convs THEN "conv" ELSE "msg"

Asked(p, i) == KindOf(i) \in p.kinds /\ NameOf(i) \notin p.left

FoundIs(d) ==
    \A i \in Ids \ missed[d] : Asked(pull[d], i) =>
        pull[d].found[i] = IF Live(i) /\ Doc(i).updatedAt >= pull[d].since THEN Doc(i).edit ELSE NULL

ConvFound(d) ==
    \A m \in Msgs \ (missed[d] \cup alone) :
        Asked(pull[d], ConvOf[m]) /\ Live(ConvOf[m]) /\ Lacks(d, m) => pull[d].found[ConvOf[m]] # NULL

PullOK(d) ==
    /\ \A i \in Ids : pull[d].found[i] # NULL => Asked(pull[d], i)
    /\ pull[d].left \subseteq Collections(pull[d].kinds)
    /\ \A k \in pull[d].kinds : pull[d].since <= since[d][k]

Brings(d) ==
    \A i \in Ids : Lacks(d, i) => \/ Comes(d, i) \/ i \in missed[d] \/ i \in alone
                                  \/ i \in Msgs /\ ~Live(ConvOf[i])

PullInv == \A d \in Devices : FoundIs(d) /\ ConvFound(d) /\ PullOK(d) /\ Brings(d)

\* A document by its id alone.
LEMMA DocIs ==
    ASSUME SyncTyped, NEW i \in Ids
    PROVE  DocOK(Doc(i)) /\ (Live(i) <=> IsLive(Doc(i)))
BY SyncAssumption
   DEF SyncTyped, StoresOK, DocsOK, DocOK, Ids, Doc, Live, LiveDoc, IsLive, Repo!getNote, Repo!getFolder,
       Repo!Live, Chats!findById, Chats!findMessageById, Chats!Live

LEMMA DocIsNext ==
    ASSUME SyncTyped', NEW i \in Ids
    PROVE  DocOK(Doc(i)') /\ (Live(i)' <=> IsLive(Doc(i)'))
BY SyncAssumption
   DEF SyncTyped, StoresOK, DocsOK, DocOK, Ids, Doc, Live, LiveDoc, IsLive, Repo!getNote, Repo!getFolder,
       Repo!Live, Chats!findById, Chats!findMessageById, Chats!Live

\* What a commit leaves and writes.
LEMMA WroteDocs ==
    ASSUME SyncTyped, SyncTyped', NEW written, NEW t, Wrote(written, t), NEW i \in Ids
    PROVE  /\ i \notin written => Doc(i)' = Doc(i) /\ Live(i)' = Live(i)
           /\ i \in written /\ Live(i)' => Doc(i)'.updatedAt = t
<1>1. i \notin written => Doc(i)' = Doc(i)
  BY SyncAssumption DEF Wrote, Stamped, SyncTyped, StoresOK, Ids, Doc
<1>2. i \in written /\ IsLive(Doc(i)') => Doc(i)'.updatedAt = t
  BY SyncAssumption DEF Wrote, Stamped, SyncTyped, StoresOK, Ids, Doc
<1>3. (Live(i)' <=> IsLive(Doc(i)')) /\ (Live(i) <=> IsLive(Doc(i))) BY DocIs, DocIsNext
<1>4. Live(i) \in BOOLEAN /\ Live(i)' \in BOOLEAN BY DEF Live
<1>5. QED BY <1>1, <1>2, <1>3, <1>4

\* What the device does not miss of a commit.
LEMMA NotMissed ==
    ASSUME SyncTyped, NEW w \in Writers, NEW written, Commits(w, written), NEW d \in Devices,
           NEW i \in Ids, i \notin missed'[d]
    PROVE  /\ i \in written => KindOf(i) \notin pull[d].kinds /\ since[d][KindOf(i)] <= call[w].stamp
           /\ i \notin written => i \notin missed[d]
           /\ i \in Msgs \ written /\ ConvOf[i] \in written =>
                 Live(ConvOf[i]) /\ since[d]["chat"] <= call[w].stamp
<1> DEFINE t == call[w].stamp
<1>1. missed'[d] = (missed[d] \ written) \cup LeftBehind(d, written, t)
                   \cup {j \in written : Overlaps(d, j, t)}
  BY DEF Commits, Recorded
<1>2. t \in Nat /\ since[d]["chat"] \in Nat /\ since[d][KindOf(i)] \in Nat
  BY DEF Commits, Wrote, SyncTyped, ReadersOK, KindOf, Kinds
<1> HIDE DEF t
<1>3. i \in written => KindOf(i) \notin pull[d].kinds /\ since[d][KindOf(i)] <= t
  BY <1>1, <1>2 DEF Overlaps
<1>4. i \notin written => i \notin missed[d] BY <1>1
<1>5. i \in Msgs \ written /\ ConvOf[i] \in written => Live(ConvOf[i]) /\ since[d]["chat"] <= t
  BY <1>1, <1>2 DEF LeftBehind
<1>6. QED BY <1>3, <1>4, <1>5 DEF t

LEMMA CommitKeepsPulls ==
    ASSUME SyncTyped, SyncTyped', PullInv, NEW w \in Writers, NEW written, Commits(w, written)
    PROVE  PullInv'
<1> DEFINE t == call[w].stamp
<1> SUFFICES ASSUME NEW d \in Devices PROVE (FoundIs(d) /\ ConvFound(d) /\ PullOK(d) /\ Brings(d))'
  BY DEF PullInv
<1>1. FoundIs(d) /\ ConvFound(d) /\ PullOK(d) /\ Brings(d) BY DEF PullInv
<1>2. UNCHANGED <<copy, since, pull>> BY DEF Commits
<1>3. Wrote(written, t) BY DEF Commits
<1>4. \A i \in Ids : /\ i \notin written => Doc(i)' = Doc(i) /\ Live(i)' = Live(i)
                     /\ i \in written /\ Live(i)' => Doc(i)'.updatedAt = t
  BY <1>3, WroteDocs
<1> DEFINE Told(i) == /\ i \in written => KindOf(i) \notin pull[d].kinds /\ since[d][KindOf(i)] <= t
                      /\ i \notin written => i \notin missed[d]
                      /\ i \in Msgs \ written /\ ConvOf[i] \in written =>
                            Live(ConvOf[i]) /\ since[d]["chat"] <= t
<1>5. \A i \in Ids : i \notin missed'[d] => Told(i) BY NotMissed
<1>6. t \in Nat /\ since[d] \in [Kinds -> Nat] BY <1>3 DEF Wrote, SyncTyped, ReadersOK
<1>7. \A m \in Msgs : /\ ConvOf[m] \in Convs /\ ConvOf[m] \in Ids /\ m \in Ids
                      /\ KindOf(m) = "chat" /\ KindOf(ConvOf[m]) = "chat"
                      /\ Doc(ConvOf[m]) = conv[ConvOf[m]] /\ Doc(ConvOf[m])' = conv'[ConvOf[m]]
  BY SyncAssumption DEF Ids, KindOf, Doc
<1>8. \A m \in written \cap Msgs : ConvOf[m] \in written \/ m \in alone' BY <1>3 DEF Wrote
<1>9. alone \ written \subseteq alone' BY <1>3 DEF Wrote
<1> HIDE DEF t
<1>10. FoundIs(d)' BY <1>1, <1>2, <1>4, <1>5 DEF FoundIs, Asked
<1>11. ConvFound(d)'
  <2> SUFFICES ASSUME NEW m \in Msgs, m \notin missed'[d], m \notin alone',
                      Asked(pull[d], ConvOf[m]), Live(ConvOf[m])', Lacks(d, m)'
               PROVE  pull[d].found[ConvOf[m]] # NULL
    BY <1>2 DEF ConvFound
  <2>1. m \in Ids /\ m \notin written /\ m \notin missed[d] /\ m \notin alone
    BY <1>5, <1>7, <1>9 DEF Asked
  <2>2. Lacks(d, m) BY <1>2, <1>4, <2>1 DEF Lacks
  <2>3. Live(ConvOf[m]) BY <1>4, <1>5, <1>7, <2>1
  <2>4. QED BY <1>1, <2>1, <2>2, <2>3 DEF ConvFound
<1>12. PullOK(d)' BY <1>1, <1>2 DEF PullOK
<1>13. Brings(d)'
  <2> SUFFICES ASSUME NEW i \in Ids, Lacks(d, i)', i \notin missed'[d], i \notin alone',
                      i \in Msgs => Live(ConvOf[i])'
               PROVE  Comes(d, i)'
    BY DEF Brings
  <2>1. Live(i)' BY DEF Lacks
  <2>2. CASE i \in written
    <3>1. Doc(i)'.updatedAt >= since'[d][KindOf(i)] BY <1>2, <1>4, <1>5, <1>6, <2>1, <2>2 DEF KindOf, Kinds
    <3>2. ASSUME i \in Msgs PROVE conv'[ConvOf[i]].updatedAt >= since'[d]["chat"]
      <4>1. ConvOf[i] \in written /\ Live(ConvOf[i])' BY <1>8, <2>2, <3>2
      <4>2. Doc(ConvOf[i])'.updatedAt = t BY <1>4, <1>7, <3>2, <4>1
      <4>3. since[d]["chat"] <= t BY <1>5, <1>7, <2>2, <3>2
      <4>4. since[d]["chat"] \in Nat BY <1>6 DEF Kinds
      <4>5. QED BY <1>2, <1>6, <1>7, <3>2, <4>2, <4>3, <4>4
    <3>3. QED BY <3>1, <3>2 DEF Comes
  <2>3. CASE i \notin written
    <3>1. Lacks(d, i) /\ i \notin missed[d] /\ i \notin alone
      BY <1>2, <1>4, <1>5, <1>9, <2>3 DEF Lacks
    <3>2. i \in Msgs => Live(ConvOf[i]) BY <1>4, <1>5, <1>7, <2>3
    <3>3. Comes(d, i) BY <1>1, <3>1, <3>2 DEF Brings
    <3>4. Doc(i)'.updatedAt >= since'[d][KindOf(i)] BY <1>2, <1>4, <2>3, <3>3 DEF Comes
    <3>5. ASSUME i \in Msgs PROVE conv'[ConvOf[i]].updatedAt >= since'[d]["chat"]
      <4>1. CASE ConvOf[i] \in written
        <5>1. Doc(ConvOf[i])'.updatedAt = t BY <1>4, <1>7, <3>5, <4>1
        <5>2. since[d]["chat"] <= t BY <1>5, <2>3, <3>5, <4>1
        <5>3. since[d]["chat"] \in Nat BY <1>6 DEF Kinds
        <5>4. QED BY <1>2, <1>6, <1>7, <3>5, <5>1, <5>2, <5>3
      <4>2. CASE ConvOf[i] \notin written
        BY <1>2, <1>4, <1>7, <3>3, <3>5, <4>2 DEF Comes
      <4>3. QED BY <4>1, <4>2
    <3>6. QED BY <3>4, <3>5 DEF Comes
  <2>4. QED BY <2>2, <2>3
<1>14. QED BY <1>10, <1>11, <1>12, <1>13

LEMMA QuietDocs ==
    ASSUME SyncTyped, SyncTyped', UNCHANGED <<note, folder, conv, msg>>, NEW i \in Ids
    PROVE  Doc(i)' = Doc(i) /\ Live(i)' = Live(i)
<1>1. Doc(i)' = Doc(i) BY DEF Doc
<1>2. (Live(i)' <=> IsLive(Doc(i)')) /\ (Live(i) <=> IsLive(Doc(i))) BY DocIs, DocIsNext
<1>3. Live(i) \in BOOLEAN /\ Live(i)' \in BOOLEAN BY DEF Live
<1>4. QED BY <1>1, <1>2, <1>3

\* Of a device that does nothing meanwhile, too.
LEMMA QuietKeepsDevice ==
    ASSUME SyncTyped, SyncTyped', UNCHANGED <<note, folder, conv, msg, missed, alone>>, NEW d \in Devices,
           copy'[d] = copy[d], since'[d] = since[d], pull'[d] = pull[d],
           FoundIs(d), ConvFound(d), PullOK(d), Brings(d)
    PROVE  (FoundIs(d) /\ ConvFound(d) /\ PullOK(d) /\ Brings(d))'
<1>1. \A i \in Ids : Doc(i)' = Doc(i) /\ Live(i)' = Live(i) BY QuietDocs
<1>2. \A m \in Msgs : m \in Ids /\ ConvOf[m] \in Ids BY SyncAssumption DEF Ids
<1>3. \A i \in Ids : Lacks(d, i)' <=> Lacks(d, i) BY <1>1 DEF Lacks
<1>4. \A i \in Ids : Comes(d, i)' <=> Comes(d, i) BY <1>1, <1>2 DEF Comes
<1>5. FoundIs(d)' BY <1>1 DEF FoundIs
<1>6. ConvFound(d)' BY <1>1, <1>2, <1>3 DEF ConvFound
<1>7. PullOK(d)' BY DEF PullOK
<1>8. Brings(d)' BY <1>1, <1>2, <1>3, <1>4 DEF Brings
<1>9. QED BY <1>5, <1>6, <1>7, <1>8

LEMMA QuietKeepsPulls ==
    ASSUME SyncTyped, SyncTyped', PullInv, UNCHANGED <<note, folder, conv, msg, copy, since, pull, missed, alone>>
    PROVE  PullInv'
BY QuietKeepsDevice DEF PullInv

\* The steps of the pull of one device.
LEMMA PullStep ==
    ASSUME SyncTyped, SyncTyped', PullInv, NEW d \in Devices,
           UNCHANGED <<note, folder, conv, msg, missed, alone>>,
           \A e \in Devices \ {d} : copy'[e] = copy[e] /\ since'[e] = since[e] /\ pull'[e] = pull[e],
           (FoundIs(d) /\ ConvFound(d) /\ PullOK(d) /\ Brings(d))'
    PROVE  PullInv'
<1> SUFFICES ASSUME NEW e \in Devices PROVE (FoundIs(e) /\ ConvFound(e) /\ PullOK(e) /\ Brings(e))'
  BY DEF PullInv
<1>1. CASE e = d BY <1>1
<1>2. CASE e # d
  <2>1. FoundIs(e) /\ ConvFound(e) /\ PullOK(e) /\ Brings(e) BY DEF PullInv
  <2>2. copy'[e] = copy[e] /\ since'[e] = since[e] /\ pull'[e] = pull[e] BY <1>2
  <2>3. QED BY <2>1, <2>2, QuietKeepsDevice
<1>3. QED BY <1>1, <1>2

LEMMA SameBrings ==
    ASSUME SyncTyped, SyncTyped', UNCHANGED <<note, folder, conv, msg, missed, alone>>, NEW d \in Devices,
           copy'[d] = copy[d], since'[d] = since[d], Brings(d)
    PROVE  Brings(d)'
<1>1. \A i \in Ids : Doc(i)' = Doc(i) /\ Live(i)' = Live(i) BY QuietDocs
<1>2. \A m \in Msgs : m \in Ids /\ ConvOf[m] \in Ids BY SyncAssumption DEF Ids
<1>3. \A i \in Ids : Lacks(d, i)' <=> Lacks(d, i) BY <1>1 DEF Lacks
<1>4. \A i \in Ids : Comes(d, i)' <=> Comes(d, i) BY <1>1, <1>2 DEF Comes
<1>5. QED BY <1>1, <1>2, <1>3, <1>4 DEF Brings

\* A collection is of one kind.
LEMMA NamesAre ==
    ASSUME NEW i \in Ids
    PROVE  /\ NameOf(i) \in Collections({KindOf(i)}) /\ KindOf(i) \in Kinds
           /\ \A kinds : KindOf(i) \in kinds => NameOf(i) \in Collections(kinds)
           /\ \A kinds \in SUBSET Kinds : NameOf(i) \in Collections(kinds) => KindOf(i) \in kinds
BY SyncAssumption DEF Ids, NameOf, KindOf, Collections, Kinds

LEMMA NoPullKeeps ==
    ASSUME SyncTyped, SyncTyped', PullInv, NEW d \in Devices,
           UNCHANGED <<note, folder, conv, msg, copy, since, missed, alone>>,
           pull' = [pull EXCEPT ![d] = NoPull]
    PROVE  PullInv'
<1>1. pull'[d] = NoPull /\ \A e \in Devices \ {d} : pull'[e] = pull[e]
  BY DEF SyncTyped, ReadersOK
<1>2. NoPull.kinds = {} /\ NoPull.left = {} /\ \A i \in Ids : NoPull.found[i] = NULL
  BY DEF NoPull
<1>3. FoundIs(d)' BY <1>1, <1>2 DEF FoundIs, Asked
<1>4. ConvFound(d)' BY <1>1, <1>2 DEF ConvFound, Asked
<1>5. PullOK(d)' BY <1>1, <1>2 DEF PullOK
<1>6. Brings(d)' BY SameBrings DEF PullInv
<1>7. QED BY <1>1, <1>3, <1>4, <1>5, <1>6, PullStep

\* The older of the times that a pull gives.
LEMMA OlderTime ==
    ASSUME NEW d \in Devices, since[d] \in [Kinds -> Nat], NEW kinds \in (SUBSET Kinds) \ {{}}
    PROVE  LET t == CHOOSE t \in {since[d][k] : k \in kinds} : \A k \in kinds : t <= since[d][k]
           IN  t \in Nat /\ \A k \in kinds : t <= since[d][k]
<1>1. {since[d][k] : k \in kinds} \subseteq Nat /\ {since[d][k] : k \in kinds} # {}
  <2>1. \A k \in kinds : since[d][k] \in Nat OBVIOUS
  <2>2. kinds # {} OBVIOUS
  <2>3. \E t : t \in {since[d][k] : k \in kinds} BY <2>2
  <2>4. QED BY <2>1, <2>3
<1>2. \E t \in {since[d][k] : k \in kinds} : \A u \in {since[d][k] : k \in kinds} : t <= u
  BY <1>1, LeastNat
<1>3. \E t \in {since[d][k] : k \in kinds} : \A k \in kinds : t <= since[d][k] BY <1>2
<1>4. QED BY <1>1, <1>3

LEMMA StartPullTyped ==
    ASSUME SyncTyped, NEW d \in Devices, NEW kinds \in (SUBSET Kinds) \ {{}}, StartPull(d, kinds)
    PROVE  /\ SyncTyped' /\ UNCHANGED <<note, folder, conv, msg, copy, since, missed, alone, list>>
           /\ \A e \in Devices \ {d} : pull'[e] = pull[e]
           /\ pull'[d].kinds = kinds /\ pull'[d].left = Collections(kinds)
           /\ \A i \in Ids : pull'[d].found[i] = NULL
           /\ \A k \in kinds : pull'[d].since <= since[d][k]
<1>1. UNCHANGED <<note, folder, conv, msg, copy, since, missed, alone, list, now, call, made>>
  BY DEF StartPull, allDocs
<1>2. PICK t : t = CHOOSE s \in {since[d][k] : k \in kinds} : \A k \in kinds : s <= since[d][k]
  OBVIOUS
<1>3. t \in Nat /\ \A k \in kinds : t <= since[d][k] BY <1>2, OlderTime DEF SyncTyped, ReadersOK
<1> DEFINE p == [NoPull EXCEPT !.kinds = kinds, !.left = Collections(kinds), !.since = t]
<1>4. pull' = [pull EXCEPT ![d] = p] BY <1>2 DEF StartPull
<1>5. /\ p \in PullType /\ p.kinds = kinds /\ p.left = Collections(kinds) /\ p.since = t
      /\ \A i \in Ids : p.found[i] = NULL
  BY <1>3 DEF NoPull, PullType, Collections
<1> HIDE DEF p
<1>6. SyncTyped' BY <1>1, <1>4, <1>5 DEF SyncTyped, StoresOK, CallsOK, ReadersOK
<1>7. pull'[d] = p /\ \A e \in Devices \ {d} : pull'[e] = pull[e]
  BY <1>4 DEF SyncTyped, ReadersOK
<1>8. QED BY <1>1, <1>3, <1>5, <1>6, <1>7

LEMMA StartPullKeeps ==
    ASSUME SyncTyped, PullInv, NEW d \in Devices, NEW kinds \in (SUBSET Kinds) \ {{}}, StartPull(d, kinds)
    PROVE  SyncTyped' /\ PullInv' /\ list' = list
<1>1. /\ SyncTyped' /\ UNCHANGED <<note, folder, conv, msg, copy, since, missed, alone, list>>
      /\ \A e \in Devices \ {d} : pull'[e] = pull[e]
      /\ pull'[d].kinds = kinds /\ pull'[d].left = Collections(kinds)
      /\ \A i \in Ids : pull'[d].found[i] = NULL
      /\ \A k \in kinds : pull'[d].since <= since[d][k]
  BY StartPullTyped
<1>2. \A i \in Ids : ~Asked(pull'[d], i) BY <1>1, NamesAre DEF Asked
<1>3. \A m \in Msgs : ConvOf[m] \in Ids BY SyncAssumption DEF Ids
<1>4. FoundIs(d)' BY <1>2 DEF FoundIs
<1>5. ConvFound(d)' BY <1>2, <1>3 DEF ConvFound
<1>6. PullOK(d)' BY <1>1 DEF PullOK
<1>7. Brings(d)' BY <1>1, SameBrings DEF PullInv
<1>8. PullInv' BY <1>1, <1>4, <1>5, <1>6, <1>7, PullStep
<1>9. QED BY <1>1, <1>8

LEMMA FoundAre ==
    ASSUME SyncTyped, NEW name \in Collections(Kinds), NEW t, NEW i \in Ids
    PROVE  i \in Found(name, t) <=> NameOf(i) = name /\ Doc(i) # NULL /\ Doc(i).updatedAt >= t
<1>1. name \in {"conv", "msg", "note", "folder"} BY DEF Collections, Kinds
<1>2. CASE name = "note"
  BY <1>2, SyncAssumption DEF Found, Repo!findNotesModifiedSince, Repo!ModifiedSince, NameOf, Doc, SyncTyped,
     StoresOK
<1>3. CASE name = "folder"
  BY <1>3, SyncAssumption DEF Found, Repo!findFoldersModifiedSince, Repo!ModifiedSince, NameOf, Doc, SyncTyped,
     StoresOK
<1>4. CASE name = "conv"
  BY <1>4, SyncAssumption DEF Found, Chats!findModifiedSince, Chats!ModifiedSince, NameOf, Doc, SyncTyped,
     StoresOK
<1>5. CASE name = "msg"
  BY <1>5, SyncAssumption DEF Found, Chats!findMessagesModifiedSince, Chats!ModifiedSince, NameOf, Doc, SyncTyped,
     StoresOK, Ids
<1>6. QED BY <1>1, <1>2, <1>3, <1>4, <1>5

LEMMA QueryTyped ==
    ASSUME SyncTyped, NEW d \in Devices, NEW name \in Collections(Kinds), Query(d, name)
    PROVE  /\ SyncTyped' /\ UNCHANGED <<note, folder, conv, msg, copy, since, missed, alone, list>>
           /\ \A e \in Devices \ {d} : pull'[e] = pull[e]
           /\ pull'[d].kinds = pull[d].kinds /\ pull'[d].left = pull[d].left \ {name}
           /\ pull'[d].since = pull[d].since
           /\ \A i \in Ids : pull'[d].found[i] =
                IF NameOf(i) = name /\ Live(i) /\ Doc(i).updatedAt >= pull[d].since
                THEN Doc(i).edit ELSE pull[d].found[i]
<1>1. UNCHANGED <<note, folder, conv, msg, copy, since, missed, alone, list, now, call, made>>
  BY DEF Query, allDocs
<1>2. PICK q : q = pull[d] OBVIOUS
<1>3. q \in PullType /\ now \in Nat BY <1>2 DEF SyncTyped, ReadersOK
<1>4. PICK ids : ids = {i \in Found(name, q.since) : Live(i)} OBVIOUS
<1>5. \A i \in Ids : i \in ids <=> NameOf(i) = name /\ Live(i) /\ Doc(i).updatedAt >= q.since
  BY <1>4, FoundAre, DocIs DEF IsLive
<1>6. \A i \in Ids : Live(i) => Doc(i).edit \in Nat BY DocIs DEF DocOK, IsLive
<1> DEFINE found == [i \in Ids |-> IF i \in ids THEN Doc(i).edit ELSE q.found[i]]
           time == IF q.left = {name} THEN now ELSE 0
<1>7. PICK p : p = [q EXCEPT !.left = q.left \ {name}, !.found = found, !.serverTime = time] OBVIOUS
<1>8. pull' = [pull EXCEPT ![d] = p] BY <1>2, <1>4, <1>7 DEF Query
<1>9. found \in [Ids -> Nat \cup {NULL}]
  <2> SUFFICES ASSUME NEW i \in Ids
               PROVE  (IF i \in ids THEN Doc(i).edit ELSE q.found[i]) \in Nat \cup {NULL}
    OBVIOUS
  <2>1. i \in ids => Doc(i).edit \in Nat BY <1>5, <1>6
  <2>2. q.found[i] \in Nat \cup {NULL} BY <1>3 DEF PullType
  <2>3. QED BY <2>1, <2>2
<1>10. time \in Nat BY <1>3
<1>11. \A i \in Ids : found[i] = IF NameOf(i) = name /\ Live(i) /\ Doc(i).updatedAt >= q.since
                                 THEN Doc(i).edit ELSE q.found[i]
  BY <1>5
<1> HIDE DEF found, time
<1>12. /\ p \in PullType /\ p.kinds = q.kinds /\ p.left = q.left \ {name} /\ p.since = q.since
       /\ p.found = found
  BY <1>3, <1>7, <1>9, <1>10 DEF PullType
<1>13. SyncTyped' BY <1>1, <1>8, <1>12 DEF SyncTyped, StoresOK, CallsOK, ReadersOK
<1>14. pull'[d] = p /\ \A e \in Devices \ {d} : pull'[e] = pull[e]
  BY <1>8 DEF SyncTyped, ReadersOK
<1>15. QED BY <1>1, <1>2, <1>11, <1>12, <1>13, <1>14

LEMMA QueryKeeps ==
    ASSUME SyncTyped, PullInv, NEW d \in Devices, NEW name \in Collections(Kinds), Query(d, name)
    PROVE  SyncTyped' /\ PullInv' /\ list' = list
<1> DEFINE q == pull[d]
<1>1. /\ SyncTyped' /\ UNCHANGED <<note, folder, conv, msg, copy, since, missed, alone, list>>
      /\ \A e \in Devices \ {d} : pull'[e] = pull[e]
      /\ pull'[d].kinds = q.kinds /\ pull'[d].left = q.left \ {name}
      /\ pull'[d].since = q.since
      /\ \A i \in Ids : pull'[d].found[i] =
           IF NameOf(i) = name /\ Live(i) /\ Doc(i).updatedAt >= q.since
           THEN Doc(i).edit ELSE q.found[i]
  BY QueryTyped
<1>2. name \in q.left BY DEF Query
<1>3. FoundIs(d) /\ ConvFound(d) /\ PullOK(d) /\ Brings(d) BY DEF PullInv
<1>4. q.kinds \in SUBSET Kinds /\ q.since \in Nat /\ since[d] \in [Kinds -> Nat]
  BY DEF SyncTyped, ReadersOK, PullType
<1>5. \A i \in Ids : Doc(i)' = Doc(i) /\ Live(i)' = Live(i) BY <1>1, QuietDocs
<1>6. \A m \in Msgs : /\ m \in Ids /\ ConvOf[m] \in Ids /\ NameOf(ConvOf[m]) = "conv"
                      /\ KindOf(ConvOf[m]) = "chat" /\ Doc(ConvOf[m]) = conv[ConvOf[m]]
  BY SyncAssumption DEF Ids, NameOf, Doc, KindOf
<1>7. \A i \in Ids : Asked(pull'[d], i) <=> (Asked(q, i) \/ (NameOf(i) = name /\ KindOf(i) \in q.kinds))
  BY <1>1, <1>2 DEF Asked
<1>8. \A i \in Ids : NameOf(i) = name => KindOf(i) \in q.kinds /\ q.found[i] = NULL
  BY <1>2, <1>3, <1>4, NamesAre DEF PullOK, Asked
<1>9. FoundIs(d)'
  <2> SUFFICES ASSUME NEW i \in Ids \ missed[d], Asked(pull'[d], i)
               PROVE  pull'[d].found[i] = IF Live(i) /\ Doc(i).updatedAt >= q.since THEN Doc(i).edit ELSE NULL
    BY <1>1, <1>5 DEF FoundIs
  <2>1. CASE NameOf(i) = name BY <1>1, <1>8, <2>1
  <2>2. CASE NameOf(i) # name
    <3>1. pull'[d].found[i] = q.found[i] BY <1>1, <2>2
    <3>2. Asked(q, i) BY <1>7, <2>2
    <3>3. QED BY <1>3, <3>1, <3>2 DEF FoundIs
  <2>3. QED BY <2>1, <2>2
<1>10. ConvFound(d)'
  <2> SUFFICES ASSUME NEW m \in Msgs \ (missed[d] \cup alone), Asked(pull'[d], ConvOf[m]),
                      Live(ConvOf[m]), Lacks(d, m)
               PROVE  pull'[d].found[ConvOf[m]] # NULL
    BY <1>1, <1>5, <1>6 DEF ConvFound, Lacks
  <2>1. CASE name = "conv"
    <3>1. Comes(d, m) BY <1>3, <1>6 DEF Brings
    <3>2. conv[ConvOf[m]].updatedAt >= since[d]["chat"] BY <3>1 DEF Comes
    <3>3. q.since <= since[d]["chat"] BY <1>3, <1>6, <1>8, <2>1 DEF PullOK
    <3>4. DocOK(Doc(ConvOf[m])) /\ IsLive(Doc(ConvOf[m])) BY <1>6, DocIs
    <3>5. Doc(ConvOf[m]).updatedAt \in Nat /\ Doc(ConvOf[m]).edit \in Nat BY <3>4 DEF DocOK, IsLive
    <3>6. since[d]["chat"] \in Nat BY <1>4 DEF Kinds
    <3>7. Doc(ConvOf[m]).updatedAt >= q.since BY <1>4, <1>6, <3>2, <3>3, <3>5, <3>6
    <3>8. pull'[d].found[ConvOf[m]] = Doc(ConvOf[m]).edit BY <1>1, <1>6, <2>1, <3>7
    <3>9. QED BY <3>5, <3>8, SyncAssumption
  <2>2. CASE name # "conv"
    <3>1. pull'[d].found[ConvOf[m]] = q.found[ConvOf[m]] BY <1>1, <1>6, <2>2
    <3>2. Asked(q, ConvOf[m]) BY <1>6, <1>7, <2>2
    <3>3. QED BY <1>3, <3>1, <3>2 DEF ConvFound
  <2>3. QED BY <2>1, <2>2
<1>11. PullOK(d)'
  <2>1. \A i \in Ids : pull'[d].found[i] # NULL => Asked(pull'[d], i)
    BY <1>1, <1>3, <1>7, <1>8 DEF PullOK
  <2>2. QED BY <1>1, <1>3, <2>1 DEF PullOK
<1>12. Brings(d)' BY <1>1, <1>3, SameBrings
<1>13. PullInv' BY <1>1, <1>9, <1>10, <1>11, <1>12, PullStep
<1>14. QED BY <1>1, <1>13

LEMMA ReceiveTyped ==
    ASSUME SyncTyped, NEW d \in Devices, ReceivePull(d)
    PROVE  /\ SyncTyped' /\ UNCHANGED <<note, folder, conv, msg, missed, alone, list>>
           /\ \A e \in Devices \ {d} : copy'[e] = copy[e] /\ since'[e] = since[e] /\ pull'[e] = pull[e]
           /\ pull'[d] = NoPull
           /\ \A i \in Ids : copy'[d][i] = IF Answered(pull[d], i) THEN pull[d].found[i] ELSE copy[d][i]
           /\ \A k \in Kinds : since'[d][k] = IF k \in pull[d].kinds THEN pull[d].serverTime ELSE since[d][k]
<1>1. UNCHANGED <<note, folder, conv, msg, missed, alone, list, now, call, made>>
  BY DEF ReceivePull, allDocs
<1>2. PICK p : p = pull[d] OBVIOUS
<1>3. p \in PullType /\ since \in [Devices -> [Kinds -> Nat]] BY <1>2 DEF SyncTyped, ReadersOK
<1>4. PICK cs : cs = [i \in Ids |-> IF Answered(p, i) THEN p.found[i] ELSE copy[d][i]] OBVIOUS
<1>5. PICK ts : ts = [k \in Kinds |-> IF k \in p.kinds THEN p.serverTime ELSE since[d][k]] OBVIOUS
<1>6. copy' = [copy EXCEPT ![d] = cs] /\ since' = [since EXCEPT ![d] = ts]
      /\ pull' = [pull EXCEPT ![d] = NoPull]
  BY <1>2, <1>4, <1>5 DEF ReceivePull, SyncTyped, ReadersOK
<1>7. ts \in [Kinds -> Nat] BY <1>3, <1>5 DEF PullType
<1>8. DOMAIN cs = Ids BY <1>4
<1>9. NoPull \in PullType BY DEF NoPull, PullType
<1>10. SyncTyped'
  <2>1. StoresOK' /\ CallsOK' BY <1>1 DEF SyncTyped, StoresOK, CallsOK
  <2>2. ReadersOK' BY <1>1, <1>6, <1>7, <1>8, <1>9 DEF SyncTyped, ReadersOK
  <2>3. QED BY <2>1, <2>2 DEF SyncTyped
<1>11. /\ copy'[d] = cs /\ since'[d] = ts /\ pull'[d] = NoPull
       /\ \A e \in Devices \ {d} : copy'[e] = copy[e] /\ since'[e] = since[e] /\ pull'[e] = pull[e]
  BY <1>6 DEF SyncTyped, ReadersOK
<1>12. QED BY <1>1, <1>2, <1>4, <1>5, <1>10, <1>11

LEMMA ReceiveKeeps ==
    ASSUME SyncTyped, PullInv, NEW d \in Devices, ReceivePull(d)
    PROVE  SyncTyped' /\ PullInv' /\ list' = list
<1> DEFINE p == pull[d]
<1>1. /\ SyncTyped' /\ UNCHANGED <<note, folder, conv, msg, missed, alone, list>>
      /\ \A e \in Devices \ {d} : copy'[e] = copy[e] /\ since'[e] = since[e] /\ pull'[e] = pull[e]
      /\ pull'[d] = NoPull
      /\ \A i \in Ids : copy'[d][i] = IF Answered(p, i) THEN p.found[i] ELSE copy[d][i]
      /\ \A k \in Kinds : since'[d][k] = IF k \in p.kinds THEN p.serverTime ELSE since[d][k]
  BY ReceiveTyped
<1>2. p.left = {} BY DEF ReceivePull
<1>3. FoundIs(d) /\ ConvFound(d) /\ PullOK(d) /\ Brings(d) BY DEF PullInv
<1>4. p.kinds \in SUBSET Kinds /\ p.since \in Nat /\ since[d] \in [Kinds -> Nat]
  BY DEF SyncTyped, ReadersOK, PullType
<1>5. \A i \in Ids : Doc(i)' = Doc(i) /\ Live(i)' = Live(i) BY <1>1, QuietDocs
<1>6. \A m \in Msgs : /\ m \in Ids /\ ConvOf[m] \in Ids /\ KindOf(m) = "chat"
                      /\ KindOf(ConvOf[m]) = "chat"
  BY SyncAssumption DEF Ids, KindOf
<1>7. NoPull.kinds = {} /\ NoPull.left = {} /\ \A i \in Ids : NoPull.found[i] = NULL
  BY DEF NoPull
<1>8. FoundIs(d)' /\ ConvFound(d)' /\ PullOK(d)' BY <1>1, <1>7 DEF FoundIs, ConvFound, PullOK, Asked
<1>9. Brings(d)'
  <2> SUFFICES ASSUME NEW i \in Ids, Lacks(d, i)', i \notin missed[d], i \notin alone,
                      i \in Msgs => Live(ConvOf[i])
               PROVE  Comes(d, i)'
    BY <1>1, <1>5, <1>6 DEF Brings
  <2>1. KindOf(i) \in Kinds BY NamesAre
  <2>2. Live(i) /\ copy'[d][i] # Doc(i).edit BY <1>5 DEF Lacks
  <2>3. CASE KindOf(i) \in p.kinds
    <3>1. Asked(p, i) BY <1>2, <2>3 DEF Asked
    <3>2. CASE Answered(p, i)
      <4>1. p.found[i] # NULL /\ copy'[d][i] = p.found[i] BY <1>1, <3>2 DEF Answered
      <4>2. p.found[i] = Doc(i).edit BY <1>3, <3>1, <4>1 DEF FoundIs
      <4>3. QED BY <2>2, <4>1, <4>2
    <3>3. CASE ~Answered(p, i)
      <4>1. Lacks(d, i) BY <1>1, <2>2, <3>3 DEF Lacks
      <4>2. Comes(d, i) BY <1>3, <4>1 DEF Brings
      <4>3. Doc(i).updatedAt \in Nat /\ Doc(i).edit \in Nat BY <2>2, DocIs DEF DocOK, IsLive
      <4>4. Doc(i).updatedAt >= p.since
        <5>1. Doc(i).updatedAt >= since[d][KindOf(i)] BY <4>2 DEF Comes
        <5>2. p.since <= since[d][KindOf(i)] BY <1>3, <2>3 DEF PullOK
        <5>3. since[d][KindOf(i)] \in Nat BY <1>4, <2>1
        <5>4. QED BY <1>4, <4>3, <5>1, <5>2, <5>3
      <4>5. p.found[i] = Doc(i).edit BY <1>3, <2>2, <3>1, <4>4 DEF FoundIs
      <4>6. p.found[i] # NULL BY <4>3, <4>5, SyncAssumption
      <4>7. i \in Msgs /\ p.found[ConvOf[i]] = NULL BY <3>3, <4>6 DEF Answered
      <4>8. Asked(p, ConvOf[i]) BY <1>2, <1>6, <2>3, <4>7 DEF Asked
      <4>9. QED BY <1>3, <4>1, <4>7, <4>8 DEF ConvFound
    <3>4. QED BY <3>2, <3>3
  <2>4. CASE KindOf(i) \notin p.kinds
    <3>1. ~Answered(p, i) BY <1>3, <2>4 DEF Answered, PullOK, Asked
    <3>2. Lacks(d, i) BY <1>1, <2>2, <3>1 DEF Lacks
    <3>3. Comes(d, i) BY <1>3, <3>2 DEF Brings
    <3>4. since'[d][KindOf(i)] = since[d][KindOf(i)] BY <1>1, <2>1, <2>4
    <3>5. i \in Msgs => since'[d]["chat"] = since[d]["chat"] BY <1>6, <3>4
    <3>6. QED BY <1>1, <1>5, <1>6, <3>3, <3>4, <3>5 DEF Comes
  <2>5. QED BY <2>3, <2>4
<1>10. PullInv' BY <1>1, <1>8, <1>9, PullStep
<1>11. QED BY <1>1, <1>10

LEMMA LoseTyped ==
    ASSUME SyncTyped, NEW d \in Devices, LosePull(d)
    PROVE  /\ SyncTyped' /\ UNCHANGED <<note, folder, conv, msg, copy, since, missed, alone, list>>
           /\ pull' = [pull EXCEPT ![d] = NoPull]
<1>1. NoPull \in PullType BY DEF NoPull, PullType
<1>2. /\ UNCHANGED <<note, folder, conv, msg, copy, since, missed, alone, list, now, call, made>>
      /\ pull' = [pull EXCEPT ![d] = NoPull]
  BY DEF LosePull, allDocs
<1>3. QED BY <1>1, <1>2 DEF SyncTyped, StoresOK, CallsOK, ReadersOK

LEMMA LoseKeeps ==
    ASSUME SyncTyped, PullInv, NEW d \in Devices, LosePull(d)
    PROVE  SyncTyped' /\ PullInv' /\ list' = list
BY LoseTyped, NoPullKeeps

-----------------------------------------------------------------------------
(* Lists: what the reader has not been shown comes after the cursor, or    *)
(* ties with the last item of a page.                                      *)

LEMMA SameCards == \A S : Repo!Cardinality(S) = Cardinality(S) /\ Chats!Cardinality(S) = Cardinality(S)
BY DEF Repo!Cardinality, Chats!Cardinality, Cardinality

LEMMA SamePages ==
    \A C, found, limit, cursor : Chats!PagesOf(C, found, limit, cursor) = Repo!PagesOf(C, found, limit, cursor)
<1>1. \A S : Chats!Cardinality(S) = Repo!Cardinality(S) BY SameCards
<1>2. QED BY <1>1 DEF Chats!PagesOf, Repo!PagesOf

LEMMA PageTakes ==
    ASSUME NEW C, NEW found, IsFiniteSet(found), \A i \in found : C[i].updatedAt \in Nat \ {0},
           NEW limit \in Nat \ {0}, NEW cursor, NEW P \in Repo!PagesOf(C, found, limit, cursor),
           NEW D, \A i \in P : D[i] = C[i], NEW next, next = Repo!NextCursorOf(D, P, limit)
    PROVE  /\ P \subseteq found /\ next \in Nat
           /\ \A i \in found : cursor = 0 \/ C[i].updatedAt < cursor =>
                 i \in P \/ C[i].updatedAt = next \/ (next # 0 /\ C[i].updatedAt < next)
<1> DEFINE rest == {i \in found : cursor = 0 \/ C[i].updatedAt < cursor}
<1>1. /\ P \subseteq rest
      /\ Cardinality(P) = IF Cardinality(rest) < limit THEN Cardinality(rest) ELSE limit
      /\ \A i \in P, j \in rest \ P : C[i].updatedAt >= C[j].updatedAt
  BY SameCards DEF Repo!PagesOf
<1>2. IsFiniteSet(rest) /\ IsFiniteSet(P) BY <1>1, FS_Subset
<1>3. Cardinality(rest) \in Nat /\ Cardinality(P) \in Nat BY <1>2, FS_CardinalityType
<1>4. next = IF Cardinality(P) < limit THEN 0
             ELSE CHOOSE t \in {D[i].updatedAt : i \in P} : \A i \in P : t <= D[i].updatedAt
  BY SameCards DEF Repo!NextCursorOf
<1>5. CASE Cardinality(rest) < limit
  <2>1. P = rest BY <1>1, <1>2, <1>5, FS_Subset
  <2>2. next = 0 BY <1>1, <1>4, <1>5
  <2>3. QED BY <2>1, <2>2
<1>6. CASE ~(Cardinality(rest) < limit)
  <2>1. Cardinality(P) = limit BY <1>1, <1>6
  <2>2. P # {} BY <2>1, FS_EmptySet
  <2> DEFINE times == {D[i].updatedAt : i \in P}
  <2>3. times \subseteq Nat /\ times # {}
    <3>1. \A i \in P : D[i].updatedAt \in Nat BY <1>1
    <3>2. \E t : t \in times BY <2>2
    <3>3. QED BY <3>1, <3>2
  <2>4. \E t \in times : \A u \in times : t <= u BY <2>3, LeastNat
  <2>5. \E t \in times : \A i \in P : t <= D[i].updatedAt BY <2>4
  <2>6. next = CHOOSE t \in times : \A i \in P : t <= D[i].updatedAt BY <1>4, <2>1
  <2>7. next \in times /\ \A i \in P : next <= D[i].updatedAt BY <2>5, <2>6
  <2>8. PICK l \in P : next = D[l].updatedAt BY <2>7
  <2>9. next = C[l].updatedAt /\ next \in Nat \ {0} BY <1>1, <2>8
  <2>10. \A j \in rest \ P : C[j].updatedAt <= next
    <3> SUFFICES ASSUME NEW j \in rest \ P PROVE C[j].updatedAt <= next
      OBVIOUS
    <3>1. C[l].updatedAt >= C[j].updatedAt BY <1>1
    <3>2. C[j].updatedAt \in Nat OBVIOUS
    <3>3. QED BY <2>9, <3>1, <3>2
  <2>11. \A j \in rest \ P : C[j].updatedAt \in Nat OBVIOUS
  <2>12. P \subseteq found BY <1>1
  <2>13. QED BY <2>9, <2>10, <2>11, <2>12
<1>7. QED BY <1>5, <1>6

\* What a list shows, by the documents alone.
ShownIn(of, place, name, doc) ==
    CASE of = "notes" -> name = "note" /\ IsLive(doc) /\ doc.place = place
      [] of = "folders" -> name = "folder" /\ IsLive(doc) /\ doc.place = place
      [] of = "trashNotes" -> name = "note" /\ doc # NULL /\ ~IsLive(doc)
      [] of = "trashFolders" -> name = "folder" /\ doc # NULL /\ ~IsLive(doc)
      [] of = "trashConversations" -> name = "conv" /\ doc # NULL /\ ~IsLive(doc)

LEMMA ListedIs ==
    ASSUME SyncTyped, NEW of \in ListNames, NEW place
    PROVE  /\ Listed(of, place) \subseteq Ids
           /\ \A i \in Ids : i \in Listed(of, place) <=> ShownIn(of, place, NameOf(i), Doc(i))
<1>1. \A i \in Ids : Live(i) <=> IsLive(Doc(i)) BY DocIs
<1>2. \A i \in Ids : /\ (i \in Notes <=> NameOf(i) = "note") /\ (i \in Notes => Doc(i) = note[i])
                     /\ (i \in Folders <=> NameOf(i) = "folder") /\ (i \in Folders => Doc(i) = folder[i])
                     /\ (i \in Convs <=> NameOf(i) = "conv") /\ (i \in Convs => Doc(i) = conv[i])
  BY SyncAssumption DEF NameOf, Doc, Ids
<1>3. DOMAIN note = Notes /\ DOMAIN folder = Folders /\ DOMAIN conv = Convs BY DEF SyncTyped, StoresOK
<1>4. of \in {"notes", "folders", "trashNotes", "trashFolders", "trashConversations"} BY DEF ListNames
<1>5. /\ \A n : Repo!InTrash(n) <=> n # NULL /\ ~IsLive(n)
      /\ \A n : Chats!InTrash(n) <=> n # NULL /\ ~IsLive(n)
  BY DEF Repo!InTrash, Chats!InTrash, IsLive
<1>6. Notes \subseteq Ids /\ Folders \subseteq Ids /\ Convs \subseteq Ids BY DEF Ids
<1>7. CASE of = "notes" BY <1>1, <1>2, <1>6, <1>7 DEF Listed, ShownIn
<1>8. CASE of = "folders" BY <1>1, <1>2, <1>6, <1>8 DEF Listed, ShownIn
<1>9. CASE of = "trashNotes"
  <2>1. Listed(of, place) = {n \in Notes : Repo!InTrash(note[n])} BY <1>3, <1>9 DEF Listed, Repo!TrashIds
  <2>2. QED BY <1>2, <1>5, <1>6, <1>9, <2>1 DEF ShownIn
<1>10. CASE of = "trashFolders"
  <2>1. Listed(of, place) = {f \in Folders : Repo!InTrash(folder[f])}
    BY <1>3, <1>10 DEF Listed, Repo!TrashIds
  <2>2. QED BY <1>2, <1>5, <1>6, <1>10, <2>1 DEF ShownIn
<1>11. CASE of = "trashConversations"
  <2>1. Listed(of, place) = {c \in Convs : Chats!InTrash(conv[c])}
    BY <1>3, <1>11 DEF Listed, Chats!TrashIds
  <2>2. QED BY <1>2, <1>5, <1>6, <1>11, <2>1 DEF ShownIn
<1>12. QED BY <1>4, <1>7, <1>8, <1>9, <1>10, <1>11

ListInv ==
    /\ list.more => list.of # "none"
    /\ list.of # "none" => \A i \in list.steady :
         /\ ShownIn(list.of, list.place, NameOf(i), Doc(i))
         /\ \/ i \in list.seen \/ Doc(i).updatedAt \in list.cursors
            \/ list.more /\ (list.cursor = 0 \/ Doc(i).updatedAt < list.cursor)

LEMMA CommitKeepsList ==
    ASSUME SyncTyped, SyncTyped', ListInv, NEW w \in Writers, NEW written, Commits(w, written)
    PROVE  ListInv'
<1>1. list' = [list EXCEPT !.steady = @ \ written] BY DEF Commits, Recorded
<1>2. list \in ListType BY DEF SyncTyped, ReadersOK
<1>3. /\ list'.of = list.of /\ list'.place = list.place /\ list'.cursor = list.cursor
      /\ list'.seen = list.seen /\ list'.cursors = list.cursors /\ list'.more = list.more
      /\ list'.steady = list.steady \ written /\ list.steady \subseteq Ids
  BY <1>1, <1>2 DEF ListType
<1>4. \A i \in list'.steady : Doc(i)' = Doc(i)
  BY <1>3, WroteDocs DEF Commits
<1>5. QED BY <1>3, <1>4 DEF ListInv

LEMMA QuietKeepsList ==
    ASSUME SyncTyped, ListInv, UNCHANGED <<note, folder, conv, msg, list>>
    PROVE  ListInv'
<1>1. \A i : Doc(i)' = Doc(i) BY DEF Doc
<1>2. QED BY <1>1 DEF ListInv

LEMMA ListsAreTyped ==
    ASSUME SyncTyped, UNCHANGED <<note, folder, conv, msg, now, call, made, copy, since, pull>>,
           list' \in ListType
    PROVE  SyncTyped'
BY DEF SyncTyped, StoresOK, CallsOK, ReadersOK

LEMMA OpenListKeeps ==
    ASSUME SyncTyped, NEW of \in ListNames, NEW place \in Places, OpenList(of, place)
    PROVE  SyncTyped' /\ ListInv' /\ UNCHANGED <<note, folder, conv, msg, copy, since, pull, missed, alone>>
<1>1. UNCHANGED <<note, folder, conv, msg, now, call, made, copy, since, pull, missed, alone>>
  BY DEF OpenList, allDocs, reader
<1>2. PICK steady : steady = Listed(of, place) OBVIOUS
<1>3. steady \subseteq Ids /\ \A i \in steady : ShownIn(of, place, NameOf(i), Doc(i)) BY <1>2, ListedIs
<1>4. list' = [NoList EXCEPT !.of = of, !.place = place, !.more = TRUE, !.steady = steady]
  BY <1>2 DEF OpenList
<1>5. /\ list' \in ListType /\ list'.of = of /\ list'.place = place /\ list'.steady = steady /\ list'.more
      /\ list'.cursor = 0
  BY <1>3, <1>4 DEF NoList, ListType
<1>6. "none" \notin ListNames BY DEF ListNames
<1>7. SyncTyped' BY <1>1, <1>5, ListsAreTyped
<1>8. \A i : Doc(i)' = Doc(i) BY <1>1 DEF Doc
<1>9. ListInv' BY <1>3, <1>5, <1>6, <1>8 DEF ListInv
<1>10. QED BY <1>1, <1>7, <1>9

LEMMA CloseListKeeps ==
    ASSUME SyncTyped, CloseList
    PROVE  SyncTyped' /\ ListInv' /\ UNCHANGED <<note, folder, conv, msg, copy, since, pull, missed, alone>>
<1>1. UNCHANGED <<note, folder, conv, msg, now, call, made, copy, since, pull, missed, alone>>
  BY DEF CloseList, allDocs, reader
<1>2. list' \in ListType /\ list'.of = "none" /\ ~list'.more BY DEF CloseList, NoList, ListType, Places
<1>3. SyncTyped' BY <1>1, <1>2, ListsAreTyped
<1>4. QED BY <1>1, <1>2, <1>3 DEF ListInv

\* The documents that a page is taken from.
LEMMA PagesAre ==
    ASSUME SyncTyped, list.of \in ListNames, NEW P \in Pages
    PROVE  \E C : /\ P \in Repo!PagesOf(C, Listed(list.of, list.place), ListLimit, list.cursor)
                  /\ \A i \in Listed(list.of, list.place) : C[i] = Doc(i)
<1>1. \A i \in Ids : /\ i \in Notes => Doc(i) = note[i] /\ (Live(i) <=> IsLive(note[i]))
                     /\ i \in Folders => Doc(i) = folder[i] /\ (Live(i) <=> IsLive(folder[i]))
                     /\ i \in Convs => Doc(i) = conv[i]
  BY DocIs, SyncAssumption DEF Doc, Ids
<1>2. Notes \subseteq Ids /\ Folders \subseteq Ids /\ Convs \subseteq Ids BY DEF Ids
<1>3. DOMAIN note = Notes /\ DOMAIN folder = Folders /\ DOMAIN conv = Convs BY DEF SyncTyped, StoresOK
<1>4. list.of \in {"notes", "folders", "trashNotes", "trashFolders", "trashConversations"}
  BY DEF ListNames
<1>5. CASE list.of = "notes"
  <2>1. Listed(list.of, list.place) = {n \in Notes : Live(n) /\ note[n].place = list.place}
    BY <1>5 DEF Listed
  <2>2. {n \in Repo!LiveIds(note) : note[n].place = list.place} = Listed(list.of, list.place)
    BY <1>1, <1>2, <1>3, <2>1 DEF Repo!LiveIds, Repo!Live, IsLive
  <2>3. P \in Repo!PagesOf(note, Listed(list.of, list.place), ListLimit, list.cursor)
    BY <1>5, <2>2 DEF Pages, Repo!listNotes
  <2>4. QED BY <1>1, <1>2, <2>1, <2>3
<1>6. CASE list.of = "folders"
  <2>1. Listed(list.of, list.place) = {f \in Folders : Live(f) /\ folder[f].place = list.place}
    BY <1>6 DEF Listed
  <2>2. {f \in Repo!LiveIds(folder) : folder[f].place = list.place} = Listed(list.of, list.place)
    BY <1>1, <1>2, <1>3, <2>1 DEF Repo!LiveIds, Repo!Live, IsLive
  <2>3. P \in Repo!PagesOf(folder, Listed(list.of, list.place), ListLimit, list.cursor)
    BY <1>6, <2>2 DEF Pages, Repo!listFolders
  <2>4. QED BY <1>1, <1>2, <2>1, <2>3
<1>7. CASE list.of = "trashNotes"
  <2>1. Listed(list.of, list.place) = Repo!TrashIds(note) /\ Repo!TrashIds(note) \subseteq Notes
    BY <1>3, <1>7 DEF Listed, Repo!TrashIds
  <2>2. P \in Repo!PagesOf(note, Listed(list.of, list.place), ListLimit, list.cursor)
    BY <1>7, <2>1 DEF Pages, Repo!listTrashNotes
  <2>3. QED BY <1>1, <1>2, <2>1, <2>2
<1>8. CASE list.of = "trashFolders"
  <2>1. Listed(list.of, list.place) = Repo!TrashIds(folder) /\ Repo!TrashIds(folder) \subseteq Folders
    BY <1>3, <1>8 DEF Listed, Repo!TrashIds
  <2>2. P \in Repo!PagesOf(folder, Listed(list.of, list.place), ListLimit, list.cursor)
    BY <1>8, <2>1 DEF Pages, Repo!listTrashFolders
  <2>3. QED BY <1>1, <1>2, <2>1, <2>2
<1>9. CASE list.of = "trashConversations"
  <2>1. Listed(list.of, list.place) = Chats!TrashIds(conv) /\ Chats!TrashIds(conv) \subseteq Convs
    BY <1>3, <1>9 DEF Listed, Chats!TrashIds
  <2>2. P \in Repo!PagesOf(conv, Listed(list.of, list.place), ListLimit, list.cursor)
    BY <1>9, <2>1, SamePages DEF Pages, Chats!listTrashByOwner
  <2>3. QED BY <1>1, <1>2, <2>1, <2>2
<1>10. QED BY <1>4, <1>5, <1>6, <1>7, <1>8, <1>9

LEMMA ReadPageKeeps ==
    ASSUME SyncTyped, ListInv, ReadPage
    PROVE  SyncTyped' /\ ListInv' /\ UNCHANGED <<note, folder, conv, msg, copy, since, pull, missed, alone>>
<1>1. UNCHANGED <<note, folder, conv, msg, now, call, made, copy, since, pull, missed, alone>>
  BY DEF ReadPage, allDocs, reader
<1>2. PICK P, next :
         /\ P \in Pages /\ next = CursorAfter(P, [i \in P |-> Doc(i)])
         /\ list' = [list EXCEPT !.seen = @ \cup P, !.cursor = next, !.more = next # 0,
                                 !.cursors = @ \cup {next}]
  BY DEF ReadPage
<1>3. list \in ListType /\ list.more BY DEF ReadPage, SyncTyped, ReadersOK
<1>4. list.of # "none" /\ list.of \in ListNames BY <1>3 DEF ListInv, ListType
<1>5. PICK shown : shown = Listed(list.of, list.place) OBVIOUS
<1>6. shown \subseteq Ids /\ \A i \in Ids : i \in shown <=> ShownIn(list.of, list.place, NameOf(i), Doc(i))
  BY <1>4, <1>5, ListedIs
<1>7. PICK C : P \in Repo!PagesOf(C, shown, ListLimit, list.cursor) /\ \A i \in shown : C[i] = Doc(i)
  BY <1>2, <1>4, <1>5, PagesAre
<1>8. IsFiniteSet(shown) BY <1>6, FS_Subset, SyncAssumption DEF Ids
<1>9. \A i \in shown : Doc(i).updatedAt \in Nat \ {0}
  <2> SUFFICES ASSUME NEW i \in shown PROVE Doc(i).updatedAt \in Nat \ {0}
    OBVIOUS
  <2>1. ShownIn(list.of, list.place, NameOf(i), Doc(i)) BY <1>6
  <2>2. Doc(i) # NULL BY <1>4, <2>1 DEF ShownIn, ListNames, IsLive
  <2>3. QED BY <1>6, <2>2, DocIs DEF DocOK
<1>10. P \subseteq shown BY <1>7 DEF Repo!PagesOf
<1>11. PICK D : D = [i \in P |-> Doc(i)] OBVIOUS
<1>12. \A i \in P : D[i] = C[i] BY <1>7, <1>10, <1>11
<1>13. next = Repo!NextCursorOf(D, P, ListLimit) BY <1>2, <1>11 DEF CursorAfter
<1>14. \A i \in shown : C[i].updatedAt \in Nat \ {0} BY <1>7, <1>9
<1>15. /\ next \in Nat
       /\ \A i \in shown : list.cursor = 0 \/ C[i].updatedAt < list.cursor =>
             i \in P \/ C[i].updatedAt = next \/ (next # 0 /\ C[i].updatedAt < next)
  BY <1>7, <1>8, <1>12, <1>13, <1>14, PageTakes, SyncAssumption
<1>16. /\ list' \in ListType /\ list'.of = list.of /\ list'.place = list.place
       /\ list'.steady = list.steady /\ list'.seen = list.seen \cup P
       /\ list'.cursor = next /\ (list'.more <=> next # 0) /\ list'.cursors = list.cursors \cup {next}
  BY <1>2, <1>3, <1>6, <1>10, <1>15 DEF ListType
<1>17. SyncTyped' BY <1>1, <1>16, ListsAreTyped
<1>18. \A i : Doc(i)' = Doc(i) BY <1>1 DEF Doc
<1>19. ListInv'
  <2> SUFFICES ASSUME NEW i \in list.steady
               PROVE  /\ ShownIn(list.of, list.place, NameOf(i), Doc(i))
                      /\ \/ i \in list'.seen \/ Doc(i).updatedAt \in list'.cursors
                         \/ list'.more /\ (list'.cursor = 0 \/ Doc(i).updatedAt < list'.cursor)
    BY <1>4, <1>16, <1>18 DEF ListInv
  <2>1. /\ ShownIn(list.of, list.place, NameOf(i), Doc(i))
        /\ \/ i \in list.seen \/ Doc(i).updatedAt \in list.cursors
           \/ list.cursor = 0 \/ Doc(i).updatedAt < list.cursor
    BY <1>4 DEF ListInv
  <2>2. i \in shown BY <1>3, <1>6, <2>1 DEF ListType
  <2>3. C[i] = Doc(i) BY <1>7, <2>2
  <2>4. QED BY <1>15, <1>16, <2>1, <2>2, <2>3
<1>20. QED BY <1>1, <1>17, <1>19

-----------------------------------------------------------------------------
(* The whole.                                                              *)

SyncInv == SyncTyped /\ PullInv /\ ListInv

StartsWith(kept, told) ==
    /\ copy = [d \in Devices |-> [i \in Ids |-> IF d \in told /\ i \in kept THEN 0 ELSE NULL]]
    /\ since = [d \in Devices |-> [k \in Kinds |-> IF d \in told THEN 1 ELSE 0]]

LEMMA StartsAre ==
    ASSUME NEW kept, NEW placeOf, InitWith(kept, placeOf) PROVE \E told : StartsWith(kept, told)
<1>1. \E told \in SUBSET Devices : StartsWith(kept, told) BY DEF InitWith, StartsWith
<1>2. QED BY <1>1

LEMMA InitIsTyped ==
    ASSUME NEW kept, NEW placeOf, \A m \in kept \cap Msgs : placeOf[m] = ConvOf[m], InitWith(kept, placeOf)
    PROVE  SyncTyped
<1> DEFINE stored(ids) == [i \in ids |-> IF i \in kept
                             THEN [New(placeOf[i], 0) EXCEPT !.createdAt = 1, !.updatedAt = 1] ELSE NULL]
<1>1. /\ note = stored(Notes) /\ folder = stored(Folders) /\ conv = stored(Convs) /\ msg = stored(Msgs)
      /\ now = 1 /\ call = [w \in Writers |-> NoCall] /\ list = NoList /\ made = 0
      /\ pull = [d \in Devices |-> NoPull]
  BY DEF InitWith
<1>2. ASSUME NEW ids PROVE DOMAIN stored(ids) = ids /\ DocsOK(stored(ids))
  <2>1. DOMAIN stored(ids) = ids OBVIOUS
  <2>2. ASSUME NEW i \in ids PROVE DocOK(stored(ids)[i])
    <3>1. DocOK([New(placeOf[i], 0) EXCEPT !.createdAt = 1, !.updatedAt = 1])
      BY DEF DocOK, HasFields, New
    <3>2. DocOK(NULL) BY DEF DocOK
    <3>3. QED BY <3>1, <3>2
  <2> HIDE DEF stored
  <2>3. QED BY <2>1, <2>2 DEF DocsOK
<1>3. InPlace(msg) BY <1>1 DEF InPlace, New
<1>4. StoresOK BY <1>1, <1>2, <1>3 DEF StoresOK
<1>5. CallsOK
  <2>1. CallOK(NoCall) BY DEF CallOK, NoCall
  <2>2. QED BY <1>1, <2>1 DEF CallsOK
<1>6. NoPull \in PullType /\ NoList \in ListType BY DEF NoPull, PullType, NoList, ListType, Places
<1>7. since \in [Devices -> [Kinds -> Nat]] /\ DOMAIN copy = Devices /\ \A d \in Devices : DOMAIN copy[d] = Ids
  <2>1. PICK told : StartsWith(kept, told) BY StartsAre
  <2>2. QED BY <2>1 DEF StartsWith
<1>8. ReadersOK
  <2> HIDE DEF stored
  <2>1. pull \in [Devices -> PullType] /\ list \in ListType /\ now \in Nat \ {0}
    <3>1. now \in Nat \ {0} BY <1>1
    <3>2. list \in ListType BY <1>1, <1>6
    <3>3. pull \in [Devices -> PullType] BY <1>1, <1>6
    <3>4. QED BY <3>1, <3>2, <3>3
  <2>2. QED BY <1>7, <2>1 DEF ReadersOK
<1>9. QED BY <1>4, <1>5, <1>8 DEF SyncTyped

LEMMA InitIsInv ==
    ASSUME NEW kept, NEW placeOf, \A m \in kept \cap Msgs : placeOf[m] = ConvOf[m], InitWith(kept, placeOf)
    PROVE  SyncInv
<1>1. SyncTyped BY InitIsTyped
<1>2. ListInv BY DEF InitWith, NoList, ListInv
<1> SUFFICES ASSUME NEW d \in Devices PROVE FoundIs(d) /\ ConvFound(d) /\ PullOK(d) /\ Brings(d)
  BY <1>1, <1>2 DEF SyncInv, PullInv
<1>3. pull[d].kinds = {} /\ pull[d].left = {} /\ \A i \in Ids : pull[d].found[i] = NULL
  BY DEF InitWith, NoPull
<1>4. FoundIs(d) /\ ConvFound(d) /\ PullOK(d) BY <1>3 DEF FoundIs, ConvFound, PullOK, Asked
<1>5. PICK told :
        /\ \A i \in Ids : copy[d][i] = IF d \in told /\ i \in kept THEN 0 ELSE NULL
        /\ \A k \in Kinds : since[d][k] = IF d \in told THEN 1 ELSE 0
  <2>1. PICK told : StartsWith(kept, told) BY StartsAre
  <2>2. QED BY <2>1 DEF StartsWith
<1>6. \A i \in Ids : Doc(i) = IF i \in kept
         THEN [New(placeOf[i], 0) EXCEPT !.createdAt = 1, !.updatedAt = 1] ELSE NULL
  BY SyncAssumption DEF InitWith, Doc, Ids
<1>7. \A i \in Ids : Live(i) => i \in kept /\ Doc(i).updatedAt = 1 /\ Doc(i).edit = 0
  BY <1>1, <1>6, DocIs DEF IsLive, New
<1>8. Brings(d)
  <2> SUFFICES ASSUME NEW i \in Ids, Lacks(d, i), i \in Msgs => Live(ConvOf[i]) PROVE Comes(d, i)
    BY DEF Brings
  <2>1. Live(i) /\ copy[d][i] # Doc(i).edit BY DEF Lacks
  <2>2. d \notin told BY <1>5, <1>7, <2>1
  <2>3. since[d][KindOf(i)] = 0 /\ since[d]["chat"] = 0 BY <1>5, <2>2, NamesAre DEF Kinds
  <2>4. Doc(i).updatedAt = 1 BY <1>7, <2>1
  <2>5. i \in Msgs => ConvOf[i] \in Ids /\ Doc(ConvOf[i]) = conv[ConvOf[i]]
    BY SyncAssumption DEF Ids, Doc
  <2>6. i \in Msgs => conv[ConvOf[i]].updatedAt = 1 BY <1>7, <2>5
  <2>7. QED BY <2>3, <2>4, <2>6 DEF Comes
<1>9. QED BY <1>4, <1>8

LEMMA TickKeeps ==
    ASSUME SyncInv, Tick
    PROVE  SyncInv'
<1>1. now \in Nat \ {0} /\ now' = now + 1 BY DEF Tick, SyncInv, SyncTyped, ReadersOK
<1>2. now' \in Nat \ {0} BY <1>1
<1>3. UNCHANGED <<note, folder, conv, msg, call, made, copy, since, pull, list, missed, alone>>
  BY DEF Tick, allDocs, reader
<1>4. SyncTyped' BY <1>2, <1>3 DEF SyncInv, SyncTyped, StoresOK, CallsOK, ReadersOK
<1>5. QED BY <1>3, <1>4, QuietKeepsPulls, QuietKeepsList DEF SyncInv

LEMMA SyncSteps ==
    ASSUME SyncInv, [SyncNext]_syncVars
    PROVE  SyncInv'
<1>0. SyncTyped /\ PullInv /\ ListInv BY DEF SyncInv
<1>1. ASSUME NEW w \in Writers, WriteNotes(w) \/ WriteChats(w) \/ WritePush(w) \/ Commit(w) \/ Fail(w)
      PROVE  SyncInv'
  <2>1. SyncTyped' /\ (Quiet \/ \E written : Commits(w, written)) BY <1>0, <1>1, WriterSteps
  <2>2. CASE Quiet BY <1>0, <2>1, <2>2, QuietKeepsPulls, QuietKeepsList DEF SyncInv, Quiet
  <2>3. CASE \E written : Commits(w, written)
    BY <1>0, <2>1, <2>3, CommitKeepsPulls, CommitKeepsList DEF SyncInv
  <2>4. QED BY <2>1, <2>2, <2>3
<1>2. ASSUME NEW d \in Devices,
             \/ \E kinds \in (SUBSET Kinds) \ {{}} : StartPull(d, kinds)
             \/ \E name \in Collections(Kinds) : Query(d, name)
             \/ ReceivePull(d) \/ LosePull(d)
      PROVE  SyncInv'
  <2>1. SyncTyped' /\ PullInv' /\ list' = list
    BY <1>0, <1>2, StartPullKeeps, QueryKeeps, ReceiveKeeps, LoseKeeps
  <2>2. UNCHANGED <<note, folder, conv, msg>>
    BY <1>2 DEF StartPull, Query, ReceivePull, LosePull, allDocs
  <2>3. QED BY <1>0, <2>1, <2>2, QuietKeepsList DEF SyncInv
<1>3. ASSUME NEW of \in ListNames, NEW f \in ListPlaces(of), OpenList(of, f) PROVE SyncInv'
  <2>1. f \in Places BY DEF ListPlaces, Targets, Places
  <2>2. QED BY <1>0, <1>3, <2>1, OpenListKeeps, QuietKeepsPulls DEF SyncInv
<1>4. CASE ReadPage BY <1>0, <1>4, ReadPageKeeps, QuietKeepsPulls DEF SyncInv
<1>5. CASE CloseList BY <1>0, <1>5, CloseListKeeps, QuietKeepsPulls DEF SyncInv
<1>6. CASE Tick BY <1>6, TickKeeps
<1>7. CASE UNCHANGED syncVars
  <2>1. UNCHANGED <<note, folder, conv, msg, now, call, made, copy, since, pull, list, missed, alone>>
    BY <1>7 DEF syncVars, allDocs, reader
  <2>2. SyncTyped' BY <1>0, <2>1 DEF SyncTyped, StoresOK, CallsOK, ReadersOK
  <2>3. QED BY <1>0, <2>1, <2>2, QuietKeepsPulls, QuietKeepsList DEF SyncInv
<1>8. QED BY <1>1, <1>2, <1>3, <1>4, <1>5, <1>6, <1>7 DEF SyncNext

LEMMA InvShows == ASSUME SyncInv PROVE OnlyOverlapsAndTiesAreMissed
BY DEF SyncInv, PullInv, Brings, ListInv, OnlyOverlapsAndTiesAreMissed, PullMissesOnlyOverlaps,
       ListMissesOnlyTies

\* Whatever the requests that write and however their writes overlap (NoteService,
\* ChatManagementService, SyncService.push), the pulls of a device miss for good only
\* what the property names, and a list read to its end only ties with the end of a
\* page.  Messages are kept with their conversations.
THEOREM ReadersMissOnlyOverlaps ==
    ASSUME NEW CONSTANT kept, NEW CONSTANT placeOf, \A m \in kept \cap Msgs : placeOf[m] = ConvOf[m]
    PROVE  InitWith(kept, placeOf) /\ [][SyncNext]_syncVars => []OnlyOverlapsAndTiesAreMissed
<1>1. InitWith(kept, placeOf) => SyncInv BY InitIsInv
<1>2. SyncInv /\ [SyncNext]_syncVars => SyncInv' BY SyncSteps
<1>3. SyncInv => OnlyOverlapsAndTiesAreMissed BY InvShows
<1>4. QED BY <1>1, <1>2, <1>3, PTL

-----------------------------------------------------------------------------
(* The cached pages of Notion: what a fetch has read, and what a page that *)
(* is not stale holds, is what Notion has, or an event that will tell of   *)
(* the change has not been handled yet for its user.                       *)

Revision == [rev : Nat, is : {"nowhere", "there", "in trash"}]
PageEvent == [page : NotionPages, type : Workspace!EventTypes, rev : Nat]
Handler(us) == [event : PageEvent \cup {NULL}, at : {"idle", "find", "write"}, users : SUBSET us]
Fetch(us) == [user : us \cup {NULL}, page : NotionPages \cup {NULL}, got : Seq(Revision),
              rest : SUBSET NotionPages, fresh : BOOLEAN]
CachedPage(us) == [owner : us, title : Revision \cup {NULL}, blockTree : Seq(Revision), stale : BOOLEAN,
                   deleted : BOOLEAN, integration : BOOLEAN]

PagesTyped ==
    /\ notion \in [NotionPages -> Revision] /\ events \subseteq PageEvent
    /\ DOMAIN cache = NotionPages
    /\ \A p \in NotionPages : cache[p] # NULL =>
         cache[p] \in CachedPage(linked) /\ (~cache[p].stale => cache[p].title \in Revision)
    /\ hook \in [Hooks -> Handler(linked)]
    /\ \A h \in Hooks : /\ hook[h].at # "idle" => hook[h].event \in PageEvent
                        /\ hook[h].at = "idle" => hook[h] = Workspace!NoHook
    /\ job \in [Jobs -> Fetch(linked)]
    /\ \A j \in Jobs : job[j] # Workspace!NoJob => job[j].user \in linked /\ job[j].page \in NotionPages

\* A handler that has an event of p and has not come to user u.
Hands(doc, p, u) ==
    doc.at # "idle" /\ doc.event.page = p /\ (doc.at = "find" \/ u \in doc.users)

\* An event of p after revision r that the writes for user u have not come to.
Tells(es, hs, p, u, r) ==
    \/ \E e \in es : e.page = p /\ e.rev > r
    \/ \E h \in Hooks : Hands(hs[h], p, u) /\ hs[h].event.rev > r

Known(n, es, hs, p, u, a) == a.rev <= n[p].rev /\ (a = n[p] \/ Tells(es, hs, p, u, a.rev))
KnownAll(n, es, hs, p, u, answers) ==
    \A i \in 1..Len(answers) : Known(n, es, hs, p, u, answers[i])

PageKnown(n, es, hs, p, doc) ==
    doc # NULL /\ ~doc.stale /\ ~doc.deleted =>
        Known(n, es, hs, p, doc.owner, doc.title) /\ KnownAll(n, es, hs, p, doc.owner, doc.blockTree)

PagesKnown ==
    /\ \A p \in NotionPages \ suspect : PageKnown(notion, events, hook, p, cache[p])
    /\ \A j \in Jobs : job[j].fresh => KnownAll(notion, events, hook, job[j].page, job[j].user, job[j].got)

PagesInv == PagesTyped /\ PagesKnown

\* A fetch with answers runs.
LEMMA FetchRuns ==
    ASSUME PagesTyped, NEW j \in Jobs, job[j] # Workspace!NoJob \/ Len(job[j].got) # 0
    PROVE  job[j].user \in linked /\ job[j].page \in NotionPages
<1>1. Len(Workspace!NoJob.got) = 0 BY DEF Workspace!NoJob
<1>2. QED BY <1>1 DEF PagesTyped

\* What is known of an answer stays so, as long as its event is not handled.
Longer(p, u) ==
    /\ notion' = notion /\ events \subseteq events'
    /\ \A h \in Hooks : Hands(hook[h], p, u) => Hands(hook'[h], p, u) /\ hook'[h].event = hook[h].event

LEMMA KnownLonger ==
    ASSUME NEW p, NEW u, Longer(p, u)
    PROVE  /\ \A a : Known(notion, events, hook, p, u, a) => Known(notion', events', hook', p, u, a)
           /\ \A s : KnownAll(notion, events, hook, p, u, s) => KnownAll(notion', events', hook', p, u, s)
<1>1. \A r : Tells(events, hook, p, u, r) => Tells(events', hook', p, u, r) BY DEF Tells, Longer
<1>2. \A a : Known(notion, events, hook, p, u, a) => Known(notion', events', hook', p, u, a)
  BY <1>1 DEF Known, Longer
<1>3. QED BY <1>2 DEF KnownAll

LEMMA SameIsLonger == ASSUME NEW p, NEW u, UNCHANGED <<notion, events, hook>> PROVE Longer(p, u)
BY DEF Longer

\* A step that changes neither the cached pages nor the fetches.
LEMMA SteadyPages ==
    ASSUME PagesInv, UNCHANGED <<cache, job, suspect>>,
           \A p \in NotionPages, u \in linked :
              /\ \A a \in Revision :
                    Known(notion, events, hook, p, u, a) => Known(notion', events', hook', p, u, a)
              /\ \A s \in Seq(Revision) :
                    KnownAll(notion, events, hook, p, u, s) => KnownAll(notion', events', hook', p, u, s)
    PROVE  PagesKnown'
<1>1. ASSUME NEW p \in NotionPages \ suspect PROVE PageKnown(notion', events', hook', p, cache[p])
  <2> SUFFICES ASSUME cache[p] # NULL, ~cache[p].stale, ~cache[p].deleted
               PROVE  /\ Known(notion', events', hook', p, cache[p].owner, cache[p].title)
                      /\ KnownAll(notion', events', hook', p, cache[p].owner, cache[p].blockTree)
    BY DEF PageKnown
  <2>1. /\ cache[p].owner \in linked /\ cache[p].title \in Revision /\ cache[p].blockTree \in Seq(Revision)
    BY DEF PagesInv, PagesTyped, CachedPage
  <2>2. /\ Known(notion, events, hook, p, cache[p].owner, cache[p].title)
        /\ KnownAll(notion, events, hook, p, cache[p].owner, cache[p].blockTree)
    BY DEF PagesInv, PagesKnown, PageKnown
  <2>3. QED BY <2>1, <2>2
<1>2. ASSUME NEW j \in Jobs, job[j].fresh
      PROVE  KnownAll(notion', events', hook', job[j].page, job[j].user, job[j].got)
  <2>1. KnownAll(notion, events, hook, job[j].page, job[j].user, job[j].got)
    BY <1>2 DEF PagesInv, PagesKnown
  <2>2. job[j].got \in Seq(Revision) BY DEF PagesInv, PagesTyped, Fetch
  <2>3. CASE Len(job[j].got) # 0
    <3>1. job[j].user \in linked /\ job[j].page \in NotionPages BY <2>3, FetchRuns DEF PagesInv
    <3>2. QED BY <2>1, <2>2, <3>1
  <2>4. CASE Len(job[j].got) = 0 BY <2>4 DEF KnownAll
  <2>5. QED BY <2>3, <2>4
<1>3. QED BY <1>1, <1>2 DEF PagesKnown

LEMMA LongerPages ==
    ASSUME PagesInv, UNCHANGED <<cache, job, suspect>>,
           \A p \in NotionPages, u \in linked : Longer(p, u)
    PROVE  PagesKnown'
BY KnownLonger, SteadyPages

LEMMA ChangeKeeps ==
    ASSUME PagesInv, NEW p \in NotionPages, NEW type \in Workspace!EventTypes, Workspace!Change(p, type)
    PROVE  PagesInv'
<1>1. PICK new : new = [rev |-> notion[p].rev + 1,
                        is |-> IF type = "page.deleted" THEN "in trash" ELSE "there"] OBVIOUS
<1>2. PICK e : e = [page |-> p, type |-> type, rev |-> notion[p].rev + 1] OBVIOUS
<1>3. /\ notion' = [notion EXCEPT ![p] = new] /\ events' = events \cup {e}
      /\ UNCHANGED <<linked, cache, hook, job, suspect>>
  BY <1>1, <1>2 DEF Workspace!Change
<1>4. notion[p].rev \in Nat /\ \A a \in Revision : a.rev \in Nat
  BY DEF PagesInv, PagesTyped, Revision
<1>5. new.rev = notion[p].rev + 1 /\ e.page = p /\ e.rev = notion[p].rev + 1 BY <1>1, <1>2
<1>6. notion[p].rev + 1 \in Nat BY <1>4
<1>7. new \in Revision /\ e \in PageEvent
  <2>1. new \in Revision BY <1>1, <1>6 DEF Revision
  <2>2. e \in PageEvent BY <1>2, <1>6 DEF PageEvent
  <2>3. QED BY <2>1, <2>2
<1>8. PagesTyped'
  <2>1. notion' \in [NotionPages -> Revision] /\ events' \subseteq PageEvent
    BY <1>3, <1>7 DEF PagesInv, PagesTyped
  <2>2. QED BY <1>3, <2>1 DEF PagesInv, PagesTyped
<1>9. ASSUME NEW q \in NotionPages, NEW u \in linked, NEW a \in Revision,
             Known(notion, events, hook, q, u, a)
      PROVE  Known(notion', events', hook', q, u, a)
  <2>1. Tells(events, hook, q, u, a.rev) => Tells(events', hook', q, u, a.rev) BY <1>3 DEF Tells
  <2>2. CASE q = p
    <3>1. a.rev <= notion[p].rev /\ a.rev \in Nat BY <1>4, <1>9, <2>2 DEF Known
    <3>2. e.rev > a.rev /\ a.rev <= new.rev BY <1>4, <1>5, <3>1
    <3>3. Tells(events', hook', q, u, a.rev) BY <1>3, <1>5, <2>2, <3>2 DEF Tells
    <3>4. notion'[p] = new BY <1>3 DEF PagesInv, PagesTyped
    <3>5. QED BY <2>2, <3>2, <3>3, <3>4 DEF Known
  <2>3. CASE q # p
    <3>1. notion'[q] = notion[q] BY <1>3, <2>3 DEF PagesInv, PagesTyped
    <3>2. QED BY <1>9, <2>1, <3>1 DEF Known
  <2>4. QED BY <2>2, <2>3
<1>10. ASSUME NEW q \in NotionPages, NEW u \in linked, NEW s \in Seq(Revision),
             KnownAll(notion, events, hook, q, u, s)
      PROVE  KnownAll(notion', events', hook', q, u, s)
  <2>1. \A i \in 1..Len(s) : s[i] \in Revision OBVIOUS
  <2>2. QED BY <1>9, <1>10, <2>1 DEF KnownAll
<1>11. PagesKnown' BY <1>3, <1>9, <1>10, SteadyPages
<1>12. QED BY <1>8, <1>11 DEF PagesInv

LEMMA ConnectKeeps ==
    ASSUME PagesInv, NEW u \in Owners, Workspace!Connect(u)
    PROVE  PagesInv'
<1>1. linked \subseteq linked' /\ UNCHANGED <<notion, events, cache, hook, job, fetches, pageFaults, suspect>>
  BY DEF Workspace!Connect, Workspace!upsertByUserAndWorkspace
<1>2. PagesTyped'
  <2>1. hook' \in [Hooks -> Handler(linked')]
    <3>1. Handler(linked) \subseteq Handler(linked') BY <1>1 DEF Handler
    <3>2. QED BY <1>1, <3>1 DEF PagesInv, PagesTyped
  <2>2. job' \in [Jobs -> Fetch(linked')]
    <3>1. Fetch(linked) \subseteq Fetch(linked') BY <1>1 DEF Fetch
    <3>2. QED BY <1>1, <3>1 DEF PagesInv, PagesTyped
  <2>3. CachedPage(linked) \subseteq CachedPage(linked') BY <1>1 DEF CachedPage
  <2>4. QED BY <1>1, <2>1, <2>2, <2>3 DEF PagesInv, PagesTyped
<1>3. PagesKnown' BY <1>1, SameIsLonger, LongerPages
<1>4. QED BY <1>2, <1>3 DEF PagesInv

LEMMA DeliverKeeps ==
    ASSUME PagesInv, NEW h \in Hooks, NEW e \in events, Workspace!Deliver(h, e)
    PROVE  PagesInv'
<1>1. PICK new : new = [Workspace!NoHook EXCEPT !.event = e, !.at = "find"] OBVIOUS
<1>2. /\ hook[h] = Workspace!NoHook /\ hook' = [hook EXCEPT ![h] = new]
      /\ events' = events \ {e} \/ events' = events
      /\ UNCHANGED <<notion, linked, cache, job, fetches, suspect>>
  BY <1>1 DEF Workspace!Deliver, Workspace!Handling
<1>3. e \in PageEvent /\ new \in Handler(linked) /\ new.at = "find" /\ new.event = e
  BY <1>1 DEF PagesInv, PagesTyped, Handler, Workspace!NoHook
<1>4. hook[h].at = "idle" BY <1>2 DEF Workspace!NoHook
<1>5. hook'[h] = new /\ \A g \in Hooks \ {h} : hook'[g] = hook[g]
  BY <1>2 DEF PagesInv, PagesTyped
<1>6. PagesTyped'
  <2>1. hook' \in [Hooks -> Handler(linked)] BY <1>2, <1>3 DEF PagesInv, PagesTyped
  <2>2. \A g \in Hooks : /\ hook'[g].at # "idle" => hook'[g].event \in PageEvent
                         /\ hook'[g].at = "idle" => hook'[g] = Workspace!NoHook
    BY <1>3, <1>5 DEF PagesInv, PagesTyped
  <2>3. events' \subseteq PageEvent BY <1>2 DEF PagesInv, PagesTyped
  <2>4. QED BY <1>2, <2>1, <2>2, <2>3 DEF PagesInv, PagesTyped
<1>7. ASSUME NEW p, NEW u, NEW r, Tells(events, hook, p, u, r) PROVE Tells(events', hook', p, u, r)
  <2>1. CASE \E f \in events \ {e} : f.page = p /\ f.rev > r BY <1>2, <2>1 DEF Tells
  <2>2. CASE e.page = p /\ e.rev > r BY <1>3, <1>5, <2>2 DEF Tells, Hands
  <2>3. CASE \E g \in Hooks : Hands(hook[g], p, u) /\ hook[g].event.rev > r
    BY <1>4, <1>5, <2>3 DEF Tells, Hands
  <2>4. QED BY <1>7, <2>1, <2>2, <2>3 DEF Tells
<1>8. PagesKnown' BY <1>2, <1>7, SteadyPages DEF Known, KnownAll
<1>9. QED BY <1>6, <1>8 DEF PagesInv

LEMMA FindKeeps ==
    ASSUME PagesInv, NEW h \in Hooks, Workspace!FindIntegrations(h)
    PROVE  PagesInv'
<1>1. PICK new : new = IF linked = {} THEN Workspace!NoHook
                       ELSE [hook[h] EXCEPT !.at = "write", !.users = linked] OBVIOUS
<1>2. /\ hook[h].at = "find" /\ hook' = [hook EXCEPT ![h] = new]
      /\ UNCHANGED <<notion, events, linked, cache, job, fetches, suspect>>
  BY <1>1 DEF Workspace!FindIntegrations, Workspace!findByNotionWorkspaceId
<1>3. hook[h] \in Handler(linked) /\ hook[h].event \in PageEvent BY <1>2 DEF PagesInv, PagesTyped
<1>4. /\ new \in Handler(linked) /\ (new.at # "idle" => new.event \in PageEvent)
      /\ (new.at = "idle" => new = Workspace!NoHook)
      /\ (linked # {} => new.at = "write" /\ new.users = linked /\ new.event = hook[h].event)
  BY <1>1, <1>3 DEF Handler, Workspace!NoHook
<1>5. hook'[h] = new /\ \A g \in Hooks \ {h} : hook'[g] = hook[g]
  BY <1>2 DEF PagesInv, PagesTyped
<1>6. PagesTyped'
  <2>1. hook' \in [Hooks -> Handler(linked)] BY <1>2, <1>4 DEF PagesInv, PagesTyped
  <2>2. \A g \in Hooks : /\ hook'[g].at # "idle" => hook'[g].event \in PageEvent
                         /\ hook'[g].at = "idle" => hook'[g] = Workspace!NoHook
    BY <1>4, <1>5 DEF PagesInv, PagesTyped
  <2>3. QED BY <1>2, <2>1, <2>2 DEF PagesInv, PagesTyped
<1>7. ASSUME NEW p, NEW u \in linked PROVE Longer(p, u)
  <2>1. new.at = "write" /\ u \in new.users /\ new.event = hook[h].event BY <1>4
  <2>2. QED BY <1>2, <1>5, <2>1 DEF Longer, Hands
<1>8. PagesKnown' BY <1>2, <1>7, LongerPages
<1>9. QED BY <1>6, <1>8 DEF PagesInv

\* A handler's write for one user, done or failed.
LEMMA DoneForIs ==
    ASSUME PagesTyped, NEW h \in Hooks, NEW u \in hook[h].users, hook[h].at = "write",
           Workspace!DoneFor(h, u), events' = events, linked' = linked, notion' = notion
    PROVE  /\ hook' \in [Hooks -> Handler(linked')] /\ hook[h].event \in PageEvent
           /\ \A g \in Hooks : /\ hook'[g].at # "idle" => hook'[g].event \in PageEvent
                               /\ hook'[g].at = "idle" => hook'[g] = Workspace!NoHook
           /\ \A p, v : (hook[h].event.page = p /\ v = u) \/ Longer(p, v)
<1>1. PICK users : users = hook[h].users \ {u} OBVIOUS
<1>2. PICK new : new = IF users = {} THEN Workspace!NoHook ELSE [hook[h] EXCEPT !.users = users] OBVIOUS
<1>3. hook' = [hook EXCEPT ![h] = new] BY <1>1, <1>2 DEF Workspace!DoneFor
<1>4. hook[h] \in Handler(linked) /\ hook[h].event \in PageEvent BY DEF PagesTyped
<1>5. users \subseteq linked BY <1>1, <1>4 DEF Handler
<1>6. /\ new \in Handler(linked) /\ (new.at # "idle" => new.event \in PageEvent)
      /\ (new.at = "idle" => new = Workspace!NoHook)
      /\ (users # {} => new.at = "write" /\ new.users = users /\ new.event = hook[h].event)
  BY <1>2, <1>4, <1>5 DEF Handler, Workspace!NoHook
<1>7. hook'[h] = new /\ \A g \in Hooks \ {h} : hook'[g] = hook[g] BY <1>3 DEF PagesTyped
<1>8. hook' \in [Hooks -> Handler(linked')] BY <1>3, <1>6 DEF PagesTyped
<1>9. \A g \in Hooks : /\ hook'[g].at # "idle" => hook'[g].event \in PageEvent
                       /\ hook'[g].at = "idle" => hook'[g] = Workspace!NoHook
  BY <1>6, <1>7 DEF PagesTyped
<1>10. ASSUME NEW p, NEW v, ~(hook[h].event.page = p /\ v = u) PROVE Longer(p, v)
  <2>1. ASSUME Hands(hook[h], p, v) PROVE Hands(new, p, v) /\ new.event = hook[h].event
    <3>1. v \in users /\ hook[h].event.page = p BY <1>1, <1>10, <2>1 DEF Hands
    <3>2. QED BY <1>6, <3>1 DEF Hands
  <2>2. QED BY <1>7, <2>1 DEF Longer
<1>11. QED BY <1>4, <1>8, <1>9, <1>10

\* A fetch that has begun to read the page no longer counts.
LEMMA OvertakenIs ==
    ASSUME PagesInv, NEW p \in NotionPages, job' = Workspace!Overtaken(p), linked' = linked,
           \A q \in NotionPages \ {p}, v \in linked : Longer(q, v)
    PROVE  /\ job' \in [Jobs -> Fetch(linked')]
           /\ \A j \in Jobs : job'[j] # Workspace!NoJob => job'[j].user \in linked' /\ job'[j].page \in NotionPages
           /\ \A j \in Jobs : job'[j].fresh =>
                KnownAll(notion', events', hook', job'[j].page, job'[j].user, job'[j].got)
<1>1. ASSUME NEW j \in Jobs
      PROVE  /\ job'[j] \in Fetch(linked) /\ job'[j].user = job[j].user /\ job'[j].page = job[j].page
             /\ job'[j].got = job[j].got
             /\ job'[j].fresh <=> job[j].fresh /\ ~(job[j].page = p /\ job[j].got # <<>>)
             /\ job[j] = Workspace!NoJob => job'[j] = Workspace!NoJob
  <2>1. job[j] \in Fetch(linked) BY DEF PagesInv, PagesTyped
  <2>2. PICK f : f = (job[j].fresh /\ ~(job[j].page = p /\ job[j].got # <<>>)) OBVIOUS
  <2>3. f \in BOOLEAN BY <2>2
  <2>4. job'[j] = [job[j] EXCEPT !.fresh = f] BY <2>2 DEF Workspace!Overtaken
  <2>5. /\ job'[j] \in Fetch(linked) /\ job'[j].user = job[j].user /\ job'[j].page = job[j].page
        /\ job'[j].got = job[j].got /\ job'[j].fresh = f
    BY <2>1, <2>3, <2>4 DEF Fetch
  <2>6. ASSUME job[j] = Workspace!NoJob PROVE job'[j] = Workspace!NoJob
    <3>1. Workspace!NoJob.fresh = TRUE /\ Workspace!NoJob.got = <<>> BY DEF Workspace!NoJob
    <3>2. f = TRUE BY <2>2, <2>6, <3>1
    <3>3. /\ job'[j].user = job[j].user /\ job'[j].page = job[j].page /\ job'[j].got = job[j].got
          /\ job'[j].rest = job[j].rest /\ job'[j].fresh = job[j].fresh
      BY <2>1, <2>4, <2>6, <3>1, <3>2 DEF Fetch
    <3>4. job'[j] = job[j] BY <2>1, <2>5, <3>3 DEF Fetch
    <3>5. QED BY <2>6, <3>4
  <2>7. QED BY <2>2, <2>5, <2>6
<1>2. job' \in [Jobs -> Fetch(linked')]
  <2>1. job' = [j \in Jobs |-> job'[j]] BY DEF Workspace!Overtaken
  <2>2. \A j \in Jobs : job'[j] \in Fetch(linked') BY <1>1
  <2>3. QED BY <2>1, <2>2
<1>3. \A j \in Jobs : job'[j] # Workspace!NoJob => job'[j].user \in linked' /\ job'[j].page \in NotionPages
  BY <1>1 DEF PagesInv, PagesTyped
<1>4. ASSUME NEW j \in Jobs, job'[j].fresh
      PROVE  KnownAll(notion', events', hook', job[j].page, job[j].user, job[j].got)
  <2>1. job[j].fresh /\ (job[j].page # p \/ job[j].got = <<>>) BY <1>1, <1>4
  <2>2. KnownAll(notion, events, hook, job[j].page, job[j].user, job[j].got)
    BY <2>1 DEF PagesInv, PagesKnown
  <2>3. CASE Len(job[j].got) = 0 BY <2>3 DEF KnownAll
  <2>4. CASE Len(job[j].got) # 0
    <3>1. job[j].user \in linked /\ job[j].page \in NotionPages BY <2>4, FetchRuns DEF PagesInv
    <3>2. Len(<<>>) = 0 OBVIOUS
    <3>3. job[j].page # p BY <2>1, <2>4, <3>2
    <3>4. QED BY <2>2, <3>1, <3>3, KnownLonger
  <2>5. QED BY <2>3, <2>4
<1>5. QED BY <1>1, <1>2, <1>3, <1>4

LEMMA SamePage ==
    ASSUME PagesInv, NEW q \in NotionPages, q \notin suspect, cache'[q] = cache[q],
           cache[q] # NULL => Longer(q, cache[q].owner)
    PROVE  PageKnown(notion', events', hook', q, cache'[q])
<1>1. PageKnown(notion, events, hook, q, cache[q]) BY DEF PagesInv, PagesKnown
<1>2. QED BY <1>1, KnownLonger DEF PageKnown

LEMMA WriteKeeps ==
    ASSUME PagesInv, NEW h \in Hooks, NEW u \in Owners, Workspace!WriteFor(h, u)
    PROVE  PagesInv'
<1>1. PICK p : p = hook[h].event.page OBVIOUS
<1>2. PICK type : type = hook[h].event.type OBVIOUS
<1>3. PICK doc : doc = IF type \in Workspace!PAGE_DELETE_EVENT_TYPES THEN Workspace!softDeletePage(p, u)
                       ELSE IF type \in Workspace!PAGE_SYNC_EVENT_TYPES THEN Workspace!markAsStale(p, u)
                       ELSE cache[p] OBVIOUS
<1>4. /\ hook[h].at = "write" /\ u \in hook[h].users /\ Workspace!DoneFor(h, u)
      /\ cache' = [cache EXCEPT ![p] = doc] /\ job' = Workspace!Overtaken(p)
      /\ UNCHANGED <<notion, events, linked, fetches, suspect>>
  BY <1>1, <1>2, <1>3 DEF Workspace!WriteFor
<1>5. /\ hook' \in [Hooks -> Handler(linked')] /\ hook[h].event \in PageEvent
      /\ \A g \in Hooks : /\ hook'[g].at # "idle" => hook'[g].event \in PageEvent
                          /\ hook'[g].at = "idle" => hook'[g] = Workspace!NoHook
      /\ \A q, v : (hook[h].event.page = q /\ v = u) \/ Longer(q, v)
  BY <1>4, DoneForIs DEF PagesInv
<1>6. p \in NotionPages /\ type \in Workspace!EventTypes BY <1>1, <1>2, <1>5 DEF PageEvent
<1>7. u \in linked BY <1>4 DEF PagesInv, PagesTyped, Handler
<1>8. /\ job' \in [Jobs -> Fetch(linked')]
      /\ \A j \in Jobs : job'[j] # Workspace!NoJob => job'[j].user \in linked' /\ job'[j].page \in NotionPages
      /\ \A j \in Jobs : job'[j].fresh =>
           KnownAll(notion', events', hook', job'[j].page, job'[j].user, job'[j].got)
  BY <1>1, <1>4, <1>5, <1>6, OvertakenIs
<1>9. cache'[p] = doc /\ \A q \in NotionPages \ {p} : cache'[q] = cache[q] /\ DOMAIN cache' = NotionPages
  BY <1>4, <1>6 DEF PagesInv, PagesTyped
<1>10. /\ doc # NULL => doc \in CachedPage(linked) /\ (~doc.stale => doc.title \in Revision)
       /\ \/ doc = NULL \/ doc.stale \/ doc.deleted
          \/ doc = cache[p] /\ cache[p].owner # u
  <2>1. \/ type \in Workspace!PAGE_DELETE_EVENT_TYPES
        \/ type \notin Workspace!PAGE_DELETE_EVENT_TYPES /\ type \in Workspace!PAGE_SYNC_EVENT_TYPES
    BY <1>6 DEF Workspace!EventTypes, Workspace!PAGE_DELETE_EVENT_TYPES, Workspace!PAGE_SYNC_EVENT_TYPES
  <2>2. cache[p] # NULL => cache[p] \in CachedPage(linked) /\ (~cache[p].stale => cache[p].title \in Revision)
    BY <1>6 DEF PagesInv, PagesTyped
  <2>3. CASE cache[p] = NULL
    <3>1. PICK first : first = [owner |-> u, title |-> NULL, blockTree |-> <<>>, stale |-> TRUE,
                                deleted |-> FALSE, integration |-> FALSE] OBVIOUS
    <3>2. doc = NULL \/ doc = first
      BY <1>3, <2>1, <2>3, <3>1
         DEF Workspace!softDeletePage, Workspace!markAsStale, Workspace!OwnedBy
    <3>3. <<>> \in Seq(Revision) OBVIOUS
    <3>4. first \in CachedPage(linked) /\ first.stale BY <1>7, <3>1, <3>3 DEF CachedPage
    <3>5. QED BY <3>2, <3>4
  <2>4. CASE cache[p] # NULL /\ cache[p].owner = u
    <3>1. PICK gone : gone = [cache[p] EXCEPT !.deleted = TRUE] OBVIOUS
    <3>2. PICK marked : marked = [cache[p] EXCEPT !.stale = TRUE] OBVIOUS
    <3>3. doc = gone \/ doc = marked
      BY <1>3, <2>1, <2>4, <3>1, <3>2
         DEF Workspace!softDeletePage, Workspace!markAsStale, Workspace!OwnedBy
    <3>4. cache[p] \in CachedPage(linked) /\ (~cache[p].stale => cache[p].title \in Revision)
      BY <2>2, <2>4
    <3>5. /\ gone \in CachedPage(linked) /\ gone.deleted
          /\ ~gone.stale => gone.title \in Revision
      BY <3>1, <3>4 DEF CachedPage
    <3>6. marked \in CachedPage(linked) /\ marked.stale BY <3>2, <3>4 DEF CachedPage
    <3>7. QED BY <3>3, <3>5, <3>6
  <2>5. CASE cache[p] # NULL /\ cache[p].owner # u
    <3>1. doc = cache[p]
      BY <1>3, <2>1, <2>5 DEF Workspace!softDeletePage, Workspace!markAsStale, Workspace!OwnedBy
    <3>2. QED BY <2>2, <2>5, <3>1
  <2>6. QED BY <2>3, <2>4, <2>5
<1>11. PagesTyped' BY <1>4, <1>5, <1>8, <1>9, <1>10 DEF PagesInv, PagesTyped
<1>12. ASSUME NEW q \in NotionPages, q \notin suspect PROVE PageKnown(notion', events', hook', q, cache'[q])
  <2>1. CASE q = p
    <3>1. CASE doc = NULL \/ doc.stale \/ doc.deleted BY <1>9, <2>1, <3>1 DEF PageKnown
    <3>2. CASE doc = cache[p] /\ cache[p].owner # u BY <1>5, <1>9, <1>12, <2>1, <3>2, SamePage
    <3>3. QED BY <1>10, <3>1, <3>2
  <2>2. CASE q # p BY <1>1, <1>5, <1>9, <1>12, <2>2, SamePage
  <2>3. QED BY <2>1, <2>2
<1>13. PagesKnown' BY <1>4, <1>8, <1>12 DEF PagesKnown
<1>14. QED BY <1>11, <1>13 DEF PagesInv

LEMMA FailForKeeps ==
    ASSUME PagesInv, NEW h \in Hooks, NEW u \in Owners, Workspace!FailFor(h, u)
    PROVE  PagesInv'
<1>1. PICK p : p = hook[h].event.page OBVIOUS
<1>2. /\ hook[h].at = "write" /\ u \in hook[h].users /\ Workspace!DoneFor(h, u)
      /\ suspect' = suspect \cup {p} /\ job' = Workspace!Overtaken(p)
      /\ UNCHANGED <<notion, events, linked, cache, fetches>>
  BY <1>1 DEF Workspace!FailFor
<1>3. /\ hook' \in [Hooks -> Handler(linked')] /\ hook[h].event \in PageEvent
      /\ \A g \in Hooks : /\ hook'[g].at # "idle" => hook'[g].event \in PageEvent
                          /\ hook'[g].at = "idle" => hook'[g] = Workspace!NoHook
      /\ \A q, v : (hook[h].event.page = q /\ v = u) \/ Longer(q, v)
  BY <1>2, DoneForIs DEF PagesInv
<1>4. p \in NotionPages BY <1>1, <1>3 DEF PageEvent
<1>5. /\ job' \in [Jobs -> Fetch(linked')]
      /\ \A j \in Jobs : job'[j] # Workspace!NoJob => job'[j].user \in linked' /\ job'[j].page \in NotionPages
      /\ \A j \in Jobs : job'[j].fresh =>
           KnownAll(notion', events', hook', job'[j].page, job'[j].user, job'[j].got)
  BY <1>1, <1>2, <1>3, <1>4, OvertakenIs
<1>6. PagesTyped' BY <1>2, <1>3, <1>5 DEF PagesInv, PagesTyped
<1>7. ASSUME NEW q \in NotionPages \ suspect' PROVE PageKnown(notion', events', hook', q, cache'[q])
  BY <1>1, <1>2, <1>3, SamePage
<1>8. PagesKnown' BY <1>5, <1>7 DEF PagesKnown
<1>9. QED BY <1>6, <1>8 DEF PagesInv

\* A step of one fetch.
LEMMA FetchMoves ==
    ASSUME PagesInv, NEW j \in Jobs, NEW new \in Fetch(linked), job' = [job EXCEPT ![j] = new],
           new # Workspace!NoJob => new.user \in linked /\ new.page \in NotionPages,
           new.fresh => KnownAll(notion, events, hook, new.page, new.user, new.got),
           UNCHANGED <<notion, events, linked, hook>>
    PROVE  /\ job' \in [Jobs -> Fetch(linked')]
           /\ \A k \in Jobs : job'[k] # Workspace!NoJob => job'[k].user \in linked' /\ job'[k].page \in NotionPages
           /\ \A k \in Jobs : job'[k].fresh =>
                KnownAll(notion', events', hook', job'[k].page, job'[k].user, job'[k].got)
<1>1. job'[j] = new /\ \A k \in Jobs \ {j} : job'[k] = job[k] BY DEF PagesInv, PagesTyped
<1>2. job' \in [Jobs -> Fetch(linked')] BY DEF PagesInv, PagesTyped
<1>3. ASSUME NEW k \in Jobs, job'[k] # Workspace!NoJob
      PROVE  job'[k].user \in linked' /\ job'[k].page \in NotionPages
  <2>1. CASE k = j BY <1>1, <1>3, <2>1
  <2>2. CASE k # j BY <1>1, <1>3, <2>2 DEF PagesInv, PagesTyped
  <2>3. QED BY <2>1, <2>2
<1>4. ASSUME NEW k \in Jobs, job'[k].fresh
      PROVE  KnownAll(notion', events', hook', job'[k].page, job'[k].user, job'[k].got)
  <2>1. CASE k = j BY <1>1, <1>4, <2>1
  <2>2. CASE k # j BY <1>1, <1>4, <2>2 DEF PagesInv, PagesKnown
  <2>3. QED BY <2>1, <2>2
<1>5. QED BY <1>2, <1>3, <1>4

\* The cached pages of a step that changes none of them.
LEMMA CacheRests ==
    ASSUME PagesInv, UNCHANGED <<notion, events, hook, cache, suspect>>
    PROVE  \A q \in NotionPages \ suspect' : PageKnown(notion', events', hook', q, cache'[q])
BY DEF PagesInv, PagesKnown

LEMMA Next1Is ==
    ASSUME NEW u \in linked, NEW ps \in SUBSET NotionPages, NEW next \in Workspace!Next1(u, ps)
    PROVE  /\ next \in Fetch(linked) /\ Len(next.got) = 0
           /\ next # Workspace!NoJob => next.user \in linked /\ next.page \in NotionPages
<1>1. <<>> \in Seq(Revision) /\ Len(<<>>) = 0 OBVIOUS
<1>2. CASE ps = {}
  <2>1. next = Workspace!NoJob BY <1>2 DEF Workspace!Next1
  <2>2. QED BY <1>1, <2>1 DEF Fetch, Workspace!NoJob
<1>3. CASE ps # {}
  <2>1. PICK p \in ps : next = [Workspace!NoJob EXCEPT !.user = u, !.page = p, !.rest = ps \ {p}]
    BY <1>3 DEF Workspace!Next1
  <2>2. next = [user |-> u, page |-> p, got |-> <<>>, rest |-> ps \ {p}, fresh |-> TRUE]
    BY <2>1 DEF Workspace!NoJob
  <2>3. QED BY <1>1, <2>2 DEF Fetch
<1>4. QED BY <1>2, <1>3

LEMMA BeginKeeps ==
    ASSUME PagesInv, NEW j \in Jobs, NEW u \in Owners, NEW ps \in SUBSET NotionPages,
           Workspace!Begin(j, u, ps)
    PROVE  PagesInv'
<1>1. /\ u \in linked /\ UNCHANGED <<notion, events, linked, cache, hook, suspect>>
      /\ \E next \in Workspace!Next1(u, ps) : job' = [job EXCEPT ![j] = next]
  BY DEF Workspace!Begin
<1>2. PICK next \in Workspace!Next1(u, ps) : job' = [job EXCEPT ![j] = next] BY <1>1
<1>3. /\ next \in Fetch(linked) /\ Len(next.got) = 0
      /\ next # Workspace!NoJob => next.user \in linked /\ next.page \in NotionPages
  BY <1>1, Next1Is
<1>4. KnownAll(notion, events, hook, next.page, next.user, next.got) BY <1>3 DEF KnownAll
<1>5. /\ job' \in [Jobs -> Fetch(linked')]
      /\ \A k \in Jobs : job'[k] # Workspace!NoJob => job'[k].user \in linked' /\ job'[k].page \in NotionPages
      /\ \A k \in Jobs : job'[k].fresh =>
           KnownAll(notion', events', hook', job'[k].page, job'[k].user, job'[k].got)
  BY <1>1, <1>2, <1>3, <1>4, FetchMoves
<1>6. PagesTyped' BY <1>1, <1>5 DEF PagesInv, PagesTyped
<1>7. PagesKnown' BY <1>1, <1>5, CacheRests DEF PagesKnown
<1>8. QED BY <1>6, <1>7 DEF PagesInv

LEMMA CallKeeps ==
    ASSUME PagesInv, NEW j \in Jobs, Workspace!CallNotion(j)
    PROVE  PagesInv'
<1>1. PICK p : p = job[j].page OBVIOUS
<1>2. PICK got : got = Append(job[j].got, notion[p]) OBVIOUS
<1>3. PICK new : new = [job[j] EXCEPT !.got = got] OBVIOUS
<1>4. /\ job[j] # Workspace!NoJob /\ job' = [job EXCEPT ![j] = new]
      /\ UNCHANGED <<notion, events, linked, cache, hook, fetches, suspect>>
  BY <1>1, <1>2, <1>3 DEF Workspace!CallNotion, Workspace!Running, Workspace!Answer
<1>5. job[j] \in Fetch(linked) /\ job[j].user \in linked /\ p \in NotionPages
  BY <1>1, <1>4 DEF PagesInv, PagesTyped
<1>6. notion[p] \in Revision /\ job[j].got \in Seq(Revision) BY <1>5 DEF PagesInv, PagesTyped, Fetch
<1>7. /\ got \in Seq(Revision) /\ Len(got) = Len(job[j].got) + 1 /\ got[Len(got)] = notion[p]
      /\ \A i \in 1..Len(job[j].got) : got[i] = job[j].got[i]
  BY <1>2, <1>6
<1>8. /\ new \in Fetch(linked) /\ new.user = job[j].user /\ new.page = p /\ new.got = got
      /\ new.fresh = job[j].fresh
  BY <1>1, <1>3, <1>5, <1>7 DEF Fetch
<1>9. ASSUME new.fresh PROVE KnownAll(notion, events, hook, new.page, new.user, new.got)
  <2>1. KnownAll(notion, events, hook, p, job[j].user, job[j].got)
    BY <1>1, <1>8, <1>9 DEF PagesInv, PagesKnown
  <2>2. Known(notion, events, hook, p, job[j].user, notion[p])
    <3>1. notion[p].rev \in Nat BY <1>6 DEF Revision
    <3>2. notion[p].rev <= notion[p].rev BY <3>1
    <3>3. QED BY <3>2 DEF Known
  <2>3. ASSUME NEW i \in 1..Len(got) PROVE Known(notion, events, hook, p, job[j].user, got[i])
    <3>1. CASE i = Len(got) BY <1>7, <2>2, <3>1
    <3>2. CASE i # Len(got)
      <4>1. Len(job[j].got) \in Nat BY <1>6
      <4>2. i \in 1..Len(job[j].got) BY <1>7, <3>2, <4>1
      <4>3. QED BY <1>7, <2>1, <4>2 DEF KnownAll
    <3>3. QED BY <3>1, <3>2
  <2>4. QED BY <1>8, <2>3 DEF KnownAll
<1>10. /\ job' \in [Jobs -> Fetch(linked')]
       /\ \A k \in Jobs : job'[k] # Workspace!NoJob => job'[k].user \in linked' /\ job'[k].page \in NotionPages
       /\ \A k \in Jobs : job'[k].fresh =>
            KnownAll(notion', events', hook', job'[k].page, job'[k].user, job'[k].got)
  BY <1>4, <1>5, <1>8, <1>9, FetchMoves
<1>11. PagesTyped' BY <1>4, <1>10 DEF PagesInv, PagesTyped
<1>12. PagesKnown' BY <1>4, <1>10, CacheRests DEF PagesKnown
<1>13. QED BY <1>11, <1>12 DEF PagesInv

LEMMA UpsertKeeps ==
    ASSUME PagesInv, NEW j \in Jobs, Workspace!UpsertPage(j)
    PROVE  PagesInv'
<1>1. PICK p : p = job[j].page OBVIOUS
<1>2. PICK u : u = job[j].user OBVIOUS
<1>3. PICK got : got = job[j].got OBVIOUS
<1>4. PICK doc : doc = Workspace!upsertPage(u, Head(got), Tail(got)) OBVIOUS
<1>5. /\ job[j] # Workspace!NoJob /\ Len(got) = ApiCalls
      /\ cache' = [cache EXCEPT ![p] = doc]
      /\ suspect' = IF job[j].fresh THEN suspect \ {p} ELSE suspect \cup {p}
      /\ \E next \in Workspace!Next1(u, job[j].rest) : job' = [job EXCEPT ![j] = next]
      /\ UNCHANGED <<notion, events, linked, hook, fetches>>
  BY <1>1, <1>2, <1>3, <1>4
     DEF Workspace!UpsertPage, Workspace!Running, Workspace!extractPageTitle,
         Workspace!buildTreeFromHierarchy
<1>6. u \in linked /\ p \in NotionPages /\ job[j] \in Fetch(linked)
  BY <1>1, <1>2, <1>5 DEF PagesInv, PagesTyped
<1>7. job[j].rest \in SUBSET NotionPages /\ got \in Seq(Revision) BY <1>3, <1>6 DEF Fetch
<1>8. PICK next \in Workspace!Next1(u, job[j].rest) : job' = [job EXCEPT ![j] = next] BY <1>5
<1>9. /\ next \in Fetch(linked) /\ Len(next.got) = 0
      /\ next # Workspace!NoJob => next.user \in linked /\ next.page \in NotionPages
  BY <1>6, <1>7, Next1Is
<1>10. KnownAll(notion, events, hook, next.page, next.user, next.got) BY <1>9 DEF KnownAll
<1>11. /\ job' \in [Jobs -> Fetch(linked')]
       /\ \A k \in Jobs : job'[k] # Workspace!NoJob => job'[k].user \in linked' /\ job'[k].page \in NotionPages
       /\ \A k \in Jobs : job'[k].fresh =>
            KnownAll(notion', events', hook', job'[k].page, job'[k].user, job'[k].got)
  BY <1>5, <1>8, <1>9, <1>10, FetchMoves
<1>12. Len(got) \in Nat \ {0} BY <1>5, NotionAssumption
<1>13. /\ Head(got) = got[1] /\ Head(got) \in Revision /\ Tail(got) \in Seq(Revision)
       /\ Len(Tail(got)) = Len(got) - 1 /\ \A i \in 1..Len(Tail(got)) : Tail(got)[i] = got[i + 1]
  BY <1>7, <1>12
<1>14. /\ doc \in CachedPage(linked) /\ doc.owner = u /\ doc.title = Head(got)
       /\ doc.blockTree = Tail(got)
  BY <1>4, <1>6, <1>13 DEF Workspace!upsertPage, CachedPage
<1>15. cache'[p] = doc /\ \A q \in NotionPages \ {p} : cache'[q] = cache[q] /\ DOMAIN cache' = NotionPages
  BY <1>5, <1>6 DEF PagesInv, PagesTyped
<1>16. PagesTyped' BY <1>5, <1>11, <1>13, <1>14, <1>15 DEF PagesInv, PagesTyped
<1>17. ASSUME NEW q \in NotionPages \ suspect' PROVE PageKnown(notion', events', hook', q, cache'[q])
  <2>1. CASE q = p
    <3>1. job[j].fresh BY <1>5, <1>17, <2>1
    <3>2. KnownAll(notion, events, hook, p, u, got)
      BY <1>1, <1>2, <1>3, <3>1 DEF PagesInv, PagesKnown
    <3>3. Known(notion, events, hook, p, u, Head(got)) BY <1>12, <1>13, <3>2 DEF KnownAll
    <3>4. ASSUME NEW i \in 1..Len(Tail(got)) PROVE Known(notion, events, hook, p, u, Tail(got)[i])
      <4>1. i + 1 \in 1..Len(got) BY <1>12, <1>13
      <4>2. QED BY <1>13, <3>2, <4>1 DEF KnownAll
    <3>5. KnownAll(notion, events, hook, p, u, Tail(got)) BY <3>4 DEF KnownAll
    <3>6. QED BY <1>5, <1>14, <1>15, <2>1, <3>3, <3>5 DEF PageKnown
  <2>2. CASE q # p
    <3>1. q \notin suspect /\ cache'[q] = cache[q] BY <1>5, <1>15, <1>17, <2>2
    <3>2. QED BY <1>5, <3>1, SamePage, SameIsLonger
  <2>3. QED BY <2>1, <2>2
<1>18. PagesKnown' BY <1>11, <1>17 DEF PagesKnown
<1>19. QED BY <1>16, <1>18 DEF PagesInv

LEMMA FailFetchKeeps ==
    ASSUME PagesInv, NEW j \in Jobs, Workspace!FailFetch(j)
    PROVE  PagesInv'
<1>1. /\ job' = [job EXCEPT ![j] = Workspace!NoJob]
      /\ UNCHANGED <<notion, events, linked, cache, hook, fetches, suspect>>
  BY DEF Workspace!FailFetch
<1>2. <<>> \in Seq(Revision) /\ Len(<<>>) = 0 OBVIOUS
<1>3. Workspace!NoJob \in Fetch(linked) /\ Len(Workspace!NoJob.got) = 0
  BY <1>2 DEF Fetch, Workspace!NoJob
<1>4. \A p, u : KnownAll(notion, events, hook, p, u, Workspace!NoJob.got) BY <1>3 DEF KnownAll
<1>5. /\ job' \in [Jobs -> Fetch(linked')]
      /\ \A k \in Jobs : job'[k] # Workspace!NoJob => job'[k].user \in linked' /\ job'[k].page \in NotionPages
      /\ \A k \in Jobs : job'[k].fresh =>
           KnownAll(notion', events', hook', job'[k].page, job'[k].user, job'[k].got)
  BY <1>1, <1>3, <1>4, FetchMoves
<1>6. PagesTyped' BY <1>1, <1>5 DEF PagesInv, PagesTyped
<1>7. PagesKnown' BY <1>1, <1>5, CacheRests DEF PagesKnown
<1>8. QED BY <1>6, <1>7 DEF PagesInv

LEMMA CrashKeeps ==
    ASSUME PagesInv, Workspace!Crash
    PROVE  PagesInv'
<1>1. /\ hook' = [h \in Hooks |-> Workspace!NoHook] /\ job' = [j \in Jobs |-> Workspace!NoJob]
      /\ suspect' = suspect \cup {hook[h].event.page : h \in {k \in Hooks : Workspace!Handling(k)}}
      /\ UNCHANGED <<notion, events, linked, cache, fetches>>
  BY DEF Workspace!Crash
<1>2. <<>> \in Seq(Revision) /\ Len(<<>>) = 0 OBVIOUS
<1>3. Workspace!NoJob \in Fetch(linked) /\ Len(Workspace!NoJob.got) = 0
  BY <1>2 DEF Fetch, Workspace!NoJob
<1>4. Workspace!NoHook \in Handler(linked) /\ Workspace!NoHook.at = "idle"
  BY DEF Handler, Workspace!NoHook
<1>5. PagesTyped' BY <1>1, <1>3, <1>4 DEF PagesInv, PagesTyped
<1>6. ASSUME NEW q \in NotionPages \ suspect' PROVE PageKnown(notion', events', hook', q, cache'[q])
  <2>1. ASSUME NEW h \in Hooks, NEW u, Hands(hook[h], q, u) PROVE FALSE
    <3>1. hook[h] # Workspace!NoHook /\ hook[h].event.page = q BY <1>4, <2>1 DEF Hands
    <3>2. q \in suspect' BY <1>1, <3>1 DEF Workspace!Handling
    <3>3. QED BY <1>6, <3>2
  <2>2. \A u : Longer(q, u) BY <1>1, <2>1 DEF Longer
  <2>3. QED BY <1>1, <1>6, <2>2, SamePage
<1>7. PagesKnown' BY <1>1, <1>3, <1>6 DEF PagesKnown, KnownAll
<1>8. QED BY <1>5, <1>7 DEF PagesInv

LEMMA ZeroIsNat == {0} \subseteq Nat
OBVIOUS

LEMMA PagesStart == Workspace!Init => PagesInv
<1> SUFFICES ASSUME Workspace!Init PROVE PagesInv
  OBVIOUS
<1>1. /\ notion \in [NotionPages -> [rev : {0}, is : {"nowhere", "there", "in trash"}]]
      /\ events = {} /\ linked = {} /\ cache = [p \in NotionPages |-> NULL]
      /\ hook = [h \in Hooks |-> Workspace!NoHook] /\ job = [j \in Jobs |-> Workspace!NoJob]
      /\ suspect = {}
  BY DEF Workspace!Init
<1>2. <<>> \in Seq(Revision) /\ Len(<<>>) = 0 OBVIOUS
<1>3. Workspace!NoJob \in Fetch(linked) /\ Len(Workspace!NoJob.got) = 0
  BY <1>2 DEF Fetch, Workspace!NoJob
<1>4. Workspace!NoHook \in Handler(linked) /\ Workspace!NoHook.at = "idle"
  BY DEF Handler, Workspace!NoHook
<1>5. notion \in [NotionPages -> Revision]
  <2>1. ASSUME NEW a \in [rev : {0}, is : {"nowhere", "there", "in trash"}] PROVE a \in Revision
    <3>1. /\ a = [rev |-> a.rev, is |-> a.is] /\ a.rev \in {0}
          /\ a.is \in {"nowhere", "there", "in trash"}
      OBVIOUS
    <3>2. QED BY <3>1, ZeroIsNat DEF Revision
  <2>2. QED BY <1>1, <2>1
<1>6. PagesTyped BY <1>1, <1>3, <1>4, <1>5 DEF PagesTyped
<1>7. PagesKnown
  <2>1. \A p \in NotionPages : PageKnown(notion, events, hook, p, cache[p]) BY <1>1 DEF PageKnown
  <2>2. \A j \in Jobs : Len(job[j].got) = 0 BY <1>1, <1>3
  <2>3. QED BY <2>1, <2>2 DEF PagesKnown, KnownAll
<1>8. QED BY <1>6, <1>7 DEF PagesInv

LEMMA PagesMove ==
    ASSUME PagesInv, Workspace!Next
    PROVE  PagesInv'
<1>1. CASE \E p \in NotionPages, t \in Workspace!EventTypes : Workspace!Change(p, t)
  BY <1>1, ChangeKeeps
<1>2. CASE \E u \in Owners : Workspace!Connect(u) BY <1>2, ConnectKeeps
<1>3. CASE \E h \in Hooks, e \in events : Workspace!Deliver(h, e) BY <1>3, DeliverKeeps
<1>4. CASE \E h \in Hooks : Workspace!FindIntegrations(h) BY <1>4, FindKeeps
<1>5. CASE \E h \in Hooks, u \in Owners : Workspace!WriteFor(h, u) \/ Workspace!FailFor(h, u)
  BY <1>5, WriteKeeps, FailForKeeps
<1>6. CASE \E j \in Jobs, u \in Owners :
             Workspace!PullStalePages(j, u) \/ \E p \in NotionPages : Workspace!SyncPage(j, u, p)
  <2>1. PICK j \in Jobs, u \in Owners :
               Workspace!PullStalePages(j, u) \/ \E p \in NotionPages : Workspace!SyncPage(j, u, p)
    BY <1>6
  <2>2. \E ps \in SUBSET NotionPages : Workspace!Begin(j, u, ps)
    <3>1. CASE Workspace!PullStalePages(j, u)
      <4>1. {p \in Workspace!findStalePages(u) : cache[p].integration} \in SUBSET NotionPages
        BY DEF Workspace!findStalePages
      <4>2. QED BY <3>1, <4>1 DEF Workspace!PullStalePages
    <3>2. CASE \E p \in NotionPages : Workspace!SyncPage(j, u, p) BY <3>2 DEF Workspace!SyncPage
    <3>3. QED BY <2>1, <3>1, <3>2
  <2>3. QED BY <2>2, BeginKeeps
<1>7. CASE \E j \in Jobs : Workspace!CallNotion(j) \/ Workspace!UpsertPage(j) \/ Workspace!FailFetch(j)
  BY <1>7, CallKeeps, UpsertKeeps, FailFetchKeeps
<1>8. CASE Workspace!Crash BY <1>8, CrashKeeps
<1>9. QED BY <1>1, <1>2, <1>3, <1>4, <1>5, <1>6, <1>7, <1>8 DEF Workspace!Next

LEMMA PagesTell == PagesInv => FreshPagesAreCurrent
<1> SUFFICES ASSUME PagesInv, NEW u \in Owners, NEW p \in DOMAIN Workspace!streamNotionPages(u),
                    NEW given, given = Workspace!streamNotionPages(u)[p], ~cache[p].stale,
                    NEW i \in DOMAIN given
             PROVE  \/ given[i] = notion[p] \/ Workspace!WillMark(p, given[i].rev) \/ p \in suspect
  BY DEF FreshPagesAreCurrent, Workspace!FreshPagesAreCurrent
<1>1. /\ p \in NotionPages /\ cache[p] # NULL /\ ~cache[p].deleted
      /\ given = <<cache[p].title>> \o cache[p].blockTree
  BY DEF Workspace!streamNotionPages, Workspace!findPagesModifiedSince, Workspace!Live
<1>2. cache[p].title \in Revision /\ cache[p].blockTree \in Seq(Revision)
  BY <1>1 DEF PagesInv, PagesTyped, CachedPage
<1>3. given[i] = cache[p].title \/ \E k \in 1..Len(cache[p].blockTree) : given[i] = cache[p].blockTree[k]
  <2>1. i \in 1..(1 + Len(cache[p].blockTree)) BY <1>1, <1>2
  <2>2. CASE i = 1 BY <1>1, <1>2, <2>2
  <2>3. CASE i # 1
    <3>1. Len(cache[p].blockTree) \in Nat BY <1>2
    <3>2. i - 1 \in 1..Len(cache[p].blockTree) BY <2>1, <2>3, <3>1
    <3>3. given[i] = cache[p].blockTree[i - 1] BY <1>1, <1>2, <2>1, <2>3
    <3>4. QED BY <3>2, <3>3
  <2>4. QED BY <2>2, <2>3
<1>4. ASSUME p \notin suspect PROVE Known(notion, events, hook, p, cache[p].owner, given[i])
  <2>1. /\ Known(notion, events, hook, p, cache[p].owner, cache[p].title)
        /\ KnownAll(notion, events, hook, p, cache[p].owner, cache[p].blockTree)
    BY <1>1, <1>4 DEF PagesInv, PagesKnown, PageKnown
  <2>2. QED BY <1>3, <2>1 DEF KnownAll
<1>5. ASSUME Tells(events, hook, p, cache[p].owner, given[i].rev) PROVE Workspace!WillMark(p, given[i].rev)
  <2>1. Workspace!NoHook.at = "idle" BY DEF Workspace!NoHook
  <2>2. QED BY <1>5, <2>1 DEF Tells, Hands, Workspace!WillMark, Workspace!Handling
<1>6. QED BY <1>4, <1>5 DEF Known

\* A page that a graph generation is given, and that does not count as stale, is what
\* Notion has, title and blocks of one revision, unless an event that will mark it is
\* still on its way, or one was lost after its 200, or handled while the page was being
\* fetched: for any number of pages, users, handlers and fetches.
THEOREM FreshPagesStayCurrent ==
    Workspace!Init /\ [][Workspace!Next]_pageVars => []FreshPagesAreCurrent
<1>1. Workspace!Init => PagesInv BY PagesStart
<1>2. PagesInv /\ [Workspace!Next]_pageVars => PagesInv'
  <2>1. ASSUME PagesInv, UNCHANGED pageVars PROVE PagesInv'
    BY <2>1 DEF pageVars, PagesInv, PagesTyped, PagesKnown
  <2>2. QED BY <2>1, PagesMove
<1>3. PagesInv => FreshPagesAreCurrent BY PagesTell
<1>4. QED BY <1>1, <1>2, <1>3, PTL

==============================================================================
