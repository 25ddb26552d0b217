-------------------------- MODULE UserFiles_proofs --------------------------
(***************************************************************************)
(* Proofs about UserFiles, for any files, folders, requests and names, and *)
(* for every value of the bounds, starting from any finite library without *)
(* two files of the same name in a folder; and about the walk through the  *)
(* feedback (Feedback), as MCUserFiles composes it with the files.         *)
(***************************************************************************)
EXTENDS MCUserFiles, TLAPS, FiniteSetTheorems, WellFoundedInduction

-----------------------------------------------------------------------------
(* What the calls are.                                                     *)

\* resolveDisplayName always finds a free name: of as many suffixes as there are
\* names, and one more, one is not taken.
LEMMA SomeSuffixFree ==
    ASSUME NEW name \in Seq(Nat), NEW existing, IsFiniteSet(existing)
    PROVE  /\ Cardinality(existing) \in Nat
           /\ \E n \in 1..Cardinality(existing) + 1 : Append(name, n) \notin existing
<1>1. PICK k \in Nat : k = Cardinality(existing) BY FS_CardinalityType
<1>2. SUFFICES ASSUME \A n \in 1..k + 1 : Append(name, n) \in existing PROVE FALSE
  BY <1>1
<1>3. PICK f : f = [n \in 1..k + 1 |-> Append(name, n)] OBVIOUS
<1>4. f \in [1..k + 1 -> existing] BY <1>2, <1>3
<1>5. IsFiniteSet(1..k + 1) /\ Cardinality(1..k + 1) = k + 1
  <2>1. 1 \in Int /\ k + 1 \in Int BY <1>1
  <2>2. QED BY <1>1, <2>1, FS_Interval
<1>6. PICK m \in 1..k + 1, n \in 1..k + 1 : m # n /\ f[m] = f[n]
  <2>1. PICK I : I = 1..k + 1 OBVIOUS
  <2>2. f \in [I -> existing] /\ IsFiniteSet(I) /\ Cardinality(existing) < Cardinality(I)
    BY <1>1, <1>4, <1>5, <2>1
  <2>3. \E x, y \in I : x # y /\ f[x] = f[y] BY <2>2, FS_PigeonHole
  <2>4. QED BY <2>1, <2>3
<1>7. Append(name, m)[Len(name) + 1] = m /\ Append(name, n)[Len(name) + 1] = n
  OBVIOUS
<1>8. QED BY <1>3, <1>6, <1>7

\* A set of suffixes has a least one.
LEMMA LeastSuffix ==
    ASSUME NEW k \in Nat, NEW S \in SUBSET (1..k), S # {}
    PROVE  \E n \in S : \A m \in S : n <= m
<1>1. PICK B : B = {1..n : n \in S} OBVIOUS
<1>2. B \subseteq SUBSET (1..k) /\ B # {}
  <2>1. \A n \in S : n \in Nat /\ n <= k /\ 1..n \in SUBSET (1..k) OBVIOUS
  <2>2. QED BY <1>1, <2>1
<1>3. IsFiniteSet(1..k)
  <2>1. 1 \in Int /\ k \in Int OBVIOUS
  <2>2. QED BY <2>1, FS_Interval
<1>4. B \subseteq FiniteSubsetsOf(1..k) BY <1>2, <1>3, FS_FiniteSubsetsOfFinite
<1>5. PICK s \in B : \A r \in B : ~(<<r, s>> \in StrictSubsetOrdering(1..k))
  BY <1>2, <1>4, FS_StrictSubsetOrderingWellFounded, WFMin
<1>6. PICK n \in S : s = 1..n BY <1>1, <1>5
<1>7. ASSUME NEW m \in S, m < n PROVE FALSE
  <2>1. PICK r : r = 1..m OBVIOUS
  <2>2. r \in B BY <1>1, <2>1
  <2>3. r \subseteq s /\ n \in s /\ n \notin r BY <1>6, <1>7, <2>1
  <2>4. r \in SUBSET (1..k) /\ s \in SUBSET (1..k) BY <1>2, <2>2
  <2>5. <<r, s>> \in StrictSubsetOrdering(1..k) BY <2>3, <2>4 DEF StrictSubsetOrdering
  <2>6. QED BY <1>5, <2>2, <2>5
<1>8. QED BY <1>6, <1>7

\* It returns a name that nobody has.
LEMMA ResolvesFree ==
    ASSUME NEW name \in Seq(Nat), NEW existing, IsFiniteSet(existing)
    PROVE  /\ resolveDisplayName(name, existing) \in Seq(Nat)
           /\ resolveDisplayName(name, existing) \notin existing
<1>1. CASE name \notin existing BY <1>1 DEF resolveDisplayName
<1>2. CASE name \in existing
  <2>1. PICK k : k = Cardinality(existing) + 1 OBVIOUS
  <2>2. k \in Nat /\ \E n \in 1..k : Append(name, n) \notin existing
    BY <2>1, SomeSuffixFree
  <2>3. PICK S \in SUBSET (1..k) : S = {n \in 1..k : Append(name, n) \notin existing}
    <3>1. {n \in 1..k : Append(name, n) \notin existing} \in SUBSET (1..k) OBVIOUS
    <3>2. QED BY <3>1
  <2>4. S # {} BY <2>2, <2>3
  <2>5. PICK n : n = CHOOSE m \in S : \A j \in S : m <= j OBVIOUS
  <2>6. n \in S BY <2>2, <2>4, <2>5, LeastSuffix
  <2>7. resolveDisplayName(name, existing) = Append(name, n)
    BY <1>2, <2>1, <2>3, <2>5 DEF resolveDisplayName
  <2>8. QED BY <2>2, <2>3, <2>6, <2>7
<1>3. QED BY <1>1, <1>2
Rows == [state   : {"unused", "active", "trashed", "gone"},
         folder  : Places,
         name    : Seq(Nat),
         summary : {"none", "processing", "completed", "failed", "missing"}]

Frames == [op        : {"none", "upload", "update", "delete"},
           at        : {"idle", "get", "folder", "names", "put", "insert", "update",
                        "row", "object", "node"},
           file      : Files \cup {Keep},
           folder    : Places \cup {Keep},
           name      : Seq(Nat) \cup {Keep},
           own       : Seq(Nat),
           permanent : BOOLEAN,
           stale     : BOOLEAN]

\* What a frame holds at each step of its method.
FrameOK(c) ==
    /\ c.at = "idle" <=> c.op = "none"
    /\ c.at # "idle" => c.file \in Files
    /\ c.op = "upload" => /\ c.at \in {"folder", "names", "put", "insert"}
                          /\ c.folder \in Places /\ c.name \in Seq(Nat)
    /\ c.op = "update" => /\ c.at \in {"get", "folder", "names", "update"}
                          /\ c.at # "get" => c.folder \in Places
                          /\ c.at = "update" => c.name \in Seq(Nat)
    /\ c.op = "delete" => /\ c.at \in {"get", "row", "object", "node"}
                          /\ c.at = "object" => c.permanent

TypeOK ==
    /\ row \in [Files -> Rows]
    /\ objects \subseteq {FileBucket} \X Files
    /\ node \in [Files -> {"none", "active", "trashed"}]
    /\ job \in [Files -> {"none", "queued", "completed", "failed", "missing"}]
    /\ call \in [Requests -> Frames]
    /\ task \in [at : {"none", "sent", "resolved"}, files : SUBSET Files]
    /\ broken \subseteq Files /\ raced \subseteq Files

CallsInv == /\ TypeOK
            /\ \A r \in Requests : FrameOK(call[r])
            /\ IsFiniteSet(ActiveFiles)

-----------------------------------------------------------------------------
(* Rows, objects and nodes.                                                *)

\* An upload has its file for itself, which has no row yet.
UploadsAlone ==
    \A r \in Requests : call[r].op = "upload" =>
        /\ row[call[r].file].state = "unused"
        /\ \A q \in Requests : q # r /\ Running(q) => call[q].file # call[r].file
        /\ call[r].at = "insert" => Stored(call[r].file)

\* An object is deleted only when its row is gone.
RowsFirst == \A r \in Requests : At(r, "delete", "object") => row[call[r].file].state = "gone"

\* Request r has written something about f and has more to write.
Pending(r, f) == HalfDone(r) /\ call[r].file = f
Deleting(r, f) == Pending(r, f) /\ call[r].op = "delete"

\* A row has its object.  An object without a row, or a node that its row no longer
\* has, is the business of a request that is not through, or something failed.
ObjectOf(f) ==
    /\ Exists(f) => Stored(f)
    /\ Stored(f) /\ ~Exists(f) /\ f \notin broken =>
          \E r \in Requests : Pending(r, f) /\ call[r].at # "node"
NodeOf(f) ==
    f \notin broken =>
        /\ row[f].state = "trashed" /\ node[f] = "active" =>
              \E r \in Requests : Deleting(r, f)
        /\ row[f].state = "gone" /\ node[f] # "none" =>
              \E r \in Requests : Deleting(r, f) /\ call[r].permanent

LifeInv == UploadsAlone /\ RowsFirst /\ \A f \in Files : ObjectOf(f) /\ NodeOf(f)

-----------------------------------------------------------------------------
(* Names.                                                                  *)

\* What a request knows of the names that nobody has made stale for it: the name of
\* an upload is free, an update has its file's own name and then one that no other
\* active file of the folder has, but for those that clashed before.
FreeName(r) ==
    call[r].at \in {"put", "insert"} /\ ~call[r].stale =>
        call[r].name \notin NamesIn(call[r].folder)
OwnName(r) ==
    /\ call[r].op = "update" /\ call[r].at \in {"folder", "names"}
    /\ ~call[r].stale /\ Active(call[r].file)
    => row[call[r].file].name = call[r].own
NewNameFree(r) ==
    At(r, "update", "update") /\ ~call[r].stale /\ Active(call[r].file) =>
        \A g \in ActiveFiles \ {call[r].file} :
            row[g].folder = call[r].folder /\ row[g].name = call[r].name =>
                call[r].file \in raced \/ g \in raced

NamesInv ==
    /\ ClashOnlyByRaceOrMove
    /\ \A r \in Requests : FreeName(r) /\ OwnName(r) /\ NewNameFree(r)

-----------------------------------------------------------------------------
(* Frames.                                                                 *)

\* Apart from the mark that what it read is stale, a frame stays as it is.
Alike(c, d) ==
    /\ d.op = c.op /\ d.at = c.at /\ d.file = c.file /\ d.folder = c.folder
    /\ d.name = c.name /\ d.own = c.own /\ d.permanent = c.permanent

\* Request r goes on with frame c, the others stay.
Becomes(r, c) == /\ call' = [call EXCEPT ![r] = c]
                 /\ call'[r] = c
                 /\ \A q \in Requests : q # r => call'[q] = call[q]

LEMMA IdleFrame == Idle \in Frames /\ FrameOK(Idle) /\ Idle.op = "none" /\ Idle.at = "idle"
BY DEF Idle, Frames, FrameOK

\* A request whose next frame is c.
LEMMA NextFrame ==
    ASSUME call \in [Requests -> Frames], NEW r \in Requests, NEW c,
           call' = [call EXCEPT ![r] = c]
    PROVE  Becomes(r, c)
BY DEF Becomes

LEMMA FrameSet ==
    ASSUME call \in [Requests -> Frames], NEW r \in Requests, NEW c \in Frames,
           Becomes(r, c), FrameOK(c), \A q \in Requests : FrameOK(call[q])
    PROVE  /\ call' \in [Requests -> Frames]
           /\ \A q \in Requests : FrameOK(call'[q])
BY DEF Becomes

\* The next statement of a method.
LEMMA GotoFrame ==
    ASSUME call \in [Requests -> Frames], NEW r \in Requests, NEW s, Goto(r, s)
    PROVE  Becomes(r, [call[r] EXCEPT !.at = s])
BY DEF Goto, Becomes

LEMMA EndFrame ==
    ASSUME call \in [Requests -> Frames], NEW r \in Requests, End(r)
    PROVE  Becomes(r, Idle)
BY DEF End, Becomes

\* A request that ends with a name written marks some of the others.
LEMMA EndNamedFrame ==
    ASSUME call \in [Requests -> Frames], NEW r \in Requests, EndNamed(r)
    PROVE  /\ call' \in [Requests -> Frames]
           /\ call'[r] = Idle
           /\ \A q \in Requests : q # r => Alike(call[q], call'[q])
           /\ \A q \in Requests : q # r =>
                 \/ call'[q].stale
                 \/ /\ call'[q] = call[q]
                    /\ call[q].at \notin {"put", "insert", "update"}
                    /\ ~(call[q].op = "update" /\ call[q].at \in {"folder", "names"})
<1>1. ASSUME NEW q \in Requests, q # r
      PROVE  /\ call'[q] \in Frames /\ Alike(call[q], call'[q])
             /\ \/ call'[q].stale
                \/ /\ call'[q] = call[q]
                   /\ call[q].at \notin {"put", "insert", "update"}
                   /\ ~(call[q].op = "update" /\ call[q].at \in {"folder", "names"})
  <2>1. PICK c \in Frames : c = call[q] OBVIOUS
  <2>2. CASE call[q].at \in {"put", "insert", "update"} \/ At(q, "update", "names")
               \/ At(q, "update", "folder")
    <3>1. PICK d : d = [c EXCEPT !.stale = TRUE] OBVIOUS
    <3>2. d \in Frames /\ Alike(c, d) /\ d.stale BY <2>1, <3>1 DEF Frames, Alike
    <3>3. call'[q] = d BY <1>1, <2>1, <2>2, <3>1 DEF EndNamed
    <3>4. QED BY <2>1, <3>2, <3>3
  <2>3. CASE ~(call[q].at \in {"put", "insert", "update"} \/ At(q, "update", "names")
               \/ At(q, "update", "folder"))
    <3>1. call'[q] = call[q] BY <1>1, <2>3 DEF EndNamed
    <3>2. QED BY <2>1, <2>3, <3>1 DEF At, Alike
  <2>4. QED BY <2>2, <2>3
<1>2. call'[r] = Idle BY DEF EndNamed
<1>3. call' \in [Requests -> Frames] BY <1>1, <1>2, IdleFrame DEF EndNamed
<1>4. QED BY <1>1, <1>2, <1>3

\* A frame like a good one is a good one.
LEMMA AlikeOK ==
    ASSUME NEW c, NEW d, FrameOK(c), Alike(c, d)
    PROVE  FrameOK(d)
BY DEF FrameOK, Alike

-----------------------------------------------------------------------------
(* Types and frames.                                                       *)

\* What Begin does to the requests.
LEMMA BeginStep ==
    ASSUME CallsInv, NEW r \in Requests, NEW c \in Frames, FrameOK(c), Begin(r, c)
    PROVE  /\ CallsInv' /\ Becomes(r, c) /\ ~Running(r)
           /\ UNCHANGED <<row, objects, node, job, task, broken, raced>>
<1>1. Becomes(r, c) /\ ~Running(r) BY NextFrame DEF Begin, CallsInv, TypeOK
<1>2. UNCHANGED <<row, objects, node, job, task, broken, raced>> BY DEF Begin
<1>3. ActiveFiles' = ActiveFiles BY <1>2 DEF ActiveFiles, Active
<1>4. QED BY <1>1, <1>2, <1>3, FrameSet DEF CallsInv, TypeOK

\* A request that is made has a good frame.
LEMMA RequestFrames ==
    ASSUME CallsInv, NEW r \in Requests, NEW f \in Files
    PROVE  /\ \A d \in Places, name \in Typed : Upload(r, f, d, name) =>
                 \E c \in Frames : /\ FrameOK(c) /\ Begin(r, c) /\ c.op = "upload" /\ c.file = f
                                   /\ c.at \in {"names", "folder"} /\ row[f] = Unused /\ ~Busy(f)
                                   /\ ~Stored(f)
           /\ \A d \in Places \cup {Keep}, name \in Typed \cup {Keep} : Update(r, f, name, d) =>
                 \E c \in Frames : /\ FrameOK(c) /\ Begin(r, c) /\ c.op = "update" /\ c.file = f
                                   /\ c.at = "get" /\ Exists(f)
           /\ \A permanent \in BOOLEAN : Delete(r, f, permanent) =>
                 \E c \in Frames : /\ FrameOK(c) /\ Begin(r, c) /\ c.op = "delete" /\ c.file = f
                                   /\ c.at = "get" /\ Exists(f)
<1>1. ASSUME NEW d \in Places, NEW name \in Typed, Upload(r, f, d, name)
      PROVE  \E c \in Frames : /\ FrameOK(c) /\ Begin(r, c) /\ c.op = "upload" /\ c.file = f
                               /\ c.at \in {"names", "folder"} /\ row[f] = Unused /\ ~Busy(f)
                               /\ ~Stored(f)
  <2>1. PICK c : c = [Idle EXCEPT !.op = "upload", !.file = f, !.folder = d, !.name = name,
                                  !.at = IF d = Root THEN "names" ELSE "folder"]
    OBVIOUS
  <2>2. name \in Seq(Nat) BY UserFilesAssumption
  <2>3. c \in Frames /\ c.op = "upload" /\ c.file = f /\ c.at \in {"names", "folder"}
        /\ c.folder = d /\ c.name = name
    BY <2>1, <2>2, IdleFrame DEF Frames
  <2>4. FrameOK(c) BY <2>2, <2>3 DEF FrameOK
  <2>5. QED BY <1>1, <2>1, <2>3, <2>4 DEF Upload
<1>2. ASSUME NEW d \in Places \cup {Keep}, NEW name \in Typed \cup {Keep}, Update(r, f, name, d)
      PROVE  \E c \in Frames : /\ FrameOK(c) /\ Begin(r, c) /\ c.op = "update" /\ c.file = f
                               /\ c.at = "get" /\ Exists(f)
  <2>1. PICK c : c = [Idle EXCEPT !.op = "update", !.at = "get", !.file = f, !.name = name,
                                  !.folder = d]
    OBVIOUS
  <2>2. name \in Seq(Nat) \cup {Keep} BY UserFilesAssumption
  <2>3. c \in Frames /\ c.op = "update" /\ c.file = f /\ c.at = "get"
    BY <2>1, <2>2, IdleFrame DEF Frames
  <2>4. FrameOK(c) BY <2>3 DEF FrameOK
  <2>5. QED BY <1>2, <2>1, <2>3, <2>4 DEF Update
<1>3. ASSUME NEW permanent \in BOOLEAN, Delete(r, f, permanent)
      PROVE  \E c \in Frames : /\ FrameOK(c) /\ Begin(r, c) /\ c.op = "delete" /\ c.file = f
                               /\ c.at = "get" /\ Exists(f)
  <2>1. PICK c : c = [Idle EXCEPT !.op = "delete", !.at = "get", !.file = f,
                                  !.permanent = permanent]
    OBVIOUS
  <2>2. c \in Frames /\ c.op = "delete" /\ c.file = f /\ c.at = "get"
    BY <2>1, IdleFrame DEF Frames
  <2>3. FrameOK(c) BY <2>2 DEF FrameOK
  <2>4. QED BY <1>3, <2>1, <2>2, <2>3 DEF Delete
<1>4. QED BY <1>1, <1>2, <1>3

\* The names of a folder of finitely many files are finitely many.
LEMMA NamesFinite ==
    ASSUME IsFiniteSet(ActiveFiles), NEW d
    PROVE  IsFiniteSet(NamesIn(d))
<1>1. PICK S : S = {g \in ActiveFiles : row[g].folder = d} OBVIOUS
<1>2. IsFiniteSet(S) BY <1>1, FS_Subset
<1>3. PICK f : f = [g \in S |-> row[g].name] OBVIOUS
<1>4. NamesIn(d) = {row[g].name : g \in S} BY <1>1 DEF NamesIn
<1>5. f \in [S -> NamesIn(d)] /\ \A t \in NamesIn(d) : \E g \in S : f[g] = t BY <1>3, <1>4
<1>6. f \in Surjection(S, NamesIn(d)) BY <1>5 DEF Surjection
<1>7. QED BY <1>2, <1>6, FS_Surjection

\* Request r is at some step, and its frame is one it may have there.
LEMMA FrameOf ==
    ASSUME CallsInv, NEW r \in Requests
    PROVE  call[r] \in Frames /\ FrameOK(call[r]) /\ (Running(r) => call[r].file \in Files)
BY DEF CallsInv, TypeOK, FrameOK, Running

\* Request r goes on with frame c, of the same call, or ends.
GoesOn(r, c) ==
    /\ c \in Frames /\ FrameOK(c) /\ Becomes(r, c)
    /\ c = Idle \/ (/\ c.op = call[r].op /\ c.file = call[r].file
                    /\ c.permanent = call[r].permanent)

LEMMA CheckFolderFrame ==
    ASSUME CallsInv, NEW r \in Requests, CheckFolder(r)
    PROVE  /\ \/ GoesOn(r, Idle)
              \/ \E c \in Frames : GoesOn(r, c) /\ c = [call[r] EXCEPT !.at = "names"]
           /\ call[r].op \in {"upload", "update"} /\ call[r].at = "folder" /\ Reading
<1>1. PICK c : c = [call[r] EXCEPT !.at = "names"] OBVIOUS
<1>2. call[r].op \in {"upload", "update"} /\ call[r].at = "folder" /\ Reading
  BY FrameOf DEF CheckFolder, FrameOK, Frames
<1>3. c \in Frames /\ FrameOK(c) /\ c.op = call[r].op /\ c.file = call[r].file
      /\ c.permanent = call[r].permanent
  BY <1>1, <1>2, FrameOf DEF Frames, FrameOK
<1>4. Becomes(r, c) \/ Becomes(r, Idle)
  BY <1>1, GotoFrame, EndFrame DEF CheckFolder, CallsInv, TypeOK
<1>5. QED BY <1>1, <1>2, <1>3, <1>4, IdleFrame DEF GoesOn

LEMMA UploadNamesFrame ==
    ASSUME CallsInv, NEW r \in Requests, UploadNames(r)
    PROVE  /\ \E c \in Frames :
                 /\ GoesOn(r, c) /\ c.at = "put" /\ c.folder = call[r].folder
                 /\ c.name \notin NamesIn(c.folder)
           /\ call[r].op = "upload" /\ call[r].at = "names" /\ Reading
<1>1. call[r].op = "upload" /\ call[r].at = "names" /\ Reading /\ call[r].name \in Seq(Nat)
  BY FrameOf DEF UploadNames, At, FrameOK
<1>2. PICK d, n : d = call[r].folder /\ n = resolveDisplayName(call[r].name, NamesIn(d))
  OBVIOUS
<1>3. n \in Seq(Nat) /\ n \notin NamesIn(d) BY <1>1, <1>2, NamesFinite, ResolvesFree DEF CallsInv
<1>4. PICK c : c = [call[r] EXCEPT !.at = "put", !.name = n] OBVIOUS
<1>5. /\ c \in Frames /\ FrameOK(c) /\ c.op = call[r].op /\ c.file = call[r].file
      /\ c.permanent = call[r].permanent /\ c.at = "put" /\ c.folder = d /\ c.name = n
  BY <1>1, <1>2, <1>3, <1>4, FrameOf DEF Frames, FrameOK
<1>6. Becomes(r, c)
  BY <1>2, <1>4, NextFrame DEF UploadNames, CallsInv, TypeOK
<1>7. QED BY <1>1, <1>2, <1>3, <1>5, <1>6 DEF GoesOn

LEMMA PutObjectFrame ==
    ASSUME CallsInv, NEW r \in Requests, PutObject(r)
    PROVE  /\ \E c \in Frames : GoesOn(r, c) /\ c = [call[r] EXCEPT !.at = "insert"]
           /\ call[r].op = "upload" /\ call[r].at = "put"
           /\ call[r].file \in Files
<1>1. PICK c : c = [call[r] EXCEPT !.at = "insert"] OBVIOUS
<1>2. call[r].op = "upload" /\ call[r].at = "put" BY DEF PutObject, At
<1>3. c \in Frames /\ FrameOK(c) /\ c.op = call[r].op /\ c.file = call[r].file
      /\ c.permanent = call[r].permanent /\ call[r].file \in Files
  BY <1>1, <1>2, FrameOf DEF Frames, FrameOK
<1>4. Becomes(r, c) BY <1>1, GotoFrame DEF PutObject, CallsInv, TypeOK
<1>5. QED BY <1>1, <1>2, <1>3, <1>4 DEF GoesOn

LEMMA UpdateGetFrame ==
    ASSUME CallsInv, NEW r \in Requests, UpdateGet(r)
    PROVE  /\ \/ GoesOn(r, Idle)
              \/ \E c \in Frames : /\ GoesOn(r, c) /\ c.at \in {"folder", "names"}
                                   /\ c.own = row[c.file].name /\ Active(c.file)
           /\ call[r].op = "update" /\ call[r].at = "get" /\ Reading
<1>1. call[r].op = "update" /\ call[r].at = "get" /\ Reading BY DEF UpdateGet, At
<1>2. call[r].file \in Files BY <1>1, FrameOf DEF FrameOK
<1>3. PICK f : f = call[r].file OBVIOUS
<1>4. row[f].name \in Seq(Nat) /\ row[f].folder \in Places
  BY <1>2, <1>3 DEF CallsInv, TypeOK, Rows
<1>5. PICK d, s : /\ d = IF call[r].folder = Keep THEN row[f].folder ELSE call[r].folder
                  /\ s = IF call[r].folder \in Folders THEN "folder" ELSE "names"
  OBVIOUS
<1>6. d \in Places /\ s \in {"folder", "names"} BY <1>4, <1>5, FrameOf DEF Frames
<1>7. PICK c : c = [call[r] EXCEPT !.own = row[f].name, !.folder = d, !.at = s] OBVIOUS
<1>8. /\ c \in Frames /\ FrameOK(c) /\ c.op = call[r].op /\ c.file = f
      /\ c.permanent = call[r].permanent /\ c.at = s /\ c.own = row[f].name
  BY <1>1, <1>2, <1>3, <1>4, <1>6, <1>7, FrameOf DEF Frames, FrameOK
<1>9. CASE ~Active(f)
  <2>1. Becomes(r, Idle) BY <1>3, <1>9, EndFrame DEF UpdateGet, CallsInv, TypeOK
  <2>2. QED BY <1>1, <2>1, IdleFrame DEF GoesOn
<1>10. CASE Active(f)
  <2>1. Becomes(r, c)
    BY <1>3, <1>5, <1>7, <1>10, NextFrame DEF UpdateGet, CallsInv, TypeOK
  <2>2. GoesOn(r, c) BY <1>3, <1>8, <2>1 DEF GoesOn
  <2>3. QED BY <1>1, <1>6, <1>8, <1>10, <2>2
<1>11. QED BY <1>9, <1>10

\* A name that an update chose from a fresh list is free, or its file's own name in
\* its own folder.
LEMMA UpdateNamesFrame ==
    ASSUME CallsInv, NEW r \in Requests, UpdateNames(r)
    PROVE  /\ \E c \in Frames :
                 /\ GoesOn(r, c) /\ c.at = "update" /\ c.folder = call[r].folder
                 /\ ~c.stale => /\ ~call[r].stale
                                /\ \/ c.name \notin NamesIn(c.folder)
                                   \/ /\ c.name = call[r].own
                                      /\ row[c.file].folder = c.folder
           /\ call[r].op = "update" /\ call[r].at = "names" /\ Reading
<1>1. /\ call[r].op = "update" /\ call[r].at = "names" /\ Reading
      /\ call[r].folder \in Places /\ call[r].own \in Seq(Nat)
      /\ call[r].name \in Seq(Nat) \cup {Keep} /\ call[r].stale \in BOOLEAN
  BY FrameOf DEF UpdateNames, At, FrameOK, Frames
<1>2. PICK d, E, n, own, name : /\ d = call[r].folder /\ E = NamesIn(d) /\ own = call[r].own
                                /\ name = call[r].name /\ n = NewName(own, name, E)
  OBVIOUS
<1>3. IsFiniteSet(E) /\ IsFiniteSet(E \ {own})
  BY <1>2, NamesFinite, FS_RemoveElement DEF CallsInv
<1>4. n \in Seq(Nat) /\ (n \notin E \/ (name # Keep /\ n = own))
  <2>1. CASE name = Keep
    <3>1. n = resolveDisplayName(own, E) BY <1>2, <2>1 DEF NewName
    <3>2. QED BY <1>1, <1>2, <1>3, <3>1, ResolvesFree
  <2>2. CASE name # Keep
    <3>1. n = resolveDisplayName(name, E \ {own}) BY <1>2, <2>2 DEF NewName
    <3>2. name \in Seq(Nat) BY <1>1, <1>2, <2>2
    <3>3. n \in Seq(Nat) /\ n \notin E \ {own} BY <1>3, <3>1, <3>2, ResolvesFree
    <3>4. QED BY <2>2, <3>3
  <2>3. QED BY <2>1, <2>2
<1>5. PICK u : u = (name # Keep /\ n = own /\ row[call[r].file].folder # d) OBVIOUS
<1>6. PICK s : s = (call[r].stale \/ u) OBVIOUS
<1>7. s \in BOOLEAN BY <1>6
<1>8. PICK c : c = [call[r] EXCEPT !.at = "update", !.name = n, !.stale = s] OBVIOUS
<1>9. /\ c \in Frames /\ c.op = call[r].op /\ c.file = call[r].file
      /\ c.permanent = call[r].permanent /\ c.at = "update" /\ c.folder = d /\ c.name = n
      /\ c.stale = s
  BY <1>2, <1>4, <1>7, <1>8, FrameOf DEF Frames
<1>10. FrameOK(c)
  BY <1>1, <1>2, <1>4, <1>9, FrameOf DEF FrameOK
<1>11. Becomes(r, c)
  <2>1. call' = [call EXCEPT ![r] = c] BY <1>2, <1>5, <1>6, <1>8 DEF UpdateNames
  <2>2. QED BY <2>1, NextFrame DEF CallsInv, TypeOK
<1>12. ASSUME ~c.stale
       PROVE  ~call[r].stale /\ (n \notin E \/ (n = own /\ row[c.file].folder = d))
  BY <1>4, <1>5, <1>6, <1>9, <1>12
<1>13. QED BY <1>1, <1>2, <1>9, <1>10, <1>11, <1>12 DEF GoesOn

\* An insert, or an update that finds its row, ends with a name written.
LEMMA InsertFrame ==
    ASSUME CallsInv, NEW r \in Requests, Insert(r)
    PROVE  /\ EndNamed(r) /\ call[r].op = "upload" /\ call[r].at = "insert"
           /\ call[r].file \in Files /\ call[r].folder \in Places /\ call[r].name \in Seq(Nat)
           /\ row' = [row EXCEPT ![call[r].file] =
                [state |-> "active", folder |-> call[r].folder, name |-> call[r].name,
                 summary |-> "processing"]]
           /\ objects' = objects /\ node' = node /\ task' = task
           /\ broken \subseteq broken' /\ broken' \subseteq broken \cup {call[r].file}
           /\ raced' = IF call[r].stale THEN raced \cup {call[r].file} ELSE raced
           /\ job' \in [Files -> {"none", "queued", "completed", "failed", "missing"}]
<1>1. call[r].op = "upload" /\ call[r].at = "insert" BY DEF Insert, At
<1>2. /\ call[r].file \in Files /\ call[r].folder \in Places /\ call[r].name \in Seq(Nat)
  BY <1>1, FrameOf DEF FrameOK
<1>3. job' \in [Files -> {"none", "queued", "completed", "failed", "missing"}]
  BY <1>2 DEF Insert, CallsInv, TypeOK
<1>4. broken \subseteq broken' /\ broken' \subseteq broken \cup {call[r].file}
  BY DEF Insert
<1>5. QED BY <1>1, <1>2, <1>3, <1>4 DEF Insert, InsertRow

LEMMA UpdateRowFrame ==
    ASSUME CallsInv, NEW r \in Requests, UpdateRow(r)
    PROVE  /\ call[r].op = "update" /\ call[r].at = "update"
           /\ call[r].file \in Files /\ call[r].folder \in Places /\ call[r].name \in Seq(Nat)
           /\ UNCHANGED <<objects, node, job, task, broken>>
           /\ \/ /\ Active(call[r].file) /\ EndNamed(r)
                 /\ row' = [row EXCEPT ![call[r].file].name = call[r].name,
                                       ![call[r].file].folder = call[r].folder]
                 /\ raced' = IF call[r].stale THEN raced \cup {call[r].file} ELSE raced
              \/ GoesOn(r, Idle) /\ UNCHANGED <<row, raced>>
<1>1. call[r].op = "update" /\ call[r].at = "update" BY DEF UpdateRow, At
<1>2. /\ call[r].file \in Files /\ call[r].folder \in Places /\ call[r].name \in Seq(Nat)
  BY <1>1, FrameOf DEF FrameOK
<1>3. ASSUME End(r) PROVE GoesOn(r, Idle)
  BY <1>3, EndFrame, IdleFrame DEF GoesOn, CallsInv, TypeOK
<1>4. QED BY <1>1, <1>2, <1>3 DEF UpdateRow

\* The next step of a deletion.
LEMMA ContinueFrame ==
    ASSUME CallsInv, NEW r \in Requests, call[r].op = "delete", Running(r), Continue(r)
    PROVE  \E c \in Frames : /\ GoesOn(r, c)
                             /\ c = [call[r] EXCEPT !.at = StepAfter(call[r].at, call[r].permanent)]
<1>1. PICK s : s = StepAfter(call[r].at, call[r].permanent) OBVIOUS
<1>2. s \in {"row", "object", "node"} /\ (s = "object" => call[r].permanent)
  BY <1>1 DEF StepAfter
<1>3. PICK c : c = [call[r] EXCEPT !.at = s] OBVIOUS
<1>4. /\ c \in Frames /\ c.op = "delete" /\ c.file = call[r].file
      /\ c.permanent = call[r].permanent /\ c.at = s
  BY <1>2, <1>3, FrameOf DEF Frames
<1>5. FrameOK(c) BY <1>2, <1>4, FrameOf DEF FrameOK
<1>6. Becomes(r, c) BY <1>1, <1>3, GotoFrame DEF Continue, CallsInv, TypeOK
<1>7. QED BY <1>1, <1>3, <1>4, <1>5, <1>6 DEF GoesOn

LEMMA EndGoesOn ==
    ASSUME CallsInv, NEW r \in Requests, End(r)
    PROVE  GoesOn(r, Idle)
BY EndFrame, IdleFrame DEF GoesOn, CallsInv, TypeOK

\* A step that gives its request a good frame and leaves the types of the tables.
LEMMA CallsKept ==
    ASSUME CallsInv, NEW r \in Requests, NEW c, GoesOn(r, c),
           row' \in [Files -> Rows], ActiveFiles' \subseteq ActiveFiles,
           objects' \subseteq {FileBucket} \X Files,
           node' \in [Files -> {"none", "active", "trashed"}],
           UNCHANGED <<job, task>>, broken' \subseteq Files, raced' = raced
    PROVE  CallsInv'
<1>1. call' \in [Requests -> Frames] /\ \A q \in Requests : FrameOK(call'[q])
  BY FrameSet DEF GoesOn, CallsInv, TypeOK
<1>2. IsFiniteSet(ActiveFiles') BY FS_Subset DEF CallsInv
<1>3. QED BY <1>1, <1>2 DEF CallsInv, TypeOK

\* The steps that only read.
LEMMA ReadingCalls ==
    ASSUME CallsInv, NEW r \in Requests,
           CheckFolder(r) \/ UploadNames(r) \/ UpdateGet(r) \/ UpdateNames(r) \/ DeleteGet(r)
    PROVE  CallsInv'
<1>1. \E c : GoesOn(r, c)
  <2>1. CASE CheckFolder(r) BY <2>1, CheckFolderFrame
  <2>2. CASE UploadNames(r) BY <2>2, UploadNamesFrame
  <2>3. CASE UpdateGet(r) BY <2>3, UpdateGetFrame
  <2>4. CASE UpdateNames(r) BY <2>4, UpdateNamesFrame
  <2>5. CASE DeleteGet(r)
    <3>1. call[r].op = "delete" /\ Running(r) BY <2>5 DEF DeleteGet, At, Running
    <3>2. Continue(r) \/ End(r) BY <2>5 DEF DeleteGet
    <3>3. QED BY <3>1, <3>2, ContinueFrame, EndGoesOn
  <2>6. QED BY <2>1, <2>2, <2>3, <2>4, <2>5
<1>2. PICK c : GoesOn(r, c) BY <1>1
<1>3. Reading
  BY DEF CheckFolder, UploadNames, UpdateGet, UpdateNames, DeleteGet
<1>4. ActiveFiles' = ActiveFiles BY <1>3 DEF Reading, ActiveFiles, Active
<1>5. QED BY <1>2, <1>3, <1>4, CallsKept DEF Reading, CallsInv, TypeOK

\* A row of which one field changes is still a row.
LEMMA ChangedState ==
    ASSUME row \in [Files -> Rows], NEW f \in Files, NEW s \in {"gone", "trashed"}
    PROVE  /\ [row EXCEPT ![f].state = s] \in [Files -> Rows]
           /\ [row EXCEPT ![f].state = s][f].state = s
           /\ \A g \in Files : g # f => [row EXCEPT ![f].state = s][g] = row[g]
<1>1. PICK old \in Rows : old = row[f] OBVIOUS
<1>2. PICK new : new = [old EXCEPT !.state = s] OBVIOUS
<1>3. new \in Rows /\ new.state = s BY <1>2 DEF Rows
<1>4. [row EXCEPT ![f].state = s] = [row EXCEPT ![f] = new] BY <1>1, <1>2
<1>5. QED BY <1>3, <1>4

LEMMA ChangedSummary ==
    ASSUME row \in [Files -> Rows], NEW f \in Files,
           NEW s \in {"completed", "failed", "missing"},
           NEW R, R = [row EXCEPT ![f].summary = s]
    PROVE  /\ R \in [Files -> Rows]
           /\ \A g \in Files : /\ R[g].state = row[g].state
                               /\ R[g].folder = row[g].folder
                               /\ R[g].name = row[g].name
<1>1. PICK old \in Rows : old = row[f] OBVIOUS
<1>2. PICK new : new = [old EXCEPT !.summary = s] OBVIOUS
<1>3. new \in Rows /\ new.state = old.state /\ new.folder = old.folder /\ new.name = old.name
  BY <1>2 DEF Rows
<1>4. R = [row EXCEPT ![f] = new] BY <1>1, <1>2
<1>5. QED BY <1>1, <1>3, <1>4

\* The steps of one request that write, but for the two that name a file.
LEMMA WritingCalls ==
    ASSUME CallsInv, NEW r \in Requests,
           PutObject(r) \/ DeleteRow(r) \/ DeleteObject(r) \/ DeleteNode(r) \/ Break(r)
    PROVE  CallsInv'
<1>1. CASE PutObject(r)
  <2>1. PICK c : GoesOn(r, c) /\ call[r].file \in Files BY <1>1, PutObjectFrame
  <2>2. ActiveFiles' = ActiveFiles BY <1>1 DEF PutObject, ActiveFiles, Active
  <2>3. objects' \subseteq {FileBucket} \X Files
    BY <1>1, <2>1 DEF PutObject, Original, CallsInv, TypeOK
  <2>4. QED BY <1>1, <2>1, <2>2, <2>3, CallsKept DEF PutObject, CallsInv, TypeOK
<1>2. ASSUME DeleteRow(r) \/ DeleteObject(r) \/ DeleteNode(r) \/ Break(r)
      PROVE  /\ Running(r) /\ call[r].file \in Files
             /\ DeleteRow(r) \/ DeleteObject(r) => call[r].op = "delete"
  BY <1>2, FrameOf DEF DeleteRow, DeleteObject, DeleteNode, Break, HalfDone, At, Running
<1>3. CASE DeleteRow(r)
  <2>1. PICK f : f = call[r].file /\ f \in Files BY <1>2, <1>3
  <2>2. Continue(r) \/ End(r) BY <1>3 DEF DeleteRow
  <2>3. PICK c : GoesOn(r, c) BY <1>2, <1>3, <2>2, ContinueFrame, EndGoesOn
  <2>4. \/ row' = row
        \/ \E s \in {"gone", "trashed"} : row' = [row EXCEPT ![f].state = s]
    BY <1>3, <2>1 DEF DeleteRow
  <2>5. row' \in [Files -> Rows] /\ ActiveFiles' \subseteq ActiveFiles
    <3>1. row \in [Files -> Rows] BY DEF CallsInv, TypeOK
    <3>2. CASE row' = row BY <3>1, <3>2 DEF ActiveFiles, Active
    <3>3. CASE \E s \in {"gone", "trashed"} : row' = [row EXCEPT ![f].state = s]
      <4>1. PICK s \in {"gone", "trashed"} : row' = [row EXCEPT ![f].state = s] BY <3>3
      <4>2. /\ row' \in [Files -> Rows] /\ row'[f].state = s
            /\ \A g \in Files : g # f => row'[g] = row[g]
        BY <2>1, <3>1, <4>1, ChangedState
      <4>3. QED BY <4>2 DEF ActiveFiles, Active
    <3>4. QED BY <2>4, <3>2, <3>3
  <2>6. broken' \subseteq Files BY <1>3, <2>1 DEF DeleteRow, CallsInv, TypeOK
  <2>7. QED BY <1>3, <2>3, <2>5, <2>6, CallsKept DEF DeleteRow, CallsInv, TypeOK
<1>4. CASE DeleteObject(r)
  <2>1. Continue(r) BY <1>4 DEF DeleteObject
  <2>2. PICK c : GoesOn(r, c) BY <1>2, <1>4, <2>1, ContinueFrame
  <2>3. ActiveFiles' = ActiveFiles BY <1>4 DEF DeleteObject, ActiveFiles, Active
  <2>4. broken' \subseteq Files /\ objects' \subseteq {FileBucket} \X Files
    BY <1>2, <1>4 DEF DeleteObject, CallsInv, TypeOK
  <2>5. QED BY <1>4, <2>2, <2>3, <2>4, CallsKept DEF DeleteObject, CallsInv, TypeOK
<1>5. CASE DeleteNode(r)
  <2>1. GoesOn(r, Idle) BY <1>5, EndGoesOn DEF DeleteNode
  <2>2. ActiveFiles' = ActiveFiles BY <1>5 DEF DeleteNode, ActiveFiles, Active
  <2>3. node' \in [Files -> {"none", "active", "trashed"}]
    BY <1>2, <1>5 DEF DeleteNode, DeletedNode, CallsInv, TypeOK
  <2>4. QED BY <1>5, <2>1, <2>2, <2>3, CallsKept DEF DeleteNode, CallsInv, TypeOK
<1>6. CASE Break(r)
  <2>1. GoesOn(r, Idle) BY <1>6, EndGoesOn DEF Break
  <2>2. ActiveFiles' = ActiveFiles BY <1>6 DEF Break, ActiveFiles, Active
  <2>3. broken' \subseteq Files BY <1>2, <1>6 DEF Break, CallsInv, TypeOK
  <2>4. QED BY <1>6, <2>1, <2>2, <2>3, CallsKept DEF Break, CallsInv, TypeOK
<1>7. QED BY <1>1, <1>3, <1>4, <1>5, <1>6

\* The frames after a request has ended with a name written.
LEMMA NamedCalls ==
    ASSUME CallsInv, NEW r \in Requests, Insert(r) \/ UpdateRow(r)
    PROVE  CallsInv'
<1>1. ASSUME EndNamed(r)
      PROVE  call' \in [Requests -> Frames] /\ \A q \in Requests : FrameOK(call'[q])
  <2>1. call' \in [Requests -> Frames] /\ call'[r] = Idle
        /\ \A q \in Requests : q # r => Alike(call[q], call'[q])
    BY <1>1, EndNamedFrame DEF CallsInv, TypeOK
  <2>2. QED BY <2>1, AlikeOK, IdleFrame DEF CallsInv
<1>2. CASE Insert(r)
  <2>1. PICK f, d, n : f = call[r].file /\ d = call[r].folder /\ n = call[r].name OBVIOUS
  <2>2. /\ f \in Files /\ d \in Places /\ n \in Seq(Nat) /\ EndNamed(r)
        /\ row' = [row EXCEPT ![f] = [state |-> "active", folder |-> d, name |-> n,
                                      summary |-> "processing"]]
        /\ objects' = objects /\ node' = node /\ task' = task
        /\ broken' \subseteq broken \cup {f} /\ raced' \subseteq raced \cup {f}
        /\ job' \in [Files -> {"none", "queued", "completed", "failed", "missing"}]
    BY <1>2, <2>1, InsertFrame
  <2>3. row' \in [Files -> Rows] /\ ActiveFiles' \subseteq ActiveFiles \cup {f}
    BY <2>2 DEF CallsInv, TypeOK, Rows, ActiveFiles, Active
  <2>4. IsFiniteSet(ActiveFiles')
    BY <2>3, FS_Subset, FS_AddElement DEF CallsInv
  <2>5. broken' \subseteq Files /\ raced' \subseteq Files BY <2>2 DEF CallsInv, TypeOK
  <2>6. QED BY <1>1, <2>2, <2>3, <2>4, <2>5 DEF CallsInv, TypeOK
<1>3. CASE UpdateRow(r)
  <2>1. PICK f, d, n : f = call[r].file /\ d = call[r].folder /\ n = call[r].name OBVIOUS
  <2>2. f \in Files /\ d \in Places /\ n \in Seq(Nat) /\ UNCHANGED <<objects, node, job, task, broken>>
    BY <1>3, <2>1, UpdateRowFrame
  <2>3. CASE GoesOn(r, Idle) /\ UNCHANGED <<row, raced>>
    <3>1. ActiveFiles' = ActiveFiles BY <2>3 DEF ActiveFiles, Active
    <3>2. QED BY <2>2, <2>3, <3>1, CallsKept DEF CallsInv, TypeOK
  <2>4. CASE /\ Active(f) /\ EndNamed(r)
             /\ row' = [row EXCEPT ![f].name = n, ![f].folder = d]
             /\ raced' = IF call[r].stale THEN raced \cup {f} ELSE raced
    <3>1. row' \in [Files -> Rows] /\ ActiveFiles' = ActiveFiles
      BY <2>2, <2>4 DEF CallsInv, TypeOK, Rows, ActiveFiles, Active
    <3>2. raced' \subseteq Files BY <2>2, <2>4 DEF CallsInv, TypeOK
    <3>3. QED BY <1>1, <2>2, <2>4, <3>1, <3>2 DEF CallsInv, TypeOK
  <2>5. QED BY <1>3, <2>1, <2>3, <2>4, UpdateRowFrame
<1>4. QED BY <1>2, <1>3

\* The summary jobs and the graph tasks leave the requests alone.
LEMMA BackgroundCalls ==
    ASSUME CallsInv,
           \/ \E f \in Files : Job(f) \/ LoseJob(f)
           \/ SendTask \/ ResolveResult \/ WriteNodes
    PROVE  /\ CallsInv' /\ call' = call /\ objects' = objects /\ raced' = raced
           /\ broken \subseteq broken'
           /\ \A f \in Files : /\ row'[f].state = row[f].state
                               /\ row'[f].folder = row[f].folder
                               /\ row'[f].name = row[f].name
<1>1. ASSUME NEW f \in Files, Job(f) \/ LoseJob(f)
      PROVE  /\ row' \in [Files -> Rows] /\ node' = node /\ task' = task /\ call' = call
             /\ objects' = objects /\ raced' = raced
             /\ broken \subseteq broken' /\ broken' \subseteq Files
             /\ job' \in [Files -> {"none", "queued", "completed", "failed", "missing"}]
             /\ \A g \in Files : /\ row'[g].state = row[g].state
                                 /\ row'[g].folder = row[g].folder
                                 /\ row'[g].name = row[g].name
  <2>1. CASE ReadForSummary(f)
    <3>1. \E result \in {"none", "completed", "failed", "missing"} :
             job' = [job EXCEPT ![f] = result]
      BY <2>1 DEF ReadForSummary
    <3>2. QED BY <2>1, <3>1 DEF ReadForSummary, JobStays, CallsInv, TypeOK
  <2>2. CASE SaveSummary(f)
    <3>1. SummaryOf(f) \in {"completed", "failed", "missing"}
      BY <2>2 DEF SaveSummary, SummaryOf
    <3>2. row' = row \/ row' = [row EXCEPT ![f].summary = SummaryOf(f)]
      BY <2>2 DEF SaveSummary
    <3>3. /\ row' \in [Files -> Rows]
          /\ \A g \in Files : /\ row'[g].state = row[g].state
                              /\ row'[g].folder = row[g].folder
                              /\ row'[g].name = row[g].name
      <4>1. row \in [Files -> Rows] BY DEF CallsInv, TypeOK
      <4>2. CASE row' = row BY <4>1, <4>2
      <4>3. CASE row' = [row EXCEPT ![f].summary = SummaryOf(f)]
        BY <3>1, <4>1, <4>3, ChangedSummary
      <4>4. QED BY <3>2, <4>2, <4>3
    <3>4. QED BY <2>2, <3>3 DEF SaveSummary, JobStays, CallsInv, TypeOK
  <2>3. CASE LoseJob(f) BY <2>3 DEF LoseJob, CallsInv, TypeOK
  <2>4. QED BY <1>1, <2>1, <2>2, <2>3 DEF Job
<1>2. ASSUME SendTask \/ ResolveResult \/ WriteNodes
      PROVE  /\ row' = row /\ job' = job /\ call' = call
             /\ node' \in [Files -> {"none", "active", "trashed"}]
             /\ task' \in [at : {"none", "sent", "resolved"}, files : SUBSET Files]
             /\ objects' = objects /\ raced' = raced
             /\ broken \subseteq broken' /\ broken' \subseteq Files
  <2>1. CASE SendTask
    BY <2>1 DEF SendTask, TaskStep, CallsInv, TypeOK, ActiveFiles
  <2>2. CASE ResolveResult
    BY <2>2 DEF ResolveResult, TaskStep, CallsInv, TypeOK, NoTask
  <2>3. CASE WriteNodes
    BY <2>3 DEF WriteNodes, TaskStep, CallsInv, TypeOK, NoTask
  <2>4. QED BY <1>2, <2>1, <2>2, <2>3
<1>3. CASE \E f \in Files : Job(f) \/ LoseJob(f)
  <2>1. PICK f \in Files : Job(f) \/ LoseJob(f) BY <1>3
  <2>2. ActiveFiles' = ActiveFiles BY <1>1, <2>1 DEF ActiveFiles, Active
  <2>3. QED BY <1>1, <2>1, <2>2 DEF CallsInv, TypeOK
<1>4. CASE SendTask \/ ResolveResult \/ WriteNodes
  <2>1. ActiveFiles' = ActiveFiles BY <1>2, <1>4 DEF ActiveFiles, Active
  <2>2. QED BY <1>2, <1>4, <2>1 DEF CallsInv, TypeOK
<1>5. QED BY <1>3, <1>4

-----------------------------------------------------------------------------
(* Rows, objects and nodes.                                                *)

\* The requests other than r are where they were.
Others(r) == \A q \in Requests : q # r => Alike(call[q], call'[q])

\* Request r goes on to something of the same call, or ends.
SameCall(r) ==
    /\ Running(r)
    /\ \/ call'[r] = Idle
       \/ /\ call'[r].op = call[r].op /\ call'[r].file = call[r].file
          /\ call'[r].permanent = call[r].permanent

LEMMA OthersStay ==
    ASSUME NEW r \in Requests, Others(r), NEW q \in Requests, q # r
    PROVE  /\ call'[q].op = call[q].op /\ call'[q].at = call[q].at
           /\ call'[q].file = call[q].file /\ call'[q].permanent = call[q].permanent
           /\ Running(q)' <=> Running(q)
           /\ HalfDone(q)' <=> HalfDone(q)
           /\ \A f : /\ Pending(q, f)' <=> Pending(q, f)
                     /\ Deleting(q, f)' <=> Deleting(q, f)
<1>1. Alike(call[q], call'[q]) BY DEF Others
<1>2. /\ call'[q].op = call[q].op /\ call'[q].at = call[q].at
      /\ call'[q].file = call[q].file /\ call'[q].permanent = call[q].permanent
  BY <1>1 DEF Alike
<1>3. QED BY <1>2 DEF Running, HalfDone, At, Pending, Deleting

LEMMA GoesOnSame ==
    ASSUME NEW r \in Requests, Running(r), NEW c, GoesOn(r, c)
    PROVE  SameCall(r) /\ Others(r) /\ call'[r] = c
BY DEF GoesOn, SameCall, Others, Becomes, Alike

\* The uploads keep their files for themselves while no row that is unused is written.
LEMMA AloneKept ==
    ASSUME UploadsAlone, NEW r \in Requests, SameCall(r), Others(r),
           \A f \in Files : row[f].state = "unused" => row'[f].state = "unused",
           CallsInv,
           \A f \in Files : Stored(f) /\ row[f].state = "unused" => Stored(f)',
           call'[r].op = "upload" /\ call'[r].at = "insert" =>
              Original(call[r].file) \in objects'
    PROVE  UploadsAlone'
<1> SUFFICES ASSUME NEW p \in Requests, call'[p].op = "upload"
             PROVE  /\ row'[call'[p].file].state = "unused"
                    /\ \A q \in Requests : q # p /\ Running(q)' => call'[q].file # call'[p].file
                    /\ call'[p].at = "insert" => Original(call'[p].file) \in objects'
  BY DEF UploadsAlone, Stored, Original
<1>1. /\ call[p].op = "upload" /\ call'[p].file = call[p].file
      /\ p # r => call'[p].at = call[p].at
  BY OthersStay, IdleFrame DEF SameCall
<1>2. Running(p) /\ call[p].file \in Files BY <1>1, FrameOf DEF FrameOK, Running
<1>3. /\ row[call[p].file].state = "unused"
      /\ \A q \in Requests : q # p /\ Running(q) => call[q].file # call[p].file
      /\ call[p].at = "insert" => Stored(call[p].file)
  BY <1>1 DEF UploadsAlone
<1>4. ASSUME NEW q \in Requests, Running(q)' PROVE Running(q) /\ call'[q].file = call[q].file
  BY <1>4, OthersStay, IdleFrame DEF SameCall, Running
<1>5. QED BY <1>1, <1>2, <1>3, <1>4 DEF Stored, Original

\* A deletion of another request finds its row gone as before.
LEMMA FirstKept ==
    ASSUME CallsInv, LifeInv, NEW r \in Requests, Others(r),
           \A f \in Files : row[f].state = "gone" => row'[f].state = "gone",
           call'[r].op = "delete" /\ call'[r].at = "object" =>
              row'[call'[r].file].state = "gone"
    PROVE  RowsFirst'
<1> SUFFICES ASSUME NEW q \in Requests, call'[q].op = "delete", call'[q].at = "object", q # r
             PROVE  row'[call'[q].file].state = "gone"
  BY DEF RowsFirst, At
<1>1. /\ call[q].op = "delete" /\ call[q].at = "object" /\ call'[q].file = call[q].file
  BY OthersStay
<1>2. call[q].file \in Files BY <1>1, FrameOf DEF FrameOK
<1>3. QED BY <1>1, <1>2 DEF LifeInv, RowsFirst, At

\* What holds of a file goes on to hold while only a request that is not half done
\* with it, before or after, makes a step.
LEMMA FileKept ==
    ASSUME LifeInv, NEW r \in Requests, Others(r), NEW f \in Files,
           ~Pending(r, f),
           row'[f].state = row[f].state, node'[f] = node[f], broken \subseteq broken',
           Original(f) \in objects' <=> Original(f) \in objects
    PROVE  ObjectOf(f)' /\ NodeOf(f)'
<1>1. (Exists(f)' <=> Exists(f)) /\ (Stored(f)' <=> Stored(f))
  BY DEF Exists, Stored, Original
<1>2. \A q \in Requests :
         /\ Pending(q, f) => Pending(q, f)' /\ call'[q].at = call[q].at
         /\ Deleting(q, f) => Deleting(q, f)' /\ call'[q].permanent = call[q].permanent
  <2> SUFFICES ASSUME NEW q \in Requests
               PROVE  /\ Pending(q, f) => Pending(q, f)' /\ call'[q].at = call[q].at
                      /\ Deleting(q, f) => Deleting(q, f)' /\ call'[q].permanent = call[q].permanent
    OBVIOUS
  <2>1. CASE q = r BY <2>1 DEF Deleting
  <2>2. CASE q # r BY <2>2, OthersStay
  <2>3. QED BY <2>1, <2>2
<1>3. ObjectOf(f) /\ NodeOf(f) BY DEF LifeInv
<1>4. ObjectOf(f)' BY <1>1, <1>2, <1>3 DEF ObjectOf
<1>5. NodeOf(f)' BY <1>2, <1>3 DEF NodeOf
<1>6. QED BY <1>4, <1>5

\* A step between two points where nothing is half done.
LEMMA QuietLife ==
    ASSUME CallsInv, LifeInv, NEW r \in Requests, SameCall(r), Others(r),
           ~HalfDone(r), ~HalfDone(r)',
           \A f \in Files : row'[f].state = row[f].state,
           objects' = objects, node' = node, broken \subseteq broken'
    PROVE  LifeInv'
<1>1. UploadsAlone'
  <2>1. ~(call'[r].op = "upload" /\ call'[r].at = "insert") BY DEF HalfDone, At
  <2>2. \A f \in Files : Stored(f)' <=> Stored(f) BY DEF Stored, Original
  <2>3. QED BY <2>1, <2>2, AloneKept DEF LifeInv
<1>2. RowsFirst'
  <2>1. ~(call'[r].op = "delete" /\ call'[r].at = "object") BY DEF HalfDone, At
  <2>2. QED BY <2>1, FirstKept
<1>3. \A f \in Files : ObjectOf(f)' /\ NodeOf(f)'
  <2> SUFFICES ASSUME NEW f \in Files PROVE ObjectOf(f)' /\ NodeOf(f)' OBVIOUS
  <2>1. ~Pending(r, f) BY DEF Pending
  <2>2. QED BY <2>1, FileKept
<1>4. QED BY <1>1, <1>2, <1>3 DEF LifeInv

\* The steps that only read, and an update that writes a name.
LEMMA ReadingLife ==
    ASSUME CallsInv, LifeInv, NEW r \in Requests,
           \/ CheckFolder(r) \/ UploadNames(r) \/ UpdateGet(r) \/ UpdateNames(r) \/ DeleteGet(r)
           \/ UpdateRow(r)
    PROVE  LifeInv'
<1>1. ASSUME NEW c, GoesOn(r, c), Reading, Running(r), ~HalfDone(r),
             ~(c.op = "upload" /\ c.at = "insert"),
             ~(c.op = "delete" /\ c.at \in {"object", "node"})
      PROVE  LifeInv'
  <2>1. SameCall(r) /\ Others(r) /\ call'[r] = c BY <1>1, GoesOnSame
  <2>2. ~HalfDone(r)' BY <1>1, <2>1 DEF HalfDone, At
  <2>3. QED BY <1>1, <2>1, <2>2, QuietLife DEF Reading
<1>2. CASE CheckFolder(r)
  <2>1. /\ call[r].op \in {"upload", "update"} /\ call[r].at = "folder" /\ Reading
        /\ \E c : GoesOn(r, c) /\ (c = Idle \/ c.at = "names")
    <3>1. PICK c : GoesOn(r, c) /\ (c = Idle \/ c = [call[r] EXCEPT !.at = "names"])
      BY <1>2, CheckFolderFrame
    <3>2. c = Idle \/ c.at = "names" BY <3>1, FrameOf DEF Frames
    <3>3. QED BY <1>2, <3>1, <3>2, CheckFolderFrame
  <2>2. Running(r) /\ ~HalfDone(r) BY <2>1 DEF Running, HalfDone, At
  <2>3. QED BY <1>1, <2>1, <2>2, IdleFrame
<1>3. CASE UploadNames(r)
  <2>1. /\ call[r].at = "names" /\ call[r].op = "upload" /\ Reading
        /\ \E c : GoesOn(r, c) /\ c.at = "put"
    BY <1>3, UploadNamesFrame
  <2>2. Running(r) /\ ~HalfDone(r) BY <2>1 DEF Running, HalfDone, At
  <2>3. QED BY <1>1, <2>1, <2>2
<1>4. CASE UpdateGet(r)
  <2>1. /\ call[r].at = "get" /\ call[r].op = "update" /\ Reading
        /\ \E c : GoesOn(r, c) /\ (c = Idle \/ c.at \in {"folder", "names"})
    BY <1>4, UpdateGetFrame
  <2>2. Running(r) /\ ~HalfDone(r) BY <2>1 DEF Running, HalfDone, At
  <2>3. QED BY <1>1, <2>1, <2>2, IdleFrame
<1>5. CASE UpdateNames(r)
  <2>1. /\ call[r].at = "names" /\ call[r].op = "update" /\ Reading
        /\ \E c : GoesOn(r, c) /\ c.at = "update"
    BY <1>5, UpdateNamesFrame
  <2>2. Running(r) /\ ~HalfDone(r) BY <2>1 DEF Running, HalfDone, At
  <2>3. QED BY <1>1, <2>1, <2>2
<1>6. CASE DeleteGet(r)
  <2>1. call[r].at = "get" /\ call[r].op = "delete" /\ Reading BY <1>6 DEF DeleteGet, At
  <2>2. Running(r) /\ ~HalfDone(r) BY <2>1 DEF Running, HalfDone, At
  <2>3. CASE Continue(r)
    <3>1. PICK c : GoesOn(r, c) /\ c = [call[r] EXCEPT !.at = StepAfter("get", call[r].permanent)]
      BY <2>1, <2>2, <2>3, ContinueFrame
    <3>2. c.at = "row" BY <3>1, FrameOf DEF StepAfter, Frames
    <3>3. QED BY <1>1, <2>1, <2>2, <3>1, <3>2
  <2>4. CASE End(r)
    <3>1. GoesOn(r, Idle) BY <2>4, EndGoesOn
    <3>2. QED BY <1>1, <2>1, <2>2, <3>1, IdleFrame
  <2>5. QED BY <1>6, <2>3, <2>4 DEF DeleteGet
<1>7. CASE UpdateRow(r)
  <2>1. /\ call[r].op = "update" /\ call[r].at = "update" /\ call[r].file \in Files
        /\ UNCHANGED <<objects, node, job, task, broken>>
    BY <1>7, UpdateRowFrame
  <2>2. Running(r) /\ ~HalfDone(r) BY <2>1 DEF Running, HalfDone, At
  <2>3. CASE GoesOn(r, Idle) /\ UNCHANGED <<row, raced>>
    <3>1. SameCall(r) /\ Others(r) /\ call'[r] = Idle BY <2>2, <2>3, GoesOnSame
    <3>2. ~HalfDone(r)' BY <3>1, IdleFrame DEF HalfDone, At
    <3>3. QED BY <2>1, <2>2, <2>3, <3>1, <3>2, QuietLife
  <2>4. CASE /\ EndNamed(r)
             /\ row' = [row EXCEPT ![call[r].file].name = call[r].name,
                                   ![call[r].file].folder = call[r].folder]
    <3>1. SameCall(r) /\ Others(r) /\ call'[r] = Idle
      BY <2>2, <2>4, EndNamedFrame DEF CallsInv, TypeOK, SameCall, Others
    <3>2. ~HalfDone(r)' BY <3>1, IdleFrame DEF HalfDone, At
    <3>3. \A f \in Files : row'[f].state = row[f].state
      BY <2>1, <2>4 DEF CallsInv, TypeOK, Rows
    <3>4. QED BY <2>1, <2>2, <3>1, <3>2, <3>3, QuietLife
  <2>5. QED BY <1>7, <2>3, <2>4, UpdateRowFrame
<1>8. QED BY <1>2, <1>3, <1>4, <1>5, <1>6, <1>7

\* A step of one request leaves what holds of the files it is not about.
LEMMA OtherFiles ==
    ASSUME LifeInv, NEW r \in Requests, Others(r), broken \subseteq broken',
           NEW f, call[r].file = f,
           \A g \in Files : g # f => /\ row'[g].state = row[g].state /\ node'[g] = node[g]
                                     /\ Original(g) \in objects' <=> Original(g) \in objects
    PROVE  \A g \in Files : g # f => ObjectOf(g)' /\ NodeOf(g)'
<1> SUFFICES ASSUME NEW g \in Files, g # f PROVE ObjectOf(g)' /\ NodeOf(g)' OBVIOUS
<1>1. ~Pending(r, g) BY DEF Pending
<1>2. QED BY <1>1, FileKept

\* The two parts of what holds of one file, put together.
LEMMA LifeOf ==
    ASSUME UploadsAlone', RowsFirst', NEW f, ObjectOf(f)', NodeOf(f)',
           \A g \in Files : g # f => ObjectOf(g)' /\ NodeOf(g)'
    PROVE  LifeInv'
<1>1. ASSUME NEW g \in Files PROVE ObjectOf(g)' /\ NodeOf(g)'
  <2>1. CASE g = f BY <2>1
  <2>2. CASE g # f BY <2>2
  <2>3. QED BY <2>1, <2>2
<1>2. QED BY <1>1 DEF LifeInv

LEMMA PutObjectLife ==
    ASSUME CallsInv, LifeInv, NEW r \in Requests, PutObject(r)
    PROVE  LifeInv'
<1>1. PICK f \in Files : f = call[r].file BY PutObjectFrame
<1>2. PICK c \in Frames : GoesOn(r, c) /\ c = [call[r] EXCEPT !.at = "insert"]
  BY PutObjectFrame
<1>3. /\ call[r].op = "upload" /\ call[r].at = "put" /\ Running(r)
      /\ objects' = objects \cup {Original(f)}
      /\ row' = row /\ node' = node /\ broken' = broken
  BY <1>1 DEF PutObject, At, Running
<1>4. c.op = "upload" /\ c.at = "insert" /\ c.file = f
  BY <1>1, <1>2, <1>3, FrameOf DEF Frames
<1>5. SameCall(r) /\ Others(r) /\ call'[r] = c BY <1>2, <1>3, GoesOnSame
<1>6. row[f].state = "unused" BY <1>1, <1>3 DEF LifeInv, UploadsAlone
<1>7. UploadsAlone'
  <2>1. \A g \in Files : Stored(g) => Stored(g)' BY <1>3 DEF Stored, Original
  <2>2. Original(call[r].file) \in objects' BY <1>1, <1>3
  <2>3. QED BY <1>3, <1>5, <2>1, <2>2, AloneKept DEF LifeInv
<1>8. RowsFirst' BY <1>3, <1>4, <1>5, FirstKept
<1>9. ObjectOf(f)'
  <2>1. ~Exists(f)' BY <1>3, <1>6 DEF Exists
  <2>2. Pending(r, f)' /\ call'[r].at # "node" BY <1>4, <1>5 DEF Pending, HalfDone, At
  <2>3. QED BY <2>1, <2>2 DEF ObjectOf
<1>10. NodeOf(f)' BY <1>3, <1>6 DEF NodeOf
<1>11. \A g \in Files : g # f => ObjectOf(g)' /\ NodeOf(g)'
  <2>1. \A g \in Files : g # f => (Original(g) \in objects' <=> Original(g) \in objects)
    BY <1>3 DEF Original
  <2>2. QED BY <1>1, <1>3, <1>5, <2>1, OtherFiles
<1>12. QED BY <1>7, <1>8, <1>9, <1>10, <1>11, LifeOf

LEMMA InsertLife ==
    ASSUME CallsInv, LifeInv, NEW r \in Requests, Insert(r)
    PROVE  LifeInv'
<1>1. PICK f \in Files : f = call[r].file BY InsertFrame
<1>2. /\ call[r].op = "upload" /\ call[r].at = "insert" /\ Running(r) /\ EndNamed(r)
      /\ objects' = objects /\ node' = node /\ broken \subseteq broken'
      /\ row' = [row EXCEPT ![f] = [state |-> "active", folder |-> call[r].folder,
                                    name |-> call[r].name, summary |-> "processing"]]
  BY <1>1, InsertFrame DEF Running
<1>3. /\ row[f].state = "unused" /\ Stored(f)
      /\ \A q \in Requests : q # r /\ Running(q) => call[q].file # f
  BY <1>1, <1>2 DEF LifeInv, UploadsAlone
<1>4. SameCall(r) /\ Others(r) /\ call'[r] = Idle
  BY <1>2, EndNamedFrame DEF CallsInv, TypeOK, SameCall, Others
<1>5. row'[f].state = "active" /\ \A g \in Files : g # f => row'[g] = row[g]
  BY <1>2 DEF CallsInv, TypeOK
<1>6. UploadsAlone'
  <2> SUFFICES ASSUME NEW p \in Requests, call'[p].op = "upload"
               PROVE  /\ row'[call'[p].file].state = "unused"
                      /\ \A q \in Requests : q # p /\ Running(q)' => call'[q].file # call'[p].file
                      /\ call'[p].at = "insert" => Original(call'[p].file) \in objects'
    BY DEF UploadsAlone, Stored, Original
  <2>1. p # r BY <1>4, IdleFrame
  <2>2. call[p].op = "upload" /\ call'[p].file = call[p].file /\ call'[p].at = call[p].at
    BY <1>4, <2>1, OthersStay
  <2>3. Running(p) /\ call[p].file \in Files BY <2>2, FrameOf DEF FrameOK, Running
  <2>4. /\ row[call[p].file].state = "unused"
        /\ \A q \in Requests : q # p /\ Running(q) => call[q].file # call[p].file
        /\ call[p].at = "insert" => Stored(call[p].file)
    BY <2>2 DEF LifeInv, UploadsAlone
  <2>5. call[p].file # f BY <1>3, <2>1, <2>3
  <2>6. ASSUME NEW q \in Requests, Running(q)' PROVE Running(q) /\ call'[q].file = call[q].file
    <3>1. q # r BY <1>4, <2>6, IdleFrame DEF Running
    <3>2. QED BY <1>4, <2>6, <3>1, OthersStay
  <2>7. QED BY <1>2, <1>5, <2>2, <2>3, <2>4, <2>5, <2>6 DEF Stored, Original
<1>7. RowsFirst' BY <1>3, <1>4, <1>5, FirstKept, IdleFrame
<1>8. ObjectOf(f)' BY <1>2, <1>3, <1>5 DEF ObjectOf, Exists, Stored, Original
<1>9. NodeOf(f)' BY <1>5 DEF NodeOf
<1>10. \A g \in Files : g # f => ObjectOf(g)' /\ NodeOf(g)'
  BY <1>1, <1>2, <1>4, <1>5, OtherFiles
<1>11. QED BY <1>6, <1>7, <1>8, <1>9, <1>10, LifeOf

\* A deletion that has found its row: the object and the node are still to go.
LEMMA DeleteRowLife ==
    ASSUME CallsInv, LifeInv, NEW r \in Requests, DeleteRow(r)
    PROVE  LifeInv'
<1>1. call[r].op = "delete" /\ call[r].at = "row" /\ Running(r) /\ ~HalfDone(r)
  BY DEF DeleteRow, At, Running, HalfDone
<1>2. PICK f \in Files : f = call[r].file BY <1>1, FrameOf
<1>3. PICK found \in BOOLEAN : found <=> IF call[r].permanent THEN Exists(f) ELSE Active(f)
  <2>1. CASE IF call[r].permanent THEN Exists(f) ELSE Active(f) BY <2>1
  <2>2. CASE ~IF call[r].permanent THEN Exists(f) ELSE Active(f) BY <2>2
  <2>3. QED BY <2>1, <2>2
<1>4. /\ row' = IF ~found THEN row
                ELSE [row EXCEPT ![f].state = IF call[r].permanent THEN "gone" ELSE "trashed"]
      /\ objects' = objects /\ node' = node
  BY <1>2, <1>3 DEF DeleteRow
<1>5. \/ (IF found THEN Continue(r) ELSE End(r)) /\ broken' = broken
      \/ found /\ End(r) /\ broken' = broken \cup {f}
  BY <1>2, <1>3 DEF DeleteRow
<1>6. CASE ~found
  <2>1. End(r) /\ row' = row /\ broken' = broken BY <1>4, <1>5, <1>6
  <2>2. SameCall(r) /\ Others(r) /\ call'[r] = Idle BY <1>1, <2>1, EndGoesOn, GoesOnSame
  <2>3. ~HalfDone(r)' BY <2>2, IdleFrame DEF HalfDone, At
  <2>4. QED BY <1>1, <1>4, <2>1, <2>2, <2>3, QuietLife
<1>7. CASE found
  <2>1. Exists(f) /\ (call[r].permanent \in BOOLEAN) BY <1>3, <1>7, FrameOf DEF Exists, Active, Frames
  <2>2. PICK s \in {"gone", "trashed"} :
            /\ s = IF call[r].permanent THEN "gone" ELSE "trashed"
            /\ row' = [row EXCEPT ![f].state = s]
    BY <1>4, <1>7
  <2>3. row'[f].state = s /\ \A g \in Files : g # f => row'[g] = row[g]
    BY <2>2, ChangedState DEF CallsInv, TypeOK
  <2>4. \/ /\ Continue(r) /\ broken' = broken
        \/ /\ End(r) /\ broken' = broken \cup {f}
    BY <1>5, <1>7
  <2>5. \E c : /\ GoesOn(r, c)
               /\ \/ /\ c.op = "delete" /\ c.file = f /\ c.permanent = call[r].permanent
                     /\ c.at = IF call[r].permanent THEN "object" ELSE "node"
                     /\ broken' = broken
                  \/ c = Idle /\ broken' = broken \cup {f}
    <3>1. CASE Continue(r) /\ broken' = broken
      <4>1. PICK c : GoesOn(r, c) /\ c = [call[r] EXCEPT !.at = StepAfter("row", call[r].permanent)]
        BY <1>1, <3>1, ContinueFrame
      <4>2. /\ c.op = "delete" /\ c.file = f /\ c.permanent = call[r].permanent
            /\ c.at = StepAfter("row", call[r].permanent)
        BY <1>1, <1>2, <4>1, FrameOf DEF Frames
      <4>3. c.at = IF call[r].permanent THEN "object" ELSE "node"
        BY <2>1, <4>2 DEF StepAfter
      <4>4. QED BY <3>1, <4>1, <4>2, <4>3
    <3>2. CASE End(r) /\ broken' = broken \cup {f} BY <3>2, EndGoesOn
    <3>3. QED BY <2>4, <3>1, <3>2
  <2>6. PICK c : /\ GoesOn(r, c)
                 /\ \/ /\ c.op = "delete" /\ c.file = f /\ c.permanent = call[r].permanent
                       /\ c.at = IF call[r].permanent THEN "object" ELSE "node"
                       /\ broken' = broken
                    \/ c = Idle /\ broken' = broken \cup {f}
    BY <2>5
  <2>7. SameCall(r) /\ Others(r) /\ call'[r] = c BY <1>1, <2>6, GoesOnSame
  <2>8. UploadsAlone'
    <3>1. \A g \in Files : row[g].state = "unused" => row'[g].state = "unused"
      BY <2>1, <2>3 DEF Exists
    <3>2. \A g \in Files : Stored(g) => Stored(g)' BY <1>4 DEF Stored, Original
    <3>3. c.op # "upload" BY <2>6, IdleFrame
    <3>4. QED BY <2>7, <3>1, <3>2, <3>3, AloneKept DEF LifeInv
  <2>9. RowsFirst'
    <3>1. \A g \in Files : row[g].state = "gone" => row'[g].state = "gone"
      BY <2>1, <2>3 DEF Exists
    <3>2. c.at = "object" => c.file = f /\ row'[f].state = "gone"
      BY <2>2, <2>3, <2>6, IdleFrame
    <3>3. QED BY <2>7, <3>1, <3>2, FirstKept
  <2>10. \A g \in Files : g # f => ObjectOf(g)' /\ NodeOf(g)'
    BY <1>2, <1>4, <2>3, <2>6, <2>7, OtherFiles
  <2>11. Stored(f)' BY <1>4, <2>1 DEF LifeInv, ObjectOf, Stored, Original
  <2>12. CASE c = Idle /\ broken' = broken \cup {f}
    BY <2>8, <2>9, <2>10, <2>11, <2>12, LifeOf DEF ObjectOf, NodeOf
  <2>13. CASE /\ c.op = "delete" /\ c.file = f /\ c.permanent = call[r].permanent
              /\ c.at = IF call[r].permanent THEN "object" ELSE "node"
    <3>1. Deleting(r, f)' /\ Pending(r, f)'
      BY <2>7, <2>13 DEF Deleting, Pending, HalfDone, At
    <3>2. CASE call[r].permanent
      <4>1. row'[f].state = "gone" /\ call'[r].at # "node" /\ call'[r].permanent
        BY <2>2, <2>3, <2>7, <2>13, <3>2
      <4>2. ~Exists(f)' BY <4>1 DEF Exists
      <4>3. ObjectOf(f)' /\ NodeOf(f)' BY <3>1, <4>1, <4>2 DEF ObjectOf, NodeOf
      <4>4. QED BY <2>8, <2>9, <2>10, <4>3, LifeOf
    <3>3. CASE ~call[r].permanent
      <4>1. row'[f].state = "trashed" BY <2>2, <2>3, <3>3
      <4>2. Exists(f)' BY <4>1 DEF Exists
      <4>3. ObjectOf(f)' /\ NodeOf(f)' BY <2>11, <3>1, <4>1, <4>2 DEF ObjectOf, NodeOf
      <4>4. QED BY <2>8, <2>9, <2>10, <4>3, LifeOf
    <3>4. QED BY <3>2, <3>3
  <2>14. QED BY <2>6, <2>12, <2>13
<1>8. QED BY <1>6, <1>7

LEMMA DeleteObjectLife ==
    ASSUME CallsInv, LifeInv, NEW r \in Requests, DeleteObject(r)
    PROVE  LifeInv'
<1>1. call[r].op = "delete" /\ call[r].at = "object" /\ Running(r) /\ call[r].permanent
  BY FrameOf DEF DeleteObject, At, Running, FrameOK
<1>2. PICK f \in Files : f = call[r].file BY <1>1, FrameOf
<1>3. row[f].state = "gone" BY <1>1, <1>2 DEF LifeInv, RowsFirst, At
<1>4. /\ row' = row /\ node' = node /\ Continue(r)
      /\ \/ objects' = objects \ {Original(f)} /\ broken' = broken
         \/ broken' = broken \cup {f} /\ objects' = objects
  BY <1>2 DEF DeleteObject
<1>5. PICK c : GoesOn(r, c) /\ c = [call[r] EXCEPT !.at = StepAfter("object", call[r].permanent)]
  BY <1>1, <1>4, ContinueFrame
<1>6. c.op = "delete" /\ c.file = f /\ c.permanent /\ c.at = "node"
  <2>1. /\ c.op = "delete" /\ c.file = f /\ c.permanent = call[r].permanent
        /\ c.at = StepAfter("object", call[r].permanent)
    BY <1>1, <1>2, <1>5, FrameOf DEF Frames
  <2>2. QED BY <1>1, <2>1 DEF StepAfter
<1>7. SameCall(r) /\ Others(r) /\ call'[r] = c BY <1>1, <1>5, GoesOnSame
<1>8. \A g \in Files : g # f => (Original(g) \in objects' <=> Original(g) \in objects)
  BY <1>4 DEF Original
<1>9. UploadsAlone'
  <2>1. \A g \in Files : Stored(g) /\ row[g].state = "unused" => Stored(g)'
    BY <1>3, <1>8 DEF Stored, Original
  <2>2. QED BY <1>4, <1>6, <1>7, <2>1, AloneKept DEF LifeInv
<1>10. RowsFirst' BY <1>4, <1>6, <1>7, FirstKept
<1>11. ~Exists(f)' BY <1>3, <1>4 DEF Exists
<1>12. ObjectOf(f)'
  <2>1. CASE objects' = objects \ {Original(f)}
    <3>1. ~Stored(f)' BY <2>1 DEF Stored, Original
    <3>2. QED BY <1>11, <3>1 DEF ObjectOf
  <2>2. CASE broken' = broken \cup {f} BY <1>11, <2>2 DEF ObjectOf
  <2>3. QED BY <1>4, <2>1, <2>2
<1>13. NodeOf(f)'
  <2>1. Deleting(r, f)' /\ call'[r].permanent
    BY <1>6, <1>7 DEF Deleting, Pending, HalfDone, At
  <2>2. QED BY <2>1 DEF NodeOf
<1>14. \A g \in Files : g # f => ObjectOf(g)' /\ NodeOf(g)'
  BY <1>2, <1>4, <1>7, <1>8, OtherFiles
<1>15. QED BY <1>9, <1>10, <1>12, <1>13, <1>14, LifeOf

\* The end of a request in the middle of its writes, with its node deleted or not.
LEMMA EndingLife ==
    ASSUME CallsInv, LifeInv, NEW r \in Requests, DeleteNode(r) \/ Break(r)
    PROVE  LifeInv'
<1>1. Running(r) /\ End(r) /\ row' = row /\ objects' = objects /\ broken \subseteq broken'
  BY DEF DeleteNode, Break, HalfDone, At, Running
<1>2. PICK f \in Files : f = call[r].file BY <1>1, FrameOf
<1>3. SameCall(r) /\ Others(r) /\ call'[r] = Idle BY <1>1, EndGoesOn, GoesOnSame
<1>4. \A g \in Files : g # f => node'[g] = node[g]
  BY <1>2 DEF DeleteNode, Break, CallsInv, TypeOK
<1>5. UploadsAlone'
  <2>1. \A g \in Files : Stored(g) => Stored(g)' BY <1>1 DEF Stored, Original
  <2>2. QED BY <1>1, <1>3, <2>1, AloneKept, IdleFrame DEF LifeInv
<1>6. RowsFirst' BY <1>1, <1>3, FirstKept, IdleFrame
<1>7. \A g \in Files : g # f => ObjectOf(g)' /\ NodeOf(g)'
  BY <1>1, <1>2, <1>3, <1>4, OtherFiles
<1>8. ObjectOf(f) /\ NodeOf(f) BY DEF LifeInv
<1>9. (Exists(f)' <=> Exists(f)) /\ (Stored(f)' <=> Stored(f))
  BY <1>1 DEF Exists, Stored, Original
<1>10. CASE DeleteNode(r)
  <2>1. /\ At(r, "delete", "node") /\ broken' = broken
        /\ node'[f] = DeletedNode(f, call[r].permanent)
    BY <1>2, <1>10 DEF DeleteNode, CallsInv, TypeOK
  <2>2. \A q \in Requests : Pending(q, f) /\ call[q].at # "node" =>
           Pending(q, f)' /\ call'[q].at # "node"
    BY <1>3, <2>1, OthersStay DEF At
  <2>3. ObjectOf(f)' BY <1>8, <1>9, <2>1, <2>2 DEF ObjectOf
  <2>4. node'[f] # "active" /\ (node'[f] # "none" => ~call[r].permanent /\ node[f] # "none")
    BY <2>1 DEF DeletedNode
  <2>5. \A q \in Requests : Deleting(q, f) /\ call[q].permanent /\ ~call[r].permanent =>
           Deleting(q, f)' /\ call'[q].permanent
    BY <1>3, OthersStay
  <2>6. NodeOf(f)' BY <1>1, <1>8, <2>1, <2>4, <2>5 DEF NodeOf
  <2>7. QED BY <1>5, <1>6, <1>7, <2>3, <2>6, LifeOf
<1>11. CASE Break(r)
  <2>1. f \in broken' BY <1>2, <1>11 DEF Break
  <2>2. ObjectOf(f)' /\ NodeOf(f)' BY <1>8, <1>9, <2>1 DEF ObjectOf, NodeOf
  <2>3. QED BY <1>5, <1>6, <1>7, <2>2, LifeOf
<1>12. QED BY <1>10, <1>11

\* A request that begins: an upload takes a file that has no row and no object, the
\* others one that has a row.
LEMMA BeginLife ==
    ASSUME CallsInv, LifeInv, NEW r \in Requests, NEW c \in Frames, FrameOK(c), Begin(r, c),
           NEW f \in Files, c.file = f,
           \/ c.op = "upload" /\ c.at # "insert" /\ row[f] = Unused /\ ~Busy(f)
           \/ c.op \in {"update", "delete"} /\ c.at = "get" /\ Exists(f)
    PROVE  LifeInv'
<1>1. /\ Becomes(r, c) /\ ~Running(r)
      /\ UNCHANGED <<row, objects, node, job, task, broken, raced>>
  BY BeginStep
<1>2. call'[r] = c /\ \A q \in Requests : q # r => call'[q] = call[q] BY <1>1 DEF Becomes
<1>3. UploadsAlone'
  <2> SUFFICES ASSUME NEW p \in Requests, call'[p].op = "upload"
               PROVE  /\ row'[call'[p].file].state = "unused"
                      /\ \A q \in Requests : q # p /\ Running(q)' => call'[q].file # call'[p].file
                      /\ call'[p].at = "insert" => Original(call'[p].file) \in objects'
    BY DEF UploadsAlone, Stored, Original
  <2>1. CASE p = r
    <3>1. c.op = "upload" /\ row[f] = Unused /\ ~Busy(f) /\ c.at # "insert" BY <1>2, <2>1
    <3>2. row[f].state = "unused" BY <3>1 DEF Unused
    <3>3. \A q \in Requests : q # p /\ Running(q)' => call'[q].file # f
      BY <1>2, <2>1, <3>1 DEF Busy, Running
    <3>4. QED BY <1>1, <1>2, <2>1, <3>1, <3>2, <3>3
  <2>2. CASE p # r
    <3>1. call'[p] = call[p] /\ Running(p) /\ call[p].op = "upload"
      BY <1>2, <2>2, FrameOf DEF Running, FrameOK
    <3>2. /\ row[call[p].file].state = "unused"
          /\ \A q \in Requests : q # p /\ Running(q) => call[q].file # call[p].file
          /\ call[p].at = "insert" => Stored(call[p].file)
      BY <3>1 DEF LifeInv, UploadsAlone
    <3>3. f # call[p].file BY <3>1, <3>2 DEF Busy, Exists
    <3>4. ASSUME NEW q \in Requests, q # p, Running(q)' PROVE call'[q].file # call'[p].file
      BY <1>2, <3>1, <3>2, <3>3, <3>4 DEF Running
    <3>5. QED BY <1>1, <3>1, <3>2, <3>4 DEF Stored, Original
  <2>3. QED BY <2>1, <2>2
<1>4. RowsFirst'
  <2>1. \A q \in Requests : At(q, "delete", "object")' => q # r BY <1>2 DEF At
  <2>2. QED BY <1>1, <1>2, <2>1 DEF LifeInv, RowsFirst, At
<1>5. ASSUME NEW g \in Files PROVE ObjectOf(g)' /\ NodeOf(g)'
  <2>1. ObjectOf(g) /\ NodeOf(g) BY DEF LifeInv
  <2>2. \A q \in Requests : Pending(q, g) => call'[q] = call[q] /\ Pending(q, g)'
    BY <1>1, <1>2 DEF Pending, HalfDone, At, Running
  <2>3. ObjectOf(g)' BY <1>1, <2>1, <2>2 DEF ObjectOf, Exists, Stored, Original
  <2>4. \A q \in Requests : Deleting(q, g) => call'[q] = call[q] /\ Deleting(q, g)'
    BY <2>2 DEF Deleting
  <2>5. NodeOf(g)' BY <1>1, <2>1, <2>4 DEF NodeOf
  <2>6. QED BY <2>3, <2>5
<1>6. QED BY <1>3, <1>4, <1>5 DEF LifeInv

\* A background step writes a node only of a file that is active, or that it breaks.
LEMMA BackgroundNodes ==
    ASSUME \/ \E f \in Files : Job(f) \/ LoseJob(f)
           \/ SendTask \/ ResolveResult \/ WriteNodes,
           CallsInv
    PROVE  \A f \in Files : node'[f] = node[f] \/ Active(f) \/ f \in broken'
<1>1. CASE WriteNodes
  BY <1>1 DEF WriteNodes, ActiveFiles, CallsInv, TypeOK
<1>2. CASE \/ \E f \in Files : Job(f) \/ LoseJob(f)
           \/ SendTask \/ ResolveResult
  BY <1>2 DEF Job, LoseJob, ReadForSummary, SaveSummary, JobStays, SendTask, ResolveResult
<1>3. QED BY <1>1, <1>2

LEMMA BackgroundLife ==
    ASSUME CallsInv, LifeInv,
           \/ \E f \in Files : Job(f) \/ LoseJob(f)
           \/ SendTask \/ ResolveResult \/ WriteNodes
    PROVE  LifeInv'
<1>1. /\ call' = call /\ objects' = objects /\ broken \subseteq broken'
      /\ \A f \in Files : row'[f].state = row[f].state
  BY BackgroundCalls
<1>2. \A f \in Files : node'[f] = node[f] \/ Active(f) \/ f \in broken'
  BY BackgroundNodes
<1>3. \A r \in Requests : Running(r) => call[r].file \in Files BY FrameOf
<1>4. UploadsAlone'
  <2> SUFFICES ASSUME NEW p \in Requests, call'[p].op = "upload"
               PROVE  /\ row'[call'[p].file].state = "unused"
                      /\ \A q \in Requests : q # p /\ Running(q)' => call'[q].file # call'[p].file
                      /\ call'[p].at = "insert" => Original(call'[p].file) \in objects'
    BY DEF UploadsAlone, Stored, Original
  <2>1. call[p].op = "upload" /\ Running(p) /\ call[p].file \in Files
    BY <1>1, FrameOf DEF Running, FrameOK
  <2>2. QED BY <1>1, <2>1 DEF LifeInv, UploadsAlone, Running, Stored, Original
<1>5. RowsFirst'
  <2> SUFFICES ASSUME NEW p \in Requests, At(p, "delete", "object")
               PROVE  row'[call[p].file].state = "gone"
    BY <1>1 DEF RowsFirst, At
  <2>1. call[p].file \in Files BY <1>3 DEF At, Running
  <2>2. QED BY <1>1, <2>1 DEF LifeInv, RowsFirst
<1>6. ASSUME NEW f \in Files PROVE ObjectOf(f)' /\ NodeOf(f)'
  <2>1. ObjectOf(f) /\ NodeOf(f) BY DEF LifeInv
  <2>2. \A q \in Requests : /\ Pending(q, f)' <=> Pending(q, f)
                            /\ Deleting(q, f)' <=> Deleting(q, f)
    BY <1>1 DEF Deleting, Pending, HalfDone, At
  <2>3. ObjectOf(f)' BY <1>1, <2>1, <2>2 DEF ObjectOf, Exists, Stored, Original
  <2>4. NodeOf(f)'
    <3>1. CASE node'[f] = node[f] BY <1>1, <2>1, <2>2, <3>1 DEF NodeOf
    <3>2. CASE Active(f) \/ f \in broken' BY <1>1, <3>2 DEF NodeOf, Active
    <3>3. QED BY <1>2, <3>1, <3>2
  <2>5. QED BY <2>3, <2>4
<1>7. QED BY <1>4, <1>5, <1>6 DEF LifeInv

\* A request that is made.
LEMMA RequestLife ==
    ASSUME CallsInv, LifeInv, NEW r \in Requests, NEW f \in Files, Request(r, f)
    PROVE  CallsInv' /\ LifeInv' /\ \E c \in Frames : Begin(r, c) /\ FrameOK(c) /\ c.at \in {"names", "folder", "get"} /\ (c.op = "update" => c.at = "get")
<1>1. \E c \in Frames :
         /\ FrameOK(c) /\ Begin(r, c) /\ c.file = f
         /\ c.at \in {"names", "folder", "get"} /\ (c.op = "update" => c.at = "get")
         /\ \/ c.op = "upload" /\ c.at # "insert" /\ row[f] = Unused /\ ~Busy(f)
            \/ c.op \in {"update", "delete"} /\ c.at = "get" /\ Exists(f)
  <2>1. CASE \E d \in Places, name \in Typed : Upload(r, f, d, name)
    <3>1. PICK c \in Frames : /\ FrameOK(c) /\ Begin(r, c) /\ c.op = "upload" /\ c.file = f
                              /\ c.at \in {"names", "folder"} /\ row[f] = Unused /\ ~Busy(f)
      BY <2>1, RequestFrames
    <3>2. QED BY <3>1
  <2>2. CASE \E d \in Places \cup {Keep}, name \in Typed \cup {Keep} : Update(r, f, name, d)
    <3>1. PICK c \in Frames : /\ FrameOK(c) /\ Begin(r, c) /\ c.op = "update" /\ c.file = f
                              /\ c.at = "get" /\ Exists(f)
      BY <2>2, RequestFrames
    <3>2. QED BY <3>1
  <2>3. CASE \E permanent \in BOOLEAN : Delete(r, f, permanent)
    <3>1. PICK c \in Frames : /\ FrameOK(c) /\ Begin(r, c) /\ c.op = "delete" /\ c.file = f
                              /\ c.at = "get" /\ Exists(f)
      BY <2>3, RequestFrames
    <3>2. QED BY <3>1
  <2>4. QED BY <2>1, <2>2, <2>3 DEF Request
<1>2. QED BY <1>1, BeginStep, BeginLife

\* The types, the frames and what holds of rows, objects and nodes are kept.
LEMMA LifeNext ==
    ASSUME CallsInv, LifeInv, [Next]_vars
    PROVE  CallsInv' /\ LifeInv'
<1>1. ASSUME NEW r \in Requests, NEW f \in Files, Request(r, f) PROVE CallsInv' /\ LifeInv'
  BY <1>1, RequestLife
<1>2. ASSUME NEW r \in Requests, Step(r) \/ Break(r) PROVE CallsInv' /\ LifeInv'
  <2>1. CASE CheckFolder(r) \/ UploadNames(r) \/ UpdateGet(r) \/ UpdateNames(r) \/ DeleteGet(r)
    BY <2>1, ReadingCalls, ReadingLife
  <2>2. CASE UpdateRow(r) BY <2>2, NamedCalls, ReadingLife
  <2>3. CASE Insert(r) BY <2>3, NamedCalls, InsertLife
  <2>4. CASE PutObject(r) BY <2>4, WritingCalls, PutObjectLife
  <2>5. CASE DeleteRow(r) BY <2>5, WritingCalls, DeleteRowLife
  <2>6. CASE DeleteObject(r) BY <2>6, WritingCalls, DeleteObjectLife
  <2>7. CASE DeleteNode(r) \/ Break(r) BY <2>7, WritingCalls, EndingLife
  <2>8. QED BY <1>2, <2>1, <2>2, <2>3, <2>4, <2>5, <2>6, <2>7 DEF Step
<1>3. CASE \/ \E f \in Files : Job(f) \/ LoseJob(f)
           \/ SendTask \/ ResolveResult \/ WriteNodes
  BY <1>3, BackgroundCalls, BackgroundLife
<1>4. CASE UNCHANGED vars
  <2>1. CallsInv' BY <1>4 DEF CallsInv, TypeOK, ActiveFiles, Active, vars
  <2>2. LifeInv'
    BY <1>4 DEF LifeInv, UploadsAlone, RowsFirst, ObjectOf, NodeOf, Deleting, Pending, HalfDone,
                At, Running, Stored, Exists, Original, vars
  <2>3. QED BY <2>1, <2>2
<1>5. QED BY <1>1, <1>2, <1>3, <1>4 DEF Next

-----------------------------------------------------------------------------
(* Names.                                                                  *)

\* A step that makes no file active and names or moves none.
Fewer ==
    /\ \A f \in Files : Active(f)' => Active(f)
    /\ \A f \in Files : row'[f].name = row[f].name /\ row'[f].folder = row[f].folder
    /\ raced' = raced

Knows(r) == FreeName(r) /\ OwnName(r) /\ NewNameFree(r)

LEMMA FewerNames ==
    ASSUME Fewer
    PROVE  /\ \A d, n : n \notin NamesIn(d) => n \notin NamesIn(d)'
           /\ ClashOnlyByRaceOrMove => ClashOnlyByRaceOrMove'
<1>1. ASSUME NEW d, NEW n, n \in NamesIn(d)' PROVE n \in NamesIn(d)
  <2>1. PICK f \in Files : Active(f)' /\ row'[f].folder = d /\ row'[f].name = n
    BY <1>1 DEF NamesIn, ActiveFiles
  <2>2. QED BY <2>1 DEF NamesIn, ActiveFiles, Fewer
<1>2. ASSUME ClashOnlyByRaceOrMove, NEW f \in Files, NEW g \in Files, Clash(f, g)'
      PROVE  f \in raced' \/ g \in raced'
  <2>1. Clash(f, g) BY <1>2 DEF Clash, Fewer
  <2>2. QED BY <1>2, <2>1 DEF ClashOnlyByRaceOrMove, Fewer
<1>3. ClashOnlyByRaceOrMove => ClashOnlyByRaceOrMove' BY <1>2 DEF ClashOnlyByRaceOrMove
<1>4. QED BY <1>1, <1>3

\* What a request knows that stays where it is.
LEMMA StillKnows ==
    ASSUME CallsInv, Fewer, NEW r \in Requests, call'[r] = call[r], Knows(r)
    PROVE  Knows(r)'
<1>1. PICK c, f : c = call[r] /\ f = c.file OBVIOUS
<1>2. c \in Frames /\ FrameOK(c) BY <1>1, FrameOf
<1>3. FreeName(r)'
  <2>1. SUFFICES ASSUME c.at \in {"put", "insert"}, ~c.stale PROVE c.name \notin NamesIn(c.folder)'
    BY <1>1 DEF FreeName
  <2>2. c.name \notin NamesIn(c.folder) BY <1>1, <2>1 DEF Knows, FreeName
  <2>3. QED BY <2>2, FewerNames
<1>4. OwnName(r)'
  <2>1. SUFFICES ASSUME c.op = "update", c.at \in {"folder", "names"}, ~c.stale, Active(f)'
                 PROVE  row'[f].name = c.own
    BY <1>1 DEF OwnName, Active
  <2>2. f \in Files BY <1>1, <1>2, <2>1 DEF FrameOK
  <2>3. QED BY <1>1, <2>1, <2>2 DEF Fewer, Knows, OwnName
<1>5. NewNameFree(r)'
  <2>1. SUFFICES ASSUME c.op = "update", c.at = "update", ~c.stale, Active(f)',
                        NEW g \in ActiveFiles', g # f,
                        row'[g].folder = c.folder, row'[g].name = c.name
                 PROVE  f \in raced' \/ g \in raced'
    BY <1>1 DEF NewNameFree, At, Active
  <2>2. f \in Files BY <1>1, <1>2, <2>1 DEF FrameOK
  <2>3. g \in ActiveFiles \ {f} /\ Active(f) /\ row[g].folder = c.folder /\ row[g].name = c.name
    BY <2>1, <2>2 DEF Fewer, ActiveFiles
  <2>4. f \in raced \/ g \in raced BY <1>1, <2>1, <2>3 DEF Knows, NewNameFree, At
  <2>5. QED BY <2>4 DEF Fewer
<1>6. QED BY <1>3, <1>4, <1>5 DEF Knows

\* Request r goes on, or begins, and knows what it should: the rest stays.
LEMMA QuietNames ==
    ASSUME CallsInv, NamesInv, Fewer, NEW r \in Requests, NEW c, Becomes(r, c), Knows(r)'
    PROVE  NamesInv'
<1>1. ASSUME NEW q \in Requests PROVE Knows(q)'
  <2>1. CASE q = r BY <2>1
  <2>2. CASE q # r
    <3>1. call'[q] = call[q] /\ Knows(q) BY <2>2 DEF Becomes, NamesInv, Knows
    <3>2. QED BY <3>1, StillKnows
  <2>3. QED BY <2>1, <2>2
<1>2. QED BY <1>1, FewerNames DEF NamesInv, Knows

\* A request that has read nothing, or uses no name.
LEMMA KnowsNothing ==
    ASSUME NEW r \in Requests, NEW c, call'[r] = c,
           c.at \notin {"put", "insert", "update"},
           c.op = "update" => c.at \notin {"folder", "names"}
    PROVE  Knows(r)'
BY DEF Knows, FreeName, OwnName, NewNameFree, At

LEMMA IdleNames ==
    ASSUME CallsInv, NamesInv, Fewer, NEW r \in Requests, Becomes(r, Idle)
    PROVE  NamesInv'
<1>1. Idle.op = "none" /\ Idle.at = "idle" /\ call'[r] = Idle BY IdleFrame DEF Becomes
<1>2. Knows(r)' BY <1>1, KnowsNothing
<1>3. QED BY <1>2, QuietNames

LEMMA ReadingFewer ==
    ASSUME Reading
    PROVE  Fewer /\ row' = row /\ raced' = raced /\ ActiveFiles' = ActiveFiles
           /\ \A d : NamesIn(d)' = NamesIn(d)
BY DEF Reading, Fewer, Active, ActiveFiles, NamesIn

\* The steps of an upload before it inserts its row.
LEMMA UploadKnows ==
    ASSUME CallsInv, NamesInv, NEW r \in Requests, call[r].op = "upload",
           CheckFolder(r) \/ UploadNames(r) \/ PutObject(r)
    PROVE  NamesInv'
<1>1. CASE CheckFolder(r)
  <2>1. Reading /\ \E c \in Frames : GoesOn(r, c) /\ (c = Idle \/ c = [call[r] EXCEPT !.at = "names"])
    BY <1>1, CheckFolderFrame, IdleFrame
  <2>2. PICK c \in Frames : GoesOn(r, c) /\ (c = Idle \/ c = [call[r] EXCEPT !.at = "names"])
    BY <2>1
  <2>3. c.at \in {"idle", "names"} /\ c.op # "update" BY <2>2, FrameOf, IdleFrame DEF Frames
  <2>4. Becomes(r, c) /\ call'[r] = c BY <2>2 DEF GoesOn, Becomes
  <2>5. Knows(r)' BY <2>3, <2>4, KnowsNothing
  <2>6. QED BY <2>1, <2>4, <2>5, QuietNames, ReadingFewer
<1>2. CASE UploadNames(r)
  <2>1. PICK c \in Frames : GoesOn(r, c) /\ c.at = "put" /\ c.name \notin NamesIn(c.folder)
    BY <1>2, UploadNamesFrame
  <2>2. Reading BY <1>2, UploadNamesFrame
  <2>3. Becomes(r, c) /\ call'[r] = c BY <2>1 DEF GoesOn, Becomes
  <2>4. c.name \notin NamesIn(c.folder)' BY <2>1, <2>2, ReadingFewer
  <2>5. Knows(r)' BY <2>1, <2>3, <2>4 DEF Knows, FreeName, OwnName, NewNameFree, At
  <2>6. QED BY <2>2, <2>3, <2>5, QuietNames, ReadingFewer
<1>3. CASE PutObject(r)
  <2>1. PICK c \in Frames : GoesOn(r, c) /\ c = [call[r] EXCEPT !.at = "insert"]
    BY <1>3, PutObjectFrame
  <2>2. /\ call[r].at = "put" /\ c.at = "insert" /\ c.op = "upload" /\ c.folder = call[r].folder
        /\ c.name = call[r].name /\ c.stale = call[r].stale
    BY <1>3, <2>1, PutObjectFrame, FrameOf DEF Frames
  <2>3. Becomes(r, c) /\ call'[r] = c BY <2>1 DEF GoesOn, Becomes
  <2>4. row' = row /\ raced' = raced BY <1>3 DEF PutObject
  <2>5. Fewer BY <2>4 DEF Fewer, Active
  <2>6. ~c.stale => c.name \notin NamesIn(c.folder)'
    BY <2>2, <2>5, FewerNames DEF NamesInv, FreeName
  <2>7. Knows(r)' BY <2>2, <2>3, <2>6 DEF Knows, FreeName, OwnName, NewNameFree, At
  <2>8. QED BY <2>3, <2>5, <2>7, QuietNames
<1>4. QED BY <1>1, <1>2, <1>3

\* The steps of an update before it writes its row.
LEMMA UpdateKnows ==
    ASSUME CallsInv, NamesInv, NEW r \in Requests, call[r].op = "update",
           CheckFolder(r) \/ UpdateGet(r) \/ UpdateNames(r)
    PROVE  NamesInv'
<1>1. CASE CheckFolder(r)
  <2>1. Reading /\ call[r].at = "folder"
        /\ \E c \in Frames : GoesOn(r, c) /\ (c = Idle \/ c = [call[r] EXCEPT !.at = "names"])
    BY <1>1, CheckFolderFrame, IdleFrame
  <2>2. PICK c \in Frames : GoesOn(r, c) /\ (c = Idle \/ c = [call[r] EXCEPT !.at = "names"])
    BY <2>1
  <2>3. CASE c = Idle BY <2>1, <2>2, <2>3, IdleNames, ReadingFewer DEF GoesOn
  <2>4. CASE c = [call[r] EXCEPT !.at = "names"]
    <3>1. /\ c.at = "names" /\ c.op = "update" /\ c.file = call[r].file /\ c.own = call[r].own
          /\ c.stale = call[r].stale
      BY <2>4, FrameOf DEF Frames
    <3>2. Becomes(r, c) /\ call'[r] = c BY <2>2 DEF GoesOn, Becomes
    <3>3. ~c.stale /\ Active(c.file)' => row'[c.file].name = c.own
      BY <2>1, <3>1, ReadingFewer DEF NamesInv, OwnName, Active
    <3>4. Knows(r)' BY <3>1, <3>2, <3>3 DEF Knows, FreeName, OwnName, NewNameFree, At, Active
    <3>5. QED BY <2>1, <3>2, <3>4, QuietNames, ReadingFewer
  <2>5. QED BY <2>2, <2>3, <2>4
<1>2. CASE UpdateGet(r)
  <2>1. Reading BY <1>2, UpdateGetFrame
  <2>2. CASE GoesOn(r, Idle) BY <2>1, <2>2, IdleNames, ReadingFewer DEF GoesOn
  <2>3. CASE \E c \in Frames : GoesOn(r, c) /\ c.at \in {"folder", "names"}
                               /\ c.own = row[c.file].name
    <3>1. PICK c \in Frames : GoesOn(r, c) /\ c.at \in {"folder", "names"}
                               /\ c.own = row[c.file].name
      BY <2>3
    <3>2. Becomes(r, c) /\ call'[r] = c BY <3>1 DEF GoesOn, Becomes
    <3>3. row'[c.file].name = c.own BY <2>1, <3>1, ReadingFewer
    <3>4. Knows(r)' BY <3>1, <3>2, <3>3 DEF Knows, FreeName, OwnName, NewNameFree, At
    <3>5. QED BY <2>1, <3>2, <3>4, QuietNames, ReadingFewer
  <2>4. QED BY <1>2, <2>2, <2>3, UpdateGetFrame
<1>3. CASE UpdateNames(r)
  <2>1. PICK c \in Frames :
            /\ GoesOn(r, c) /\ c.at = "update" /\ c.folder = call[r].folder
            /\ ~c.stale => /\ ~call[r].stale
                           /\ \/ c.name \notin NamesIn(c.folder)
                              \/ c.name = call[r].own /\ row[c.file].folder = c.folder
    BY <1>3, UpdateNamesFrame
  <2>2. Reading /\ call[r].at = "names" /\ call[r].file \in Files
    BY <1>3, UpdateNamesFrame, FrameOf DEF FrameOK
  <2>3. Becomes(r, c) /\ call'[r] = c BY <2>1 DEF GoesOn, Becomes
  <2>4. c.op = "update" /\ c.file = call[r].file BY <2>1, IdleFrame DEF GoesOn
  <2>5. PICK f \in Files : f = c.file BY <2>2, <2>4
  <2>6. ASSUME ~c.stale, Active(f), NEW g \in ActiveFiles, g # f,
               row[g].folder = c.folder, row[g].name = c.name
        PROVE  f \in raced \/ g \in raced
    <3>1. c.name \in NamesIn(c.folder) BY <2>6 DEF NamesIn
    <3>2. ~call[r].stale /\ c.name = call[r].own /\ row[f].folder = c.folder
      BY <2>1, <2>5, <2>6, <3>1
    <3>3. row[f].name = call[r].own
      BY <2>2, <2>4, <2>5, <2>6, <3>2 DEF NamesInv, OwnName
    <3>4. Clash(f, g) BY <2>6, <3>2, <3>3 DEF Clash, ActiveFiles
    <3>5. QED BY <2>6, <3>4 DEF NamesInv, ClashOnlyByRaceOrMove, ActiveFiles
  <2>7. row' = row /\ raced' = raced /\ ActiveFiles' = ActiveFiles BY <2>2, ReadingFewer
  <2>8. NewNameFree(r)'
    <3>1. SUFFICES ASSUME ~c.stale, Active(f)', NEW g \in ActiveFiles' \ {f},
                          row'[g].folder = c.folder, row'[g].name = c.name
                   PROVE  f \in raced' \/ g \in raced'
      BY <2>3, <2>5 DEF NewNameFree, At, Active
    <3>2. QED BY <2>6, <2>7, <3>1 DEF Active
  <2>9. Knows(r)' BY <2>1, <2>3, <2>8 DEF Knows, FreeName, OwnName, At
  <2>10. QED BY <2>2, <2>3, <2>9, QuietNames, ReadingFewer
<1>4. QED BY <1>1, <1>2, <1>3

\* Request r gives file f a folder and a name; when its list was fresh the name clashes
\* with none there, but for those that clashed before.
Names(r, f, d, n) ==
    /\ EndNamed(r)
    /\ row'[f].folder = d /\ row'[f].name = n
    /\ \A g \in Files : g # f => row'[g] = row[g]
    /\ raced' = IF call[r].stale THEN raced \cup {f} ELSE raced
    /\ \A g \in ActiveFiles \ {f} :
          ~call[r].stale /\ row[g].folder = d /\ row[g].name = n => f \in raced \/ g \in raced

LEMMA WritingNames ==
    ASSUME CallsInv, NamesInv, NEW r \in Requests, NEW f \in Files, NEW d, NEW n,
           Names(r, f, d, n)
    PROVE  NamesInv'
<1> USE DEF Names
<1>1. ASSUME NEW q \in Requests PROVE Knows(q)'
  <2>1. CASE q = r
    <3>1. call'[r] = Idle BY EndNamedFrame DEF CallsInv, TypeOK
    <3>2. QED BY <2>1, <3>1, IdleFrame, KnowsNothing
  <2>2. CASE q # r
    <3>1. \/ call'[q].stale
          \/ /\ call'[q] = call[q]
             /\ call[q].at \notin {"put", "insert", "update"}
             /\ ~(call[q].op = "update" /\ call[q].at \in {"folder", "names"})
      BY <2>2, EndNamedFrame DEF CallsInv, TypeOK
    <3>2. CASE call'[q].stale BY <3>2 DEF Knows, FreeName, OwnName, NewNameFree
    <3>3. CASE /\ call'[q] = call[q]
               /\ call[q].at \notin {"put", "insert", "update"}
               /\ ~(call[q].op = "update" /\ call[q].at \in {"folder", "names"})
      BY <3>3, KnowsNothing
    <3>4. QED BY <3>1, <3>2, <3>3
  <2>3. QED BY <2>1, <2>2
<1>2. raced \subseteq raced' /\ (call[r].stale => f \in raced') OBVIOUS
<1>3. ASSUME NEW g \in Files, g # f, Active(g)', row'[g].folder = d, row'[g].name = n
      PROVE  f \in raced' \/ g \in raced'
  <2>1. g \in ActiveFiles \ {f} /\ row[g].folder = d /\ row[g].name = n
    BY <1>3 DEF ActiveFiles, Active
  <2>2. QED BY <1>2, <2>1
<1>4. ASSUME NEW x \in Files, NEW y \in Files, Clash(x, y)'
      PROVE  x \in raced' \/ y \in raced'
  <2>1. CASE x = f BY <1>3, <1>4, <2>1 DEF Clash
  <2>2. CASE y = f BY <1>3, <1>4, <2>2 DEF Clash
  <2>3. CASE x # f /\ y # f
    <3>1. Clash(x, y) BY <1>4, <2>3 DEF Clash, Active
    <3>2. QED BY <1>2, <3>1 DEF NamesInv, ClashOnlyByRaceOrMove
  <2>4. QED BY <2>1, <2>2, <2>3
<1>5. ClashOnlyByRaceOrMove' BY <1>4 DEF ClashOnlyByRaceOrMove
<1>6. QED BY <1>1, <1>5 DEF NamesInv, Knows

LEMMA InsertNames ==
    ASSUME CallsInv, NamesInv, NEW r \in Requests, Insert(r)
    PROVE  NamesInv'
<1>1. PICK f \in Files, d \in Places, n \in Seq(Nat) :
          f = call[r].file /\ d = call[r].folder /\ n = call[r].name
  BY InsertFrame
<1>2. /\ EndNamed(r) /\ call[r].at = "insert"
      /\ row' = [row EXCEPT ![f] = [state |-> "active", folder |-> d, name |-> n,
                                    summary |-> "processing"]]
      /\ raced' = IF call[r].stale THEN raced \cup {f} ELSE raced
  BY <1>1, InsertFrame
<1>3. row'[f].folder = d /\ row'[f].name = n /\ \A g \in Files : g # f => row'[g] = row[g]
  BY <1>2 DEF CallsInv, TypeOK
<1>4. ~call[r].stale => n \notin NamesIn(d) BY <1>1, <1>2 DEF NamesInv, FreeName
<1>5. \A g \in ActiveFiles \ {f} :
         ~call[r].stale /\ row[g].folder = d /\ row[g].name = n => f \in raced \/ g \in raced
  BY <1>4 DEF NamesIn
<1>6. Names(r, f, d, n) BY <1>2, <1>3, <1>5 DEF Names
<1>7. QED BY <1>6, WritingNames

LEMMA UpdateRowNames ==
    ASSUME CallsInv, NamesInv, NEW r \in Requests, UpdateRow(r)
    PROVE  NamesInv'
<1>1. PICK f \in Files, d \in Places, n \in Seq(Nat) :
          f = call[r].file /\ d = call[r].folder /\ n = call[r].name
  BY UpdateRowFrame
<1>2. call[r].op = "update" /\ call[r].at = "update" BY UpdateRowFrame
<1>3. CASE GoesOn(r, Idle) /\ UNCHANGED <<row, raced>>
  BY <1>3, IdleNames DEF GoesOn, Fewer, Active
<1>4. CASE /\ Active(f) /\ EndNamed(r)
           /\ row' = [row EXCEPT ![f].name = n, ![f].folder = d]
           /\ raced' = IF call[r].stale THEN raced \cup {f} ELSE raced
  <2>1. row'[f].folder = d /\ row'[f].name = n /\ \A g \in Files : g # f => row'[g] = row[g]
    BY <1>4 DEF CallsInv, TypeOK, Rows
  <2>2. \A g \in ActiveFiles \ {f} :
           ~call[r].stale /\ row[g].folder = d /\ row[g].name = n => f \in raced \/ g \in raced
    BY <1>1, <1>2, <1>4 DEF NamesInv, NewNameFree, At
  <2>3. EndNamed(r) /\ raced' = IF call[r].stale THEN raced \cup {f} ELSE raced BY <1>4
  <2>4. /\ row'[f].folder = d /\ row'[f].name = n
        /\ \A g \in Files : g # f => row'[g] = row[g]
    BY <2>1
  <2>5. Names(r, f, d, n) BY <2>2, <2>3, <2>4 DEF Names
  <2>6. QED BY <2>5, WritingNames
<1>5. QED BY <1>1, <1>3, <1>4, UpdateRowFrame

\* A deletion names nothing.
LEMMA DeletionNames ==
    ASSUME CallsInv, NamesInv, NEW r \in Requests,
           DeleteGet(r) \/ DeleteRow(r) \/ DeleteObject(r) \/ DeleteNode(r) \/ Break(r)
    PROVE  NamesInv'
<1>1. Running(r) /\ raced' = raced /\ (call[r].op = "delete" \/ End(r))
  BY DEF DeleteGet, DeleteRow, DeleteObject, DeleteNode, Break, Reading, HalfDone, At, Running
<1>2. Fewer
  <2>1. CASE row' = row BY <1>1, <2>1 DEF Fewer, Active
  <2>2. CASE DeleteRow(r)
    <3>1. PICK f \in Files : f = call[r].file BY <1>1, FrameOf
    <3>2. row' = row \/ \E s \in {"gone", "trashed"} : row' = [row EXCEPT ![f].state = s]
      BY <2>2, <3>1 DEF DeleteRow
    <3>3. CASE \E s \in {"gone", "trashed"} : row' = [row EXCEPT ![f].state = s]
      <4>1. PICK s \in {"gone", "trashed"} : row' = [row EXCEPT ![f].state = s] BY <3>3
      <4>2. /\ row'[f].state = s /\ row'[f].name = row[f].name /\ row'[f].folder = row[f].folder
            /\ \A g \in Files : g # f => row'[g] = row[g]
        BY <4>1 DEF CallsInv, TypeOK, Rows
      <4>3. QED BY <1>1, <4>2 DEF Fewer, Active
    <3>4. QED BY <2>1, <3>2, <3>3
  <2>3. QED BY <2>1, <2>2 DEF DeleteGet, DeleteObject, DeleteNode, Break, Reading
<1>3. CASE End(r) BY <1>2, <1>3, EndGoesOn, IdleNames DEF GoesOn
<1>4. CASE ~End(r)
  <2>1. Continue(r) /\ call[r].op = "delete"
    BY <1>1, <1>4 DEF DeleteGet, DeleteRow, DeleteObject, DeleteNode, Break
  <2>2. PICK c \in Frames : GoesOn(r, c) BY <1>1, <2>1, ContinueFrame
  <2>3. Becomes(r, c) /\ call'[r] = c BY <2>2 DEF GoesOn, Becomes
  <2>4. (c.op = "delete" \/ c = Idle) /\ FrameOK(c) BY <2>1, <2>2 DEF GoesOn
  <2>5. c.at \notin {"put", "insert", "update"} /\ c.op # "update"
    BY <2>4, IdleFrame DEF FrameOK
  <2>6. Knows(r)' BY <2>3, <2>5, KnowsNothing
  <2>7. QED BY <1>2, <2>3, <2>6, QuietNames
<1>5. QED BY <1>3, <1>4

\* What is known of names is kept.
LEMMA NamesNext ==
    ASSUME CallsInv, LifeInv, NamesInv, [Next]_vars
    PROVE  NamesInv'
<1>1. ASSUME NEW r \in Requests, NEW f \in Files, Request(r, f) PROVE NamesInv'
  <2>1. PICK c \in Frames : /\ Begin(r, c) /\ FrameOK(c) /\ c.at \in {"names", "folder", "get"}
                            /\ c.op = "update" => c.at = "get"
    BY <1>1, RequestLife
  <2>2. Becomes(r, c) /\ call'[r] = c /\ row' = row /\ raced' = raced
    BY <2>1, BeginStep DEF Becomes
  <2>3. Knows(r)' BY <2>1, <2>2, KnowsNothing
  <2>4. QED BY <2>2, <2>3, QuietNames DEF Fewer, Active
<1>2. ASSUME NEW r \in Requests, Step(r) \/ Break(r) PROVE NamesInv'
  <2>1. CASE CheckFolder(r)
    <3>1. call[r].op \in {"upload", "update"} BY <2>1, CheckFolderFrame
    <3>2. QED BY <2>1, <3>1, UploadKnows, UpdateKnows
  <2>2. CASE UploadNames(r) \/ PutObject(r)
    BY <2>2, UploadNamesFrame, PutObjectFrame, UploadKnows
  <2>3. CASE UpdateGet(r) \/ UpdateNames(r)
    BY <2>3, UpdateGetFrame, UpdateNamesFrame, UpdateKnows
  <2>4. CASE Insert(r) BY <2>4, InsertNames
  <2>5. CASE UpdateRow(r) BY <2>5, UpdateRowNames
  <2>6. CASE DeleteGet(r) \/ DeleteRow(r) \/ DeleteObject(r) \/ DeleteNode(r) \/ Break(r)
    BY <2>6, DeletionNames
  <2>7. QED BY <1>2, <2>1, <2>2, <2>3, <2>4, <2>5, <2>6 DEF Step
<1>3. ASSUME call' = call, Fewer PROVE NamesInv'
  <2>1. \A q \in Requests : Knows(q)' BY <1>3, StillKnows DEF NamesInv, Knows
  <2>2. QED BY <1>3, <2>1, FewerNames DEF NamesInv, Knows
<1>4. CASE \/ \E f \in Files : Job(f) \/ LoseJob(f)
           \/ SendTask \/ ResolveResult \/ WriteNodes
  <2>1. call' = call /\ Fewer BY <1>4, BackgroundCalls DEF Fewer, Active
  <2>2. QED BY <1>3, <2>1
<1>5. CASE UNCHANGED vars BY <1>3, <1>5 DEF vars, Fewer, Active
<1>6. QED BY <1>1, <1>2, <1>4, <1>5 DEF Next

-----------------------------------------------------------------------------
(* The theorems.                                                           *)

\* A finite library of files, no two of a folder with the same name.
LibraryOK(at) ==
    /\ DOMAIN at \in SUBSET Files /\ IsFiniteSet(DOMAIN at)
    /\ \A f \in DOMAIN at : at[f] \in Rows
    /\ \A f, g \in DOMAIN at :
          f # g => ~(at[f].folder = at[g].folder /\ at[f].name = at[g].name)

LEMMA FilesInit ==
    ASSUME NEW at, LibraryOK(at), InitWith(at)
    PROVE  CallsInv /\ LifeInv /\ NamesInv
<1>1. ASSUME NEW f \in Files
      PROVE  /\ row[f] \in Rows
             /\ f \in DOMAIN at => /\ row[f].state = "active" /\ row[f].folder = at[f].folder
                                   /\ row[f].name = at[f].name
             /\ f \notin DOMAIN at => row[f].state = "unused"
  <2>1. CASE f \in DOMAIN at
    <3>1. PICK old \in Rows : old = at[f] BY <2>1 DEF LibraryOK
    <3>2. row[f] = [old EXCEPT !.state = "active", !.summary = "completed"]
      BY <2>1, <3>1 DEF InitWith
    <3>3. QED BY <2>1, <3>1, <3>2 DEF Rows
  <2>2. CASE f \notin DOMAIN at
    <3>1. row[f] = Unused BY <2>2 DEF InitWith
    <3>2. Unused \in Rows /\ Unused.state = "unused" BY DEF Unused, Rows, Places
    <3>3. QED BY <2>2, <3>1, <3>2
  <2>3. QED BY <2>1, <2>2
<1>2. ActiveFiles = DOMAIN at BY <1>1 DEF ActiveFiles, Active, LibraryOK
<1>3. \A r \in Requests : call[r] = Idle /\ call[r].op = "none" /\ call[r].at = "idle"
  BY IdleFrame DEF InitWith
<1>4. TypeOK
  <2>1. row \in [Files -> Rows] BY <1>1 DEF InitWith
  <2>2. call \in [Requests -> Frames] BY IdleFrame DEF InitWith
  <2>3. objects \subseteq {FileBucket} \X Files
    <3>1. PICK S \in SUBSET Files : S = DOMAIN at BY DEF LibraryOK
    <3>2. \A f \in S : <<FileBucket, f>> \in {FileBucket} \X Files BY <3>1
    <3>3. objects = {<<FileBucket, f>> : f \in S} BY <3>1 DEF InitWith, Original
    <3>4. QED BY <3>2, <3>3
  <2>4. QED BY <2>1, <2>2, <2>3 DEF InitWith, TypeOK, NoTask
<1>5. CallsInv BY <1>2, <1>3, <1>4, IdleFrame DEF CallsInv, LibraryOK
<1>6. LifeInv
  <2>1. ASSUME NEW f \in Files PROVE ObjectOf(f) /\ NodeOf(f)
    <3>1. Stored(f) <=> f \in DOMAIN at BY DEF InitWith, Stored, Original
    <3>2. QED BY <1>1, <3>1 DEF ObjectOf, NodeOf, Exists
  <2>2. QED BY <1>3, <2>1 DEF LifeInv, UploadsAlone, RowsFirst, At
<1>7. NamesInv
  <2>1. ASSUME NEW f \in Files, NEW g \in Files, Clash(f, g) PROVE FALSE
    <3>1. f \in DOMAIN at /\ g \in DOMAIN at BY <1>1, <2>1 DEF Clash, Active
    <3>2. QED BY <1>1, <2>1, <3>1 DEF Clash, LibraryOK
  <2>2. QED BY <1>3, <2>1 DEF NamesInv, ClashOnlyByRaceOrMove, FreeName, OwnName, NewNameFree, At
<1>8. QED BY <1>5, <1>6, <1>7

\* The invariants say what the runs check.
LEMMA LifeImplies ==
    ASSUME CallsInv, LifeInv
    PROVE  ObjectsFollowRows /\ NodesFollowFiles
<1> SUFFICES ASSUME NEW f \in Files
             PROVE  /\ Exists(f) => Stored(f)
                    /\ Stored(f) => Exists(f) \/ Busy(f) \/ f \in broken
                    /\ Busy(f) \/ f \in broken \/
                          /\ row[f].state = "trashed" => node[f] # "active"
                          /\ row[f].state = "gone" => node[f] = "none"
  BY DEF ObjectsFollowRows, NodesFollowFiles
<1>1. ObjectOf(f) /\ NodeOf(f) BY DEF LifeInv
<1>2. \A r \in Requests : Pending(r, f) => Busy(f)
  BY DEF Pending, HalfDone, At, Busy, Running
<1>3. QED BY <1>1, <1>2 DEF ObjectOf, NodeOf, Deleting

\* From any finite library without clashes, two active files of a folder come to have
\* the same name only if one was named from a list that another request had made stale
\* by then, or was moved under its own name (UserFileService.resolveDisplayName and its
\* callers uploadFile and updateFile).
THEOREM NamesClashOnlyByRace ==
    ASSUME NEW CONSTANT at, LibraryOK(at)
    PROVE  InitWith(at) /\ [][Next]_vars => []ClashOnlyByRaceOrMove
<1>1. InitWith(at) => CallsInv /\ LifeInv /\ NamesInv BY FilesInit
<1>2. CallsInv /\ LifeInv /\ NamesInv /\ [Next]_vars => (CallsInv /\ LifeInv /\ NamesInv)'
  BY LifeNext, NamesNext
<1>3. NamesInv => ClashOnlyByRaceOrMove BY DEF NamesInv
<1>4. QED BY <1>1, <1>2, <1>3, PTL

\* A row always has its object, and an object whose row is gone is there only while a
\* request works on it or after a step failed: the order of the writes of uploadFile
\* (object, row) and of deleteFile (row, object, node).
THEOREM ObjectsStayWithRows ==
    ASSUME NEW CONSTANT at, LibraryOK(at)
    PROVE  InitWith(at) /\ [][Next]_vars => []ObjectsFollowRows
<1>1. InitWith(at) => CallsInv /\ LifeInv BY FilesInit
<1>2. CallsInv /\ LifeInv /\ [Next]_vars => (CallsInv /\ LifeInv)' BY LifeNext
<1>3. CallsInv /\ LifeInv => ObjectsFollowRows BY LifeImplies
<1>4. QED BY <1>1, <1>2, <1>3, PTL

\* A file that no request is about, and that no failed step and no overtaken graph
\* result was about, has no active node in the trash and none once it is gone.
THEOREM NodesStayWithFiles ==
    ASSUME NEW CONSTANT at, LibraryOK(at)
    PROVE  InitWith(at) /\ [][Next]_vars => []NodesFollowFiles
<1>1. InitWith(at) => CallsInv /\ LifeInv BY FilesInit
<1>2. CallsInv /\ LifeInv /\ [Next]_vars => (CallsInv /\ LifeInv)' BY LifeNext
<1>3. CallsInv /\ LifeInv => NodesFollowFiles BY LifeImplies
<1>4. QED BY <1>1, <1>2, <1>3, PTL

-----------------------------------------------------------------------------
(* The list of feedback (Feedback): its order and its pages.               *)

Opinion == [status : Opinions!FEEDBACK_STATUSES, attachments : SUBSET Nat, createdAt : Nat]

OpinionsTyped ==
    /\ feedback \in [Ids -> Opinion \cup {NULL}] /\ clock \in Nat /\ attached \in Nat
    /\ \A i \in Ids : Opinions!Stored(i) => feedback[i].createdAt <= clock
    /\ IsFiniteSet(Opinions!StoredIds)

\* Of two feedbacks one comes first.
LEMMA ListOrder ==
    ASSUME OpinionsTyped, NEW i \in Opinions!StoredIds, NEW j \in Opinions!StoredIds
    PROVE  /\ i = j \/ Opinions!Precedes(i, j) \/ Opinions!Precedes(j, i)
           /\ ~(Opinions!Precedes(i, j) /\ Opinions!Precedes(j, i))
           /\ ~Opinions!Precedes(i, i)
           /\ \A k \in Opinions!StoredIds :
                 Opinions!Precedes(i, j) /\ Opinions!Precedes(j, k) => Opinions!Precedes(i, k)
<1>1. \A k \in Opinions!StoredIds : k \in Nat /\ feedback[k].createdAt \in Nat
  BY FeedbackAssumption DEF OpinionsTyped, Opinion, Opinions!StoredIds, Opinions!Stored
<1>2. QED BY <1>1 DEF Opinions!Precedes

\* Of a set of feedbacks one is the last.
LEMMA ListEnds ==
    ASSUME OpinionsTyped, NEW S \in SUBSET Opinions!StoredIds, S # {}
    PROVE  \E i \in S : \A j \in S \ {i} : Opinions!Precedes(j, i)
<1> DEFINE Later(i) == {j \in S : Opinions!Precedes(i, j)}
<1>1. IsFiniteSet(S) BY FS_Subset DEF OpinionsTyped
<1>2. PICK B : B = {Later(i) : i \in S} OBVIOUS
<1>3. B \subseteq SUBSET S /\ B # {} BY <1>2
<1>4. B \subseteq FiniteSubsetsOf(S) BY <1>1, <1>3, FS_FiniteSubsetsOfFinite
<1>5. PICK s \in B : \A r \in B : ~(<<r, s>> \in StrictSubsetOrdering(S))
  BY <1>3, <1>4, FS_StrictSubsetOrderingWellFounded, WFMin
<1>6. PICK i \in S : s = Later(i) BY <1>2, <1>5
<1>7. ASSUME NEW j \in S, Opinions!Precedes(i, j) PROVE FALSE
  <2>1. PICK r : r = Later(j) OBVIOUS
  <2>2. r \in B BY <1>2, <2>1
  <2>3. r \subseteq s BY <1>6, <1>7, <2>1, ListOrder
  <2>4. j \in s /\ j \notin r BY <1>6, <1>7, <2>1, ListOrder
  <2>5. r \in SUBSET S /\ s \in SUBSET S BY <1>3, <2>2
  <2>6. <<r, s>> \in StrictSubsetOrdering(S) BY <2>3, <2>4, <2>5 DEF StrictSubsetOrdering
  <2>7. QED BY <1>5, <2>2, <2>6
<1>8. QED BY <1>7, ListOrder

\* And one is the first.
LEMMA ListBegins ==
    ASSUME OpinionsTyped, NEW S \in SUBSET Opinions!StoredIds, S # {}
    PROVE  \E i \in S : \A j \in S : ~Opinions!Precedes(j, i)
<1> DEFINE Earlier(i) == {j \in S : Opinions!Precedes(j, i)}
<1>1. IsFiniteSet(S) BY FS_Subset DEF OpinionsTyped
<1>2. PICK B : B = {Earlier(i) : i \in S} OBVIOUS
<1>3. B \subseteq SUBSET S /\ B # {} BY <1>2
<1>4. B \subseteq FiniteSubsetsOf(S) BY <1>1, <1>3, FS_FiniteSubsetsOfFinite
<1>5. PICK s \in B : \A r \in B : ~(<<r, s>> \in StrictSubsetOrdering(S))
  BY <1>3, <1>4, FS_StrictSubsetOrderingWellFounded, WFMin
<1>6. PICK i \in S : s = Earlier(i) BY <1>2, <1>5
<1>7. ASSUME NEW j \in S, Opinions!Precedes(j, i) PROVE FALSE
  <2>1. PICK r : r = Earlier(j) OBVIOUS
  <2>2. r \in B BY <1>2, <2>1
  <2>3. r \subseteq s BY <1>6, <1>7, <2>1, ListOrder
  <2>4. j \in s /\ j \notin r BY <1>6, <1>7, <2>1, ListOrder
  <2>5. r \in SUBSET S /\ s \in SUBSET S BY <1>3, <2>2
  <2>6. <<r, s>> \in StrictSubsetOrdering(S) BY <2>3, <2>4, <2>5 DEF StrictSubsetOrdering
  <2>7. QED BY <1>5, <2>2, <2>6
<1>8. QED BY <1>7

LEMMA SameSize == \A S : Opinions!Cardinality(S) = Cardinality(S)
BY DEF Opinions!Cardinality, Cardinality

\* A page holds all that follows the cursor, or all of it up to its last, the cursor
\* of the next page.
LEMMA PageIs ==
    ASSUME OpinionsTyped, NEW c
    PROVE  LET page == Opinions!findAll(c)  rest == Opinions!From(c)
           IN  /\ page.items \in SUBSET rest
               /\ page.nextCursor = NULL => page.items = rest
               /\ page.nextCursor # NULL =>
                     /\ page.nextCursor \in page.items
                     /\ \A i \in page.items : ~Opinions!Precedes(page.nextCursor, i)
                     /\ \A i \in rest \ page.items : Opinions!Precedes(page.nextCursor, i)
<1> DEFINE rest == Opinions!From(c)
           before(i) == {j \in rest : Opinions!Precedes(j, i)}
           items == {i \in rest : Opinions!Cardinality(before(i)) < FeedbackLimit}
<1>1. rest \in SUBSET Opinions!StoredIds BY DEF Opinions!From
<1>2. IsFiniteSet(rest) /\ Cardinality(rest) \in Nat
  BY <1>1, FS_Subset, FS_CardinalityType DEF OpinionsTyped
<1>3. ASSUME NEW i \in rest
      PROVE  /\ IsFiniteSet(before(i)) /\ Cardinality(before(i)) \in Nat
             /\ Cardinality(before(i)) < Cardinality(rest)
  <2>1. before(i) \in SUBSET rest OBVIOUS
  <2>2. i \notin before(i) BY <1>1, ListOrder
  <2>3. /\ IsFiniteSet(before(i)) /\ Cardinality(before(i)) <= Cardinality(rest)
        /\ Cardinality(rest) = Cardinality(before(i)) => rest = before(i)
    BY <1>2, <2>1, FS_Subset
  <2>4. Cardinality(before(i)) \in Nat BY <2>3, FS_CardinalityType
  <2>5. Cardinality(rest) # Cardinality(before(i)) BY <2>2, <2>3
  <2>6. QED BY <1>2, <2>3, <2>4, <2>5
<1> DEFINE last == CHOOSE i \in items : \A j \in items \ {i} : Opinions!Precedes(j, i)
<1>4. /\ Opinions!findAll(c).items = items
      /\ Opinions!findAll(c).nextCursor
           = IF Opinions!Cardinality(rest) > FeedbackLimit THEN last ELSE NULL
  BY DEF Opinions!findAll
<1>5. CASE ~(Cardinality(rest) > FeedbackLimit)
  <2>1. ASSUME NEW i \in rest PROVE Cardinality(before(i)) < FeedbackLimit
    <3>1. PICK n : n = Cardinality(before(i)) OBVIOUS
    <3>2. PICK m : m = Cardinality(rest) OBVIOUS
    <3>3. n \in Nat /\ m \in Nat /\ n < m BY <1>2, <1>3, <3>1, <3>2
    <3>4. ~(m > FeedbackLimit) BY <1>5, <3>2
    <3>5. n < FeedbackLimit BY <3>3, <3>4, FeedbackAssumption
    <3>6. QED BY <3>1, <3>5
  <2>2. items = rest BY <2>1, SameSize
  <2>3. QED BY <1>4, <1>5, <2>2, SameSize
<1>6. CASE Cardinality(rest) > FeedbackLimit
  <2>1. rest # {} BY <1>2, <1>6, FS_EmptySet, FeedbackAssumption
  <2>2. PICK f \in rest : \A j \in rest : ~Opinions!Precedes(j, f) BY <1>1, <2>1, ListBegins
  <2>3. before(f) = {} BY <2>2
  <2>4. f \in items BY <2>3, FS_EmptySet, SameSize, FeedbackAssumption
  <2>5. \E i \in items : \A j \in items \ {i} : Opinions!Precedes(j, i)
    <3>1. items \in SUBSET Opinions!StoredIds /\ items # {} BY <1>1, <2>4
    <3> HIDE DEF items
    <3>2. QED BY <3>1, ListEnds
  <2>6. PICK l : l = last OBVIOUS
  <2> HIDE DEF last
  <2>7. l \in items /\ \A j \in items \ {l} : Opinions!Precedes(j, l) BY <2>5, <2>6 DEF last
  <2>8. \A i \in items : ~Opinions!Precedes(l, i) BY <1>1, <2>7, ListOrder
  <2>9. ASSUME NEW i \in rest \ items PROVE Opinions!Precedes(l, i)
    <3>1. SUFFICES ASSUME Opinions!Precedes(i, l) PROVE FALSE
      BY <1>1, <2>7, ListOrder
    <3>2. before(i) \in SUBSET before(l) BY <1>1, <2>7, <3>1, ListOrder
    <3>3. Cardinality(before(i)) <= Cardinality(before(l)) BY <1>3, <2>7, <3>2, FS_Subset
    <3>4. Cardinality(before(l)) < FeedbackLimit BY <2>7, SameSize
    <3>5. ~(Cardinality(before(i)) < FeedbackLimit) BY SameSize
    <3>6. QED BY <1>3, <2>7, <3>3, <3>4, <3>5, FeedbackAssumption
  <2>10. l # NULL BY <1>1, <2>7, FeedbackAssumption DEF Opinions!StoredIds
  <2>11. Opinions!findAll(c).nextCursor = l /\ Opinions!findAll(c).items = items
    BY <1>4, <1>6, <2>6, SameSize
  <2>12. QED BY <2>7, <2>8, <2>9, <2>10, <2>11
<1>7. QED BY <1>5, <1>6

-----------------------------------------------------------------------------
(* The walk through the list: what is behind the cursor has been shown,    *)
(* and what was shown stays behind it, even if it is deleted and its id    *)
(* comes back in the same second.                                          *)

RequestsKnown ==
    \A r \in Clients :
        /\ answering[r].attachments \in SUBSET Nat
        /\ answering[r].at = "update" => answering[r].status \in Opinions!FEEDBACK_STATUSES
        /\ answering[r].at = "find" /\ answering[r].status # NULL
              => answering[r].status \in Opinions!FEEDBACK_STATUSES

WalkOn ==
    walk.at = "open" /\ ~cut =>
        /\ ~walk.twice
        /\ \A i \in steady : i \in walk.shown \/ i \in Opinions!From(walk.cursor)
        /\ walk.cursor = NULL => walk.shown = {}
        /\ walk.cursor # NULL =>
              /\ walk.cursor \in Ids /\ Opinions!Stored(walk.cursor)
              /\ \A i \in walk.shown :
                    /\ Opinions!Stored(i) => ~Opinions!Precedes(walk.cursor, i)
                    /\ feedback[walk.cursor].createdAt = clock => i >= walk.cursor

WalkInv ==
    /\ OpinionsTyped /\ RequestsKnown /\ WalkOn /\ Opinions!WalkShowsAll
    /\ walk.shown \in SUBSET Ids /\ steady \in SUBSET Opinions!StoredIds
    /\ DOMAIN answering = Clients

LEMMA WalkInit == Opinions!Init => WalkInv
<1> SUFFICES ASSUME Opinions!Init PROVE WalkInv
  OBVIOUS
<1>1. /\ feedback = [i \in Ids |-> IF i \in First THEN Opinions!NewRow({}, 0) ELSE NULL]
      /\ attached = 0 /\ answering = [r \in Clients |-> Opinions!Idle]
      /\ walk = Opinions!NoWalk /\ clock = 0 /\ steady = {}
  BY DEF Opinions!Init
<1>2. Opinions!NewRow({}, 0) \in Opinion
  BY DEF Opinions!NewRow, Opinion, Opinions!DEFAULT_FEEDBACK_STATUS, Opinions!FEEDBACK_STATUSES
<1>3. IsFiniteSet(Opinions!StoredIds)
  <2>1. Opinions!StoredIds \in SUBSET First BY <1>1 DEF Opinions!StoredIds, Opinions!Stored
  <2>2. QED BY <2>1, FS_Subset, FeedbackAssumption
<1>4. OpinionsTyped
  BY <1>1, <1>2, <1>3 DEF OpinionsTyped, Opinions!NewRow, Opinions!Stored
<1>5. RequestsKnown BY <1>1 DEF RequestsKnown, Opinions!Idle
<1>6. walk.shown = {} /\ walk.at = "none" BY <1>1 DEF Opinions!NoWalk
<1>7. QED BY <1>1, <1>4, <1>5, <1>6 DEF WalkInv, WalkOn, Opinions!WalkShowsAll

\* A request that goes on and changes no row.
LEMMA RequestGoesOn ==
    ASSUME WalkInv, RequestsKnown', DOMAIN answering' = Clients, attached' \in Nat,
           UNCHANGED <<feedback, walk, clock, steady, cut>>
    PROVE  WalkInv'
<1>1. OpinionsTyped'
  BY DEF WalkInv, OpinionsTyped, Opinions!Stored, Opinions!StoredIds
<1>2. WalkOn'
  BY DEF WalkInv, WalkOn, Opinions!Stored, Opinions!StoredIds, Opinions!Precedes, Opinions!From
<1>3. QED BY <1>1, <1>2 DEF WalkInv, Opinions!WalkShowsAll, Opinions!StoredIds, Opinions!Stored

\* A request of one client, the other's unchanged.
LEMMA RequestIs ==
    ASSUME WalkInv, NEW r \in Clients,
           DOMAIN answering' = Clients, \A q \in Clients \ {r} : answering'[q] = answering[q],
           answering'[r].attachments \in SUBSET Nat,
           \/ answering'[r].at \notin {"update", "find"}
           \/ answering'[r].status \in Opinions!FEEDBACK_STATUSES
           \/ answering'[r].at = "find" /\ answering'[r].status = NULL
    PROVE  RequestsKnown'
BY DEF WalkInv, RequestsKnown

\* Rows change, but for their times, their places and their statuses being there.
LEMMA RowsKeepPlaces ==
    ASSUME WalkInv, RequestsKnown', DOMAIN answering' = Clients,
           UNCHANGED <<attached, walk, clock, steady, cut>>,
           feedback' \in [Ids -> Opinion \cup {NULL}],
           \A i \in Ids : /\ Opinions!Stored(i)' <=> Opinions!Stored(i)
                          /\ Opinions!Stored(i) => feedback'[i].createdAt = feedback[i].createdAt
    PROVE  WalkInv'
<1>1. Opinions!StoredIds' = Opinions!StoredIds BY DEF Opinions!StoredIds
<1>2. OpinionsTyped' BY <1>1 DEF WalkInv, OpinionsTyped
<1>3. \A i, j \in Opinions!StoredIds : Opinions!Precedes(i, j)' <=> Opinions!Precedes(i, j)
  BY DEF Opinions!Precedes, Opinions!StoredIds
<1>4. \A c \in Ids \cup {NULL} : Opinions!From(c)' = Opinions!From(c)
  <2> SUFFICES ASSUME NEW c \in Ids \cup {NULL} PROVE Opinions!From(c)' = Opinions!From(c)
    OBVIOUS
  <2>1. CASE c = NULL BY <1>1, <2>1 DEF Opinions!From
  <2>2. CASE c # NULL BY <1>1, <1>3, <2>2 DEF Opinions!From, Opinions!StoredIds
  <2>3. QED BY <2>1, <2>2
<1>5. WalkOn'
  <2> SUFFICES ASSUME walk.at = "open", ~cut PROVE WalkOn' BY DEF WalkOn
  <2>1. WalkOn BY DEF WalkInv
  <2>2. walk.cursor \in Ids \cup {NULL} BY <2>1 DEF WalkOn
  <2>3. QED BY <1>1, <1>3, <1>4, <2>1, <2>2 DEF WalkOn, WalkInv, Opinions!StoredIds
<1>6. QED BY <1>1, <1>2, <1>5 DEF WalkInv, Opinions!WalkShowsAll

\* A row that is inserted stands before the cursor, or after it among what is to come.
LEMMA InsertKeeps ==
    ASSUME WalkInv, NEW r \in Clients, NEW i \in Ids, Opinions!Insert(r, i)
    PROVE  WalkInv'
<1>1. /\ ~Opinions!Stored(i)
      /\ feedback' = [feedback EXCEPT ![i] = Opinions!NewRow(answering[r].attachments, clock)]
      /\ UNCHANGED <<attached, walk, clock, steady, cut>>
  BY DEF Opinions!Insert
<1>2. RequestsKnown' /\ DOMAIN answering' = Clients
  <2>1. answering' = [answering EXCEPT ![r] = Opinions!Idle] BY DEF Opinions!Insert, Opinions!End
  <2>2. QED BY <2>1, RequestIs DEF WalkInv, Opinions!Idle
<1>3. Opinions!NewRow(answering[r].attachments, clock) \in Opinion
  BY DEF WalkInv, OpinionsTyped, RequestsKnown, Opinions!NewRow, Opinion,
         Opinions!DEFAULT_FEEDBACK_STATUS, Opinions!FEEDBACK_STATUSES
<1>4. /\ feedback' \in [Ids -> Opinion \cup {NULL}]
      /\ feedback'[i].createdAt = clock /\ \A j \in Ids \ {i} : feedback'[j] = feedback[j]
  BY <1>1, <1>3 DEF WalkInv, OpinionsTyped, Opinions!NewRow
<1>5. Opinions!StoredIds' = Opinions!StoredIds \cup {i}
  <2>1. feedback'[i] # NULL BY <1>1, <1>3, FeedbackAssumption DEF Opinion, WalkInv, OpinionsTyped
  <2>2. QED BY <1>4, <2>1 DEF Opinions!StoredIds, Opinions!Stored
<1>6. OpinionsTyped'
  <2>1. IsFiniteSet(Opinions!StoredIds') BY <1>5, FS_AddElement DEF WalkInv, OpinionsTyped
  <2>2. QED BY <1>1, <1>4, <2>1 DEF WalkInv, OpinionsTyped, Opinions!Stored
<1>7. ASSUME walk.at = "open", ~cut PROVE WalkOn'
  <2>1. WalkOn BY DEF WalkInv
  <2>2. \A j, k \in Opinions!StoredIds : Opinions!Precedes(j, k)' <=> Opinions!Precedes(j, k)
    BY <1>1, <1>4 DEF Opinions!StoredIds, Opinions!Precedes
  <2>3. CASE walk.cursor = NULL
    <3>1. Opinions!From(walk.cursor)' = Opinions!StoredIds' BY <1>1, <2>3 DEF Opinions!From
    <3>2. QED BY <1>1, <1>5, <1>7, <2>1, <2>3, <3>1 DEF WalkOn, WalkInv
  <2>4. CASE walk.cursor # NULL
    <3>1. walk.cursor \in Opinions!StoredIds /\ walk.cursor # i
      BY <1>1, <1>7, <2>1, <2>4 DEF WalkOn, Opinions!StoredIds
    <3>2. Opinions!From(walk.cursor) \subseteq Opinions!From(walk.cursor)'
      BY <1>1, <1>5, <2>2, <2>4, <3>1 DEF Opinions!From, Opinions!StoredIds, Opinions!Stored
    <3>3. i \in walk.shown => ~Opinions!Precedes(walk.cursor, i)'
      <4> SUFFICES ASSUME i \in walk.shown, Opinions!Precedes(walk.cursor, i)' PROVE FALSE
        OBVIOUS
      <4>1. feedback[walk.cursor].createdAt <= clock /\ clock \in Nat
            /\ feedback[walk.cursor].createdAt \in Nat
        BY <3>1 DEF WalkInv, OpinionsTyped, Opinion, Opinions!StoredIds, Opinions!Stored
      <4>2. feedback'[walk.cursor] = feedback[walk.cursor] /\ walk' = walk
        BY <1>1, <1>4, <3>1 DEF Opinions!StoredIds
      <4>3. feedback[walk.cursor].createdAt = clock /\ walk.cursor > i
        BY <1>4, <4>1, <4>2 DEF Opinions!Precedes
      <4>4. i >= walk.cursor BY <1>7, <2>1, <2>4, <4>3 DEF WalkOn
      <4>5. i \in Nat /\ walk.cursor \in Nat BY <3>1, FeedbackAssumption DEF Opinions!StoredIds
      <4>6. QED BY <4>3, <4>4, <4>5
    <3>4. \A j \in walk.shown : Opinions!Stored(j)' => ~Opinions!Precedes(walk.cursor, j)'
      <4> SUFFICES ASSUME NEW j \in walk.shown, j # i, Opinions!Stored(j)'
                   PROVE  ~Opinions!Precedes(walk.cursor, j)'
        BY <3>3
      <4>1. j \in Opinions!StoredIds
        BY <1>4 DEF WalkInv, Opinions!StoredIds, Opinions!Stored
      <4>2. ~Opinions!Precedes(walk.cursor, j)
        BY <1>7, <2>1, <2>4, <4>1 DEF WalkOn, Opinions!StoredIds
      <4>3. QED BY <1>1, <2>2, <3>1, <4>1, <4>2
    <3>5. Opinions!Stored(walk.cursor)' /\ feedback'[walk.cursor] = feedback[walk.cursor]
      BY <1>1, <1>4, <3>1 DEF Opinions!StoredIds, Opinions!Stored
    <3>6. QED BY <1>1, <1>7, <2>1, <2>4, <3>2, <3>4, <3>5 DEF WalkOn
  <2>5. QED BY <2>3, <2>4
<1>8. WalkOn' BY <1>1, <1>7 DEF WalkOn
<1>9. QED
  BY <1>1, <1>2, <1>5, <1>6, <1>8 DEF WalkInv, Opinions!WalkShowsAll

\* What is deleted is not asked of the walk any more; with its cursor the walk is cut.
LEMMA DeleteRowKeeps ==
    ASSUME WalkInv, NEW r \in Clients, Opinions!DeleteRow(r)
    PROVE  WalkInv'
<1> DEFINE i == answering[r].id
<1>1. /\ feedback' = [feedback EXCEPT ![i] = NULL] /\ steady' = steady \ {i}
      /\ cut' = (cut \/ (walk.at = "open" /\ walk.cursor = i))
      /\ UNCHANGED <<attached, walk, clock>>
  BY DEF Opinions!DeleteRow
<1>2. RequestsKnown' /\ DOMAIN answering' = Clients
  <2>1. answering' = [answering EXCEPT ![r] = Opinions!Idle] BY DEF Opinions!DeleteRow, Opinions!End
  <2>2. QED BY <2>1, RequestIs DEF WalkInv, Opinions!Idle
<1>3. /\ feedback' \in [Ids -> Opinion \cup {NULL}]
      /\ \A j \in Ids \ {i} : feedback'[j] = feedback[j]
      /\ i \in Ids => feedback'[i] = NULL
  BY <1>1 DEF WalkInv, OpinionsTyped
<1> HIDE DEF i
<1>4. Opinions!StoredIds' = Opinions!StoredIds \ {i}
  BY <1>3 DEF Opinions!StoredIds, Opinions!Stored
<1>5. OpinionsTyped'
  <2>1. IsFiniteSet(Opinions!StoredIds') BY <1>4, FS_Subset DEF WalkInv, OpinionsTyped
  <2>2. QED BY <1>1, <1>3, <2>1 DEF WalkInv, OpinionsTyped, Opinions!Stored
<1>6. ASSUME walk.at = "open", ~cut, walk.cursor # i PROVE WalkOn'
  <2>1. WalkOn BY DEF WalkInv
  <2>2. \A j, k \in Opinions!StoredIds' : Opinions!Precedes(j, k)' <=> Opinions!Precedes(j, k)
    BY <1>3, <1>4 DEF Opinions!StoredIds, Opinions!Precedes
  <2>3. CASE walk.cursor = NULL
    <3>1. Opinions!From(walk.cursor)' = Opinions!StoredIds' BY <1>1, <2>3 DEF Opinions!From
    <3>2. QED BY <1>1, <1>4, <1>6, <2>1, <2>3, <3>1 DEF WalkOn, WalkInv
  <2>4. CASE walk.cursor # NULL
    <3>1. walk.cursor \in Opinions!StoredIds /\ walk.cursor \in Opinions!StoredIds'
      BY <1>4, <1>6, <2>1, <2>4 DEF WalkOn, Opinions!StoredIds
    <3>2. Opinions!From(walk.cursor)' = Opinions!From(walk.cursor) \ {i}
      BY <1>1, <1>4, <2>2, <2>4, <3>1 DEF Opinions!From, Opinions!StoredIds
    <3>3. \A j \in walk.shown : Opinions!Stored(j)' => ~Opinions!Precedes(walk.cursor, j)'
      <4> SUFFICES ASSUME NEW j \in walk.shown, Opinions!Stored(j)'
                   PROVE  ~Opinions!Precedes(walk.cursor, j)'
        OBVIOUS
      <4>1. j \in Opinions!StoredIds' /\ j \in Opinions!StoredIds
        BY <1>4 DEF WalkInv, Opinions!StoredIds
      <4>2. ~Opinions!Precedes(walk.cursor, j)
        BY <1>6, <2>1, <2>4, <4>1 DEF WalkOn, Opinions!StoredIds
      <4>3. QED BY <1>1, <2>2, <3>1, <4>1, <4>2
    <3>4. Opinions!Stored(walk.cursor)' /\ feedback'[walk.cursor] = feedback[walk.cursor]
      BY <1>1, <1>3, <1>6, <3>1 DEF Opinions!StoredIds
    <3>5. QED BY <1>1, <1>6, <2>1, <2>4, <3>2, <3>3, <3>4 DEF WalkOn
  <2>5. QED BY <2>3, <2>4
<1>7. WalkOn' BY <1>1, <1>6 DEF WalkOn
<1>8. QED
  BY <1>1, <1>2, <1>4, <1>5, <1>7 DEF WalkInv, Opinions!WalkShowsAll

LEMMA ClockKeeps == ASSUME WalkInv, Opinions!Tick PROVE WalkInv'
<1>1. clock' = clock + 1 /\ UNCHANGED <<feedback, attached, answering, walk, steady, cut>>
  BY DEF Opinions!Tick
<1>2. /\ Opinions!StoredIds' = Opinions!StoredIds
      /\ \A i : Opinions!Stored(i)' = Opinions!Stored(i)
      /\ \A c : Opinions!From(c)' = Opinions!From(c)
      /\ \A i, j : Opinions!Precedes(i, j)' = Opinions!Precedes(i, j)
  BY <1>1 DEF Opinions!StoredIds, Opinions!Stored, Opinions!From, Opinions!Precedes
<1>3. OpinionsTyped'
  <2>1. OpinionsTyped BY DEF WalkInv
  <2>2. ASSUME NEW i \in Ids, Opinions!Stored(i) PROVE feedback[i].createdAt <= clock + 1
    <3>1. feedback[i].createdAt \in Nat /\ feedback[i].createdAt <= clock /\ clock \in Nat
      BY <2>1, <2>2 DEF OpinionsTyped, Opinion, Opinions!Stored
    <3>2. QED BY <3>1
  <2>3. clock + 1 \in Nat BY <2>1 DEF OpinionsTyped
  <2>4. QED BY <1>1, <1>2, <2>1, <2>2, <2>3 DEF OpinionsTyped
<1>4. \A i \in Opinions!StoredIds : feedback'[i].createdAt # clock'
  BY <1>1 DEF WalkInv, OpinionsTyped, Opinion, Opinions!StoredIds, Opinions!Stored
<1>5. WalkOn' BY <1>1, <1>2, <1>4 DEF WalkInv, WalkOn, Opinions!StoredIds
<1>6. QED BY <1>1, <1>2, <1>3, <1>5 DEF WalkInv, RequestsKnown, Opinions!WalkShowsAll

LEMMA OpenListKeeps == ASSUME WalkInv, Opinions!OpenList PROVE WalkInv'
<1>1. /\ walk' = [Opinions!NoWalk EXCEPT !.at = "open"] /\ steady' = Opinions!StoredIds
      /\ UNCHANGED <<feedback, attached, answering, clock>>
  BY DEF Opinions!OpenList
<1>2. walk'.at = "open" /\ walk'.cursor = NULL /\ walk'.shown = {} /\ walk'.twice = FALSE
  BY <1>1 DEF Opinions!NoWalk
<1>3. Opinions!StoredIds' = Opinions!StoredIds
  BY <1>1 DEF Opinions!StoredIds, Opinions!Stored
<1>4. Opinions!From(walk.cursor)' = Opinions!StoredIds'
  BY <1>2 DEF Opinions!From
<1>5. OpinionsTyped' BY <1>1, <1>3 DEF WalkInv, OpinionsTyped, Opinions!Stored
<1>6. WalkOn' BY <1>1, <1>2, <1>3, <1>4 DEF WalkOn
<1>7. QED
  BY <1>1, <1>2, <1>3, <1>5, <1>6 DEF WalkInv, RequestsKnown, Opinions!WalkShowsAll

\* A page shows what comes next, and nothing that was shown; what is left is after it.
LEMMA ListKeeps == ASSUME WalkInv, Opinions!ListFeedbacks PROVE WalkInv'
<1> DEFINE c == walk.cursor  items == Opinions!findAll(c).items
           next == Opinions!findAll(c).nextCursor
<1>1. /\ walk.at = "open"
      /\ walk' = [at |-> IF next = NULL THEN "done" ELSE "open", cursor |-> next,
                  shown |-> walk.shown \cup items,
                  twice |-> walk.twice \/ walk.shown \cap items # {}]
      /\ UNCHANGED <<feedback, attached, answering, clock, steady, cut>>
  BY DEF Opinions!ListFeedbacks
<1>2. /\ items \in SUBSET Opinions!From(c) /\ Opinions!From(c) \in SUBSET Opinions!StoredIds
      /\ next = NULL => items = Opinions!From(c)
      /\ next # NULL => /\ next \in items /\ \A i \in items : ~Opinions!Precedes(next, i)
                        /\ \A i \in Opinions!From(c) \ items : Opinions!Precedes(next, i)
  <2>1. OpinionsTyped BY DEF WalkInv
  <2>2. LET page == Opinions!findAll(c)  rest == Opinions!From(c)
        IN  /\ page.items \in SUBSET rest
            /\ page.nextCursor = NULL => page.items = rest
            /\ page.nextCursor # NULL =>
                  /\ page.nextCursor \in page.items
                  /\ \A i \in page.items : ~Opinions!Precedes(page.nextCursor, i)
                  /\ \A i \in rest \ page.items : Opinions!Precedes(page.nextCursor, i)
    BY <2>1, PageIs
  <2>3. Opinions!From(c) \in SUBSET Opinions!StoredIds BY DEF Opinions!From
  <2>4. QED BY <2>2, <2>3
<1> HIDE DEF items, next
<1>3. /\ Opinions!StoredIds' = Opinions!StoredIds
      /\ \A i : Opinions!Stored(i)' = Opinions!Stored(i)
      /\ \A d : Opinions!From(d)' = Opinions!From(d)
      /\ \A i, j : Opinions!Precedes(i, j)' = Opinions!Precedes(i, j)
  BY <1>1 DEF Opinions!StoredIds, Opinions!Stored, Opinions!From, Opinions!Precedes
<1>4. OpinionsTyped' BY <1>1, <1>3 DEF WalkInv, OpinionsTyped
<1>5. walk'.shown = walk.shown \cup items /\ walk'.shown \in SUBSET Ids
  BY <1>1, <1>2 DEF WalkInv, Opinions!StoredIds
<1>6. ASSUME ~cut PROVE WalkOn' /\ Opinions!WalkShowsAll'
  <2>1. WalkOn /\ walk.at = "open" BY <1>1 DEF WalkInv
  <2>2. c # NULL => c \in Opinions!StoredIds BY <1>6, <2>1 DEF WalkOn, Opinions!StoredIds
  <2>3. ASSUME NEW i \in walk.shown PROVE i \notin Opinions!From(c)
    BY <1>6, <2>1 DEF WalkOn, Opinions!From, Opinions!StoredIds
  <2>4. walk'.twice = FALSE BY <1>1, <1>2, <1>6, <2>1, <2>3 DEF WalkOn
  <2>5. \A i \in steady : i \in walk.shown \/ i \in Opinions!From(c)
    BY <1>6, <2>1 DEF WalkOn
  <2>6. CASE next = NULL
    <3>1. walk'.at = "done" BY <1>1, <2>6
    <3>2. QED BY <1>1, <1>2, <1>5, <2>4, <2>5, <2>6, <3>1 DEF WalkOn, Opinions!WalkShowsAll
  <2>7. CASE next # NULL
    <3>1. walk'.at = "open" /\ walk'.cursor = next BY <1>1, <2>7
    <3>2. next \in Opinions!StoredIds /\ next \in Ids /\ Opinions!Stored(next)
      BY <1>2, <2>7 DEF Opinions!StoredIds
    <3>3. \A i \in steady : i \in walk'.shown \/ i \in Opinions!From(next)
      <4> SUFFICES ASSUME NEW i \in steady, i \notin walk'.shown PROVE i \in Opinions!From(next)
        OBVIOUS
      <4>1. i \in Opinions!From(c) \ items BY <1>5, <2>5
      <4>2. i \in Opinions!StoredIds /\ Opinions!Precedes(next, i) BY <1>2, <2>7, <4>1
      <4>3. QED BY <2>7, <3>2, <4>2 DEF Opinions!From
    \* What was shown before the page comes before the cursor, which comes before next.
    <3>4. ASSUME NEW i \in walk.shown
          PROVE  /\ Opinions!Stored(i) => ~Opinions!Precedes(next, i)
                 /\ feedback[next].createdAt = clock => i >= next
      <4>1. c # NULL BY <1>6, <2>1 DEF WalkOn
      <4>2. Opinions!Precedes(c, next) BY <1>2, <2>7, <4>1 DEF Opinions!From
      <4>3. i \in Ids BY DEF WalkInv
      <4>4. Opinions!Stored(i) => ~Opinions!Precedes(c, i)
            /\ (feedback[c].createdAt = clock => i >= c)
        BY <1>6, <2>1, <4>1 DEF WalkOn
      <4>5. Opinions!Stored(i) => ~Opinions!Precedes(next, i)
        <5>1. OpinionsTyped BY DEF WalkInv
        <5>2. QED BY <2>2, <3>2, <4>1, <4>2, <4>3, <4>4, <5>1, ListOrder DEF Opinions!StoredIds
      <4>6. ASSUME feedback[next].createdAt = clock PROVE i >= next
        <5>1. feedback[c].createdAt \in Nat /\ feedback[c].createdAt <= clock /\ clock \in Nat
          BY <2>2, <4>1 DEF WalkInv, OpinionsTyped, Opinion, Opinions!StoredIds, Opinions!Stored
        <5>2. feedback[c].createdAt = clock /\ c > next
          BY <4>2, <4>6, <5>1 DEF Opinions!Precedes
        <5>3. i >= c BY <1>6, <2>1, <4>1, <5>2 DEF WalkOn
        <5>4. i \in Nat /\ c \in Nat /\ next \in Nat
          BY <2>2, <3>2, <4>1, <4>3, FeedbackAssumption DEF Opinions!StoredIds
        <5>5. QED BY <5>2, <5>3, <5>4
      <4>7. QED BY <4>5, <4>6
    <3>5. ASSUME NEW i \in items
          PROVE  /\ ~Opinions!Precedes(next, i)
                 /\ feedback[next].createdAt = clock => i >= next
      <4>1. ~Opinions!Precedes(next, i) BY <1>2, <2>7
      <4>2. /\ feedback[i].createdAt \in Nat /\ feedback[i].createdAt <= clock /\ clock \in Nat
            /\ i \in Nat /\ next \in Nat
        BY <1>2, <3>2, FeedbackAssumption
           DEF WalkInv, OpinionsTyped, Opinion, Opinions!StoredIds, Opinions!Stored
      <4>3. QED BY <4>1, <4>2 DEF Opinions!Precedes
    <3>6. WalkOn'
      BY <1>1, <1>3, <1>5, <1>6, <2>4, <2>7, <3>1, <3>2, <3>3, <3>4, <3>5 DEF WalkOn
    <3>7. QED BY <3>1, <3>6 DEF Opinions!WalkShowsAll
  <2>8. QED BY <2>6, <2>7
<1>7. WalkOn' /\ Opinions!WalkShowsAll' BY <1>1, <1>6 DEF WalkOn, Opinions!WalkShowsAll
<1>8. QED BY <1>1, <1>3, <1>4, <1>5, <1>7 DEF WalkInv, RequestsKnown

LEMMA WriteStatusKeeps ==
    ASSUME WalkInv, NEW r \in Clients, Opinions!WriteStatus(r)
    PROVE  WalkInv'
<1> DEFINE i == answering[r].id  s == answering[r].status
<1>1. /\ answering[r].at = "update" /\ answering' = [answering EXCEPT ![r] = Opinions!Idle]
      /\ feedback' = IF Opinions!Stored(i) THEN [feedback EXCEPT ![i].status = s] ELSE feedback
      /\ UNCHANGED <<attached, walk, clock, steady, cut>>
  BY DEF Opinions!WriteStatus, Opinions!At, Opinions!End
<1>2. RequestsKnown' /\ DOMAIN answering' = Clients
  BY <1>1, RequestIs DEF WalkInv, Opinions!Idle
<1>3. s \in Opinions!FEEDBACK_STATUSES BY <1>1 DEF WalkInv, RequestsKnown
<1>4. CASE i \in Ids /\ Opinions!Stored(i)
  <2>1. feedback[i] \in Opinion /\ feedback' = [feedback EXCEPT ![i].status = s]
    BY <1>1, <1>4 DEF WalkInv, OpinionsTyped, Opinions!Stored
  <2>2. [feedback[i] EXCEPT !.status = s] \in Opinion
        /\ [feedback[i] EXCEPT !.status = s].createdAt = feedback[i].createdAt
    BY <1>3, <2>1 DEF Opinion
  <2>3. /\ feedback'[i] = [feedback[i] EXCEPT !.status = s]
        /\ \A j \in Ids \ {i} : feedback'[j] = feedback[j]
        /\ feedback' \in [Ids -> Opinion \cup {NULL}]
    BY <1>4, <2>1, <2>2 DEF WalkInv, OpinionsTyped
  <2>4. NULL \notin Opinion BY FeedbackAssumption DEF Opinion
  <2> HIDE DEF i, s
  <2>5. \A j \in Ids : /\ Opinions!Stored(j)' <=> Opinions!Stored(j)
                       /\ Opinions!Stored(j) => feedback'[j].createdAt = feedback[j].createdAt
    BY <1>4, <2>2, <2>3, <2>4 DEF Opinions!Stored
  <2>6. QED BY <1>1, <1>2, <2>3, <2>5, RowsKeepPlaces
<1>5. CASE ~(i \in Ids /\ Opinions!Stored(i))
  <2>1. feedback' = feedback BY <1>1, <1>5 DEF WalkInv, OpinionsTyped
  <2>2. QED
    BY <1>1, <1>2, <2>1, RowsKeepPlaces DEF WalkInv, OpinionsTyped, Opinions!Stored
<1>6. QED BY <1>4, <1>5

LEMMA OtherStepsKeep ==
    ASSUME WalkInv, NEW r \in Clients,
           \/ \E n \in 0..MaxFiles : Opinions!CreateFeedback(r, n)
           \/ Opinions!UploadFile(r) \/ Opinions!FindExisting(r) \/ Opinions!Fail(r)
           \/ \E i \in Ids : Opinions!DeleteFeedback(r, i)
           \/ \E i \in Ids, s \in Given : Opinions!UpdateFeedbackStatus(r, i, s)
    PROVE  WalkInv'
<1>1. UNCHANGED <<feedback, walk, clock, steady, cut>>
  BY DEF Opinions!CreateFeedback, Opinions!UploadFile, Opinions!FindExisting, Opinions!Fail,
         Opinions!DeleteFeedback, Opinions!UpdateFeedbackStatus, Opinions!Begin
<1>2. attached' \in Nat
  <2>1. attached \in Nat BY DEF WalkInv, OpinionsTyped
  <2>2. attached' = attached \/ attached' = attached + 1
    BY DEF Opinions!CreateFeedback, Opinions!UploadFile, Opinions!FindExisting, Opinions!Fail,
           Opinions!DeleteFeedback, Opinions!UpdateFeedbackStatus, Opinions!Begin
  <2>3. QED BY <2>1, <2>2
<1>3. RequestsKnown' /\ DOMAIN answering' = Clients
  <2>1. CASE \E n \in 0..MaxFiles : Opinions!CreateFeedback(r, n)
    <3>1. PICK n \in 0..MaxFiles :
             answering' = [answering EXCEPT ![r] =
                 [Opinions!Idle EXCEPT !.at = IF n = 0 THEN "insert" ELSE "upload", !.files = n]]
      BY <2>1 DEF Opinions!CreateFeedback, Opinions!Begin
    <3>2. QED BY <3>1, RequestIs DEF WalkInv, Opinions!Idle
  <2>2. CASE Opinions!UploadFile(r)
    <3>1. answering' = [answering EXCEPT ![r].files = @ - 1, ![r].attachments = @ \cup {attached + 1},
                          ![r].at = IF answering[r].files = 1 THEN "insert" ELSE "upload"]
          /\ answering[r].at = "upload"
      BY <2>2 DEF Opinions!UploadFile, Opinions!At
    <3>2. attached + 1 \in Nat /\ answering[r].attachments \in SUBSET Nat
      BY DEF WalkInv, OpinionsTyped, RequestsKnown
    <3>3. /\ \A q \in Clients \ {r} : answering'[q] = answering[q] /\ DOMAIN answering' = Clients
          /\ answering'[r].attachments \in SUBSET Nat
          /\ answering'[r].at \in {"insert", "upload"}
      BY <3>1, <3>2 DEF WalkInv
    <3>4. QED BY <3>1, <3>3, RequestIs DEF WalkInv
  <2>3. CASE Opinions!FindExisting(r)
    <3>1. answering[r].at = "find" BY <2>3 DEF Opinions!FindExisting, Opinions!At
    <3>2. CASE Opinions!Stored(answering[r].id)
      <4>1. answering' = [answering EXCEPT ![r].at =
                IF answering[r].status = NULL THEN "delete" ELSE "update"]
        BY <2>3, <3>2 DEF Opinions!FindExisting
      <4>2. QED BY <3>1, <4>1, RequestIs DEF WalkInv, RequestsKnown
    <3>3. CASE ~Opinions!Stored(answering[r].id)
      <4>1. answering' = [answering EXCEPT ![r] = Opinions!Idle]
        BY <2>3, <3>3 DEF Opinions!FindExisting, Opinions!End
      <4>2. QED BY <4>1, RequestIs DEF WalkInv, Opinions!Idle
    <3>4. QED BY <3>2, <3>3
  <2>4. CASE Opinions!Fail(r)
    <3>1. answering' = [answering EXCEPT ![r] = Opinions!Idle]
      BY <2>4 DEF Opinions!Fail, Opinions!End
    <3>2. QED BY <3>1, RequestIs DEF WalkInv, Opinions!Idle
  <2>5. CASE \E i \in Ids : Opinions!DeleteFeedback(r, i)
    <3>1. PICK i \in Ids :
             answering' = [answering EXCEPT ![r] = [Opinions!Idle EXCEPT !.at = "find", !.id = i]]
      BY <2>5 DEF Opinions!DeleteFeedback, Opinions!Begin
    <3>2. QED BY <3>1, RequestIs DEF WalkInv, Opinions!Idle
  <2>6. CASE \E i \in Ids, s \in Given : Opinions!UpdateFeedbackStatus(r, i, s)
    <3>1. PICK i \in Ids, s \in Opinions!FEEDBACK_STATUSES :
             answering' = [answering EXCEPT ![r] =
                 [Opinions!Idle EXCEPT !.at = "find", !.id = i, !.status = s]]
      BY <2>6 DEF Opinions!UpdateFeedbackStatus, Opinions!Begin
    <3>2. QED BY <3>1, RequestIs DEF WalkInv, Opinions!Idle
  <2>7. QED BY <2>1, <2>2, <2>3, <2>4, <2>5, <2>6
<1>4. QED BY <1>1, <1>2, <1>3, RequestGoesOn

LEMMA FeedbackNext == ASSUME WalkInv, [Opinions!Next]_(Opinions!vars) PROVE WalkInv'
<1>1. CASE \E r \in Clients, i \in Ids : Opinions!Insert(r, i) BY <1>1, InsertKeeps
<1>2. CASE \E r \in Clients : Opinions!WriteStatus(r) \/ Opinions!DeleteRow(r)
  BY <1>2, WriteStatusKeeps, DeleteRowKeeps
<1>3. CASE \E r \in Clients :
             \/ \E n \in 0..MaxFiles : Opinions!CreateFeedback(r, n)
             \/ Opinions!UploadFile(r) \/ Opinions!FindExisting(r) \/ Opinions!Fail(r)
             \/ \E i \in Ids : Opinions!DeleteFeedback(r, i)
             \/ \E i \in Ids, s \in Given : Opinions!UpdateFeedbackStatus(r, i, s)
  BY <1>3, OtherStepsKeep
<1>4. CASE Opinions!OpenList \/ Opinions!ListFeedbacks \/ Opinions!Tick
  BY <1>4, OpenListKeeps, ListKeeps, ClockKeeps
<1>5. CASE UNCHANGED Opinions!vars
  <2>1. UNCHANGED <<feedback, attached, answering, walk, clock, steady, cut>>
    BY <1>5 DEF Opinions!vars
  <2>2. RequestsKnown' /\ DOMAIN answering' = Clients /\ attached' \in Nat
    BY <2>1 DEF WalkInv, OpinionsTyped, RequestsKnown
  <2>3. QED BY <2>1, <2>2, RequestGoesOn
<1>6. QED BY <1>1, <1>2, <1>3, <1>4, <1>5 DEF Opinions!Next

\* An administrator's walk through the feedback that came to its end has shown all that
\* was there all the while, none of it twice, although rows come, change and go beside
\* it, unless the row that the next page begins after was deleted (FeedbackService.list,
\* FeedbackRepositoryPrisma.findAll).
THEOREM WalksShowAll == Spec => []WalkShowsAll
<1>1. Init => WalkInv BY WalkInit DEF Init
<1>2. WalkInv /\ [Next2]_<<part, vars, ledgerVars, feedbackVars>> => WalkInv'
  <2>1. [Next2]_<<part, vars, ledgerVars, feedbackVars>> => [Opinions!Next]_(Opinions!vars)
    BY DEF Next2, feedbackVars, Opinions!vars
  <2>2. QED BY <2>1, FeedbackNext
<1>3. WalkInv => WalkShowsAll BY DEF WalkInv, WalkShowsAll
<1>4. QED BY <1>1, <1>2, <1>3, PTL DEF Spec
=============================================================================
