-------------------------- MODULE Microscope_proofs --------------------------
(***************************************************************************)
(* Microscope keeps StatusTells, for any number of workers, either number  *)
(* of documents and every way to send them.                                *)
(***************************************************************************)
EXTENDS Microscope, TLAPS

Results == [task : Messages, ok : BOOLEAN]
Known == {"PROCESSING", "COMPLETED", "FAILED"}
Steps == {"create", "hold", "add", "block", "nonblock", "mark", "rollback", "end"}
WorkSteps == {"idle", "save", "text", "compute", "sub", "status", "count"}

Busy(w) == ~Doing(w, "idle")
Recorded(d) == docs[d] # NoDoc

\* The record's word on the view that a result is of.
SubStatus(d, mode) == IF mode = "block" THEN docs[d].block ELSE docs[d].nonblock

Other(mode) == IF mode = "block" THEN "nonblock" ELSE "block"

\* The request has come to document d, has sent task t.
Past(d) == d < req.doc \/ (d = req.doc /\ req.step \notin {"create", "hold", "add"})

Asked(t) ==
    \/ t[1] < req.doc
    \/ /\ t[1] = req.doc
       /\ req.step \notin {"create", "hold", "add", "block"}
       /\ t[2] = "nonblock" => req.step # "nonblock"

\* The message that brings a document's graph.
OkGraph(d) == [task |-> Task(d, "nonblock"), ok |-> TRUE]

GraphSafe(d) ==
    \/ ~Recorded(d)
    \/ d \in unread
    \/ docs[d].graph /\ <<"graph", d>> \in saved

GraphComes(d) == OkGraph(d) \in results \/ GraphSafe(d)

\* The messages in the queue and in the handlers.
Around(m) == m \in results \/ \E w \in Workers : Busy(w) /\ work[w].msg = m

-----------------------------------------------------------------------------
TypeOK ==
    /\ alive \in BOOLEAN /\ announced \in BOOLEAN
    /\ docs \in [Docs -> [overall : Statuses, block : Statuses, nonblock : Statuses,
                          graph : BOOLEAN, view : BOOLEAN]]
    /\ req \in [way : Ways, step : Steps, doc : Docs, anySent : BOOLEAN]
    /\ sent \subseteq Messages /\ results \subseteq Results
    /\ work \in [Workers -> [step : WorkSteps, msg : Results \cup {NoResult},
                             payload : BOOLEAN, overall : Statuses]]
    /\ split \in [Docs -> BOOLEAN]

DocOK ==
    /\ ~alive => \A d \in Docs : ~Recorded(d)
    /\ At("create") => ~alive
    /\ \A d \in Docs : Recorded(d) =>
          /\ Past(d)
          /\ docs[d].overall \in Known /\ docs[d].block \in Known /\ docs[d].nonblock \in Known

\* A task is with the AI service, or it is answered, by messages that agree.
QueueOK ==
    /\ \A t \in sent : Asked(t)
    /\ \A m \in Results : Around(m) => Asked(m.task) /\ m.task \notin sent
    /\ \A m, n \in Results : Around(m) /\ Around(n) /\ m.task = n.task => m = n

WorkOK ==
    \A w \in Workers : Busy(w) =>
        /\ work[w].msg \in Results
        /\ work[w].step \in {"save", "text"} => work[w].payload
        /\ work[w].payload => work[w].msg.ok
        /\ Doing(w, "text") => ModeOf(w) = "block"
        /\ Doing(w, "status") => ModeOf(w) = "nonblock"
        /\ work[w].step \in {"sub", "status"} => work[w].overall \in Known

\* What a worker computed still goes with the record, unless split.
Unsplit(d) == Recorded(d) /\ ~split[d]
Writes(w) == work[w].step \in {"sub", "status"}

RecordOK(d) ==
    Unsplit(d) => docs[d].overall = computeOverallStatus(docs[d].block, docs[d].nonblock)

FrameOf(w, d) ==
    Writes(w) /\ DocOf(w) = d /\ Unsplit(d) =>
        /\ Doing(w, "sub") => work[w].overall =
              computeOverallStatus(StatusOf(work[w].msg), SubStatus(d, Other(ModeOf(w))))
        /\ Doing(w, "status") => work[w].overall = docs[d].overall

BothWrite(v, w, d) == Writes(v) /\ Writes(w) /\ DocOf(v) = d /\ DocOf(w) = d /\ v # w

FrameOK ==
    /\ \A d \in Docs : RecordOK(d)
    /\ \A w \in Workers, d \in Docs : FrameOf(w, d)
    /\ \A v, w \in Workers, d \in Docs : BothWrite(v, w, d) => split[d]

ViewOK ==
    /\ \A d \in Docs : docs[d].view => <<"view", d>> \in saved /\ <<"text", d>> \in saved
    /\ \A w \in Workers : Busy(w) /\ ModeOf(w) = "block" /\ work[w].payload =>
          /\ ~Doing(w, "save") => <<"view", DocOf(w)>> \in saved
          /\ work[w].step \notin {"save", "text"} => <<"text", DocOf(w)>> \in saved

GraphOK ==
    /\ \A d \in Docs : "COMPLETED" \in {docs[d].overall, docs[d].nonblock} => GraphComes(d)
    /\ \A w \in Workers : LET d == DocOf(w) IN Busy(w) =>
          /\ work[w].msg = OkGraph(d) => GraphComes(d)
          /\ work[w].msg = OkGraph(d) /\ Doing(w, "count") => GraphSafe(d)
          /\ work[w].step \in {"sub", "status"} /\ work[w].overall = "COMPLETED" => GraphComes(d)
          /\ work[w].msg = OkGraph(d) /\ work[w].payload /\ ~Doing(w, "save") =>
                <<"graph", d>> \in saved \/ ~Recorded(d)
          /\ work[w].msg = OkGraph(d) /\ ~work[w].payload => d \in unread

\* A message that is gone, or about to go, has been heard.
HeardOK ==
    \A w \in Workers :
        /\ Busy(w) /\ Recorded(DocOf(w))
        /\ work[w].step \in {"status", "count"} \/ work[w].msg \notin results
        => SubStatus(DocOf(w), ModeOf(w)) = StatusOf(work[w].msg)

ToldOK ==
    (alive /\ AllSettled /\ (\E d \in Docs : Recorded(d)) /\ \A d \in Docs : ~split[d])
        => announced \/ results # {}

IInv == TypeOK /\ DocOK /\ QueueOK /\ WorkOK /\ FrameOK /\ ViewOK /\ GraphOK /\ HeardOK /\ ToldOK

-----------------------------------------------------------------------------
(* What a step does.                                                       *)

RequestVars == <<saved, results, work, announced, unread>>

\* The kinds of step the request takes.
Creates == At("create") /\ ~At("create")' /\ createRecord /\ UNCHANGED <<docs, sent, split>>
Adds(d) ==
    /\ At("add") /\ d = req.doc /\ addDocument(d) /\ Past(d)'
    /\ UNCHANGED <<alive, sent, split>>
Sends(t) ==
    /\ ~Asked(t) /\ Asked(t)' /\ t[1] = req.doc /\ sent' = sent \cup {t}
    /\ UNCHANGED <<alive, docs, split>>
Marks ==
    /\ docs' = docs \/ updateDocumentStatus(req.doc, "FAILED", FALSE)
    /\ split' = [split EXCEPT ![req.doc] = TRUE] /\ UNCHANGED <<alive, sent>>

\* Where a request goes it has come from.
Forward ==
    /\ \A d \in Docs : Past(d) => Past(d)'
    /\ \A t \in Messages : Asked(t) => Asked(t)'
    /\ At("create")' => At("create")

LEMMA TaskShape ==
    \A t \in Messages : t = <<t[1], t[2]>> /\ t[1] \in Docs /\ t[2] \in Modes
BY DEF Messages, Task

LEMMA TaskMade ==
    ASSUME NEW d \in Docs, NEW mode \in Modes
    PROVE  Task(d, mode) \in Messages /\ Task(d, mode)[1] = d /\ Task(d, mode)[2] = mode
BY DEF Messages, Task

LEMMA MovesOn ==
    ASSUME TypeOK, NEW s \in Steps, Goto(s),
           \/ req.step = "create" /\ s = "hold"
           \/ req.step = "hold" /\ s = "add"
           \/ req.step = "add" /\ s = "block"
           \/ req.step = "block" /\ s = "nonblock"
           \/ s \in {"mark", "rollback", "end"}
    PROVE  req' \in [way : Ways, step : Steps, doc : Docs, anySent : BOOLEAN] /\ Forward
<1>1. /\ req' \in [way : Ways, step : Steps, doc : Docs, anySent : BOOLEAN]
      /\ req'.doc = req.doc /\ req'.step = s /\ req.doc \in 1..2 /\ req.step \in Steps
  BY DEF TypeOK, Goto, Docs
<1>2. \A d \in Docs : Past(d) => Past(d)' BY <1>1 DEF Past, Docs, Steps
<1>3. \A t \in Messages : Asked(t) => Asked(t)' BY <1>1, TaskShape DEF Asked, Docs, Steps, Modes
<1>4. At("create")' => At("create") BY <1>1 DEF At
<1>5. QED BY <1>1, <1>2, <1>3, <1>4 DEF Forward

LEMMA NextDocMoves ==
    ASSUME TypeOK, NEW b \in BOOLEAN, NextDoc(b)
    PROVE  /\ req' \in [way : Ways, step : Steps, doc : Docs, anySent : BOOLEAN] /\ Forward
           /\ \A t \in Messages : t[1] = req.doc => Asked(t)'
<1> USE MicroscopeAssumption
<1>1. /\ LastDoc[req.way] \in 1..2 /\ req.doc \in 1..2 /\ req.way \in Ways
  BY DEF TypeOK, Docs, Ways
<1>2. /\ req' \in [way : Ways, step : Steps, doc : Docs, anySent : BOOLEAN]
      /\ \/ req'.doc > req.doc
         \/ req'.doc = req.doc /\ req'.step \in {"end", "rollback"}
      /\ req'.step # "create"
  <2> DEFINE n == IF req.doc < LastDoc[req.way] THEN req.doc + 1 ELSE req.doc
             s == CASE req.doc < LastDoc[req.way] -> IF OneByOne THEN "hold" ELSE "add"
                    [] OTHER -> IF OneByOne \/ b THEN "end" ELSE "rollback"
  <2>1. n \in Docs /\ n >= req.doc BY <1>1 DEF Docs
  <2>2. s \in Steps \ {"create"} /\ (n = req.doc => s \in {"end", "rollback"})
    BY <1>1 DEF Steps
  <2>3. req' = [req EXCEPT !.anySent = b, !.doc = n, !.step = s] BY DEF NextDoc
  <2> HIDE DEF n, s
  <2>4. /\ req' \in [way : Ways, step : Steps, doc : Docs, anySent : BOOLEAN]
        /\ req'.doc = n /\ req'.step = s
    BY <2>1, <2>2, <2>3 DEF TypeOK
  <2>5. QED BY <1>1, <2>1, <2>2, <2>4 DEF Docs
<1>3. \A d \in Docs : Past(d) => Past(d)' BY <1>1, <1>2 DEF Past, Docs
<1>4. \A t \in Messages : Asked(t) \/ t[1] = req.doc => Asked(t)'
  BY <1>1, <1>2, TaskShape DEF Asked, Docs
<1>5. QED BY <1>2, <1>3, <1>4 DEF Forward, At

LEMMA RequestSteps ==
    ASSUME TypeOK, Request
    PROVE  /\ UNCHANGED RequestVars
           /\ req' \in [way : Ways, step : Steps, doc : Docs, anySent : BOOLEAN] /\ Forward
           /\ \/ UNCHANGED <<alive, docs, sent, split>>
              \/ Creates
              \/ \E d \in Docs : Adds(d)
              \/ \E t \in Messages : Sends(t)
              \/ Marks
<1> DEFINE Moves == /\ req' \in [way : Ways, step : Steps, doc : Docs, anySent : BOOLEAN]
                    /\ Forward
<1>0. /\ {"create", "hold", "add", "block", "nonblock", "mark", "rollback", "end"} = Steps
      /\ req.doc \in Docs /\ req.step \in Steps /\ req.anySent \in BOOLEAN
  BY DEF TypeOK, Steps
<1>1. CASE CreateWorkspace
  <2>1. Moves BY <1>0, <1>1, MovesOn DEF CreateWorkspace, At
  <2>2. ~At("create")' BY <1>1 DEF CreateWorkspace, Goto, At, TypeOK
  <2>3. QED BY <1>1, <2>1, <2>2 DEF CreateWorkspace, Creates, RequestVars, queues, history
<1>2. CASE HoldCredit
  <2>1. Moves BY <1>0, <1>2, MovesOn DEF HoldCredit, At
  <2>2. QED BY <1>2, <2>1 DEF HoldCredit, RequestVars, queues, history, store
<1>3. CASE AddDocument
  <2>1. Moves BY <1>0, <1>3, MovesOn DEF AddDocument, At
  <2>2. PICK d \in Docs : d = req.doc BY <1>0
  <2>3. req'.doc = d /\ req'.step = "block" BY <1>3, <2>2 DEF AddDocument, Goto, TypeOK
  <2>4. Past(d)' BY <2>3 DEF Past, Docs
  <2>5. Adds(d) BY <1>3, <2>2, <2>4 DEF AddDocument, Adds, queues, history
  <2>6. QED BY <1>3, <2>1, <2>5 DEF AddDocument, RequestVars, queues, history
<1>4. CASE SendBlock
  <2>1. Moves BY <1>0, <1>4, MovesOn DEF SendBlock, At
  <2>2. PICK t \in Messages : t = Task(req.doc, "block") /\ t[1] = req.doc /\ t[2] = "block"
    BY <1>0, TaskMade DEF Modes
  <2>3. req'.doc = req.doc /\ req'.step = "nonblock" BY <1>4 DEF SendBlock, Goto, TypeOK
  <2>4. ~Asked(t) /\ Asked(t)' BY <1>0, <1>4, <2>2, <2>3 DEF Asked, SendBlock, At, Docs
  <2>5. Sends(t) BY <1>4, <2>2, <2>4 DEF Sends, SendBlock, store, history
  <2>6. QED BY <1>4, <2>1, <2>2, <2>5 DEF SendBlock, RequestVars, queues, history, store
<1>5. CASE SendNonBlock
  <2>1. PICK t \in Messages :
           t = Task(req.doc, "nonblock") /\ t[1] = req.doc /\ t[2] = "nonblock"
    BY <1>0, TaskMade DEF Modes
  <2>2. Moves /\ Asked(t)' BY <1>0, <1>5, <2>1, NextDocMoves DEF SendNonBlock
  <2>3. ~Asked(t) BY <1>0, <1>5, <2>1 DEF Asked, SendNonBlock, At, Docs
  <2>4. Sends(t) BY <1>5, <2>1, <2>2, <2>3 DEF Sends, SendNonBlock, store, history
  <2>5. QED BY <1>5, <2>1, <2>2, <2>4 DEF SendNonBlock, RequestVars, queues, history, store
<1>6. CASE FailRequest
  <2>1. Moves
    BY <1>0, <1>6, MovesOn, NextDocMoves DEF FailRequest
  <2>2. CASE At("add") /\ addDocument(req.doc) /\ UNCHANGED sent
    <3>1. PICK d \in Docs : d = req.doc BY <1>0
    <3>2. CASE Goto("rollback")
      <4>1. req'.doc = d /\ req'.step = "rollback" BY <3>1, <3>2 DEF Goto, TypeOK
      <4>2. Past(d)' BY <4>1 DEF Past, Docs
      <4>3. Adds(d) BY <1>6, <2>2, <3>1, <4>2 DEF FailRequest, Adds, history
      <4>4. QED BY <1>6, <2>1, <4>3 DEF FailRequest, RequestVars, history
    <3>3. CASE NextDoc(req.anySent)
      <4>1. PICK t \in Messages : t[1] = d BY TaskMade DEF Modes
      <4>2. Asked(t)' BY <1>0, <3>1, <3>3, <4>1, NextDocMoves
      <4>3. Past(d)' BY <4>1, <4>2 DEF Asked, Past
      <4>4. Adds(d) BY <1>6, <2>2, <3>1, <4>3 DEF FailRequest, Adds, history
      <4>5. QED BY <1>6, <2>1, <4>4 DEF FailRequest, RequestVars, history
    <3>4. QED BY <1>6, <2>2, <3>2, <3>3 DEF FailRequest
  <2>3. CASE UNCHANGED <<docs, sent>>
    BY <1>6, <2>1, <2>3 DEF FailRequest, RequestVars, history
  <2>4. CASE ~At("add") /\ sent' = sent \cup {Task(req.doc, req.step)} /\ UNCHANGED docs
    <3>1. req.step \in {"block", "nonblock"} BY <1>6, <2>4 DEF FailRequest, At
    <3>2. PICK t \in Messages : t = Task(req.doc, req.step) /\ t[1] = req.doc /\ t[2] = req.step
      BY <1>0, <3>1, TaskMade DEF Modes
    <3>3. req'.doc = req.doc /\ req'.step \in {"rollback", "mark"}
      BY <1>6, <2>4 DEF FailRequest, Goto, TypeOK
    <3>4. ~Asked(t) /\ Asked(t)' BY <1>0, <3>1, <3>2, <3>3 DEF Asked, Docs
    <3>5. Sends(t) BY <1>6, <2>4, <3>2, <3>4 DEF Sends, FailRequest, history
    <3>6. QED BY <1>6, <2>1, <3>2, <3>5 DEF FailRequest, RequestVars, history
  <2>5. QED BY <1>6, <2>2, <2>3, <2>4 DEF FailRequest
<1>7. CASE MarkFailed
  <2>1. Moves BY <1>0, <1>7, NextDocMoves DEF MarkFailed
  <2>2. QED BY <1>7, <2>1 DEF MarkFailed, Marks, RequestVars, queues
<1>8. CASE RollbackHold
  <2>1. Moves BY <1>0, <1>8, MovesOn DEF RollbackHold
  <2>2. QED BY <1>8, <2>1 DEF RollbackHold, RequestVars, queues, history, store
<1>9. CASE CrashRequest
  <2>1. Moves BY <1>0, <1>9, MovesOn DEF CrashRequest
  <2>2. QED BY <1>9, <2>1 DEF CrashRequest, RequestVars, queues, history, store
<1>10. QED
  BY <1>1, <1>2, <1>3, <1>4, <1>5, <1>6, <1>7, <1>8, <1>9 DEF Request

-----------------------------------------------------------------------------
(* What a handler's step does to its record of work, and to no other's.    *)

Same(w) == \A v \in Workers \ {w} : work'[v] = work[v]

\* A step on, with the same message.
Goes(w, step) ==
    /\ work'[w].step = step /\ work'[w].msg = work[w].msg
    /\ work'[w].payload = work[w].payload /\ Same(w)

Takes(w, m) ==
    /\ Doing(w, "idle") /\ m \in results
    /\ work'[w].msg = m /\ Same(w)
    /\ work'[w].step = IF work'[w].payload THEN "save" ELSE "compute"
    /\ work'[w].payload => m.ok
    /\ unread \subseteq unread'
    /\ m.ok /\ ~work'[w].payload /\ m.task[2] = "nonblock" => m.task[1] \in unread'
    /\ UNCHANGED <<alive, docs, saved, req, sent, results, announced, split>>

Saves(w) ==
    /\ \/ /\ Doing(w, "save") /\ ModeOf(w) = "block"
          /\ savePayload("view", DocOf(w)) /\ Goes(w, "text")
       \/ /\ Doing(w, "save") /\ ModeOf(w) # "block"
          /\ savePayload("graph", DocOf(w)) /\ Goes(w, "compute")
       \/ Doing(w, "text") /\ savePayload("text", DocOf(w)) /\ Goes(w, "compute")
    /\ UNCHANGED <<alive, docs, req, sent, results, announced, split, unread>>

Computes(w) ==
    LET d == DocOf(w)
        other == SubStatus(d, Other(ModeOf(w)))
    IN
    /\ Doing(w, "compute") /\ Goes(w, "sub")
    /\ work'[w].overall = computeOverallStatus(StatusOf(work[w].msg),
                             IF other = "none" THEN "PROCESSING" ELSE other)
    /\ split' = [split EXCEPT ![d] =
          @ \/ \E v \in Workers : work[v].step \in {"sub", "status"} /\ DocOf(v) = d]
    /\ UNCHANGED <<alive, docs, saved, req, sent, results, announced, unread>>

SavesSub(w) ==
    /\ Doing(w, "sub") /\ work'[w].overall = work[w].overall
    /\ updateDocumentSubStatus(DocOf(w), ModeOf(w), StatusOf(work[w].msg), work[w].overall,
                               ModeOf(w) = "block" /\ work[w].payload)
    /\ Goes(w, IF ModeOf(w) = "block" THEN "count" ELSE "status")
    /\ UNCHANGED <<alive, saved, req, sent, results, announced, split, unread>>

SavesStatus(w) ==
    /\ Doing(w, "status") /\ updateDocumentStatus(DocOf(w), work[w].overall, work[w].payload)
    /\ Goes(w, "count")
    /\ UNCHANGED <<alive, saved, req, sent, results, announced, split, unread>>

Finishes(w) ==
    /\ Doing(w, "count") /\ Announce(w) /\ work'[w] = IdleWorker /\ Same(w)
    /\ results' = results \ {work[w].msg} \/ UNCHANGED results
    /\ UNCHANGED <<alive, docs, saved, req, sent, split, unread>>

Abandons(w) ==
    /\ work'[w] = IdleWorker /\ Same(w)
    /\ UNCHANGED <<alive, docs, saved, req, sent, results, announced, split, unread>>

WorkType == [Workers -> [step : WorkSteps, msg : Results \cup {NoResult},
                         payload : BOOLEAN, overall : Statuses]]

LEMMA HandleSteps ==
    ASSUME TypeOK, WorkOK, NEW w \in Workers, Handle(w)
    PROVE  /\ work' \in WorkType
           /\ \/ \E m \in results : Takes(w, m)
              \/ Saves(w) \/ Computes(w) \/ SavesSub(w) \/ SavesStatus(w)
              \/ Finishes(w) \/ Abandons(w)
<1>0. /\ work \in WorkType /\ results \subseteq Results
      /\ Busy(w) => work[w].msg \in Results /\ ModeOf(w) \in Modes
  <2>1. work \in WorkType /\ results \subseteq Results BY DEF TypeOK, WorkType
  <2>2. Busy(w) => work[w].msg \in Results BY DEF WorkOK
  <2>3. QED BY <2>1, <2>2, TaskShape DEF Results, ModeOf
<1>1. ASSUME NEW m \in results, TakeResult(w, m) PROVE work' \in WorkType /\ Takes(w, m)
  <2>0. m \in Results /\ m.ok \in BOOLEAN BY <1>0 DEF Results
  <2>1. PICK b \in BOOLEAN :
           /\ work' = [work EXCEPT ![w] = [step |-> IF b THEN "save" ELSE "compute",
                          msg |-> m, payload |-> b, overall |-> "none"]]
           /\ b => m.ok
           /\ unread' = IF m.ok /\ ~b /\ m.task[2] = "nonblock"
                        THEN unread \cup {m.task[1]} ELSE unread
    BY <1>1, <2>0 DEF TakeResult
  <2>2. work' \in WorkType BY <1>0, <2>0, <2>1 DEF WorkType, WorkSteps, Statuses
  <2>3. QED BY <1>0, <1>1, <2>1, <2>2
            DEF TakeResult, Takes, Same, WorkType, store, queues
<1>2. CASE SavePayload(w) \/ SaveTexts(w)
  <2>1. PICK s \in {"text", "compute"} :
           /\ work' = [work EXCEPT ![w].step = s]
           /\ s = IF Doing(w, "save") /\ ModeOf(w) = "block" THEN "text" ELSE "compute"
    BY <1>2 DEF SavePayload, SaveTexts, Doing
  <2>2. work' \in WorkType /\ Goes(w, s)
    BY <1>0, <2>1 DEF WorkType, WorkSteps, Goes, Same
  <2>3. QED BY <1>2, <2>1, <2>2
            DEF SavePayload, SaveTexts, Saves, Doing, queues, history
<1>3. CASE ComputeStatus(w)
  <2> DEFINE d == DocOf(w)
             other == SubStatus(d, Other(ModeOf(w)))
             o == computeOverallStatus(StatusOf(work[w].msg),
                    IF other = "none" THEN "PROCESSING" ELSE other)
  <2>1. work' = [work EXCEPT ![w].step = "sub", ![w].overall = o]
    BY <1>3 DEF ComputeStatus, SubStatus, Other
  <2>2. o \in Statuses BY DEF computeOverallStatus, Statuses
  <2> HIDE DEF o
  <2>3. work' \in WorkType /\ Goes(w, "sub") /\ work'[w].overall = o
    BY <1>0, <2>1, <2>2 DEF WorkType, WorkSteps, Goes, Same
  <2>4. QED BY <1>3, <2>3
            DEF ComputeStatus, ReadyToCompute, Computes, store, queues, o
<1>4. CASE SaveBlockStatus(w) \/ SaveNonBlockStatus(w)
  <2>1. PICK s \in {"count", "status"} :
           /\ work' = [work EXCEPT ![w].step = s]
           /\ s = IF ModeOf(w) = "block" THEN "count" ELSE "status"
    BY <1>4 DEF SaveBlockStatus, SaveNonBlockStatus, SaveSubStatus
  <2>2. work' \in WorkType /\ Goes(w, s) /\ work'[w].overall = work[w].overall
    BY <1>0, <2>1 DEF WorkType, WorkSteps, Goes, Same
  <2>3. QED BY <1>4, <2>1, <2>2
            DEF SaveBlockStatus, SaveNonBlockStatus, SaveSubStatus, SavesSub
<1>5. CASE SaveStatus(w)
  <2>1. work' = [work EXCEPT ![w].step = "count"] BY <1>5 DEF SaveStatus
  <2>2. work' \in WorkType /\ Goes(w, "count")
    BY <1>0, <2>1 DEF WorkType, WorkSteps, Goes, Same
  <2>3. QED BY <1>5, <2>2 DEF SaveStatus, SavesStatus, queues
<1>6. CASE Finish(w) \/ Abandon(w)
  <2>1. work' = [work EXCEPT ![w] = IdleWorker] BY <1>6 DEF Finish, Abandon, EndWork
  <2>2. work' \in WorkType /\ work'[w] = IdleWorker /\ Same(w)
    BY <1>0, <2>1 DEF WorkType, WorkSteps, Same, IdleWorker, Statuses
  <2>3. QED BY <1>6, <2>2
            DEF Finish, Finishes, Abandon, Abandons, store, queues, history
<1>7. QED BY <1>1, <1>2, <1>3, <1>4, <1>5, <1>6 DEF Handle

LEMMA StepKinds ==
    ASSUME TypeOK, WorkOK, [Next]_vars
    PROVE  \/ UNCHANGED <<alive, docs, saved, req, sent, results, work, announced, split, unread>>
           \/ Request
           \/ DeleteWorkspace
           \/ \E t \in Messages, ok \in BOOLEAN : Answer(t, ok)
           \/ \E w \in Workers : Handle(w)
<1>1. req.way \in Ways BY DEF TypeOK
<1>2. \A w \in WorkersOf[req.way] : w \in Workers BY <1>1 DEF Workers
<1>3. ASSUME NEW t \in TaskIds, ExpireHold(t)
      PROVE UNCHANGED <<alive, docs, saved, req, sent, results, work, announced, split, unread>>
  BY <1>3 DEF ExpireHold, store, queues, history
<1>4. ASSUME UNCHANGED vars
      PROVE UNCHANGED <<alive, docs, saved, req, sent, results, work, announced, split, unread>>
  BY <1>4 DEF vars, store, queues, history
<1>5. QED BY <1>2, <1>3, <1>4 DEF Next

\* Every step, by its effect.
Stays == UNCHANGED <<alive, docs, sent, split>>

Deletes ==
    /\ alive' = FALSE /\ docs' = [d \in Docs |-> NoDoc]
    /\ saved' = {p \in saved : p[1] # "graph"}
    /\ UNCHANGED <<req, sent, results, work, announced, split, unread>>

Answers(t, ok) ==
    /\ t \in sent /\ sent' = sent \ {t}
    /\ results' = results \cup {[task |-> t, ok |-> ok]}
    /\ UNCHANGED <<alive, docs, saved, req, work, announced, split, unread>>

RequestDoes ==
    /\ UNCHANGED RequestVars
    /\ \/ Stays \/ Creates \/ Marks
       \/ \E d \in Docs : Adds(d)
       \/ \E t \in Messages : Sends(t)

HandlerDoes(w) ==
    \/ \E m \in results : Takes(w, m)
    \/ Saves(w) \/ Computes(w) \/ SavesSub(w) \/ SavesStatus(w) \/ Finishes(w) \/ Abandons(w)

DocsType == [Docs -> [overall : Statuses, block : Statuses, nonblock : Statuses,
                      graph : BOOLEAN, view : BOOLEAN]]
RequestType == [way : Ways, step : Steps, doc : Docs, anySent : BOOLEAN]

LEMMA Effects ==
    ASSUME TypeOK, WorkOK, [Next]_vars
    PROVE  /\ req' \in RequestType /\ work' \in WorkType /\ Forward
           /\ \/ RequestDoes
              \/ Deletes
              \/ \E t \in Messages, ok \in BOOLEAN : Answers(t, ok)
              \/ \E w \in Workers : HandlerDoes(w)
<1>0. req \in RequestType /\ work \in WorkType BY DEF TypeOK, RequestType, WorkType
<1>1. req' = req => Forward BY DEF Forward, Past, Asked, At
<1>2. CASE UNCHANGED <<alive, docs, saved, req, sent, results, work, announced, split, unread>>
  BY <1>0, <1>1, <1>2 DEF RequestDoes, RequestVars, Stays
<1>3. CASE Request
  <2>1. req' \in RequestType /\ Forward /\ RequestDoes
    BY <1>3, RequestSteps DEF RequestType, RequestDoes, Stays
  <2>2. QED BY <1>0, <2>1 DEF RequestDoes, RequestVars
<1>4. CASE DeleteWorkspace
  BY <1>0, <1>1, <1>4
     DEF DeleteWorkspace, Deletes, deleteRecord, deleteGraphPayloadsByGroupId, queues, history
<1>5. ASSUME NEW t \in Messages, NEW ok \in BOOLEAN, Answer(t, ok)
      PROVE  req' = req /\ work' = work /\ Answers(t, ok)
  BY <1>5 DEF Answer, Answers, store, history
<1>6. ASSUME NEW w \in Workers, Handle(w) PROVE req' = req /\ work' \in WorkType /\ HandlerDoes(w)
  <2>1. work' \in WorkType /\ HandlerDoes(w) BY <1>6, HandleSteps DEF HandlerDoes
  <2>2. QED BY <2>1 DEF HandlerDoes, Takes, Saves, Computes, SavesSub, SavesStatus,
                        Finishes, Abandons
<1>7. QED BY <1>0, <1>1, <1>2, <1>3, <1>4, <1>5, <1>6, StepKinds

\* What the updates of a record leave in it.
LEMMA SubSaved ==
    ASSUME TypeOK, WorkOK, NEW w \in Workers, SavesSub(w),
           NEW d, d = DocOf(w), NEW mode, mode = ModeOf(w)
    PROVE  /\ d \in Docs /\ mode \in Modes /\ Recorded(d) /\ work[w].overall \in Known
           /\ docs'[d].overall = work[w].overall
           /\ docs'[d].graph = docs[d].graph
           /\ docs'[d].view = (docs[d].view \/ (mode = "block" /\ work[w].payload))
           /\ SubStatus(d, mode)' = StatusOf(work[w].msg)
           /\ SubStatus(d, Other(mode))' = SubStatus(d, Other(mode))
           /\ \A e \in Docs \ {d} : docs'[e] = docs[e]
           /\ docs' \in DocsType
<1> DEFINE st == StatusOf(work[w].msg)
           o == work[w].overall
           v == mode = "block" /\ work[w].payload
<1>1. Busy(w) /\ work[w].step = "sub" BY DEF SavesSub, Doing, Busy
<1>2. d \in Docs /\ mode \in Modes /\ o \in Known
  BY <1>1, TaskShape DEF WorkOK, Results, DocOf, ModeOf
<1>3. st \in Known /\ Known \subseteq Statuses BY DEF StatusOf, Known, Statuses
<1>4. v \in BOOLEAN /\ docs \in DocsType BY DEF TypeOK, DocsType
<1>5. docs[d] # NoDoc
      /\ docs' = [docs EXCEPT ![d].overall = o, ![d].view = @ \/ v,
                            ![d].block = IF mode = "block" THEN st ELSE @,
                            ![d].nonblock = IF mode = "nonblock" THEN st ELSE @]
  BY DEF SavesSub, updateDocumentSubStatus
<1> DEFINE b == IF mode = "block" THEN st ELSE docs[d].block
           n == IF mode = "nonblock" THEN st ELSE docs[d].nonblock
           r == docs[d].view \/ v
<1>6. b \in Statuses /\ n \in Statuses /\ r \in BOOLEAN BY <1>2, <1>3, <1>4 DEF DocsType
<1>7. docs' = [docs EXCEPT ![d].overall = o, ![d].view = r, ![d].block = b, ![d].nonblock = n]
  BY <1>2, <1>4, <1>5 DEF DocsType
<1> HIDE DEF st, o, v, b, n, r
<1>8. /\ docs'[d].overall = o /\ docs'[d].graph = docs[d].graph /\ docs'[d].view = r
      /\ docs'[d].block = b /\ docs'[d].nonblock = n
      /\ \A e \in Docs \ {d} : docs'[e] = docs[e]
      /\ docs' \in DocsType
  <2> DEFINE R == [overall : Statuses, block : Statuses, nonblock : Statuses,
                   graph : BOOLEAN, view : BOOLEAN]
             c == [docs[d] EXCEPT !.overall = o, !.view = r, !.block = b, !.nonblock = n]
  <2>1. docs[d] \in R /\ o \in Statuses BY <1>2, <1>3, <1>4 DEF DocsType
  <2>2. /\ c \in R
        /\ c.overall = o /\ c.graph = docs[d].graph /\ c.view = r
        /\ c.block = b /\ c.nonblock = n
    BY <1>6, <2>1
  <2>3. docs' = [docs EXCEPT ![d] = c] BY <1>7
  <2> HIDE DEF c
  <2>4. docs'[d] = c /\ \A e \in Docs \ {d} : docs'[e] = docs[e]
    BY <1>2, <1>4, <2>3 DEF DocsType
  <2>5. docs' \in DocsType BY <1>2, <1>4, <2>2, <2>3 DEF DocsType
  <2>6. QED BY <2>2, <2>4, <2>5
<1>9. docs'[d].view = (docs[d].view \/ (mode = "block" /\ work[w].payload))
  BY <1>8 DEF r, v
<1>10. /\ SubStatus(d, mode)' = StatusOf(work[w].msg)
       /\ SubStatus(d, Other(mode))' = SubStatus(d, Other(mode))
  BY <1>2, <1>8 DEF SubStatus, Other, Modes, st, b, n
<1>11. QED BY <1>2, <1>5, <1>8, <1>9, <1>10 DEF Recorded, o

LEMMA StatusSaved ==
    ASSUME TypeOK, NEW d \in Docs, NEW o \in Statuses, NEW g \in BOOLEAN,
           updateDocumentStatus(d, o, g)
    PROVE  /\ Recorded(d)
           /\ docs'[d].overall = o /\ docs'[d].graph = (docs[d].graph \/ g)
           /\ docs'[d].view = docs[d].view
           /\ docs'[d].block = docs[d].block /\ docs'[d].nonblock = docs[d].nonblock
           /\ \A e \in Docs \ {d} : docs'[e] = docs[e]
           /\ docs' \in DocsType
<1> DEFINE r == docs[d].graph \/ g
           R == [overall : Statuses, block : Statuses, nonblock : Statuses,
                 graph : BOOLEAN, view : BOOLEAN]
           c == [docs[d] EXCEPT !.overall = o, !.graph = r]
<1>1. docs \in DocsType /\ docs[d] \in R BY DEF TypeOK, DocsType
<1>2. docs' = [docs EXCEPT ![d] = c] BY <1>1 DEF updateDocumentStatus
<1>3. r \in BOOLEAN OBVIOUS
<1> HIDE DEF r
<1>4. /\ c \in R /\ c.overall = o /\ c.graph = r
      /\ c.view = docs[d].view /\ c.block = docs[d].block /\ c.nonblock = docs[d].nonblock
  BY <1>1, <1>3
<1> HIDE DEF c
<1>5. docs'[d] = c /\ (\A e \in Docs \ {d} : docs'[e] = docs[e]) /\ docs' \in DocsType
  BY <1>1, <1>2, <1>4 DEF DocsType
<1>6. docs'[d].graph = (docs[d].graph \/ g) BY <1>4, <1>5 DEF r
<1>7. Recorded(d) BY DEF updateDocumentStatus, Recorded
<1>8. QED BY <1>4, <1>5, <1>6, <1>7

LEMMA StatusOfWork ==
    ASSUME TypeOK, WorkOK, NEW w \in Workers, SavesStatus(w), NEW d, d = DocOf(w)
    PROVE  /\ d \in Docs /\ ModeOf(w) = "nonblock" /\ work[w].overall \in Known
           /\ Recorded(d)
           /\ docs'[d].overall = work[w].overall
           /\ docs'[d].graph = (docs[d].graph \/ work[w].payload)
           /\ docs'[d].view = docs[d].view
           /\ docs'[d].block = docs[d].block /\ docs'[d].nonblock = docs[d].nonblock
           /\ \A e \in Docs \ {d} : docs'[e] = docs[e]
           /\ docs' \in DocsType
<1>1. Busy(w) /\ work[w].step = "status" BY DEF SavesStatus, Doing, Busy
<1>2. d \in Docs /\ ModeOf(w) = "nonblock" /\ work[w].overall \in Known
  BY <1>1, TaskShape DEF WorkOK, Results, DocOf, Doing
<1>3. work[w].overall \in Statuses /\ work[w].payload \in BOOLEAN
  BY DEF TypeOK
<1>4. QED BY <1>2, <1>3, StatusSaved DEF SavesStatus

LEMMA Marked ==
    ASSUME TypeOK, Marks
    PROVE  /\ docs' \in DocsType
           /\ split'[req.doc] /\ \A e \in Docs \ {req.doc} : docs'[e] = docs[e] /\ split'[e] = split[e]
           /\ split' \in [Docs -> BOOLEAN]
           /\ LET d == req.doc IN
              /\ d \in Docs
              /\ docs'[d].overall \in {docs[d].overall, "FAILED"}
              /\ docs'[d].overall # docs[d].overall => Recorded(d)
              /\ docs'[d].graph = docs[d].graph /\ docs'[d].view = docs[d].view
              /\ docs'[d].block = docs[d].block /\ docs'[d].nonblock = docs[d].nonblock
<1>1. req.doc \in Docs /\ docs \in DocsType /\ split \in [Docs -> BOOLEAN]
  BY DEF TypeOK, DocsType
<1>2. CASE docs' = docs BY <1>1, <1>2 DEF Marks
<1>3. CASE updateDocumentStatus(req.doc, "FAILED", FALSE)
  <2>1. "FAILED" \in Statuses /\ FALSE \in BOOLEAN BY DEF Statuses
  <2>2. docs[req.doc].graph \in BOOLEAN BY <1>1 DEF DocsType
  <2>3. QED BY <1>1, <1>3, <2>1, <2>2, StatusSaved DEF Marks
<1>4. QED BY <1>2, <1>3 DEF Marks

-----------------------------------------------------------------------------
(* Each part of the invariant is kept.                                     *)

LEMMA TypeStep == TypeOK /\ WorkOK /\ [Next]_vars => TypeOK'
<1> SUFFICES ASSUME TypeOK, WorkOK, [Next]_vars PROVE TypeOK'
  OBVIOUS
<1>1. req' \in RequestType /\ work' \in WorkType BY Effects
<1>2. docs \in DocsType /\ sent \subseteq Messages /\ results \subseteq Results
      /\ alive \in BOOLEAN /\ announced \in BOOLEAN /\ split \in [Docs -> BOOLEAN]
  BY DEF TypeOK, DocsType
<1> DEFINE Rest == /\ alive' \in BOOLEAN /\ announced' \in BOOLEAN /\ docs' \in DocsType
                   /\ sent' \subseteq Messages /\ results' \subseteq Results
                   /\ split' \in [Docs -> BOOLEAN]
<1>3. NoDoc \in [overall : Statuses, block : Statuses, nonblock : Statuses,
                 graph : BOOLEAN, view : BOOLEAN]
      /\ NewDoc \in [overall : Statuses, block : Statuses, nonblock : Statuses,
                    graph : BOOLEAN, view : BOOLEAN]
  BY DEF NoDoc, NewDoc, Statuses
<1>4. ASSUME RequestDoes PROVE Rest
  <2>1. CASE Stays BY <1>2, <1>4, <2>1 DEF Stays, RequestDoes, RequestVars
  <2>2. CASE Creates BY <1>2, <1>4, <2>2 DEF Creates, createRecord, RequestDoes, RequestVars
  <2>3. CASE Marks BY <1>2, <1>4, <2>3, Marked DEF Marks, RequestDoes, RequestVars
  <2>4. ASSUME NEW d \in Docs, Adds(d) PROVE Rest
    BY <1>2, <1>3, <1>4, <2>4 DEF Adds, addDocument, RequestDoes, RequestVars, DocsType
  <2>5. ASSUME NEW t \in Messages, Sends(t) PROVE Rest
    BY <1>2, <1>4, <2>5 DEF Sends, RequestDoes, RequestVars
  <2>6. QED BY <1>4, <2>1, <2>2, <2>3, <2>4, <2>5 DEF RequestDoes
<1>5. ASSUME Deletes PROVE Rest BY <1>2, <1>3, <1>5 DEF Deletes, DocsType
<1>6. ASSUME NEW t \in Messages, NEW ok \in BOOLEAN, Answers(t, ok) PROVE Rest
  BY <1>2, <1>6 DEF Answers, Results
<1>7. ASSUME NEW w \in Workers, HandlerDoes(w) PROVE Rest
  <2>1. CASE Abandons(w) \/ Saves(w) \/ \E m \in results : Takes(w, m)
    BY <1>2, <2>1 DEF Abandons, Saves, Takes
  <2>2. CASE Computes(w) BY <1>2, <2>2 DEF Computes
  <2>3. CASE SavesSub(w) BY <1>2, <2>3, SubSaved DEF SavesSub
  <2>4. CASE SavesStatus(w) BY <1>2, <2>4, StatusOfWork DEF SavesStatus
  <2>5. CASE Finishes(w) BY <1>2, <2>5 DEF Finishes, Announce
  <2>6. QED BY <1>7, <2>1, <2>2, <2>3, <2>4, <2>5 DEF HandlerDoes
<1>8. Rest BY <1>4, <1>5, <1>6, <1>7, Effects
<1>9. QED BY <1>1, <1>8 DEF TypeOK, RequestType, WorkType, DocsType

\* A document has a record only when the request has come to it.
LEMMA DocStep == TypeOK /\ WorkOK /\ DocOK /\ [Next]_vars => DocOK'
<1> SUFFICES ASSUME TypeOK, WorkOK, DocOK, [Next]_vars PROVE DocOK'
  OBVIOUS
<1> DEFINE Fine(d) == Recorded(d) =>
              /\ Past(d) /\ docs[d].overall \in Known
              /\ docs[d].block \in Known /\ docs[d].nonblock \in Known
           Kept == \A d \in Docs : docs'[d] = docs[d]
<1>0. Forward /\ req.doc \in Docs BY Effects DEF TypeOK
<1>1. \A d \in Docs : Fine(d) /\ (Past(d) => Past(d)') BY <1>0 DEF DocOK, Forward
<1>2. (~alive => \A d \in Docs : ~Recorded(d)) /\ (At("create") => ~alive) BY DEF DocOK
<1>3. \A d \in Docs : docs'[d] = docs[d] => Fine(d)' /\ (Recorded(d)' => Recorded(d))
  BY <1>1 DEF Recorded
<1>4. ASSUME Kept, alive' = alive PROVE DocOK'
  BY <1>0, <1>2, <1>3, <1>4 DEF DocOK, Forward
<1>5. ASSUME NEW d \in Docs, Fine(d)', \A e \in Docs \ {d} : docs'[e] = docs[e], alive' = alive,
             Recorded(d) \/ alive
      PROVE  DocOK'
  BY <1>0, <1>2, <1>3, <1>5 DEF DocOK, Forward
<1>6. CASE RequestDoes
  <2>1. CASE Stays BY <1>4, <2>1 DEF Stays
  <2>2. CASE Creates BY <1>3, <2>2 DEF Creates, createRecord, DocOK
  <2>3. CASE Marks
    <3> PICK d \in Docs : d = req.doc BY <1>0
    <3>1. /\ \A e \in Docs \ {d} : docs'[e] = docs[e]
          /\ docs'[d].overall \in {docs[d].overall, "FAILED"}
          /\ docs'[d].overall # docs[d].overall => Recorded(d)
          /\ docs'[d].block = docs[d].block /\ docs'[d].nonblock = docs[d].nonblock
          /\ docs' = docs \/ Recorded(d)
      BY <2>3, Marked DEF Marks, updateDocumentStatus, Recorded
    <3>2. CASE docs' = docs BY <1>4, <2>3, <3>2 DEF Marks
    <3>3. CASE Recorded(d)
      <4>1. Fine(d)' BY <1>1, <3>1, <3>3 DEF Known
      <4>2. QED BY <1>5, <2>3, <3>1, <3>3, <4>1 DEF Marks
    <3>4. QED BY <3>1, <3>2, <3>3
  <2>4. ASSUME NEW d \in Docs, Adds(d) PROVE DocOK'
    <3>1. docs'[d] = NewDoc /\ \A e \in Docs \ {d} : docs'[e] = docs[e]
      BY <2>4 DEF Adds, addDocument, TypeOK
    <3>2. Fine(d)' BY <2>4, <3>1 DEF Adds, NewDoc, NoDoc, Known
    <3>3. QED BY <1>5, <2>4, <3>1, <3>2 DEF Adds, addDocument
  <2>5. ASSUME NEW t \in Messages, Sends(t) PROVE DocOK' BY <1>4, <2>5 DEF Sends
  <2>6. QED BY <1>6, <2>1, <2>2, <2>3, <2>4, <2>5 DEF RequestDoes
<1>7. CASE Deletes
  <2>1. \A d \in Docs : ~Recorded(d)' BY <1>7 DEF Deletes, Recorded
  <2>2. QED BY <1>7, <2>1 DEF Deletes, DocOK
<1>8. ASSUME NEW t \in Messages, NEW ok \in BOOLEAN, Answers(t, ok) PROVE DocOK'
  BY <1>4, <1>8 DEF Answers
<1>9. ASSUME NEW w \in Workers, HandlerDoes(w) PROVE DocOK'
  <2>1. CASE Kept /\ alive' = alive BY <1>4, <2>1
  <2>2. CASE SavesSub(w)
    <3> PICK d, mode : d = DocOf(w) /\ mode = ModeOf(w) OBVIOUS
    <3>1. /\ d \in Docs /\ mode \in Modes /\ Recorded(d) /\ docs'[d].overall \in Known
          /\ SubStatus(d, mode)' = StatusOf(work[w].msg)
          /\ SubStatus(d, Other(mode))' = SubStatus(d, Other(mode))
          /\ \A e \in Docs \ {d} : docs'[e] = docs[e]
      BY <2>2, SubSaved
    <3>2. Fine(d)' BY <1>1, <3>1 DEF SubStatus, Other, Modes, StatusOf, Known
    <3>3. QED BY <1>5, <2>2, <3>1, <3>2 DEF SavesSub
  <2>3. CASE SavesStatus(w)
    <3> PICK d : d = DocOf(w) OBVIOUS
    <3>1. /\ d \in Docs /\ Recorded(d) /\ docs'[d].overall \in Known
          /\ docs'[d].block = docs[d].block /\ docs'[d].nonblock = docs[d].nonblock
          /\ \A e \in Docs \ {d} : docs'[e] = docs[e]
      BY <2>3, StatusOfWork
    <3>2. Fine(d)' BY <1>1, <3>1
    <3>3. QED BY <1>5, <2>3, <3>1, <3>2 DEF SavesStatus
  <2>4. QED
    BY <1>9, <2>1, <2>2, <2>3
       DEF HandlerDoes, Takes, Saves, Computes, Finishes, Abandons
<1>10. QED BY <1>6, <1>7, <1>8, <1>9, Effects

\* Which messages are around changes only where a message comes or goes.
LEMMA AroundStays ==
    ASSUME TypeOK, WorkOK, [Next]_vars, NEW m \in Results, Around(m)'
    PROVE  \/ Around(m)
           \/ \E t \in Messages, ok \in BOOLEAN : Answers(t, ok) /\ m = [task |-> t, ok |-> ok]
<1>1. CASE results' = results /\ work' = work BY <1>1 DEF Around, Busy, Doing
<1>2. ASSUME NEW t \in Messages, NEW ok \in BOOLEAN, Answers(t, ok)
      PROVE  Around(m) \/ m = [task |-> t, ok |-> ok]
  BY <1>2 DEF Answers, Around, Busy, Doing
<1>3. ASSUME NEW w \in Workers, HandlerDoes(w) PROVE Around(m)
  <2>1. results' \subseteq results
    BY <1>3 DEF HandlerDoes, Takes, Saves, Computes, SavesSub, SavesStatus, Finishes, Abandons
  <2>2. Same(w)
    BY <1>3 DEF HandlerDoes, Takes, Saves, Computes, SavesSub, SavesStatus, Finishes, Abandons,
                Goes
  <2>3. work'[w].step # "idle" => Around(work'[w].msg)
    BY <1>3 DEF HandlerDoes, Takes, Saves, Computes, SavesSub, SavesStatus, Finishes, Abandons,
                Goes, Around, Busy, Doing, IdleWorker
  <2>4. QED BY <2>1, <2>2, <2>3 DEF Around, Busy, Doing, Same
<1>4. QED
  BY <1>1, <1>2, <1>3, Effects DEF RequestDoes, RequestVars, Deletes

\* A task is asked once and answered once.
LEMMA QueueStep == TypeOK /\ WorkOK /\ QueueOK /\ [Next]_vars => QueueOK'
<1> SUFFICES ASSUME TypeOK, WorkOK, QueueOK, [Next]_vars PROVE QueueOK'
  OBVIOUS
<1>1. Forward /\ sent \subseteq Messages /\ \A m \in Results : m.task \in Messages
  BY Effects DEF TypeOK, Results
<1>2. ASSUME sent' \subseteq sent, \A m \in Results : Around(m)' => Around(m) PROVE QueueOK'
  BY <1>1, <1>2 DEF QueueOK, Forward
<1>3. ASSUME NEW t \in Messages, NEW ok \in BOOLEAN, Answers(t, ok) PROVE QueueOK'
  <2>1. /\ t \in sent /\ sent' = sent \ {t}
        /\ \A m \in Results : Around(m)' => Around(m) \/ m = [task |-> t, ok |-> ok]
    <3>1. ASSUME NEW m \in Results, Around(m)' PROVE Around(m) \/ m = [task |-> t, ok |-> ok]
      BY <1>3, <3>1 DEF Answers, Around, Busy, Doing
    <3>2. QED BY <1>3, <3>1 DEF Answers
  <2>2. \A m \in Results : Around(m) => m.task # t BY <2>1 DEF QueueOK
  <2>3. QED BY <1>1, <2>1, <2>2 DEF QueueOK, Forward
<1>4. ASSUME NEW t \in Messages, Sends(t), UNCHANGED RequestVars PROVE QueueOK'
  <2>1. \A m \in Results : Around(m)' => Around(m)
    BY <1>4 DEF RequestVars, Around, Busy, Doing
  <2>2. \A m \in Results : Around(m) => m.task # t BY <1>4 DEF QueueOK, Sends
  <2>3. QED BY <1>1, <1>4, <2>1, <2>2 DEF QueueOK, Forward, Sends
<1>5. CASE RequestDoes /\ ~\E t \in Messages : Sends(t)
  <2>1. sent' = sent /\ \A m \in Results : Around(m)' => Around(m)
    BY <1>5 DEF RequestDoes, RequestVars, Stays, Creates, Marks, Adds, Around, Busy, Doing
  <2>2. QED BY <1>2, <2>1
<1>6. CASE Deletes
  <2>1. sent' = sent /\ \A m \in Results : Around(m)' => Around(m)
    BY <1>6 DEF Deletes, Around, Busy, Doing
  <2>2. QED BY <1>2, <2>1
<1>7. ASSUME NEW w \in Workers, HandlerDoes(w) PROVE QueueOK'
  <2>1. sent' = sent
    BY <1>7 DEF HandlerDoes, Takes, Saves, Computes, SavesSub, SavesStatus, Finishes, Abandons
  <2>2. \A t \in Messages, ok \in BOOLEAN : ~Answers(t, ok)
    BY <2>1 DEF Answers
  <2>3. \A m \in Results : Around(m)' => Around(m) BY <2>2, AroundStays
  <2>4. QED BY <1>2, <2>1, <2>3
<1>8. QED BY <1>3, <1>4, <1>5, <1>6, <1>7, Effects DEF RequestDoes

\* What a handler holds goes with the step it is at.
LEMMA WorkStep == TypeOK /\ WorkOK /\ [Next]_vars => WorkOK'
<1> SUFFICES ASSUME TypeOK, WorkOK, [Next]_vars PROVE WorkOK'
  OBVIOUS
<1>1. CASE work' = work BY <1>1 DEF WorkOK, Busy, Doing, ModeOf
<1>2. ASSUME NEW w \in Workers, HandlerDoes(w) PROVE WorkOK'
  <2> DEFINE Fine(v) == Busy(v) =>
        /\ work[v].msg \in Results
        /\ work[v].step \in {"save", "text"} => work[v].payload
        /\ work[v].payload => work[v].msg.ok
        /\ Doing(v, "text") => ModeOf(v) = "block"
        /\ Doing(v, "status") => ModeOf(v) = "nonblock"
        /\ work[v].step \in {"sub", "status"} => work[v].overall \in Known
  <2>1. Same(w)
    BY <1>2 DEF HandlerDoes, Takes, Saves, Computes, SavesSub, SavesStatus, Finishes, Abandons,
                Goes
  <2>2. \A v \in Workers \ {w} : Fine(v)' BY <2>1 DEF WorkOK, Same, Busy, Doing, ModeOf
  <2>3. Fine(w) BY DEF WorkOK
  <2>4. Fine(w)'
    <3>1. ASSUME NEW m \in results, Takes(w, m) PROVE Fine(w)'
      BY <3>1 DEF Takes, Doing, TypeOK, Busy
    <3>2. CASE Saves(w) BY <2>3, <3>2 DEF Saves, Goes, Busy, Doing, ModeOf
    <3>3. CASE Computes(w)
      BY <2>3, <3>3 DEF Computes, Goes, Busy, Doing, ModeOf, computeOverallStatus, Known
    <3>4. CASE SavesSub(w)
      <4>1. ModeOf(w) \in Modes
        BY <2>3, <3>4, TaskShape DEF SavesSub, Busy, Doing, ModeOf, Results
      <4>2. QED BY <2>3, <3>4, <4>1 DEF SavesSub, Goes, Busy, Doing, ModeOf, Modes
    <3>5. CASE SavesStatus(w) BY <2>3, <3>5 DEF SavesStatus, Goes, Busy, Doing, ModeOf
    <3>6. CASE Finishes(w) \/ Abandons(w)
      BY <3>6 DEF Finishes, Abandons, IdleWorker, Busy, Doing
    <3>7. QED BY <1>2, <3>1, <3>2, <3>3, <3>4, <3>5, <3>6 DEF HandlerDoes
  <2>5. QED BY <2>2, <2>4 DEF WorkOK
<1>3. QED BY <1>1, <1>2, Effects DEF RequestDoes, RequestVars, Deletes, Answers

\* A handler's document is one of the workspace's, which the request has come to.
LEMMA DocOfWork ==
    ASSUME TypeOK, WorkOK, QueueOK, NEW w \in Workers, Busy(w)
    PROVE  /\ work[w].msg \in Results /\ work[w].msg.task = Task(DocOf(w), ModeOf(w))
           /\ DocOf(w) \in Docs /\ ModeOf(w) \in Modes /\ Past(DocOf(w))
<1>1. work[w].msg \in Results BY DEF WorkOK
<1>2. work[w].msg.task = Task(DocOf(w), ModeOf(w)) /\ DocOf(w) \in Docs /\ ModeOf(w) \in Modes
  BY <1>1, TaskShape DEF Results, DocOf, ModeOf, Task
<1>3. Asked(work[w].msg.task) BY <1>1 DEF QueueOK, Around
<1>4. QED BY <1>1, <1>2, <1>3 DEF Asked, Past, DocOf

\* A document is registered before any result of it is around.
LEMMA AddedFirst ==
    ASSUME TypeOK, WorkOK, QueueOK, NEW d \in Docs, Adds(d)
    PROVE  \A w \in Workers : Busy(w) => DocOf(w) # d
<1>1. ~Past(d) BY DEF Adds, Past, At, TypeOK, Docs
<1>2. QED BY <1>1, DocOfWork

LEMMA StatusesSwap ==
    \A a, b : computeOverallStatus(a, b) = computeOverallStatus(b, a)
BY DEF computeOverallStatus

\* What a handler computed goes with the record until it is written.
LEMMA FrameStep == TypeOK /\ WorkOK /\ DocOK /\ QueueOK /\ FrameOK /\ [Next]_vars => FrameOK'
<1> SUFFICES ASSUME TypeOK, WorkOK, DocOK, QueueOK, FrameOK, [Next]_vars PROVE FrameOK'
  OBVIOUS
<1> DEFINE Alike(w) == work'[w] = work[w]
           Kept(d) == docs'[d] = docs[d] /\ (split[d] => split'[d])
<1>1. ASSUME NEW d \in Docs, Kept(d) PROVE RecordOK(d)'
  BY <1>1 DEF FrameOK, RecordOK, Unsplit, Recorded
<1>2. ASSUME NEW d \in Docs, NEW w \in Workers, Kept(d), Alike(w) \/ ~Writes(w)'
      PROVE  FrameOf(w, d)'
  BY <1>2 DEF FrameOK, FrameOf, Unsplit, Recorded, Writes, Doing, DocOf, ModeOf, SubStatus
<1>3. ASSUME NEW d \in Docs, NEW v \in Workers, NEW w \in Workers, split[d] => split'[d],
             Alike(v) \/ ~Writes(v)', Alike(w) \/ ~Writes(w)', BothWrite(v, w, d)'
      PROVE  split'[d]
  BY <1>3 DEF FrameOK, BothWrite, Writes, DocOf
<1>4. ASSUME \A d \in Docs : Kept(d), \A w \in Workers : Alike(w) \/ ~Writes(w)'
      PROVE  FrameOK'
  BY <1>1, <1>2, <1>3, <1>4 DEF FrameOK
<1>5. CASE RequestDoes
  <2>1. work' = work BY <1>5 DEF RequestDoes, RequestVars
  <2>2. CASE Stays \/ Creates \/ \E t \in Messages : Sends(t)
    BY <1>4, <2>1, <2>2 DEF Stays, Creates, Sends
  <2>3. CASE Marks
    <3>1. /\ split'[req.doc] /\ req.doc \in Docs
          /\ \A e \in Docs \ {req.doc} : docs'[e] = docs[e] /\ split'[e] = split[e]
      BY <2>3, Marked
    <3>2. \A d \in Docs : Kept(d) \/ split'[d] BY <3>1
    <3>3. \A d \in Docs : split[d] => split'[d] BY <3>1
    <3>4. \A d \in Docs : RecordOK(d)' BY <1>1, <3>2 DEF RecordOK, Unsplit
    <3>5. \A w \in Workers, d \in Docs : FrameOf(w, d)'
      BY <1>2, <2>1, <3>2 DEF FrameOf, Unsplit
    <3>6. QED BY <1>3, <2>1, <3>3, <3>4, <3>5 DEF FrameOK
  <2>4. ASSUME NEW d \in Docs, Adds(d) PROVE FrameOK'
    <3>1. /\ docs'[d] = NewDoc /\ split' = split
          /\ \A e \in Docs \ {d} : docs'[e] = docs[e]
      BY <2>4 DEF Adds, addDocument, TypeOK
    <3>2. RecordOK(d)' BY <3>1 DEF RecordOK, NewDoc, NoDoc, computeOverallStatus
    <3>3. \A w \in Workers : FrameOf(w, d)'
      <4>1. \A w \in Workers : Writes(w)' => DocOf(w)' # d
        BY <2>1, <2>4, AddedFirst DEF Writes, Busy, Doing, DocOf
      <4>2. QED BY <4>1 DEF FrameOf
    <3>4. \A e \in Docs \ {d} : RecordOK(e)' BY <1>1, <3>1
    <3>5. \A w \in Workers, e \in Docs \ {d} : FrameOf(w, e)' BY <1>2, <2>1, <3>1
    <3>6. \A v, w \in Workers, e \in Docs : BothWrite(v, w, e)' => split'[e]
      BY <1>3, <2>1, <3>1
    <3>7. QED BY <3>2, <3>3, <3>4, <3>5, <3>6 DEF FrameOK
  <2>5. QED BY <1>5, <2>2, <2>3, <2>4 DEF RequestDoes
<1>6. CASE Deletes
  <2>1. \A d \in Docs : ~Recorded(d)' BY <1>6 DEF Deletes, Recorded
  <2>2. work' = work /\ split' = split BY <1>6 DEF Deletes
  <2>3. \A v, w \in Workers, e \in Docs : BothWrite(v, w, e)' => split'[e] BY <1>3, <2>2
  <2>4. QED BY <2>1, <2>3 DEF FrameOK, RecordOK, FrameOf, Unsplit
<1>7. ASSUME NEW t \in Messages, NEW ok \in BOOLEAN, Answers(t, ok) PROVE FrameOK'
  BY <1>4, <1>7 DEF Answers
<1>8. ASSUME NEW w \in Workers, HandlerDoes(w) PROVE FrameOK'
  <2>0. \A v \in Workers \ {w} : Alike(v)
    BY <1>8 DEF HandlerDoes, Takes, Saves, Computes, SavesSub, SavesStatus, Finishes, Abandons,
                Goes, Same
  <2>1. CASE Saves(w) \/ Finishes(w) \/ Abandons(w) \/ \E m \in results : Takes(w, m)
    <3>1. ~Writes(w)' /\ docs' = docs /\ split' = split
      BY <2>1 DEF Takes, Saves, Finishes, Abandons, Goes, Writes, IdleWorker
    <3>2. QED BY <1>4, <2>0, <3>1
  <2>2. ASSUME Computes(w) PROVE FrameOK'
    <3> PICK d, mode : d = DocOf(w) /\ mode = ModeOf(w) OBVIOUS
    <3>1. /\ d \in Docs /\ mode \in Modes
      BY <2>2, DocOfWork DEF Computes, Busy, Doing
    <3>2. /\ docs' = docs /\ Goes(w, "sub")
          /\ split' = [split EXCEPT ![d] =
                @ \/ \E v \in Workers : work[v].step \in {"sub", "status"} /\ DocOf(v) = d]
          /\ work'[w].overall = computeOverallStatus(StatusOf(work[w].msg),
                 IF SubStatus(d, Other(mode)) = "none" THEN "PROCESSING"
                 ELSE SubStatus(d, Other(mode)))
      BY <2>2 DEF Computes
    <3>3. /\ \A e \in Docs : Kept(e)
          /\ \A v \in Workers : Writes(v) /\ DocOf(v) = d => split'[d]
      BY <3>1, <3>2 DEF Writes, TypeOK
    <3>4. /\ Doing(w, "sub")' /\ DocOf(w)' = d /\ ModeOf(w)' = mode
          /\ StatusOf(work[w].msg)' = StatusOf(work[w].msg)
      BY <3>2 DEF Goes, Doing, DocOf, ModeOf, StatusOf
    <3>5. FrameOf(w, d)'
      <4>1. Recorded(d) => SubStatus(d, Other(mode)) # "none"
        BY <3>1 DEF DocOK, SubStatus, Known
      <4>2. Recorded(d)' = Recorded(d) /\ SubStatus(d, Other(mode))' = SubStatus(d, Other(mode))
        BY <3>2 DEF Recorded, SubStatus
      <4>3. QED BY <3>2, <3>4, <4>1, <4>2 DEF FrameOf, Unsplit, Doing
    <3>6. \A e \in Docs : RecordOK(e)' BY <1>1, <3>3
    <3>7. \A v \in Workers, e \in Docs : FrameOf(v, e)'
      <4>1. \A e \in Docs \ {d} : FrameOf(w, e)' BY <3>4 DEF FrameOf
      <4>2. \A v \in Workers \ {w}, e \in Docs : FrameOf(v, e)' BY <1>2, <2>0, <3>3
      <4>3. QED BY <3>5, <4>1, <4>2
    <3>8. \A u, v \in Workers, e \in Docs : BothWrite(u, v, e)' => split'[e]
      <4>1. ASSUME NEW u \in Workers, NEW v \in Workers, NEW e \in Docs, BothWrite(u, v, e)'
            PROVE  split'[e]
        <5>1. CASE u # w /\ v # w BY <1>3, <2>0, <3>3, <4>1, <5>1
        <5>2. CASE u = w \/ v = w
          <6>1. e = d BY <3>4, <4>1, <5>2 DEF BothWrite
          <6>2. PICK x \in {u, v} : x # w BY <4>1 DEF BothWrite
          <6>3. Writes(x) /\ DocOf(x) = d
            BY <2>0, <4>1, <6>1, <6>2 DEF BothWrite, Writes, DocOf
          <6>4. QED BY <3>3, <6>1, <6>3
        <5>3. QED BY <5>1, <5>2
      <4>2. QED BY <4>1
    <3>9. QED BY <3>6, <3>7, <3>8 DEF FrameOK
  <2>3. ASSUME NEW d, d = DocOf(w), d \in Docs, Writes(w), DocOf(w)' = d,
               \A e \in Docs \ {d} : docs'[e] = docs[e], split' = split,
               RecordOK(d)', Unsplit(d)' => Unsplit(d), FrameOf(w, d)'
        PROVE  FrameOK'
    <3>1. \A e \in Docs \ {d} : Kept(e) BY <2>3
    <3>2. \A e \in Docs : RecordOK(e)' BY <1>1, <2>3, <3>1
    <3>3. \A v \in Workers, e \in Docs : FrameOf(v, e)'
      <4>1. \A e \in Docs \ {d} : FrameOf(w, e)' BY <2>3 DEF FrameOf
      <4>2. \A v \in Workers \ {w}, e \in Docs \ {d} : FrameOf(v, e)' BY <1>2, <2>0, <3>1
      <4>3. \A v \in Workers \ {w} : FrameOf(v, d)'
        <5>1. \A v \in Workers \ {w} : Writes(v) /\ DocOf(v) = d => split[d]
          BY <2>3 DEF FrameOK, BothWrite
        <5>2. QED BY <2>0, <2>3, <5>1 DEF FrameOf, Unsplit, Writes, DocOf
      <4>4. QED BY <2>3, <4>1, <4>2, <4>3
    <3>4. \A u, v \in Workers, e \in Docs : BothWrite(u, v, e)' => split'[e]
      <4>1. \A v \in Workers : Writes(v)' => Writes(v) /\ DocOf(v)' = DocOf(v)
        BY <2>0, <2>3 DEF Writes, DocOf
      <4>2. QED BY <2>3, <4>1 DEF FrameOK, BothWrite
    <3>5. QED BY <3>2, <3>3, <3>4 DEF FrameOK
  <2>4. ASSUME SavesSub(w) PROVE FrameOK'
    <3> PICK d, mode : d = DocOf(w) /\ mode = ModeOf(w) OBVIOUS
    <3>1. /\ d \in Docs /\ mode \in Modes /\ Recorded(d)
          /\ docs'[d].overall = work[w].overall
          /\ SubStatus(d, mode)' = StatusOf(work[w].msg)
          /\ SubStatus(d, Other(mode))' = SubStatus(d, Other(mode))
          /\ \A e \in Docs \ {d} : docs'[e] = docs[e]
      BY <2>4, SubSaved
    <3>2. /\ Doing(w, "sub") /\ work'[w].overall = work[w].overall /\ split' = split
          /\ work'[w].msg = work[w].msg /\ ~Doing(w, "sub")'
          /\ DocOf(w)' = d /\ Writes(w)
      BY <2>4 DEF SavesSub, Goes, Doing, DocOf, Writes
    <3>3. Unsplit(d)' => Unsplit(d) BY <3>1, <3>2 DEF Unsplit
    <3>4. RecordOK(d)'
      <4>1. Unsplit(d) => work[w].overall =
              computeOverallStatus(SubStatus(d, mode)', SubStatus(d, Other(mode))')
        BY <3>1, <3>2 DEF FrameOK, FrameOf
      <4>2. QED
        BY <3>1, <3>3, <4>1, StatusesSwap DEF RecordOK, SubStatus, Other, Modes
    <3>5. FrameOf(w, d)' BY <3>1, <3>2 DEF FrameOf
    <3>6. QED BY <2>3, <3>1, <3>2, <3>3, <3>4, <3>5
  <2>5. ASSUME SavesStatus(w) PROVE FrameOK'
    <3> PICK d : d = DocOf(w) OBVIOUS
    <3>1. /\ d \in Docs /\ Recorded(d) /\ docs'[d].overall = work[w].overall
          /\ docs'[d].block = docs[d].block /\ docs'[d].nonblock = docs[d].nonblock
          /\ \A e \in Docs \ {d} : docs'[e] = docs[e]
      BY <2>5, StatusOfWork
    <3>2. /\ Doing(w, "status") /\ split' = split /\ ~Writes(w)'
          /\ DocOf(w)' = d /\ Writes(w)
      BY <2>5 DEF SavesStatus, Goes, Doing, DocOf, Writes
    <3>3. Unsplit(d)' => Unsplit(d) BY <3>1, <3>2 DEF Unsplit
    <3>4. RecordOK(d)'
      <4>1. Unsplit(d) => work[w].overall = docs[d].overall
        BY <3>1, <3>2 DEF FrameOK, FrameOf
      <4>2. QED BY <3>1, <3>3, <4>1 DEF FrameOK, RecordOK
    <3>5. FrameOf(w, d)' BY <3>2 DEF FrameOf
    <3>6. QED BY <2>3, <3>1, <3>2, <3>3, <3>4, <3>5
  <2>6. QED BY <1>8, <2>1, <2>2, <2>4, <2>5 DEF HandlerDoes
<1>9. QED BY <1>5, <1>6, <1>7, <1>8, Effects

\* Only the graphs of a workspace that is deleted are ever removed.
LEMMA SavedStays ==
    ASSUME TypeOK, WorkOK, [Next]_vars
    PROVE  /\ \A d : <<"view", d>> \in saved => <<"view", d>> \in saved'
           /\ \A d : <<"text", d>> \in saved => <<"text", d>> \in saved'
           /\ saved \subseteq saved' \/ Deletes
<1>1. CASE Deletes BY <1>1 DEF Deletes
<1>2. ASSUME NEW w \in Workers, HandlerDoes(w) PROVE saved \subseteq saved'
  BY <1>2 DEF HandlerDoes, Takes, Saves, savePayload, Computes, SavesSub, SavesStatus, Finishes,
              Abandons
<1>3. QED BY <1>1, <1>2, Effects DEF RequestDoes, RequestVars, Answers

\* A step changes the work of one handler at most.
LEMMA OneWorks ==
    ASSUME TypeOK, WorkOK, [Next]_vars
    PROVE  work' = work \/ \E w \in Workers : HandlerDoes(w) /\ Same(w)
<1>1. ASSUME NEW w \in Workers, HandlerDoes(w) PROVE Same(w)
  BY <1>1 DEF HandlerDoes, Takes, Saves, Computes, SavesSub, SavesStatus, Finishes, Abandons,
              Goes
<1>2. QED BY <1>1, Effects DEF RequestDoes, RequestVars, Deletes, Answers

\* A view is named after its texts are in.
LEMMA ViewStep == TypeOK /\ WorkOK /\ QueueOK /\ ViewOK /\ [Next]_vars => ViewOK'
<1> SUFFICES ASSUME TypeOK, WorkOK, QueueOK, ViewOK, [Next]_vars PROVE ViewOK'
  OBVIOUS
<1> DEFINE Both(d) == <<"view", d>> \in saved /\ <<"text", d>> \in saved
           Shown(d) == docs[d].view => Both(d)
           Brought(w) == Busy(w) /\ ModeOf(w) = "block" /\ work[w].payload =>
               /\ ~Doing(w, "save") => <<"view", DocOf(w)>> \in saved
               /\ work[w].step \notin {"save", "text"} => <<"text", DocOf(w)>> \in saved
<1>1. /\ \A d : <<"view", d>> \in saved => <<"view", d>> \in saved'
      /\ \A d : <<"text", d>> \in saved => <<"text", d>> \in saved'
  BY SavedStays
<1>2. \A d \in Docs : docs'[d].view \in {docs[d].view, FALSE} => Shown(d)'
  BY <1>1 DEF ViewOK
<1>3. \A w \in Workers : work'[w] = work[w] => Brought(w)'
  BY <1>1 DEF ViewOK, Busy, Doing, ModeOf, DocOf
<1>4. \A d \in Docs : Shown(d)'
  <2>1. CASE docs' = docs BY <1>2, <2>1
  <2>2. CASE Marks
    <3>1. \A d \in Docs : docs'[d].view = docs[d].view BY <2>2, Marked
    <3>2. QED BY <1>2, <3>1
  <2>3. ASSUME NEW d \in Docs, Adds(d) PROVE \A e \in Docs : Shown(e)'
    <3>1. docs'[d] = NewDoc /\ \A e \in Docs \ {d} : docs'[e] = docs[e]
      BY <2>3 DEF Adds, addDocument, TypeOK
    <3>2. docs'[d].view = FALSE BY <3>1 DEF NewDoc, NoDoc
    <3>3. QED BY <1>2, <3>1, <3>2
  <2>4. CASE Deletes
    <3>1. \A d \in Docs : docs'[d].view = FALSE BY <2>4 DEF Deletes, NoDoc
    <3>2. QED BY <1>2, <3>1
  <2>5. ASSUME NEW w \in Workers, SavesSub(w) PROVE \A e \in Docs : Shown(e)'
    <3> PICK d : d = DocOf(w) OBVIOUS
    <3>1. /\ d \in Docs
          /\ docs'[d].view = (docs[d].view \/ (ModeOf(w) = "block" /\ work[w].payload))
          /\ \A e \in Docs \ {d} : docs'[e] = docs[e]
      BY <2>5, SubSaved
    <3>2. ModeOf(w) = "block" /\ work[w].payload => Both(d)
      BY <2>5 DEF ViewOK, SavesSub, Busy, Doing
    <3>3. Shown(d)' BY <1>1, <3>1, <3>2 DEF ViewOK
    <3>4. QED BY <1>2, <3>1, <3>3
  <2>6. ASSUME NEW w \in Workers, SavesStatus(w) PROVE \A e \in Docs : Shown(e)'
    <3>1. \A e \in Docs : docs'[e].view = docs[e].view BY <2>6, StatusOfWork
    <3>2. QED BY <1>2, <3>1
  <2>7. QED
    BY <2>1, <2>2, <2>3, <2>4, <2>5, <2>6, Effects
       DEF RequestDoes, Stays, Creates, Sends, Answers, HandlerDoes, Takes, Saves, Computes,
           Finishes, Abandons
<1>5. \A w \in Workers : Brought(w)'
  <2>1. CASE work' = work BY <1>3, <2>1
  <2>2. ASSUME NEW w \in Workers, HandlerDoes(w), Same(w) PROVE \A v \in Workers : Brought(v)'
    <3>1. \A v \in Workers \ {w} : Brought(v)' BY <1>3, <2>2 DEF Same
    <3>2. Brought(w) BY DEF ViewOK
    <3>3. Brought(w)'
      <4>1. ASSUME NEW m \in results, Takes(w, m) PROVE Brought(w)'
        BY <4>1 DEF Takes, Doing
      <4>2. CASE Saves(w)
        BY <1>1, <3>2, <4>2 DEF Saves, Goes, savePayload, Busy, Doing, ModeOf, DocOf
      <4>3. CASE Computes(w) \/ SavesSub(w) \/ SavesStatus(w)
        BY <1>1, <3>2, <4>3
           DEF Computes, SavesSub, SavesStatus, Goes, Busy, Doing, ModeOf, DocOf
      <4>4. CASE Finishes(w) \/ Abandons(w)
        BY <4>4 DEF Finishes, Abandons, IdleWorker, Busy, Doing
      <4>5. QED BY <2>2, <4>1, <4>2, <4>3, <4>4 DEF HandlerDoes
    <3>4. QED BY <3>1, <3>3
  <2>3. QED BY <2>1, <2>2, OneWorks
<1>6. QED BY <1>4, <1>5 DEF ViewOK

\* A view's status in the record changes only by a result of that view.
LEMMA SubStatusStays ==
    ASSUME TypeOK, WorkOK, [Next]_vars, NEW d \in Docs, NEW mode \in Modes, Recorded(d)',
           ~Adds(d), \A w \in Workers : SavesSub(w) => DocOf(w) # d \/ ModeOf(w) # mode
    PROVE  Recorded(d) /\ SubStatus(d, mode)' = SubStatus(d, mode)
<1>1. CASE docs'[d] = docs[d] BY <1>1 DEF Recorded, SubStatus
<1>2. CASE Marks
  <2>1. /\ docs'[d] = docs[d] \/ Recorded(d)
        /\ docs'[d].block = docs[d].block /\ docs'[d].nonblock = docs[d].nonblock
    BY <1>2, Marked DEF Marks, updateDocumentStatus, Recorded
  <2>2. QED BY <1>1, <2>1 DEF SubStatus
<1>3. ASSUME NEW e \in Docs, Adds(e) PROVE docs'[d] = docs[d]
  BY <1>3 DEF Adds, addDocument, TypeOK
<1>4. CASE Deletes BY <1>4 DEF Deletes, Recorded
<1>5. ASSUME NEW w \in Workers, SavesSub(w)
      PROVE  Recorded(d) /\ SubStatus(d, mode)' = SubStatus(d, mode)
  <2> PICK e, m : e = DocOf(w) /\ m = ModeOf(w) OBVIOUS
  <2>1. /\ e \in Docs /\ m \in Modes /\ Recorded(e)
        /\ SubStatus(e, Other(m))' = SubStatus(e, Other(m))
        /\ \A f \in Docs \ {e} : docs'[f] = docs[f]
    BY <1>5, SubSaved
  <2>2. CASE e # d BY <1>1, <2>1, <2>2
  <2>3. CASE e = d
    <3>1. mode = Other(m) BY <1>5, <2>1, <2>3 DEF Other, Modes
    <3>2. QED BY <2>1, <2>3, <3>1
  <2>4. QED BY <2>2, <2>3
<1>6. ASSUME NEW w \in Workers, SavesStatus(w)
      PROVE  Recorded(d) /\ SubStatus(d, mode)' = SubStatus(d, mode)
  <2> PICK e : e = DocOf(w) OBVIOUS
  <2>1. /\ e \in Docs /\ Recorded(e)
        /\ docs'[e].block = docs[e].block /\ docs'[e].nonblock = docs[e].nonblock
        /\ \A f \in Docs \ {e} : docs'[f] = docs[f]
    BY <1>6, StatusOfWork
  <2>2. QED BY <1>1, <2>1 DEF SubStatus
<1>7. QED
  BY <1>1, <1>2, <1>3, <1>4, <1>5, <1>6, Effects
     DEF RequestDoes, Stays, Creates, Sends, Answers, HandlerDoes, Takes, Saves, Computes,
         Finishes, Abandons

\* What is heard of a message stays in the record.
LEMMA HeardStep ==
    TypeOK /\ WorkOK /\ QueueOK /\ HeardOK /\ [Next]_vars => HeardOK'
<1> SUFFICES ASSUME TypeOK, WorkOK, QueueOK, HeardOK, [Next]_vars PROVE HeardOK'
  OBVIOUS
<1> DEFINE Gone(w) == Busy(w) /\ (work[w].step \in {"status", "count"} \/ work[w].msg \notin results)
           Heard(w, d, mode) == Recorded(d) => SubStatus(d, mode) = StatusOf(work[w].msg)
<1>1. ASSUME NEW w \in Workers, Gone(w)', NEW d, d = DocOf(w)', NEW mode, mode = ModeOf(w)',
             Recorded(d)'
      PROVE  SubStatus(d, mode)' = StatusOf(work[w].msg)'
  <2>1. d \in Docs /\ mode \in Modes
    <3>1. WorkOK' BY WorkStep
    <3>2. work'[w].msg \in Results BY <1>1, <3>1 DEF WorkOK
    <3>3. QED BY <1>1, <3>2, TaskShape DEF Results, DocOf, ModeOf
  <2>2. CASE Gone(w) /\ work'[w].msg = work[w].msg
    <3>1. d = DocOf(w) /\ mode = ModeOf(w) /\ StatusOf(work[w].msg)' = StatusOf(work[w].msg)
      BY <1>1, <2>2 DEF DocOf, ModeOf, StatusOf
    <3>2. ~Adds(d) BY <2>1, <2>2, <3>1, AddedFirst
    <3>3. ASSUME NEW v \in Workers, SavesSub(v), DocOf(v) = d, ModeOf(v) = mode
          PROVE  SubStatus(d, mode)' = StatusOf(work[w].msg)'
      <4>1. SubStatus(d, mode)' = StatusOf(work[v].msg) BY <3>3, SubSaved
      <4>2. Busy(v) BY <3>3 DEF SavesSub, Busy, Doing
      <4>3. /\ work[v].msg \in Results /\ work[v].msg.task = Task(d, mode)
            /\ work[w].msg \in Results /\ work[w].msg.task = Task(d, mode)
        BY <2>2, <3>1, <3>3, <4>2, DocOfWork
      <4>4. work[v].msg = work[w].msg BY <2>2, <4>2, <4>3 DEF QueueOK, Around
      <4>5. QED BY <3>1, <4>1, <4>4
    <3>4. CASE \A v \in Workers : SavesSub(v) => DocOf(v) # d \/ ModeOf(v) # mode
      <4>1. Recorded(d) /\ SubStatus(d, mode)' = SubStatus(d, mode)
        BY <1>1, <2>1, <3>2, <3>4, SubStatusStays
      <4>2. QED BY <2>2, <3>1, <4>1 DEF HeardOK
    <3>5. QED BY <3>3, <3>4
  <2>3. CASE work'[w] = work[w] /\ ~Gone(w)
    <3>1. Busy(w) /\ work[w].msg \in results /\ work[w].msg \notin results'
      BY <1>1, <2>3 DEF Busy, Doing
    <3>2. PICK v \in Workers : Finishes(v) /\ work[v].msg = work[w].msg
      BY <3>1, Effects
         DEF RequestDoes, RequestVars, Deletes, Answers, HandlerDoes, Takes, Saves, Computes,
             SavesSub, SavesStatus, Finishes, Abandons
    <3>3. Busy(v) /\ work[v].step = "count" /\ docs' = docs BY <3>2 DEF Finishes, Busy, Doing
    <3>4. /\ d = DocOf(v) /\ mode = ModeOf(v)
          /\ StatusOf(work[w].msg)' = StatusOf(work[v].msg)
      BY <1>1, <2>3, <3>2 DEF DocOf, ModeOf, StatusOf
    <3>5. Recorded(d) /\ SubStatus(d, mode)' = SubStatus(d, mode)
      BY <1>1, <3>3 DEF Recorded, SubStatus
    <3>6. QED BY <3>3, <3>4, <3>5 DEF HeardOK
  <2>4. CASE HandlerDoes(w)
    <3>1. ~ \E m \in results : Takes(w, m)
      BY <1>1 DEF Takes, Busy, Doing
    <3>2. ~Finishes(w) /\ ~Abandons(w)
      BY <1>1 DEF Finishes, Abandons, IdleWorker, Busy, Doing
    <3>3. work'[w].msg = work[w].msg
      BY <2>4, <3>1, <3>2 DEF HandlerDoes, Saves, Computes, SavesSub, SavesStatus, Goes
    <3>4. CASE SavesSub(w)
      <4>1. d = DocOf(w) /\ mode = ModeOf(w) /\ StatusOf(work[w].msg)' = StatusOf(work[w].msg)
        BY <1>1, <3>3 DEF DocOf, ModeOf, StatusOf
      <4>2. QED BY <3>4, <4>1, SubSaved
    <3>5. CASE Saves(w) \/ Computes(w) \/ SavesStatus(w)
      <4>1. Gone(w)
        BY <1>1, <3>3, <3>5 DEF Saves, Computes, SavesStatus, Goes, Busy, Doing
      <4>2. QED BY <2>2, <3>3, <4>1
    <3>6. QED BY <2>4, <3>1, <3>2, <3>4, <3>5 DEF HandlerDoes
  <2>5. QED BY <2>2, <2>3, <2>4, OneWorks DEF Same
<1>2. QED BY <1>1 DEF HeardOK

\* A record keeps its graph; its status is what a handler writes, or FAILED.
LEMMA RecordStays ==
    ASSUME TypeOK, WorkOK, [Next]_vars, NEW d \in Docs, Recorded(d)', ~Adds(d)
    PROVE  /\ Recorded(d) /\ (docs[d].graph => docs'[d].graph)
           /\ \/ docs'[d].overall \in {docs[d].overall, "FAILED"}
              \/ \E w \in Workers : /\ SavesSub(w) \/ SavesStatus(w)
                                    /\ DocOf(w) = d /\ docs'[d].overall = work[w].overall
<1> DEFINE Goal == /\ Recorded(d) /\ (docs[d].graph => docs'[d].graph)
                   /\ \/ docs'[d].overall \in {docs[d].overall, "FAILED"}
                      \/ \E w \in Workers : /\ SavesSub(w) \/ SavesStatus(w)
                                            /\ DocOf(w) = d /\ docs'[d].overall = work[w].overall
<1>1. docs'[d] = docs[d] => Goal BY DEF Recorded
<1>2. CASE Marks
  <2>1. /\ docs'[d] = docs[d] \/ Recorded(d)
        /\ docs'[d].overall \in {docs[d].overall, "FAILED"} /\ docs'[d].graph = docs[d].graph
    BY <1>2, Marked DEF Marks, updateDocumentStatus, Recorded
  <2>2. QED BY <1>1, <2>1
<1>3. ASSUME NEW e \in Docs, Adds(e) PROVE docs'[d] = docs[d]
  BY <1>3 DEF Adds, addDocument, TypeOK
<1>4. CASE Deletes BY <1>4 DEF Deletes, Recorded
<1>5. ASSUME NEW w \in Workers, SavesSub(w) PROVE Goal
  <2> PICK e, m : e = DocOf(w) /\ m = ModeOf(w) OBVIOUS
  <2>1. /\ e \in Docs /\ Recorded(e) /\ docs'[e].graph = docs[e].graph
        /\ docs'[e].overall = work[w].overall
        /\ \A f \in Docs \ {e} : docs'[f] = docs[f]
    BY <1>5, SubSaved
  <2>2. QED BY <1>1, <1>5, <2>1
<1>6. ASSUME NEW w \in Workers, SavesStatus(w) PROVE Goal
  <2> PICK e : e = DocOf(w) OBVIOUS
  <2>1. /\ e \in Docs /\ Recorded(e) /\ (docs[e].graph => docs'[e].graph)
        /\ docs'[e].overall = work[w].overall
        /\ \A f \in Docs \ {e} : docs'[f] = docs[f]
    BY <1>6, StatusOfWork
  <2>2. QED BY <1>1, <1>6, <2>1
<1>7. QED
  BY <1>1, <1>2, <1>3, <1>4, <1>5, <1>6, Effects
     DEF RequestDoes, Stays, Creates, Sends, Answers, HandlerDoes, Takes, Saves, Computes,
         Finishes, Abandons

LEMMA SafeStays ==
    ASSUME TypeOK, WorkOK, [Next]_vars, NEW d \in Docs, GraphSafe(d), ~Adds(d)
    PROVE  GraphSafe(d)'
<1>1. unread \subseteq unread'
  BY Effects DEF RequestDoes, RequestVars, Deletes, Answers, HandlerDoes, Takes, Saves, Computes,
                 SavesSub, SavesStatus, Finishes, Abandons
<1>2. SUFFICES ASSUME Recorded(d)' PROVE GraphSafe(d)'
  BY DEF GraphSafe
<1>3. Recorded(d) /\ (docs[d].graph => docs'[d].graph) BY <1>2, RecordStays
<1>4. ~Deletes BY <1>2 DEF Deletes, Recorded
<1>5. saved \subseteq saved' BY <1>4, SavedStays
<1>6. QED BY <1>1, <1>3, <1>5 DEF GraphSafe

\* A message leaves the queue only when its handler has written everything.
LEMMA ComesStays ==
    ASSUME TypeOK, WorkOK, GraphOK, [Next]_vars, NEW d \in Docs, GraphComes(d), ~Adds(d)
    PROVE  GraphComes(d)'
<1>1. CASE GraphSafe(d) BY <1>1, SafeStays DEF GraphComes
<1>2. CASE OkGraph(d) \in results /\ OkGraph(d) \notin results'
  <2>1. PICK v \in Workers : Finishes(v) /\ work[v].msg = OkGraph(d)
    BY <1>2, Effects
       DEF RequestDoes, RequestVars, Deletes, Answers, HandlerDoes, Takes, Saves, Computes,
           SavesSub, SavesStatus, Finishes, Abandons
  <2>2. DocOf(v) = d BY <2>1 DEF DocOf, OkGraph, Task
  <2>3. GraphSafe(d) BY <2>1, <2>2 DEF GraphOK, Finishes, Busy, Doing
  <2>4. QED BY <1>1, <2>3
<1>3. QED BY <1>1, <1>2 DEF GraphComes, OkGraph

\* A COMPLETED document has its graph, or it comes.
LEMMA GraphStep ==
    TypeOK /\ WorkOK /\ QueueOK /\ GraphOK /\ [Next]_vars => GraphOK'
<1> SUFFICES ASSUME TypeOK, WorkOK, QueueOK, GraphOK, [Next]_vars PROVE GraphOK'
  OBVIOUS
<1>1. ASSUME NEW w \in Workers, NEW d, Busy(w), d = DocOf(w)
      PROVE  /\ d \in Docs /\ ~Adds(d) /\ work[w].msg \in Results
             /\ ModeOf(w) = "nonblock" /\ work[w].msg.ok => work[w].msg = OkGraph(d)
             /\ work[w].msg = OkGraph(d) => ModeOf(w) = "nonblock" /\ work[w].msg.ok
  <2>1. /\ d \in Docs /\ work[w].msg \in Results
        /\ work[w].msg.task = Task(d, ModeOf(w))
    BY <1>1, DocOfWork
  <2>2. ~Adds(d) BY <1>1, <2>1, AddedFirst
  <2>3. work[w].msg = OkGraph(d) => ModeOf(w) = "nonblock" /\ work[w].msg.ok
    BY DEF OkGraph, ModeOf, Task
  <2>4. ModeOf(w) = "nonblock" /\ work[w].msg.ok => work[w].msg = OkGraph(d)
    BY <2>1 DEF OkGraph, Results
  <2>5. QED BY <2>1, <2>2, <2>3, <2>4
<1>2. ASSUME NEW d \in Docs, "COMPLETED" \in {docs'[d].overall, docs'[d].nonblock}
      PROVE  GraphComes(d)'
  <2>1. CASE ~Recorded(d)' BY <2>1 DEF GraphComes, GraphSafe
  <2>2. CASE Recorded(d)' /\ ~Adds(d)
    <3>1. GraphComes(d)
      <4>1. CASE docs'[d].nonblock = "COMPLETED" /\ docs[d].nonblock # "COMPLETED"
        <5>1. SubStatus(d, "nonblock")' # SubStatus(d, "nonblock") BY <4>1 DEF SubStatus
        <5>2. PICK w \in Workers : SavesSub(w) /\ DocOf(w) = d /\ ModeOf(w) = "nonblock"
          BY <2>2, <5>1, SubStatusStays DEF Modes
        <5>3. SubStatus(d, "nonblock")' = StatusOf(work[w].msg) BY <5>2, SubSaved
        <5>4. work[w].msg.ok BY <4>1, <5>3 DEF SubStatus, StatusOf
        <5>5. Busy(w) BY <5>2 DEF SavesSub, Busy, Doing
        <5>6. QED BY <1>1, <5>2, <5>4, <5>5 DEF GraphOK
      <4>2. CASE docs'[d].overall = "COMPLETED" /\ docs[d].overall # "COMPLETED"
        <5>1. PICK w \in Workers : /\ SavesSub(w) \/ SavesStatus(w)
                                   /\ DocOf(w) = d /\ docs'[d].overall = work[w].overall
          BY <2>2, <4>2, RecordStays
        <5>2. Busy(w) /\ work[w].step \in {"sub", "status"}
          BY <5>1 DEF SavesSub, SavesStatus, Busy, Doing
        <5>3. QED BY <4>2, <5>1, <5>2 DEF GraphOK
      <4>3. QED BY <1>2, <4>1, <4>2 DEF GraphOK
    <3>2. QED BY <2>2, <3>1, ComesStays
  <2>3. CASE Adds(d)
    <3>1. docs'[d] = NewDoc BY <2>3 DEF Adds, addDocument, TypeOK
    <3>2. QED BY <1>2, <3>1 DEF NewDoc, NoDoc
  <2>4. QED BY <2>1, <2>2, <2>3
<1>3. ASSUME NEW w \in Workers, NEW d, Busy(w)', d = DocOf(w)'
      PROVE  /\ work'[w].msg = OkGraph(d) => GraphComes(d)'
             /\ work'[w].msg = OkGraph(d) /\ Doing(w, "count")' => GraphSafe(d)'
             /\ work'[w].step \in {"sub", "status"} /\ work'[w].overall = "COMPLETED"
                   => GraphComes(d)'
             /\ work'[w].msg = OkGraph(d) /\ work'[w].payload /\ ~Doing(w, "save")'
                   => <<"graph", d>> \in saved' \/ ~Recorded(d)'
             /\ work'[w].msg = OkGraph(d) /\ ~work'[w].payload => d \in unread'
  <2> DEFINE Goal ==
        /\ work'[w].msg = OkGraph(d) => GraphComes(d)'
        /\ work'[w].msg = OkGraph(d) /\ Doing(w, "count")' => GraphSafe(d)'
        /\ work'[w].step \in {"sub", "status"} /\ work'[w].overall = "COMPLETED"
              => GraphComes(d)'
        /\ work'[w].msg = OkGraph(d) /\ work'[w].payload /\ ~Doing(w, "save")'
              => <<"graph", d>> \in saved' \/ ~Recorded(d)'
        /\ work'[w].msg = OkGraph(d) /\ ~work'[w].payload => d \in unread'
  <2>1. ASSUME NEW m \in results, Takes(w, m) PROVE Goal
    <3>1. /\ results' = results /\ work'[w].msg = m
          /\ work'[w].step \in {"save", "compute"}
          /\ work'[w].payload => work'[w].step = "save"
      BY <2>1 DEF Takes
    <3>2. m = OkGraph(d) => GraphComes(d)' BY <3>1 DEF GraphComes, OkGraph
    <3>3. m = OkGraph(d) /\ ~work'[w].payload => d \in unread'
      BY <2>1, <3>1 DEF Takes, OkGraph, Task
    <3>4. QED BY <3>1, <3>2, <3>3 DEF Doing
  <2>2. CASE Finishes(w) \/ Abandons(w)
    BY <1>3, <2>2 DEF Finishes, Abandons, IdleWorker, Busy, Doing
  <2>3. CASE /\ work'[w].msg = work[w].msg /\ work'[w].payload = work[w].payload /\ Busy(w)
    <3>1. d = DocOf(w) BY <1>3, <2>3 DEF DocOf
    <3>2. d \in Docs /\ ~Adds(d) BY <1>1, <2>3, <3>1
    <3>3. unread \subseteq unread'
      BY Effects DEF RequestDoes, RequestVars, Deletes, Answers, HandlerDoes, Takes, Saves,
                     Computes, SavesSub, SavesStatus, Finishes, Abandons
    <3>4. /\ work[w].msg = OkGraph(d) => GraphComes(d)'
          /\ work[w].msg = OkGraph(d) /\ ~work[w].payload => d \in unread'
      BY <2>3, <3>1, <3>2, <3>3, ComesStays DEF GraphOK
    <3>5. work[w].msg = OkGraph(d) /\ work[w].payload /\ ~Doing(w, "save")
             => <<"graph", d>> \in saved' \/ ~Recorded(d)'
      <4>1. CASE Deletes BY <3>2, <4>1 DEF Deletes, Recorded
      <4>2. CASE ~Deletes
        <5>1. saved \subseteq saved' BY <4>2, SavedStays
        <5>2. Recorded(d)' => Recorded(d) BY <3>2, RecordStays
        <5>3. QED BY <2>3, <3>1, <5>1, <5>2 DEF GraphOK
      <4>3. QED BY <4>1, <4>2
    <3>6. CASE work'[w] = work[w]
      BY <2>3, <3>1, <3>2, <3>4, <3>5, <3>6, SafeStays, ComesStays DEF GraphOK, Doing
    <3>7. CASE Saves(w)
      <4>1. work'[w].step \in {"text", "compute"} BY <3>7 DEF Saves, Goes
      <4>2. work[w].msg = OkGraph(d) /\ Doing(w, "save") => <<"graph", d>> \in saved'
        BY <1>1, <2>3, <3>1, <3>7 DEF Saves, savePayload, Doing
      <4>3. QED BY <2>3, <3>4, <3>5, <4>1, <4>2 DEF Doing
    <3>8. CASE Computes(w)
      <4>1. work'[w].step = "sub" /\ ~Doing(w, "save") BY <3>8 DEF Computes, Goes, Doing
      <4>2. work'[w].overall = "COMPLETED" => GraphComes(d)
        <5>1. SUFFICES ASSUME work'[w].overall = "COMPLETED" PROVE GraphComes(d)
          OBVIOUS
        <5>2. work[w].msg.ok /\ SubStatus(d, Other(ModeOf(w))) = "COMPLETED"
          BY <3>1, <3>8, <5>1 DEF Computes, computeOverallStatus, StatusOf
        <5>3. CASE ModeOf(w) = "nonblock" BY <1>1, <2>3, <3>1, <5>2, <5>3 DEF GraphOK
        <5>4. CASE ModeOf(w) = "block"
          BY <3>2, <5>2, <5>4 DEF GraphOK, SubStatus, Other
        <5>5. ModeOf(w) \in Modes BY <2>3, DocOfWork
        <5>6. QED BY <5>3, <5>4, <5>5 DEF Modes
      <4>3. QED BY <2>3, <3>2, <3>4, <3>5, <4>1, <4>2, ComesStays DEF Doing
    <3>9. CASE SavesSub(w)
      <4>1. /\ ~Doing(w, "save") /\ work[w].step = "sub" /\ work'[w].overall = work[w].overall
            /\ work'[w].step = IF ModeOf(w) = "block" THEN "count" ELSE "status"
        BY <3>9 DEF SavesSub, Goes, Doing
      <4>2. work[w].msg = OkGraph(d) => ~Doing(w, "count")' BY <1>1, <2>3, <3>1, <4>1 DEF Doing
      <4>3. work[w].overall = "COMPLETED" => GraphComes(d)'
        BY <2>3, <3>1, <3>2, <4>1, ComesStays DEF GraphOK
      <4>4. QED BY <2>3, <3>4, <3>5, <4>1, <4>2, <4>3
    <3>10. CASE SavesStatus(w)
      <4>1. /\ ~Doing(w, "save") /\ work'[w].step = "count"
            /\ saved' = saved /\ unread' = unread
        BY <3>10 DEF SavesStatus, Goes, Doing
      <4>2. Recorded(d) /\ (work[w].payload => docs'[d].graph)
        BY <3>1, <3>10, StatusOfWork
      <4>3. work[w].msg = OkGraph(d) => GraphSafe(d)'
        BY <2>3, <3>1, <3>4, <4>1, <4>2 DEF GraphOK, GraphSafe
      <4>4. QED BY <2>3, <3>4, <3>5, <4>1, <4>3
    <3>11. CASE HandlerDoes(w)
      <4>1. ~ \E m \in results : Takes(w, m) BY <2>3 DEF Takes, Busy
      <4>2. QED BY <2>2, <3>7, <3>8, <3>9, <3>10, <3>11, <4>1 DEF HandlerDoes
    <3>12. QED BY <3>6, <3>11, OneWorks DEF Same
  <2>4. QED
    <3>1. CASE work'[w] = work[w] BY <1>3, <2>3, <3>1 DEF Busy, Doing
    <3>2. CASE HandlerDoes(w)
      BY <2>1, <2>2, <2>3, <3>2
         DEF HandlerDoes, Saves, Computes, SavesSub, SavesStatus, Goes, Busy, Doing
    <3>3. QED BY <3>1, <3>2, OneWorks DEF Same
<1>4. QED BY <1>2, <1>3 DEF GraphOK

\* Whoever settles the last document has its message in the queue until the
\* user is told.
LEMMA ToldStep == IInv /\ [Next]_vars => ToldOK'
<1> SUFFICES ASSUME IInv, [Next]_vars,
                    alive', AllSettled', NEW x \in Docs, Recorded(x)', \A d \in Docs : ~split'[d],
                    results' = {}
             PROVE  announced'
  BY DEF ToldOK
<1> USE DEF IInv
<1>1. ASSUME alive, UNCHANGED <<results, announced>>, \A d \in Docs : split[d] => split'[d],
             Recorded(x), \A d \in Docs : docs'[d].overall = docs[d].overall
      PROVE  announced'
  BY <1>1 DEF ToldOK, AllSettled
<1>2. CASE RequestDoes
  <2>1. CASE Stays \/ \E t \in Messages : Sends(t)
    BY <1>1, <1>2, <2>1 DEF RequestDoes, RequestVars, Stays, Sends, Recorded
  <2>2. CASE Creates BY <2>2 DEF Creates, DocOK, Recorded
  <2>3. CASE Marks BY <2>3, Marked
  <2>4. ASSUME NEW d \in Docs, Adds(d) PROVE announced'
    <3>1. docs'[d] = NewDoc BY <2>4 DEF Adds, addDocument, TypeOK
    <3>2. QED BY <3>1 DEF AllSettled, NewDoc, NoDoc
  <2>5. QED BY <1>2, <2>1, <2>2, <2>3, <2>4 DEF RequestDoes
<1>3. CASE Deletes BY <1>3 DEF Deletes
<1>4. ASSUME NEW t \in Messages, NEW ok \in BOOLEAN, Answers(t, ok) PROVE announced'
  BY <1>4 DEF Answers
<1>5. ASSUME NEW w \in Workers, HandlerDoes(w) PROVE announced'
  <2>1. ASSUME NEW m \in results, Takes(w, m) PROVE announced' BY <2>1 DEF Takes
  <2>2. CASE Saves(w) \/ Abandons(w)
    BY <1>1, <2>2 DEF Saves, Abandons, Recorded
  <2>3. CASE Computes(w)
    BY <1>1, <2>3 DEF Computes, Recorded, TypeOK
  <2>4. CASE SavesSub(w)
    <3> PICK d, mode : d = DocOf(w) /\ mode = ModeOf(w) OBVIOUS
    <3>1. /\ d \in Docs /\ mode \in Modes /\ Recorded(d)
          /\ docs'[d].overall = work[w].overall
          /\ \A e \in Docs \ {d} : docs'[e] = docs[e]
      BY <2>4, SubSaved
    <3>2. /\ Busy(w) /\ work[w].step = "sub" /\ results = {} /\ announced' = announced
          /\ split' = split /\ alive' = alive
      BY <2>4 DEF SavesSub, Busy, Doing
    <3>3. Unsplit(d) BY <3>1, <3>2 DEF Unsplit
    <3>4. SubStatus(d, mode) = StatusOf(work[w].msg) BY <3>1, <3>2 DEF HeardOK
    <3>5. work[w].overall =
             computeOverallStatus(StatusOf(work[w].msg), SubStatus(d, Other(mode)))
      BY <3>1, <3>2, <3>3 DEF FrameOK, FrameOf, Writes, Doing
    <3>6. docs[d].overall = work[w].overall
      BY <3>1, <3>3, <3>4, <3>5, StatusesSwap DEF FrameOK, RecordOK, SubStatus, Other, Modes
    <3>7. Recorded(x) BY <3>1 DEF Recorded
    <3>8. QED BY <1>1, <3>1, <3>2, <3>6, <3>7
  <2>5. CASE SavesStatus(w)
    <3> PICK d : d = DocOf(w) OBVIOUS
    <3>1. /\ d \in Docs /\ Recorded(d) /\ docs'[d].overall = work[w].overall
          /\ \A e \in Docs \ {d} : docs'[e] = docs[e]
      BY <2>5, StatusOfWork
    <3>2. /\ Doing(w, "status") /\ results' = results /\ announced' = announced
          /\ split' = split /\ alive' = alive
      BY <2>5 DEF SavesStatus
    <3>3. docs[d].overall = work[w].overall
      BY <3>1, <3>2 DEF FrameOK, FrameOf, Writes, Unsplit, Doing
    <3>4. Recorded(x) BY <3>1 DEF Recorded
    <3>5. QED BY <1>1, <3>1, <3>2, <3>3, <3>4
  <2>6. CASE Finishes(w) BY <2>6 DEF Finishes, Announce, AllSettled
  <2>7. QED BY <1>5, <2>1, <2>2, <2>3, <2>4, <2>5, <2>6 DEF HandlerDoes
<1>6. QED BY <1>2, <1>3, <1>4, <1>5, Effects

LEMMA IInvInit == Init => IInv
<1> SUFFICES ASSUME Init PROVE IInv
  OBVIOUS
<1> USE DEF Init
<1>1. /\ docs = [d \in Docs |-> NoDoc] /\ work = [w \in Workers |-> IdleWorker]
      /\ \A d \in Docs : ~Recorded(d) /\ docs[d] = NoDoc
      /\ \A w \in Workers : work[w] = IdleWorker /\ ~Busy(w) /\ ~Writes(w)
  BY DEF Recorded, Busy, Doing, Writes, IdleWorker
<1>2. /\ alive \in BOOLEAN
      /\ \E way \in Ways : req = [way |-> way, step |-> IF alive THEN "hold" ELSE "create",
                                  doc |-> 1, anySent |-> FALSE]
  <2>1. PICK way \in Ways : alive = (way = "files")
           /\ req = [way |-> way, step |-> IF alive THEN "hold" ELSE "create",
                     doc |-> 1, anySent |-> FALSE]
    OBVIOUS
  <2>2. QED BY <2>1
<1>3. TypeOK
  <2>1. req \in [way : Ways, step : Steps, doc : Docs, anySent : BOOLEAN]
    BY <1>2 DEF Steps, Docs
  <2>2. docs \in DocsType BY <1>1 DEF DocsType, NoDoc, Statuses
  <2>3. work \in WorkType BY <1>1 DEF WorkType, IdleWorker, WorkSteps, Statuses
  <2>4. QED BY <1>2, <2>1, <2>2, <2>3 DEF TypeOK, DocsType, WorkType
<1>4. DocOK BY <1>1, <1>2 DEF DocOK, At
<1>5. QueueOK BY <1>1 DEF QueueOK, Around
<1>6. WorkOK BY <1>1 DEF WorkOK
<1>7. FrameOK BY <1>1 DEF FrameOK, RecordOK, FrameOf, BothWrite, Unsplit
<1>8. ViewOK BY <1>1 DEF ViewOK, NoDoc
<1>9. GraphOK BY <1>1 DEF GraphOK, NoDoc, GraphComes, GraphSafe
<1>10. HeardOK BY <1>1 DEF HeardOK
<1>11. ToldOK BY <1>1 DEF ToldOK
<1>12. QED BY <1>3, <1>4, <1>5, <1>6, <1>7, <1>8, <1>9, <1>10, <1>11 DEF IInv

LEMMA IInvStep == IInv /\ [Next]_vars => IInv'
BY TypeStep, DocStep, QueueStep, WorkStep, FrameStep, ViewStep, GraphStep, HeardStep, ToldStep
   DEF IInv

LEMMA IInvTells == IInv => StatusTells
<1> SUFFICES ASSUME IInv PROVE StatusTells
  OBVIOUS
<1>1. OnlyOverlapSplitsStatus
  BY DEF IInv, FrameOK, RecordOK, Unsplit, Recorded, OnlyOverlapSplitsStatus
<1>2. CompletedHasGraph
  <2>1. ASSUME NEW d \in Docs, docs[d].overall = "COMPLETED",
               OkGraph(d) \notin results, d \notin unread
        PROVE  d \in ReadableGraphs
    <3>1. GraphComes(d) BY <2>1 DEF IInv, GraphOK
    <3>2. Recorded(d) BY <2>1 DEF Recorded, NoDoc
    <3>3. docs[d].graph /\ <<"graph", d>> \in saved
      BY <2>1, <3>1, <3>2 DEF GraphComes, GraphSafe
    <3>4. QED BY <2>1, <3>3 DEF ReadableGraphs, findGraphPayloads
  <2>2. QED BY <2>1 DEF CompletedHasGraph, OkGraph
<1>3. ViewHasTexts
  BY DEF IInv, ViewOK, ViewHasTexts, ReadableViews, findBlockGraphPayloadByTaskId,
         findBlockRawTextPayloadByTaskId
<1>4. FinishedIsAnnounced BY DEF IInv, ToldOK, FinishedIsAnnounced, Recorded
<1>5. QED BY <1>1, <1>2, <1>3, <1>4 DEF StatusTells, FinishedIsReadAndTold

\* StatusTells (MicroscopeManagementService and MicroscopeIngestResultHandler):
\* a document's record is what its two results make of it, its readers get what
\* it says, and the user learns of the last one, however many handlers work,
\* die and are given results again.
THEOREM MicroscopeStatusTells == Spec => []StatusTells
<1>1. Init => IInv BY IInvInit
<1>2. IInv /\ [Next]_vars => IInv' BY IInvStep
<1>3. IInv => StatusTells BY IInvTells
<1>4. QED BY <1>1, <1>2, <1>3, PTL DEF Spec

\* The inductive invariant itself: where messages and handlers are, and what
\* each of them implies about the records.
THEOREM MicroscopeInvariant == Spec => []IInv
BY IInvInit, IInvStep, PTL DEF Spec

=============================================================================
