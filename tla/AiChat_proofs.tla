---------------------------- MODULE AiChat_proofs ----------------------------
(***************************************************************************)
(* Proofs about the chats.  First AiChat, for any finite set of requests,  *)
(* any window, batch, price and bounds: PaidForAnswers and                 *)
(* AnswersFitQuestions.  Then the agent's stream (Agent, as MCAiChat       *)
(* instantiates it), for any requests, rounds, tools and faults:           *)
(* AgentSettlesStreams.                                                    *)
(***************************************************************************)
EXTENDS MCAiChat, FiniteSetTheorems, TLAPS

Message == [id : Nat, role : {"user", "assistant"}]
Question == [id : Nat, role : {"user", "assistant", "none"}]
Answer == [id : Nat, to : Nat, by : {"chat", "rag", "retry"}]

Plain(r) == call[r].kind # "retry"
Paid == {r \in Requests : call[r].paid}

\* The last message is a question.
QuestionIsLast == messages # <<>> /\ messages[Len(messages)].role = "user"

-----------------------------------------------------------------------------
IsCall(c) ==
    c = [kind |-> c.kind, at |-> c.at, question |-> c.question, seen |-> c.seen,
         memory |-> c.memory, sent |-> c.sent, paid |-> c.paid]

CallOK(c) ==
    /\ IsCall(c)
    /\ c.kind \in {"none", "chat", "rag", "retry"} /\ (c.at # "idle" => c.kind # "none")
    /\ c.at \in Places /\ c.question \in Question /\ c.seen \in Seq(Message)
    /\ c.paid \in BOOLEAN
    /\ c.at \in {"drop", "files"} => c.kind = "retry"
    /\ c.at \in {"create", "question"} => c.kind # "retry"
    \* The credit is taken before the answer is made, and given back with refund.
    /\ c.paid => c.at \in {"generate", "question", "answer", "refund"}
    /\ c.at \in {"generate", "question", "answer"} => c.paid = (Cost > 0)
    /\ c.at = "refund" => c.paid

TypeOK ==
    /\ found \in BOOLEAN /\ messages \in Seq(Message)
    /\ balance \in Int /\ nextId \in Nat /\ calls \in Nat /\ faults \in Nat /\ kept \in Nat
    /\ asked \subseteq Nat /\ answers \subseteq Answer /\ IsFiniteSet(answers)
    /\ call = [r \in Requests |-> call[r]] /\ \A r \in Requests : CallOK(call[r])

\* What the credits have gone to.
BalanceOK == balance + Cost * (Cardinality(answers) + Cardinality(Paid) + kept) = Funds

\* Ids are used once; the questions' are the client's, the answers' are not.
OldBy(m, n, ids) == m.id < n /\ (m.role = "assistant" => m.id \notin ids)
Old(m) == OldBy(m, nextId, asked)

IdsOK ==
    /\ \A id \in asked : id < nextId
    /\ \A a \in answers : a.id < nextId
    /\ \A i \in DOMAIN messages : Old(messages[i])
    /\ \A i, j \in DOMAIN messages : messages[i].id = messages[j].id => i = j
    /\ \A r \in Requests : \A i \in DOMAIN call[r].seen : Old(call[r].seen[i])
    /\ \A r \in Requests : call[r].at = "drop" =>
          /\ call[r].seen # <<>>
          /\ call[r].seen[Len(call[r].seen)].role = "assistant"
    /\ \A r \in Requests : Running(r) /\ Plain(r) =>
          call[r].question.id \in asked /\ call[r].question.role = "user"

\* While nothing is deleted, a question is saved by one call and stays.
Saved(r) == Plain(r) /\ At(r, "answer")

AnsweredStay ==
    \A a \in answers : a.by # "retry" => a.to \in asked /\ a.to \in IdsOf(messages)

SavedOpen ==
    \A r \in Requests : Saved(r) =>
        /\ call[r].question.id \in IdsOf(messages)
        /\ \A a \in answers : a.by # "retry" => a.to # call[r].question.id

SavedApart ==
    \A r, q \in Requests :
        Saved(r) /\ Saved(q) /\ call[r].question.id = call[q].question.id => r = q

QuestionsOK ==
    "deletion" \notin irregular => OneAnswerPerQuestion /\ AnsweredStay /\ SavedOpen /\ SavedApart

\* While one call runs at a time, too, an answer is next to its question.
OneRuns == \A r, q \in Requests : Running(r) /\ Running(q) => r = q

AnswersFollow(m) ==
    \A i \in DOMAIN m : m[i].role = "assistant" => i > 1 /\ m[i - 1].role = "user"

Again == {"files", "context", "charge", "generate", "answer"}

TurnsOK ==
    irregular \cap {"overlap", "deletion"} = {} =>
        /\ OneRuns /\ AnswersFollow(messages)
        /\ \A r \in Requests :
              /\ At(r, "drop") => call[r].seen = messages
              /\ Saved(r) => QuestionIsLast
              /\ call[r].kind = "retry" /\ call[r].at \in Again
                 => QuestionIsLast /\ call[r].question.role = "user"

IInv == TypeOK /\ BalanceOK /\ IdsOK /\ QuestionsOK /\ TurnsOK

-----------------------------------------------------------------------------
(* What a step does.                                                       *)

Same(r) == \A q \in Requests \ {r} : call'[q] = call[q]
CallType == call' = [r \in Requests |-> call'[r]] /\ \A r \in Requests : CallOK(call[r])'
Grows == irregular \subseteq irregular' /\ found' \in BOOLEAN /\ calls' \in Nat /\ faults' \in Nat
Book == <<messages, answers, kept, balance, nextId, asked>>

Begins(r) ==
    /\ ~Running(r) /\ call'[r].at = "find" /\ ~call'[r].paid /\ call'[r].seen = <<>>
    /\ Plain(r)' => call'[r].question.id \in asked' /\ call'[r].question.role = "user"
    /\ \/ nextId' = nextId /\ asked' = asked
       \/ nextId' = nextId + 1 /\ asked' = asked \cup {nextId}
    /\ (\E q \in Requests : Running(q)) => "overlap" \in irregular'
    /\ UNCHANGED <<messages, answers, kept, balance>>

Ends(r) == Running(r) /\ ~call[r].paid /\ call'[r] = Idle /\ UNCHANGED Book

\* The call goes on, with the same question.
Goes(r, step) ==
    /\ call'[r].at = step /\ call'[r].kind = call[r].kind
    /\ call'[r].question = call[r].question

Moves(r) ==
    /\ \/ At(r, "find") /\ (Goes(r, "create") \/ Goes(r, "read") \/ Goes(r, "charge"))
          /\ (call[r].kind = "retry" => call'[r].at = "read")
       \/ At(r, "create") /\ (Goes(r, "read") \/ Goes(r, "charge"))
       \/ At(r, "files") /\ Goes(r, "context")
       \/ At(r, "context") /\ Goes(r, "charge")
       \/ At(r, "generate") /\ Goes(r, IF Plain(r) THEN "question" ELSE "answer")
       \/ /\ call[r].at \in {"generate", "question", "answer"} /\ call[r].paid
          /\ Goes(r, "refund")
    /\ call'[r].paid = call[r].paid /\ call'[r].seen = call[r].seen
    /\ UNCHANGED Book

Reads(r) ==
    /\ At(r, "read") /\ call'[r].seen = messages
    /\ \/ ~Plain(r) /\ LastIsAnswer /\ Goes(r, "drop")
       \/ Plain(r) /\ Goes(r, "context")
    /\ call'[r].paid = call[r].paid
    /\ UNCHANGED Book

Drops(r) ==
    LET seen == call[r].seen n == Len(seen) IN
    /\ At(r, "drop") /\ seen[n].id \in IdsOf(messages) /\ messages' = Without(messages, seen[n].id)
    /\ call'[r].at = "files" /\ call'[r].kind = call[r].kind /\ call'[r].paid = call[r].paid
    /\ n > 1 => call'[r].question = seen[n - 1]
    /\ \A i \in DOMAIN call'[r].seen : i \in DOMAIN seen /\ call'[r].seen[i] = seen[i]
    /\ UNCHANGED <<answers, kept, balance, nextId, asked>>

Pays(r) ==
    /\ At(r, "charge") /\ Goes(r, "generate")
    /\ call'[r].paid = (Cost > 0) /\ call'[r].seen = <<>>
    /\ balance' = balance - Cost
    /\ UNCHANGED <<messages, answers, kept, nextId, asked>>

PaysForNothing(r) ==
    /\ At(r, "charge") /\ call'[r] = Idle
    /\ balance' = balance - Cost /\ kept' = kept + 1
    /\ UNCHANGED <<messages, answers, nextId, asked>>

SavesQuestion(r) ==
    /\ At(r, "question") /\ Goes(r, "answer") /\ CreateMessage(call[r].question)
    /\ call'[r].paid = call[r].paid /\ call'[r].seen = call[r].seen
    /\ UNCHANGED <<answers, kept, balance, nextId, asked>>

SavesAnswer(r) ==
    /\ At(r, "answer") /\ call'[r] = Idle
    /\ CreateMessage([id |-> nextId, role |-> "assistant"]) /\ nextId' = nextId + 1
    /\ answers' = answers \cup
          {[id |-> nextId, to |-> call[r].question.id, by |-> call[r].kind]}
    /\ UNCHANGED <<kept, balance, asked>>

Refunds(r) ==
    /\ At(r, "refund") /\ call'[r] = Idle
    /\ \/ balance' = balance + Cost /\ UNCHANGED kept
       \/ kept' = kept + 1 /\ UNCHANGED balance
    /\ UNCHANGED <<messages, answers, nextId, asked>>

Does(r) ==
    \/ Begins(r) \/ Ends(r) \/ Moves(r) \/ Reads(r) \/ Drops(r) \/ Pays(r)
    \/ PaysForNothing(r) \/ SavesQuestion(r) \/ SavesAnswer(r) \/ Refunds(r)

Crashes ==
    /\ kept' = kept + Cardinality(Paid) /\ \A r \in Requests : call'[r] = Idle
    /\ UNCHANGED <<messages, answers, balance, nextId, asked>>

Deletes ==
    /\ "deletion" \in irregular'
    /\ messages' = <<>> \/ \E id \in IdsOf(messages) : messages' = Without(messages, id)
    /\ UNCHANGED <<call, answers, kept, balance, nextId, asked>>

-----------------------------------------------------------------------------
(* Sequences of messages.                                                  *)

LEMMA WithoutOne ==
    ASSUME NEW s \in Seq(Message), NEW id \in IdsOf(s)
    PROVE  /\ Without(s, id) \in Seq(Message)
           /\ Len(Without(s, id)) = Len(s) - 1 /\ Len(s) > 0
           /\ \E k \in DOMAIN s :
                /\ s[k].id = id
                /\ \A i \in 1..(Len(s) - 1) :
                      Without(s, id)[i] = IF i < k THEN s[i] ELSE s[i + 1]
<1> DEFINE k == CHOOSE i \in DOMAIN s : s[i].id = id
<1>1. \E i \in DOMAIN s : s[i].id = id BY DEF IdsOf
<1>2. k \in DOMAIN s /\ s[k].id = id BY <1>1
<1>3. Without(s, id) = [i \in 1..(Len(s) - 1) |-> IF i < k THEN s[i] ELSE s[i + 1]]
  BY DEF Without
<1> HIDE DEF k
<1>4. Len(s) \in Nat /\ Len(s) > 0 /\ DOMAIN s = 1..Len(s) BY <1>2
<1>5. \A i \in 1..(Len(s) - 1) : i \in DOMAIN s /\ i + 1 \in DOMAIN s BY <1>4
<1>6. Len(s) - 1 \in Nat /\ \A i \in 1..(Len(s) - 1) :
         (IF i < k THEN s[i] ELSE s[i + 1]) \in Message
  BY <1>4, <1>5
<1>7. Without(s, id) \in Seq(Message) /\ Len(Without(s, id)) = Len(s) - 1
  BY <1>3, <1>6
<1>8. QED BY <1>2, <1>3, <1>4, <1>7

\* Unless ids repeat, no other message goes.
LEMMA OthersStay ==
    ASSUME NEW s \in Seq(Message), NEW id \in IdsOf(s),
           \A i, j \in DOMAIN s : s[i].id = s[j].id => i = j
    PROVE  LET w == Without(s, id) IN
           /\ \A i \in DOMAIN w : \E j \in DOMAIN s : w[i] = s[j]
           /\ \A i, j \in DOMAIN w : w[i].id = w[j].id => i = j
           /\ \A x \in IdsOf(s) : x # id => x \in IdsOf(w)
           /\ s[Len(s)].id = id => \A i \in 1..(Len(s) - 1) : w[i] = s[i]
<1> DEFINE w == Without(s, id)
<1>1. /\ w \in Seq(Message) /\ Len(w) = Len(s) - 1 /\ Len(s) > 0
      /\ DOMAIN w = 1..(Len(s) - 1) /\ DOMAIN s = 1..Len(s) /\ Len(s) \in Nat
  BY WithoutOne
<1>2. PICK k \in DOMAIN s :
         /\ s[k].id = id
         /\ \A i \in 1..(Len(s) - 1) : w[i] = IF i < k THEN s[i] ELSE s[i + 1]
  BY WithoutOne
<1> HIDE DEF w
<1>3. \A i \in DOMAIN w : i \in DOMAIN s /\ i + 1 \in DOMAIN s BY <1>1
<1>4. \A i \in DOMAIN w : \E j \in DOMAIN s : w[i] = s[j] BY <1>1, <1>2, <1>3
<1>5. \A i, j \in DOMAIN w : w[i].id = w[j].id => i = j BY <1>1, <1>2, <1>3
<1>6. ASSUME NEW x \in IdsOf(s), x # id PROVE x \in IdsOf(w)
  <2>1. PICK i \in DOMAIN s : s[i].id = x BY DEF IdsOf
  <2>2. i # k BY <1>2, <1>6, <2>1
  <2>3. CASE i < k
    <3>1. i \in DOMAIN w /\ w[i] = s[i] BY <1>1, <1>2, <2>3
    <3>2. QED BY <2>1, <3>1 DEF IdsOf
  <2>4. CASE i > k
    <3>1. i - 1 \in DOMAIN w /\ w[i - 1] = s[i] BY <1>1, <1>2, <2>4
    <3>2. QED BY <2>1, <3>1 DEF IdsOf
  <2>5. QED BY <1>1, <2>2, <2>3, <2>4
<1>7. s[Len(s)].id = id => \A i \in 1..(Len(s) - 1) : w[i] = s[i]
  BY <1>1, <1>2
<1>8. QED BY <1>4, <1>5, <1>6, <1>7 DEF w

LEMMA AppendOne ==
    ASSUME NEW s \in Seq(Message), NEW m \in Message, m.id \notin IdsOf(s),
           \A i, j \in DOMAIN s : s[i].id = s[j].id => i = j
    PROVE  LET a == Append(s, m) IN
           /\ a \in Seq(Message) /\ Len(a) = Len(s) + 1 /\ a[Len(a)] = m
           /\ \A i \in DOMAIN s : a[i] = s[i]
           /\ \A i, j \in DOMAIN a : a[i].id = a[j].id => i = j
           /\ IdsOf(a) = IdsOf(s) \cup {m.id}
<1> DEFINE a == Append(s, m)
<1>1. /\ a \in Seq(Message) /\ Len(a) = Len(s) + 1 /\ a[Len(a)] = m
      /\ \A i \in DOMAIN s : a[i] = s[i]
      /\ DOMAIN a = 1..(Len(s) + 1) /\ DOMAIN s = 1..Len(s) /\ Len(s) \in Nat
  OBVIOUS
<1> HIDE DEF a
<1>2. \A i \in DOMAIN a : i \in DOMAIN s \/ i = Len(a) BY <1>1
<1>3. \A i \in DOMAIN s : a[i].id # m.id BY <1>1 DEF IdsOf
<1>4. \A i, j \in DOMAIN a : a[i].id = a[j].id => i = j BY <1>1, <1>2, <1>3
<1>5. IdsOf(a) = IdsOf(s) \cup {m.id}
  <2>1. DOMAIN s \subseteq DOMAIN a /\ Len(a) \in DOMAIN a BY <1>1
  <2>2. QED BY <1>1, <1>2, <2>1 DEF IdsOf
<1>6. QED BY <1>1, <1>4, <1>5 DEF a

-----------------------------------------------------------------------------
(* Records of calls.                                                       *)

\* The calls that the steps leave.
Recalled(c, s, m) == [c EXCEPT !.memory = m, !.at = s]
Sending(c, s, m, t) == [c EXCEPT !.at = s, !.memory = m, !.sent = t]
Reading(c, s, x) == [c EXCEPT !.seen = x, !.at = s]
Dropping(c, s, x, q) == [c EXCEPT !.at = s, !.question = q, !.seen = x]
Paying(c, s, b, x, y, z) == [c EXCEPT !.at = s, !.paid = b, !.seen = x, !.sent = y, !.memory = z]
Beginning(k, q) == [Idle EXCEPT !.kind = k, !.at = "find", !.question = q]

LEMMA AtSet ==
    ASSUME NEW c, IsCall(c), NEW s
    PROVE  LET d == [c EXCEPT !.at = s] IN
           /\ IsCall(d) /\ d.at = s /\ d.kind = c.kind /\ d.question = c.question
           /\ d.seen = c.seen /\ d.paid = c.paid
BY DEF IsCall

LEMMA KindSet ==
    ASSUME NEW c, IsCall(c), NEW x
    PROVE  LET d == [c EXCEPT !.kind = x] IN
           /\ IsCall(d) /\ d.kind = x
           /\ d.at = c.at /\ d.question = c.question
           /\ d.seen = c.seen /\ d.memory = c.memory /\ d.sent = c.sent /\ d.paid = c.paid
BY DEF IsCall

LEMMA QuestionSet ==
    ASSUME NEW c, IsCall(c), NEW x
    PROVE  LET d == [c EXCEPT !.question = x] IN
           /\ IsCall(d) /\ d.question = x
           /\ d.kind = c.kind /\ d.at = c.at
           /\ d.seen = c.seen /\ d.memory = c.memory /\ d.sent = c.sent /\ d.paid = c.paid
BY DEF IsCall

LEMMA SeenSet ==
    ASSUME NEW c, IsCall(c), NEW x
    PROVE  LET d == [c EXCEPT !.seen = x] IN
           /\ IsCall(d) /\ d.seen = x
           /\ d.kind = c.kind /\ d.at = c.at /\ d.question = c.question /\ d.memory = c.memory /\ d.sent = c.sent /\ d.paid = c.paid
BY DEF IsCall

LEMMA MemorySet ==
    ASSUME NEW c, IsCall(c), NEW x
    PROVE  LET d == [c EXCEPT !.memory = x] IN
           /\ IsCall(d) /\ d.memory = x
           /\ d.kind = c.kind /\ d.at = c.at /\ d.question = c.question
           /\ d.seen = c.seen /\ d.sent = c.sent /\ d.paid = c.paid
BY DEF IsCall

LEMMA SentSet ==
    ASSUME NEW c, IsCall(c), NEW x
    PROVE  LET d == [c EXCEPT !.sent = x] IN
           /\ IsCall(d) /\ d.sent = x
           /\ d.kind = c.kind /\ d.at = c.at /\ d.question = c.question
           /\ d.seen = c.seen /\ d.memory = c.memory /\ d.paid = c.paid
BY DEF IsCall

LEMMA PaidSet ==
    ASSUME NEW c, IsCall(c), NEW x
    PROVE  LET d == [c EXCEPT !.paid = x] IN
           /\ IsCall(d) /\ d.paid = x
           /\ d.kind = c.kind /\ d.at = c.at /\ d.question = c.question
           /\ d.seen = c.seen /\ d.memory = c.memory /\ d.sent = c.sent
BY DEF IsCall

LEMMA RecallSet ==
    ASSUME NEW c, IsCall(c), NEW s, NEW m
    PROVE  LET d == Recalled(c, s, m) IN
           /\ IsCall(d) /\ d.at = s /\ d.kind = c.kind /\ d.question = c.question
           /\ d.seen = c.seen /\ d.paid = c.paid
<1> DEFINE f1 == [c EXCEPT !.memory = m]
           f2 == [f1 EXCEPT !.at = s]
<1>1. /\ IsCall(f1)
      /\ f1.kind = c.kind /\ f1.at = c.at /\ f1.question = c.question
      /\ f1.seen = c.seen /\ f1.paid = c.paid
  BY MemorySet
<1> HIDE DEF f1
<1>2. /\ IsCall(f2) /\ f2.at = s
      /\ f2.kind = f1.kind /\ f2.question = f1.question
      /\ f2.seen = f1.seen /\ f2.paid = f1.paid
  BY <1>1, AtSet
<1> HIDE DEF f2
<1>3. QED BY <1>1, <1>2 DEF Recalled, f1, f2

LEMMA SendSet ==
    ASSUME NEW c, IsCall(c), NEW s, NEW m, NEW t
    PROVE  LET d == Sending(c, s, m, t) IN
           /\ IsCall(d) /\ d.at = s /\ d.kind = c.kind /\ d.question = c.question
           /\ d.seen = c.seen /\ d.paid = c.paid
<1> DEFINE f1 == [c EXCEPT !.at = s]
           f2 == [f1 EXCEPT !.memory = m]
           f3 == [f2 EXCEPT !.sent = t]
<1>1. /\ IsCall(f1) /\ f1.at = s
      /\ f1.kind = c.kind /\ f1.question = c.question
      /\ f1.seen = c.seen /\ f1.paid = c.paid
  BY AtSet
<1> HIDE DEF f1
<1>2. /\ IsCall(f2)
      /\ f2.kind = f1.kind /\ f2.at = f1.at /\ f2.question = f1.question
      /\ f2.seen = f1.seen /\ f2.paid = f1.paid
  BY <1>1, MemorySet
<1> HIDE DEF f2
<1>3. /\ IsCall(f3)
      /\ f3.kind = f2.kind /\ f3.at = f2.at /\ f3.question = f2.question
      /\ f3.seen = f2.seen /\ f3.paid = f2.paid
  BY <1>2, SentSet
<1> HIDE DEF f3
<1>4. QED BY <1>1, <1>2, <1>3 DEF Sending, f1, f2, f3

LEMMA ReadSet ==
    ASSUME NEW c, IsCall(c), NEW s, NEW x
    PROVE  LET d == Reading(c, s, x) IN
           /\ IsCall(d) /\ d.at = s /\ d.kind = c.kind /\ d.question = c.question
           /\ d.seen = x /\ d.paid = c.paid
<1> DEFINE f1 == [c EXCEPT !.seen = x]
           f2 == [f1 EXCEPT !.at = s]
<1>1. /\ IsCall(f1) /\ f1.seen = x
      /\ f1.kind = c.kind /\ f1.at = c.at /\ f1.question = c.question /\ f1.paid = c.paid
  BY SeenSet
<1> HIDE DEF f1
<1>2. /\ IsCall(f2) /\ f2.at = s
      /\ f2.kind = f1.kind /\ f2.question = f1.question
      /\ f2.seen = f1.seen /\ f2.paid = f1.paid
  BY <1>1, AtSet
<1> HIDE DEF f2
<1>3. QED BY <1>1, <1>2 DEF Reading, f1, f2

LEMMA DropSet ==
    ASSUME NEW c, IsCall(c), NEW s, NEW x, NEW q
    PROVE  LET d == Dropping(c, s, x, q) IN
           /\ IsCall(d) /\ d.at = s /\ d.kind = c.kind /\ d.question = q
           /\ d.seen = x /\ d.paid = c.paid
<1> DEFINE f1 == [c EXCEPT !.at = s]
           f2 == [f1 EXCEPT !.question = q]
           f3 == [f2 EXCEPT !.seen = x]
<1>1. /\ IsCall(f1) /\ f1.at = s
      /\ f1.kind = c.kind /\ f1.question = c.question
      /\ f1.seen = c.seen /\ f1.paid = c.paid
  BY AtSet
<1> HIDE DEF f1
<1>2. /\ IsCall(f2) /\ f2.question = q
      /\ f2.kind = f1.kind /\ f2.at = f1.at
      /\ f2.seen = f1.seen /\ f2.paid = f1.paid
  BY <1>1, QuestionSet
<1> HIDE DEF f2
<1>3. /\ IsCall(f3) /\ f3.seen = x
      /\ f3.kind = f2.kind /\ f3.at = f2.at /\ f3.question = f2.question /\ f3.paid = f2.paid
  BY <1>2, SeenSet
<1> HIDE DEF f3
<1>4. QED BY <1>1, <1>2, <1>3 DEF Dropping, f1, f2, f3

LEMMA PaySet ==
    ASSUME NEW c, IsCall(c), NEW s, NEW b, NEW x, NEW y, NEW z
    PROVE  LET d == Paying(c, s, b, x, y, z) IN
           /\ IsCall(d) /\ d.at = s /\ d.kind = c.kind /\ d.question = c.question
           /\ d.seen = x /\ d.paid = b
<1> DEFINE f1 == [c EXCEPT !.at = s]
           f2 == [f1 EXCEPT !.paid = b]
           f3 == [f2 EXCEPT !.seen = x]
           f4 == [f3 EXCEPT !.sent = y]
           f5 == [f4 EXCEPT !.memory = z]
<1>1. /\ IsCall(f1) /\ f1.at = s
      /\ f1.kind = c.kind /\ f1.question = c.question
      /\ f1.seen = c.seen /\ f1.paid = c.paid
  BY AtSet
<1> HIDE DEF f1
<1>2. /\ IsCall(f2) /\ f2.paid = b
      /\ f2.kind = f1.kind /\ f2.at = f1.at /\ f2.question = f1.question
      /\ f2.seen = f1.seen
  BY <1>1, PaidSet
<1> HIDE DEF f2
<1>3. /\ IsCall(f3) /\ f3.seen = x
      /\ f3.kind = f2.kind /\ f3.at = f2.at /\ f3.question = f2.question /\ f3.paid = f2.paid
  BY <1>2, SeenSet
<1> HIDE DEF f3
<1>4. /\ IsCall(f4)
      /\ f4.kind = f3.kind /\ f4.at = f3.at /\ f4.question = f3.question
      /\ f4.seen = f3.seen /\ f4.paid = f3.paid
  BY <1>3, SentSet
<1> HIDE DEF f4
<1>5. /\ IsCall(f5)
      /\ f5.kind = f4.kind /\ f5.at = f4.at /\ f5.question = f4.question
      /\ f5.seen = f4.seen /\ f5.paid = f4.paid
  BY <1>4, MemorySet
<1> HIDE DEF f5
<1>6. QED BY <1>1, <1>2, <1>3, <1>4, <1>5 DEF Paying, f1, f2, f3, f4, f5

LEMMA BeginSet ==
    ASSUME NEW k, NEW q
    PROVE  LET d == Beginning(k, q) IN
           /\ IsCall(d) /\ d.at = "find" /\ d.kind = k /\ d.question = q
           /\ d.seen = <<>> /\ d.paid = FALSE
<1> DEFINE f1 == [Idle EXCEPT !.kind = k]
           f2 == [f1 EXCEPT !.at = "find"]
           f3 == [f2 EXCEPT !.question = q]
<1>1. IsCall(Idle) /\ Idle.seen = <<>> /\ Idle.paid = FALSE BY DEF IsCall, Idle
<1>2. /\ IsCall(f1) /\ f1.kind = k
      /\ f1.at = Idle.at /\ f1.question = Idle.question
      /\ f1.seen = Idle.seen /\ f1.paid = Idle.paid
  BY <1>1, KindSet
<1> HIDE DEF f1
<1>3. /\ IsCall(f2) /\ f2.at = "find"
      /\ f2.kind = f1.kind /\ f2.question = f1.question
      /\ f2.seen = f1.seen /\ f2.paid = f1.paid
  BY <1>2, AtSet
<1> HIDE DEF f2
<1>4. /\ IsCall(f3) /\ f3.question = q
      /\ f3.kind = f2.kind /\ f3.at = f2.at
      /\ f3.seen = f2.seen /\ f3.paid = f2.paid
  BY <1>3, QuestionSet
<1> HIDE DEF f3
<1>5. QED BY <1>1, <1>2, <1>3, <1>4 DEF Beginning, f1, f2, f3

LEMMA IdleOK == CallOK(Idle) /\ Idle.at = "idle" /\ ~Idle.paid /\ Idle.seen = <<>>
BY DEF CallOK, IsCall, Idle, Places, Question, NoMessage

LEMMA Changed ==
    ASSUME TypeOK, NEW r \in Requests, NEW c, CallOK(c), call' = [call EXCEPT ![r] = c]
    PROVE  CallType /\ Same(r) /\ call'[r] = c
<1>1. /\ call = [q \in Requests |-> call[q]] /\ \A q \in Requests : CallOK(call[q])
  BY DEF TypeOK
<1>2. /\ call' = [q \in Requests |-> call'[q]] /\ call'[r] = c
      /\ \A q \in Requests \ {r} : call'[q] = call[q]
  BY <1>1
<1>3. \A q \in Requests : CallOK(call[q])'
  <2>1. ASSUME NEW q \in Requests PROVE CallOK(call[q])'
    <3>1. CASE q = r BY <1>2, <3>1 DEF CallOK, IsCall
    <3>2. CASE q # r BY <1>1, <1>2, <3>2 DEF CallOK, IsCall
    <3>3. QED BY <3>1, <3>2
  <2>2. QED BY <2>1
<1>4. QED BY <1>2, <1>3 DEF CallType, Same

-----------------------------------------------------------------------------
(* Every step does one of these.                                           *)

\* What a place asks of the call that is there.
Fits(c, s) ==
    /\ s # "idle" => c.kind # "none"
    /\ s \in {"drop", "files"} => c.kind = "retry"
    /\ s \in {"create", "question"} => c.kind # "retry"
    /\ c.paid => s \in {"generate", "question", "answer", "refund"}
    /\ s \in {"generate", "question", "answer"} => c.paid = (Cost > 0)
    /\ s = "refund" => c.paid

LEMMA AtOK ==
    ASSUME NEW c, CallOK(c), NEW s \in Places, Fits(c, s)
    PROVE  CallOK([c EXCEPT !.at = s])
<1> DEFINE d == [c EXCEPT !.at = s]
<1>1. IsCall(c) BY DEF CallOK
<1>2. /\ IsCall(d) /\ d.at = s /\ d.kind = c.kind /\ d.question = c.question
      /\ d.seen = c.seen /\ d.paid = c.paid
  BY <1>1, AtSet
<1> HIDE DEF d
<1>3. CallOK(d) BY <1>2 DEF CallOK, Fits
<1>4. QED BY <1>3 DEF d

LEMMA AtTo ==
    ASSUME TypeOK, NEW r \in Requests, NEW s \in Places, Goto(r, s), Fits(call[r], s)
    PROVE  CallType /\ Same(r) /\ Goes(r, s)
           /\ call'[r].paid = call[r].paid /\ call'[r].seen = call[r].seen
<1> DEFINE c == [call[r] EXCEPT !.at = s]
<1>1. CallOK(call[r]) /\ IsCall(call[r]) BY DEF TypeOK, CallOK
<1>2. CallOK(c) BY <1>1, AtOK
<1>3. call' = [call EXCEPT ![r] = c]
  <2>1. call = [q \in Requests |-> call[q]] BY DEF TypeOK
  <2>2. QED BY <2>1 DEF Goto
<1>4. /\ c.at = s /\ c.kind = call[r].kind /\ c.question = call[r].question
      /\ c.seen = call[r].seen /\ c.paid = call[r].paid
  BY <1>1, AtSet
<1> HIDE DEF c
<1>5. CallType /\ Same(r) /\ call'[r] = c BY <1>2, <1>3, Changed
<1>6. QED BY <1>4, <1>5 DEF Goes

LEMMA ToIdle ==
    ASSUME TypeOK, NEW r \in Requests, call' = [call EXCEPT ![r] = Idle]
    PROVE  CallType /\ Same(r) /\ call'[r] = Idle
BY IdleOK, Changed

LEMMA FailOK ==
    ASSUME TypeOK, NEW r \in Requests, Fail(r)
    PROVE  CallType /\ Same(r) /\ call'[r] = Idle /\ irregular \subseteq irregular'
BY ToIdle DEF Fail, Note

LEMMA FailPaidOK ==
    ASSUME TypeOK, NEW r \in Requests, FailPaid(r), Running(r), UNCHANGED Book
    PROVE  /\ CallType /\ Same(r) /\ irregular \subseteq irregular'
           /\ Ends(r) \/ Moves(r) \/ ~(call[r].at \in {"generate", "question", "answer"})
<1>1. CASE call[r].paid
  <2>1. Goto(r, "refund") /\ irregular \subseteq irregular' BY <1>1 DEF FailPaid, Note
  <2>2. CallOK(call[r]) /\ IsCall(call[r]) BY DEF TypeOK, CallOK
  <2>3. Fits(call[r], "refund") /\ "refund" \in Places
    BY <1>1, <2>2 DEF CallOK, Fits, Places
  <2>4. QED BY <1>1, <2>1, <2>3, AtTo DEF Moves
<1>2. CASE ~call[r].paid
  BY <1>2, FailOK DEF FailPaid, Ends
<1>3. QED BY <1>1, <1>2

LEMMA ArriveDoes ==
    ASSUME TypeOK, NEW r \in Requests, Arrive(r)
    PROVE  CallType /\ Same(r) /\ Grows /\ Does(r)
<1>0. TypeOK /\ "retry" \in {"chat", "rag", "retry"} /\ Kinds \subseteq {"chat", "rag", "retry"}
  BY AiChatAssumption
<1>1. ASSUME NEW k \in {"chat", "rag", "retry"}, NEW id \in Nat, Begin(r, k, id)
      PROVE  /\ CallType /\ Same(r) /\ Grows /\ ~Running(r)
             /\ call'[r].at = "find" /\ ~call'[r].paid /\ call'[r].seen = <<>>
             /\ call'[r].kind = k
             /\ k # "retry" => call'[r].question.id = id /\ call'[r].question.role = "user"
             /\ (\E q \in Requests : Running(q)) => "overlap" \in irregular'
             /\ UNCHANGED <<messages, answers, kept, balance>>
  <2> DEFINE q == IF k = "retry" THEN NoMessage ELSE [id |-> id, role |-> "user"]
             c == Beginning(k, q)
  <2>1. q \in Question /\ (k # "retry" => q.id = id /\ q.role = "user")
    BY DEF Question, NoMessage
  <2>2. call' = [call EXCEPT ![r] = c] BY <1>1 DEF Begin, Beginning
  <2>3. IsCall(c) /\ c.at = "find" /\ c.kind = k /\ c.question = q /\ c.seen = <<>> /\ c.paid = FALSE
    BY BeginSet
  <2> HIDE DEF q, c
  <2>4. CallOK(c)
    <3>1. <<>> \in Seq(Message) /\ "find" \in Places BY DEF Places
    <3>2. QED BY <2>1, <2>3, <3>1 DEF CallOK
  <2>5. CallType /\ Same(r) /\ call'[r] = c BY <2>2, <2>4, Changed
  <2>6. Grows BY <1>1 DEF Begin, Grows, Note, Stored, TypeOK
  <2>7. QED BY <1>1, <2>1, <2>3, <2>5, <2>6 DEF Begin, Note, Stored
<1>2. ASSUME NEW k \in {"chat", "rag"}, Ask(r, k) PROVE CallType /\ Same(r) /\ Grows /\ Begins(r)
  <2>1. CASE Begin(r, k, nextId) /\ nextId' = nextId + 1 /\ asked' = asked \cup {nextId}
    BY <1>1, <2>1 DEF Begins, TypeOK
  <2>2. ASSUME NEW id \in asked, Begin(r, k, id), UNCHANGED <<nextId, asked>>
        PROVE  CallType /\ Same(r) /\ Grows /\ Begins(r)
    BY <1>1, <2>2 DEF Begins, TypeOK
  <2>3. QED BY <1>2, <2>1, <2>2 DEF Ask
<1>3. ASSUME Retry(r) PROVE CallType /\ Same(r) /\ Grows /\ Begins(r)
  BY <1>1, <1>3 DEF Retry, Begins, Plain
<1>4. QED BY <1>0, <1>2, <1>3 DEF Arrive, Does

LEMMA RunningHere ==
    ASSUME TypeOK, NEW r \in Requests, NEW s \in Places \ {"idle"}, At(r, s)
    PROVE  Running(r) /\ CallOK(call[r]) /\ IsCall(call[r]) /\ call[r].kind # "none"
BY DEF TypeOK, CallOK, At, Running

LEMMA GetConversationDoes ==
    ASSUME TypeOK, NEW r \in Requests, GetConversation(r)
    PROVE  CallType /\ Same(r) /\ Grows /\ Does(r)
<1>1. At(r, "find") /\ Grows /\ UNCHANGED Book
  BY DEF GetConversation, Grows, Stored, Clients, Book, TypeOK
<1>2. Running(r) /\ CallOK(call[r]) /\ IsCall(call[r]) /\ ~call[r].paid
  BY <1>1, RunningHere DEF Places, CallOK, At
<1>3. CASE call' = [call EXCEPT ![r].memory = summary,
                                ![r].at = IF call[r].kind = "rag" THEN "charge" ELSE "read"]
  <2> DEFINE s == IF call[r].kind = "rag" THEN "charge" ELSE "read"
             c == Recalled(call[r], s, summary)
  <2>1. call' = [call EXCEPT ![r] = c]
    <3>1. call = [q \in Requests |-> call[q]] BY DEF TypeOK
    <3>2. QED BY <1>3, <3>1 DEF Recalled
  <2>2. /\ IsCall(c) /\ c.at = s /\ c.kind = call[r].kind
        /\ c.question = call[r].question /\ c.seen = call[r].seen /\ c.paid = call[r].paid
    BY <1>2, RecallSet
  <2>3. s \in {"charge", "read"} /\ s \in Places /\ (call[r].kind = "retry" => s = "read")
    BY DEF Places
  <2> HIDE DEF c, s
  <2>4. CallOK(c) BY <1>1, <1>2, <2>2, <2>3 DEF CallOK, At
  <2>5. CallType /\ Same(r) /\ call'[r] = c BY <2>1, <2>4, Changed
  <2>6. Moves(r) BY <1>1, <2>2, <2>3, <2>5 DEF Moves, Goes
  <2>7. QED BY <1>1, <2>5, <2>6 DEF Does
<1>4. CASE call[r].kind # "retry" /\ Goto(r, "create")
  <2>1. "create" \in Places /\ Fits(call[r], "create")
    BY <1>1, <1>2, <1>4 DEF Places, Fits, CallOK, At
  <2>2. CallType /\ Same(r) /\ Goes(r, "create")
        /\ call'[r].paid = call[r].paid /\ call'[r].seen = call[r].seen
    BY <1>4, <2>1, AtTo
  <2>3. Moves(r) BY <1>1, <1>4, <2>2 DEF Moves
  <2>4. QED BY <1>1, <2>2, <2>3 DEF Does
<1>5. CASE call' = [call EXCEPT ![r] = Idle]
  BY <1>1, <1>2, <1>5, ToIdle DEF Ends, Does
<1>6. QED BY <1>3, <1>4, <1>5 DEF GetConversation

LEMMA CreateConversationDoes ==
    ASSUME TypeOK, NEW r \in Requests, CreateConversation(r)
    PROVE  CallType /\ Same(r) /\ Grows /\ Does(r)
<1>1. At(r, "create") /\ UNCHANGED Book /\ found' = TRUE /\ UNCHANGED <<calls, faults>>
  BY DEF CreateConversation, Clients, Book
<1>2. Running(r) /\ CallOK(call[r]) /\ ~call[r].paid /\ call[r].kind # "none"
  BY <1>1, RunningHere DEF Places, CallOK, At
<1>3. CASE Fail(r)
  BY <1>1, <1>2, <1>3, FailOK DEF Ends, Does, Grows, TypeOK
<1>4. CASE Goto(r, IF call[r].kind = "rag" THEN "charge" ELSE "read") /\ UNCHANGED irregular
  <2>1. PICK s \in {"charge", "read"} : Goto(r, s) BY <1>4
  <2>2. s \in Places /\ Fits(call[r], s) BY <1>1, <1>2 DEF Places, Fits, CallOK, At
  <2>3. CallType /\ Same(r) /\ Goes(r, s)
        /\ call'[r].paid = call[r].paid /\ call'[r].seen = call[r].seen
    BY <2>1, <2>2, AtTo
  <2>4. Moves(r) BY <1>1, <2>3 DEF Moves
  <2>5. QED BY <1>1, <1>4, <2>3, <2>4 DEF Does, Grows, TypeOK
<1>5. QED BY <1>3, <1>4 DEF CreateConversation

LEMMA GetMessagesDoes ==
    ASSUME TypeOK, NEW r \in Requests, GetMessages(r)
    PROVE  CallType /\ Same(r) /\ Grows /\ Does(r)
<1>1. At(r, "read") /\ Grows /\ UNCHANGED Book
  BY DEF GetMessages, Grows, Stored, Clients, Book, TypeOK
<1>2. Running(r) /\ CallOK(call[r]) /\ IsCall(call[r]) /\ ~call[r].paid
  BY <1>1, RunningHere DEF Places, CallOK, At
<1>3. CASE call' = [call EXCEPT ![r] = Idle]
  BY <1>1, <1>2, <1>3, ToIdle DEF Ends, Does
<1>4. CASE /\ ~(call[r].kind = "retry" /\ ~LastIsAnswer)
           /\ call' = [call EXCEPT ![r].seen = messages,
                                   ![r].at = IF call[r].kind = "retry" THEN "drop" ELSE "context"]
  <2> DEFINE s == IF call[r].kind = "retry" THEN "drop" ELSE "context"
             c == Reading(call[r], s, messages)
  <2>1. call' = [call EXCEPT ![r] = c]
    <3>1. call = [q \in Requests |-> call[q]] BY DEF TypeOK
    <3>2. QED BY <1>4, <3>1 DEF Reading
  <2>2. /\ IsCall(c) /\ c.at = s /\ c.kind = call[r].kind
        /\ c.question = call[r].question /\ c.seen = messages /\ c.paid = call[r].paid
    BY <1>2, ReadSet
  <2>3. s \in {"drop", "context"} /\ s \in Places /\ (s = "drop" <=> call[r].kind = "retry")
    BY DEF Places
  <2> HIDE DEF c, s
  <2>4. CallOK(c) BY <1>1, <1>2, <2>2, <2>3 DEF CallOK, At, TypeOK
  <2>5. CallType /\ Same(r) /\ call'[r] = c BY <2>1, <2>4, Changed
  <2>6. Reads(r) BY <1>1, <1>4, <2>2, <2>3, <2>5 DEF Reads, Goes, Plain
  <2>7. QED BY <1>1, <2>5, <2>6 DEF Does
<1>5. QED BY <1>3, <1>4 DEF GetMessages

\* What is left of the messages a retry has read.
LEMMA RestOf ==
    ASSUME NEW s \in Seq(Message), s # <<>>
    PROVE  LET rest == SubSeq(s, 1, Len(s) - 1)
               left == SubSeq(rest, 1, IF rest = <<>> THEN 0 ELSE Len(rest) - 1)
           IN  /\ Len(s) \in DOMAIN s /\ s[Len(s)] \in Message
               /\ (rest = <<>> /\ Len(s) = 1) \/ (rest # <<>> /\ Len(s) > 1)
               /\ Len(s) > 1 => rest[Len(rest)] = s[Len(s) - 1] /\ s[Len(s) - 1] \in Message
               /\ left \in Seq(Message)
               /\ \A i \in DOMAIN left : i \in DOMAIN s /\ left[i] = s[i]
<1> DEFINE rest == SubSeq(s, 1, Len(s) - 1)
           n == IF rest = <<>> THEN 0 ELSE Len(rest) - 1
           left == SubSeq(rest, 1, n)
<1>1. Len(s) \in Nat /\ Len(s) > 0 /\ DOMAIN s = 1..Len(s) /\ \A i \in DOMAIN s : s[i] \in Message
  OBVIOUS
<1>2. /\ rest \in Seq(Message) /\ Len(rest) = Len(s) - 1 /\ DOMAIN rest = 1..(Len(s) - 1)
      /\ \A i \in 1..(Len(s) - 1) : rest[i] = s[i]
  BY <1>1
<1> HIDE DEF rest
<1>3. (rest = <<>> /\ Len(s) = 1) \/ (rest # <<>> /\ Len(s) > 1) BY <1>1, <1>2
<1>4. n \in Nat /\ n <= Len(rest) BY <1>1, <1>2, <1>3
<1> HIDE DEF n
<1>5. left \in Seq(Message) /\ DOMAIN left = 1..n /\ \A i \in 1..n : left[i] = rest[i]
  BY <1>1, <1>2, <1>4
<1>6. \A i \in DOMAIN left : i \in DOMAIN s /\ left[i] = s[i]
  BY <1>1, <1>2, <1>4, <1>5
<1>7. Len(s) > 1 => rest[Len(rest)] = s[Len(s) - 1] /\ s[Len(s) - 1] \in Message
  BY <1>1, <1>2
<1>8. QED BY <1>1, <1>3, <1>5, <1>6, <1>7 DEF rest, n

LEMMA DropAnswerDoes ==
    ASSUME TypeOK, IdsOK, NEW r \in Requests, DropAnswer(r)
    PROVE  CallType /\ Same(r) /\ Grows /\ Does(r)
<1> DEFINE seen == call[r].seen
           rest == SubSeq(seen, 1, Len(seen) - 1)
           q == IF rest = <<>> THEN NoMessage ELSE rest[Len(rest)]
           left == SubSeq(rest, 1, IF rest = <<>> THEN 0 ELSE Len(rest) - 1)
           c == Dropping(call[r], "files", left, q)
<1>1. At(r, "drop") /\ Grows /\ UNCHANGED <<answers, kept, balance, nextId, asked>>
  BY DEF DropAnswer, Grows, Stored, Clients, TypeOK
<1>2. Running(r) /\ CallOK(call[r]) /\ IsCall(call[r]) /\ ~call[r].paid
  BY <1>1, RunningHere DEF Places, CallOK, At
<1>3. seen # <<>> /\ seen \in Seq(Message) BY <1>1, <1>2 DEF IdsOK, CallOK, At
<1>4. CASE /\ found /\ seen[Len(seen)].id \in IdsOf(messages)
           /\ messages' = Without(messages, seen[Len(seen)].id)
           /\ call' = [call EXCEPT ![r].at = "files", ![r].question = q, ![r].seen = left]
  <2>1. call' = [call EXCEPT ![r] = c]
    <3> HIDE DEF left, q
    <3>1. call = [x \in Requests |-> call[x]] BY DEF TypeOK
    <3>2. QED BY <1>4, <3>1 DEF Dropping
  <2>2. /\ IsCall(c) /\ c.at = "files" /\ c.kind = call[r].kind /\ c.question = q
        /\ c.seen = left /\ c.paid = call[r].paid
    <3> HIDE DEF left, q
    <3>1. QED BY <1>2, DropSet
  <2> HIDE DEF c
  <2>3. /\ (rest = <<>> /\ Len(seen) = 1) \/ (rest # <<>> /\ Len(seen) > 1)
        /\ Len(seen) > 1 => rest[Len(rest)] = seen[Len(seen) - 1]
                            /\ seen[Len(seen) - 1] \in Message
        /\ left \in Seq(Message)
        /\ \A i \in DOMAIN left : i \in DOMAIN seen /\ left[i] = seen[i]
    BY <1>3, RestOf
  <2> HIDE DEF rest, left
  <2>5. q \in Question /\ (Len(seen) > 1 => q = seen[Len(seen) - 1])
    <3> HIDE DEF seen
    <3>1. Message \subseteq Question /\ NoMessage \in Question
      BY DEF Question, Message, NoMessage
    <3>2. CASE rest = <<>> /\ Len(seen) = 1
      <4>1. q = NoMessage BY <3>2
      <4>2. QED BY <3>1, <3>2, <4>1
    <3>3. CASE rest # <<>> /\ Len(seen) > 1
      <4>1. q = rest[Len(rest)] BY <3>3
      <4>2. QED BY <2>3, <3>1, <3>3, <4>1
    <3>4. QED BY <2>3, <3>2, <3>3
  <2> HIDE DEF q
  <2>6. CallOK(c) BY <1>1, <1>2, <2>2, <2>3, <2>5 DEF CallOK, Places, At
  <2>7. CallType /\ Same(r) /\ call'[r] = c BY <2>1, <2>6, Changed
  <2>8. Drops(r) BY <1>1, <1>4, <2>2, <2>3, <2>5, <2>7 DEF Drops
  <2>9. QED BY <1>1, <2>7, <2>8 DEF Does
<1>5. CASE call' = [call EXCEPT ![r] = Idle] /\ UNCHANGED messages
  BY <1>1, <1>2, <1>5, ToIdle DEF Ends, Does, Book
<1>6. QED BY <1>4, <1>5 DEF DropAnswer

LEMMA AttachFilesDoes ==
    ASSUME TypeOK, NEW r \in Requests, AttachFiles(r)
    PROVE  CallType /\ Same(r) /\ Grows /\ Does(r)
<1>1. At(r, "files") /\ UNCHANGED Book /\ UNCHANGED <<found, calls>> /\ faults' \in Nat
  BY DEF AttachFiles, Stored, Clients, Book, Fault, TypeOK
<1>2. Running(r) /\ CallOK(call[r]) /\ ~call[r].paid /\ call[r].kind # "none"
  BY <1>1, RunningHere DEF Places, CallOK, At
<1>3. CASE Fail(r)
  BY <1>1, <1>2, <1>3, FailOK DEF Ends, Does, Grows, TypeOK
<1>4. CASE Goto(r, "context") /\ UNCHANGED irregular
  <2>1. "context" \in Places /\ Fits(call[r], "context")
    BY <1>1, <1>2 DEF Places, Fits, CallOK, At
  <2>2. CallType /\ Same(r) /\ Goes(r, "context")
        /\ call'[r].paid = call[r].paid /\ call'[r].seen = call[r].seen
    BY <1>4, <2>1, AtTo
  <2>3. Moves(r) BY <1>1, <2>2 DEF Moves
  <2>4. QED BY <1>1, <1>4, <2>2, <2>3 DEF Does, Grows, TypeOK
<1>5. QED BY <1>3, <1>4 DEF AttachFiles

LEMMA BuildContextMessagesDoes ==
    ASSUME TypeOK, NEW r \in Requests, BuildContextMessages(r)
    PROVE  CallType /\ Same(r) /\ Grows /\ Does(r)
<1> DEFINE c(m) == Sending(call[r], "charge", m, BuildContext(call[r].seen, m, call[r].question))
<1>1. At(r, "context") /\ UNCHANGED Book /\ UNCHANGED <<found, calls>> /\ faults' \in Nat
  BY DEF BuildContextMessages, Clients, Book, Fault, TypeOK
<1>2. Running(r) /\ CallOK(call[r]) /\ IsCall(call[r]) /\ ~call[r].paid
  BY <1>1, RunningHere DEF Places, CallOK, At
<1>3. CASE Fail(r)
  BY <1>1, <1>2, <1>3, FailOK DEF Ends, Does, Grows, TypeOK
<1>4. ASSUME NEW m, call' = [call EXCEPT ![r] = c(m)], irregular \subseteq irregular'
      PROVE  CallType /\ Same(r) /\ Grows /\ Does(r)
  <2>1. /\ IsCall(c(m)) /\ c(m).at = "charge" /\ c(m).kind = call[r].kind
        /\ c(m).question = call[r].question
        /\ c(m).seen = call[r].seen /\ c(m).paid = call[r].paid
    BY <1>2, SendSet
  <2> HIDE DEF c
  <2>2. CallOK(c(m)) BY <1>1, <1>2, <2>1 DEF CallOK, Places, At
  <2>3. CallType /\ Same(r) /\ call'[r] = c(m) BY <1>4, <2>2, Changed
  <2>4. Moves(r) BY <1>1, <2>1, <2>3 DEF Moves, Goes
  <2>5. QED BY <1>1, <1>4, <2>3, <2>4 DEF Does, Grows, TypeOK
<1>5. CASE \E m : /\ call' = [call EXCEPT ![r].at = "charge", ![r].memory = m,
                       ![r].sent = BuildContext(call[r].seen, m, call[r].question)]
                  /\ irregular \subseteq irregular'
  <2>1. PICK m : /\ call' = [call EXCEPT ![r].at = "charge", ![r].memory = m,
                       ![r].sent = BuildContext(call[r].seen, m, call[r].question)]
                 /\ irregular \subseteq irregular'
    BY <1>5
  <2>2. call = [x \in Requests |-> call[x]] BY DEF TypeOK
  <2>3. call' = [call EXCEPT ![r] = c(m)] BY <2>1, <2>2 DEF Sending
  <2>4. QED BY <1>4, <2>1, <2>3
<1>6. Fail(r) \/ \E m : /\ call' = [call EXCEPT ![r].at = "charge", ![r].memory = m,
                              ![r].sent = BuildContext(call[r].seen, m, call[r].question)]
                        /\ irregular \subseteq irregular'
  BY DEF BuildContextMessages, Note
<1>7. QED BY <1>3, <1>5, <1>6

LEMMA DeductDoes ==
    ASSUME TypeOK, NEW r \in Requests, Deduct(r)
    PROVE  CallType /\ Same(r) /\ Grows /\ Does(r)
<1>1. /\ At(r, "charge") /\ UNCHANGED <<messages, answers, nextId, asked>>
      /\ UNCHANGED <<found, calls>> /\ faults' \in Nat
  BY DEF Deduct, Stored, Clients, Fault, TypeOK
<1>2. Running(r) /\ CallOK(call[r]) /\ IsCall(call[r]) /\ ~call[r].paid /\ call[r].kind # "none"
  BY <1>1, RunningHere DEF Places, CallOK, At
<1>3. CASE /\ balance' = balance - Cost
           /\ call' = [call EXCEPT ![r].at = "generate", ![r].paid = Cost > 0,
                                   ![r].seen = <<>>, ![r].sent = {}, ![r].memory = {}]
           /\ UNCHANGED <<kept, irregular>>
  <2> DEFINE c == Paying(call[r], "generate", Cost > 0, <<>>, {}, {})
  <2>1. call' = [call EXCEPT ![r] = c]
    <3>1. call = [q \in Requests |-> call[q]] BY DEF TypeOK
    <3>2. QED BY <1>3, <3>1 DEF Paying
  <2>2. /\ IsCall(c) /\ c.at = "generate" /\ c.kind = call[r].kind
        /\ c.question = call[r].question /\ c.seen = <<>> /\ c.paid = (Cost > 0)
    BY <1>2, PaySet
  <2> HIDE DEF c
  <2>3. CallOK(c)
    <3>1. <<>> \in Seq(Message) /\ "generate" \in Places BY DEF Places
    <3>2. (Cost > 0) \in BOOLEAN OBVIOUS
    <3>3. QED BY <1>2, <2>2, <3>1, <3>2 DEF CallOK
  <2>4. CallType /\ Same(r) /\ call'[r] = c BY <2>1, <2>3, Changed
  <2>5. Pays(r) BY <1>1, <1>3, <2>2, <2>4 DEF Pays, Goes
  <2>6. QED BY <1>1, <1>3, <2>4, <2>5 DEF Does, Grows, TypeOK
<1>4. CASE balance' = balance - Cost /\ kept' = kept + 1 /\ Fail(r)
  BY <1>1, <1>4, FailOK DEF PaysForNothing, Does, Grows, TypeOK
<1>5. CASE Fail(r) /\ UNCHANGED <<balance, kept>>
  BY <1>1, <1>2, <1>5, FailOK DEF Ends, Does, Grows, Book, TypeOK
<1>6. QED BY <1>3, <1>4, <1>5 DEF Deduct

LEMMA GenerateChatDoes ==
    ASSUME TypeOK, NEW r \in Requests, GenerateChat(r)
    PROVE  CallType /\ Same(r) /\ Grows /\ Does(r)
<1>1. /\ At(r, "generate") /\ UNCHANGED Book /\ UNCHANGED <<found, calls>> /\ faults' \in Nat
  BY DEF GenerateChat, Stored, Clients, Book, Fault, TypeOK
<1>2. Running(r) /\ CallOK(call[r]) /\ call[r].kind # "none"
  BY <1>1, RunningHere DEF Places
<1>3. CASE FailPaid(r)
  BY <1>1, <1>2, <1>3, FailPaidOK DEF Does, Grows, TypeOK, At
<1>4. CASE /\ Goto(r, IF call[r].kind = "retry" THEN "answer" ELSE "question")
           /\ UNCHANGED irregular
  <2>1. PICK s \in {"answer", "question"} : Goto(r, s) /\ (s = "answer" <=> call[r].kind = "retry")
    BY <1>4
  <2>2. s \in Places /\ Fits(call[r], s) BY <1>1, <1>2, <2>1 DEF Places, Fits, CallOK, At
  <2>3. CallType /\ Same(r) /\ Goes(r, s)
        /\ call'[r].paid = call[r].paid /\ call'[r].seen = call[r].seen
    BY <2>1, <2>2, AtTo
  <2>4. Moves(r) BY <1>1, <2>1, <2>3 DEF Moves, Plain
  <2>5. QED BY <1>1, <1>4, <2>3, <2>4 DEF Does, Grows, TypeOK
<1>5. QED BY <1>3, <1>4 DEF GenerateChat

LEMMA SaveQuestionDoes ==
    ASSUME TypeOK, NEW r \in Requests, SaveQuestion(r)
    PROVE  CallType /\ Same(r) /\ Grows /\ Does(r)
<1>1. /\ At(r, "question") /\ UNCHANGED <<answers, kept, balance, nextId, asked>>
      /\ UNCHANGED <<found, calls>> /\ faults' \in Nat
  BY DEF SaveQuestion, Clients, Fault, TypeOK
<1>2. Running(r) /\ CallOK(call[r]) /\ call[r].kind # "none"
  BY <1>1, RunningHere DEF Places
<1>3. CASE FailPaid(r) /\ UNCHANGED messages
  <2>1. UNCHANGED Book BY <1>1, <1>3 DEF Book
  <2>2. QED BY <1>1, <1>2, <1>3, <2>1, FailPaidOK DEF Does, Grows, TypeOK, At
<1>4. CASE CreateMessage(call[r].question) /\ Goto(r, "answer") /\ UNCHANGED irregular
  <2>1. "answer" \in Places /\ Fits(call[r], "answer")
    BY <1>1, <1>2 DEF Places, Fits, CallOK, At
  <2>2. CallType /\ Same(r) /\ Goes(r, "answer")
        /\ call'[r].paid = call[r].paid /\ call'[r].seen = call[r].seen
    BY <1>4, <2>1, AtTo
  <2>3. SavesQuestion(r) BY <1>1, <1>4, <2>2 DEF SavesQuestion
  <2>4. QED BY <1>1, <1>4, <2>2, <2>3 DEF Does, Grows, TypeOK
<1>5. QED BY <1>3, <1>4 DEF SaveQuestion

LEMMA SaveAnswerDoes ==
    ASSUME TypeOK, NEW r \in Requests, SaveAnswer(r)
    PROVE  CallType /\ Same(r) /\ Grows /\ Does(r)
<1>1. /\ At(r, "answer") /\ UNCHANGED <<kept, balance, asked>>
      /\ UNCHANGED <<found, calls>> /\ faults' \in Nat
  BY DEF SaveAnswer, Fault, TypeOK
<1>2. Running(r) /\ CallOK(call[r]) /\ call[r].kind # "none"
  BY <1>1, RunningHere DEF Places
<1>3. CASE FailPaid(r) /\ UNCHANGED <<messages, nextId, answers>>
  <2>1. UNCHANGED Book BY <1>1, <1>3 DEF Book
  <2>2. QED BY <1>1, <1>2, <1>3, <2>1, FailPaidOK DEF Does, Grows, TypeOK, At
<1>4. CASE /\ CreateMessage([id |-> nextId, role |-> "assistant"]) /\ nextId' = nextId + 1
           /\ call' = [call EXCEPT ![r] = Idle]
           /\ answers' = answers \cup
                 {[id |-> nextId, to |-> call[r].question.id, by |-> call[r].kind]}
           /\ UNCHANGED irregular
  BY <1>1, <1>4, ToIdle DEF SavesAnswer, Does, Grows, TypeOK
<1>5. QED BY <1>3, <1>4 DEF SaveAnswer

LEMMA RefundDoes ==
    ASSUME TypeOK, NEW r \in Requests, RefundAiChatCredit(r)
    PROVE  CallType /\ Same(r) /\ Grows /\ Does(r)
<1>1. /\ At(r, "refund") /\ UNCHANGED <<messages, answers, nextId, asked>>
      /\ UNCHANGED <<found, calls>> /\ faults' \in Nat /\ Fail(r)
      /\ \/ balance' = balance + Cost /\ UNCHANGED kept
         \/ kept' = kept + 1 /\ UNCHANGED balance
  BY DEF RefundAiChatCredit, Stored, Clients, Fault, TypeOK
<1>2. QED BY <1>1, FailOK DEF Refunds, Does, Grows, TypeOK

LEMMA StepDoes ==
    ASSUME TypeOK, IdsOK, NEW r \in Requests, Arrive(r) \/ Step(r)
    PROVE  CallType /\ Same(r) /\ Grows /\ Does(r)
BY ArriveDoes, GetConversationDoes, CreateConversationDoes, GetMessagesDoes, DropAnswerDoes,
   AttachFilesDoes, BuildContextMessagesDoes, DeductDoes, GenerateChatDoes, SaveQuestionDoes,
   SaveAnswerDoes, RefundDoes
   DEF Step

LEMMA CrashDoes ==
    ASSUME TypeOK, Crash
    PROVE  CallType /\ Grows /\ Crashes
<1>1. CallType
  <2>1. call' = [r \in Requests |-> Idle] BY DEF Crash
  <2>2. \A r \in Requests : CallOK(call[r])' BY <2>1, IdleOK DEF CallOK, IsCall
  <2>3. QED BY <2>1, <2>2 DEF CallType
<1>2. Grows BY DEF Crash, Grows, Note, Fault, Stored, Clients, TypeOK
<1>3. Crashes BY DEF Crash, Crashes, Paid, Stored, Clients
<1>4. QED BY <1>1, <1>2, <1>3

LEMMA DeletionDeletes ==
    ASSUME TypeOK, DeleteConversation \/ \E id \in Ids : DeleteMessage(id)
    PROVE  CallType /\ Grows /\ Deletes
<1>1. ASSUME UNCHANGED call PROVE CallType
  BY <1>1 DEF CallType, CallOK, IsCall, TypeOK
<1>2. CASE DeleteConversation
  <2>1. /\ UNCHANGED call /\ UNCHANGED <<answers, kept, balance, nextId, asked, calls>>
        /\ faults' \in Nat /\ irregular' = irregular \cup {"deletion"}
        /\ found' = FALSE /\ messages' = <<>>
    BY <1>2 DEF DeleteConversation, TypeOK, Fault, Note, Clients
  <2>2. Grows BY <2>1 DEF Grows, TypeOK
  <2>3. Deletes BY <2>1 DEF Deletes
  <2>4. QED BY <1>1, <2>1, <2>2, <2>3
<1>3. ASSUME NEW id \in Ids, DeleteMessage(id) PROVE CallType /\ Grows /\ Deletes
  BY <1>1, <1>3 DEF DeleteMessage, Deletes, Grows, TypeOK, Fault, Note, Clients
<1>4. QED BY <1>2, <1>3

Moved ==
    /\ CallType /\ Grows
    /\ (\E r \in Requests : Same(r) /\ Does(r)) \/ Crashes \/ Deletes

LEMMA NextMoves ==
    ASSUME TypeOK, IdsOK, Next
    PROVE  Moved
<1>1. ASSUME NEW r \in Requests, Arrive(r) \/ Step(r) PROVE Moved
  BY <1>1, StepDoes DEF Moved
<1>2. CASE Crash BY <1>2, CrashDoes DEF Moved
<1>3. CASE DeleteConversation \/ \E id \in Ids : DeleteMessage(id)
  BY <1>3, DeletionDeletes DEF Moved
<1>4. QED BY <1>1, <1>2, <1>3 DEF Next

-----------------------------------------------------------------------------
(* The types.                                                              *)

LEMMA PaidFinite ==
    ASSUME IsFiniteSet(Requests)
    PROVE  IsFiniteSet(Paid) /\ Cardinality(Paid) \in Nat
BY FS_Subset, FS_CardinalityType DEF Paid

\* What a plain call asks can be saved.
LEMMA QuestionIsMessage ==
    ASSUME TypeOK, IdsOK, NEW r \in Requests, Running(r), Plain(r)
    PROVE  call[r].question \in Message /\ call[r].question.role = "user"
BY DEF TypeOK, CallOK, IdsOK, Message, Question

LEMMA MessagesType ==
    ASSUME TypeOK, IdsOK, Moved
    PROVE  messages' \in Seq(Message)
<1>0. messages \in Seq(Message) /\ nextId \in Nat BY DEF TypeOK
<1>1. CASE UNCHANGED messages BY <1>0, <1>1
<1>2. ASSUME NEW id \in IdsOf(messages), messages' = Without(messages, id)
      PROVE  messages' \in Seq(Message)
  BY <1>0, <1>2, WithoutOne
<1>3. ASSUME NEW r \in Requests, SavesQuestion(r) PROVE messages' \in Seq(Message)
  <2>1. Running(r) /\ Plain(r)
    BY <1>3, RunningHere DEF SavesQuestion, Places, CallOK, At, Plain
  <2>2. QED BY <1>0, <1>3, <2>1, QuestionIsMessage DEF SavesQuestion, CreateMessage
<1>4. ASSUME NEW r \in Requests, SavesAnswer(r) PROVE messages' \in Seq(Message)
  BY <1>0, <1>4 DEF SavesAnswer, CreateMessage, Message
<1>5. CASE messages' = <<>> BY <1>5
<1>6. ASSUME NEW r \in Requests, Does(r) PROVE messages' \in Seq(Message)
  BY <1>1, <1>2, <1>3, <1>4, <1>6
     DEF Does, Begins, Ends, Moves, Reads, Drops, Pays, PaysForNothing, Refunds, Book
<1>7. QED BY <1>1, <1>2, <1>5, <1>6 DEF Moved, Crashes, Deletes

LEMMA AnswersType ==
    ASSUME TypeOK, Moved
    PROVE  answers' \subseteq Answer /\ IsFiniteSet(answers')
<1>0. answers \subseteq Answer /\ IsFiniteSet(answers) /\ nextId \in Nat BY DEF TypeOK
<1>1. CASE UNCHANGED answers BY <1>0, <1>1
<1>2. ASSUME NEW r \in Requests, SavesAnswer(r)
      PROVE  answers' \subseteq Answer /\ IsFiniteSet(answers')
  <2>1. CallOK(call[r]) /\ call[r].kind # "none" BY <1>2, RunningHere DEF SavesAnswer, Places
  <2>2. [id |-> nextId, to |-> call[r].question.id, by |-> call[r].kind] \in Answer
    BY <1>0, <2>1 DEF CallOK, Answer, Question
  <2>3. answers' = answers \cup {[id |-> nextId, to |-> call[r].question.id, by |-> call[r].kind]}
    BY <1>2 DEF SavesAnswer
  <2>4. QED BY <1>0, <2>2, <2>3, FS_AddElement
<1>3. ASSUME NEW r \in Requests, Does(r)
      PROVE  answers' \subseteq Answer /\ IsFiniteSet(answers')
  BY <1>1, <1>2, <1>3
     DEF Does, Begins, Ends, Moves, Reads, Drops, Pays, PaysForNothing, SavesQuestion, Refunds, Book
<1>4. QED BY <1>1, <1>3 DEF Moved, Crashes, Deletes

LEMMA NumbersType ==
    ASSUME IsFiniteSet(Requests), TypeOK, Moved
    PROVE  balance' \in Int /\ nextId' \in Nat /\ kept' \in Nat /\ asked' \subseteq Nat
<1>0. balance \in Int /\ nextId \in Nat /\ kept \in Nat /\ asked \subseteq Nat /\ Cost \in Nat
  BY AiChatAssumption DEF TypeOK
<1>1. ASSUME NEW r \in Requests, Does(r)
      PROVE  balance' \in Int /\ nextId' \in Nat /\ kept' \in Nat /\ asked' \subseteq Nat
  <2>1. balance' \in {balance, balance - Cost, balance + Cost}
    BY <1>1 DEF Does, Begins, Ends, Moves, Reads, Drops, Pays, PaysForNothing, SavesQuestion,
                SavesAnswer, Refunds, Book
  <2>2. nextId' \in {nextId, nextId + 1} /\ kept' \in {kept, kept + 1}
    BY <1>1 DEF Does, Begins, Ends, Moves, Reads, Drops, Pays, PaysForNothing, SavesQuestion,
                SavesAnswer, Refunds, Book
  <2>3. asked' = asked \/ asked' = asked \cup {nextId}
    BY <1>1 DEF Does, Begins, Ends, Moves, Reads, Drops, Pays, PaysForNothing, SavesQuestion,
                SavesAnswer, Refunds, Book
  <2>4. balance' \in Int BY <1>0, <2>1
  <2>5. nextId' \in Nat /\ kept' \in Nat BY <1>0, <2>2
  <2>6. asked' \subseteq Nat BY <1>0, <2>3
  <2>7. QED BY <2>4, <2>5, <2>6
<1>2. CASE Crashes BY <1>0, <1>2, PaidFinite DEF Crashes
<1>3. CASE Deletes BY <1>0, <1>3 DEF Deletes
<1>4. QED BY <1>1, <1>2, <1>3 DEF Moved

LEMMA TypeStep ==
    ASSUME IsFiniteSet(Requests), TypeOK, IdsOK, Moved
    PROVE  TypeOK'
<1>1. CallType /\ found' \in BOOLEAN /\ calls' \in Nat /\ faults' \in Nat
  BY DEF Moved, Grows
<1>2. QED BY <1>1, MessagesType, AnswersType, NumbersType DEF TypeOK, CallType

-----------------------------------------------------------------------------
(* The balance.                                                            *)

Total == Cardinality(answers) + Cardinality(Paid) + kept

\* What a step may do to the balance and to what it went to.
Balances ==
    \/ balance' = balance /\ Total' = Total
    \/ balance' = balance - Cost /\ Total' = Total + 1
    \/ balance' = balance + Cost /\ Total' = Total - 1

LEMMA CostTimes ==
    ASSUME NEW c \in Nat, NEW n \in Int
    PROVE  c * (n + 1) = c * n + c /\ c * (n - 1) = c * n - c /\ c * n \in Int
OBVIOUS

LEMMA PaidBy ==
    ASSUME IsFiniteSet(Requests), CallType, NEW r \in Requests, Same(r)
    PROVE  /\ call'[r].paid = call[r].paid => Cardinality(Paid)' = Cardinality(Paid)
           /\ ~call[r].paid /\ call'[r].paid => Cardinality(Paid)' = Cardinality(Paid) + 1
           /\ call[r].paid /\ ~call'[r].paid => Cardinality(Paid)' = Cardinality(Paid) - 1
<1>1. IsFiniteSet(Paid) BY PaidFinite
<1>2. \A q \in Requests \ {r} : call'[q].paid = call[q].paid BY DEF Same
<1>3. CASE call'[r].paid = call[r].paid
  <2>1. Paid' = Paid BY <1>2, <1>3 DEF Paid
  <2>2. QED BY <1>3, <2>1
<1>4. CASE ~call[r].paid /\ call'[r].paid
  <2>1. Paid' = Paid \cup {r} /\ r \notin Paid BY <1>2, <1>4 DEF Paid
  <2>2. QED BY <1>1, <1>4, <2>1, FS_AddElement
<1>5. CASE call[r].paid /\ ~call'[r].paid
  <2>1. Paid' = Paid \ {r} /\ r \in Paid BY <1>2, <1>5 DEF Paid
  <2>2. QED BY <1>1, <1>5, <2>1, FS_RemoveElement
<1>6. QED BY <1>3, <1>4, <1>5

LEMMA CallBalances ==
    ASSUME IsFiniteSet(Requests), TypeOK, IdsOK, CallType, Cost > 0,
           NEW r \in Requests, Same(r), Does(r)
    PROVE  Balances
<1>0. /\ kept \in Nat /\ IsFiniteSet(answers) /\ Cardinality(answers) \in Nat
      /\ Cardinality(Paid) \in Nat /\ CallOK(call[r]) /\ CallOK(call'[r])
      /\ balance \in Int /\ Cost \in Nat
  <2>1. IsFiniteSet(answers) /\ Cardinality(answers) \in Nat
    BY FS_CardinalityType DEF TypeOK
  <2>2. CallOK(call'[r]) BY DEF CallType, CallOK, IsCall
  <2>3. QED BY <2>1, <2>2, PaidFinite, AiChatAssumption DEF TypeOK
<1> DEFINE a == Cardinality(answers)
           p == Cardinality(Paid)
<1>1. ASSUME UNCHANGED <<balance, answers, kept>>, call'[r].paid = call[r].paid
      PROVE  Balances
  BY <1>1, PaidBy DEF Balances, Total
<1>2. CASE Begins(r)
  <2>1. ~call[r].paid BY <1>0, <1>2 DEF Begins, Running, CallOK
  <2>2. call'[r].paid = call[r].paid BY <1>0, <1>2, <2>1 DEF Begins, CallOK
  <2>3. QED BY <1>1, <1>2, <2>2 DEF Begins
<1>3. CASE Ends(r)
  <2>1. call'[r].paid = call[r].paid BY <1>0, <1>3, IdleOK DEF Ends, CallOK
  <2>2. QED BY <1>1, <1>3, <2>1 DEF Ends, Book
<1>4. CASE Moves(r) \/ Reads(r) \/ Drops(r) \/ SavesQuestion(r)
  BY <1>1, <1>4 DEF Moves, Reads, Drops, SavesQuestion, Book
<1>5. CASE Pays(r)
  <2>1. ~call[r].paid /\ call'[r].paid BY <1>0, <1>5 DEF Pays, CallOK, At
  <2>2. p' = p + 1 /\ a' = a /\ kept' = kept /\ balance' = balance - Cost
    BY <1>5, <2>1, PaidBy DEF Pays
  <2>3. QED BY <1>0, <2>2 DEF Balances, Total
<1>6. CASE PaysForNothing(r)
  <2>1. call'[r].paid = call[r].paid BY <1>0, <1>6, IdleOK DEF PaysForNothing, CallOK, At
  <2>2. p' = p /\ a' = a /\ kept' = kept + 1 /\ balance' = balance - Cost
    BY <1>6, <2>1, PaidBy DEF PaysForNothing
  <2>3. QED BY <1>0, <2>2 DEF Balances, Total
<1>7. CASE SavesAnswer(r)
  <2> DEFINE x == [id |-> nextId, to |-> call[r].question.id, by |-> call[r].kind]
  <2>1. call[r].paid /\ ~call'[r].paid BY <1>0, <1>7, IdleOK DEF SavesAnswer, CallOK, At
  <2>2. x \notin answers
    <3>1. x.id = nextId /\ nextId \in Nat BY DEF TypeOK
    <3>2. \A y \in answers : y.id < nextId BY DEF IdsOK
    <3>3. QED BY <3>1, <3>2
  <2>3. a' = a + 1 BY <1>0, <1>7, <2>2, FS_AddElement DEF SavesAnswer
  <2>4. p' = p - 1 /\ kept' = kept /\ balance' = balance
    BY <1>7, <2>1, PaidBy DEF SavesAnswer
  <2>5. QED BY <1>0, <2>3, <2>4 DEF Balances, Total
<1>8. CASE Refunds(r)
  <2>1. call[r].paid /\ ~call'[r].paid BY <1>0, <1>8, IdleOK DEF Refunds, CallOK, At
  <2>2. p' = p - 1 /\ a' = a BY <1>8, <2>1, PaidBy DEF Refunds
  <2>3. \/ balance' = balance + Cost /\ kept' = kept
        \/ balance' = balance /\ kept' = kept + 1
    BY <1>8 DEF Refunds
  <2>4. QED BY <1>0, <2>2, <2>3 DEF Balances, Total
<1>9. QED BY <1>2, <1>3, <1>4, <1>5, <1>6, <1>7, <1>8 DEF Does

LEMMA MovedBalances ==
    ASSUME IsFiniteSet(Requests), TypeOK, IdsOK, Moved, Cost > 0
    PROVE  Balances
<1>1. ASSUME NEW r \in Requests, Same(r), Does(r) PROVE Balances
  BY <1>1, CallBalances DEF Moved
<1>2. CASE Crashes
  <2>1. Paid' = {} BY <1>2, IdleOK DEF Crashes, Paid
  <2>2. Cardinality(Paid)' = 0 BY <2>1, FS_EmptySet
  <2>3. kept \in Nat /\ Cardinality(Paid) \in Nat /\ Cardinality(answers) \in Nat
    BY PaidFinite, FS_CardinalityType DEF TypeOK
  <2>4. Total' = Total /\ balance' = balance BY <1>2, <2>2, <2>3 DEF Crashes, Total
  <2>5. QED BY <2>4 DEF Balances
<1>3. CASE Deletes BY <1>3 DEF Deletes, Balances, Total, Paid
<1>4. QED BY <1>1, <1>2, <1>3 DEF Moved

LEMMA FreeStays ==
    ASSUME TypeOK, Moved, Cost = 0
    PROVE  balance' = balance
<1>1. ASSUME NEW r \in Requests, Does(r) PROVE balance' = balance
  <2>1. balance' \in {balance, balance - Cost, balance + Cost}
    BY <1>1 DEF Does, Begins, Ends, Moves, Reads, Drops, Pays, PaysForNothing, SavesQuestion,
                SavesAnswer, Refunds, Book
  <2>2. QED BY <2>1 DEF TypeOK
<1>2. QED BY <1>1 DEF Moved, Crashes, Deletes

LEMMA TotalType ==
    ASSUME IsFiniteSet(Requests), TypeOK
    PROVE  Total \in Int
BY PaidFinite, FS_CardinalityType DEF TypeOK, Total

LEMMA BalanceStep ==
    ASSUME IsFiniteSet(Requests), TypeOK, TypeOK', IdsOK, BalanceOK, Moved
    PROVE  BalanceOK'
<1>0. Cost \in Nat /\ balance \in Int /\ Total \in Int /\ Total' \in Int
  <2>1. Total' \in Int
    <3>1. IsFiniteSet(Paid') BY FS_Subset DEF Paid
    <3>2. QED BY <3>1, FS_CardinalityType DEF TypeOK, Total
  <2>2. QED BY <2>1, TotalType, AiChatAssumption DEF TypeOK
<1>1. balance + Cost * Total = Funds BY DEF BalanceOK, Total
<1>2. CASE Cost = 0
  <2>1. balance' = balance BY <1>2, FreeStays
  <2>2. Cost * Total = 0 /\ Cost * Total' = 0
    <3>1. \A n \in Int : 0 * n = 0 OBVIOUS
    <3>2. QED BY <1>0, <1>2, <3>1
  <2>3. balance' + Cost * Total' = Funds BY <1>0, <1>1, <2>1, <2>2
  <2>4. QED BY <2>3 DEF BalanceOK, Total
<1>3. CASE Cost > 0
  <2>1. Balances BY <1>3, MovedBalances
  <2>2. /\ Cost * (Total + 1) = Cost * Total + Cost /\ Cost * (Total - 1) = Cost * Total - Cost
        /\ Cost * Total \in Int
    BY <1>0, CostTimes
  <2>3. balance' + Cost * Total' = Funds
    <3>1. CASE balance' = balance /\ Total' = Total BY <1>1, <3>1
    <3>2. CASE balance' = balance - Cost /\ Total' = Total + 1
      <4>1. Cost * Total' = Cost * Total + Cost BY <2>2, <3>2
      <4>2. QED BY <1>0, <1>1, <2>2, <3>2, <4>1
    <3>3. CASE balance' = balance + Cost /\ Total' = Total - 1
      <4>1. Cost * Total' = Cost * Total - Cost BY <2>2, <3>3
      <4>2. QED BY <1>0, <1>1, <2>2, <3>3, <4>1
    <3>4. QED BY <2>1, <3>1, <3>2, <3>3 DEF Balances
  <2>4. QED BY <2>3 DEF BalanceOK, Total
<1>4. QED BY <1>0, <1>2, <1>3

-----------------------------------------------------------------------------
(* The ids.                                                                *)

LEMMA IdsGrow ==
    ASSUME TypeOK, IdsOK, Moved
    PROVE  /\ nextId' \in Nat /\ nextId' >= nextId
           /\ asked \subseteq asked' /\ asked' \subseteq asked \cup {nextId}
           /\ \A id \in asked' : id < nextId'
<1>0. nextId \in Nat /\ asked \subseteq Nat /\ \A id \in asked : id < nextId
  BY DEF TypeOK, IdsOK
<1>1. CASE nextId' = nextId /\ asked' = asked BY <1>0, <1>1
<1>2. CASE nextId' = nextId + 1 /\ asked' = asked BY <1>0, <1>2
<1>3. CASE nextId' = nextId + 1 /\ asked' = asked \cup {nextId} BY <1>0, <1>3
<1>4. ASSUME NEW r \in Requests, Does(r)
      PROVE  \/ nextId' = nextId /\ asked' = asked
             \/ nextId' = nextId + 1 /\ asked' = asked
             \/ nextId' = nextId + 1 /\ asked' = asked \cup {nextId}
  BY <1>4 DEF Does, Begins, Ends, Moves, Reads, Drops, Pays, PaysForNothing, SavesQuestion,
              SavesAnswer, Refunds, Book
<1>5. QED BY <1>1, <1>2, <1>3, <1>4 DEF Moved, Crashes, Deletes

\* A message that was old stays so.
LEMMA OldStays ==
    ASSUME TypeOK, IdsOK, Moved
    PROVE  \A m \in Message : Old(m) => OldBy(m, nextId', asked')
<1>1. TAKE m \in Message
<1>2. HAVE Old(m)
<1>3. m.id \in Nat BY DEF Message
<1>4. m.id < nextId' /\ m.id # nextId BY <1>2, <1>3, IdsGrow DEF Old, OldBy, TypeOK
<1>5. m.role = "assistant" => m.id \notin asked' BY <1>2, <1>4, IdsGrow DEF Old, OldBy
<1>6. QED BY <1>4, <1>5 DEF OldBy

LEMMA MessagesNeat ==
    ASSUME TypeOK, IdsOK, Moved
    PROVE  /\ \A i \in DOMAIN messages' : OldBy(messages'[i], nextId', asked')
           /\ \A i, j \in DOMAIN messages' : messages'[i].id = messages'[j].id => i = j
<1> DEFINE m == messages
           Goal == /\ \A i \in DOMAIN m' : OldBy(m'[i], nextId', asked')
                   /\ \A i, j \in DOMAIN m' : m'[i].id = m'[j].id => i = j
<1>0. m \in Seq(Message) /\ nextId \in Nat /\ \A i \in DOMAIN m : m[i] \in Message
  BY DEF TypeOK
<1>1. /\ \A i \in DOMAIN m : Old(m[i])
      /\ \A i, j \in DOMAIN m : m[i].id = m[j].id => i = j
  BY DEF IdsOK
<1>2. \A i \in DOMAIN m : OldBy(m[i], nextId', asked') BY <1>0, <1>1, OldStays
<1>3. CASE m' = m BY <1>1, <1>2, <1>3
<1>4. ASSUME NEW id \in IdsOf(m), m' = Without(m, id) PROVE Goal
  <2>1. /\ \A i \in DOMAIN m' : \E j \in DOMAIN m : m'[i] = m[j]
        /\ \A i, j \in DOMAIN m' : m'[i].id = m'[j].id => i = j
    BY <1>0, <1>1, <1>4, OthersStay
  <2>2. QED BY <1>2, <2>1
<1>5. ASSUME NEW x \in Message, OldBy(x, nextId', asked'), x.id \notin IdsOf(m), m' = Append(m, x) PROVE Goal
  <2>1. /\ Len(m') = Len(m) + 1 /\ m'[Len(m')] = x /\ \A i \in DOMAIN m : m'[i] = m[i]
        /\ \A i, j \in DOMAIN m' : m'[i].id = m'[j].id => i = j
        /\ m' \in Seq(Message)
    BY <1>0, <1>1, <1>5, AppendOne
  <2>2. \A i \in DOMAIN m' : i \in DOMAIN m \/ i = Len(m') BY <1>0, <2>1
  <2>3. QED BY <1>2, <1>5, <2>1, <2>2
<1>6. CASE m' = <<>> BY <1>6
<1>7. ASSUME NEW r \in Requests, SavesQuestion(r) PROVE Goal
  <2> DEFINE x == call[r].question
  <2>1. Running(r) /\ Plain(r)
    BY <1>7, RunningHere DEF SavesQuestion, Places, CallOK, At, Plain
  <2>2. x \in Message /\ x.role = "user" /\ x.id \in asked
    BY <2>1, QuestionIsMessage DEF IdsOK
  <2>3. x.id < nextId BY <2>2 DEF IdsOK
  <2>4. Old(x) BY <2>2, <2>3 DEF Old, OldBy
  <2>5. OldBy(x, nextId', asked') BY <2>2, <2>4, OldStays
  <2>6. QED BY <1>5, <1>7, <2>2, <2>5 DEF SavesQuestion, CreateMessage
<1>8. ASSUME NEW r \in Requests, SavesAnswer(r) PROVE Goal
  <2> DEFINE x == [id |-> nextId, role |-> "assistant"]
  <2>1. x \in Message BY <1>0 DEF Message
  <2>2. nextId' = nextId + 1 /\ asked' = asked BY <1>8 DEF SavesAnswer
  <2>3. nextId \notin asked BY <1>0 DEF IdsOK
  <2>4. OldBy(x, nextId', asked') BY <1>0, <2>2, <2>3 DEF Old, OldBy
  <2>5. QED BY <1>5, <1>8, <2>1, <2>4 DEF SavesAnswer, CreateMessage
<1>9. ASSUME NEW r \in Requests, Does(r) PROVE Goal
  BY <1>3, <1>4, <1>7, <1>8, <1>9
     DEF Does, Begins, Ends, Moves, Reads, Drops, Pays, PaysForNothing, Refunds, Book
<1>10. QED BY <1>3, <1>4, <1>6, <1>9 DEF Moved, Crashes, Deletes

LEMMA SeenOld ==
    ASSUME TypeOK, IdsOK, Moved, NEW q \in Requests
    PROVE  \A i \in DOMAIN call'[q].seen : OldBy(call'[q].seen[i], nextId', asked')
<1>0. /\ messages \in Seq(Message) /\ call[q].seen \in Seq(Message)
      /\ \A i \in DOMAIN messages : messages[i] \in Message /\ Old(messages[i])
      /\ \A i \in DOMAIN call[q].seen : call[q].seen[i] \in Message /\ Old(call[q].seen[i])
  BY DEF TypeOK, CallOK, IdsOK
<1>1. /\ \A i \in DOMAIN messages : OldBy(messages[i], nextId', asked')
      /\ \A i \in DOMAIN call[q].seen : OldBy(call[q].seen[i], nextId', asked')
  BY <1>0, OldStays
<1>2. CASE call'[q].seen = <<>> BY <1>2
<1>3. CASE call'[q].seen = call[q].seen BY <1>1, <1>3
<1>4. CASE call'[q].seen = messages BY <1>1, <1>4
<1>5. CASE \A i \in DOMAIN call'[q].seen :
              i \in DOMAIN call[q].seen /\ call'[q].seen[i] = call[q].seen[i]
  BY <1>1, <1>5
<1>6. ASSUME NEW r \in Requests, Same(r), Does(r)
      PROVE  \A i \in DOMAIN call'[q].seen : OldBy(call'[q].seen[i], nextId', asked')
  <2>1. CASE q # r BY <1>3, <1>6, <2>1 DEF Same
  <2>2. CASE q = r
    BY <1>2, <1>3, <1>4, <1>5, <1>6, <2>2, IdleOK
       DEF Does, Begins, Ends, Moves, Reads, Drops, Pays, PaysForNothing, SavesQuestion,
           SavesAnswer, Refunds
  <2>3. QED BY <2>1, <2>2
<1>7. QED BY <1>2, <1>3, <1>6, IdleOK DEF Moved, Crashes, Deletes

LEMMA DroppedIsAnswer ==
    ASSUME TypeOK, IdsOK, Moved, NEW q \in Requests, call'[q].at = "drop"
    PROVE  /\ call'[q].seen # <<>>
           /\ call'[q].seen[Len(call'[q].seen)].role = "assistant"
<1>1. CASE call'[q] = call[q] BY <1>1 DEF IdsOK
<1>2. ASSUME NEW r \in Requests, Same(r), Does(r), q = r
      PROVE  /\ call'[q].seen # <<>>
             /\ call'[q].seen[Len(call'[q].seen)].role = "assistant"
  BY <1>2, IdleOK
     DEF Does, Begins, Ends, Moves, Reads, Drops, Pays, PaysForNothing, SavesQuestion,
         SavesAnswer, Refunds, Goes, LastIsAnswer
<1>3. QED BY <1>1, <1>2, IdleOK DEF Moved, Crashes, Deletes, Same

LEMMA QuestionAsked ==
    ASSUME TypeOK, IdsOK, Moved, NEW q \in Requests, call'[q].at # "idle", call'[q].kind # "retry"
    PROVE  call'[q].question.id \in asked' /\ call'[q].question.role = "user"
<1>1. ASSUME call'[q].at # "idle", call'[q].question = call[q].question, Running(q), Plain(q)
      PROVE  call'[q].question.id \in asked' /\ call'[q].question.role = "user"
  BY <1>1, IdsGrow DEF IdsOK
<1>2. CASE call'[q] = call[q] BY <1>1, <1>2 DEF Running, Plain
<1>3. ASSUME NEW r \in Requests, Same(r), Does(r), q = r
      PROVE  call'[q].question.id \in asked' /\ call'[q].question.role = "user"
  <2>1. CASE Begins(r) BY <1>3, <2>1 DEF Begins, Plain
  <2>2. CASE call'[r] = Idle BY <1>3, <2>2, IdleOK
  <2>3. CASE Drops(r)
    <3>1. call[r].kind = "retry" BY <2>3 DEF Drops, At, TypeOK, CallOK
    <3>2. QED BY <1>3, <2>3, <3>1 DEF Drops
  <2>4. ASSUME NEW s, NEW t \in Places \ {"idle"}, Goes(r, s), At(r, t)
        PROVE  call'[q].question.id \in asked' /\ call'[q].question.role = "user"
    BY <1>1, <1>3, <2>4 DEF Goes, At, Running, Plain
  <2>5. CASE Moves(r) BY <2>4, <2>5 DEF Moves, Places, At
  <2>6. CASE Reads(r) BY <2>4, <2>6 DEF Reads, Places
  <2>7. CASE Pays(r) \/ SavesQuestion(r) BY <2>4, <2>7 DEF Pays, SavesQuestion, Places
  <2>8. QED BY <1>3, <2>1, <2>2, <2>3, <2>5, <2>6, <2>7
             DEF Does, Ends, PaysForNothing, SavesAnswer, Refunds
<1>4. QED BY <1>2, <1>3, IdleOK DEF Moved, Crashes, Deletes, Same

LEMMA AnswersOld ==
    ASSUME TypeOK, IdsOK, Moved
    PROVE  \A a \in answers' : a.id < nextId'
<1>0. \A a \in answers : a.id \in Nat /\ a.id < nextId BY DEF TypeOK, Answer, IdsOK
<1>1. \A a \in answers : a.id < nextId' BY <1>0, IdsGrow DEF TypeOK
<1>2. ASSUME NEW r \in Requests, SavesAnswer(r) PROVE \A a \in answers' : a.id < nextId'
  BY <1>1, <1>2 DEF SavesAnswer, TypeOK
<1>3. ASSUME NEW r \in Requests, Does(r) PROVE \A a \in answers' : a.id < nextId'
  BY <1>1, <1>2, <1>3
     DEF Does, Begins, Ends, Moves, Reads, Drops, Pays, PaysForNothing, SavesQuestion, Refunds, Book
<1>4. QED BY <1>1, <1>3 DEF Moved, Crashes, Deletes

LEMMA IdsStep ==
    ASSUME TypeOK, IdsOK, Moved
    PROVE  IdsOK'
BY IdsGrow, MessagesNeat, SeenOld, DroppedIsAnswer, QuestionAsked, AnswersOld
   DEF IdsOK, Running, Plain, Old

-----------------------------------------------------------------------------
(* Questions and their answers.                                            *)

\* A retry deletes no question.
LEMMA AskedStay ==
    ASSUME TypeOK, IdsOK, NEW r \in Requests, Does(r), NEW x \in asked, x \in IdsOf(messages)
    PROVE  x \in IdsOf(messages')
<1>0. /\ messages \in Seq(Message) /\ nextId \in Nat
      /\ \A i, j \in DOMAIN messages : messages[i].id = messages[j].id => i = j
  BY DEF TypeOK, IdsOK
<1>1. CASE UNCHANGED messages BY <1>1
<1>2. CASE Drops(r)
  <2> DEFINE seen == call[r].seen
             m == seen[Len(seen)]
  <2>1. seen \in Seq(Message) BY DEF TypeOK, CallOK
  <2>2. seen # <<>> /\ m.role = "assistant" BY <1>2 DEF Drops, IdsOK, At
  <2>3. Len(seen) \in DOMAIN seen BY <2>1, <2>2
  <2>4. m.id \notin asked BY <2>2, <2>3 DEF IdsOK, Old, OldBy
  <2>5. m.id \in IdsOf(messages) /\ messages' = Without(messages, m.id) BY <1>2 DEF Drops
  <2>6. x # m.id BY <2>4
  <2> HIDE DEF m
  <2>7. QED BY <1>0, <2>5, <2>6, OthersStay
<1>3. ASSUME NEW m, messages' = Append(messages, m) PROVE x \in IdsOf(messages')
  <2>1. PICK i \in DOMAIN messages : messages[i].id = x BY DEF IdsOf
  <2>2. i \in DOMAIN messages' /\ messages'[i] = messages[i] BY <1>0, <1>3
  <2>3. QED BY <2>1, <2>2 DEF IdsOf
<1>4. QED BY <1>1, <1>2, <1>3
  DEF Does, Begins, Ends, Moves, Reads, Pays, PaysForNothing, SavesQuestion, SavesAnswer,
      Refunds, CreateMessage, Book

\* Only SaveQuestion leads to the place before the answer.
LEMMA SavedComes ==
    ASSUME TypeOK, NEW r \in Requests, Same(r), Does(r), NEW q \in Requests, Saved(q)'
    PROVE  \/ q = r /\ SavesQuestion(r)
           \/ q # r /\ Saved(q) /\ call'[q] = call[q]
<1>1. CASE q # r BY <1>1 DEF Same, Saved, At, Plain
<1>2. CASE q = r
  BY <1>2, IdleOK
     DEF Does, Begins, Ends, Moves, Reads, Drops, Pays, PaysForNothing, SavesQuestion,
         SavesAnswer, Refunds, Goes, Saved, At, Plain
<1>3. QED BY <1>1, <1>2

LEMMA QuestionsStep ==
    ASSUME TypeOK, IdsOK, QuestionsOK, Moved
    PROVE  QuestionsOK'
<1> SUFFICES ASSUME "deletion" \notin irregular'
             PROVE  (OneAnswerPerQuestion /\ AnsweredStay /\ SavedOpen /\ SavedApart)'
  BY DEF QuestionsOK
<1>0. /\ "deletion" \notin irregular /\ ~Deletes
      /\ OneAnswerPerQuestion /\ AnsweredStay /\ SavedOpen /\ SavedApart
  BY DEF QuestionsOK, Moved, Grows, Deletes
<1>1. CASE Crashes
  BY <1>0, <1>1, IdleOK
     DEF Crashes, OneAnswerPerQuestion, AnsweredStay, SavedOpen, SavedApart, Saved, At
<1>2. ASSUME NEW r \in Requests, Same(r), Does(r)
      PROVE  (OneAnswerPerQuestion /\ AnsweredStay /\ SavedOpen /\ SavedApart)'
  <2> DEFINE new == [id |-> nextId, to |-> call[r].question.id, by |-> call[r].kind]
  <2>1. answers' = answers \/ SavesAnswer(r)
    BY <1>2 DEF Does, Begins, Ends, Moves, Reads, Drops, Pays, PaysForNothing, SavesQuestion,
                Refunds, Book
  <2>2. SavesAnswer(r) => answers' = answers \cup {new} BY DEF SavesAnswer
  <2>3. new.to = call[r].question.id /\ new.by = call[r].kind OBVIOUS
  <2> HIDE DEF new
  <2>4. ASSUME SavesAnswer(r), new.by # "retry"
        PROVE  /\ Saved(r) /\ call[r].question.id \in IdsOf(messages)
               /\ call[r].question.id \in asked
               /\ \A a \in answers : a.by # "retry" => a.to # new.to
    <3>1. Saved(r) /\ Running(r) BY <2>3, <2>4 DEF SavesAnswer, Saved, Plain, At, Running
    <3>2. QED BY <1>0, <2>3, <3>1 DEF SavedOpen, IdsOK, Saved
  <2>5. OneAnswerPerQuestion'
    BY <1>0, <2>1, <2>2, <2>4 DEF OneAnswerPerQuestion
  <2>6. AnsweredStay'
    <3>1. \A x \in asked : x \in IdsOf(messages) => x \in asked' /\ x \in IdsOf(messages')
      BY <1>2, AskedStay, IdsGrow
    <3>2. \A a \in answers : a.by # "retry" => a.to \in asked' /\ a.to \in IdsOf(messages')
      BY <1>0, <3>1 DEF AnsweredStay
    <3>3. SavesAnswer(r) /\ new.by # "retry" => new.to \in asked' /\ new.to \in IdsOf(messages')
      BY <2>3, <2>4, <3>1
    <3>4. IdsOf(messages)' = IdsOf(messages') BY DEF IdsOf
    <3>5. QED BY <2>1, <2>2, <3>2, <3>3, <3>4 DEF AnsweredStay
  <2>7. ASSUME NEW q \in Requests, Saved(q)', q # r
        PROVE  Saved(q) /\ call'[q] = call[q] /\ Running(q) /\ Plain(q)
    BY <1>2, <2>7, SavedComes DEF Saved, At, Running
  <2>8. SavedOpen'
    <3> SUFFICES ASSUME NEW q \in Requests, Saved(q)'
                 PROVE  /\ call'[q].question.id \in IdsOf(messages')
                        /\ \A a \in answers' : a.by # "retry" => a.to # call'[q].question.id
      BY DEF SavedOpen, IdsOf
    <3>1. CASE q = r
      <4>1. SavesQuestion(r) BY <1>2, <3>1, SavedComes
      <4>2. /\ call[r].question.id \notin IdsOf(messages) /\ answers' = answers
            /\ messages' = Append(messages, call[r].question)
            /\ call'[r].question = call[r].question
        BY <4>1 DEF SavesQuestion, CreateMessage, Goes
      <4>3. call[r].question.id \in IdsOf(messages')
        <5>1. messages \in Seq(Message) BY DEF TypeOK
        <5>2. Len(messages') \in DOMAIN messages' /\ messages'[Len(messages')] = call[r].question
          BY <4>2, <5>1
        <5>3. QED BY <5>2 DEF IdsOf
      <4>4. QED BY <1>0, <3>1, <4>2, <4>3 DEF AnsweredStay
    <3>2. CASE q # r
      <4>1. Saved(q) /\ call'[q] = call[q] /\ Running(q) /\ Plain(q) BY <2>7, <3>2
      <4>2. call[q].question.id \in IdsOf(messages')
        BY <1>0, <1>2, <4>1, AskedStay DEF SavedOpen, IdsOK
      <4>3. \A a \in answers : a.by # "retry" => a.to # call[q].question.id
        BY <1>0, <4>1 DEF SavedOpen
      <4>4. SavesAnswer(r) /\ new.by # "retry" => new.to # call[q].question.id
        BY <1>0, <2>3, <2>4, <3>2, <4>1 DEF SavedApart
      <4>5. QED BY <2>1, <2>2, <4>1, <4>2, <4>3, <4>4
    <3>3. QED BY <3>1, <3>2
  <2>9. SavedApart'
    <3>1. ASSUME NEW q \in Requests, Saved(q)', q # r, Saved(r)'
          PROVE  call'[q].question.id # call'[r].question.id
      <4>1. SavesQuestion(r) BY <1>2, <3>1, SavedComes
      <4>2. /\ call[r].question.id \notin IdsOf(messages)
            /\ call'[r].question = call[r].question
        BY <4>1 DEF SavesQuestion, CreateMessage, Goes
      <4>3. Saved(q) /\ call'[q] = call[q] BY <2>7, <3>1
      <4>4. QED BY <1>0, <4>2, <4>3 DEF SavedOpen
    <3>2. \A p, q \in Requests :
             Saved(p)' /\ Saved(q)' /\ call'[p].question.id = call'[q].question.id => p = q
      BY <1>0, <2>7, <3>1 DEF SavedApart
    <3>3. QED BY <3>2 DEF SavedApart
  <2>10. QED BY <2>5, <2>6, <2>8, <2>9
<1>3. QED BY <1>0, <1>1, <1>2 DEF Moved

-----------------------------------------------------------------------------
(* Questions, each followed by its answer.                                 *)

Last(m, role) == m # <<>> /\ m[Len(m)].role = role

LEMMA FollowAppend ==
    ASSUME NEW m \in Seq(Message), AnswersFollow(m), NEW x \in Message,
           x.role = "assistant" => Last(m, "user")
    PROVE  AnswersFollow(Append(m, x)) /\ Last(Append(m, x), x.role)
<1> DEFINE a == Append(m, x)
<1>1. /\ Len(m) \in Nat /\ DOMAIN m = 1..Len(m)
      /\ a \in Seq(Message) /\ Len(a) = Len(m) + 1 /\ DOMAIN a = 1..(Len(m) + 1)
      /\ a[Len(a)] = x /\ \A i \in 1..Len(m) : a[i] = m[i]
  OBVIOUS
<1>2. x.role = "assistant" => Len(m) > 0 /\ m[Len(m)].role = "user"
  BY <1>1 DEF Last
<1> HIDE DEF a
<1>3. ASSUME NEW i \in DOMAIN a, a[i].role = "assistant" PROVE i > 1 /\ a[i - 1].role = "user"
  <2>1. CASE i = Len(a)
    <3>1. Len(m) > 0 /\ m[Len(m)].role = "user" BY <1>1, <1>2, <1>3, <2>1
    <3>2. i - 1 = Len(m) /\ i > 1 /\ Len(m) \in 1..Len(m) BY <1>1, <2>1, <3>1
    <3>3. QED BY <1>1, <3>1, <3>2
  <2>2. CASE i # Len(a)
    <3>1. i \in DOMAIN m /\ a[i] = m[i] BY <1>1, <2>2
    <3>2. i > 1 /\ m[i - 1].role = "user" BY <1>3, <3>1 DEF AnswersFollow
    <3>3. i - 1 \in 1..Len(m) BY <1>1, <3>1, <3>2
    <3>4. QED BY <1>1, <3>2, <3>3
  <2>3. QED BY <2>1, <2>2
<1>4. Last(a, x.role)
  <2>1. a # <<>> BY <1>1
  <2>2. QED BY <1>1, <2>1 DEF Last
<1>5. QED BY <1>3, <1>4 DEF AnswersFollow, a

\* Without the last message, an answer, the last is its question.
LEMMA FollowDrop ==
    ASSUME NEW m \in Seq(Message), AnswersFollow(m), Last(m, "assistant"),
           \A i, j \in DOMAIN m : m[i].id = m[j].id => i = j
    PROVE  LET w == Without(m, m[Len(m)].id) IN
           /\ AnswersFollow(w) /\ Last(w, "user")
           /\ Len(m) > 1 /\ m[Len(m) - 1].role = "user"
<1> DEFINE id == m[Len(m)].id
           w == Without(m, id)
<1>1. Len(m) \in Nat /\ DOMAIN m = 1..Len(m) /\ Len(m) > 0 /\ Len(m) \in DOMAIN m
  BY DEF Last
<1>2. Len(m) > 1 /\ m[Len(m) - 1].role = "user" BY <1>1 DEF Last, AnswersFollow
<1>3. id \in IdsOf(m) BY <1>1 DEF IdsOf
<1>4. w \in Seq(Message) /\ Len(w) = Len(m) - 1 /\ DOMAIN w = 1..(Len(m) - 1)
  <2> HIDE DEF id
  <2>1. w \in Seq(Message) /\ Len(w) = Len(m) - 1 BY <1>3, WithoutOne
  <2> HIDE DEF w
  <2>2. QED BY <2>1
<1>5. \A i \in 1..(Len(m) - 1) : w[i] = m[i] BY <1>3, OthersStay
<1> HIDE DEF w, id
<1>6. ASSUME NEW i \in DOMAIN w, w[i].role = "assistant" PROVE i > 1 /\ w[i - 1].role = "user"
  <2>1. i \in DOMAIN m /\ w[i] = m[i] BY <1>1, <1>4, <1>5
  <2>2. i > 1 /\ m[i - 1].role = "user" BY <1>6, <2>1 DEF AnswersFollow
  <2>3. i - 1 \in 1..(Len(m) - 1) BY <1>1, <1>4, <2>2
  <2>4. QED BY <1>5, <2>2, <2>3
<1>7. Last(w, "user")
  <2>1. Len(w) \in 1..(Len(m) - 1) /\ w # <<>> BY <1>1, <1>2, <1>4
  <2>2. w[Len(w)] = m[Len(m) - 1] BY <1>4, <1>5, <2>1
  <2>3. QED BY <1>2, <2>1, <2>2 DEF Last
<1>8. QED BY <1>2, <1>6, <1>7 DEF AnswersFollow, w, id

\* What TurnsOK says of one call.
TurnOf(r) ==
    /\ At(r, "drop") => call[r].seen = messages
    /\ Saved(r) => QuestionIsLast
    /\ call[r].kind = "retry" /\ call[r].at \in Again
       => QuestionIsLast /\ call[r].question.role = "user"

Calm == irregular \cap {"overlap", "deletion"} = {}

\* Calls end one by one, and no call comes before.
LEMMA OneRunsStep ==
    ASSUME OneRuns, NEW r \in Requests, Same(r), Does(r), Calm'
    PROVE  OneRuns' /\ \A q \in Requests \ {r} : call'[q].at = "idle"
<1>1. Begins(r) => \A q \in Requests : call[q].at = "idle"
  BY DEF Begins, Calm, Running
<1>2. ~Begins(r) => Running(r)
  BY DEF Does, Ends, Moves, Reads, Drops, Pays, PaysForNothing, SavesQuestion, SavesAnswer,
         Refunds, At, Running
<1>3. \A q \in Requests \ {r} : call[q].at = "idle" BY <1>1, <1>2 DEF OneRuns, Running
<1>4. \A q \in Requests \ {r} : call'[q].at = "idle" BY <1>3 DEF Same
<1>5. QED BY <1>4 DEF OneRuns, Running

LEMMA TurnsCall ==
    ASSUME TypeOK, IdsOK, OneRuns, AnswersFollow(messages), NEW r \in Requests, TurnOf(r),
           Does(r)
    PROVE  AnswersFollow(messages') /\ TurnOf(r)'
<1>0. messages \in Seq(Message) /\ CallOK(call[r]) /\ nextId \in Nat
      /\ \A i, j \in DOMAIN messages : messages[i].id = messages[j].id => i = j
  BY DEF TypeOK, IdsOK
<1>1. CASE Begins(r) BY <1>1 DEF Begins, TurnOf, At, Saved, Again
<1>2. CASE call'[r] = Idle /\ UNCHANGED messages
  BY <1>2, IdleOK DEF TurnOf, At, Saved, Again
<1>3. CASE Moves(r)
  <2>1. UNCHANGED messages BY <1>3 DEF Moves, Book
  <2>2. TurnOf(r)'
    BY <1>0, <1>3, <2>1
       DEF Moves, Goes, TurnOf, At, Saved, Plain, Again, QuestionIsLast, CallOK
  <2>3. QED BY <2>1, <2>2
<1>4. CASE Reads(r)
  BY <1>4 DEF Reads, Goes, TurnOf, At, Saved, Plain, Again, Book
<1>5. CASE Drops(r)
  <2>1. call[r].seen = messages BY <1>5 DEF Drops, TurnOf
  <2>2. Last(messages, "assistant") BY <1>5, <2>1 DEF Drops, IdsOK, At, Last
  <2>3. /\ AnswersFollow(messages') /\ Last(messages', "user")
        /\ Len(messages) > 1 /\ messages[Len(messages) - 1].role = "user"
    BY <1>0, <1>5, <2>1, <2>2, FollowDrop DEF Drops
  <2>4. /\ call'[r].at = "files" /\ call'[r].kind = call[r].kind /\ call[r].kind = "retry"
        /\ call'[r].question.role = "user"
    BY <1>0, <1>5, <2>1, <2>3 DEF Drops, CallOK, At
  <2>5. QED BY <2>3, <2>4 DEF TurnOf, At, Saved, Plain, Again, QuestionIsLast, Last
<1>6. CASE Pays(r)
  BY <1>0, <1>6 DEF Pays, Goes, TurnOf, At, Saved, Plain, Again, QuestionIsLast
<1>7. CASE SavesQuestion(r)
  <2>1. call[r].kind # "retry" /\ Running(r)
    BY <1>0, <1>7 DEF SavesQuestion, At, CallOK, Running
  <2>2. call[r].question \in Message /\ call[r].question.role = "user"
    BY <2>1, QuestionIsMessage DEF Plain
  <2>3. messages' = Append(messages, call[r].question) BY <1>7 DEF SavesQuestion, CreateMessage
  <2>4. AnswersFollow(messages') /\ Last(messages', "user")
    BY <1>0, <2>2, <2>3, FollowAppend
  <2>5. call'[r].at = "answer" /\ call'[r].kind = call[r].kind BY <1>7 DEF SavesQuestion, Goes
  <2>6. QED BY <2>1, <2>4, <2>5 DEF TurnOf, At, Saved, Again, QuestionIsLast, Last
<1>8. CASE SavesAnswer(r)
  <2>1. QuestionIsLast BY <1>8 DEF SavesAnswer, At, TurnOf, Saved, Plain, Again
  <2>2. [id |-> nextId, role |-> "assistant"] \in Message BY <1>0 DEF Message
  <2>3. AnswersFollow(messages')
    BY <1>0, <1>8, <2>1, <2>2, FollowAppend DEF SavesAnswer, CreateMessage, QuestionIsLast, Last
  <2>4. TurnOf(r)' BY <1>8, IdleOK DEF SavesAnswer, TurnOf, At, Saved, Again
  <2>5. QED BY <2>3, <2>4
<1>9. QED BY <1>1, <1>2, <1>3, <1>4, <1>5, <1>6, <1>7, <1>8
  DEF Does, Ends, PaysForNothing, Refunds, Book, Begins

LEMMA TurnsStep ==
    ASSUME TypeOK, IdsOK, TurnsOK, Moved
    PROVE  TurnsOK'
<1>0. TurnsOK = (Calm => OneRuns /\ AnswersFollow(messages) /\ \A r \in Requests : TurnOf(r))
      /\ TurnsOK' = (Calm' => /\ OneRuns' /\ AnswersFollow(messages)'
                              /\ \A r \in Requests : TurnOf(r)')
  BY DEF TurnsOK, Calm, TurnOf
<1> SUFFICES ASSUME Calm'
             PROVE  OneRuns' /\ AnswersFollow(messages)' /\ \A r \in Requests : TurnOf(r)'
  BY <1>0
<1>1. Calm /\ ~Deletes BY DEF Moved, Grows, Calm, Deletes
<1>2. OneRuns /\ AnswersFollow(messages) /\ \A r \in Requests : TurnOf(r) BY <1>0, <1>1
<1>3. ASSUME NEW q \in Requests, call'[q].at = "idle" PROVE TurnOf(q)'
  BY <1>3 DEF TurnOf, At, Saved, Again
<1>4. CASE Crashes
  <2>1. \A r \in Requests : call'[r].at = "idle" BY <1>4, IdleOK DEF Crashes
  <2>2. AnswersFollow(messages)' BY <1>2, <1>4 DEF Crashes, AnswersFollow
  <2>3. QED BY <1>3, <2>1, <2>2 DEF OneRuns, Running
<1>5. ASSUME NEW r \in Requests, Same(r), Does(r)
      PROVE  OneRuns' /\ AnswersFollow(messages)' /\ \A q \in Requests : TurnOf(q)'
  <2>1. OneRuns' /\ \A q \in Requests \ {r} : call'[q].at = "idle"
    BY <1>2, <1>5, OneRunsStep
  <2>2. AnswersFollow(messages') /\ TurnOf(r)' BY <1>2, <1>5, TurnsCall
  <2>3. AnswersFollow(messages)' BY <2>2 DEF AnswersFollow
  <2>4. QED BY <1>3, <2>1, <2>2, <2>3
<1>6. QED BY <1>1, <1>4, <1>5 DEF Moved

-----------------------------------------------------------------------------
(* The start.                                                              *)

LEMMA TurnsOf ==
    ASSUME NEW n \in Nat
    PROVE  /\ Turns(n) \in Seq(Message) /\ Len(Turns(n)) = 2 * n
           /\ \A i \in 1..(2 * n) :
                 /\ Turns(n)[i].id = i
                 /\ Turns(n)[i].role = IF i % 2 = 1 THEN "user" ELSE "assistant"
           /\ AnswersFollow(Turns(n))
<1>1. Turns(n) = [i \in 1..(2 * n) |-> [id |-> i, role |-> IF i % 2 = 1 THEN "user" ELSE "assistant"]]
  BY DEF Turns
<1>2. 2 * n \in Nat OBVIOUS
<1>3. \A i \in 1..(2 * n) :
         [id |-> i, role |-> IF i % 2 = 1 THEN "user" ELSE "assistant"] \in Message
  BY DEF Message
<1>4. Turns(n) \in Seq(Message) /\ Len(Turns(n)) = 2 * n BY <1>1, <1>2, <1>3
<1>5. \A i \in 1..(2 * n) :
         /\ Turns(n)[i].id = i
         /\ Turns(n)[i].role = IF i % 2 = 1 THEN "user" ELSE "assistant"
  BY <1>1
<1>6. AnswersFollow(Turns(n))
  <2> SUFFICES ASSUME NEW i \in DOMAIN Turns(n), Turns(n)[i].role = "assistant"
               PROVE  i > 1 /\ Turns(n)[i - 1].role = "user"
    BY DEF AnswersFollow
  <2>1. i \in 1..(2 * n) /\ i % 2 # 1 BY <1>1, <1>5
  <2>2. i > 1 /\ (i - 1) % 2 = 1 /\ i - 1 \in 1..(2 * n) BY <1>2, <2>1
  <2>3. QED BY <1>5, <2>2
<1>7. QED BY <1>4, <1>5, <1>6

LEMMA IInvInit ==
    ASSUME Init
    PROVE  IInv
<1>1. PICK n \in OldTurns : InitWith(n) BY DEF Init
<1>2. n \in Nat /\ Funds \in Nat /\ Cost \in Nat BY AiChatAssumption
<1>3. /\ found \in BOOLEAN /\ messages = Turns(n) /\ balance = Funds
      /\ call = [r \in Requests |-> Idle] /\ nextId = 2 * n + 1 /\ asked = {}
      /\ calls = 0 /\ faults = 0 /\ answers = {} /\ kept = 0 /\ irregular = {}
  BY <1>1 DEF InitWith
<1>4. \A r \in Requests : call[r] = Idle BY <1>3
<1>5. TypeOK
  <2>1. messages \in Seq(Message) /\ nextId \in Nat BY <1>2, <1>3, TurnsOf
  <2>2. IsFiniteSet(answers) BY <1>3, FS_EmptySet
  <2>3. \A r \in Requests : CallOK(call[r]) BY <1>4, IdleOK
  <2>4. QED BY <1>2, <1>3, <2>1, <2>2, <2>3 DEF TypeOK
<1>6. BalanceOK
  <2>1. Paid = {} BY <1>4, IdleOK DEF Paid
  <2>2. Cardinality(answers) = 0 /\ Cardinality(Paid) = 0 BY <1>3, <2>1, FS_EmptySet
  <2>3. QED BY <1>2, <1>3, <2>2 DEF BalanceOK
<1>7. IdsOK
  <2>1. DOMAIN messages = 1..(2 * n)
    BY <1>2, <1>3, TurnsOf DEF Turns
  <2>2. \A i \in DOMAIN messages : messages[i].id = i /\ i < nextId
    <3> SUFFICES ASSUME NEW i \in 1..(2 * n) PROVE messages[i].id = i /\ i < nextId
      BY <2>1
    <3>1. Turns(n)[i].id = i BY <1>2, TurnsOf
    <3>2. i < 2 * n + 1 BY <1>2
    <3>3. QED BY <1>3, <3>1, <3>2
  <2>3. \A r \in Requests : call[r].seen = <<>> /\ call[r].at = "idle" BY <1>4, IdleOK
  <2>4. QED BY <1>3, <2>2, <2>3 DEF IdsOK, Old, OldBy, Running
<1>8. QuestionsOK
  BY <1>3, <1>4, IdleOK
     DEF QuestionsOK, OneAnswerPerQuestion, AnsweredStay, SavedOpen, SavedApart, Saved, At
<1>9. TurnsOK
  <2>1. AnswersFollow(messages) BY <1>2, <1>3, TurnsOf
  <2>2. QED BY <1>4, <2>1, IdleOK DEF TurnsOK, OneRuns, Running, At, Saved, Again
<1>10. QED BY <1>5, <1>6, <1>7, <1>8, <1>9 DEF IInv

LEMMA IInvNext ==
    ASSUME IsFiniteSet(Requests), IInv, [Next]_vars
    PROVE  IInv'
<1>1. CASE Next
  <2>1. Moved BY <1>1, NextMoves DEF IInv
  <2>2. TypeOK' BY <2>1, TypeStep DEF IInv
  <2>3. QED BY <2>1, <2>2, BalanceStep, IdsStep, QuestionsStep, TurnsStep DEF IInv
<1>2. CASE UNCHANGED vars
  <2>1. TypeOK'
    BY <1>2 DEF IInv, TypeOK, CallOK, IsCall, vars
  <2>2. BalanceOK' BY <1>2 DEF IInv, BalanceOK, Paid, vars
  <2>3. IdsOK' BY <1>2 DEF IInv, IdsOK, Old, OldBy, Running, Plain, vars
  <2>4. QuestionsOK'
    BY <1>2 DEF IInv, QuestionsOK, OneAnswerPerQuestion, AnsweredStay, SavedOpen, SavedApart,
                Saved, At, Plain, IdsOf, vars
  <2>5. TurnsOK'
    BY <1>2 DEF IInv, TurnsOK, OneRuns, Running, AnswersFollow, At, Saved, Plain,
                QuestionIsLast, vars
  <2>6. QED BY <2>1, <2>2, <2>3, <2>4, <2>5 DEF IInv
<1>3. QED BY <1>1, <1>2

\* The inductive invariant holds in every state.
THEOREM AiChatInvariant ==
    ASSUME IsFiniteSet(Requests)
    PROVE  Spec => []IInv
<1>1. Init => IInv BY IInvInit
<1>2. IInv /\ [Next]_vars => IInv' BY IInvNext
<1>3. QED BY <1>1, <1>2, PTL DEF Spec

\* A chat costs its user the price once for every answer saved, whatever fails,
\* is sent twice or runs at once; what a failed log, a failed refund or a crash
\* keeps is all that is lost (PaidForAnswers).
THEOREM AiChatPaidForAnswers ==
    ASSUME IsFiniteSet(Requests)
    PROVE  Spec => []PaidForAnswers
<1>1. IInv => PaidForAnswers BY DEF IInv, BalanceOK, PaidForAnswers, Paid
<1>2. QED BY <1>1, AiChatInvariant, PTL

\* A question sent twice is answered once, and a retry answers a question
\* (AnswersFitQuestions).
THEOREM AiChatAnswersFitQuestions ==
    ASSUME IsFiniteSet(Requests)
    PROVE  Spec => []AnswersFitQuestions
<1>1. IInv => AnswersFitQuestions
  <2>1. QuestionsOK => OneAnswerPerQuestion BY DEF QuestionsOK, OneAnswerPerQuestion
  <2>2. TurnsOK => RetryAnswersQuestion BY DEF TurnsOK, Again, RetryAnswersQuestion
  <2>3. QED BY <2>1, <2>2 DEF IInv, AnswersFitQuestions
<1>2. QED BY <1>1, AiChatInvariant, PTL

-----------------------------------------------------------------------------
(* The agent's stream: what holds of every stream, and of the account.     *)

StreamCalls ==
    [at : Chatting!Places, hint : Chatting!ModeHints, mode : Chatting!AgentModes,
     paid : BOOLEAN, loopCount : Nat, tools : Int, results : Nat, errors : Nat]

AgentTyped ==
    /\ stream \in [Requests -> StreamCalls]
    /\ purse \in Int /\ opened \in Nat /\ agentFaults \in Nat /\ answered \in Nat /\ lost \in Nat

\* A call pays after it begins, says nothing before it ends, and one that ends with
\* its credit spent has its result.
StreamOK(c) ==
    /\ c.at \in {"idle", "deduct"} => ~c.paid
    /\ c.at # "end" => c.results = 0 /\ c.errors = 0
    /\ c.at = "end" => \/ c.results + c.errors = 1
                       \/ c.results + c.errors = 0 /\ c.loopCount = MaxLoops
    /\ c.at = "end" /\ c.paid => c.results = 1

OpenStreams == {s \in Requests : stream[s].paid}

AgentInv ==
    /\ AgentTyped /\ \A s \in Requests : StreamOK(stream[s])
    /\ purse + Cost * (Cardinality(OpenStreams) + answered + lost) = Funds

-----------------------------------------------------------------------------
(* The agent's steps.                                                     *)

\* Numbers: what a step may do to the two sides of the account.
LEMMA PayBalances ==
    ASSUME NEW c \in Nat, NEW f \in Int, NEW b \in Int, NEW o \in Nat, NEW a \in Nat, NEW l \in Nat,
           b + c * (o + a + l) = f
    PROVE  /\ (b - c) + c * ((o + 1) + a + l) = f
           /\ (b - c) + c * (o + a + (l + 1)) = f
<1>1. c * ((o + 1) + a + l) = c * (o + a + l) + c OBVIOUS
<1>2. o + a + (l + 1) = (o + 1) + a + l OBVIOUS
<1>3. c * (o + a + l) \in Int OBVIOUS
<1>4. (b - c) + c * ((o + 1) + a + l) = f BY <1>1, <1>3
<1>5. QED BY <1>2, <1>4

LEMMA CloseBalances ==
    ASSUME NEW c \in Nat, NEW f \in Int, NEW b \in Int, NEW p \in Nat, NEW a \in Nat, NEW l \in Nat,
           b + c * ((p + 1) + a + l) = f
    PROVE  /\ (b + c) + c * (p + a + l) = f
           /\ b + c * (p + a + (l + 1)) = f
           /\ b + c * (p + (a + 1) + l) = f
<1>1. c * ((p + 1) + a + l) = c * (p + a + l) + c OBVIOUS
<1>2. p + a + (l + 1) = (p + 1) + a + l /\ p + (a + 1) + l = (p + 1) + a + l OBVIOUS
<1>3. c * (p + a + l) \in Int OBVIOUS
<1>4. (b + c) + c * (p + a + l) = f BY <1>1, <1>3
<1>5. b + c * (p + a + (l + 1)) = f /\ b + c * (p + (a + 1) + l) = f BY <1>2
<1>6. QED BY <1>4, <1>5

\* The instance counts as this module does.
LEMMA SameCount ==
    ASSUME NEW S
    PROVE  Chatting!Cardinality(S) = Cardinality(S)
BY DEF Cardinality, Chatting!Cardinality

LEMMA OpenFinite ==
    ASSUME IsFiniteSet(Requests)
    PROVE  IsFiniteSet(OpenStreams) /\ Cardinality(OpenStreams) \in Nat
<1>1. OpenStreams \subseteq Requests BY DEF OpenStreams
<1>2. QED BY <1>1, FS_Subset, FS_CardinalityType

\* Only s moves.
StreamMoves(s) == \A q \in Requests : q # s => stream'[q] = stream[q]

\* What the payment of s does to the number of the open ones.
LEMMA OpenStep ==
    ASSUME IsFiniteSet(Requests), AgentTyped, AgentTyped', NEW s \in Requests, StreamMoves(s)
    PROVE  /\ Cardinality(OpenStreams) \in Nat /\ Cardinality(OpenStreams') \in Nat
           /\ stream[s].paid = stream'[s].paid => Cardinality(OpenStreams') = Cardinality(OpenStreams)
           /\ ~stream[s].paid /\ stream'[s].paid => Cardinality(OpenStreams') = Cardinality(OpenStreams) + 1
           /\ stream[s].paid /\ ~stream'[s].paid => Cardinality(OpenStreams) = Cardinality(OpenStreams') + 1
<1>1. IsFiniteSet(OpenStreams) /\ Cardinality(OpenStreams) \in Nat BY OpenFinite
<1>2. OpenStreams' \subseteq Requests BY DEF OpenStreams
<1>3. IsFiniteSet(OpenStreams') /\ Cardinality(OpenStreams') \in Nat
  BY <1>2, FS_Subset, FS_CardinalityType
<1>4. stream[s].paid = stream'[s].paid => OpenStreams' = OpenStreams
  BY DEF StreamMoves, OpenStreams
<1>5. ASSUME ~stream[s].paid, stream'[s].paid PROVE Cardinality(OpenStreams') = Cardinality(OpenStreams) + 1
  <2>1. OpenStreams' = OpenStreams \cup {s} /\ s \notin OpenStreams
    BY <1>5 DEF StreamMoves, OpenStreams
  <2>2. QED BY <1>1, <2>1, FS_AddElement
<1>6. ASSUME stream[s].paid, ~stream'[s].paid PROVE Cardinality(OpenStreams) = Cardinality(OpenStreams') + 1
  <2>1. OpenStreams = OpenStreams' \cup {s} /\ s \notin OpenStreams'
    BY <1>6 DEF StreamMoves, OpenStreams
  <2>2. QED BY <1>3, <2>1, FS_AddElement
<1>7. QED BY <1>1, <1>3, <1>4, <1>5, <1>6

\* A call of s that moves, with what it does to the account.
LEMMA StreamStep ==
    ASSUME IsFiniteSet(Requests), Cost \in Nat, Funds \in Nat,
           AgentInv, AgentTyped', NEW s \in Requests, StreamMoves(s), StreamOK(stream'[s]),
           \/ /\ stream'[s].paid = stream[s].paid
              /\ \/ purse' = purse /\ answered' = answered /\ lost' = lost
                 \/ purse' = purse - Cost /\ answered' = answered /\ lost' = lost + 1
           \/ /\ ~stream[s].paid /\ stream'[s].paid
              /\ purse' = purse - Cost /\ answered' = answered /\ lost' = lost
           \/ /\ stream[s].paid /\ ~stream'[s].paid
              /\ \/ purse' = purse + Cost /\ answered' = answered /\ lost' = lost
                 \/ purse' = purse /\ answered' = answered /\ lost' = lost + 1
                 \/ purse' = purse /\ answered' = answered + 1 /\ lost' = lost
    PROVE  AgentInv'
<1> DEFINE n == Cardinality(OpenStreams)
           m == Cardinality(OpenStreams')
<1>1. /\ n \in Nat /\ m \in Nat
      /\ stream[s].paid = stream'[s].paid => m = n
      /\ ~stream[s].paid /\ stream'[s].paid => m = n + 1
      /\ stream[s].paid /\ ~stream'[s].paid => n = m + 1
  BY OpenStep DEF AgentInv
<1>2. /\ purse + Cost * (n + answered + lost) = Funds
      /\ purse \in Int /\ answered \in Nat /\ lost \in Nat
  BY DEF AgentInv, AgentTyped
<1> HIDE DEF n, m
<1>3. /\ (purse - Cost) + Cost * ((n + 1) + answered + lost) = Funds
      /\ (purse - Cost) + Cost * (n + answered + (lost + 1)) = Funds
  BY <1>1, <1>2, PayBalances
<1>4. ASSUME n = m + 1
      PROVE  /\ (purse + Cost) + Cost * (m + answered + lost) = Funds
             /\ purse + Cost * (m + answered + (lost + 1)) = Funds
             /\ purse + Cost * (m + (answered + 1) + lost) = Funds
  <2>1. purse + Cost * ((m + 1) + answered + lost) = Funds BY <1>2, <1>4
  <2>2. QED BY <1>1, <1>2, <2>1, CloseBalances
<1>5. purse' + Cost * (m + answered' + lost') = Funds
  <2>1. CASE /\ stream'[s].paid = stream[s].paid
             /\ purse' = purse /\ answered' = answered /\ lost' = lost
    BY <1>1, <1>2, <2>1
  <2>2. CASE /\ ~stream[s].paid /\ stream'[s].paid
             /\ purse' = purse - Cost /\ answered' = answered /\ lost' = lost
    BY <1>1, <1>3, <2>2
  <2>3. CASE /\ stream[s].paid /\ ~stream'[s].paid
             /\ \/ purse' = purse + Cost /\ answered' = answered /\ lost' = lost
                \/ purse' = purse /\ answered' = answered /\ lost' = lost + 1
                \/ purse' = purse /\ answered' = answered + 1 /\ lost' = lost
    BY <1>1, <1>4, <2>3
  <2>4. CASE /\ stream'[s].paid = stream[s].paid
             /\ purse' = purse - Cost /\ answered' = answered /\ lost' = lost + 1
    BY <1>1, <1>3, <2>4
  <2>5. QED BY <2>1, <2>2, <2>3, <2>4
<1>6. \A q \in Requests : StreamOK(stream[q])' BY DEF AgentInv, StreamMoves, StreamOK
<1>7. QED BY <1>5, <1>6 DEF AgentInv, m

LEMMA IdleCall == Chatting!Idle \in StreamCalls /\ StreamOK(Chatting!Idle) /\ Chatting!Idle.paid = FALSE /\ Chatting!Idle.at = "idle"
BY
   DEF Chatting!Idle, StreamCalls, StreamOK, Chatting!Places, Chatting!ModeHints, Chatting!AgentModes

\* A call that goes to another place, nothing else.
LEMMA GotoStep ==
    ASSUME IsFiniteSet(Requests), Cost \in Nat, Funds \in Nat,
           AgentInv, NEW s \in Requests, NEW f \in StreamCalls, stream' = [stream EXCEPT ![s] = f],
           StreamOK(f), f.paid = stream[s].paid, UNCHANGED <<purse, opened, agentFaults, answered, lost>>
    PROVE  AgentInv'
<1>1. StreamMoves(s) /\ stream'[s] = f BY DEF AgentInv, AgentTyped, StreamMoves
<1>2. AgentTyped' BY DEF AgentInv, AgentTyped
<1>3. QED BY <1>1, <1>2, StreamStep

\* The two calls a request can begin.
LEMMA FirstCalls ==
    ASSUME NEW hint \in Chatting!ModeHints
    PROVE  LET f == [Chatting!Idle EXCEPT !.at = "end", !.errors = 1]
               g == [Chatting!Idle EXCEPT !.at = "deduct", !.hint = hint]
           IN  /\ f \in StreamCalls /\ StreamOK(f) /\ f.paid = FALSE
               /\ g \in StreamCalls /\ StreamOK(g) /\ g.paid = FALSE
<1> DEFINE f == [Chatting!Idle EXCEPT !.at = "end", !.errors = 1]
           g == [Chatting!Idle EXCEPT !.at = "deduct", !.hint = hint]
<1>1. /\ f.at = "end" /\ f.errors = 1 /\ f.results = 0 /\ f.paid = FALSE
      /\ g.at = "deduct" /\ g.errors = 0 /\ g.results = 0 /\ g.paid = FALSE
  BY DEF Chatting!Idle
<1>2. "end" \in Chatting!Places /\ "deduct" \in Chatting!Places BY DEF Chatting!Places
<1>3. Chatting!Idle \in StreamCalls BY IdleCall
<1>4. f \in StreamCalls /\ g \in StreamCalls BY <1>2, <1>3 DEF StreamCalls
<1> HIDE DEF f, g
<1>5. StreamOK(f) /\ StreamOK(g) BY <1>1 DEF StreamOK
<1>6. QED BY <1>1, <1>4, <1>5 DEF f, g

LEMMA HandleHolds ==
    ASSUME IsFiniteSet(Requests), Cost \in Nat, Funds \in Nat,
           AgentInv, NEW s \in Requests, NEW hint \in Chatting!ModeHints, NEW blank \in BOOLEAN,
           Chatting!HandleChatStream(s, hint, blank)
    PROVE  AgentInv'
<1> DEFINE f == IF blank THEN [Chatting!Idle EXCEPT !.at = "end", !.errors = 1]
                ELSE [Chatting!Idle EXCEPT !.at = "deduct", !.hint = hint]
<1>1. f \in StreamCalls /\ StreamOK(f) /\ f.paid = FALSE
  <2>1. CASE blank BY <2>1, FirstCalls
  <2>2. CASE ~blank BY <2>2, FirstCalls
  <2>3. QED BY <2>1, <2>2
<1>2. stream' = [stream EXCEPT ![s] = f] /\ stream[s].at = "idle"
  BY DEF Chatting!HandleChatStream
<1> HIDE DEF f
<1>3. StreamMoves(s) /\ stream'[s] = f BY <1>2 DEF AgentInv, AgentTyped, StreamMoves
<1>4. ~stream[s].paid BY <1>2 DEF AgentInv, StreamOK
<1>5. AgentTyped' BY <1>1, <1>2 DEF AgentInv, AgentTyped, Chatting!HandleChatStream
<1>6. stream[s].paid = FALSE BY <1>4 DEF AgentInv, AgentTyped, StreamCalls
<1>7. purse' = purse /\ answered' = answered /\ lost' = lost BY DEF Chatting!HandleChatStream
<1>8. QED BY <1>1, <1>3, <1>5, <1>6, <1>7, StreamStep

LEMMA DeductHolds ==
    ASSUME IsFiniteSet(Requests), Cost \in Nat, Funds \in Nat,
           AgentInv, NEW s \in Requests, Chatting!DeductAgentChatCredit(s)
    PROVE  AgentInv'
<1>1. /\ stream[s] \in StreamCalls /\ StreamOK(stream[s]) /\ stream[s].at = "deduct"
      /\ AgentTyped
  BY DEF AgentInv, AgentTyped, Chatting!DeductAgentChatCredit
<1>2. ASSUME stream' = [stream EXCEPT ![s].at = "catch"]
      PROVE  /\ stream' \in [Requests -> StreamCalls] /\ StreamMoves(s)
             /\ stream'[s].paid = stream[s].paid /\ StreamOK(stream'[s])
  <2>1. /\ stream' \in [Requests -> StreamCalls] /\ StreamMoves(s)
        /\ stream'[s].at = "catch" /\ stream'[s].paid = stream[s].paid
        /\ stream'[s].results = stream[s].results /\ stream'[s].errors = stream[s].errors
    BY <1>1, <1>2 DEF AgentTyped, StreamCalls, Chatting!Places, StreamMoves
  <2>2. QED BY <1>1, <2>1 DEF StreamOK
<1>3. CASE /\ purse' = purse - Cost /\ UNCHANGED Chatting!Counters
           /\ stream' = [stream EXCEPT ![s].at = "classify", ![s].paid = TRUE]
  <2>1. /\ stream' \in [Requests -> StreamCalls] /\ StreamMoves(s)
        /\ stream'[s].at = "classify" /\ stream'[s].paid = TRUE
        /\ stream'[s].results = stream[s].results /\ stream'[s].errors = stream[s].errors
    BY <1>1, <1>3 DEF AgentTyped, StreamCalls, Chatting!Places, StreamMoves
  <2>2. AgentTyped' BY <1>1, <1>3, <2>1 DEF AgentTyped, Chatting!Counters
  <2>3. StreamOK(stream'[s]) /\ ~stream[s].paid BY <1>1, <2>1 DEF StreamOK
  <2>4. QED BY <1>3, <2>1, <2>2, <2>3, StreamStep DEF Chatting!Counters
<1>4. CASE UNCHANGED <<purse, Chatting!Counters>> /\ stream' = [stream EXCEPT ![s].at = "catch"]
  <2>1. AgentTyped' BY <1>1, <1>2, <1>4 DEF AgentTyped, Chatting!Counters
  <2>2. QED BY <1>2, <1>4, <2>1, StreamStep DEF Chatting!Counters
<1>5. CASE /\ purse' = purse - Cost /\ agentFaults' = agentFaults + 1 /\ lost' = lost + 1
           /\ stream' = [stream EXCEPT ![s].at = "catch"] /\ UNCHANGED <<opened, answered>>
  <2>1. AgentTyped' BY <1>1, <1>2, <1>5 DEF AgentTyped
  <2>2. QED BY <1>2, <1>5, <2>1, StreamStep
<1>6. QED BY <1>3, <1>4, <1>5 DEF Chatting!DeductAgentChatCredit, Chatting!Counters, Chatting!Goto

\* A call that goes on, and neither pays nor settles.
LEMMA QuietStep ==
    ASSUME IsFiniteSet(Requests), Cost \in Nat, Funds \in Nat,
           AgentInv, NEW s \in Requests, stream' \in [Requests -> StreamCalls], StreamMoves(s),
           stream'[s].paid = stream[s].paid, StreamOK(stream'[s]), UNCHANGED <<purse, Chatting!Counters>>
    PROVE  AgentInv'
<1>1. AgentTyped' BY DEF AgentInv, AgentTyped, Chatting!Counters
<1>2. QED BY <1>1, StreamStep DEF Chatting!Counters

\* The call of s that a step finds.
LEMMA StreamFound ==
    ASSUME AgentInv, NEW s \in Requests
    PROVE  stream[s] \in StreamCalls /\ StreamOK(stream[s]) /\ stream \in [Requests -> StreamCalls]
BY DEF AgentInv, AgentTyped

LEMMA ClassifyHolds ==
    ASSUME IsFiniteSet(Requests), Cost \in Nat, Funds \in Nat,
           AgentInv, NEW s \in Requests, NEW classified \in Chatting!AgentModes, Chatting!Classify(s, classified)
    PROVE  AgentInv'
<1>1. stream[s] \in StreamCalls /\ StreamOK(stream[s]) /\ stream \in [Requests -> StreamCalls]
  BY StreamFound
<1>2. PICK mode \in Chatting!AgentModes, place \in {"refuse", "round", "answer"} :
          stream' = [stream EXCEPT ![s].mode = mode, ![s].at = place]
  <2> DEFINE mode == Chatting!ModeOf(classified, stream[s].hint)
             place == CASE mode = "irrelevant" -> "refuse"
                        [] mode = "chat" -> "round"
                        [] OTHER -> "answer"
  <2>1. mode \in Chatting!AgentModes
    BY <1>1 DEF Chatting!ModeOf, Chatting!AgentModes, Chatting!ModeHints, StreamCalls
  <2>2. stream' = [stream EXCEPT ![s].mode = mode, ![s].at = place] BY DEF Chatting!Classify
  <2> HIDE DEF mode
  <2>3. place \in {"refuse", "round", "answer"} OBVIOUS
  <2> HIDE DEF place
  <2>4. QED BY <2>1, <2>2, <2>3
<1>3. stream[s].at = "classify" /\ UNCHANGED <<purse, Chatting!Counters>>
  BY DEF Chatting!Classify
<1>4. /\ stream' \in [Requests -> StreamCalls] /\ StreamMoves(s)
      /\ stream'[s].at \in {"refuse", "round", "answer"} /\ stream'[s].paid = stream[s].paid
      /\ stream'[s].results = stream[s].results /\ stream'[s].errors = stream[s].errors
  BY <1>1, <1>2 DEF StreamCalls, Chatting!Places, StreamMoves
<1>5. StreamOK(stream'[s]) BY <1>1, <1>3, <1>4 DEF StreamOK
<1>6. QED BY <1>3, <1>4, <1>5, QuietStep

LEMMA SendHolds ==
    ASSUME IsFiniteSet(Requests), Cost \in Nat, Funds \in Nat,
           AgentInv, NEW s \in Requests, stream[s].at \in {"answer", "round"},
           Chatting!SendResult(s), UNCHANGED <<purse, Chatting!Counters>>
    PROVE  AgentInv'
<1>1. stream[s] \in StreamCalls /\ StreamOK(stream[s]) /\ stream \in [Requests -> StreamCalls]
  BY StreamFound
<1>2. /\ stream' \in [Requests -> StreamCalls] /\ StreamMoves(s)
      /\ stream'[s].at = "end" /\ stream'[s].paid = stream[s].paid
      /\ stream'[s].results = stream[s].results + 1 /\ stream'[s].errors = stream[s].errors
  BY <1>1 DEF Chatting!SendResult, StreamCalls, Chatting!Places, StreamMoves
<1>3. stream[s].results = 0 /\ stream[s].errors = 0 BY <1>1 DEF StreamOK
<1>4. StreamOK(stream'[s]) BY <1>2, <1>3 DEF StreamOK
<1>5. QED BY <1>2, <1>4, QuietStep

LEMMA RoundHolds ==
    ASSUME IsFiniteSet(Requests), Cost \in Nat, Funds \in Nat, MaxLoops \in Nat,
           AgentInv, NEW s \in Requests, Chatting!ChatRound(s)
    PROVE  AgentInv'
<1>1. stream[s] \in StreamCalls /\ StreamOK(stream[s]) /\ stream \in [Requests -> StreamCalls]
  BY StreamFound
<1>2. stream[s].at = "round" /\ UNCHANGED <<purse, Chatting!Counters>> BY DEF Chatting!ChatRound
<1>3. CASE Chatting!SendResult(s) BY <1>2, <1>3, SendHolds
<1>4. ASSUME NEW n \in 1..MaxTools,
             stream' = [stream EXCEPT ![s].at = "tools", ![s].tools = n, ![s].loopCount = @ + 1]
      PROVE  AgentInv'
  <2>1. /\ stream' \in [Requests -> StreamCalls] /\ StreamMoves(s)
        /\ stream'[s].at = "tools" /\ stream'[s].paid = stream[s].paid
        /\ stream'[s].results = stream[s].results /\ stream'[s].errors = stream[s].errors
    BY <1>1, <1>4 DEF StreamCalls, Chatting!Places, StreamMoves
  <2>2. StreamOK(stream'[s]) BY <1>1, <1>2, <2>1 DEF StreamOK
  <2>3. QED BY <1>2, <2>1, <2>2, QuietStep
<1>5. QED BY <1>3, <1>4 DEF Chatting!ChatRound

LEMMA ToolHolds ==
    ASSUME IsFiniteSet(Requests), Cost \in Nat, Funds \in Nat,
           AgentInv, NEW s \in Requests, Chatting!ExecuteToolCall(s)
    PROVE  AgentInv'
<1>1. stream[s] \in StreamCalls /\ StreamOK(stream[s]) /\ stream \in [Requests -> StreamCalls]
  BY StreamFound
<1>2. stream[s].at = "tools" /\ UNCHANGED <<purse, Chatting!Counters>>
  BY DEF Chatting!ExecuteToolCall
<1>3. PICK place \in {"round", "tools"} :
          stream' = [stream EXCEPT ![s].tools = @ - 1, ![s].at = place]
  <2>1. CASE stream[s].tools = 1 BY <2>1 DEF Chatting!ExecuteToolCall
  <2>2. CASE stream[s].tools # 1 BY <2>2 DEF Chatting!ExecuteToolCall
  <2>3. QED BY <2>1, <2>2
<1>4. /\ stream' \in [Requests -> StreamCalls] /\ StreamMoves(s)
      /\ stream'[s].at \in {"round", "tools"} /\ stream'[s].paid = stream[s].paid
      /\ stream'[s].results = stream[s].results /\ stream'[s].errors = stream[s].errors
  <2> DEFINE f == [stream[s] EXCEPT !.tools = @ - 1, !.at = place]
  <2>1. stream' = [stream EXCEPT ![s] = f] BY <1>1, <1>3
  <2>2. stream[s].tools - 1 \in Int /\ place \in Chatting!Places
    BY <1>1 DEF StreamCalls, Chatting!Places
  <2>5. f \in StreamCalls BY <1>1, <2>2 DEF StreamCalls
  <2>3. /\ f.at \in {"round", "tools"} /\ f.paid = stream[s].paid
        /\ f.results = stream[s].results /\ f.errors = stream[s].errors
    BY <1>1 DEF StreamCalls
  <2> HIDE DEF f
  <2>4. QED BY <1>1, <2>1, <2>3, <2>5 DEF StreamMoves
<1>5. StreamOK(stream'[s]) BY <1>1, <1>2, <1>4 DEF StreamOK
<1>6. QED BY <1>2, <1>4, <1>5, QuietStep

LEMMA FailHolds ==
    ASSUME IsFiniteSet(Requests), Cost \in Nat, Funds \in Nat,
           AgentInv, NEW s \in Requests, Chatting!Fail(s)
    PROVE  AgentInv'
<1>1. stream[s] \in StreamCalls /\ StreamOK(stream[s]) /\ stream \in [Requests -> StreamCalls]
  BY StreamFound
<1>2. /\ stream[s].at \in {"classify", "round", "tools", "answer"}
      /\ stream' = [stream EXCEPT ![s].at = "catch"] /\ UNCHANGED <<purse, Chatting!Counters>>
  BY DEF Chatting!Fail, Chatting!Goto
<1>3. /\ stream' \in [Requests -> StreamCalls] /\ StreamMoves(s)
      /\ stream'[s].at = "catch" /\ stream'[s].paid = stream[s].paid
      /\ stream'[s].results = stream[s].results /\ stream'[s].errors = stream[s].errors
  BY <1>1, <1>2 DEF StreamCalls, Chatting!Places, StreamMoves
<1>4. StreamOK(stream'[s]) BY <1>1, <1>2, <1>3 DEF StreamOK
<1>5. QED BY <1>2, <1>3, <1>4, QuietStep

\* A call that settles: its credit came back, or is lost with a failure.
LEMMA SettleStep ==
    ASSUME IsFiniteSet(Requests), Cost \in Nat, Funds \in Nat,
           AgentInv, NEW s \in Requests, Chatting!Refunded(s), UNCHANGED <<opened, answered>>,
           stream' \in [Requests -> StreamCalls], StreamMoves(s), stream'[s].paid = FALSE, StreamOK(stream'[s])
    PROVE  AgentInv'
<1>1. stream[s].paid \in BOOLEAN BY StreamFound DEF StreamCalls
<1>2. AgentTyped BY DEF AgentInv
<1>3. CASE stream[s].paid
  <2>1. \/ purse' = purse + Cost /\ agentFaults' = agentFaults /\ lost' = lost
        \/ purse' = purse /\ agentFaults' = agentFaults + 1 /\ lost' = lost + 1
    BY <1>3 DEF Chatting!Refunded, Chatting!RefundAgentChatCredit
  <2>2. AgentTyped' BY <1>2, <2>1 DEF AgentTyped
  <2>3. QED BY <1>3, <2>1, <2>2, StreamStep
<1>4. CASE ~stream[s].paid
  <2>1. UNCHANGED <<purse, agentFaults, lost>>
    BY <1>4 DEF Chatting!Refunded, Chatting!RefundAgentChatCredit
  <2>2. AgentTyped' BY <1>2, <2>1 DEF AgentTyped
  <2>3. stream'[s].paid = stream[s].paid BY <1>1, <1>4
  <2>4. QED BY <2>1, <2>2, <2>3, StreamStep
<1>5. QED BY <1>1, <1>3, <1>4

LEMMA RefuseHolds ==
    ASSUME IsFiniteSet(Requests), Cost \in Nat, Funds \in Nat,
           AgentInv, NEW s \in Requests, Chatting!Refuse(s)
    PROVE  AgentInv'
<1>1. stream[s] \in StreamCalls /\ StreamOK(stream[s]) /\ stream \in [Requests -> StreamCalls]
  BY StreamFound
<1>2. /\ stream[s].at = "refuse" /\ Chatting!Refunded(s) /\ UNCHANGED <<opened, answered>>
      /\ stream' = [stream EXCEPT ![s].paid = FALSE, ![s].results = @ + 1, ![s].at = "end"]
  BY DEF Chatting!Refuse
<1>3. /\ stream' \in [Requests -> StreamCalls] /\ StreamMoves(s)
      /\ stream'[s].at = "end" /\ stream'[s].paid = FALSE
      /\ stream'[s].results = stream[s].results + 1 /\ stream'[s].errors = stream[s].errors
  BY <1>1, <1>2 DEF StreamCalls, Chatting!Places, StreamMoves
<1>4. stream[s].results = 0 /\ stream[s].errors = 0 BY <1>1, <1>2 DEF StreamOK
<1>5. StreamOK(stream'[s]) BY <1>3, <1>4 DEF StreamOK
<1>6. QED BY <1>2, <1>3, <1>5, SettleStep

LEMMA CatchHolds ==
    ASSUME IsFiniteSet(Requests), Cost \in Nat, Funds \in Nat,
           AgentInv, NEW s \in Requests, Chatting!Catch(s)
    PROVE  AgentInv'
<1>1. stream[s] \in StreamCalls /\ StreamOK(stream[s]) /\ stream \in [Requests -> StreamCalls]
  BY StreamFound
<1>2. /\ stream[s].at = "catch" /\ Chatting!Refunded(s) /\ UNCHANGED <<opened, answered>>
      /\ stream' = [stream EXCEPT ![s].paid = FALSE, ![s].errors = @ + 1, ![s].at = "end"]
  BY DEF Chatting!Catch, Chatting!SendError
<1>3. /\ stream' \in [Requests -> StreamCalls] /\ StreamMoves(s)
      /\ stream'[s].at = "end" /\ stream'[s].paid = FALSE
      /\ stream'[s].results = stream[s].results /\ stream'[s].errors = stream[s].errors + 1
  BY <1>1, <1>2 DEF StreamCalls, Chatting!Places, StreamMoves
<1>4. stream[s].results = 0 /\ stream[s].errors = 0 BY <1>1, <1>2 DEF StreamOK
<1>5. StreamOK(stream'[s]) BY <1>3, <1>4 DEF StreamOK
<1>6. QED BY <1>2, <1>3, <1>5, SettleStep

LEMMA SilentHolds ==
    ASSUME IsFiniteSet(Requests), Cost \in Nat, Funds \in Nat,
           AgentInv, NEW s \in Requests, Chatting!RunOutOfRounds(s)
    PROVE  AgentInv'
<1>1. stream[s] \in StreamCalls /\ StreamOK(stream[s]) /\ stream \in [Requests -> StreamCalls]
  BY StreamFound
<1>2. /\ stream[s].at = "round" /\ stream[s].loopCount = MaxLoops
      /\ stream' = [stream EXCEPT ![s].paid = FALSE, ![s].at = "end"]
      /\ UNCHANGED <<purse, opened, agentFaults, answered>>
  BY DEF Chatting!RunOutOfRounds
<1>3. /\ stream' \in [Requests -> StreamCalls] /\ StreamMoves(s)
      /\ stream'[s].at = "end" /\ stream'[s].paid = FALSE
      /\ stream'[s].loopCount = stream[s].loopCount
      /\ stream'[s].results = stream[s].results /\ stream'[s].errors = stream[s].errors
  BY <1>1, <1>2 DEF StreamCalls, Chatting!Places, StreamMoves
<1>4. stream[s].results = 0 /\ stream[s].errors = 0 BY <1>1, <1>2 DEF StreamOK
<1>5. StreamOK(stream'[s]) BY <1>2, <1>3, <1>4 DEF StreamOK
<1>6. AgentTyped BY DEF AgentInv
<1>7. CASE stream[s].paid
  <2>1. lost' = lost + 1 BY <1>7 DEF Chatting!RunOutOfRounds
  <2>2. AgentTyped' BY <1>2, <1>3, <1>6, <2>1 DEF AgentTyped
  <2>3. QED BY <1>2, <1>3, <1>5, <1>7, <2>1, <2>2, StreamStep
<1>8. CASE ~stream[s].paid
  <2>1. lost' = lost + 0 BY <1>8 DEF Chatting!RunOutOfRounds
  <2>2. lost' = lost BY <1>6, <2>1 DEF AgentTyped
  <2>3. AgentTyped' BY <1>2, <1>3, <1>6, <2>2 DEF AgentTyped
  <2>4. stream'[s].paid = stream[s].paid BY <1>1, <1>3, <1>8 DEF StreamCalls
  <2>5. QED BY <1>2, <1>3, <1>5, <2>2, <2>3, <2>4, StreamStep
<1>9. QED BY <1>1, <1>7, <1>8 DEF StreamCalls

LEMMA EndHolds ==
    ASSUME IsFiniteSet(Requests), Cost \in Nat, Funds \in Nat,
           AgentInv, NEW s \in Requests, Chatting!End(s)
    PROVE  AgentInv'
<1>1. stream[s] \in StreamCalls /\ StreamOK(stream[s]) /\ stream \in [Requests -> StreamCalls]
  BY StreamFound
<1>2. /\ stream[s].at = "end" /\ stream' = [stream EXCEPT ![s] = Chatting!Idle]
      /\ answered' = answered + (IF stream[s].paid /\ stream[s].results = 1 THEN 1 ELSE 0)
      /\ UNCHANGED <<purse, opened, agentFaults, lost>>
  BY DEF Chatting!End
<1>3. /\ stream' \in [Requests -> StreamCalls] /\ StreamMoves(s) /\ stream'[s] = Chatting!Idle
  BY <1>1, <1>2, IdleCall DEF StreamMoves
<1>4. StreamOK(stream'[s]) /\ stream'[s].paid = FALSE BY <1>3, IdleCall
<1>5. AgentTyped BY DEF AgentInv
<1>6. CASE stream[s].paid
  <2>1. stream[s].results = 1 BY <1>1, <1>2, <1>6 DEF StreamOK
  <2>2. answered' = answered + 1 BY <1>2, <1>6, <2>1
  <2>3. AgentTyped' BY <1>2, <1>3, <1>5, <2>2 DEF AgentTyped
  <2>4. QED BY <1>2, <1>3, <1>4, <1>6, <2>2, <2>3, StreamStep
<1>7. CASE ~stream[s].paid
  <2>1. answered' = answered + 0 BY <1>2, <1>7
  <2>2. answered' = answered BY <1>5, <2>1 DEF AgentTyped
  <2>3. AgentTyped' BY <1>2, <1>3, <1>5, <2>2 DEF AgentTyped
  <2>4. stream'[s].paid = stream[s].paid BY <1>1, <1>4, <1>7 DEF StreamCalls
  <2>5. QED BY <1>2, <1>3, <1>4, <2>2, <2>3, <2>4, StreamStep
<1>8. QED BY <1>1, <1>6, <1>7 DEF StreamCalls

LEMMA CrashHolds ==
    ASSUME IsFiniteSet(Requests), Cost \in Nat, Funds \in Nat, AgentInv, Chatting!Crash
    PROVE  AgentInv'
<1>1. /\ agentFaults' = agentFaults + 1 /\ lost' = lost + Cardinality(OpenStreams)
      /\ stream' = [s \in Requests |-> Chatting!Idle] /\ UNCHANGED <<purse, opened, answered>>
  BY SameCount DEF Chatting!Crash, OpenStreams
<1>2. AgentTyped /\ Cardinality(OpenStreams) \in Nat BY OpenFinite DEF AgentInv
<1>3. stream' \in [Requests -> StreamCalls] /\ \A s \in Requests : stream'[s] = Chatting!Idle
  BY <1>1, IdleCall
<1>4. AgentTyped' BY <1>1, <1>2, <1>3 DEF AgentTyped
<1>5. \A s \in Requests : StreamOK(stream[s])' BY <1>3, IdleCall DEF StreamOK
<1>6. OpenStreams' = {} BY <1>3, IdleCall DEF OpenStreams
<1>7. Cardinality(OpenStreams') = 0 BY <1>6, FS_EmptySet
<1>8. 0 + answered + (lost + Cardinality(OpenStreams)) = Cardinality(OpenStreams) + answered + lost
  BY <1>2 DEF AgentTyped
<1>9. purse' + Cost * (Cardinality(OpenStreams') + answered' + lost') = Funds
  BY <1>1, <1>7, <1>8 DEF AgentInv
<1>10. QED BY <1>4, <1>5, <1>9 DEF AgentInv

-----------------------------------------------------------------------------
(* The agent's theorem.                                                   *)

LEMMA AgentInvInit ==
    ASSUME IsFiniteSet(Requests), Cost \in Nat, Funds \in Nat, Chatting!Init
    PROVE  AgentInv
<1>1. stream \in [Requests -> StreamCalls] /\ \A s \in Requests : stream[s] = Chatting!Idle
  BY IdleCall DEF Chatting!Init
<1>2. AgentTyped BY <1>1 DEF Chatting!Init, AgentTyped
<1>3. OpenStreams = {} BY <1>1, IdleCall DEF OpenStreams
<1>4. Cardinality(OpenStreams) = 0 BY <1>3, FS_EmptySet
<1>5. purse + Cost * (Cardinality(OpenStreams) + answered + lost) = Funds
  BY <1>4 DEF Chatting!Init
<1>6. QED BY <1>1, <1>2, <1>5, IdleCall DEF AgentInv

LEMMA AgentInvStep ==
    ASSUME IsFiniteSet(Requests), Cost \in Nat, Funds \in Nat, MaxLoops \in Nat,
           AgentInv, [Chatting!Next]_(Chatting!vars)
    PROVE  AgentInv'
<1>1. CASE Chatting!Next
  <2>1. CASE Chatting!Crash BY <2>1, CrashHolds
  <2>2. ASSUME NEW s \in Requests,
               \/ \E hint \in Chatting!ModeHints, blank \in BOOLEAN : Chatting!HandleChatStream(s, hint, blank)
               \/ Chatting!DeductAgentChatCredit(s)
               \/ \E mode \in Chatting!AgentModes : Chatting!Classify(s, mode)
               \/ Chatting!Refuse(s) \/ Chatting!Answer(s) \/ Chatting!ChatRound(s) \/ Chatting!ExecuteToolCall(s)
               \/ Chatting!RunOutOfRounds(s) \/ Chatting!Fail(s) \/ Chatting!Catch(s) \/ Chatting!End(s)
        PROVE  AgentInv'
    <3>1. CASE \E hint \in Chatting!ModeHints, blank \in BOOLEAN : Chatting!HandleChatStream(s, hint, blank)
      BY <3>1, HandleHolds
    <3>2. CASE Chatting!DeductAgentChatCredit(s) BY <3>2, DeductHolds
    <3>3. CASE \E mode \in Chatting!AgentModes : Chatting!Classify(s, mode)
      BY <3>3, ClassifyHolds
    <3>4. CASE Chatting!Refuse(s) BY <3>4, RefuseHolds
    <3>5. CASE Chatting!Answer(s) BY <3>5, SendHolds DEF Chatting!Answer
    <3>6. CASE Chatting!ChatRound(s) BY <3>6, RoundHolds
    <3>7. CASE Chatting!ExecuteToolCall(s) BY <3>7, ToolHolds
    <3>8. CASE Chatting!RunOutOfRounds(s) BY <3>8, SilentHolds
    <3>9. CASE Chatting!Fail(s) BY <3>9, FailHolds
    <3>10. CASE Chatting!Catch(s) BY <3>10, CatchHolds
    <3>11. CASE Chatting!End(s) BY <3>11, EndHolds
    <3>12. QED BY <2>2, <3>1, <3>2, <3>3, <3>4, <3>5, <3>6, <3>7, <3>8, <3>9, <3>10, <3>11
  <2>3. QED BY <1>1, <2>1, <2>2 DEF Chatting!Next
<1>2. CASE UNCHANGED Chatting!vars
  <2>1. /\ stream' = stream /\ purse' = purse /\ opened' = opened
        /\ agentFaults' = agentFaults /\ answered' = answered /\ lost' = lost
    BY <1>2 DEF Chatting!vars
  <2>2. AgentTyped' BY <2>1 DEF AgentInv, AgentTyped
  <2>3. \A s \in Requests : StreamOK(stream[s])' BY <2>1 DEF AgentInv, StreamOK
  <2>4. OpenStreams' = OpenStreams BY <2>1 DEF OpenStreams
  <2>5. QED BY <2>1, <2>2, <2>3, <2>4 DEF AgentInv
<1>3. QED BY <1>1, <1>2

LEMMA AgentInvTells == AgentInv => AgentSettlesStreams
BY SameCount
   DEF AgentInv, AgentTyped, StreamCalls, StreamOK, OpenStreams, AgentSettlesStreams,
       Chatting!AgentSettlesStreams, Chatting!CreditsBoughtAnswers, Chatting!OneOutcomePerStream

\* Whatever the provider answers and whatever fails, the credits of the user that are
\* gone belong to an open request, to an answered one, or to a listed loss (a charge whose
\* usage log failed, a refund that failed, a crash, five rounds of tools without an answer),
\* and a stream ends with one result or one error, in silence only when its rounds are used up (AgentSettlesStreams).
THEOREM AgentSettles ==
    ASSUME IsFiniteSet(Requests), MaxLoops \in Nat
    PROVE  Spec4 => []AgentSettlesStreams
<1>1. Cost \in Nat /\ Funds \in Nat BY AiChatAssumption
<1>2. Init4 => AgentInv BY <1>1, AgentInvInit DEF Init4
<1>3. AgentInv /\ [Next4]_<<part, vars, agentVars, searchVars, resultVars>> => AgentInv'
  <2>1. [Next4]_<<part, vars, agentVars, searchVars, resultVars>> => [Chatting!Next]_(Chatting!vars)
    BY DEF Next4, agentVars, Chatting!vars
  <2>2. QED BY <1>1, <2>1, AgentInvStep
<1>4. QED BY <1>2, <1>3, AgentInvTells, PTL DEF Spec4

=============================================================================
