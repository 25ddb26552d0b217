------------------------------- MODULE AiChat -------------------------------
(***************************************************************************)
(* The AI chat: AiInteractionService's handleAIChat, handleRagAIChat and   *)
(* handleRetryAIChat on one conversation, with ChatManagementService's     *)
(* writes and the user's credit balance.  A call is a chain of awaits: it  *)
(* finds the conversation, reads the messages, renews the summary, takes   *)
(* the credit, asks the provider and saves what it got, and other calls    *)
(* run between any two of these.  A message is its id and its role, and a  *)
(* summary (the memory) is the set of the messages it was made from.       *)
(***************************************************************************)
EXTENDS Naturals, Sequences, FiniteSets, FiniteSetsExt

CONSTANTS
    Requests,           \* the calls that may run at once
    Kinds,              \* which handlers are called
    OldTurns,           \* how many turns the conversation may already hold
    Window,             \* messages sent as they are (MAX_DIRECT_WINDOW)
    Batch,              \* turns summarised together (SUMMARY_BATCH_TURNS)
    Cost, Funds,        \* credits of one chat, credits of the user
    MaxCalls,           \* bound on the calls made
    MaxFaults           \* bound on failures and on the user's deletions

ASSUME AiChatAssumption ==
    /\ Kinds \subseteq {"chat", "rag", "retry"}
    /\ OldTurns \subseteq Nat /\ Window \in Nat /\ Batch \in Nat \ {0}
    /\ Cost \in Nat /\ Funds \in Nat /\ MaxCalls \in Nat /\ MaxFaults \in Nat

VARIABLES
    found,          \* whether the conversation exists
    messages,       \* its messages, in the order they were created
    summary,        \* its memory: the messages summarised, none when empty
    balance,        \* the user's credits
    call,           \* per request, the call it runs
    nextId,         \* the ids below are used
    asked,          \* the ids of the questions the client has sent
    calls, faults,  \* how many calls were made, how many things went wrong
    answers,        \* history: the answers saved, with what they answer
    kept,           \* history: charges that stay although nothing was answered
    irregular       \* history: why turns may not have come one by one

vars == <<found, messages, summary, balance, call, nextId, asked, calls, faults,
          answers, kept, irregular>>

Bound == 2 * Max(OldTurns) + 2 * MaxCalls
Ids == 1..Bound
Messages == [id : Ids, role : {"user", "assistant"}]
NoMessage == [id |-> 0, role |-> "none"]
Idle == [kind |-> "none", at |-> "idle", question |-> NoMessage, seen |-> <<>>,
         memory |-> {}, sent |-> {}, paid |-> FALSE]
Places == {"idle", "find", "create", "read", "drop", "files", "context", "charge",
           "generate", "question", "answer", "refund"}

IdsOf(s) == {s[i].id : i \in DOMAIN s}
Running(r) == call[r].at # "idle"

-----------------------------------------------------------------------------
(* The sliding window and the memory (buildContextMessages).               *)

CountUserTurns(s) == Cardinality({i \in DOMAIN s : s[i].role = "user"})

\* Where the first n turns end, their answers included.
IndexAfterNUserTurns(s, n) ==
    IF n = 0 THEN 0
    ELSE Max({e \in 0..Len(s) : CountUserTurns(SubSeq(s, 1, e)) <= n})

AfterTurns(s, n) == IdsOf(SubSeq(s, IndexAfterNUserTurns(s, n) + 1, Len(s)))

Expelled(s) == SubSeq(s, 1, IF Len(s) > Window THEN Len(s) - Window ELSE 0)
DirectWindow(s) == SubSeq(s, Len(Expelled(s)) + 1, Len(s))

ShouldSummarize(s) ==
    LET turns == CountUserTurns(Expelled(s)) IN turns > 0 /\ turns % Batch = 0

\* Mutant: the memory so far is left out.
SummarizeBatch(s, memory) ==
    AfterTurns(Expelled(s), CountUserTurns(Expelled(s)) - Batch)

\* generateSummary merges the newest batch into the memory it is given.
GenerateSummary(s, memory) ==
    memory \cup AfterTurns(Expelled(s), CountUserTurns(Expelled(s)) - Batch)

\* With any memory, every full batch of expelled turns is taken to be in it.
SummarizedTurns(s, memory) ==
    IF memory = {} THEN 0 ELSE (CountUserTurns(Expelled(s)) \div Batch) * Batch

BuildContext(s, memory, question) ==
    memory \cup AfterTurns(Expelled(s), SummarizedTurns(s, memory))
           \cup IdsOf(DirectWindow(s)) \cup {question.id}

-----------------------------------------------------------------------------
(* The start: a conversation of n turns, each made by one undisturbed chat *)
(* (chat number k has seen 2(k - 1) messages).                             *)

Turns(n) == [i \in 1..(2 * n) |-> [id |-> i, role |-> IF i % 2 = 1 THEN "user" ELSE "assistant"]]

InitWith(n) ==
    /\ found = (n > 0)
    /\ messages = Turns(n)
    /\ LET expelled == IF n = 0 THEN 0 ELSE CountUserTurns(Expelled(Turns(n - 1)))
       IN  summary = 1..(2 * ((expelled \div Batch) * Batch))
    /\ balance = Funds
    /\ call = [r \in Requests |-> Idle]
    /\ nextId = 2 * n + 1
    /\ asked = {}
    /\ calls = 0 /\ faults = 0
    /\ answers = {} /\ kept = 0 /\ irregular = {}

Init == \E n \in OldTurns : InitWith(n)

-----------------------------------------------------------------------------
(* Book-keeping of calls.                                                  *)

At(r, step) == call[r].at = step
Goto(r, step) == call' = [call EXCEPT ![r].at = step]
Note(reasons) == irregular' = irregular \cup reasons

\* The call has a question without an answer in the conversation.
Unanswered(r) ==
    \/ call[r].kind # "retry" /\ At(r, "answer")
    \/ call[r].kind = "retry" /\ call[r].at \in {"files", "context", "charge", "generate", "answer"}

Left(rs) == IF \E r \in rs : Unanswered(r) THEN {"unanswered"} ELSE {}

\* The call ends in an error.
Fail(r) == call' = [call EXCEPT ![r] = Idle] /\ Note(Left({r}))

\* Mutant: the credit is not given back.
FailWithoutRefund(r) == Fail(r)

\* An error after the credit was taken goes to the refund, when it cost any.
FailPaid(r) == IF call[r].paid THEN Goto(r, "refund") /\ Note(Left({r})) ELSE Fail(r)

Fault == faults < MaxFaults /\ faults' = faults + 1

Stored == <<found, messages, summary>>
Clients == <<nextId, asked, calls>>

-----------------------------------------------------------------------------
(* A request comes in.                                                     *)

\* A question carries the id the client gave it: a new one, or that of a
\* question the client sends again because it saw no answer.
Begin(r, kind, id) ==
    /\ ~Running(r) /\ calls < MaxCalls /\ calls' = calls + 1
    /\ call' = [call EXCEPT ![r] = [Idle EXCEPT !.kind = kind, !.at = "find",
                    !.question = IF kind = "retry" THEN NoMessage ELSE [id |-> id, role |-> "user"]]]
    /\ Note((IF \E q \in Requests : Running(q) THEN {"overlap"} ELSE {})
            \cup (IF kind = "rag" THEN {"rag"} ELSE {}))
    /\ UNCHANGED <<Stored, balance, faults, answers, kept>>

Ask(r, kind) ==
    \/ Begin(r, kind, nextId) /\ nextId' = nextId + 1 /\ asked' = asked \cup {nextId}
    \/ \E id \in asked : Begin(r, kind, id) /\ UNCHANGED <<nextId, asked>>

Retry(r) == Begin(r, "retry", 0) /\ UNCHANGED <<nextId, asked>>

\* getConversation: handleRagAIChat needs no messages, handleRetryAIChat needs
\* the conversation.
GetConversation(r) ==
    /\ At(r, "find")
    /\ \/ /\ found
          /\ call' = [call EXCEPT ![r].memory = summary,
                                  ![r].at = IF call[r].kind = "rag" THEN "charge" ELSE "read"]
       \/ ~found /\ call[r].kind # "retry" /\ Goto(r, "create")
       \/ ~found /\ call[r].kind = "retry" /\ call' = [call EXCEPT ![r] = Idle]
    /\ UNCHANGED <<Stored, balance, Clients, faults, answers, kept, irregular>>

\* After the title was generated: another first message may have been faster.
CreateConversation(r) ==
    /\ At(r, "create")
    /\ IF found THEN Fail(r)
                ELSE Goto(r, IF call[r].kind = "rag" THEN "charge" ELSE "read") /\ UNCHANGED irregular
    /\ found' = TRUE
    /\ UNCHANGED <<messages, summary, balance, Clients, faults, answers, kept>>

\* Mutant: any last message will do.
LastIsMessage == messages # <<>>

\* getMessages: a retry wants an answer to be the last message.
LastIsAnswer == messages # <<>> /\ messages[Len(messages)].role = "assistant"

GetMessages(r) ==
    /\ At(r, "read")
    /\ IF call[r].kind = "retry" /\ ~LastIsAnswer THEN call' = [call EXCEPT ![r] = Idle]
       ELSE call' = [call EXCEPT ![r].seen = messages,
                                 ![r].at = IF call[r].kind = "retry" THEN "drop" ELSE "context"]
    /\ UNCHANGED <<Stored, balance, Clients, faults, answers, kept, irregular>>

-----------------------------------------------------------------------------
(* A retry deletes the answer before it has another.                       *)

\* The sequence without its message of that id, which it has.
Without(s, id) ==
    LET k == CHOOSE i \in DOMAIN s : s[i].id = id
    IN  [i \in 1..(Len(s) - 1) |-> IF i < k THEN s[i] ELSE s[i + 1]]

\* deleteMessage fails when another call has deleted it.  The last of the rest
\* is the message to answer again.
DropAnswer(r) ==
    /\ At(r, "drop")
    /\ LET seen == call[r].seen
           rest == SubSeq(seen, 1, Len(seen) - 1)
       IN  IF found /\ seen[Len(seen)].id \in IdsOf(messages)
           THEN /\ messages' = Without(messages, seen[Len(seen)].id)
                /\ call' = [call EXCEPT ![r].at = "files",
                       ![r].question = IF rest = <<>> THEN NoMessage ELSE rest[Len(rest)],
                       ![r].seen = SubSeq(rest, 1, IF rest = <<>> THEN 0 ELSE Len(rest) - 1)]
           ELSE call' = [call EXCEPT ![r] = Idle] /\ UNCHANGED messages
    /\ UNCHANGED <<found, summary, balance, Clients, faults, answers, kept, irregular>>

\* The graph's clean-up, the uploads and the update of the question they are
\* attached to; the last fails as well when the question was deleted meanwhile.
AttachFiles(r) ==
    /\ At(r, "files")
    /\ \/ Goto(r, "context") /\ UNCHANGED <<faults, irregular>>
       \/ Fail(r) /\ Fault
       \/ call[r].question.id \notin IdsOf(messages) /\ Fail(r) /\ UNCHANGED faults
    /\ UNCHANGED <<Stored, balance, Clients, answers, kept>>

-----------------------------------------------------------------------------
(* The context, the credit and the answer.                                 *)

\* The summary is renewed on a batch's boundary alone, from the memory and the
\* messages the call has read.  When it fails the call goes on without; when it
\* cannot be stored the call fails.
BuildContextMessages(r) ==
    /\ At(r, "context")
    /\ LET seen == call[r].seen
           Send(memory) == call' = [call EXCEPT ![r].at = "charge", ![r].memory = memory,
                                  ![r].sent = BuildContext(seen, memory, call[r].question)]
           made == GenerateSummary(seen, call[r].memory)
       IN  \/ /\ ~ShouldSummarize(seen)
              /\ Send(call[r].memory)
              /\ UNCHANGED <<summary, faults, irregular>>
           \/ /\ ShouldSummarize(seen)
              /\ Send(made)
              /\ summary' = IF found THEN made ELSE summary
              /\ UNCHANGED <<faults, irregular>>
           \/ /\ ShouldSummarize(seen)
              /\ Send(call[r].memory)
              /\ Fault /\ Note({"summary"})
              /\ UNCHANGED summary
           \/ /\ ShouldSummarize(seen)
              /\ Fail(r) /\ Fault
              /\ UNCHANGED summary
    /\ UNCHANGED <<found, messages, balance, Clients, answers, kept>>

\* CreditService.deduct writes the usage log after the balance: when the log
\* fails, deduct throws and the caller does not know that it has paid.
Deduct(r) ==
    /\ At(r, "charge")
    /\ \/ /\ balance >= Cost /\ balance' = balance - Cost
          /\ call' = [call EXCEPT ![r].at = "generate", ![r].paid = Cost > 0,
                                  ![r].seen = <<>>, ![r].sent = {}, ![r].memory = {}]
          /\ UNCHANGED <<faults, kept, irregular>>
       \/ /\ balance >= Cost /\ balance' = balance - Cost
          /\ Fault /\ kept' = kept + 1 /\ Fail(r)
       \/ /\ balance < Cost /\ Fail(r)
          /\ UNCHANGED <<balance, faults, kept>>
    /\ UNCHANGED <<Stored, Clients, answers>>

\* The provider turns every error into a result; it has one when there is no
\* message to answer.
GenerateChat(r) ==
    /\ At(r, "generate")
    /\ \/ /\ call[r].question # NoMessage
          /\ Goto(r, IF call[r].kind = "retry" THEN "answer" ELSE "question")
          /\ UNCHANGED <<faults, irregular>>
       \/ call[r].question # NoMessage /\ FailPaid(r) /\ Fault
       \/ call[r].question = NoMessage /\ FailPaid(r) /\ UNCHANGED faults
    /\ UNCHANGED <<Stored, balance, Clients, answers, kept>>

\* Mutant: no unique id is asked for.
CreateMessageAgain(msg) == found /\ messages' = Append(messages, msg)

\* createMessage: one transaction that wants the conversation and a new id.
CreateMessage(msg) ==
    /\ found /\ msg.id \notin IdsOf(messages)
    /\ messages' = Append(messages, msg)

SaveQuestion(r) ==
    /\ At(r, "question")
    /\ \/ /\ CreateMessage(call[r].question)
          /\ Goto(r, "answer")
          /\ UNCHANGED <<faults, irregular>>
       \/ /\ ~found \/ call[r].question.id \in IdsOf(messages)
          /\ FailPaid(r) /\ UNCHANGED <<messages, faults>>
       \/ FailPaid(r) /\ Fault /\ UNCHANGED messages
    /\ UNCHANGED <<found, summary, balance, Clients, answers, kept>>

SaveAnswer(r) ==
    /\ At(r, "answer")
    /\ \/ /\ CreateMessage([id |-> nextId, role |-> "assistant"])
          /\ nextId' = nextId + 1
          /\ call' = [call EXCEPT ![r] = Idle]
          /\ answers' = answers \cup {[id |-> nextId, to |-> call[r].question.id, by |-> call[r].kind]}
          /\ UNCHANGED <<faults, irregular>>
       \/ ~found /\ FailPaid(r) /\ UNCHANGED <<messages, nextId, faults, answers>>
       \/ FailPaid(r) /\ Fault /\ UNCHANGED <<messages, nextId, answers>>
    /\ UNCHANGED <<found, summary, balance, asked, calls, kept>>

RefundAiChatCredit(r) ==
    /\ At(r, "refund")
    /\ \/ balance' = balance + Cost /\ UNCHANGED <<faults, kept>>
       \/ Fault /\ kept' = kept + 1 /\ UNCHANGED balance
    /\ Fail(r)
    /\ UNCHANGED <<Stored, Clients, answers>>

-----------------------------------------------------------------------------
(* The rest of the world.                                                  *)

\* The server stops: the calls it ran are gone, and what they paid stays paid.
Crash ==
    /\ \E r \in Requests : Running(r)
    /\ Fault
    /\ kept' = kept + Cardinality({r \in Requests : call[r].paid})
    /\ Note(Left(Requests))
    /\ call' = [r \in Requests |-> Idle]
    /\ UNCHANGED <<Stored, balance, Clients, answers>>

\* ChatManagementService.deleteMessage and deleteConversation, for ever.
DeleteMessage(id) ==
    /\ id \in IdsOf(messages)
    /\ Fault /\ Note({"deletion"})
    /\ messages' = Without(messages, id)
    /\ UNCHANGED <<found, summary, balance, call, Clients, answers, kept>>

DeleteConversation ==
    /\ found
    /\ Fault /\ Note({"deletion"})
    /\ found' = FALSE /\ messages' = <<>> /\ summary' = {}
    /\ UNCHANGED <<balance, call, Clients, answers, kept>>

Step(r) ==
    \/ GetConversation(r) \/ CreateConversation(r) \/ GetMessages(r)
    \/ DropAnswer(r) \/ AttachFiles(r)
    \/ BuildContextMessages(r) \/ Deduct(r) \/ GenerateChat(r)
    \/ SaveQuestion(r) \/ SaveAnswer(r) \/ RefundAiChatCredit(r)

Arrive(r) ==
    \/ \E kind \in Kinds \ {"retry"} : Ask(r, kind)
    \/ "retry" \in Kinds /\ Retry(r)

Next ==
    \/ \E r \in Requests : Arrive(r) \/ Step(r)
    \/ Crash
    \/ \E id \in Ids : DeleteMessage(id)
    \/ DeleteConversation

Spec == Init /\ [][Next]_vars

-----------------------------------------------------------------------------
(* Properties.                                                             *)

\* The credits that are gone are those of the saved answers, of the calls still
\* running that have paid, and of the charges a failed log, a failed refund or
\* a crash kept: neither an error nor a duplicate costs the user anything.
PaidForAnswers ==
    LET running == Cardinality({r \in Requests : call[r].paid})
    IN  balance + Cost * (Cardinality(answers) + running + kept) = Funds

\* A question the client sends twice, because the first call was slow or failed
\* half-way, is answered and charged once (unless the user deleted it between).
OneAnswerPerQuestion ==
    "deletion" \notin irregular =>
        \A a, b \in answers : a.to = b.to /\ a.by # "retry" /\ b.by # "retry" => a = b

\* What a retry answers again is a question, although it finds it by position:
\* calls that do not overlap leave the answer next to its question, whatever
\* fails between the two.
RetryAnswersQuestion ==
    \A r \in Requests :
        /\ irregular \cap {"overlap", "deletion"} = {}
        /\ call[r].kind = "retry" /\ call[r].at \in {"context", "charge", "generate", "answer"}
        => call[r].question.role = "user"

\* A question has one answer, and answers are given to questions, whatever is
\* sent twice or fails half-way.
AnswersFitQuestions == OneAnswerPerQuestion /\ RetryAnswersQuestion

\* The provider gets every message of the conversation, as it is or through the
\* memory.
ContextComplete ==
    \A r \in Requests : At(r, "charge") => IdsOf(call[r].seen) \subseteq call[r].sent

\* The context loses a message only after a summary failed, or after turns that
\* did not come one by one from handleAIChat: two calls at once, a RAG chat, a
\* question left without its answer, a deletion.
OnlyMissedBatchesForget == irregular = {} => ContextComplete
=============================================================================
