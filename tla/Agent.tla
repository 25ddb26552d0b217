-------------------------------- MODULE Agent --------------------------------
(***************************************************************************)
(* The agent's chat stream: AgentController's server-sent events around    *)
(* AgentService.handleChatStream, with the user's credits and the tools of *)
(* ToolRegistry.  A call takes its credit, lets the provider classify the  *)
(* request, and then answers in one stream, or in rounds in which the      *)
(* provider asks for tools.  The texts are left out: of what was sent to   *)
(* the client only the number of results and of errors counts.             *)
(***************************************************************************)
EXTENDS Naturals, FiniteSets

CONSTANTS
    Streams,            \* the requests that may be open at once
    MaxLoops,           \* rounds with the provider (maxLoops)
    MaxTools,           \* bound on the tool calls of one round
    Cost, Funds,        \* credits of one chat, credits of the user
    MaxStreams,         \* bound on the requests made
    MaxFaults           \* bound on failed usage logs, failed refunds and crashes

VARIABLES
    balance,            \* the user's credits
    stream,             \* per request, the call it runs
    opened, faults,     \* how many requests were made, how many things went wrong
    answered,           \* history: paid streams that ended with a result
    lost                \* history: charges that no answer and no refund followed

vars == <<balance, stream, opened, faults, answered, lost>>

AgentModes == {"chat", "summary", "note", "irrelevant"}
ModeHints == {"summary", "note", "none"}
Places == {"idle", "deduct", "classify", "refuse", "round", "tools", "answer", "catch", "end"}

Idle == [at |-> "idle", hint |-> "none", mode |-> "chat", paid |-> FALSE,
         loopCount |-> 0, tools |-> 0, results |-> 0, errors |-> 0]

-----------------------------------------------------------------------------
(* One call, from the request to the end of its stream.                    *)

Goto(s, place) == stream' = [stream EXCEPT ![s].at = place]
Counters == <<opened, faults, answered, lost>>

\* AgentController's chat: a blank message is answered with an error at once.
HandleChatStream(s, hint, blank) ==
    /\ stream[s].at = "idle" /\ opened < MaxStreams
    /\ opened' = opened + 1
    /\ stream' = [stream EXCEPT ![s] =
           IF blank THEN [Idle EXCEPT !.at = "end", !.errors = 1]
           ELSE [Idle EXCEPT !.at = "deduct", !.hint = hint]]
    /\ UNCHANGED <<balance, faults, answered, lost>>

\* CreditService.deduct takes the credit, or refuses it, or fails before it took it;
\* or it takes it and then cannot write its usage log: it throws, and the catch finds
\* creditDeducted still false, so that nothing is refunded.
DeductAgentChatCredit(s) ==
    /\ stream[s].at = "deduct"
    /\ \/ /\ balance >= Cost /\ balance' = balance - Cost
          /\ stream' = [stream EXCEPT ![s].at = "classify", ![s].paid = TRUE]
          /\ UNCHANGED <<faults, lost>>
       \/ Goto(s, "catch") /\ UNCHANGED <<balance, faults, lost>>
       \/ /\ balance >= Cost /\ balance' = balance - Cost
          /\ faults < MaxFaults /\ faults' = faults + 1 /\ lost' = lost + 1
          /\ Goto(s, "catch")
    /\ UNCHANGED <<opened, answered>>

\* The hint forces its mode, unless the request was found irrelevant.
ModeOf(classified, hint) ==
    IF classified # "irrelevant" /\ hint # "none" THEN hint ELSE classified

\* An answer that cannot be parsed, or names no mode, counts as "chat".
Classify(s, classified) ==
    LET mode == ModeOf(classified, stream[s].hint) IN
    /\ stream[s].at = "classify"
    /\ stream' = [stream EXCEPT ![s].mode = mode,
           ![s].at = CASE mode = "irrelevant" -> "refuse"
                       [] mode = "chat" -> "round"
                       [] OTHER -> "answer"]
    /\ UNCHANGED <<balance, Counters>>

\* CreditService.refund logs and swallows its own failure.
RefundAgentChatCredit(s) ==
    /\ stream[s].paid
    /\ \/ balance' = balance + Cost /\ UNCHANGED <<faults, lost>>
       \/ /\ faults < MaxFaults
          /\ faults' = faults + 1 /\ lost' = lost + 1 /\ UNCHANGED balance
Refunded(s) ==
    \/ RefundAgentChatCredit(s)
    \/ ~stream[s].paid /\ UNCHANGED <<balance, faults, lost>>

\* An irrelevant request gets its credit back and a polite refusal as its result.
Refuse(s) ==
    /\ stream[s].at = "refuse"
    /\ Refunded(s)
    /\ stream' = [stream EXCEPT ![s].paid = FALSE, ![s].results = @ + 1, ![s].at = "end"]
    /\ UNCHANGED <<opened, answered>>

\* handleSummaryMode and handleNoteMode, and the last round of handleChatMode.
SendResult(s) == stream' = [stream EXCEPT ![s].results = @ + 1, ![s].at = "end"]
Answer(s) ==
    /\ stream[s].at = "answer"
    /\ SendResult(s)
    /\ UNCHANGED <<balance, Counters>>

\* One round of handleChatMode: an answer, or tools to call first.
ChatRound(s) ==
    /\ stream[s].at = "round" /\ stream[s].loopCount < MaxLoops
    /\ \/ SendResult(s)
       \/ \E n \in 1..MaxTools :
              stream' = [stream EXCEPT ![s].at = "tools", ![s].tools = n,
                                       ![s].loopCount = @ + 1]
    /\ UNCHANGED <<balance, Counters>>

\* A tool that is unknown or throws answers with its error, so that it ends
\* like one that finds something; no tool has a credit of its own.
ExecuteToolCall(s) ==
    /\ stream[s].at = "tools"
    /\ stream' = [stream EXCEPT ![s].tools = @ - 1,
                                ![s].at = IF stream[s].tools = 1 THEN "round" ELSE "tools"]
    /\ UNCHANGED <<balance, Counters>>

\* The rounds are used up: the stream ends with neither a result nor an error,
\* and the credit is kept.
RunOutOfRounds(s) ==
    /\ stream[s].at = "round" /\ stream[s].loopCount = MaxLoops
    /\ stream' = [stream EXCEPT ![s].paid = FALSE, ![s].at = "end"]
    /\ lost' = lost + (IF stream[s].paid THEN 1 ELSE 0)
    /\ UNCHANGED <<balance, opened, faults, answered>>

\* The provider fails, breaks off, or names arguments that cannot be parsed.
Fail(s) ==
    /\ stream[s].at \in {"classify", "round", "tools", "answer"}
    /\ Goto(s, "catch")
    /\ UNCHANGED <<balance, Counters>>

SendError(s) ==
    stream' = [stream EXCEPT ![s].paid = FALSE, ![s].errors = @ + 1, ![s].at = "end"]

\* Mutant: a call that fails after a tool was called keeps the credit.
CatchBeforeTools(s) ==
    /\ stream[s].at = "catch"
    /\ IF stream[s].loopCount > 0 THEN UNCHANGED <<balance, faults, lost>> ELSE Refunded(s)
    /\ SendError(s)
    /\ UNCHANGED <<opened, answered>>
\* The catch of handleChatStream refunds, the controller's sends the error.
Catch(s) ==
    /\ stream[s].at = "catch"
    /\ Refunded(s)
    /\ SendError(s)
    /\ UNCHANGED <<opened, answered>>

\* The controller's finally ends the response.
End(s) ==
    /\ stream[s].at = "end"
    /\ answered' = answered + (IF stream[s].paid /\ stream[s].results = 1 THEN 1 ELSE 0)
    /\ stream' = [stream EXCEPT ![s] = Idle]
    /\ UNCHANGED <<balance, opened, faults, lost>>

\* The server stops: nothing refunds what the open streams have paid.
Crash ==
    /\ faults < MaxFaults /\ \E s \in Streams : stream[s].at # "idle"
    /\ faults' = faults + 1
    /\ lost' = lost + Cardinality({s \in Streams : stream[s].paid})
    /\ stream' = [s \in Streams |-> Idle]
    /\ UNCHANGED <<balance, opened, answered>>

-----------------------------------------------------------------------------
Init ==
    /\ balance = Funds /\ stream = [s \in Streams |-> Idle]
    /\ opened = 0 /\ faults = 0 /\ answered = 0 /\ lost = 0

Next ==
    \/ \E s \in Streams :
           \/ \E hint \in ModeHints, blank \in BOOLEAN : HandleChatStream(s, hint, blank)
           \/ DeductAgentChatCredit(s)
           \/ \E mode \in AgentModes : Classify(s, mode)
           \/ Refuse(s) \/ Answer(s) \/ ChatRound(s) \/ ExecuteToolCall(s)
           \/ RunOutOfRounds(s) \/ Fail(s) \/ Catch(s) \/ End(s)
    \/ Crash

Spec == Init /\ [][Next]_vars

-----------------------------------------------------------------------------
(* Properties.                                                             *)

\* The credits that are gone are those of answered requests and of the streams
\* still open, and what was kept by a charge whose usage log failed, a failed refund,
\* a crash, or five rounds of tools without an answer: a failure of the provider or
\* of a tool, a charge that failed before it took anything, and a refusal cost nothing.
CreditsBoughtAnswers ==
    LET open == Cardinality({s \in Streams : stream[s].paid}) IN
    balance + Cost * (open + answered + lost) = Funds

\* A stream tells its client one thing, a result or an error; only one whose
\* rounds are used up ends in silence.
OneOutcomePerStream ==
    \A s \in Streams : stream[s].at = "end" =>
        \/ stream[s].results + stream[s].errors = 1
        \/ stream[s].results + stream[s].errors = 0 /\ stream[s].loopCount = MaxLoops

AgentSettlesStreams == CreditsBoughtAnswers /\ OneOutcomePerStream
=============================================================================
