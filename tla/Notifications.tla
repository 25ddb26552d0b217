---------------------------- MODULE Notifications ----------------------------
(***************************************************************************)
(* The notifications of one user: NotificationService stores each one and  *)
(* publishes it on the user's Redis channel, RedisEventBusAdapter hands    *)
(* what arrives at a server process to the channel's handler there, and    *)
(* NotificationController.stream replays to a client what it missed, by    *)
(* the last id it has seen, and then registers the handler of its stream.  *)
(* Ids are ULIDs drawn before the store, so they order the notifications   *)
(* by when their sending began.                                            *)
(***************************************************************************)
EXTENDS Naturals, FiniteSets

CONSTANTS
    Clients,        \* the user's browser tabs
    Streams,        \* the connections there may be at a time
    Procs,          \* the server processes
    None,
    MaxId,          \* bound on the notifications sent
    Limit,          \* replayLimit
    MaxFaults       \* bound on failures, lost answers and deaths

VARIABLES
    docs,       \* the ids stored
    sending,    \* per id, how far sendNotification got
    subscribed, \* per process, whether its Redis connection has the channel
    handler,    \* per process, the stream its handler writes to
    stream,     \* per stream, its request handler and whether its client is there
    client,     \* per client, its stream
    cursor,     \* per client, the id it received last
    received,   \* per client, the ids it received
    faults,
    stopping,   \* the processes that shut down
    crowded,    \* history: streams that shared their process with another one
    missable    \* history: per client, the ids the properties except

vars == <<docs, sending, subscribed, handler, stream, client, cursor, received,
          faults, stopping, crowded, missable>>

Ids == 1..MaxId
NoStream == [at |-> "none", proc |-> None, client |-> None, since |-> 0, alive |-> FALSE]
Ended(s) == stream[s].at = "none"

Init ==
    /\ docs = {} /\ sending = [n \in Ids |-> "none"]
    /\ subscribed = [p \in Procs |-> FALSE] /\ handler = [p \in Procs |-> None]
    /\ stream = [s \in Streams |-> NoStream]
    /\ client = [c \in Clients |-> None]
    /\ cursor = [c \in Clients |-> 0] /\ received = [c \in Clients |-> {}]
    /\ faults = 0 /\ stopping = {} /\ crowded = {} /\ missable = [c \in Clients |-> {}]

Fault == faults < MaxFaults /\ faults' = faults + 1
\* The handler of a stream that has ended, and writes to nobody.
Dead == "dead"

Goto(s, phase) == stream' = [stream EXCEPT ![s].at = phase]
End(s) == stream' = [stream EXCEPT ![s] = NoStream] /\ crowded' = crowded \ {s}

-----------------------------------------------------------------------------
(* What reaches the clients.                                               *)

\* Ids that are smaller than n and not yet published.
Behind(n) == {m \in Ids : m < n /\ sending[m] \in {"made", "stored"}}

\* The streams that a message on the channel is written to.
Hearing == {s \in Streams : \E p \in Procs : subscribed[p] /\ handler[p] = s /\ stream[s].alive}

\* Client c is connected and its replay is over.
PastReplay(c) ==
    client[c] # None /\ stream[client[c]].at \in {"subscribe", "subscribing", "open"}

\* Redis hands n to every subscribed process.  A client takes n as its cursor: what
\* is still on its way with a smaller id it may never see, and the same for n if
\* its stream is there, past its replay, and does not hear.
Deliver(n) ==
    LET hears(c) == client[c] \in Hearing
    IN  /\ cursor' = [c \in Clients |-> IF hears(c) THEN n ELSE cursor[c]]
        /\ received' = [c \in Clients |-> IF hears(c) THEN received[c] \cup {n} ELSE received[c]]
        /\ missable' = [c \in Clients |->
               missable[c] \cup (IF hears(c) THEN Behind(n)
                                 ELSE IF PastReplay(c) THEN {n} ELSE {})]

\* Nobody gets n live: the clients past their replay miss it.
Unheard(n) ==
    missable' = [c \in Clients |-> IF PastReplay(c) THEN missable[c] \cup {n} ELSE missable[c]]

-----------------------------------------------------------------------------
(* sendNotification.                                                       *)

StreamsStay == UNCHANGED <<subscribed, handler, stream, client, stopping, crowded>>

Make(n) ==
    /\ sending[n] = "none" /\ \A m \in 1..n - 1 : sending[m] # "none"
    /\ sending' = [sending EXCEPT ![n] = "made"]
    /\ UNCHANGED <<docs, cursor, received, faults, missable>> /\ StreamsStay

\* Mutant: the message is published before it is stored.
PublishFirst(n, step) == IF step = "publish" THEN sending[n] = "made" ELSE sending[n] = "stored"

Ready(n, step) == IF step = "store" THEN sending[n] = "made" ELSE sending[n] = "stored"

After(n) == sending' = [sending EXCEPT ![n] = IF @ = "made" THEN "stored" ELSE "done"]

\* A lost answer makes the retry meet its own id, and a failure for good stores
\* nothing: either way the message is not published.  One that is stored after a
\* client has moved past it is one the client may miss.
Store(n) ==
    /\ Ready(n, "store")
    /\ \/ docs' = docs \cup {n} /\ After(n) /\ UNCHANGED <<faults, missable>>
       \/ /\ Fault /\ docs' = docs \cup {n}
          /\ sending' = [sending EXCEPT ![n] = "done"]
          /\ Unheard(n)
       \/ /\ Fault /\ UNCHANGED <<docs, missable>>
          /\ sending' = [sending EXCEPT ![n] = "done"]
    /\ UNCHANGED <<cursor, received>> /\ StreamsStay

\* A lost answer makes the retry publish again; a failure for good, or the death of
\* the sender, leaves the message stored and unpublished.
Publish(n) ==
    /\ Ready(n, "publish")
    /\ \/ Deliver(n) /\ After(n) /\ UNCHANGED faults
       \/ Deliver(n) /\ Fault /\ UNCHANGED sending
       \/ /\ Fault /\ Unheard(n) /\ UNCHANGED <<cursor, received>>
          /\ sending' = [sending EXCEPT ![n] = "done"]
    /\ UNCHANGED docs /\ StreamsStay

-----------------------------------------------------------------------------
(* NotificationController.stream.                                          *)

SenderStays == UNCHANGED <<docs, sending>>
RunsOn == UNCHANGED stopping

\* A tab connects, or connects again after it lost its stream.
Connect(c, s, p) ==
    LET others == {t \in Streams \ {s} : ~Ended(t) /\ stream[t].proc = p}
    IN  /\ client[c] = None /\ Ended(s) /\ p \notin stopping
        /\ stream' = [stream EXCEPT ![s] = [at |-> "replay", proc |-> p, client |-> c,
                                            since |-> cursor[c], alive |-> TRUE]]
        /\ client' = [client EXCEPT ![c] = s]
        /\ crowded' = crowded \cup (IF others = {} THEN {} ELSE others \cup {s})
        /\ UNCHANGED <<subscribed, handler, cursor, received, faults, missable>> /\ SenderStays /\ RunsOn

\* listAfter: the first Limit ids after the cursor.
listAfter(since) ==
    {n \in docs : n > since /\ Cardinality({m \in docs : since < m /\ m < n}) < Limit}

Missed(since) == {n \in docs : n > since}

\* What is missed is written in order of the ids; a failure of the database is not
\* fatal and replays nothing.  What is left out the client may never see.
Replay(s) ==
    LET c == stream[s].client
        sent == listAfter(stream[s].since)
        Written(ns) ==
            IF ~stream[s].alive THEN UNCHANGED <<cursor, received, missable>>
            ELSE /\ received' = [received EXCEPT ![c] = @ \cup ns]
                 /\ cursor' = IF ns = {} THEN cursor
                              ELSE [cursor EXCEPT ![c] = CHOOSE n \in ns : \A m \in ns : m <= n]
                 /\ missable' = [missable EXCEPT ![c] = @ \cup (Missed(stream[s].since) \ ns)
                        \cup {n \in Ids : sending[n] # "none" /\ \E m \in ns : n < m /\ n \notin docs}]
    IN  /\ stream[s].at = "replay"
        /\ \/ Written(sent) /\ UNCHANGED faults
           \/ Written({}) /\ Fault
        /\ Goto(s, "subscribe")
        /\ UNCHANGED <<subscribed, handler, client, crowded>> /\ SenderStays /\ RunsOn

\* The handler is this stream's from now on.  A client that left before this is not
\* noticed: on('close') is registered too late, and the handler stays.
SetHandler(s) ==
    /\ handler' = [handler EXCEPT ![stream[s].proc] = IF stream[s].alive THEN s ELSE Dead]
    /\ IF stream[s].alive THEN Goto(s, "open") /\ UNCHANGED crowded ELSE End(s)

\* Mutant: a handler that is there is kept.
KeepHandler(s) ==
    /\ UNCHANGED handler
    /\ IF stream[s].alive THEN Goto(s, "open") /\ UNCHANGED crowded ELSE End(s)

OverwriteHandler(s) == SetHandler(s)

\* subscribe asks Redis for the channel unless it has a handler for it.
Subscribe(s) ==
    /\ stream[s].at = "subscribe"
    /\ IF handler[stream[s].proc] = None
       THEN Goto(s, "subscribing") /\ UNCHANGED <<handler, crowded>>
       ELSE OverwriteHandler(s)
    /\ UNCHANGED <<subscribed, client, cursor, received, faults, missable>> /\ SenderStays /\ RunsOn

\* A failure for good ends the response.
Subscribed(s) ==
    LET c == stream[s].client
    IN  /\ stream[s].at = "subscribing"
        /\ \/ /\ subscribed' = [subscribed EXCEPT ![stream[s].proc] = TRUE]
              /\ SetHandler(s) /\ UNCHANGED <<client, faults>>
           \/ /\ Fault /\ End(s)
              /\ client' = IF client[c] = s THEN [client EXCEPT ![c] = None] ELSE client
              /\ UNCHANGED <<subscribed, handler>>
        /\ UNCHANGED <<cursor, received, missable>> /\ SenderStays /\ RunsOn

\* A tab closes or loses its connection; the server notices once the stream is open.
Leave(c) ==
    LET s == client[c]
    IN  /\ s # None
        /\ client' = [client EXCEPT ![c] = None]
        /\ stream' = [stream EXCEPT ![s].alive = FALSE,
                                    ![s].at = IF @ = "open" THEN "closing" ELSE @]
        /\ UNCHANGED <<subscribed, handler, cursor, received, faults, crowded, missable>>
        /\ SenderStays /\ RunsOn

\* unsubscribe, whoever's handler it is by now.  A failure leaves both, and nobody
\* catches it: the process shuts down.
Unsubscribe(s) ==
    LET p == stream[s].proc
    IN  /\ stream[s].at = "closing"
        /\ \/ /\ subscribed' = [subscribed EXCEPT ![p] = FALSE]
              /\ handler' = [handler EXCEPT ![p] = None]
              /\ UNCHANGED <<faults, stopping>>
           \/ /\ Fault /\ UNCHANGED subscribed
              /\ handler' = [handler EXCEPT ![p] = IF @ = s THEN Dead ELSE @]
              /\ stopping' = stopping \cup {p}
        /\ End(s)
        /\ UNCHANGED <<client, cursor, received, missable>> /\ SenderStays

\* A server process dies, or stops at last, with its streams; another takes its place.
Crash(p) ==
    LET dead == {s \in Streams : ~Ended(s) /\ stream[s].proc = p}
    IN  /\ \/ p \in stopping /\ stopping' = stopping \ {p} /\ UNCHANGED faults
           \/ p \notin stopping /\ dead # {} /\ Fault /\ RunsOn
        /\ subscribed' = [subscribed EXCEPT ![p] = FALSE]
        /\ handler' = [handler EXCEPT ![p] = None]
        /\ stream' = [s \in Streams |-> IF s \in dead THEN NoStream ELSE stream[s]]
        /\ crowded' = crowded \ dead
        /\ client' = [c \in Clients |-> IF client[c] \in dead THEN None ELSE client[c]]
        /\ UNCHANGED <<cursor, received, missable>> /\ SenderStays

-----------------------------------------------------------------------------
Send(n) == Make(n) \/ Store(n) \/ Publish(n)
Serve(s) == Replay(s) \/ Subscribe(s) \/ Subscribed(s) \/ Unsubscribe(s)

Next ==
    \/ \E n \in Ids : Send(n)
    \/ \E c \in Clients : Leave(c) \/ \E s \in Streams, p \in Procs : Connect(c, s, p)
    \/ \E s \in Streams : Serve(s)
    \/ \E p \in Procs : Crash(p)

Spec == Init /\ [][Next]_vars

-----------------------------------------------------------------------------
(* Properties.                                                             *)

\* An open stream is the one its process writes the user's messages to, unless it
\* shared the process with another stream of the user, one being closed included.
OpenStreamHears ==
    \A s \in Streams : stream[s].at = "open" /\ s \notin crowded =>
        subscribed[stream[s].proc] /\ handler[stream[s].proc] = s

\* A client that has moved past a stored message has received it, unless it was
\* connected past its replay when the message was published and did not hear it,
\* or messages overtook each other on their way to the store and the channel, or
\* the replay was cut or failed.  What is sent while a client is away is never lost.
OnlyMissableLost ==
    \A c \in Clients : \A n \in docs :
        n < cursor[c] => n \in received[c] \/ n \in missable[c]

\* An open stream hears, and its client comes by all that it may not miss.
StreamsTell == OpenStreamHears /\ OnlyMissableLost
=============================================================================
