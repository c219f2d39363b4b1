---------------------------- MODULE RealtimeHub ----------------------------
(***************************************************************************)
(* The hub of packs/realtime on one node: the topic map and the connection *)
(* count under its lock, and for every connection the goroutine of serve   *)
(* (the writer) and the one it starts to read subscriptions (the reader).  *)
(* One action is one critical section, or one receive, write or read.      *)
(*                                                                         *)
(* A message is its topic and its number in the topic, counted in sent and *)
(* got for NoGaps only.  Which topics a client asks for and Authorize      *)
(* allows is left open.  Messages come from Publish or from the bus alike. *)
(***************************************************************************)
EXTENDS Integers, Sequences, FiniteSets

CONSTANTS
    Clients,      \* connections that may ever be made
    Topics,
    MaxConns,     \* REALTIME_MAX_CONNS
    MaxTopics,    \* REALTIME_MAX_TOPICS
    Buffer,       \* REALTIME_BUFFER
    MaxMessages   \* bound on the messages of one topic

ASSUME ClientsAssumption == IsFiniteSet(Clients)
\* defaults replaces what is not positive.
ASSUME LimitAssumption ==
    /\ MaxConns \in Nat \ {0}
    /\ MaxTopics \in Nat \ {0}
    /\ Buffer \in Nat \ {0}
    /\ MaxMessages \in Nat

VARIABLES
    topics,    \* topics[t]: the subscribers the hub sends t to
    mine,      \* mine[c]: the topics c thinks it has (client.topics)
    dropped,   \* clients whose send channel deliver has closed
    send,      \* send[c]: the messages queued for c
    conns,     \* the count of open connections
    writer,    \* writer[c]: where serve is
    reader,    \* reader[c]: where the reading goroutine is
    asked,     \* asked[c]: the allowed topics of the command c has just sent
    sent,      \* sent[t]: how many messages of t have been delivered
    got        \* got[c][t]: the last message of t that c's writer took

hubVars == <<topics, mine, dropped, send, conns, writer, reader, asked, sent, got>>

-----------------------------------------------------------------------------

\* "panicked": Authorize panicked in serve; net/http recovers and leaves the
\* hijacked connection alone.
WriterPCs == {"new", "refused", "counted", "select", "write", "ended", "panicked"}
ReaderPCs == {"off", "read", "asked", "failed"}

Message == [topic : Topics, n : Nat]

\* The connections conns counts.
Counted == {c \in Clients : writer[c] \in {"counted", "select", "write", "panicked"}}

\* The topics subscribe adds, out of those wanted and in any order: it stops
\* when the client has MaxTopics.
Added(c, wanted) ==
    {new \in SUBSET (wanted \ mine[c]) :
        /\ Cardinality(mine[c] \cup new) <= MaxTopics
        /\ new = wanted \ mine[c] \/ Cardinality(mine[c] \cup new) = MaxTopics}

Join(c, new) ==
    /\ topics' = [t \in Topics |-> IF t \in new THEN topics[t] \cup {c} ELSE topics[t]]
    /\ mine' = [mine EXCEPT ![c] = @ \cup new]
    /\ got' = [got EXCEPT ![c] = [t \in Topics |-> IF t \in new THEN sent[t] ELSE @[t]]]

\* Mutant of subscribe: a dropped client may come back.
subscribeAlways(c, wanted) == \E new \in Added(c, wanted) : Join(c, new)

\* Mutant of subscribe: the topics are not added to the client's own.
subscribeHalf(c, wanted) ==
    IF c \in dropped
    THEN UNCHANGED <<topics, mine, got>>
    ELSE \E new \in Added(c, wanted) :
            /\ topics' = [t \in Topics |-> IF t \in new THEN topics[t] \cup {c} ELSE topics[t]]
            /\ got' = [got EXCEPT ![c] = [t \in Topics |-> IF t \in new THEN sent[t] ELSE @[t]]]
            /\ UNCHANGED mine

subscribe(c, wanted) ==
    IF c \in dropped
    THEN UNCHANGED <<topics, mine, got>>
    ELSE \E new \in Added(c, wanted) : Join(c, new)

\* The deferred call of serve.  client.topics keeps its entries.
unsubscribe(c) ==
    /\ topics' = [t \in Topics |-> IF t \in mine[c] THEN topics[t] \ {c} ELSE topics[t]]
    /\ conns' = conns - 1
    /\ writer' = [writer EXCEPT ![c] = "ended"]
    /\ UNCHANGED <<mine, dropped, send, reader, asked, sent, got>>

-----------------------------------------------------------------------------
(* deliver *)

Slow(t) == {c \in topics[t] : Len(send[c]) >= Buffer}

\* Mutant of deliver: a full queue loses the message, not the client.
deliverOrSkip(t) ==
    /\ sent[t] < MaxMessages
    /\ sent' = [sent EXCEPT ![t] = @ + 1]
    /\ send' = [c \in Clients |->
                   IF c \in topics[t] \ Slow(t)
                   THEN Append(send[c], [topic |-> t, n |-> sent'[t]]) ELSE send[c]]
    /\ UNCHANGED <<topics, mine, dropped, conns, writer, reader, asked, got>>

deliver(t) ==
    /\ sent[t] < MaxMessages
    /\ sent' = [sent EXCEPT ![t] = @ + 1]
    /\ send' = [c \in Clients |->
                   IF c \in topics[t] \ Slow(t)
                   THEN Append(send[c], [topic |-> t, n |-> sent'[t]]) ELSE send[c]]
    /\ dropped' = dropped \cup Slow(t)
    /\ topics' = [u \in Topics |-> topics[u] \ {c \in Slow(t) : u \in mine[c]}]
    /\ mine' = [c \in Clients |-> IF c \in Slow(t) THEN {} ELSE mine[c]]
    /\ UNCHANGED <<conns, writer, reader, asked, got>>

-----------------------------------------------------------------------------
(* serve *)

\* Mutant of Connect: the count is not compared with the limit.
ConnectAlways(c) ==
    /\ writer[c] = "new"
    /\ conns' = conns + 1
    /\ writer' = [writer EXCEPT ![c] = "counted"]
    /\ UNCHANGED <<topics, mine, dropped, send, reader, asked, sent, got>>

Connect(c) ==
    /\ writer[c] = "new"
    /\ IF conns >= MaxConns
       THEN /\ writer' = [writer EXCEPT ![c] = "refused"]
            /\ conns' = conns
       ELSE /\ writer' = [writer EXCEPT ![c] = "counted"]
            /\ conns' = conns + 1
    /\ UNCHANGED <<topics, mine, dropped, send, reader, asked, sent, got>>

\* Mutant of AcceptFails: the slot of a failed upgrade is not given back.
AcceptFailsCounted(c) ==
    /\ writer[c] = "counted"
    /\ writer' = [writer EXCEPT ![c] = "ended"]
    /\ UNCHANGED <<topics, mine, dropped, send, conns, reader, asked, sent, got>>

AcceptFails(c) ==
    /\ writer[c] = "counted"
    /\ conns' = conns - 1
    /\ writer' = [writer EXCEPT ![c] = "ended"]
    /\ UNCHANGED <<topics, mine, dropped, send, reader, asked, sent, got>>

\* The upgrade, the topics of the query, and the start of the reader.
Accept(c) ==
    /\ writer[c] = "counted"
    /\ \E wanted \in SUBSET Topics : subscribe(c, wanted)
    /\ writer' = [writer EXCEPT ![c] = "select"]
    /\ reader' = [reader EXCEPT ![c] = "read"]
    /\ UNCHANGED <<dropped, send, conns, asked, sent>>

\* Authorize panics before unsubscribe is deferred.
AuthorizePanics(c) ==
    /\ writer[c] = "counted"
    /\ writer' = [writer EXCEPT ![c] = "panicked"]
    /\ UNCHANGED <<topics, mine, dropped, send, conns, reader, asked, sent, got>>

Take(c) ==
    /\ writer[c] = "select"
    /\ send[c] # <<>>
    /\ send' = [send EXCEPT ![c] = Tail(@)]
    /\ got' = [got EXCEPT ![c][Head(send[c]).topic] = Head(send[c]).n]
    /\ writer' = [writer EXCEPT ![c] = "write"]
    /\ UNCHANGED <<topics, mine, dropped, conns, reader, asked, sent>>

Written(c) ==
    /\ writer[c] = "write"
    /\ writer' = [writer EXCEPT ![c] = "select"]
    /\ UNCHANGED <<topics, mine, dropped, send, conns, reader, asked, sent, got>>

\* The client is gone, or too slow for WriteTimeout.
WriteFails(c) ==
    /\ writer[c] = "write"
    /\ unsubscribe(c)

\* Mutant of SeesClosed: the writer goes on until the client leaves.
SeesClosedLate(c) ==
    /\ writer[c] = "select" /\ c \in dropped /\ send[c] = <<>>
    /\ reader[c] = "failed"
    /\ unsubscribe(c)

\* The receive of a closed and drained channel.
SeesClosed(c) ==
    /\ writer[c] = "select" /\ c \in dropped /\ send[c] = <<>>
    /\ unsubscribe(c)

SeesReadError(c) ==
    /\ writer[c] = "select" /\ reader[c] = "failed"
    /\ unsubscribe(c)

\* The context of the request ends: a deadline around the handler, not a Shutdown of the
\* server, which leaves hijacked connections alone.
SeesDone(c) ==
    /\ writer[c] = "select"
    /\ unsubscribe(c)

-----------------------------------------------------------------------------
(* The reader *)

\* A command arrives; Authorize runs outside the lock.
Read(c) ==
    /\ reader[c] = "read" /\ writer[c] \in {"select", "write"}
    /\ \E wanted \in SUBSET Topics : asked' = [asked EXCEPT ![c] = wanted]
    /\ reader' = [reader EXCEPT ![c] = "asked"]
    /\ UNCHANGED <<topics, mine, dropped, send, conns, writer, sent, got>>

SubscribeMore(c) ==
    /\ reader[c] = "asked"
    /\ subscribe(c, asked[c])
    /\ reader' = [reader EXCEPT ![c] = "read"]
    /\ asked' = [asked EXCEPT ![c] = {}]
    /\ UNCHANGED <<dropped, send, conns, writer, sent>>

\* The client left, or serve has closed the connection.
ReadFails(c) ==
    /\ reader[c] = "read"
    /\ reader' = [reader EXCEPT ![c] = "failed"]
    /\ UNCHANGED <<topics, mine, dropped, send, conns, writer, asked, sent, got>>

-----------------------------------------------------------------------------

HubInit ==
    /\ topics = [t \in Topics |-> {}]
    /\ mine = [c \in Clients |-> {}]
    /\ dropped = {}
    /\ send = [c \in Clients |-> <<>>]
    /\ conns = 0
    /\ writer = [c \in Clients |-> "new"]
    /\ reader = [c \in Clients |-> "off"]
    /\ asked = [c \in Clients |-> {}]
    /\ sent = [t \in Topics |-> 0]
    /\ got = [c \in Clients |-> [t \in Topics |-> 0]]

\* What the two goroutines of a connection do by themselves.
Serving(c) ==
    Take(c) \/ Written(c) \/ WriteFails(c) \/ SeesClosed(c) \/ SeesReadError(c)

HubNext ==
    \/ \E t \in Topics : deliver(t)
    \/ \E c \in Clients :
        \/ Connect(c) \/ AcceptFails(c) \/ Accept(c) \/ AuthorizePanics(c)
        \/ Serving(c) \/ SeesDone(c)
        \/ Read(c) \/ SubscribeMore(c) \/ ReadFails(c)

HubSpec == HubInit /\ [][HubNext]_hubVars

\* A write ends within WriteTimeout and serve goes back to its select.  The
\* select of Go picks at random among the ready cases, so the end of the
\* connection, once ready, is picked in the end however many messages come.
Fairness ==
    \A c \in Clients : WF_hubVars(Serving(c)) /\ SF_hubVars(SeesReadError(c))

HubFairSpec == HubSpec /\ Fairness

-----------------------------------------------------------------------------
(* Properties *)

HubTypeOK ==
    /\ topics \in [Topics -> SUBSET Clients]
    /\ mine \in [Clients -> SUBSET Topics]
    /\ dropped \in SUBSET Clients
    /\ send \in [Clients -> Seq(Message)]
    /\ conns \in 0..MaxConns
    /\ writer \in [Clients -> WriterPCs]
    /\ reader \in [Clients -> ReaderPCs]
    /\ asked \in [Clients -> SUBSET Topics]
    /\ sent \in [Topics -> 0..MaxMessages]
    /\ got \in [Clients -> [Topics -> 0..MaxMessages]]

\* deliver never sends on a channel it has closed, which would panic with the
\* lock held: a dropped client is in no topic, though its reader may still be
\* between a command and its subscription.
DroppedIsGone == \A t \in Topics : topics[t] \cap dropped = {}

\* The hub holds no subscription its client does not know of: the removals in
\* deliver and unsubscribe go through client.topics and would leave it behind.
HubFollowsClients == \A c \in Clients : \A t \in Topics : c \in topics[t] => t \in mine[c]

\* conns, which decides whether a connection is let in, is the number of
\* connections between their check and their end, however they end.
ConnsAreOpen == conns = Cardinality(Counted)

\* A subscriber misses nothing and gets nothing twice: every message of the topic
\* since it subscribed that its writer has not taken waits in its queue, each
\* once and in order.  Falling behind ends the connection; it never makes a gap.
NoGaps ==
    /\ \A t \in Topics : \A c \in topics[t] : \A k \in (got[c][t] + 1)..sent[t] :
           \E i \in DOMAIN send[c] : send[c][i] = [topic |-> t, n |-> k]
    /\ \A c \in Clients : \A i \in DOMAIN send[c] :
           /\ got[c][send[c][i].topic] < send[c][i].n
           /\ \A j \in 1..(i - 1) :
                  send[c][j].topic = send[c][i].topic => send[c][j].n < send[c][i].n

\* The hub and its clients agree: on who subscribed and what waits, on who is gone, and on
\* how many there are.
HubKept == DroppedIsGone /\ HubFollowsClients /\ ConnsAreOpen /\ NoGaps

\* A connection that fell behind or whose client left gives its slot back.
SlotsReturn ==
    \A c \in Clients :
        (writer[c] \in {"select", "write"} /\ (c \in dropped \/ reader[c] = "failed"))
            ~> writer[c] = "ended"

\* The rule for a map keyed by connection: "drops entries on close".  A command
\* read before the end and subscribed after it puts the connection back.
GoneAreForgotten ==
    \A c \in Clients : \A t \in Topics : writer[c] = "ended" => c \notin topics[t]
=============================================================================
