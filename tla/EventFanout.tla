------------------------------ MODULE EventFanout ------------------------------
(***************************************************************************)
(* events.rs, webhooks.rs and http/websocket.rs: the way of an event from  *)
(* the task that broadcasts it to the webhooks and to the clients of the   *)
(* WebSocket interface.                                                    *)
(*                                                                         *)
(* A broadcast queues the event for the one webhook worker, then visits    *)
(* the connections.  DashMap::retain locks one shard after the other, so   *)
(* the visits of two broadcasts interleave, and a connection that is added *)
(* meanwhile may be visited or not.  Each connection has a writer task, a  *)
(* reader task and a handler that waits for the first of them to end.      *)
(*                                                                         *)
(* A client may leave, which its server is told, or be lost, which nothing *)
(* tells it: the reader waits without a time limit, the server sends no    *)
(* pings, and its sockets have no keepalive.  Only what is written to such *)
(* a client, and not acknowledged, makes TCP give the connection up.       *)
(*                                                                         *)
(* The worker is alive: a client that cannot be built ends it with a panic *)
(* as the server starts.                                                   *)
(***************************************************************************)
EXTENDS Naturals, Sequences, FiniteSets, SequencesExt

CONSTANTS
    Kinds,             \* EventKind
    Tasks,             \* the tasks that broadcast: receiver, senders of messages
    Program,           \* the kinds of the events each of them broadcasts, in order
    Webhooks,          \* the kinds of each configured webhook, none listed twice
    Connections,       \* the WebSocket connections of a behaviour
    MaskOf,            \* the kinds each of them asked for
    ConcurrencyLimit,  \* CONCURRENCY_LIMIT
    MaxPings,          \* bound: pings of a connection waiting for their pong
    NoEvent

ASSUME LimitAssumption == ConcurrencyLimit \in Nat \ {0} /\ MaxPings \in Nat
ASSUME KindsAssumption ==
    /\ Program \in [Tasks -> Seq(Kinds)]
    /\ Webhooks \in Seq(SUBSET Kinds)
    /\ MaskOf \in [Connections -> SUBSET Kinds]

Event(t, n) == [task |-> t, n |-> n, kind |-> Program[t][n]]
Events == UNION {{Event(t, n) : n \in 1..Len(Program[t])} : t \in Tasks}

ASSUME NoEventAssumption == NoEvent \notin Events

VARIABLES
    sent,         \* sent[t]: how many broadcasts t has begun
    unvisited,    \* unvisited[t]: what the present broadcast of t has yet to visit
    queue,        \* event_sender: the events the webhook worker has yet to take
    job,          \* what the worker is processing: an event, the webhooks it is
                  \* yet to be sent to, and those that have not answered
    posted,       \* posted[i]: the requests the server of webhook i has been sent
    connections,  \* WebSocketManager.connections
    channel,      \* channel[c]: the messages the writer of c has yet to send
    pings,        \* pings[c]: the pings it has yet to answer
    writer,       \* writer[c]: the state of tx_task
    reader,       \* reader[c]: the state of rx_task
    client,       \* client[c]: the other end and the way to it: none yet, open,
                  \* lost, doubted (lost, and owing TCP an acknowledgement), or
                  \* gone (closed, reset, or given up)
    received      \* received[c]: the events it has got

broadcasters == <<sent, unvisited>>
webhooks     == <<queue, job, posted>>
websocket    == <<connections, channel, pings, writer, reader, client, received>>
vars         == <<broadcasters, webhooks, websocket>>

TaskStates == {"none", "running", "ended"}
ClientStates == {"none", "open", "lost", "doubted", "gone"}
NoJob == [event |-> NoEvent, waiting |-> {}, running |-> {}]

Init ==
    /\ sent = [t \in Tasks |-> 0]
    /\ unvisited = [t \in Tasks |-> {}]
    /\ queue = <<>>
    /\ job = NoJob
    /\ posted = [i \in DOMAIN Webhooks |-> <<>>]
    /\ connections = {}
    /\ channel = [c \in Connections |-> <<>>]
    /\ pings = [c \in Connections |-> 0]
    /\ writer = [c \in Connections |-> "none"]
    /\ reader = [c \in Connections |-> "none"]
    /\ client = [c \in Connections |-> "none"]
    /\ received = [c \in Connections |-> <<>>]

-----------------------------------------------------------------------------
(***************************************************************************)
(* EventBroadcaster::broadcast.                                            *)
(***************************************************************************)
\* Variant (PostedInOrder): the newest event first.
BroadcastUrgently(t) ==
    /\ unvisited[t] = {}
    /\ sent[t] < Len(Program[t])
    /\ sent' = [sent EXCEPT ![t] = @ + 1]
    /\ queue' = <<Event(t, sent'[t])>> \o queue
    /\ unvisited' = [unvisited EXCEPT ![t] = Connections]
    /\ UNCHANGED <<job, posted, websocket>>

Broadcast(t) ==
    /\ unvisited[t] = {}
    /\ sent[t] < Len(Program[t])
    /\ sent' = [sent EXCEPT ![t] = @ + 1]
    /\ queue' = Append(queue, Event(t, sent'[t]))
    /\ unvisited' = [unvisited EXCEPT ![t] = Connections]
    /\ UNCHANGED <<job, posted, websocket>>

Visited(t, c) ==
    /\ c \in unvisited[t]
    /\ unvisited' = [unvisited EXCEPT ![t] = @ \ {c}]
    /\ UNCHANGED <<sent, webhooks, pings, writer, reader, client, received>>

Wanted(c, e) == e.kind \in MaskOf[c]

\* Variant (ReceivedInOrder): a bounded channel, which leaves out an event that
\* finds it full.
VisitLeavingOut(t, c) ==
    /\ Visited(t, c)
    /\ LET e == Event(t, sent[t]) IN
       /\ channel' = IF c \in connections /\ Wanted(c, e) /\ channel[c] = <<>>
                     THEN [channel EXCEPT ![c] = Append(@, e)] ELSE channel
       /\ UNCHANGED connections

\* Variant (RemovedOnlyWhenOver): a connection that does not want the event is
\* not retained.
VisitRemovingUnsent(t, c) ==
    /\ Visited(t, c)
    /\ LET e == Event(t, sent[t]) IN
       IF c \in connections /\ Wanted(c, e) /\ writer[c] = "running"
       THEN channel' = [channel EXCEPT ![c] = Append(@, e)] /\ UNCHANGED connections
       ELSE connections' = connections \ {c} /\ UNCHANGED channel

\* One connection of retain: an event it did not ask for passes it by, and a
\* connection whose writer has ended is removed.
Visit(t, c) ==
    /\ Visited(t, c)
    /\ LET e == Event(t, sent[t]) IN
       \/ /\ c \notin connections \/ ~Wanted(c, e)
          /\ UNCHANGED <<connections, channel>>
       \/ /\ c \in connections /\ Wanted(c, e) /\ writer[c] = "running"
          /\ channel' = [channel EXCEPT ![c] = Append(@, e)]
          /\ UNCHANGED connections
       \/ /\ c \in connections /\ Wanted(c, e) /\ writer[c] # "running"
          /\ connections' = connections \ {c}
          /\ UNCHANGED channel

-----------------------------------------------------------------------------
(***************************************************************************)
(* WebhookWorker: one event at a time, its requests at most                *)
(* ConcurrencyLimit at once, in any order of completion.                   *)
(***************************************************************************)
\* events_map: the webhooks a kind of event is for
Indices(kind) == {i \in DOMAIN Webhooks : kind \in Webhooks[i]}

\* recv, and process as far as the first request; an event no webhook asks for
\* is done with at once.
TakeEvent ==
    /\ job = NoJob
    /\ queue # <<>>
    /\ queue' = Tail(queue)
    /\ LET indices == Indices(Head(queue).kind) IN
       job' = IF indices = {} THEN NoJob
              ELSE [event |-> Head(queue), waiting |-> indices, running |-> {}]
    /\ UNCHANGED <<broadcasters, posted, websocket>>

\* The requests are started in the order of the configuration.
Start(i) ==
    /\ i \in job.waiting /\ \A j \in job.waiting : i <= j
    /\ job' = [job EXCEPT !.waiting = @ \ {i}, !.running = @ \cup {i}]
    /\ posted' = [posted EXCEPT ![i] = Append(@, job.event)]
    /\ UNCHANGED <<broadcasters, queue, websocket>>

\* Variant (TypeOK): every request of an event at once.
StartRequestUnbounded == \E i \in job.waiting : Start(i)

\* buffer_unordered: the next request, while fewer than the limit are running
StartRequest ==
    /\ Cardinality(job.running) < ConcurrencyLimit
    /\ \E i \in job.waiting : Start(i)

\* Variant (EveryEventPosted): the event is over with its first answer.
FinishWithFirstAnswer(i) ==
    /\ i \in job.running
    /\ job' = NoJob
    /\ UNCHANGED <<broadcasters, queue, posted, websocket>>

\* execute_webhook: an answer, a wrong status, a network error and the timeout
\* all end the request, and none of them is followed by another attempt.
FinishRequest(i) ==
    /\ i \in job.running
    /\ LET running == job.running \ {i} IN
       job' = IF running = {} /\ job.waiting = {}
              THEN NoJob ELSE [job EXCEPT !.running = running]
    /\ UNCHANGED <<broadcasters, queue, posted, websocket>>

WebhookWorker == TakeEvent \/ StartRequest \/ \E i \in job.running : FinishRequest(i)

-----------------------------------------------------------------------------
(***************************************************************************)
(* handle_websocket.                                                       *)
(***************************************************************************)
Connect(c) ==
    /\ client[c] = "none"
    /\ client' = [client EXCEPT ![c] = "open"]
    /\ connections' = connections \cup {c}
    /\ writer' = [writer EXCEPT ![c] = "running"]
    /\ reader' = [reader EXCEPT ![c] = "running"]
    /\ UNCHANGED <<broadcasters, webhooks, channel, pings, received>>

\* The client closes the connection, or it is reset: the server is told.
Leave(c) ==
    /\ client[c] = "open"
    /\ client' = [client EXCEPT ![c] = "gone"]
    /\ UNCHANGED <<broadcasters, webhooks, connections, channel, pings, writer, reader, received>>

\* The client is lost without a word: its network or its host is down.  What it
\* was sent last may be unacknowledged.
Lose(c) ==
    /\ client[c] = "open"
    /\ \E how \in {"lost", "doubted"} : client' = [client EXCEPT ![c] = how]
    /\ UNCHANGED <<broadcasters, webhooks, connections, channel, pings, writer, reader, received>>

\* TCP has sent what is unacknowledged often enough, and reports an error.
GiveUp(c) ==
    /\ client[c] = "doubted"
    /\ client' = [client EXCEPT ![c] = "gone"]
    /\ UNCHANGED <<broadcasters, webhooks, connections, channel, pings, writer, reader, received>>

\* What is written to a lost client stays unacknowledged.
Written(c) == client' = [client EXCEPT ![c] = IF @ = "lost" THEN "doubted" ELSE @]

\* The end of tx_task closes its two channels.
WriterEnds(c) ==
    /\ writer' = [writer EXCEPT ![c] = "ended"]
    /\ channel' = [channel EXCEPT ![c] = <<>>]
    /\ pings' = [pings EXCEPT ![c] = 0]

\* A write to a client that has gone fails, or is lost on the way.
WriteMessage(c) ==
    /\ writer[c] = "running"
    /\ channel[c] # <<>>
    /\ \/ /\ channel' = [channel EXCEPT ![c] = Tail(@)]
          /\ received' = [received EXCEPT ![c] =
                IF client[c] = "open" THEN Append(@, Head(channel[c])) ELSE @]
          /\ Written(c)
          /\ UNCHANGED <<pings, writer>>
       \/ client[c] = "gone" /\ WriterEnds(c) /\ UNCHANGED <<client, received>>
    /\ UNCHANGED <<broadcasters, webhooks, connections, reader>>

WritePong(c) ==
    /\ writer[c] = "running"
    /\ pings[c] > 0
    /\ \/ pings' = [pings EXCEPT ![c] = @ - 1] /\ Written(c) /\ UNCHANGED <<channel, writer>>
       \/ client[c] = "gone" /\ WriterEnds(c) /\ UNCHANGED client
    /\ UNCHANGED <<broadcasters, webhooks, connections, reader, received>>

\* A channel that is empty and closed: the messages', whose sender is in the map,
\* or the pings', whose sender the reader holds.  The select is not biased, so
\* that the second ends the writer with messages still in the first.
WriterStops(c) ==
    /\ writer[c] = "running"
    /\ \/ channel[c] = <<>> /\ c \notin connections
       \/ pings[c] = 0 /\ reader[c] = "ended"
    /\ WriterEnds(c)
    /\ UNCHANGED <<broadcasters, webhooks, connections, reader, client, received>>

\* A ping is handed to the writer, or finds it ended and ends the reader.
ReadPing(c) ==
    /\ reader[c] = "running"
    /\ client[c] = "open"
    /\ \/ /\ writer[c] = "running"
          /\ pings[c] < MaxPings
          /\ pings' = [pings EXCEPT ![c] = @ + 1]
          /\ UNCHANGED reader
       \/ /\ writer[c] = "ended"
          /\ reader' = [reader EXCEPT ![c] = "ended"]
          /\ UNCHANGED pings
    /\ UNCHANGED <<broadcasters, webhooks, connections, channel, writer, client, received>>

\* A close, an error or the end of the stream: next() returns when the server is
\* told of the end, and waits for ever when it is not.
ReaderStops(c) ==
    /\ reader[c] = "running"
    /\ client[c] = "gone"
    /\ reader' = [reader EXCEPT ![c] = "ended"]
    /\ UNCHANGED <<broadcasters, webhooks, connections, channel, pings, writer, client, received>>

\* Variant (GoneIsForgotten): a handler that leaves the removal to the next
\* broadcast.
RemoveNothing(c) == c \in connections /\ FALSE

\* handle_websocket after its select; what a broadcast has removed it removes
\* without effect.
RemoveConnection(c) ==
    /\ c \in connections
    /\ writer[c] = "ended" \/ reader[c] = "ended"
    /\ connections' = connections \ {c}
    /\ UNCHANGED <<broadcasters, webhooks, channel, pings, writer, reader, client, received>>

-----------------------------------------------------------------------------
Next ==
    \/ \E t \in Tasks : Broadcast(t) \/ \E c \in Connections : Visit(t, c)
    \/ WebhookWorker
    \/ \E c \in Connections :
          \/ Connect(c) \/ Leave(c) \/ Lose(c) \/ GiveUp(c)
          \/ WriteMessage(c) \/ WritePong(c) \/ WriterStops(c)
          \/ ReadPing(c) \/ ReaderStops(c)
          \/ RemoveConnection(c)

Spec == Init /\ [][Next]_vars

(***************************************************************************)
(* Fairness.  Tasks run; the timeout of ten seconds ends every request;    *)
(* select! picks a ready branch at random, so that pings cannot keep the   *)
(* messages from being written for ever.  The reader is told of a client   *)
(* that is gone, and TCP gives up one that acknowledges nothing; nothing   *)
(* is fair that would find out one that is merely lost.                    *)
(***************************************************************************)
Fairness ==
    /\ \A t \in Tasks, c \in Connections : WF_vars(Visit(t, c))
    /\ WF_vars(WebhookWorker)
    /\ \A c \in Connections :
          /\ WF_vars(WriteMessage(c))
          /\ WF_vars(WritePong(c))
          /\ WF_vars(WriterStops(c))
          /\ WF_vars(ReaderStops(c))
          /\ WF_vars(GiveUp(c))
          /\ WF_vars(RemoveConnection(c))

FairSpec == Spec /\ Fairness

-----------------------------------------------------------------------------
(***************************************************************************)
(* Properties.                                                             *)
(***************************************************************************)
TypeOK ==
    /\ sent \in [Tasks -> Nat] /\ \A t \in Tasks : sent[t] <= Len(Program[t])
    /\ unvisited \in [Tasks -> SUBSET Connections]
    /\ queue \in Seq(Events)
    /\ job \in [event : Events \cup {NoEvent}, waiting : SUBSET DOMAIN Webhooks,
               running : SUBSET DOMAIN Webhooks]
    /\ job.event = NoEvent => job = NoJob
    /\ Cardinality(job.running) <= ConcurrencyLimit
    /\ posted \in [DOMAIN Webhooks -> Seq(Events)]
    /\ connections \subseteq Connections
    /\ channel \in [Connections -> Seq(Events)]
    /\ pings \in [Connections -> 0..MaxPings]
    /\ writer \in [Connections -> TaskStates]
    /\ reader \in [Connections -> TaskStates]
    /\ client \in [Connections -> ClientStates]
    /\ received \in [Connections -> Seq(Events)]

\* The events of each task are in the order of their broadcasts, and none of
\* them is there twice.
InOrder(es) ==
    \A j, k \in DOMAIN es : j < k /\ es[j].task = es[k].task => es[j].n < es[k].n

\* What task t broadcast from its m-th event to its n-th and is of the kinds
HasAll(es, kinds, t, m, n) ==
    \A l \in m..n : Program[t][l] \in kinds => Event(t, l) \in Range(es)

\* A webhook is sent every event it is configured for, once, in the order in
\* which each task has broadcast them, from the first on: the channel is
\* unbounded "to ensure no webhooks are ever dropped" (webhooks.rs:94).
PostedInOrder ==
    \A i \in DOMAIN Webhooks :
        /\ InOrder(posted[i])
        /\ \A e \in Range(posted[i]) :
              /\ e.kind \in Webhooks[i]
              /\ HasAll(posted[i], Webhooks[i], e.task, 1, e.n)

\* A client gets the events it asked for without a gap, a repetition or a change
\* of order within what one task broadcasts, from some event after it connected
\* on, although broadcasts visit the connections one by one and the writer
\* chooses between messages and pongs.
ReceivedInOrder ==
    \A c \in Connections :
        /\ InOrder(received[c])
        /\ \A e \in Range(received[c]) : e.kind \in MaskOf[c]
        /\ \A e, f \in Range(received[c]) :
              e.task = f.task => HasAll(received[c], MaskOf[c], e.task, e.n, f.n)

\* A connection leaves the map only when its writer or its reader has ended,
\* whoever removes it: no broadcast throws out one that works.
RemovedOnlyWhenOver ==
    [][\A c \in connections \ connections' :
          writer[c] = "ended" \/ reader[c] = "ended"]_vars

\* Every event is sent to every webhook that asked for it, however often the
\* requests of another webhook fail or time out.
EveryEventPosted ==
    \A t \in Tasks, i \in DOMAIN Webhooks :
        \A n \in {k \in DOMAIN Program[t] : Program[t][k] \in Webhooks[i]} :
            sent[t] >= n ~> (\E k \in DOMAIN posted[i] : posted[i][k] = Event(t, n))

\* A client that has gone is forgotten and both its tasks end, although the
\* handler waits for one of them only and leaves the other to itself; and so is a
\* client that is lost, but only once there is something to write to it: until
\* then rx_task waits (StaysConnected of EventFanoutProofs.tla).
GoneIsForgotten ==
    \A c \in Connections :
        \/ client[c] \in {"doubted", "gone"}
        \/ client[c] = "lost" /\ (channel[c] # <<>> \/ pings[c] > 0)
        ~> (c \notin connections /\ writer[c] = "ended" /\ reader[c] = "ended")
=============================================================================
