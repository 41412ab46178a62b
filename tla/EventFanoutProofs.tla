--------------------------- MODULE EventFanoutProofs ---------------------------
(***************************************************************************)
(* Theorems about EventFanout, for any tasks and programs, any webhooks    *)
(* and any number of connections.                                          *)
(***************************************************************************)
EXTENDS EventFanout, FiniteSetTheorems, TLAPS

-----------------------------------------------------------------------------
(***************************************************************************)
(* Sequences of events.                                                    *)
(***************************************************************************)
LEMMA EventFacts ==
    /\ \A t \in Tasks : \A n \in 1..Len(Program[t]) :
          /\ Event(t, n) \in Events
          /\ Event(t, n).task = t /\ Event(t, n).n = n /\ Event(t, n).kind = Program[t][n]
    /\ \A e \in Events :
          /\ e.task \in Tasks /\ e.n \in 1..Len(Program[e.task])
          /\ e = Event(e.task, e.n) /\ e.kind = Program[e.task][e.n]
    /\ \A t \in Tasks : Len(Program[t]) \in Nat
  <1>1. ASSUME NEW t \in Tasks, NEW n \in 1..Len(Program[t])
        PROVE  /\ Event(t, n) \in Events
               /\ Event(t, n).task = t /\ Event(t, n).n = n /\ Event(t, n).kind = Program[t][n]
    BY DEF Events, Event
  <1>2. ASSUME NEW e \in Events
        PROVE  /\ e.task \in Tasks /\ e.n \in 1..Len(Program[e.task])
               /\ e = Event(e.task, e.n) /\ e.kind = Program[e.task][e.n]
    <2>1. PICK t \in Tasks : e \in {Event(t, n) : n \in 1..Len(Program[t])}
      BY DEF Events
    <2>2. PICK n \in 1..Len(Program[t]) : e = Event(t, n)
      BY <2>1
    <2>3. e.task = t /\ e.n = n /\ e.kind = Program[t][n]
      BY <2>2 DEF Event
    <2>4. QED
      BY <2>2, <2>3
  <1>3. \A t \in Tasks : Len(Program[t]) \in Nat
    BY KindsAssumption
  <1>4. QED
    BY <1>1, <1>2, <1>3

LEMMA AppendedRange ==
    ASSUME NEW es \in Seq(Events), NEW e \in Events
    PROVE  Append(es, e) \in Seq(Events) /\ Range(Append(es, e)) = Range(es) \cup {e}
  <1>1. /\ DOMAIN es = 1..Len(es) /\ Len(es) \in Nat
        /\ DOMAIN Append(es, e) = 1..Len(es) + 1
        /\ \A k \in 1..Len(es) : Append(es, e)[k] = es[k]
        /\ Append(es, e)[Len(es) + 1] = e
    OBVIOUS
  <1>2. QED
    BY <1>1 DEF Range

LEMMA TailRange ==
    ASSUME NEW es \in Seq(Events), es # <<>>
    PROVE  /\ Tail(es) \in Seq(Events) /\ Head(es) \in Events
           /\ Range(es) = Range(Tail(es)) \cup {Head(es)}
  <1>1. /\ DOMAIN es = 1..Len(es) /\ Len(es) \in Nat /\ Len(es) # 0
        /\ DOMAIN Tail(es) = 1..Len(es) - 1
        /\ \A k \in 1..Len(es) - 1 : Tail(es)[k] = es[k + 1]
        /\ Head(es) = es[1]
    OBVIOUS
  <1>2. ASSUME NEW e \in Range(es) PROVE e \in Range(Tail(es)) \cup {Head(es)}
    <2>1. PICK k \in 1..Len(es) : e = es[k]
      BY <1>1 DEF Range
    <2>2. CASE k = 1
      BY <1>1, <2>1, <2>2
    <2>3. CASE k # 1
      <3>1. k - 1 \in 1..Len(es) - 1 /\ (k - 1) + 1 = k
        BY <1>1, <2>1, <2>3
      <3>2. Tail(es)[k - 1] = e
        BY <1>1, <2>1, <3>1
      <3>3. QED
        BY <1>1, <3>1, <3>2 DEF Range
    <2>4. QED
      BY <2>2, <2>3
  <1>3. ASSUME NEW e \in Range(Tail(es)) PROVE e \in Range(es)
    <2>1. PICK k \in 1..Len(es) - 1 : e = Tail(es)[k]
      BY <1>1, <1>3 DEF Range
    <2>2. k + 1 \in 1..Len(es)
      BY <1>1
    <2>3. QED
      BY <1>1, <2>1, <2>2 DEF Range
  <1>4. Head(es) \in Range(es)
    BY <1>1 DEF Range
  <1>5. Tail(es) \in Seq(Events) /\ Head(es) \in Events
    OBVIOUS
  <1>6. QED
    BY <1>2, <1>3, <1>4, <1>5

\* What comes after every other event of its task keeps the order.
LEMMA AppendedInOrder ==
    ASSUME NEW es \in Seq(Events), InOrder(es), NEW e \in Events,
           \A f \in Range(es) : f.task = e.task => f.n < e.n
    PROVE  InOrder(Append(es, e))
  <1>1. /\ DOMAIN es = 1..Len(es) /\ Len(es) \in Nat
        /\ DOMAIN Append(es, e) = 1..Len(es) + 1
        /\ \A k \in 1..Len(es) : Append(es, e)[k] = es[k] /\ es[k] \in Range(es)
        /\ Append(es, e)[Len(es) + 1] = e
    BY DEF Range
  <1>2. SUFFICES ASSUME NEW j \in 1..Len(es) + 1, NEW k \in 1..Len(es) + 1, j < k,
                        Append(es, e)[j].task = Append(es, e)[k].task
                 PROVE  Append(es, e)[j].n < Append(es, e)[k].n
    BY <1>1 DEF InOrder
  <1>3. j \in 1..Len(es) /\ Append(es, e)[j] = es[j]
    BY <1>1, <1>2
  <1>4. CASE k = Len(es) + 1
    BY <1>1, <1>2, <1>3, <1>4
  <1>5. CASE k \in 1..Len(es)
    BY <1>1, <1>2, <1>3, <1>5 DEF InOrder
  <1>6. QED
    BY <1>1, <1>4, <1>5

LEMMA TailInOrder ==
    ASSUME NEW es \in Seq(Events), es # <<>>, InOrder(es)
    PROVE  /\ InOrder(Tail(es))
           /\ \A f \in Range(Tail(es)) : f.task = Head(es).task => Head(es).n < f.n
  <1>1. /\ DOMAIN es = 1..Len(es) /\ Len(es) \in Nat /\ Len(es) # 0
        /\ DOMAIN Tail(es) = 1..Len(es) - 1
        /\ \A k \in 1..Len(es) - 1 : Tail(es)[k] = es[k + 1] /\ k + 1 \in 1..Len(es)
        /\ Head(es) = es[1] /\ 1 \in 1..Len(es)
    OBVIOUS
  <1>2. ASSUME NEW j \in 1..Len(es) - 1, NEW k \in 1..Len(es) - 1, j < k,
               Tail(es)[j].task = Tail(es)[k].task
        PROVE  Tail(es)[j].n < Tail(es)[k].n
    <2>1. j + 1 < k + 1
      BY <1>2
    <2>2. QED
      BY <1>1, <1>2, <2>1 DEF InOrder
  <1>3. ASSUME NEW f \in Range(Tail(es)), f.task = Head(es).task
        PROVE  Head(es).n < f.n
    <2>1. PICK k \in 1..Len(es) - 1 : f = es[k + 1]
      BY <1>1 DEF Range
    <2>2. 1 < k + 1
      OBVIOUS
    <2>3. QED
      BY <1>1, <1>3, <2>1, <2>2 DEF InOrder
  <1>4. QED
    BY <1>1, <1>2, <1>3 DEF InOrder

-----------------------------------------------------------------------------
(***************************************************************************)
(* Types.                                                                  *)
(***************************************************************************)
LEMMA JobTypes ==
    /\ NoJob \in [event : Events \cup {NoEvent}, waiting : SUBSET DOMAIN Webhooks,
                  running : SUBSET DOMAIN Webhooks]
    /\ NoJob.event = NoEvent /\ NoJob.waiting = {} /\ NoJob.running = {}
    /\ Cardinality(NoJob.running) <= ConcurrencyLimit
  <1>1. NoJob.event = NoEvent /\ NoJob.waiting = {} /\ NoJob.running = {}
    BY DEF NoJob
  <1>2. Cardinality({}) = 0
    BY FS_EmptySet
  <1>3. 0 <= ConcurrencyLimit
    BY LimitAssumption
  <1>4. QED
    BY <1>1, <1>2, <1>3 DEF NoJob

LEMMA TypeInit == Init => TypeOK
  <1> SUFFICES ASSUME Init PROVE TypeOK
    OBVIOUS
  <1>1. \A t \in Tasks : 0 <= Len(Program[t])
    BY EventFacts
  <1>2. job = NoJob
    BY DEF Init
  <1>3. job \in [event : Events \cup {NoEvent}, waiting : SUBSET DOMAIN Webhooks,
                 running : SUBSET DOMAIN Webhooks] /\ Cardinality(job.running) <= ConcurrencyLimit
    BY <1>2, JobTypes
  <1>4. pings \in [Connections -> 0..MaxPings]
    BY LimitAssumption DEF Init
  <1>5. QED
    BY <1>1, <1>2, <1>3, <1>4 DEF Init, TypeOK, TaskStates, ClientStates

LEMMA BroadcastType ==
    ASSUME TypeOK, NEW t \in Tasks, Broadcast(t)
    PROVE  TypeOK' /\ Event(t, sent'[t]) \in Events /\ sent'[t] = sent[t] + 1
  <1>1. /\ sent \in [Tasks -> Nat] /\ sent[t] < Len(Program[t])
        /\ sent' = [sent EXCEPT ![t] = @ + 1]
    BY DEF Broadcast, TypeOK
  <1>2. sent'[t] = sent[t] + 1 /\ sent'[t] \in 1..Len(Program[t])
    BY <1>1, EventFacts
  <1>3. Event(t, sent'[t]) \in Events
    BY <1>2, EventFacts
  <1>4. queue' \in Seq(Events)
    BY <1>3, AppendedRange DEF Broadcast, TypeOK
  <1>5. sent' \in [Tasks -> Nat] /\ \A u \in Tasks : sent'[u] <= Len(Program[u])
    BY <1>1, <1>2 DEF TypeOK
  <1>6. unvisited' \in [Tasks -> SUBSET Connections]
    BY DEF Broadcast, TypeOK
  <1>7. QED
    BY <1>2, <1>3, <1>4, <1>5, <1>6 DEF TypeOK, Broadcast, websocket

LEMMA VisitType ==
    ASSUME TypeOK, NEW t \in Tasks, NEW c \in Connections, Visit(t, c),
           Event(t, sent[t]) \in Events
    PROVE  TypeOK'
  <1>1. unvisited' \in [Tasks -> SUBSET Connections]
    BY DEF Visit, Visited, TypeOK
  <1>2. connections' \subseteq Connections
    BY DEF Visit, TypeOK
  <1>3. channel' \in [Connections -> Seq(Events)]
    <2>1. Append(channel[c], Event(t, sent[t])) \in Seq(Events)
      BY AppendedRange DEF TypeOK
    <2>2. channel' = channel \/ channel' = [channel EXCEPT ![c] = Append(@, Event(t, sent[t]))]
      BY DEF Visit
    <2>3. QED
      BY <2>1, <2>2 DEF TypeOK
  <1>4. QED
    BY <1>1, <1>2, <1>3 DEF TypeOK, Visit, Visited, webhooks

LEMMA TakeEventType ==
    ASSUME TypeOK, TakeEvent
    PROVE  TypeOK'
  <1> DEFINE indices == Indices(Head(queue).kind)
             taken == [event |-> Head(queue), waiting |-> indices, running |-> {}]
  <1>1. queue' \in Seq(Events) /\ Head(queue) \in Events
    BY TailRange DEF TakeEvent, TypeOK
  <1>2. job' = NoJob \/ job' = taken
    BY DEF TakeEvent
  <1>3. /\ taken \in [event : Events \cup {NoEvent}, waiting : SUBSET DOMAIN Webhooks,
                      running : SUBSET DOMAIN Webhooks]
        /\ taken.event = Head(queue) /\ taken.running = {}
    BY <1>1 DEF Indices
  <1>4. taken.event # NoEvent
    BY <1>1, <1>3, NoEventAssumption
  <1>5. Cardinality(taken.running) <= ConcurrencyLimit
    BY <1>3, FS_EmptySet, LimitAssumption
  <1> HIDE DEF taken
  <1>6. /\ job' \in [event : Events \cup {NoEvent}, waiting : SUBSET DOMAIN Webhooks,
                     running : SUBSET DOMAIN Webhooks]
        /\ job'.event = NoEvent => job' = NoJob
        /\ Cardinality(job'.running) <= ConcurrencyLimit
    BY <1>2, <1>3, <1>4, <1>5, JobTypes
  <1>7. QED
    BY <1>1, <1>6 DEF TypeOK, TakeEvent, broadcasters, websocket

LEMMA StartType ==
    ASSUME TypeOK, NEW i \in job.waiting, Start(i), Cardinality(job.running) < ConcurrencyLimit
    PROVE  TypeOK' /\ job.event \in Events /\ i \in DOMAIN Webhooks
  <1> DEFINE started == [job EXCEPT !.waiting = @ \ {i}, !.running = @ \cup {i}]
  <1>1. i \in DOMAIN Webhooks /\ job.waiting # {}
    BY DEF TypeOK
  <1>2. job.event \in Events
    BY <1>1, JobTypes DEF TypeOK
  <1>3. /\ started \in [event : Events \cup {NoEvent}, waiting : SUBSET DOMAIN Webhooks,
                        running : SUBSET DOMAIN Webhooks]
        /\ started.event = job.event /\ started.running = job.running \cup {i}
    BY <1>1 DEF TypeOK
  <1>4. Cardinality(job.running \cup {i}) <= ConcurrencyLimit
    <2>1. IsFiniteSet(job.running)
      <3>1. IsFiniteSet(DOMAIN Webhooks)
        <4>1. DOMAIN Webhooks = 1..Len(Webhooks) /\ Len(Webhooks) \in Nat
          BY KindsAssumption
        <4>2. QED
          BY <4>1, FS_Interval
      <3>2. job.running \in SUBSET DOMAIN Webhooks
        BY DEF TypeOK
      <3>3. QED
        BY <3>1, <3>2, FS_Subset
    <2>2. /\ Cardinality(job.running) \in Nat
          /\ \/ Cardinality(job.running \cup {i}) = Cardinality(job.running)
             \/ Cardinality(job.running \cup {i}) = Cardinality(job.running) + 1
      BY <2>1, FS_AddElement, FS_CardinalityType
    <2>3. QED
      BY <2>2, LimitAssumption
  <1>5. posted' \in [DOMAIN Webhooks -> Seq(Events)]
    <2>1. posted' = [posted EXCEPT ![i] = Append(@, job.event)]
      BY DEF Start
    <2>2. Append(posted[i], job.event) \in Seq(Events)
      BY <1>1, <1>2, AppendedRange DEF TypeOK
    <2>3. QED
      BY <2>1, <2>2 DEF TypeOK
  <1>6. job' = started
    BY DEF Start
  <1> HIDE DEF started
  <1>7. /\ job' \in [event : Events \cup {NoEvent}, waiting : SUBSET DOMAIN Webhooks,
                     running : SUBSET DOMAIN Webhooks]
        /\ job'.event = NoEvent => job' = NoJob
        /\ Cardinality(job'.running) <= ConcurrencyLimit
    BY <1>2, <1>3, <1>4, <1>6, NoEventAssumption
  <1>8. QED
    BY <1>1, <1>2, <1>5, <1>7 DEF TypeOK, Start, broadcasters, websocket

LEMMA FinishType ==
    ASSUME TypeOK, NEW i \in job.running, FinishRequest(i)
    PROVE  TypeOK'
  <1> DEFINE left == [job EXCEPT !.running = @ \ {i}]
  <1>1. job.event # NoEvent
    BY JobTypes DEF TypeOK
  <1>2. /\ left \in [event : Events \cup {NoEvent}, waiting : SUBSET DOMAIN Webhooks,
                     running : SUBSET DOMAIN Webhooks]
        /\ left.event = job.event /\ left.running = job.running \ {i}
    BY DEF TypeOK
  <1>3. Cardinality(job.running \ {i}) <= ConcurrencyLimit
    <2>1. IsFiniteSet(job.running)
      <3>1. DOMAIN Webhooks = 1..Len(Webhooks) /\ Len(Webhooks) \in Nat
        BY KindsAssumption
      <3>2. IsFiniteSet(DOMAIN Webhooks)
        BY <3>1, FS_Interval
      <3>3. job.running \in SUBSET DOMAIN Webhooks
        BY DEF TypeOK
      <3>4. QED
        BY <3>2, <3>3, FS_Subset
    <2>2. /\ Cardinality(job.running) \in Nat
          /\ Cardinality(job.running \ {i}) = Cardinality(job.running) - 1
      BY <2>1, FS_RemoveElement, FS_CardinalityType
    <2>3. QED
      BY <2>2, LimitAssumption DEF TypeOK
  <1>4. job' = NoJob \/ job' = left
    BY DEF FinishRequest
  <1> HIDE DEF left
  <1>5. /\ job' \in [event : Events \cup {NoEvent}, waiting : SUBSET DOMAIN Webhooks,
                     running : SUBSET DOMAIN Webhooks]
        /\ job'.event = NoEvent => job' = NoJob
        /\ Cardinality(job'.running) <= ConcurrencyLimit
    BY <1>1, <1>2, <1>3, <1>4, JobTypes
  <1>6. QED
    BY <1>5 DEF TypeOK, FinishRequest, broadcasters, websocket

LEMMA WriterEndsType ==
    ASSUME TypeOK, NEW c \in Connections, WriterEnds(c)
    PROVE  /\ writer' \in [Connections -> TaskStates]
           /\ channel' \in [Connections -> Seq(Events)]
           /\ pings' \in [Connections -> 0..MaxPings]
  <1>1. <<>> \in Seq(Events) /\ 0 \in 0..MaxPings
    BY LimitAssumption
  <1>2. QED
    BY <1>1 DEF WriterEnds, TypeOK, TaskStates

LEMMA WrittenType ==
    ASSUME TypeOK, NEW c \in Connections, Written(c)
    PROVE  client' \in [Connections -> ClientStates]
  BY DEF Written, TypeOK, ClientStates

LEMMA WriteMessageType ==
    ASSUME TypeOK, NEW c \in Connections, WriteMessage(c)
    PROVE  TypeOK'
  <1>1. Tail(channel[c]) \in Seq(Events) /\ Head(channel[c]) \in Events
    BY TailRange DEF WriteMessage, TypeOK
  <1>2. CASE WriterEnds(c) /\ UNCHANGED <<client, received>>
    BY <1>2, WriterEndsType DEF TypeOK, WriteMessage, broadcasters, webhooks
  <1>3. CASE /\ channel' = [channel EXCEPT ![c] = Tail(@)]
             /\ received' = [received EXCEPT ![c] =
                   IF client[c] = "open" THEN Append(@, Head(channel[c])) ELSE @]
             /\ Written(c)
             /\ UNCHANGED <<pings, writer>>
    <2>1. channel' \in [Connections -> Seq(Events)]
      BY <1>1, <1>3 DEF TypeOK
    <2>2. Append(received[c], Head(channel[c])) \in Seq(Events)
      BY <1>1, AppendedRange DEF TypeOK
    <2>3. received' \in [Connections -> Seq(Events)]
      BY <1>3, <2>2 DEF TypeOK
    <2>4. client' \in [Connections -> ClientStates]
      BY <1>3, WrittenType
    <2>5. QED
      BY <1>3, <2>1, <2>3, <2>4 DEF TypeOK, WriteMessage, broadcasters, webhooks
  <1>4. QED
    BY <1>2, <1>3 DEF WriteMessage

LEMMA ConnectionType ==
    ASSUME TypeOK, NEW c \in Connections,
           \/ Connect(c) \/ Leave(c) \/ Lose(c) \/ GiveUp(c)
           \/ WriteMessage(c) \/ WritePong(c) \/ WriterStops(c)
           \/ ReadPing(c) \/ ReaderStops(c)
           \/ RemoveConnection(c)
    PROVE  TypeOK'
  <1>1. CASE Connect(c) \/ Leave(c) \/ Lose(c) \/ GiveUp(c)
    <2>1. CASE Connect(c)
      <3>1. /\ connections' \subseteq Connections
            /\ writer' \in [Connections -> TaskStates]
            /\ reader' \in [Connections -> TaskStates]
            /\ client' \in [Connections -> ClientStates]
        BY <2>1 DEF TypeOK, Connect, TaskStates, ClientStates
      <3>2. QED
        BY <2>1, <3>1 DEF TypeOK, Connect, broadcasters, webhooks
    <2>2. CASE Leave(c) \/ Lose(c) \/ GiveUp(c)
      <3>1. client' \in [Connections -> ClientStates]
        BY <2>2 DEF TypeOK, Leave, Lose, GiveUp, ClientStates
      <3>2. QED
        BY <2>2, <3>1 DEF TypeOK, Leave, Lose, GiveUp, broadcasters, webhooks
    <2>3. QED
      BY <1>1, <2>1, <2>2
  <1>2. CASE WriteMessage(c)
    BY <1>2, WriteMessageType
  <1>3. CASE WritePong(c)
    <2>1. CASE WriterEnds(c) /\ UNCHANGED client
      BY <1>3, <2>1, WriterEndsType DEF TypeOK, WritePong, broadcasters, webhooks
    <2>2. CASE pings' = [pings EXCEPT ![c] = @ - 1] /\ Written(c) /\ UNCHANGED <<channel, writer>>
      <3>1. pings[c] - 1 \in 0..MaxPings
        BY <1>3, LimitAssumption DEF WritePong, TypeOK
      <3>2. pings' \in [Connections -> 0..MaxPings]
        BY <2>2, <3>1 DEF TypeOK
      <3>3. client' \in [Connections -> ClientStates]
        BY <2>2, WrittenType
      <3>4. QED
        BY <1>3, <2>2, <3>2, <3>3 DEF TypeOK, WritePong, broadcasters, webhooks
    <2>3. QED
      BY <1>3, <2>1, <2>2 DEF WritePong
  <1>4. CASE WriterStops(c)
    BY <1>4, WriterEndsType DEF TypeOK, WriterStops, broadcasters, webhooks
  <1>5. CASE ReadPing(c)
    <2>1. pings' \in [Connections -> 0..MaxPings]
      <3>1. CASE pings[c] < MaxPings /\ pings' = [pings EXCEPT ![c] = @ + 1]
        <4>1. pings[c] + 1 \in 0..MaxPings
          BY <3>1, LimitAssumption DEF TypeOK
        <4>2. QED
          BY <3>1, <4>1 DEF TypeOK
      <3>2. CASE UNCHANGED pings
        BY <3>2 DEF TypeOK
      <3>3. QED
        BY <1>5, <3>1, <3>2 DEF ReadPing
    <2>2. reader' \in [Connections -> TaskStates]
      BY <1>5 DEF ReadPing, TypeOK, TaskStates
    <2>3. QED
      BY <1>5, <2>1, <2>2 DEF TypeOK, ReadPing, broadcasters, webhooks
  <1>6. CASE ReaderStops(c)
    BY <1>6 DEF TypeOK, ReaderStops, broadcasters, webhooks, TaskStates
  <1>7. CASE RemoveConnection(c)
    BY <1>7 DEF TypeOK, RemoveConnection, broadcasters, webhooks
  <1>8. QED
    BY <1>1, <1>2, <1>3, <1>4, <1>5, <1>6, <1>7

-----------------------------------------------------------------------------
(***************************************************************************)
(* The way of an event to the webhooks.                                    *)
(***************************************************************************)
\* The event being processed is still to be sent to webhook i.
ToPost(i, e) == job.event = e /\ i \in job.waiting

\* A broadcast that is visiting the connections has begun.
Underway == \A t \in Tasks : unvisited[t] # {} => sent[t] > 0

\* The queue is in order, and what is in work or in it has been broadcast.
QueueInv ==
    /\ InOrder(queue)
    /\ \A e \in Range(queue) : e.n <= sent[e.task]
    /\ job.event # NoEvent =>
          /\ job.event.n <= sent[job.event.task]
          /\ job.waiting \subseteq Indices(job.event.kind)
          /\ \A e \in Range(queue) : e.task = job.event.task => job.event.n < e.n

\* What webhook i was sent precedes what it is yet to be sent, and between the
\* two nothing that it asked for is missing.
PostInv(i) ==
    /\ InOrder(posted[i])
    /\ \A e \in Range(posted[i]) :
          /\ e.kind \in Webhooks[i]
          /\ e.n <= sent[e.task]
          /\ \A f \in Range(queue) : e.task = f.task => e.n < f.n
          /\ job.event # NoEvent /\ e.task = job.event.task =>
                /\ e.n <= job.event.n
                /\ i \in job.waiting => e.n < job.event.n
    /\ \A t \in Tasks : \A n \in 1..sent[t] :
          Program[t][n] \in Webhooks[i] =>
             \/ Event(t, n) \in Range(queue)
             \/ ToPost(i, Event(t, n))
             \/ Event(t, n) \in Range(posted[i])

WebhooksInv == Underway /\ QueueInv /\ \A i \in DOMAIN Webhooks : PostInv(i)

LEMMA BroadcastKeepsWebhooks ==
    ASSUME TypeOK, WebhooksInv, NEW t \in Tasks, Broadcast(t)
    PROVE  WebhooksInv'
  <1> DEFINE e == Event(t, sent'[t])
  <1>1. /\ e \in Events /\ e.task = t /\ e.n = sent[t] + 1
        /\ sent \in [Tasks -> Nat] /\ sent'[t] = sent[t] + 1
        /\ \A u \in Tasks : u # t => sent'[u] = sent[u]
        /\ \A u \in Tasks : sent[u] \in Nat /\ sent'[u] \in Nat /\ sent[u] <= sent'[u]
    <2>1. e \in Events /\ sent'[t] = sent[t] + 1
      BY BroadcastType
    <2>2. sent \in [Tasks -> Nat] /\ sent' = [sent EXCEPT ![t] = @ + 1]
      BY DEF Broadcast, TypeOK
    <2>3. e.task = t /\ e.n = sent'[t]
      BY DEF Event
    <2>4. QED
      BY <2>1, <2>2, <2>3
  <1>2. /\ queue' = Append(queue, e) /\ queue \in Seq(Events)
        /\ unvisited' = [unvisited EXCEPT ![t] = Connections]
        /\ unvisited \in [Tasks -> SUBSET Connections]
        /\ job' = job /\ posted' = posted
    BY DEF Broadcast, TypeOK
  <1> HIDE DEF e
  <1>3. Range(queue') = Range(queue) \cup {e} /\ Range(queue) \subseteq Events
    <2>1. Range(queue) \subseteq Events
      BY <1>2 DEF Range
    <2>2. QED
      BY <1>1, <1>2, <2>1, AppendedRange
  <1>4. \A f \in Events : f.task \in Tasks /\ f.n \in Nat
    BY EventFacts
  <1>5. \A f \in Events : f.n <= sent[f.task] => f.n <= sent'[f.task] /\ (f.task = t => f.n < e.n)
    BY <1>1, <1>4
  <1>6. Underway'
    BY <1>1, <1>2 DEF WebhooksInv, Underway
  <1>7. QueueInv'
    <2>1. InOrder(queue')
      BY <1>1, <1>2, <1>3, <1>5, AppendedInOrder DEF WebhooksInv, QueueInv
    <2>2. \A f \in Range(queue') : f.n <= sent'[f.task]
      BY <1>1, <1>3, <1>5 DEF WebhooksInv, QueueInv
    <2>3. job.event # NoEvent => job.event \in Events
      BY DEF TypeOK
    <2>4. ASSUME job.event # NoEvent
          PROVE  /\ job.event.n <= sent'[job.event.task]
                 /\ job.waiting \subseteq Indices(job.event.kind)
                 /\ \A f \in Range(queue') : f.task = job.event.task => job.event.n < f.n
      BY <1>1, <1>3, <1>5, <2>3, <2>4 DEF WebhooksInv, QueueInv
    <2>5. QED
      BY <1>2, <2>1, <2>2, <2>4 DEF QueueInv
  <1>8. ASSUME NEW i \in DOMAIN Webhooks PROVE PostInv(i)'
    <2>1. PostInv(i)
      BY DEF WebhooksInv
    <2>2. Range(posted[i]) \subseteq Events
      BY DEF Range, TypeOK
    <2>3. ASSUME NEW f \in Range(posted[i])
          PROVE  /\ f.n <= sent'[f.task]
                 /\ \A g \in Range(queue') : f.task = g.task => f.n < g.n
      BY <1>1, <1>3, <1>5, <2>1, <2>2, <2>3 DEF PostInv
    <2>4. ASSUME NEW u \in Tasks, NEW n \in 1..sent'[u], Program[u][n] \in Webhooks[i]
          PROVE  \/ Event(u, n) \in Range(queue')
                 \/ ToPost(i, Event(u, n))'
                 \/ Event(u, n) \in Range(posted[i])
      <3>1. CASE n \in 1..sent[u]
        BY <1>2, <1>3, <2>1, <2>4, <3>1 DEF PostInv, ToPost
      <3>2. CASE n \notin 1..sent[u]
        <4>1. u = t /\ n = sent'[t]
          BY <1>1, <3>2
        <4>2. QED
          BY <1>3, <4>1 DEF e
      <3>3. QED
        BY <3>1, <3>2
    <2>5. QED
      BY <1>2, <2>1, <2>3, <2>4 DEF PostInv
  <1>9. QED
    BY <1>6, <1>7, <1>8 DEF WebhooksInv

LEMMA TakeEventKeepsWebhooks ==
    ASSUME TypeOK, WebhooksInv, TakeEvent
    PROVE  WebhooksInv'
  <1> DEFINE e == Head(queue)
             indices == Indices(e.kind)
             taken == [event |-> e, waiting |-> indices, running |-> {}]
  <1>1. /\ sent' = sent /\ unvisited' = unvisited /\ posted' = posted
        /\ job = NoJob /\ queue # <<>> /\ queue' = Tail(queue) /\ queue \in Seq(Events)
        /\ job' = IF indices = {} THEN NoJob ELSE taken
    BY DEF TakeEvent, broadcasters, TypeOK
  <1>2. taken.event = e /\ taken.waiting = indices
    OBVIOUS
  <1>3. /\ e \in Events /\ Range(queue) = Range(queue') \cup {e}
        /\ InOrder(queue') /\ \A f \in Range(queue') : f.task = e.task => e.n < f.n
    BY <1>1, TailRange, TailInOrder DEF WebhooksInv, QueueInv
  <1> HIDE DEF e, taken
  <1>4. /\ e # NoEvent /\ NoJob.event = NoEvent /\ NoJob.waiting = {}
        /\ \A f \in Events : f.task \in Tasks /\ f.n \in Nat
        /\ e.task \in Tasks /\ e.n \in Nat /\ e = Event(e.task, e.n)
    BY <1>3, NoEventAssumption, JobTypes, EventFacts
  <1>5. Underway'
    BY <1>1 DEF WebhooksInv, Underway
  <1>6. QueueInv'
    <2>1. e.n <= sent[e.task] /\ \A f \in Range(queue') : f.n <= sent[f.task]
      BY <1>3 DEF WebhooksInv, QueueInv
    <2>2. ASSUME job'.event # NoEvent
          PROVE  /\ job'.event.n <= sent'[job'.event.task]
                 /\ job'.waiting \subseteq Indices(job'.event.kind)
                 /\ \A f \in Range(queue') : f.task = job'.event.task => job'.event.n < f.n
      BY <1>1, <1>2, <1>3, <1>4, <2>1, <2>2
    <2>3. QED
      BY <1>1, <1>3, <2>1, <2>2 DEF QueueInv
  <1>7. ASSUME NEW i \in DOMAIN Webhooks PROVE PostInv(i)'
    <2>1. PostInv(i)
      BY DEF WebhooksInv
    <2>2. Range(posted[i]) \subseteq Events
      BY DEF Range, TypeOK
    <2>3. ASSUME NEW f \in Range(posted[i])
          PROVE  /\ f.kind \in Webhooks[i]
                 /\ f.n <= sent[f.task]
                 /\ f.task = e.task => f.n < e.n
                 /\ \A g \in Range(queue') : f.task = g.task => f.n < g.n
      BY <1>3, <2>1 DEF PostInv
    <2>4. ASSUME NEW f \in Range(posted[i]), job'.event # NoEvent, f.task = job'.event.task
          PROVE  f.n <= job'.event.n /\ f.n < job'.event.n
      <3>1. job'.event = e
        BY <1>1, <1>2, <1>4, <2>4
      <3>2. QED
        BY <1>4, <2>2, <2>3, <2>4, <3>1
    <2>5. ASSUME NEW t \in Tasks, NEW n \in 1..sent[t], Program[t][n] \in Webhooks[i]
          PROVE  \/ Event(t, n) \in Range(queue')
                 \/ ToPost(i, Event(t, n))'
                 \/ Event(t, n) \in Range(posted[i])
      <3>1. ~ToPost(i, Event(t, n))
        BY <1>1, <1>4 DEF ToPost
      <3>2. CASE Event(t, n) # e
        BY <1>3, <2>1, <2>5, <3>1, <3>2 DEF PostInv
      <3>3. CASE Event(t, n) = e
        <4>1. e.kind = Program[t][n]
          BY <3>3 DEF Event
        <4>2. i \in indices
          BY <2>5, <4>1 DEF Indices
        <4>3. job'.event = Event(t, n) /\ i \in job'.waiting
          BY <1>1, <1>2, <3>3, <4>2
        <4>4. QED
          BY <4>3 DEF ToPost
      <3>4. QED
        BY <3>2, <3>3
    <2>6. QED
      BY <1>1, <2>1, <2>3, <2>4, <2>5 DEF PostInv
  <1>8. QED
    BY <1>5, <1>6, <1>7 DEF WebhooksInv

LEMMA StartKeepsWebhooks ==
    ASSUME TypeOK, WebhooksInv, NEW i \in job.waiting, Start(i),
           Cardinality(job.running) < ConcurrencyLimit
    PROVE  WebhooksInv'
  <1>1. /\ sent' = sent /\ unvisited' = unvisited /\ queue' = queue
        /\ job'.event = job.event /\ job'.waiting = job.waiting \ {i}
        /\ posted' = [posted EXCEPT ![i] = Append(@, job.event)]
        /\ posted \in [DOMAIN Webhooks -> Seq(Events)]
    BY DEF Start, broadcasters, TypeOK
  <1>2. /\ job.event \in Events /\ i \in DOMAIN Webhooks /\ job.event # NoEvent
        /\ i \in Indices(job.event.kind) /\ job.event.kind \in Webhooks[i]
    BY StartType, NoEventAssumption DEF WebhooksInv, QueueInv, Indices
  <1>3. Underway' /\ QueueInv'
    BY <1>1 DEF WebhooksInv, Underway, QueueInv
  <1>4. ASSUME NEW j \in DOMAIN Webhooks PROVE PostInv(j)'
    <2>1. PostInv(j)
      BY DEF WebhooksInv
    <2>2. CASE j # i
      <3>1. posted'[j] = posted[j] /\ (j \in job'.waiting <=> j \in job.waiting)
        BY <1>1, <2>2
      <3>2. QED
        BY <1>1, <2>1, <3>1 DEF PostInv, ToPost
    <2>3. CASE j = i
      <3> DEFINE e == job.event
      <3>1. /\ posted[i] \in Seq(Events) /\ posted'[i] = Append(posted[i], e)
            /\ Range(posted'[i]) = Range(posted[i]) \cup {e}
            /\ Range(posted[i]) \subseteq Events
        <4>1. posted[i] \in Seq(Events) /\ posted'[i] = Append(posted[i], e)
          BY <1>1, <1>2
        <4>2. Range(posted[i]) \subseteq Events
          BY <4>1 DEF Range
        <4>3. QED
          BY <1>2, <4>1, <4>2, AppendedRange
      <3>2. \A f \in Events : f.task \in Tasks /\ f.n \in Nat
        BY EventFacts
      <3> HIDE DEF e
      <3>3. \A f \in Range(posted[i]) : f.task = e.task => f.n < e.n
        BY <1>2, <2>1, <2>3 DEF PostInv, e
      <3>4. InOrder(posted'[i])
        BY <1>2, <2>1, <2>3, <3>1, <3>3, AppendedInOrder DEF PostInv, e
      <3>5. /\ e \in Events /\ e.kind \in Webhooks[i] /\ e.n <= sent[e.task]
            /\ \A f \in Range(queue) : e.task = f.task => e.n < f.n
        BY <1>2 DEF WebhooksInv, QueueInv, e
      <3>6. ASSUME NEW f \in Range(posted'[i])
            PROVE  /\ f.kind \in Webhooks[i]
                   /\ f.n <= sent[f.task]
                   /\ \A g \in Range(queue) : f.task = g.task => f.n < g.n
                   /\ f.task = e.task => f.n <= e.n
        <4>1. CASE f \in Range(posted[i])
          BY <2>1, <2>3, <3>1, <3>2, <3>3, <3>5, <4>1 DEF PostInv
        <4>2. CASE f = e
          BY <3>2, <3>5, <4>2
        <4>3. QED
          BY <3>1, <4>1, <4>2
      <3>7. ASSUME NEW t \in Tasks, NEW n \in 1..sent[t], Program[t][n] \in Webhooks[i]
            PROVE  Event(t, n) \in Range(queue) \/ Event(t, n) \in Range(posted'[i])
        BY <2>1, <2>3, <3>1, <3>7 DEF PostInv, ToPost, e
      <3>8. i \notin job'.waiting
        BY <1>1
      <3>9. QED
        BY <1>1, <2>3, <3>4, <3>6, <3>7, <3>8 DEF PostInv, e
    <2>4. QED
      BY <2>2, <2>3
  <1>5. QED
    BY <1>3, <1>4 DEF WebhooksInv

LEMMA FinishKeepsWebhooks ==
    ASSUME TypeOK, WebhooksInv, NEW i \in job.running, FinishRequest(i)
    PROVE  WebhooksInv'
  <1>1. sent' = sent /\ unvisited' = unvisited /\ queue' = queue /\ posted' = posted
    BY DEF FinishRequest, broadcasters
  <1>2. \/ job'.event = job.event /\ job'.waiting = job.waiting
        \/ job'.event = NoEvent /\ job'.waiting = {} /\ job.waiting = {}
    BY JobTypes DEF FinishRequest, TypeOK
  <1>3. Underway'
    BY <1>1 DEF WebhooksInv, Underway
  <1>4. QueueInv'
    BY <1>1, <1>2 DEF WebhooksInv, QueueInv
  <1>5. ASSUME NEW j \in DOMAIN Webhooks PROVE PostInv(j)'
    BY <1>1, <1>2 DEF WebhooksInv, PostInv, ToPost
  <1>6. QED
    BY <1>3, <1>4, <1>5 DEF WebhooksInv

\* The visits and the connections leave the webhooks alone.
LEMMA OthersKeepWebhooks ==
    ASSUME TypeOK, WebhooksInv, UNCHANGED <<sent, webhooks>>,
           \A t \in Tasks : unvisited'[t] \subseteq unvisited[t]
    PROVE  WebhooksInv'
  <1>1. sent' = sent /\ queue' = queue /\ job' = job /\ posted' = posted
    BY DEF webhooks
  <1>2. Underway'
    BY <1>1 DEF WebhooksInv, Underway
  <1>3. QueueInv'
    BY <1>1 DEF WebhooksInv, QueueInv
  <1>4. ASSUME NEW j \in DOMAIN Webhooks PROVE PostInv(j)'
    BY <1>1 DEF WebhooksInv, PostInv, ToPost
  <1>5. QED
    BY <1>2, <1>3, <1>4 DEF WebhooksInv

LEMMA PostsFollow == TypeOK /\ WebhooksInv => PostedInOrder
  <1> SUFFICES ASSUME TypeOK, WebhooksInv, NEW i \in DOMAIN Webhooks
               PROVE  /\ InOrder(posted[i])
                      /\ \A e \in Range(posted[i]) :
                            /\ e.kind \in Webhooks[i]
                            /\ HasAll(posted[i], Webhooks[i], e.task, 1, e.n)
    BY DEF PostedInOrder
  <1>1. PostInv(i)
    BY DEF WebhooksInv
  <1>2. Range(posted[i]) \subseteq Events
    BY DEF Range, TypeOK
  <1>3. ASSUME NEW e \in Range(posted[i]), NEW l \in 1..e.n, Program[e.task][l] \in Webhooks[i]
        PROVE  Event(e.task, l) \in Range(posted[i])
    <2>1. /\ e.task \in Tasks /\ e.n \in Nat /\ l \in 1..Len(Program[e.task])
          /\ e.n <= sent[e.task] /\ sent[e.task] \in Nat
      BY <1>1, <1>2, EventFacts DEF PostInv, TypeOK
    <2>2. /\ Event(e.task, l) \in Events /\ Event(e.task, l).task = e.task
          /\ Event(e.task, l).n = l
      BY <2>1, EventFacts
    <2>3. ~(e.n < l)
      BY <2>1
    <2>4. Event(e.task, l) \notin Range(queue)
      BY <1>1, <2>2, <2>3 DEF PostInv
    <2>5. ~ToPost(i, Event(e.task, l))
      <3>1. SUFFICES ASSUME job.event = Event(e.task, l), i \in job.waiting PROVE FALSE
        BY DEF ToPost
      <3>2. job.event # NoEvent /\ job.event.task = e.task /\ job.event.n = l
        BY <2>2, <3>1, NoEventAssumption
      <3>3. QED
        BY <1>1, <2>3, <3>1, <3>2 DEF PostInv
    <2>6. l \in 1..sent[e.task]
      BY <2>1
    <2>7. QED
      BY <1>1, <1>3, <2>1, <2>4, <2>5, <2>6 DEF PostInv
  <1>4. QED
    BY <1>1, <1>3 DEF PostInv, HasAll

-----------------------------------------------------------------------------
(***************************************************************************)
(* The way of an event to a client.                                        *)
(***************************************************************************)
\* Until a client is gone, its connection is in the map and has both its tasks,
\* whether the client is there or lost: nobody ends them or removes it.
LifeInv(c) ==
    /\ client[c] \in {"open", "lost", "doubted"} => 
          c \in connections /\ writer[c] = "running" /\ reader[c] = "running"
    /\ client[c] = "none" =>
          c \notin connections /\ writer[c] = "none" /\ channel[c] = <<>> /\ received[c] = <<>>
    /\ writer[c] = "none" => client[c] = "none"

\* The events on the way to c and those that are there
Stream(c) == Range(received[c]) \cup Range(channel[c])

\* c has been visited by the l-th broadcast of t.
VisitedBy(c, t, l) == l <= sent[t] /\ (l = sent[t] => c \notin unvisited[t])

\* What c has got precedes what is on the way to it; what was on the way before
\* a broadcast visits it is older; and nothing is missing in between, as long as
\* the client is there, or for ever in what it has got.
StreamInv(c) ==
    /\ InOrder(received[c]) /\ InOrder(channel[c])
    /\ \A e \in Range(received[c]), f \in Range(channel[c]) : e.task = f.task => e.n < f.n
    /\ \A e \in Stream(c) : e.kind \in MaskOf[c] /\ VisitedBy(c, e.task, e.n)
    /\ client[c] = "open" =>
          \A e \in Stream(c) : \A l \in Nat :
             e.n <= l /\ VisitedBy(c, e.task, l) /\ Program[e.task][l] \in MaskOf[c] =>
                Event(e.task, l) \in Stream(c)
    /\ \A e, f \in Range(received[c]) :
          e.task = f.task => HasAll(received[c], MaskOf[c], e.task, e.n, f.n)

ConnectionsInv == \A c \in Connections : LifeInv(c) /\ StreamInv(c)

LEMMA StreamTypes ==
    ASSUME TypeOK, NEW c \in Connections
    PROVE  /\ received[c] \in Seq(Events) /\ channel[c] \in Seq(Events)
           /\ Stream(c) \subseteq Events
           /\ \A e \in Stream(c) : /\ e.task \in Tasks /\ e.n \in Nat /\ sent[e.task] \in Nat
                                   /\ e.n \in 1..Len(Program[e.task])
                                   /\ e = Event(e.task, e.n)
  <1>1. received[c] \in Seq(Events) /\ channel[c] \in Seq(Events)
    BY DEF TypeOK
  <1>2. Stream(c) \subseteq Events
    BY <1>1 DEF Stream, Range
  <1>3. QED
    BY <1>1, <1>2, EventFacts DEF TypeOK

\* A step that keeps what c has got and adds nothing to its channel.
LEMMA StreamStays ==
    ASSUME NEW c \in Connections, StreamInv(c),
           sent' = sent, \A t : c \in unvisited'[t] <=> c \in unvisited[t],
           received'[c] = received[c],
           \/ channel'[c] = channel[c] /\ (client'[c] = "open" => client[c] = "open")
           \/ channel'[c] = <<>> /\ client'[c] # "open"
    PROVE  StreamInv(c)'
  <1>1. \A t, l : VisitedBy(c, t, l)' <=> VisitedBy(c, t, l)
    BY DEF VisitedBy
  <1>2. CASE channel'[c] = channel[c] /\ (client'[c] = "open" => client[c] = "open")
    BY <1>1, <1>2 DEF StreamInv, Stream
  <1>3. CASE channel'[c] = <<>> /\ client'[c] # "open"
    <2>1. Range(channel'[c]) = {} /\ InOrder(channel'[c])
      BY <1>3 DEF Range, InOrder
    <2>2. Stream(c)' \subseteq Stream(c)
      BY <2>1 DEF Stream
    <2>3. QED
      BY <1>1, <1>3, <2>1, <2>2 DEF StreamInv
  <1>4. QED
    BY <1>2, <1>3

LEMMA BroadcastKeepsStream ==
    ASSUME TypeOK, NEW t \in Tasks, Broadcast(t), NEW c \in Connections, StreamInv(c)
    PROVE  StreamInv(c)'
  <1>1. /\ received' = received /\ channel' = channel /\ client' = client
        /\ sent' = [sent EXCEPT ![t] = @ + 1] /\ sent \in [Tasks -> Nat]
        /\ unvisited' = [unvisited EXCEPT ![t] = Connections] /\ unvisited[t] = {}
        /\ unvisited \in [Tasks -> SUBSET Connections]
    BY DEF Broadcast, websocket, TypeOK
  <1>2. \A u \in Tasks, l \in Nat : VisitedBy(c, u, l)' <=> VisitedBy(c, u, l)
    BY <1>1 DEF VisitedBy
  <1>3. Stream(c)' = Stream(c)
    BY <1>1 DEF Stream
  <1>4. \A e \in Stream(c) : e.task \in Tasks /\ e.n \in Nat
    BY StreamTypes
  <1>5. QED
    BY <1>1, <1>2, <1>3, <1>4 DEF StreamInv

LEMMA VisitKeepsStream ==
    ASSUME TypeOK, Underway, NEW t \in Tasks, NEW c \in Connections, Visit(t, c),
           LifeInv(c), StreamInv(c)
    PROVE  StreamInv(c)'
  <1> DEFINE e == Event(t, sent[t])
  <1>1. /\ sent' = sent /\ received' = received /\ client' = client /\ c \in unvisited[t]
        /\ unvisited' = [unvisited EXCEPT ![t] = @ \ {c}]
        /\ unvisited \in [Tasks -> SUBSET Connections]
        /\ sent[t] \in 1..Len(Program[t])
    <2>1. sent[t] \in Nat /\ sent[t] > 0 /\ sent[t] <= Len(Program[t]) /\ Len(Program[t]) \in Nat
      BY EventFacts DEF Underway, TypeOK, Visit, Visited
    <2>2. QED
      BY <2>1 DEF Visit, Visited, TypeOK
  <1>2. /\ e \in Events /\ e.task = t /\ e.n = sent[t] /\ e.kind = Program[t][sent[t]]
    BY <1>1, EventFacts
  <1>3. \A u \in Tasks, l \in Nat :
           VisitedBy(c, u, l)' <=> VisitedBy(c, u, l) \/ (u = t /\ l = sent[t])
    BY <1>1 DEF VisitedBy
  <1>4. \A f \in Stream(c) : f.task \in Tasks /\ f.n \in Nat /\ (f.task = t => f.n < e.n)
    BY <1>1, <1>2, StreamTypes DEF StreamInv, VisitedBy
  <1> HIDE DEF e
  <1>5. ASSUME UNCHANGED channel, client[c] = "open" => e.kind \notin MaskOf[c]
        PROVE  StreamInv(c)'
    <2>1. Stream(c)' = Stream(c)
      BY <1>1, <1>5 DEF Stream
    <2>2. ASSUME client[c] = "open", NEW f \in Stream(c), NEW l \in Nat, f.n <= l,
                 VisitedBy(c, f.task, l)', Program[f.task][l] \in MaskOf[c]
          PROVE  Event(f.task, l) \in Stream(c)
      <3>1. VisitedBy(c, f.task, l)
        BY <1>2, <1>3, <1>4, <1>5, <2>2
      <3>2. QED
        BY <2>2, <3>1 DEF StreamInv
    <2>3. \A f \in Stream(c) : f.kind \in MaskOf[c] /\ VisitedBy(c, f.task, f.n)'
      BY <1>3, <1>4 DEF StreamInv
    <2>4. QED
      BY <1>1, <1>5, <2>1, <2>2, <2>3 DEF StreamInv
  <1>6. ASSUME channel' = [channel EXCEPT ![c] = Append(@, e)], e.kind \in MaskOf[c]
        PROVE  StreamInv(c)'
    <2>1. /\ channel'[c] = Append(channel[c], e)
          /\ Range(channel'[c]) = Range(channel[c]) \cup {e}
      BY <1>2, <1>6, AppendedRange DEF TypeOK
    <2>2. Stream(c)' = Stream(c) \cup {e}
      BY <1>1, <2>1 DEF Stream
    <2>3. InOrder(channel'[c])
      <3>1. \A f \in Range(channel[c]) : f.task = e.task => f.n < e.n
        BY <1>2, <1>4 DEF Stream
      <3>2. QED
        BY <1>2, <2>1, <3>1, StreamTypes, AppendedInOrder DEF StreamInv
    <2>4. \A f \in Range(received[c]), g \in Range(channel'[c]) : f.task = g.task => f.n < g.n
      BY <1>2, <1>4, <2>1 DEF StreamInv, Stream
    <2>5. \A f \in Stream(c)' : f.kind \in MaskOf[c] /\ VisitedBy(c, f.task, f.n)'
      <3>1. \A f \in Stream(c) : f.kind \in MaskOf[c] /\ VisitedBy(c, f.task, f.n)'
        BY <1>3, <1>4 DEF StreamInv
      <3>2. \A f \in {e} : f.kind \in MaskOf[c] /\ VisitedBy(c, f.task, f.n)'
        BY <1>1, <1>2, <1>3, <1>6
      <3>3. QED
        BY <2>2, <3>1, <3>2
    <2>6. ASSUME client[c] = "open", NEW f \in Stream(c)', NEW l \in Nat, f.n <= l,
                 VisitedBy(c, f.task, l)', Program[f.task][l] \in MaskOf[c]
          PROVE  Event(f.task, l) \in Stream(c)'
      <3>1. CASE f.task = t /\ l = sent[t]
        BY <2>2, <3>1 DEF e
      <3>2. CASE f \in Stream(c) /\ ~(f.task = t /\ l = sent[t])
        <4>1. VisitedBy(c, f.task, l)
          BY <1>3, <1>4, <2>6, <3>2
        <4>2. QED
          BY <2>2, <2>6, <3>2, <4>1 DEF StreamInv
      <3>3. CASE f = e
        <4>1. l <= sent[t] /\ sent[t] <= l
          BY <1>1, <1>2, <2>6, <3>3 DEF VisitedBy
        <4>2. l = sent[t] /\ f.task = t
          BY <1>1, <1>2, <3>3, <4>1
        <4>3. QED
          BY <3>1, <4>2
      <3>4. QED
        BY <2>2, <3>1, <3>2, <3>3
    <2>7. QED
      BY <1>1, <2>3, <2>4, <2>5, <2>6 DEF StreamInv
  <1>7. \/ /\ UNCHANGED channel
           /\ client[c] = "open" => e.kind \notin MaskOf[c]
        \/ channel' = [channel EXCEPT ![c] = Append(@, e)] /\ e.kind \in MaskOf[c]
    BY DEF Visit, Wanted, LifeInv, e
  <1>8. QED
    BY <1>5, <1>6, <1>7

LEMMA WriteKeepsStream ==
    ASSUME TypeOK, NEW c \in Connections, WriteMessage(c), LifeInv(c), StreamInv(c)
    PROVE  StreamInv(c)'
  <1> DEFINE h == Head(channel[c])
  <1>1. /\ sent' = sent /\ unvisited' = unvisited
        /\ client'[c] = "open" <=> client[c] = "open"
        /\ channel[c] # <<>> /\ writer[c] = "running"
    BY DEF WriteMessage, Written, broadcasters, TypeOK
  <1>2. /\ received[c] \in Seq(Events) /\ channel[c] \in Seq(Events)
        /\ h \in Events /\ Range(channel[c]) = Range(Tail(channel[c])) \cup {h}
        /\ Tail(channel[c]) \in Seq(Events) /\ InOrder(Tail(channel[c]))
        /\ \A f \in Range(Tail(channel[c])) : f.task = h.task => h.n < f.n
    BY <1>1, StreamTypes, TailRange, TailInOrder DEF StreamInv
  <1>3. \A t, l : VisitedBy(c, t, l)' <=> VisitedBy(c, t, l)
    BY <1>1 DEF VisitedBy
  <1>4. CASE WriterEnds(c) /\ client[c] = "gone" /\ UNCHANGED received
    <2>1. channel'[c] = <<>>
      BY <1>4 DEF WriterEnds, TypeOK
    <2>2. QED
      BY <1>1, <1>4, <2>1, StreamStays
  <1>5. CASE /\ channel'[c] = Tail(channel[c])
             /\ client[c] # "open" /\ received'[c] = received[c]
    <2>1. Stream(c)' \subseteq Stream(c) /\ Range(channel'[c]) \subseteq Range(channel[c])
      BY <1>2, <1>5 DEF Stream
    <2>2. QED
      BY <1>1, <1>2, <1>3, <1>5, <2>1 DEF StreamInv
  <1>6. CASE /\ channel'[c] = Tail(channel[c])
             /\ client[c] = "open" /\ received'[c] = Append(received[c], h)
    <2>1. Range(received'[c]) = Range(received[c]) \cup {h}
      BY <1>2, <1>6, AppendedRange
    <2>2. Stream(c)' = Stream(c)
      BY <1>2, <1>6, <2>1 DEF Stream
    <2>3. \A f \in Range(received[c]) : f.task = h.task => f.n < h.n
      BY <1>2 DEF StreamInv
    <2>4. InOrder(received'[c]) /\ InOrder(channel'[c])
      BY <1>2, <1>6, <2>3, AppendedInOrder DEF StreamInv
    <2>5. \A e \in Range(received'[c]), f \in Range(channel'[c]) : e.task = f.task => e.n < f.n
      BY <1>2, <1>6, <2>1 DEF StreamInv
    <2>6. /\ h \in Stream(c) /\ h.n \in Nat /\ h = Event(h.task, h.n)
          /\ h.kind \in MaskOf[c] /\ VisitedBy(c, h.task, h.n)
          /\ sent[h.task] \in Nat
      <3>1. h \in Stream(c)
        BY <1>2 DEF Stream
      <3>2. QED
        BY <3>1, StreamTypes DEF StreamInv
    <2>7. ASSUME NEW e \in Range(received'[c]), NEW f \in Range(received'[c]), e.task = f.task,
                 NEW l \in e.n..f.n, Program[e.task][l] \in MaskOf[c]
          PROVE  Event(e.task, l) \in Range(received'[c])
      <3>1. e \in Stream(c) /\ f \in Stream(c) /\ e.n \in Nat /\ f.n \in Nat /\ l \in Nat
        <4>1. e \in Stream(c) /\ f \in Stream(c)
          BY <2>1, <2>6 DEF Stream
        <4>2. QED
          BY <4>1, StreamTypes
      <3>2. CASE e \in Range(received[c]) /\ f \in Range(received[c])
        BY <2>1, <2>7, <3>2 DEF StreamInv, HasAll
      <3>3. CASE e = h
        <4>1. ~(f.n < h.n)
          BY <2>7, <3>1, <3>3
        <4>2. f = h
          BY <2>1, <2>3, <2>7, <3>3, <4>1
        <4>3. l = h.n
          BY <2>7, <3>1, <3>3, <4>2
        <4>4. QED
          BY <2>1, <2>6, <3>3, <4>3
      <3>4. CASE f = h /\ e \in Range(received[c])
        <4>1. VisitedBy(c, e.task, l)
          BY <2>6, <2>7, <3>1, <3>4 DEF VisitedBy
        <4>2. Event(e.task, l) \in Stream(c)
          BY <1>6, <2>7, <3>1, <4>1 DEF StreamInv
        <4>3. Event(e.task, l) \notin Range(Tail(channel[c]))
          <5>1. Event(e.task, l).task = h.task /\ Event(e.task, l).n = l
            BY <2>7, <3>4 DEF Event
          <5>2. ~(h.n < l)
            BY <2>7, <3>1, <3>4
          <5>3. QED
            BY <1>2, <5>1, <5>2
        <4>4. QED
          BY <1>2, <2>1, <4>2, <4>3 DEF Stream
      <3>5. QED
        BY <2>1, <3>2, <3>3, <3>4
    <2>8. QED
      BY <1>1, <1>3, <2>2, <2>4, <2>5, <2>7 DEF StreamInv, HasAll
  <1>7. \/ WriterEnds(c) /\ client[c] = "gone" /\ UNCHANGED received
        \/ /\ channel'[c] = Tail(channel[c])
           /\ client[c] # "open" /\ received'[c] = received[c]
        \/ /\ channel'[c] = Tail(channel[c])
           /\ client[c] = "open" /\ received'[c] = Append(received[c], h)
    BY DEF WriteMessage, TypeOK
  <1>8. QED
    BY <1>4, <1>5, <1>6, <1>7

ConnectionStep(c) ==
    \/ Connect(c) \/ Leave(c) \/ Lose(c) \/ GiveUp(c)
    \/ WriteMessage(c) \/ WritePong(c) \/ WriterStops(c)
    \/ ReadPing(c) \/ ReaderStops(c)
    \/ RemoveConnection(c)

\* What one connection does is nothing to the others.
LEMMA OtherConnections ==
    ASSUME TypeOK, NEW d \in Connections, NEW c \in Connections, c # d,
           ConnectionStep(d) \/ \E t \in Tasks : Visit(t, d)
    PROVE  /\ sent' = sent /\ \A t \in Tasks : c \in unvisited'[t] <=> c \in unvisited[t]
           /\ received'[c] = received[c] /\ channel'[c] = channel[c]
           /\ client'[c] = client[c] /\ writer'[c] = writer[c] /\ reader'[c] = reader[c]
           /\ (c \in connections' <=> c \in connections)
  <1>1. CASE Connect(d) \/ Leave(d) \/ Lose(d) \/ GiveUp(d)
    BY <1>1 DEF Connect, Leave, Lose, GiveUp, broadcasters, TypeOK
  <1>2. CASE WriteMessage(d) \/ WritePong(d) \/ WriterStops(d)
    BY <1>2 DEF WriteMessage, WritePong, Written, WriterStops, WriterEnds, broadcasters, TypeOK
  <1>3. CASE ReadPing(d) \/ ReaderStops(d) \/ RemoveConnection(d)
    BY <1>3 DEF ReadPing, ReaderStops, RemoveConnection, broadcasters, TypeOK
  <1>4. CASE \E t \in Tasks : Visit(t, d)
    BY <1>4 DEF Visit, Visited, TypeOK
  <1>5. QED
    BY <1>1, <1>2, <1>3, <1>4 DEF ConnectionStep

LEMMA LifeStep ==
    ASSUME TypeOK, NEW c \in Connections, LifeInv(c),
           ConnectionStep(c) \/ \E t \in Tasks : Visit(t, c)
    PROVE  LifeInv(c)'
  <1>1. CASE Connect(c)
    BY <1>1 DEF Connect, LifeInv, TypeOK
  <1>2. CASE Leave(c) \/ Lose(c) \/ GiveUp(c)
    BY <1>2 DEF Leave, Lose, GiveUp, LifeInv, TypeOK
  <1>3. CASE WriteMessage(c)
    BY <1>3 DEF WriteMessage, Written, WriterEnds, LifeInv, TypeOK
  <1>4. CASE WritePong(c)
    BY <1>4 DEF WritePong, Written, WriterEnds, LifeInv, TypeOK
  <1>5. CASE WriterStops(c)
    BY <1>5 DEF WriterStops, WriterEnds, LifeInv, TypeOK
  <1>6. CASE ReadPing(c) \/ ReaderStops(c)
    BY <1>6 DEF ReadPing, ReaderStops, LifeInv, TypeOK
  <1>7. CASE RemoveConnection(c)
    BY <1>7 DEF RemoveConnection, LifeInv, TypeOK
  <1>8. CASE \E t \in Tasks : Visit(t, c)
    BY <1>8 DEF Visit, Visited, LifeInv, TypeOK
  <1>9. QED
    BY <1>1, <1>2, <1>3, <1>4, <1>5, <1>6, <1>7, <1>8 DEF ConnectionStep

LEMMA ConnectionKeepsStream ==
    ASSUME TypeOK, NEW c \in Connections, ConnectionStep(c), LifeInv(c), StreamInv(c)
    PROVE  StreamInv(c)'
  <1>1. CASE Connect(c)
    <2>1. /\ received'[c] = <<>> /\ channel'[c] = <<>>
      BY <1>1 DEF Connect, LifeInv
    <2>2. Range(received'[c]) = {} /\ Range(channel'[c]) = {}
      BY <2>1 DEF Range
    <2>3. InOrder(received'[c]) /\ InOrder(channel'[c])
      BY <2>1 DEF InOrder
    <2>4. QED
      BY <2>2, <2>3 DEF StreamInv, Stream
  <1>2. CASE WriteMessage(c)
    BY <1>2, WriteKeepsStream
  <1>3. CASE WritePong(c) \/ WriterStops(c)
    <2>1. /\ sent' = sent /\ unvisited' = unvisited /\ received' = received
          /\ client'[c] = "open" <=> client[c] = "open"
      BY <1>3 DEF WritePong, Written, WriterStops, broadcasters, TypeOK
    <2>2. channel' = channel \/ (channel'[c] = <<>> /\ client[c] # "open")
      BY <1>3 DEF WritePong, WriterStops, WriterEnds, LifeInv, TypeOK
    <2>3. QED
      BY <2>1, <2>2, StreamStays
  <1>4. CASE \/ Leave(c) \/ Lose(c) \/ GiveUp(c)
             \/ ReadPing(c) \/ ReaderStops(c) \/ RemoveConnection(c)
    <2>1. /\ sent' = sent /\ unvisited' = unvisited /\ received' = received
          /\ channel' = channel /\ (client'[c] = "open" => client[c] = "open")
      BY <1>4 DEF Leave, Lose, GiveUp, ReadPing, ReaderStops, RemoveConnection, broadcasters,
                  TypeOK
    <2>2. QED
      BY <2>1, StreamStays
  <1>5. QED
    BY <1>1, <1>2, <1>3, <1>4 DEF ConnectionStep

-----------------------------------------------------------------------------
(***************************************************************************)
(* The theorems.                                                           *)
(***************************************************************************)
FanoutInv == TypeOK /\ WebhooksInv /\ ConnectionsInv

LEMMA FanoutInit == Init => FanoutInv
  <1> SUFFICES ASSUME Init PROVE FanoutInv
    OBVIOUS
  <1>1. Range(<<>>) = {} /\ InOrder(<<>>)
    BY DEF Range, InOrder
  <1>2. WebhooksInv
    <2>1. Underway
      BY DEF Init, Underway
    <2>2. QueueInv
      BY <1>1, JobTypes DEF Init, QueueInv
    <2>3. ASSUME NEW i \in DOMAIN Webhooks PROVE PostInv(i)
      <3>1. posted[i] = <<>> /\ queue = <<>> /\ \A t \in Tasks : sent[t] = 0
        BY DEF Init
      <3>2. QED
        BY <1>1, <3>1 DEF PostInv
    <2>4. QED
      BY <2>1, <2>2, <2>3 DEF WebhooksInv
  <1>3. ASSUME NEW c \in Connections PROVE LifeInv(c) /\ StreamInv(c)
    <2>1. /\ received[c] = <<>> /\ channel[c] = <<>> /\ client[c] = "none"
          /\ writer[c] = "none" /\ connections = {}
      BY DEF Init
    <2>2. LifeInv(c)
      BY <2>1 DEF LifeInv
    <2>3. StreamInv(c)
      BY <1>1, <2>1 DEF StreamInv, Stream
    <2>4. QED
      BY <2>2, <2>3
  <1>4. QED
    BY <1>2, <1>3, TypeInit DEF FanoutInv, ConnectionsInv

LEMMA ConnectionKeepsFanout ==
    ASSUME FanoutInv, NEW d \in Connections, ConnectionStep(d)
    PROVE  FanoutInv'
  <1>1. TypeOK'
    BY ConnectionType DEF FanoutInv, ConnectionStep
  <1>2. UNCHANGED <<sent, unvisited, webhooks>>
    BY DEF ConnectionStep, Connect, Leave, Lose, GiveUp, WriteMessage, WritePong, WriterStops, ReadPing,
           ReaderStops, RemoveConnection, broadcasters
  <1>3. WebhooksInv'
    BY <1>2, OthersKeepWebhooks DEF FanoutInv
  <1>4. ASSUME NEW c \in Connections PROVE LifeInv(c)' /\ StreamInv(c)'
    <2>1. LifeInv(c) /\ StreamInv(c) /\ TypeOK
      BY DEF FanoutInv, ConnectionsInv
    <2>2. CASE c = d
      BY <2>1, <2>2, LifeStep, ConnectionKeepsStream
    <2>3. CASE c # d
      <3>1. LifeInv(c)'
        BY <2>1, <2>3, OtherConnections DEF LifeInv
      <3>2. StreamInv(c)'
        BY <1>2, <2>1, <2>3, OtherConnections, StreamStays
      <3>3. QED
        BY <3>1, <3>2
    <2>4. QED
      BY <2>2, <2>3
  <1>5. QED
    BY <1>1, <1>3, <1>4 DEF FanoutInv, ConnectionsInv

LEMMA VisitKeepsFanout ==
    ASSUME FanoutInv, NEW t \in Tasks, NEW d \in Connections, Visit(t, d)
    PROVE  FanoutInv'
  <1>1. /\ TypeOK /\ Underway
        /\ sent' = sent /\ UNCHANGED webhooks
        /\ unvisited' = [unvisited EXCEPT ![t] = @ \ {d}] /\ d \in unvisited[t]
        /\ unvisited \in [Tasks -> SUBSET Connections]
    BY DEF FanoutInv, WebhooksInv, TypeOK, Visit, Visited
  <1>2. sent[t] \in 1..Len(Program[t])
    <2>1. sent[t] \in Nat /\ sent[t] <= Len(Program[t]) /\ Len(Program[t]) \in Nat
      BY <1>1, EventFacts DEF TypeOK
    <2>2. sent[t] > 0
      BY <1>1 DEF Underway
    <2>3. QED
      BY <2>1, <2>2
  <1>3. TypeOK'
    BY <1>1, <1>2, EventFacts, VisitType
  <1>4. \A u \in Tasks : unvisited'[u] \subseteq unvisited[u]
    BY <1>1
  <1>5. WebhooksInv'
    BY <1>1, <1>4, OthersKeepWebhooks DEF FanoutInv
  <1>6. ASSUME NEW c \in Connections PROVE LifeInv(c)' /\ StreamInv(c)'
    <2>1. LifeInv(c) /\ StreamInv(c)
      BY DEF FanoutInv, ConnectionsInv
    <2>2. CASE c = d
      BY <1>1, <2>1, <2>2, LifeStep, VisitKeepsStream
    <2>3. CASE c # d
      <3>1. LifeInv(c)'
        BY <1>1, <2>1, <2>3, OtherConnections DEF LifeInv
      <3>2. \A u : c \in unvisited'[u] <=> c \in unvisited[u]
        BY <1>1, <2>3
      <3>3. StreamInv(c)'
        BY <1>1, <2>1, <2>3, <3>2, OtherConnections, StreamStays
      <3>4. QED
        BY <3>1, <3>3
    <2>4. QED
      BY <2>2, <2>3
  <1>7. QED
    BY <1>3, <1>5, <1>6 DEF FanoutInv, ConnectionsInv

LEMMA FanoutStep == FanoutInv /\ [Next]_vars => FanoutInv'
  <1> SUFFICES ASSUME FanoutInv, [Next]_vars PROVE FanoutInv'
    OBVIOUS
  <1>1. TypeOK /\ WebhooksInv /\ \A c \in Connections : LifeInv(c) /\ StreamInv(c)
    BY DEF FanoutInv, ConnectionsInv
  <1>2. ASSUME UNCHANGED <<unvisited, websocket, sent>>
        PROVE  \A c \in Connections : LifeInv(c)' /\ StreamInv(c)'
    BY <1>1, <1>2, StreamStays DEF LifeInv, websocket
  <1>3. ASSUME NEW t \in Tasks, Broadcast(t) PROVE FanoutInv'
    <2>1. TypeOK' /\ WebhooksInv'
      BY <1>1, <1>3, BroadcastType, BroadcastKeepsWebhooks
    <2>2. ASSUME NEW c \in Connections PROVE LifeInv(c)' /\ StreamInv(c)'
      <3>1. StreamInv(c)'
        BY <1>1, <1>3, BroadcastKeepsStream
      <3>2. LifeInv(c)'
        BY <1>1, <1>3 DEF Broadcast, websocket, LifeInv
      <3>3. QED
        BY <3>1, <3>2
    <2>3. QED
      BY <2>1, <2>2 DEF FanoutInv, ConnectionsInv
  <1>4. ASSUME NEW t \in Tasks, NEW c \in Connections, Visit(t, c) PROVE FanoutInv'
    BY <1>4, VisitKeepsFanout
  <1>5. CASE WebhookWorker
    <2>1. UNCHANGED <<unvisited, websocket, sent>>
      BY <1>5 DEF WebhookWorker, TakeEvent, StartRequest, Start, FinishRequest, broadcasters
    <2>2. CASE TakeEvent
      BY <1>1, <1>2, <2>1, <2>2, TakeEventType, TakeEventKeepsWebhooks
         DEF FanoutInv, ConnectionsInv
    <2>3. CASE StartRequest
      <3>1. PICK i \in job.waiting : Start(i) /\ Cardinality(job.running) < ConcurrencyLimit
        BY <2>3 DEF StartRequest
      <3>2. QED
        BY <1>1, <1>2, <2>1, <3>1, StartType, StartKeepsWebhooks DEF FanoutInv, ConnectionsInv
    <2>4. CASE \E i \in job.running : FinishRequest(i)
      BY <1>1, <1>2, <2>1, <2>4, FinishType, FinishKeepsWebhooks DEF FanoutInv, ConnectionsInv
    <2>5. QED
      BY <1>5, <2>2, <2>3, <2>4, SMTT(30) DEF WebhookWorker
  <1>6. ASSUME NEW c \in Connections, ConnectionStep(c) PROVE FanoutInv'
    BY <1>6, ConnectionKeepsFanout
  <1>7. CASE UNCHANGED vars
    <2>1. UNCHANGED <<unvisited, websocket, sent, webhooks>>
      BY <1>7 DEF vars, broadcasters
    <2>2. WebhooksInv'
      BY <1>1, <2>1, OthersKeepWebhooks
    <2>3. TypeOK'
      BY <1>1, <2>1 DEF TypeOK, webhooks, websocket
    <2>4. QED
      BY <1>2, <2>1, <2>2, <2>3 DEF FanoutInv, ConnectionsInv
  <1>8. QED
    BY <1>3, <1>4, <1>5, <1>6, <1>7 DEF Next, ConnectionStep

LEMMA FanoutInvariant == Spec => []FanoutInv
  BY FanoutInit, FanoutStep, PTL DEF Spec

\* Every variable keeps its type, and never more requests run than the limit.
THEOREM FanoutTypeCorrect == Spec => []TypeOK
  <1>1. FanoutInv => TypeOK
    BY DEF FanoutInv
  <1>2. QED
    BY <1>1, FanoutInvariant, PTL

\* Each webhook is sent the events it is configured for, once, in the order of
\* their broadcasts and with none left out, whatever requests fail.
THEOREM PostsInOrder == Spec => []PostedInOrder
  <1>1. FanoutInv => PostedInOrder
    BY PostsFollow DEF FanoutInv
  <1>2. QED
    BY <1>1, FanoutInvariant, PTL

\* A client gets the events it asked for in the order of their broadcasts, none
\* twice and none left out between two it has got.
THEOREM ClientsReceiveInOrder == Spec => []ReceivedInOrder
  <1>1. FanoutInv => ReceivedInOrder
    <2> SUFFICES ASSUME FanoutInv, NEW c \in Connections
                 PROVE  /\ InOrder(received[c])
                        /\ \A e \in Range(received[c]) : e.kind \in MaskOf[c]
                        /\ \A e, f \in Range(received[c]) : e.task = f.task =>
                              HasAll(received[c], MaskOf[c], e.task, e.n, f.n)
      BY DEF ReceivedInOrder
    <2>1. StreamInv(c)
      BY DEF FanoutInv, ConnectionsInv
    <2>2. QED
      BY <2>1 DEF StreamInv, Stream
  <1>2. QED
    BY <1>1, FanoutInvariant, PTL

\* No broadcast and no handler removes a connection whose two tasks run.
THEOREM RemovesOnlyWhatIsOver == Spec => RemovedOnlyWhenOver
  <1>1. ASSUME FanoutInv, [Next]_vars, NEW c \in connections \ connections'
        PROVE  writer[c] = "ended" \/ reader[c] = "ended"
    <2>1. c \in Connections /\ writer[c] \in TaskStates /\ LifeInv(c)
      BY <1>1 DEF FanoutInv, ConnectionsInv, TypeOK
    <2>2. writer[c] # "none"
      BY <1>1, <2>1, SMTT(30) DEF LifeInv
    <2>3. \/ \E d \in Connections : RemoveConnection(d)
          \/ \E t \in Tasks, d \in Connections : Visit(t, d)
      BY <1>1 DEF Next, vars, websocket, Broadcast, WebhookWorker, TakeEvent, StartRequest, Start,
                  FinishRequest, Connect, Leave, Lose, GiveUp, WriteMessage, WritePong, WriterStops, ReadPing,
                  ReaderStops
    <2>4. CASE \E d \in Connections : RemoveConnection(d)
      BY <1>1, <2>4 DEF RemoveConnection
    <2>5. CASE \E t \in Tasks, d \in Connections : Visit(t, d)
      <3>1. writer[c] # "running"
        BY <1>1, <2>5 DEF Visit
      <3>2. QED
        BY <2>1, <2>2, <3>1 DEF TaskStates
    <2>6. QED
      BY <2>3, <2>4, <2>5
  <1>2. FanoutInv /\ [Next]_vars =>
            [\A c \in connections \ connections' :
                writer[c] = "ended" \/ reader[c] = "ended"]_vars
    BY <1>1
  <1>3. QED
    BY <1>2, FanoutInvariant, PTL DEF Spec, RemovedOnlyWhenOver

\* Until TCP reports its end, a connection is in the map and both its tasks run:
\* no step of the server ends them, not even for a client that is lost
\* (websocket.rs:109 waits for the next message without a time limit).
THEOREM StaysConnected ==
    Spec => [](\A c \in Connections : client[c] \in {"open", "lost", "doubted"} =>
                  c \in connections /\ writer[c] = "running" /\ reader[c] = "running")
  <1>1. FanoutInv => \A c \in Connections : client[c] \in {"open", "lost", "doubted"} =>
                        c \in connections /\ writer[c] = "running" /\ reader[c] = "running"
    BY DEF FanoutInv, ConnectionsInv, LifeInv
  <1>2. QED
    BY <1>1, FanoutInvariant, PTL
=============================================================================
