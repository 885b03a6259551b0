--------------------------- MODULE SessionsProofs ---------------------------
(***************************************************************************)
(* Theorems about Sessions, for any number of slots, clients, ports and    *)
(* events.                                                                 *)
(***************************************************************************)
EXTENDS Sessions, SequenceTheorems, FiniteSetTheorems, WellFoundedInduction, TLAPS

\* The assumption on the constants, one at a time.
LEMMA Bounds == MaxQueueLen \in Nat \ {0} /\ MaxEvents \in Nat /\ TaskQueueSize \in Nat \ {0}
<1>1. MaxQueueLen \in Nat \ {0}
  BY SessionsAssumption DEF SessionsAssumption
<1>2. MaxEvents \in Nat
  BY SessionsAssumption DEF SessionsAssumption
<1>3. TaskQueueSize \in Nat \ {0}
  BY TaskQueueSizeAssumption DEF TaskQueueSizeAssumption
<1>4. QED
  BY <1>1, <1>2, <1>3

\* The empty queue is one.
LEMMA EmptyQueue == <<>> \in Seq(Event) /\ Len(<<>>) = 0
  BY EmptySeq

(***************************************************************************)
(* What the operators on queues return.                                    *)
(***************************************************************************)
\* Removing an element keeps the type and shortens the sequence by one.
LEMMA RemoveAtProperties ==
    ASSUME NEW S, NEW q \in Seq(S), NEW i \in 1..Len(q)
    PROVE  RemoveAt(q, i) \in Seq(S) /\ Len(RemoveAt(q, i)) = Len(q) - 1
<1> DEFINE a == SubSeq(q, 1, i - 1)
           b == SubSeq(q, i + 1, Len(q))
<1>0. Len(q) \in Nat
  BY LenProperties
<1>1. a \in Seq(S) /\ Len(a) = i - 1
  BY <1>0, SubSeqProperties, ElementOfSeq
<1>2. b \in Seq(S) /\ Len(b) = Len(q) - i
  BY <1>0, SubSeqProperties, ElementOfSeq
<1>3. RemoveAt(q, i) = a \o b
  BY DEF RemoveAt
<1> HIDE DEF a, b
<1>4. a \o b \in Seq(S) /\ Len(a \o b) = Len(a) + Len(b)
  BY <1>1, <1>2, ConcatProperties
<1>5. QED
  BY <1>0, <1>1, <1>2, <1>3, <1>4

\* session_push() keeps a queue within SESSION_MAX_QUEUE_LEN.
LEMMA PushKeepsBound ==
    ASSUME NEW q \in Seq(Event), Len(q) <= MaxQueueLen, NEW e \in Event
    PROVE  session_push(q, e) \in Seq(Event) /\ Len(session_push(q, e)) <= MaxQueueLen
<1> DEFINE similar == {i \in 1..Len(q) : Similar(q[i], e)}
           w == WithoutSimilar(q, e)
           r == MakeRoom(w)
<1>0. MaxQueueLen \in Nat \ {0} /\ Len(q) \in Nat
  BY SessionsAssumption, LenProperties DEF SessionsAssumption
<1>1. w \in Seq(Event) /\ Len(w) \in Nat /\ Len(w) <= MaxQueueLen
  <2>1. CASE similar = {}
    BY <1>0, <2>1 DEF WithoutSimilar
  <2>2. CASE similar # {}
    <3> DEFINE k == CHOOSE i \in similar : TRUE
    <3>1. k \in 1..Len(q)
      BY <2>2
    <3>2. w = RemoveAt(q, k)
      BY <2>2 DEF WithoutSimilar
    <3> HIDE DEF w, k
    <3>3. w \in Seq(Event) /\ Len(w) = Len(q) - 1
      BY <3>1, <3>2, RemoveAtProperties
    <3>4. QED
      BY <1>0, <3>1, <3>3
  <2>3. QED
    BY <2>1, <2>2
<1>2. r \in Seq(Event) /\ Len(r) \in Nat /\ Len(r) < MaxQueueLen
  <2> HIDE DEF w
  <2>1. CASE Len(w) >= MaxQueueLen
    <3> DEFINE f == SubSeq(w, 1, Len(w) - 1)
    <3>1. f \in Seq(Event) /\ Len(f) = Len(w) - 1
      <4> DEFINE n == Len(w) - 1
      <4>1. n \in Nat
        BY <1>0, <1>1, <2>1
      <4>2. \A i \in 1..n : w[i] \in Event
        BY <1>1, ElementOfSeq
      <4> HIDE DEF n
      <4>3. SubSeq(w, 1, n) \in Seq(Event) /\ Len(SubSeq(w, 1, n)) = n
        BY <4>1, <4>2, SubSeqProperties
      <4>4. QED
        BY <4>3 DEF n
    <3>2. r = f
      BY <2>1 DEF MakeRoom, Front
    <3> HIDE DEF f, r
    <3>3. QED
      BY <1>0, <1>1, <2>1, <3>1, <3>2
  <2>2. CASE ~(Len(w) >= MaxQueueLen)
    <3>1. r = w
      BY <2>2 DEF MakeRoom
    <3> HIDE DEF r
    <3>2. QED
      BY <1>0, <1>1, <2>2, <3>1
  <2>3. QED
    BY <2>1, <2>2
<1> HIDE DEF w, r
<1>3. <<e>> \o r \in Seq(Event) /\ Len(<<e>> \o r) = 1 + Len(r)
  BY <1>2, ConcatProperties
<1>4. session_push(q, e) = <<e>> \o r
  BY DEF session_push, Cons, w, r
<1>5. QED
  BY <1>0, <1>2, <1>3, <1>4

\* The slots listed in order are a sequence of slots.
LEMMA InOrderType ==
    ASSUME NEW S \in SUBSET Slots, NEW woken \in InOrder(S)
    PROVE  woken \in Seq(Slots)
<1>1. SessionCount \in Nat
  BY SessionsAssumption DEF SessionsAssumption
<1>2. IsFiniteSet(Slots)
  BY <1>1, FS_Interval DEF Slots
<1>3. IsFiniteSet(S)
  BY <1>2, FS_Subset
<1>4. Cardinality(S) \in Nat
  BY <1>3, FS_CardinalityType
<1>5. woken \in [1..Cardinality(S) -> Slots]
  BY DEF InOrder
<1>6. QED
  BY <1>4, <1>5

\* Posting tasks keeps the task queue within TASK_QUEUE_SIZE.
LEMMA ScheduleKeepsBound ==
    ASSUME NEW q \in Seq(Slots), NEW new \in Seq(Slots)
    PROVE  /\ system_task_schedule(q, new) \in Seq(Slots)
           /\ Len(system_task_schedule(q, new)) <= TaskQueueSize
<1> DEFINE all == q \o new
           n   == IF Len(all) <= TaskQueueSize THEN Len(all) ELSE TaskQueueSize
<1>1. all \in Seq(Slots) /\ Len(all) \in Nat
  BY ConcatProperties, LenProperties
<1>2. n \in Nat /\ n <= Len(all) /\ n <= TaskQueueSize
  BY <1>1, TaskQueueSizeAssumption DEF TaskQueueSizeAssumption
<1>3. SubSeq(all, 1, n) \in Seq(Slots) /\ Len(SubSeq(all, 1, n)) = n
  <2>1. \A i \in 1..n : all[i] \in Slots
    BY <1>1, <1>2, ElementOfSeq
  <2>2. QED
    BY <1>2, <2>1, SubSeqProperties
<1>4. QED
  BY <1>2, <1>3 DEF system_task_schedule

\* A response lists events of the queue.
LEMMA RenderedType ==
    ASSUME NEW q \in Seq(Event)
    PROVE  Rendered(q) \in Seq(Event)
<1>1. Omitted \in Event
  BY DEF Omitted, Event, PortEventTypes
<1>2. Len(q) \in Nat
  BY LenProperties
<1>3. \A i \in 1..Len(q) : q[Len(q) - i + 1] \in Event
  <2> TAKE i \in 1..Len(q)
  <2>1. Len(q) - i + 1 \in 1..Len(q)
    BY <1>2
  <2>2. QED
    BY <2>1, ElementOfSeq
<1>4. Rendered(q) \in [1..Len(q) -> Event]
  BY <1>1, <1>3 DEF Rendered
<1>5. QED
  BY <1>2, <1>4

-----------------------------------------------------------------------------
(***************************************************************************)
(* Slots found by searching.                                               *)
(***************************************************************************)
\* A set of numbers that is not empty has a least element.
LEMMA LeastElement ==
    ASSUME NEW T \in SUBSET Nat, T # {}
    PROVE  \E m \in T : \A n \in T : m <= n
<1>1. PICK m \in T : \A n \in T : ~(<<n, m>> \in OpToRel(<, Nat))
  BY NatLessThanWellFounded, WFMin
<1>2. \A n \in T : ~(n < m)
  BY <1>1 DEF OpToRel
<1>3. QED
  BY <1>2

\* The slots are numbered from 0.
LEMMA SlotsAreNumbers == Slots \in SUBSET Nat /\ 0 \in Slots
<1>1. SessionCount \in Nat \ {0}
  BY SessionsAssumption DEF SessionsAssumption
<1>2. QED
  BY <1>1 DEF Slots

\* session_create() takes a slot of the array; when it is not a free one,
\* none is free.
LEMMA FreeSlotProperties ==
    FreeSlot \in Slots /\ (FreeSlots # {} => FreeSlot \in FreeSlots)
<1>1. Slots \in SUBSET Nat /\ 0 \in Slots
  BY SlotsAreNumbers
<1>2. FreeSlots \in SUBSET Slots
  BY DEF FreeSlots
<1>3. CASE FreeSlots = {}
  BY <1>1, <1>3 DEF FreeSlot
<1>4. CASE FreeSlots # {}
  <2>0. FreeSlots \in SUBSET Nat
    BY <1>1, <1>2
  <2>1. \E s \in FreeSlots : \A t \in FreeSlots : s <= t
    BY <1>4, <2>0, LeastElement
  <2>2. FreeSlot \in FreeSlots
    BY <1>4, <2>1 DEF FreeSlot
  <2>3. QED
    BY <1>2, <2>2
<1>5. QED
  BY <1>3, <1>4

\* session_find_by_id() returns a slot that has the id, when there is one.
LEMMA FindByIdProperties ==
    ASSUME NEW id, \E s \in Slots : sessions[s].id = id
    PROVE  FindById(id) \in Slots /\ sessions[FindById(id)].id = id
<1> DEFINE T == {s \in Slots : sessions[s].id = id}
<1>1. T \in SUBSET Nat /\ T # {} /\ Slots \in SUBSET Nat
  BY SlotsAreNumbers
<1>2. PICK m \in T : \A n \in T : m <= n
  BY <1>1, LeastElement
<1>3. m \in Slots /\ sessions[m].id = id /\ \A t \in Slots : t < m => sessions[t].id # id
  BY <1>1, <1>2
<1> DEFINE P(s) == sessions[s].id = id /\ \A t \in Slots : t < s => sessions[t].id # id
<1>4. P(CHOOSE s \in Slots : P(s)) /\ (CHOOSE s \in Slots : P(s)) \in Slots
  <2>1. \E s \in Slots : P(s)
    BY <1>3
  <2> HIDE DEF P
  <2>2. QED
    BY <2>1
<1>5. FindById(id) = CHOOSE s \in Slots : P(s)
  BY DEF FindById
<1>6. QED
  BY <1>4, <1>5

-----------------------------------------------------------------------------
(***************************************************************************)
(* Responses.                                                              *)
(***************************************************************************)
\* A connection put together by Conn is one.
LEMMA ConnType ==
    ASSUME NEW state \in {"closed", "refused", "open", "listening", "answered"}, NEW reply \in Seq(Event)
    PROVE  Conn(state, reply) \in ConnState
BY DEF Conn, ConnState

\* Answering a connection keeps the type of them all.
LEMMA RespondType ==
    ASSUME NEW cs \in [Conns -> ConnState], NEW c, NEW reply \in Seq(Event)
    PROVE  Respond(cs, c, reply) \in [Conns -> ConnState]
BY ConnType DEF Respond

\* A session that has been answered is a session, with a queue within the
\* limit.
LEMMA SessionRespondedType ==
    ASSUME NEW session \in Session, Len(session.queue) <= MaxQueueLen
    PROVE  SessionResponded(session) \in Session /\ Len(SessionResponded(session).queue) <= MaxQueueLen
<1>1. CASE session.conn = NoConn
  BY <1>1 DEF SessionResponded
<1>2. CASE session.conn # NoConn
  <2> DEFINE r == [session EXCEPT !.queue = <<>>, !.conn = NoConn]
  <2>1. r \in Session /\ r.queue = <<>>
    BY EmptyQueue DEF Session
  <2>2. SessionResponded(session) = r
    BY <1>2 DEF SessionResponded
  <2> HIDE DEF r
  <2>3. QED
    BY <2>1, <2>2, EmptyQueue, Bounds
<1>3. QED
  BY <1>1, <1>2

\* session_respond() keeps the type of the connections.
LEMMA ConnsRespondedType ==
    ASSUME NEW cs \in [Conns -> ConnState], NEW session \in Session
    PROVE  ConnsResponded(cs, session) \in [Conns -> ConnState]
BY RespondType, RenderedType DEF ConnsResponded, Session

-----------------------------------------------------------------------------
(***************************************************************************)
(* Type correctness.                                                       *)
(***************************************************************************)
\* A slot that is not in use is a session with an empty queue.
LEMMA UnusedType == Unused \in Session /\ Len(Unused.queue) <= MaxQueueLen
<1>1. QED
  BY Bounds, EmptyQueue DEF Unused, Session

\* The initial state is well typed.
LEMMA InitTypeOK == Init => TypeOK
<1> SUFFICES ASSUME Init PROVE TypeOK
  OBVIOUS
<1>1. sessions \in [Slots -> Session]
  BY UnusedType DEF Init
<1>2. conns \in [Conns -> ConnState]
  BY EmptyQueue, ConnType DEF Init
<1>3. tasks \in Seq(Slots) /\ Len(tasks) <= TaskQueueSize
  BY TaskQueueSizeAssumption DEF Init, TaskQueueSizeAssumption
<1>4. \A s \in Slots : Len(sessions[s].queue) <= MaxQueueLen
  BY UnusedType DEF Init
<1>5. eventCount \in 0..MaxEvents
  BY Bounds DEF Init
<1>6. QED
  BY <1>1, <1>2, <1>3, <1>4, <1>5 DEF Init, TypeOK, QueuesBounded

\* event_push(), whatever the event, keeps the types and the bounds.
LEMMA EventPushTypeOK ==
    ASSUME TypeOK, NEW type \in PortEventTypes \cup DeviceEventTypes, NEW port \in PortIds \cup {NoPort},
           event_push(type, port)
    PROVE  /\ sessions' \in [Slots -> Session]
           /\ \A s \in Slots : Len(sessions'[s].queue) <= MaxQueueLen
           /\ tasks' \in Seq(Slots) /\ Len(tasks') <= TaskQueueSize
           /\ eventCount' \in 0..MaxEvents
<1>1. CASE ota_busy \/ provisioning
  BY <1>1 DEF event_push, TypeOK, QueuesBounded
<1>2. CASE ~(ota_busy \/ provisioning)
  <2> DEFINE event == [seq |-> eventCount + 1, type |-> type, port |-> port]
             woken == {s \in Addressees(type) : sessions[s].conn # NoConn}
  <2>1. eventCount \in Nat /\ eventCount < MaxEvents /\ MaxEvents \in Nat /\ eventCount' = eventCount + 1
    BY <1>2, Bounds DEF event_push, TypeOK
  <2>2. event \in Event
    BY <2>1 DEF Event
  <2>3. sessions' = [s \in Slots |-> IF s \in Addressees(type)
                                     THEN [sessions[s] EXCEPT !.queue = session_push(@, event)]
                                     ELSE sessions[s]]
    BY <1>2 DEF event_push
  <2>4. \A s \in Slots : sessions'[s] \in Session /\ Len(sessions'[s].queue) <= MaxQueueLen
    <3> HIDE DEF event
    <3> TAKE s \in Slots
    <3>1. sessions[s] \in Session /\ sessions[s].queue \in Seq(Event) /\ Len(sessions[s].queue) <= MaxQueueLen
      BY DEF TypeOK, QueuesBounded, Session
    <3> DEFINE q == session_push(sessions[s].queue, event)
    <3>2. q \in Seq(Event) /\ Len(q) <= MaxQueueLen
      BY <2>2, <3>1, PushKeepsBound
    <3> HIDE DEF q
    <3>3. [sessions[s] EXCEPT !.queue = q] \in Session /\ [sessions[s] EXCEPT !.queue = q].queue = q
      BY <3>1, <3>2 DEF Session
    <3>4. QED
      BY <2>3, <3>1, <3>2, <3>3 DEF q
  <2>5. sessions' \in [Slots -> Session]
    BY <2>3, <2>4
  <2>6. woken \in SUBSET Slots
    BY DEF Addressees
  <2>7. PICK w \in InOrder(woken) : tasks' = system_task_schedule(tasks, w)
    BY <1>2 DEF event_push
  <2>8. w \in Seq(Slots)
    BY <2>6, InOrderType
  <2>9. tasks' \in Seq(Slots) /\ Len(tasks') <= TaskQueueSize
    BY <2>7, <2>8, ScheduleKeepsBound DEF TypeOK
  <2>10. eventCount' \in 0..MaxEvents
    BY <2>1
  <2>11. QED
    BY <2>4, <2>5, <2>9, <2>10
<1>3. QED
  BY <1>1, <1>2

\* Every step keeps the types and the bounds of the queues.
LEMMA NextTypeOK == TypeOK /\ [Next]_vars => TypeOK'
<1> SUFFICES ASSUME TypeOK, [Next]_vars PROVE TypeOK'
  OBVIOUS
<1> USE DEF QueuesBounded
<1>q. <<>> \in Seq(Event) /\ Len(<<>>) = 0 /\ MaxQueueLen \in Nat
  BY EmptyQueue, Bounds
<1>s. \A s \in Slots : sessions[s] \in Session /\ Len(sessions[s].queue) <= MaxQueueLen
  BY DEF TypeOK
<1>1. ASSUME NEW c \in Conns, OnTcpConn(c) PROVE TypeOK'
  BY <1>1, <1>q, ConnType DEF OnTcpConn, TypeOK
<1>2. ASSUME NEW c \in Conns, OnTcpDisc(c) PROVE TypeOK'
  <2>1. conns' \in [Conns -> ConnState]
    BY <1>2, <1>q, ConnType DEF OnTcpDisc, TypeOK
  <2>2. \A s \in Slots : sessions'[s] = sessions[s] \/ sessions'[s] = [sessions[s] EXCEPT !.conn = NoConn, !.timer = TRUE]
    BY <1>2 DEF OnTcpDisc
  <2>3. \A s \in Slots : sessions'[s] \in Session /\ Len(sessions'[s].queue) <= MaxQueueLen
    BY <1>s, <2>2 DEF Session
  <2>4. sessions' \in [Slots -> Session]
    BY <1>2, <2>3 DEF OnTcpDisc
  <2>5. QED
    BY <1>2, <2>1, <2>3, <2>4 DEF OnTcpDisc, TypeOK
<1>3. ASSUME NEW c \in Conns, OnOtherRequest(c) PROVE TypeOK'
  BY <1>3, <1>q, RespondType DEF OnOtherRequest, TypeOK
<1>4. ASSUME NEW c \in Conns, OnTrailingByte(c) PROVE TypeOK'
  BY <1>4, <1>q, RespondType DEF OnTrailingByte, TypeOK
<1>5. ASSUME NEW c \in Conns, OnListenRequest(c) PROVE TypeOK'
  <2>1. PICK id \in SessionIds, access_level \in {VIEWONLY, ADMIN} :
            ListenNewSession(c, id, access_level) \/ ListenAgain(c, id, access_level)
    BY <1>5 DEF OnListenRequest
  <2>2. UNCHANGED <<tasks, ports, eventCount, ota_busy, provisioning, stopped>>
    BY <1>5 DEF OnListenRequest
  <2>3. Conn("listening", <<>>) \in ConnState
    BY <1>q, ConnType
  <2>4. CASE ListenNewSession(c, id, access_level)
    <3> DEFINE new == [id |-> id, queue |-> <<>>, access_level |-> access_level, conn |-> c, timer |-> TRUE]
    <3>1. new \in Session /\ Len(new.queue) <= MaxQueueLen
      BY <1>q DEF Session
    <3>2. FreeSlot \in Slots
      BY FreeSlotProperties
    <3>3. sessions' = [sessions EXCEPT ![FreeSlot] = new]
      BY <2>4 DEF ListenNewSession
    <3>4. ConnsResponded(conns, sessions[FreeSlot]) \in [Conns -> ConnState]
      BY <1>s, <3>2, ConnsRespondedType DEF TypeOK
    <3>5. conns' \in [Conns -> ConnState]
      BY <2>3, <2>4, <3>4 DEF ListenNewSession
    <3> HIDE DEF new
    <3>6. sessions' \in [Slots -> Session] /\ \A s \in Slots : Len(sessions'[s].queue) <= MaxQueueLen
      BY <1>s, <3>1, <3>2, <3>3 DEF TypeOK
    <3>7. QED
      BY <2>2, <3>5, <3>6 DEF TypeOK
  <2>5. CASE ListenAgain(c, id, access_level)
    <3> DEFINE s         == FindById(id)
               replaced  == SessionResponded(sessions[s])
               continued == [replaced EXCEPT !.conn = c, !.access_level = access_level, !.timer = TRUE]
               conns1    == [ConnsResponded(conns, sessions[s]) EXCEPT ![c] = Conn("listening", <<>>)]
               last      == SessionResponded(continued)
    <3>1. s \in Slots
      BY <2>5, FindByIdProperties DEF ListenAgain
    <3>2. replaced \in Session /\ Len(replaced.queue) <= MaxQueueLen
      BY <1>s, <3>1, SessionRespondedType
    <3>3. continued \in Session /\ Len(continued.queue) <= MaxQueueLen
      <4> HIDE DEF replaced
      <4>1. QED
        BY <3>2 DEF Session
    <3>4. conns1 \in [Conns -> ConnState]
      <4> DEFINE cr == ConnsResponded(conns, sessions[s])
      <4>1. cr \in [Conns -> ConnState]
        BY <1>s, <3>1, ConnsRespondedType DEF TypeOK
      <4> HIDE DEF cr
      <4>2. [cr EXCEPT ![c] = Conn("listening", <<>>)] \in [Conns -> ConnState]
        BY <2>3, <4>1
      <4>3. QED
        BY <4>2 DEF cr
    <3>5. \/ sessions' = [sessions EXCEPT ![s] = last] /\ conns' = ConnsResponded(conns1, continued)
          \/ sessions' = [sessions EXCEPT ![s] = continued] /\ conns' = conns1
      BY <2>5 DEF ListenAgain
    <3> HIDE DEF s, continued, conns1, last
    <3>6. last \in Session /\ Len(last.queue) <= MaxQueueLen
      BY <3>3, SessionRespondedType DEF last
    <3>7. ConnsResponded(conns1, continued) \in [Conns -> ConnState]
      BY <3>3, <3>4, ConnsRespondedType
    <3>8. conns' \in [Conns -> ConnState]
      BY <3>4, <3>5, <3>7
    <3>9. sessions' \in [Slots -> Session] /\ \A t \in Slots : Len(sessions'[t].queue) <= MaxQueueLen
      BY <1>s, <3>1, <3>3, <3>5, <3>6 DEF TypeOK
    <3>10. QED
      BY <2>2, <3>8, <3>9 DEF TypeOK
  <2>6. QED
    BY <2>1, <2>4, <2>5
<1>6. ASSUME NEW port \in PortIds, PushPortEvent(port) PROVE TypeOK'
  <2>1. PICK type \in {"value-change", "port-update"} : event_push(type, port)
    BY <1>6 DEF PushPortEvent
  <2>2. type \in PortEventTypes
    BY DEF PortEventTypes
  <2>3. QED
    BY <1>6, <2>1, <2>2, EventPushTypeOK DEF PushPortEvent, TypeOK
<1>7. ASSUME NEW port \in PortIds, AddPort(port) PROVE TypeOK'
  <2>1. "port-add" \in PortEventTypes
    BY DEF PortEventTypes
  <2>2. QED
    BY <1>7, <2>1, EventPushTypeOK DEF AddPort, TypeOK
<1>8. ASSUME NEW port \in PortIds, RemovePort(port) PROVE TypeOK'
  <2>1. "port-remove" \in PortEventTypes
    BY DEF PortEventTypes
  <2>2. QED
    BY <1>8, <2>1, EventPushTypeOK DEF RemovePort, TypeOK
<1>9. ASSUME PushDeviceEvent PROVE TypeOK'
  <2>1. PICK type \in DeviceEventTypes : event_push(type, NoPort)
    BY <1>9 DEF PushDeviceEvent
  <2>2. QED
    BY <1>9, <2>1, EventPushTypeOK DEF PushDeviceEvent, TypeOK
<1>10. ASSUME NEW s \in Slots, ListenRespondTask(s) PROVE TypeOK'
  <2>1. tasks' \in Seq(Slots) /\ Len(tasks') <= TaskQueueSize
    <3>1. tasks' = Tail(tasks) /\ tasks # <<>> /\ tasks \in Seq(Slots) /\ Len(tasks) <= TaskQueueSize
      BY <1>10 DEF ListenRespondTask, TypeOK
    <3>2. Tail(tasks) \in Seq(Slots) /\ Len(Tail(tasks)) = Len(tasks) - 1 /\ Len(tasks) \in Nat
      BY <3>1, HeadTailProperties, LenProperties
    <3>3. QED
      BY <3>1, <3>2, TaskQueueSizeAssumption DEF TaskQueueSizeAssumption
  <2>2. SessionResponded(sessions[s]) \in Session /\ Len(SessionResponded(sessions[s]).queue) <= MaxQueueLen
    BY <1>s, SessionRespondedType
  <2>3. ConnsResponded(conns, sessions[s]) \in [Conns -> ConnState]
    BY <1>s, ConnsRespondedType DEF TypeOK
  <2>4. QED
    BY <1>10, <1>s, <2>1, <2>2, <2>3 DEF ListenRespondTask, TypeOK
<1>11. ASSUME NEW s \in Slots, OnSessionTimeout(s) PROVE TypeOK'
  <2>1. SessionResponded(sessions[s]) \in Session /\ Len(SessionResponded(sessions[s]).queue) <= MaxQueueLen
    BY <1>s, SessionRespondedType
  <2>2. ConnsResponded(conns, sessions[s]) \in [Conns -> ConnState]
    BY <1>s, ConnsRespondedType DEF TypeOK
  <2>3. QED
    BY <1>11, <1>s, <2>1, <2>2, UnusedType DEF OnSessionTimeout, TypeOK
<1>12. ASSUME sessions_respond_all
       PROVE  /\ sessions' \in [Slots -> Session] /\ conns' \in [Conns -> ConnState]
              /\ \A s \in Slots : Len(sessions'[s].queue) <= MaxQueueLen
  <2>1. \A c \in Conns : Respond(conns, c, <<>>)[c] \in ConnState
    BY <1>q, RespondType DEF TypeOK
  <2>2. conns' \in [Conns -> ConnState]
    BY <1>12, <2>1 DEF sessions_respond_all, TypeOK
  <2>3. \A s \in Slots : sessions'[s] = sessions[s] \/ sessions'[s] = [sessions[s] EXCEPT !.conn = NoConn, !.timer = TRUE]
    BY <1>12 DEF sessions_respond_all
  <2>4. \A s \in Slots : sessions'[s] \in Session /\ Len(sessions'[s].queue) <= MaxQueueLen
    BY <1>s, <2>3 DEF Session
  <2>5. sessions' \in [Slots -> Session]
    BY <1>12, <2>4 DEF sessions_respond_all
  <2>6. QED
    BY <2>2, <2>4, <2>5
<1>13. CASE OnSystemReset
  BY <1>12, <1>13 DEF OnSystemReset, TypeOK
<1>14. CASE OnOtaAutoPerform
  BY <1>12, <1>14 DEF OnOtaAutoPerform, TypeOK
<1>15. CASE OtaChanges
  BY <1>15 DEF OtaChanges, TypeOK
<1>16. CASE ProvisioningChanges
  BY <1>16 DEF ProvisioningChanges, TypeOK
<1>17. CASE UNCHANGED vars
  BY <1>17 DEF vars, TypeOK
<1>18. QED
  BY <1>1, <1>2, <1>3, <1>4, <1>5, <1>6, <1>7, <1>8, <1>9, <1>10, <1>11, <1>13, <1>14, <1>15, <1>16, <1>17 DEF Next

\* Whatever clients, ports, timers and the rest of the firmware do, the
\* session array stays well formed and no queue exceeds its limit.
THEOREM TypeCorrect == Spec => []TypeOK
<1>1. QED
  BY InitTypeOK, NextTypeOK, PTL DEF Spec

-----------------------------------------------------------------------------
(***************************************************************************)
(* Timers.                                                                 *)
(***************************************************************************)
\* session_respond() keeps the id and the timer, and drops the connection.
LEMMA RespondedKeepsSession ==
    ASSUME NEW session \in Session
    PROVE  /\ SessionResponded(session).id = session.id
           /\ SessionResponded(session).timer = session.timer
           /\ SessionResponded(session).conn = NoConn
BY DEF SessionResponded, Session

\* event_push() keeps ids, timers and connections: it only changes queues.
LEMMA EventPushKeepsSessions ==
    ASSUME TypeOK, NEW type, NEW port, event_push(type, port), NEW s \in Slots
    PROVE  /\ sessions'[s].id = sessions[s].id
           /\ sessions'[s].timer = sessions[s].timer
           /\ sessions'[s].conn = sessions[s].conn
BY DEF event_push, TypeOK, Session

\* No slot is in use, and no timer armed, at the start.
LEMMA InitTimers == Init => TimerPerSession
BY DEF Init, TimerPerSession, Active, Unused

\* Every step that takes a slot arms its timer, and one that frees it disarms
\* it.
LEMMA NextTimers == TypeOK /\ TimerPerSession /\ [Next]_vars => TimerPerSession'
<1> SUFFICES ASSUME TypeOK, TimerPerSession, [Next]_vars PROVE TimerPerSession'
  OBVIOUS
<1> USE DEF TimerPerSession, Active
<1>s. \A s \in Slots : sessions[s] \in Session
  BY DEF TypeOK
<1>n. NoId \notin SessionIds
  BY SessionsAssumption DEF SessionsAssumption
<1>1. ASSUME NEW c \in Conns, OnTcpConn(c) \/ OnOtherRequest(c) \/ OnTrailingByte(c) PROVE TimerPerSession'
  BY <1>1 DEF OnTcpConn, OnOtherRequest, OnTrailingByte
<1>2. ASSUME NEW c \in Conns, OnTcpDisc(c) PROVE TimerPerSession'
  BY <1>2, <1>s DEF OnTcpDisc, Session
<1>3. ASSUME NEW c \in Conns, OnListenRequest(c) PROVE TimerPerSession'
  <2>1. PICK id \in SessionIds, access_level \in {VIEWONLY, ADMIN} :
            ListenNewSession(c, id, access_level) \/ ListenAgain(c, id, access_level)
    BY <1>3 DEF OnListenRequest
  <2>2. CASE ListenNewSession(c, id, access_level)
    BY <1>n, <2>2, FreeSlotProperties DEF ListenNewSession, TypeOK
  <2>3. CASE ListenAgain(c, id, access_level)
    <3> DEFINE s         == FindById(id)
               replaced  == SessionResponded(sessions[s])
               continued == [replaced EXCEPT !.conn = c, !.access_level = access_level, !.timer = TRUE]
               last      == SessionResponded(continued)
    <3>1. s \in Slots /\ sessions[s].id = id
      BY <2>3, FindByIdProperties DEF ListenAgain
    <3>2. replaced \in Session /\ replaced.id = id
      BY <1>s, <3>1, SessionRespondedType, RespondedKeepsSession DEF TypeOK, QueuesBounded
    <3>3. continued \in Session /\ continued.id = id /\ continued.timer
      <4> HIDE DEF replaced
      <4>1. QED
        BY <3>2 DEF Session
    <3>4. sessions' = [sessions EXCEPT ![s] = last] \/ sessions' = [sessions EXCEPT ![s] = continued]
      BY <2>3 DEF ListenAgain
    <3> HIDE DEF s, continued
    <3>5. last.id = id /\ last.timer
      BY <3>3, RespondedKeepsSession
    <3> HIDE DEF last
    <3>6. QED
      BY <1>n, <3>1, <3>3, <3>4, <3>5 DEF TypeOK
  <2>4. QED
    BY <2>1, <2>2, <2>3
<1>4. ASSUME NEW type, NEW port, event_push(type, port) PROVE TimerPerSession'
  BY <1>4, EventPushKeepsSessions
<1>5. ASSUME NEW s \in Slots, ListenRespondTask(s) PROVE TimerPerSession'
  BY <1>5, <1>s, RespondedKeepsSession DEF ListenRespondTask, TypeOK
<1>6. ASSUME NEW s \in Slots, OnSessionTimeout(s) PROVE TimerPerSession'
  BY <1>6, <1>s, RespondedKeepsSession DEF OnSessionTimeout, TypeOK, Unused
<1>7. ASSUME sessions_respond_all PROVE TimerPerSession'
  BY <1>7, <1>s DEF sessions_respond_all, Session
<1>8. CASE UNCHANGED sessions
  BY <1>8
<1>9. QED
  BY <1>1, <1>2, <1>3, <1>4, <1>5, <1>6, <1>7, <1>8
     DEF Next, vars, PushPortEvent, AddPort, RemovePort, PushDeviceEvent, OnSystemReset, OnOtaAutoPerform,
         OtaChanges, ProvisioningChanges

\* A slot is in use exactly while its timer is armed: no session can stay
\* forever, and no timer of a session that ended can fire on the next one.
THEOREM TimersCorrect == Spec => []TimerPerSession
<1>1. QED
  BY InitTimers, NextTimers, TypeCorrect, PTL DEF Spec

-----------------------------------------------------------------------------
(***************************************************************************)
(* Sessions and connections agree.                                         *)
(***************************************************************************)
NoTrailingBytes == "trailing bytes" \notin Activities

\* ListenersAttached of the sessions and connections in the middle of a callback.
AttachedIn(S, C) ==
    /\ \A s \in Slots : S[s].conn # NoConn => S[s].id # NoId /\ C[S[s].conn].state = "listening"
    /\ \A c \in Conns : C[c].state = "listening" => \E s \in Slots : S[s].conn = c
    /\ \A s, t \in Slots : S[s].conn # NoConn /\ S[s].conn = S[t].conn => s = t

\* ListenersAttached in terms of the current slots and connections...
LEMMA AttachedNow == ListenersAttached <=> AttachedIn(sessions, conns)
BY DEF ListenersAttached, AttachedIn, Active

\* ... and of the next ones.
LEMMA AttachedNext == ListenersAttached' <=> AttachedIn(sessions', conns')
BY DEF ListenersAttached, AttachedIn, Active

\* session_respond() on slot s leaves the other listeners alone.
LEMMA RespondKeepsAttached ==
    ASSUME NEW S \in [Slots -> Session], NEW C \in [Conns -> ConnState], AttachedIn(S, C), NEW s \in Slots
    PROVE  AttachedIn([S EXCEPT ![s] = SessionResponded(S[s])], ConnsResponded(C, S[s]))
<1> DEFINE S1 == [S EXCEPT ![s] = SessionResponded(S[s])]
           C1 == ConnsResponded(C, S[s])
<1>1. CASE S[s].conn = NoConn
  <2>1. SessionResponded(S[s]) = S[s] /\ NoConn \notin Conns
    BY <1>1, SessionsAssumption DEF SessionResponded, SessionsAssumption
  <2>2. S1 = S /\ C1 = C
    BY <1>1, <2>1 DEF ConnsResponded, Respond
  <2>3. QED
    BY <2>2
<1>2. CASE S[s].conn # NoConn
  <2> DEFINE c == S[s].conn
             reply == Rendered(S[s].queue)
  <2>1. c \in Conns /\ C[c].state = "listening"
    BY <1>2 DEF Session, AttachedIn
  <2>2. C1 = [C EXCEPT ![c] = Conn("answered", reply)]
    BY <2>1 DEF ConnsResponded, Respond
  <2>3. S1[s].conn = NoConn /\ \A t \in Slots : t # s => S1[t] = S[t]
    BY RespondedKeepsSession
  <2>4. \A d \in Conns : C1[d].state = IF d = c THEN "answered" ELSE C[d].state
    BY <2>1, <2>2 DEF Conn
  <2>5. \A t \in Slots : t # s => S[t].conn # c
    BY <1>2 DEF AttachedIn
  <2>6. \A t \in Slots : S[t].conn \in Conns \cup {NoConn}
    BY DEF Session
  <2> HIDE DEF c, S1, C1
  <2>7. \A t \in Slots : S1[t].conn # NoConn => S1[t].id # NoId /\ C1[S1[t].conn].state = "listening"
    BY <2>3, <2>4, <2>5, <2>6 DEF AttachedIn
  <2>8. \A d \in Conns : C1[d].state = "listening" => \E t \in Slots : S1[t].conn = d
    BY <2>3, <2>4, <2>5, <2>6 DEF AttachedIn, c
  <2>9. \A t, u \in Slots : S1[t].conn # NoConn /\ S1[t].conn = S1[u].conn => t = u
    BY <2>3 DEF AttachedIn
  <2>10. AttachedIn(S1, C1)
    BY <2>7, <2>8, <2>9 DEF AttachedIn
  <2>11. QED
    BY <2>10 DEF S1, C1
<1>3. QED
  BY <1>1, <1>2

\* Giving a slot without a connection the session x and the connection c.
LEMMA AttachKeepsAttached ==
    ASSUME NEW S \in [Slots -> Session], NEW C \in [Conns -> ConnState], AttachedIn(S, C),
           NEW s \in Slots, S[s].conn = NoConn, NEW c \in Conns, C[c].state = "open",
           NEW x \in Session, x.conn = c, x.id # NoId
    PROVE  AttachedIn([S EXCEPT ![s] = x], [C EXCEPT ![c] = Conn("listening", <<>>)])
<1> DEFINE S1 == [S EXCEPT ![s] = x]
           C1 == [C EXCEPT ![c] = Conn("listening", <<>>)]
<1>1. S1[s] = x /\ \A t \in Slots : t # s => S1[t] = S[t]
  OBVIOUS
<1>2. \A d \in Conns : C1[d].state = IF d = c THEN "listening" ELSE C[d].state
  BY DEF Conn
<1>3. NoConn \notin Conns
  BY SessionsAssumption DEF SessionsAssumption
<1>4. \A t \in Slots : S[t].conn \in Conns \cup {NoConn} /\ S[t].conn # c
  <2>1. ASSUME NEW t \in Slots, S[t].conn = c PROVE FALSE
    <3>1. C[S[t].conn].state = "listening"
      BY <2>1, <1>3 DEF AttachedIn
    <3>2. QED
      BY <2>1, <3>1
  <2>2. QED
    BY <2>1 DEF Session
<1> HIDE DEF S1, C1
<1>5. AttachedIn(S1, C1)
  BY <1>1, <1>2, <1>4, <1>3 DEF AttachedIn
<1>6. QED
  BY <1>5 DEF S1, C1

\* Answering a connection other than the one just asked leaves that one open.
LEMMA RespondLeavesOpen ==
    ASSUME NEW S \in [Slots -> Session], NEW C \in [Conns -> ConnState], AttachedIn(S, C), NEW s \in Slots,
           NEW c \in Conns, C[c].state = "open"
    PROVE  ConnsResponded(C, S[s])[c].state = "open"
<1>1. S[s].conn # c
  <2>1. c # NoConn
    BY SessionsAssumption DEF SessionsAssumption
  <2>2. QED
    BY <2>1 DEF AttachedIn
<1>2. QED
  BY <1>1 DEF ConnsResponded, Respond

\* Steps that change neither who is attached nor who listens.
LEMMA SameListeners ==
    ASSUME NEW S, NEW C, AttachedIn(S, C), NEW T, NEW D,
           \A s \in Slots : T[s].conn = S[s].conn /\ T[s].id = S[s].id,
           \A c \in Conns : D[c].state = "listening" <=> C[c].state = "listening",
           \A s \in Slots : S[s].conn \in Conns \cup {NoConn}
    PROVE  AttachedIn(T, D)
BY DEF AttachedIn

\* Nobody listens at the start.
LEMMA InitAttached == Init => ListenersAttached
BY DEF Init, ListenersAttached, Unused, Conn

\* Every step keeps sessions and waiting connections one to one, but for
\* bytes that trail a request.
LEMMA NextAttached == NoTrailingBytes /\ TypeOK /\ ListenersAttached /\ [Next]_vars => ListenersAttached'
<1> SUFFICES ASSUME NoTrailingBytes, TypeOK, ListenersAttached, [Next]_vars PROVE ListenersAttached'
  OBVIOUS
<1>s. sessions \in [Slots -> Session] /\ conns \in [Conns -> ConnState]
  BY DEF TypeOK
<1>q. \A s \in Slots : sessions[s] \in Session /\ Len(sessions[s].queue) <= MaxQueueLen
                         /\ sessions[s].conn \in Conns \cup {NoConn}
  BY DEF TypeOK, QueuesBounded, Session
<1>a. AttachedIn(sessions, conns)
  BY AttachedNow
<1>n. NoId \notin SessionIds /\ NoConn \notin Conns
  <2>1. NoId \notin SessionIds
    BY SessionsAssumption DEF SessionsAssumption
  <2>2. NoConn \notin Conns
    BY SessionsAssumption DEF SessionsAssumption
  <2>3. QED
    BY <2>1, <2>2
<1>1. ASSUME NEW c \in Conns, OnTcpConn(c) \/ OnOtherRequest(c) PROVE ListenersAttached'
  <2>1. sessions' = sessions
    BY <1>1 DEF OnTcpConn, OnOtherRequest
  <2>2. \A d \in Conns : conns'[d].state = "listening" <=> conns[d].state = "listening"
    BY <1>1, <1>s DEF OnTcpConn, OnOtherRequest, Respond, Conn
  <2>3. AttachedIn(sessions', conns')
    BY <1>a, <1>q, <2>1, <2>2, SameListeners
  <2>4. QED
    BY <2>3, AttachedNext
<1>2. ASSUME NEW c \in Conns, OnTcpDisc(c) PROVE ListenersAttached'
  <2>1. \A d \in Conns : conns'[d].state = IF d = c THEN "closed" ELSE conns[d].state
    BY <1>2, <1>s DEF OnTcpDisc, Conn
  <2>2. \A s \in Slots : /\ sessions'[s].id = sessions[s].id
                          /\ sessions'[s].conn = IF sessions[s].conn = c THEN NoConn ELSE sessions[s].conn
    <3> TAKE s \in Slots
    <3>1. CASE sessions[s].conn = c
      <4>1. conns[c].state = "listening" /\ Active(s) /\ \A t \in Slots : t # s => sessions[t].conn # c
        BY <1>n, <3>1 DEF ListenersAttached
      <4>2. \A t \in Slots : t < s => t # s
        BY SlotsAreNumbers
      <4>3. sessions'[s] = [sessions[s] EXCEPT !.conn = NoConn, !.timer = TRUE]
        BY <1>2, <3>1, <4>1, <4>2 DEF OnTcpDisc
      <4>4. QED
        BY <1>q, <3>1, <4>3 DEF Session
    <3>2. CASE sessions[s].conn # c
      BY <1>2, <3>2 DEF OnTcpDisc
    <3>3. QED
      BY <3>1, <3>2
  <2>3. AttachedIn(sessions', conns')
    BY <1>a, <1>n, <1>q, <2>1, <2>2 DEF AttachedIn
  <2>4. QED
    BY <2>3, AttachedNext
<1>3. ASSUME NEW c \in Conns, OnListenRequest(c) PROVE ListenersAttached'
  <2>1. PICK id \in SessionIds, access_level \in {VIEWONLY, ADMIN} :
            ListenNewSession(c, id, access_level) \/ ListenAgain(c, id, access_level)
    BY <1>3 DEF OnListenRequest
  <2>2. conns[c].state = "open" /\ id # NoId
    BY <1>3, <1>n DEF OnListenRequest
  <2>3. CASE ListenNewSession(c, id, access_level)
    <3> DEFINE s   == FreeSlot
               x   == [id |-> id, queue |-> <<>>, access_level |-> access_level, conn |-> c, timer |-> TRUE]
               S1  == [sessions EXCEPT ![s] = SessionResponded(sessions[s])]
               C1  == ConnsResponded(conns, sessions[s])
    <3>1. s \in Slots
      BY FreeSlotProperties
    <3>2. x \in Session /\ x.conn = c /\ x.id # NoId
      BY <2>2, EmptyQueue DEF Session
    <3>3. S1 \in [Slots -> Session] /\ C1 \in [Conns -> ConnState] /\ S1[s].conn = NoConn
      BY <1>s, <1>q, <3>1, SessionRespondedType, ConnsRespondedType, RespondedKeepsSession
    <3>4. AttachedIn(S1, C1)
      BY <1>s, <1>a, <3>1, RespondKeepsAttached
    <3>5. C1[c].state = "open"
      BY <1>s, <1>a, <2>2, <3>1, RespondLeavesOpen
    <3>6. sessions' = [S1 EXCEPT ![s] = x] /\ conns' = [C1 EXCEPT ![c] = Conn("listening", <<>>)]
      BY <1>s, <2>3, <3>1 DEF ListenNewSession
    <3> HIDE DEF s, x, S1, C1
    <3>7. AttachedIn([S1 EXCEPT ![s] = x], [C1 EXCEPT ![c] = Conn("listening", <<>>)])
      BY <3>1, <3>2, <3>3, <3>4, <3>5, AttachKeepsAttached
    <3>8. QED
      BY <3>6, <3>7, AttachedNext
  <2>4. CASE ListenAgain(c, id, access_level)
    <3> DEFINE s         == FindById(id)
               replaced  == SessionResponded(sessions[s])
               continued == [replaced EXCEPT !.conn = c, !.access_level = access_level, !.timer = TRUE]
               S1        == [sessions EXCEPT ![s] = SessionResponded(sessions[s])]
               C1        == ConnsResponded(conns, sessions[s])
               S2        == [S1 EXCEPT ![s] = continued]
               C2        == [C1 EXCEPT ![c] = Conn("listening", <<>>)]
    <3>1. s \in Slots /\ sessions[s].id = id
      BY <2>4, FindByIdProperties DEF ListenAgain
    <3>2. S1 \in [Slots -> Session] /\ C1 \in [Conns -> ConnState] /\ S1[s].conn = NoConn
      BY <1>s, <1>q, <3>1, SessionRespondedType, ConnsRespondedType, RespondedKeepsSession
    <3>3. replaced \in Session /\ replaced.id = id
      BY <1>q, <3>1, SessionRespondedType, RespondedKeepsSession
    <3>4. continued \in Session /\ continued.conn = c /\ continued.id = id
      <4> HIDE DEF replaced
      <4>1. QED
        BY <3>3 DEF Session
    <3>5. AttachedIn(S1, C1)
      BY <1>s, <1>a, <3>1, RespondKeepsAttached
    <3>6. C1[c].state = "open"
      BY <1>s, <1>a, <2>2, <3>1, RespondLeavesOpen
    <3>7. \/ sessions' = [sessions EXCEPT ![s] = SessionResponded(continued)] /\ conns' = ConnsResponded(C2, continued)
          \/ sessions' = [sessions EXCEPT ![s] = continued] /\ conns' = C2
      BY <2>4 DEF ListenAgain
    <3>8. S2 = [sessions EXCEPT ![s] = continued] /\ S2[s] = continued
      BY <1>s, <3>1
    <3>9. [S2 EXCEPT ![s] = SessionResponded(S2[s])] = [sessions EXCEPT ![s] = SessionResponded(continued)]
      <4> HIDE DEF continued
      <4>1. QED
        BY <1>s, <3>1
    <3>10. S2 \in [Slots -> Session]
      <4> HIDE DEF continued, S1
      <4>1. QED
        BY <3>1, <3>2, <3>4
    <3>11. C2 \in [Conns -> ConnState]
      <4> HIDE DEF C1
      <4>1. QED
        BY <3>2, EmptyQueue, ConnType
    <3>12. AttachedIn(S2, C2)
      <4> HIDE DEF S1, C1, continued
      <4>1. QED
        BY <2>2, <3>1, <3>2, <3>4, <3>5, <3>6, AttachKeepsAttached
    <3> HIDE DEF S1, C1, S2, C2, s, continued
    <3>13. AttachedIn([S2 EXCEPT ![s] = SessionResponded(S2[s])], ConnsResponded(C2, S2[s]))
      BY <3>1, <3>10, <3>11, <3>12, RespondKeepsAttached
    <3>14. AttachedIn(sessions', conns')
      BY <3>7, <3>8, <3>9, <3>12, <3>13
    <3>15. QED
      BY <3>14, AttachedNext
  <2>5. QED
    BY <2>1, <2>3, <2>4
<1>4. ASSUME NEW type, NEW port, event_push(type, port), UNCHANGED conns PROVE ListenersAttached'
  <2>1. \A s \in Slots : sessions'[s].conn = sessions[s].conn /\ sessions'[s].id = sessions[s].id
    BY <1>4, EventPushKeepsSessions
  <2>2. AttachedIn(sessions', conns')
    BY <1>4, <1>a, <1>q, <2>1, SameListeners
  <2>3. QED
    BY <2>2, AttachedNext
<1>5. ASSUME NEW s \in Slots, sessions' = [sessions EXCEPT ![s] = SessionResponded(@)],
             conns' = ConnsResponded(conns, sessions[s])
      PROVE  ListenersAttached'
  BY <1>5, <1>s, <1>a, RespondKeepsAttached, AttachedNext
<1>6. ASSUME NEW s \in Slots, ListenRespondTask(s) PROVE ListenersAttached'
  <2>1. CASE sessions[s].queue # <<>>
    BY <1>5, <1>6, <2>1 DEF ListenRespondTask
  <2>2. CASE sessions[s].queue = <<>>
    <3>1. sessions' = sessions /\ conns' = conns
      BY <1>6, <2>2 DEF ListenRespondTask
    <3>2. QED
      BY <1>a, <3>1, AttachedNext
  <2>3. QED
    BY <2>1, <2>2
<1>7. ASSUME NEW s \in Slots, OnSessionTimeout(s) PROVE ListenersAttached'
  <2>1. CASE sessions[s].conn # NoConn
    BY <1>5, <1>7, <2>1 DEF OnSessionTimeout
  <2>2. CASE sessions[s].conn = NoConn
    <3>1. sessions' = [sessions EXCEPT ![s] = Unused] /\ conns' = conns
      BY <1>7, <2>2 DEF OnSessionTimeout
    <3>2. \A t \in Slots : sessions'[t].conn = sessions[t].conn /\ (sessions'[t].id = sessions[t].id \/ sessions'[t].conn = NoConn)
      BY <1>s, <2>2, <3>1 DEF Unused
    <3>3. AttachedIn(sessions', conns')
      BY <1>a, <1>q, <3>1, <3>2 DEF AttachedIn
    <3>4. QED
      BY <3>3, AttachedNext
  <2>3. QED
    BY <2>1, <2>2
<1>8. ASSUME sessions_respond_all PROVE ListenersAttached'
  <2>1. \A s \in Slots : sessions'[s].conn = NoConn
    BY <1>8, <1>q DEF sessions_respond_all, ListenersAttached, Session
  <2>2. \A c \in Conns : conns'[c].state # "listening"
    <3> TAKE c \in Conns
    <3>1. CASE \E s \in Slots : Active(s) /\ sessions[s].conn = c
      <4>1. conns'[c] = Respond(conns, c, <<>>)[c]
        BY <1>8, <3>1 DEF sessions_respond_all
      <4>2. QED
        BY <1>s, <4>1 DEF Respond, Conn
    <3>2. CASE ~\E s \in Slots : Active(s) /\ sessions[s].conn = c
      <4>1. conns'[c] = conns[c]
        BY <1>8, <3>2 DEF sessions_respond_all
      <4>2. QED
        BY <1>n, <3>2, <4>1 DEF ListenersAttached
    <3>3. QED
      BY <3>1, <3>2
  <2>3. AttachedIn(sessions', conns')
    BY <2>1, <2>2 DEF AttachedIn
  <2>4. QED
    BY <2>3, AttachedNext
<1>9. CASE UNCHANGED <<sessions, conns>>
  BY <1>9, <1>a, AttachedNext
<1>10. ASSUME NEW c \in Conns, OnTrailingByte(c) PROVE FALSE
  BY <1>10 DEF OnTrailingByte, NoTrailingBytes
<1>11. QED
  BY <1>1, <1>2, <1>3, <1>4, <1>6, <1>7, <1>8, <1>9, <1>10
     DEF Next, vars, PushPortEvent, AddPort, RemovePort, PushDeviceEvent, OnSystemReset, OnOtaAutoPerform,
         OtaChanges, ProvisioningChanges

\* As long as clients send nothing after a request, the connections that
\* wait for events and the sessions' connections are the same, one to one:
\* a session never answers a connection that is gone or somebody else's, and
\* no waiting client is forgotten.
THEOREM AttachedCorrect == NoTrailingBytes => (Spec => []ListenersAttached)
<1>1. NoTrailingBytes \in BOOLEAN
  BY DEF NoTrailingBytes
<1>2. SUFFICES ASSUME NoTrailingBytes PROVE Spec => []ListenersAttached
  OBVIOUS
<1>3. TypeOK /\ ListenersAttached /\ [Next]_vars => ListenersAttached'
  BY <1>2, NextAttached
<1>4. QED
  BY <1>3, InitAttached, TypeCorrect, PTL DEF Spec

-----------------------------------------------------------------------------
(***************************************************************************)
(* The order of events in queues and responses.                            *)
(***************************************************************************)
\* Newest first, and no two similar updates.
OrderedQueue(queue) ==
    \A i, j \in 1..Len(queue) : i < j => queue[i].seq > queue[j].seq /\ ~Similar(queue[j], queue[i])

\* Only events numbered up to n.
UpTo(queue, n) == \A i \in 1..Len(queue) : queue[i].seq <= n

\* Oldest first, but for the omitted events.
OrderedReply(reply) ==
    \A i, j \in 1..Len(reply) :
        i < j /\ reply[i] # Omitted /\ reply[j] # Omitted => reply[i].seq < reply[j].seq

\* The queue of a session, when n events have been pushed.
InOrderSession(session, n) ==
    /\ OrderedQueue(session.queue) /\ UpTo(session.queue, n)
    /\ session.id = NoId => session.queue = <<>>

QueuesInOrder  == \A s \in Slots : InOrderSession(sessions[s], eventCount)
RepliesOrdered == \A c \in Conns : OrderedReply(conns[c].reply)

-----------------------------------------------------------------------------
(***************************************************************************)
(* The operators on queues.                                                *)
(***************************************************************************)
\* An empty queue, and an empty response, are in order.
LEMMA EmptyInOrder == OrderedQueue(<<>>) /\ OrderedReply(<<>>) /\ \A n : UpTo(<<>>, n)
BY DEF OrderedQueue, OrderedReply, UpTo

\* Removing an element moves the later ones down by one.
LEMMA RemoveAtElements ==
    ASSUME NEW S, NEW q \in Seq(S), NEW k \in 1..Len(q), NEW i \in 1..(Len(q) - 1)
    PROVE  RemoveAt(q, k)[i] = IF i < k THEN q[i] ELSE q[i + 1]
<1> DEFINE a == SubSeq(q, 1, k - 1)
           b == SubSeq(q, k + 1, Len(q))
<1>0. Len(q) \in Nat
  BY LenProperties
<1>1. a \in Seq(S) /\ Len(a) = k - 1 /\ \A j \in 1..(k - 1) : a[j] = q[j]
  BY <1>0, SubSeqProperties, ElementOfSeq
<1>2. b \in Seq(S) /\ Len(b) = Len(q) - k /\ \A j \in 1..(Len(q) - k) : b[j] = q[k + j]
  <2>1. \A j \in (k + 1)..Len(q) : q[j] \in S
    BY <1>0, ElementOfSeq
  <2>2. /\ b \in Seq(S)
        /\ Len(b) = IF k + 1 <= Len(q) THEN Len(q) - (k + 1) + 1 ELSE 0
        /\ \A j \in 1..(Len(q) - (k + 1) + 1) : b[j] = q[(k + 1) + j - 1]
    BY <1>0, <2>1, SubSeqProperties
  <2> HIDE DEF b
  <2> QED
    BY <1>0, <2>2
<1>3. RemoveAt(q, k) = a \o b
  BY DEF RemoveAt
<1> HIDE DEF a, b
<1>4. \A j \in 1..(Len(a) + Len(b)) : (a \o b)[j] = IF j <= Len(a) THEN a[j] ELSE b[j - Len(a)]
  BY <1>1, <1>2, ConcatProperties
<1>5. (a \o b)[i] = IF i <= k - 1 THEN a[i] ELSE b[i - (k - 1)]
  BY <1>0, <1>1, <1>2, <1>4
<1>6. CASE i < k
  BY <1>1, <1>3, <1>5, <1>6
<1>7. CASE ~(i < k)
  <2>1. i - (k - 1) \in 1..(Len(q) - k) /\ k + (i - (k - 1)) = i + 1
    BY <1>0, <1>7
  <2> QED
    BY <1>0, <1>2, <1>3, <1>5, <1>7, <2>1
<1> QED
  BY <1>6, <1>7

\* A queue without one of its events is in order, and one without its oldest.
LEMMA RemovedInOrder ==
    ASSUME NEW q \in Seq(Event), OrderedQueue(q), NEW n, UpTo(q, n), NEW k \in 1..Len(q)
    PROVE  OrderedQueue(RemoveAt(q, k)) /\ UpTo(RemoveAt(q, k), n)
<1> DEFINE r    == RemoveAt(q, k)
           P(i) == IF i < k THEN i ELSE i + 1
<1>0. Len(q) \in Nat /\ Len(r) = Len(q) - 1
  BY LenProperties, RemoveAtProperties
<1>1. \A i \in 1..Len(r) : r[i] = q[P(i)]
  BY <1>0, RemoveAtElements
<1>2. \A i \in 1..Len(r) : P(i) \in 1..Len(q)
  BY <1>0
<1>3. \A i, j \in 1..Len(r) : i < j => P(i) < P(j)
  BY <1>0
<1> HIDE DEF r, P
<1>4. OrderedQueue(r) /\ UpTo(r, n)
  BY <1>1, <1>2, <1>3 DEF OrderedQueue, UpTo
<1> QED
  BY <1>4 DEF r

\* Dropping the oldest event of a full queue keeps the order.
LEMMA FrontInOrder ==
    ASSUME NEW q \in Seq(Event), OrderedQueue(q), NEW n, UpTo(q, n)
    PROVE  MakeRoom(q) \in Seq(Event) /\ OrderedQueue(MakeRoom(q)) /\ UpTo(MakeRoom(q), n)
           /\ Len(MakeRoom(q)) <= Len(q) /\ \A i \in 1..Len(MakeRoom(q)) : MakeRoom(q)[i] = q[i]
<1> DEFINE r == MakeRoom(q)
<1>0. Len(q) \in Nat /\ MaxQueueLen \in Nat \ {0}
  BY LenProperties, Bounds
<1>1. CASE Len(q) >= MaxQueueLen
  <2> DEFINE f == SubSeq(q, 1, Len(q) - 1)
  <2>1. \A i \in 1..(Len(q) - 1) : q[i] \in Event
    BY <1>0, ElementOfSeq
  <2>2. f \in Seq(Event) /\ Len(f) = Len(q) - 1 /\ \A i \in 1..(Len(q) - 1) : f[i] = q[i]
    <3> DEFINE m == Len(q) - 1
    <3>1. m \in Nat /\ \A i \in 1..m : q[i] \in Event
      BY <1>0, <1>1, <2>1
    <3> HIDE DEF m
    <3>2. /\ SubSeq(q, 1, m) \in Seq(Event) /\ Len(SubSeq(q, 1, m)) = m
          /\ \A i \in 1..m : SubSeq(q, 1, m)[i] = q[i]
      BY <3>1, SubSeqProperties
    <3> QED
      BY <3>2 DEF m
  <2>3. r = f
    BY <1>1 DEF MakeRoom, Front
  <2> HIDE DEF f, r
  <2>4. OrderedQueue(f) /\ UpTo(f, n) /\ Len(f) <= Len(q) /\ \A i \in 1..Len(f) : f[i] = q[i]
    BY <1>0, <2>2 DEF OrderedQueue, UpTo
  <2>5. r \in Seq(Event) /\ OrderedQueue(r) /\ UpTo(r, n) /\ Len(r) <= Len(q) /\ \A i \in 1..Len(r) : r[i] = q[i]
    BY <2>2, <2>3, <2>4
  <2> QED
    BY <2>5 DEF r
<1>2. CASE ~(Len(q) >= MaxQueueLen)
  BY <1>0, <1>2 DEF MakeRoom
<1> QED
  BY <1>1, <1>2

\* The deduplication loop of session_push() leaves no event similar to the one
\* that is pushed: of an ordered queue there is at most one to unlink.
LEMMA DeduplicatedInOrder ==
    ASSUME NEW q \in Seq(Event), OrderedQueue(q), NEW n, UpTo(q, n), NEW e \in Event
    PROVE  /\ WithoutSimilar(q, e) \in Seq(Event)
           /\ OrderedQueue(WithoutSimilar(q, e)) /\ UpTo(WithoutSimilar(q, e), n)
           /\ \A i \in 1..Len(WithoutSimilar(q, e)) : ~Similar(WithoutSimilar(q, e)[i], e)
<1> DEFINE similar == {i \in 1..Len(q) : Similar(q[i], e)}
           w       == WithoutSimilar(q, e)
<1>0. Len(q) \in Nat
  BY LenProperties
<1>1. CASE similar = {}
  <2>1. w = q
    BY <1>1 DEF WithoutSimilar
  <2>2. \A i \in 1..Len(q) : ~Similar(q[i], e)
    BY <1>1
  <2> QED
    BY <2>1, <2>2
<1>2. CASE similar # {}
  <2> DEFINE k == CHOOSE i \in similar : TRUE
  <2>1. k \in 1..Len(q) /\ Similar(q[k], e)
    BY <1>2
  <2>2. w = RemoveAt(q, k)
    BY <1>2 DEF WithoutSimilar
  <2> HIDE DEF k, w
  <2>3. w \in Seq(Event) /\ Len(w) = Len(q) - 1
    BY <2>1, <2>2, RemoveAtProperties
  <2>4. OrderedQueue(w) /\ UpTo(w, n)
    BY <2>1, <2>2, RemovedInOrder
  <2>5. \A i \in 1..Len(q) : i # k => ~Similar(q[i], e)
    <3> SUFFICES ASSUME NEW i \in 1..Len(q), i # k, Similar(q[i], e) PROVE FALSE
      OBVIOUS
    <3>1. Similar(q[i], q[k]) /\ Similar(q[k], q[i])
      BY <2>1 DEF Similar
    <3> QED
      BY <1>0, <2>1, <3>1 DEF OrderedQueue
  <2>6. \A i \in 1..Len(w) : ~Similar(w[i], e)
    <3> TAKE i \in 1..Len(w)
    <3>1. w[i] = IF i < k THEN q[i] ELSE q[i + 1]
      BY <1>0, <2>1, <2>2, <2>3, RemoveAtElements
    <3>2. CASE i < k
      BY <1>0, <2>1, <2>3, <2>5, <3>1, <3>2
    <3>3. CASE ~(i < k)
      <4>1. i + 1 \in 1..Len(q) /\ i + 1 # k
        BY <1>0, <2>1, <2>3, <3>3
      <4> QED
        BY <2>5, <3>1, <3>3, <4>1
    <3> QED
      BY <3>2, <3>3
  <2>7. w \in Seq(Event) /\ OrderedQueue(w) /\ UpTo(w, n) /\ \A i \in 1..Len(w) : ~Similar(w[i], e)
    BY <2>3, <2>4, <2>6
  <2> QED
    BY <2>7 DEF w
<1> QED
  BY <1>1, <1>2

\* session_push() of the next event keeps a queue in order.
LEMMA PushedInOrder ==
    ASSUME NEW n \in Nat, NEW q \in Seq(Event), OrderedQueue(q), UpTo(q, n),
           NEW e \in Event, e.seq = n + 1
    PROVE  OrderedQueue(session_push(q, e)) /\ UpTo(session_push(q, e), n + 1)
<1> DEFINE w == WithoutSimilar(q, e)
           r == MakeRoom(w)
           p == session_push(q, e)
<1>1. w \in Seq(Event) /\ OrderedQueue(w) /\ UpTo(w, n) /\ \A i \in 1..Len(w) : ~Similar(w[i], e)
  BY DeduplicatedInOrder
<1> HIDE DEF w
<1>2. /\ r \in Seq(Event) /\ OrderedQueue(r) /\ UpTo(r, n)
      /\ Len(r) <= Len(w) /\ \A i \in 1..Len(r) : r[i] = w[i]
  BY <1>1, FrontInOrder
<1>3. p = <<e>> \o r
  BY DEF session_push, Cons, w
<1> HIDE DEF r, p
<1>4. Len(r) \in Nat /\ Len(w) \in Nat
  BY <1>1, <1>2, LenProperties
<1>5. \A i \in 1..Len(r) : ~Similar(r[i], e) /\ r[i].seq <= n /\ r[i] \in Event
  BY <1>1, <1>2, <1>4, ElementOfSeq DEF UpTo
<1>6. Len(p) = 1 + Len(r) /\ p[1] = e /\ \A i \in 2..(1 + Len(r)) : p[i] = r[i - 1]
  <2>1. <<e>> \in Seq(Event) /\ Len(<<e>>) = 1 /\ <<e>>[1] = e
    OBVIOUS
  <2>2. /\ Len(<<e>> \o r) = 1 + Len(r)
        /\ \A i \in 1..(1 + Len(r)) : (<<e>> \o r)[i] = IF i <= 1 THEN <<e>>[i] ELSE r[i - 1]
    BY <1>2, <2>1, ConcatProperties
  <2> QED
    BY <1>3, <1>4, <2>1, <2>2
<1>7. UpTo(p, n + 1)
  <2> SUFFICES ASSUME NEW i \in 1..Len(p) PROVE p[i].seq <= n + 1
    BY DEF UpTo
  <2>1. CASE i = 1
    BY <1>6, <2>1
  <2>2. CASE i # 1
    <3>1. i - 1 \in 1..Len(r) /\ p[i] = r[i - 1]
      BY <1>4, <1>6, <2>2
    <3>2. r[i - 1].seq <= n /\ r[i - 1].seq \in Nat
      BY <1>5, <3>1 DEF Event
    <3> QED
      BY <3>1, <3>2
  <2> QED
    BY <2>1, <2>2
<1>8. OrderedQueue(p)
  <2> SUFFICES ASSUME NEW i \in 1..Len(p), NEW j \in 1..Len(p), i < j
               PROVE  p[i].seq > p[j].seq /\ ~Similar(p[j], p[i])
    BY DEF OrderedQueue
  <2>1. j - 1 \in 1..Len(r) /\ p[j] = r[j - 1]
    BY <1>4, <1>6
  <2>2. CASE i = 1
    <3>1. p[i] = e /\ r[j - 1].seq <= n /\ r[j - 1].seq \in Nat /\ ~Similar(r[j - 1], e)
      BY <1>5, <1>6, <2>1, <2>2 DEF Event
    <3>2. e.seq > r[j - 1].seq
      BY <3>1
    <3> QED
      BY <2>1, <3>1, <3>2
  <2>3. CASE i # 1
    <3>1. i - 1 \in 1..Len(r) /\ p[i] = r[i - 1] /\ i - 1 < j - 1
      BY <1>4, <1>6, <2>3
    <3> QED
      BY <1>2, <2>1, <3>1 DEF OrderedQueue
  <2> QED
    BY <2>2, <2>3
<1> QED
  BY <1>7, <1>8 DEF p

\* A response to an ordered queue is in order.
LEMMA RenderedInOrder ==
    ASSUME NEW q \in Seq(Event), OrderedQueue(q)
    PROVE  OrderedReply(Rendered(q))
<1> DEFINE r == Rendered(q)
<1>0. Len(q) \in Nat
  BY LenProperties
<1>1. Len(r) = Len(q)
  BY <1>0 DEF Rendered
<1>2. \A i \in 1..Len(q) : r[i] = q[Len(q) - i + 1] \/ r[i] = Omitted
  BY DEF Rendered
<1> HIDE DEF r
<1>3. SUFFICES ASSUME NEW i \in 1..Len(q), NEW j \in 1..Len(q), i < j, r[i] # Omitted, r[j] # Omitted
               PROVE  r[i].seq < r[j].seq
  BY <1>1 DEF OrderedReply, r
<1>4. r[i] = q[Len(q) - i + 1] /\ r[j] = q[Len(q) - j + 1]
  BY <1>2, <1>3
<1>5. Len(q) - i + 1 \in 1..Len(q) /\ Len(q) - j + 1 \in 1..Len(q) /\ Len(q) - j + 1 < Len(q) - i + 1
  BY <1>0, <1>3
<1>6. q[Len(q) - j + 1].seq > q[Len(q) - i + 1].seq
  BY <1>5 DEF OrderedQueue
<1>7. q[Len(q) - j + 1].seq \in Nat /\ q[Len(q) - i + 1].seq \in Nat
  <2>1. q[Len(q) - j + 1] \in Event /\ q[Len(q) - i + 1] \in Event
    BY <1>5, ElementOfSeq
  <2> QED
    BY <2>1 DEF Event
<1> QED
  BY <1>4, <1>6, <1>7

-----------------------------------------------------------------------------
(***************************************************************************)
(* Responses and steps.                                                    *)
(***************************************************************************)
\* Answering a connection in order keeps all responses in order.
LEMMA RespondInOrder ==
    ASSUME NEW cs \in [Conns -> ConnState], \A c \in Conns : OrderedReply(cs[c].reply),
           NEW c, NEW reply, OrderedReply(reply), NEW d \in Conns
    PROVE  OrderedReply(Respond(cs, c, reply)[d].reply)
BY DEF Respond, Conn

\* session_respond() does, and leaves the session in order.
LEMMA ConnsRespondedInOrder ==
    ASSUME NEW cs \in [Conns -> ConnState], \A c \in Conns : OrderedReply(cs[c].reply),
           NEW session \in Session, NEW n, InOrderSession(session, n)
    PROVE  \A d \in Conns : OrderedReply(ConnsResponded(cs, session)[d].reply)
<1>1. OrderedReply(Rendered(session.queue))
  BY RenderedInOrder DEF InOrderSession, Session
<1> QED
  BY <1>1, RespondInOrder DEF ConnsResponded

\* A session that has responded keeps nothing out of order.
LEMMA SessionRespondedInOrder ==
    ASSUME NEW session \in Session, NEW n, InOrderSession(session, n)
    PROVE  InOrderSession(SessionResponded(session), n)
<1>1. CASE session.conn = NoConn
  BY <1>1 DEF SessionResponded
<1>2. CASE session.conn # NoConn
  <2>1. SessionResponded(session).queue = <<>> /\ SessionResponded(session).id = session.id
    BY <1>2 DEF SessionResponded, Session
  <2> QED
    BY <2>1, EmptyInOrder DEF InOrderSession
<1> QED
  BY <1>1, <1>2

\* event_push() keeps the queues in order.
LEMMA EventPushInOrder ==
    ASSUME TypeOK, QueuesInOrder, NEW type \in PortEventTypes \cup DeviceEventTypes,
           NEW port \in PortIds \cup {NoPort}, event_push(type, port)
    PROVE  QueuesInOrder'
<1>1. CASE ota_busy \/ provisioning
  BY <1>1 DEF event_push, QueuesInOrder
<1>2. CASE ~(ota_busy \/ provisioning)
  <2> DEFINE event == [seq |-> eventCount + 1, type |-> type, port |-> port]
  <2>1. eventCount \in Nat /\ eventCount' = eventCount + 1
    BY <1>2, Bounds DEF event_push, TypeOK
  <2>2. event \in Event /\ event.seq = eventCount + 1
    BY <2>1 DEF Event
  <2>3. \A s \in Slots : sessions'[s] = IF s \in Addressees(type)
                                       THEN [sessions[s] EXCEPT !.queue = session_push(@, event)]
                                       ELSE sessions[s]
    BY <1>2 DEF event_push
  <2> HIDE DEF event
  <2>4. ASSUME NEW s \in Slots PROVE InOrderSession(sessions'[s], eventCount')
    <3>1. sessions[s] \in Session /\ sessions[s].queue \in Seq(Event) /\ InOrderSession(sessions[s], eventCount)
      BY DEF TypeOK, Session, QueuesInOrder
    <3>2. CASE s \in Addressees(type)
      <4> DEFINE q == session_push(sessions[s].queue, event)
      <4>1. OrderedQueue(q) /\ UpTo(q, eventCount + 1)
        BY <2>1, <2>2, <3>1, PushedInOrder DEF InOrderSession
      <4> HIDE DEF q
      <4>2. sessions'[s] = [sessions[s] EXCEPT !.queue = q]
        BY <2>3, <3>2 DEF q
      <4>3. sessions'[s].queue = q /\ sessions'[s].id = sessions[s].id
        BY <3>1, <4>2 DEF Session
      <4>4. sessions[s].id # NoId
        BY <3>2 DEF Addressees, Active
      <4> QED
        BY <2>1, <4>1, <4>3, <4>4 DEF InOrderSession
    <3>3. CASE s \notin Addressees(type)
      <4>1. sessions'[s] = sessions[s]
        BY <2>3, <3>3
      <4>2. \A i \in 1..Len(sessions[s].queue) : sessions[s].queue[i].seq \in Nat
        <5> TAKE i \in 1..Len(sessions[s].queue)
        <5>1. sessions[s].queue[i] \in Event
          BY <3>1, ElementOfSeq
        <5> QED
          BY <5>1 DEF Event
      <4>3. UpTo(sessions[s].queue, eventCount + 1)
        BY <2>1, <3>1, <4>2 DEF InOrderSession, UpTo
      <4> QED
        BY <2>1, <3>1, <4>1, <4>3 DEF InOrderSession
    <3> QED
      BY <3>2, <3>3
  <2> QED
    BY <2>4 DEF QueuesInOrder
<1> QED
  BY <1>1, <1>2

\* At the start there are no events.
LEMMA InitInOrder == Init => QueuesInOrder /\ RepliesOrdered
BY EmptyInOrder DEF Init, QueuesInOrder, RepliesOrdered, InOrderSession, Unused, Conn

\* Every step keeps queues and responses in order.
LEMMA NextInOrder ==
    TypeOK /\ QueuesInOrder /\ RepliesOrdered /\ [Next]_vars => QueuesInOrder' /\ RepliesOrdered'
<1> SUFFICES ASSUME TypeOK, QueuesInOrder, RepliesOrdered, [Next]_vars PROVE QueuesInOrder' /\ RepliesOrdered'
  OBVIOUS
<1>s. \A s \in Slots : sessions[s] \in Session /\ InOrderSession(sessions[s], eventCount)
  BY DEF TypeOK, QueuesInOrder
<1>c. conns \in [Conns -> ConnState] /\ \A c \in Conns : OrderedReply(conns[c].reply)
  BY DEF TypeOK, RepliesOrdered
<1>n. NoId \notin SessionIds
  BY SessionsAssumption DEF SessionsAssumption
<1>d. \A s \in Slots : /\ InOrderSession([sessions[s] EXCEPT !.conn = NoConn, !.timer = TRUE], eventCount)
                      /\ InOrderSession(SessionResponded(sessions[s]), eventCount)
  <2> TAKE s \in Slots
  <2>1. InOrderSession([sessions[s] EXCEPT !.conn = NoConn, !.timer = TRUE], eventCount)
    BY <1>s DEF InOrderSession, Session
  <2> QED
    BY <1>s, <2>1, SessionRespondedInOrder
<1>r. \A s \in Slots, c \in Conns : OrderedReply(ConnsResponded(conns, sessions[s])[c].reply)
  BY <1>s, <1>c, ConnsRespondedInOrder
<1>1. ASSUME NEW c \in Conns, OnTcpConn(c) PROVE QueuesInOrder' /\ RepliesOrdered'
  <2>1. RepliesOrdered'
    BY <1>1, <1>c, EmptyInOrder DEF OnTcpConn, RepliesOrdered, Conn
  <2> QED
    BY <1>1, <2>1 DEF OnTcpConn, QueuesInOrder
<1>2. ASSUME NEW c \in Conns, OnTcpDisc(c) PROVE QueuesInOrder' /\ RepliesOrdered'
  <2>1. RepliesOrdered'
    BY <1>2, <1>c, EmptyInOrder DEF OnTcpDisc, RepliesOrdered, Conn
  <2>2. \A s \in Slots : sessions'[s] = sessions[s] \/ sessions'[s] = [sessions[s] EXCEPT !.conn = NoConn, !.timer = TRUE]
    BY <1>2 DEF OnTcpDisc
  <2> QED
    BY <1>2, <1>s, <1>d, <2>1, <2>2 DEF OnTcpDisc, QueuesInOrder
<1>3. ASSUME NEW c \in Conns, OnOtherRequest(c) \/ OnTrailingByte(c) PROVE QueuesInOrder' /\ RepliesOrdered'
  <2>1. conns' = Respond(conns, c, <<>>) /\ UNCHANGED <<sessions, eventCount>>
    BY <1>3 DEF OnOtherRequest, OnTrailingByte
  <2>2. RepliesOrdered'
    BY <1>c, <2>1, EmptyInOrder, RespondInOrder DEF RepliesOrdered
  <2> QED
    BY <2>1, <2>2 DEF QueuesInOrder
<1>4. ASSUME NEW c \in Conns, OnListenRequest(c) PROVE QueuesInOrder' /\ RepliesOrdered'
  <2>1. PICK id \in SessionIds, access_level \in {VIEWONLY, ADMIN} :
            ListenNewSession(c, id, access_level) \/ ListenAgain(c, id, access_level)
    BY <1>4 DEF OnListenRequest
  <2>2. eventCount' = eventCount
    BY <1>4 DEF OnListenRequest
  <2>3. Conn("listening", <<>>) \in ConnState /\ Conn("listening", <<>>).reply = <<>>
    BY EmptyQueue, ConnType DEF Conn
  <2>4. CASE ListenNewSession(c, id, access_level)
    <3> DEFINE new == [id |-> id, queue |-> <<>>, access_level |-> access_level, conn |-> c, timer |-> TRUE]
    <3>1. InOrderSession(new, eventCount)
      BY EmptyInOrder DEF InOrderSession
    <3>2. FreeSlot \in Slots
      BY FreeSlotProperties
    <3>3. sessions' = [sessions EXCEPT ![FreeSlot] = new]
      BY <2>4 DEF ListenNewSession
    <3> HIDE DEF new
    <3>4. QueuesInOrder'
      BY <1>s, <2>2, <3>1, <3>2, <3>3 DEF QueuesInOrder, TypeOK
    <3> DEFINE cr == ConnsResponded(conns, sessions[FreeSlot])
    <3>5. cr \in [Conns -> ConnState] /\ \A d \in Conns : OrderedReply(cr[d].reply)
      BY <1>s, <1>c, <1>r, <3>2, ConnsRespondedType
    <3>6. conns' = [cr EXCEPT ![c] = Conn("listening", <<>>)]
      BY <2>4 DEF ListenNewSession
    <3> HIDE DEF cr
    <3>7. RepliesOrdered'
      BY <2>3, <3>5, <3>6, EmptyInOrder DEF RepliesOrdered
    <3> QED
      BY <3>4, <3>7
  <2>5. CASE ListenAgain(c, id, access_level)
    <3> DEFINE s         == FindById(id)
               replaced  == SessionResponded(sessions[s])
               continued == [replaced EXCEPT !.conn = c, !.access_level = access_level, !.timer = TRUE]
               cr        == ConnsResponded(conns, sessions[s])
               conns1    == [cr EXCEPT ![c] = Conn("listening", <<>>)]
               last      == SessionResponded(continued)
    <3>1. s \in Slots
      BY <2>5, FindByIdProperties DEF ListenAgain
    <3>2. replaced \in Session /\ InOrderSession(replaced, eventCount)
      BY <1>s, <1>d, <3>1, SessionRespondedType DEF TypeOK, QueuesBounded
    <3>3. continued \in Session /\ InOrderSession(continued, eventCount)
      <4> HIDE DEF replaced
      <4>1. continued \in Session /\ continued.queue = replaced.queue /\ continued.id = replaced.id
        BY <3>2 DEF Session
      <4> QED
        BY <3>2, <4>1 DEF InOrderSession
    <3>4. cr \in [Conns -> ConnState] /\ \A d \in Conns : OrderedReply(cr[d].reply)
      BY <1>s, <1>c, <1>r, <3>1, ConnsRespondedType
    <3>5. \/ sessions' = [sessions EXCEPT ![s] = last] /\ conns' = ConnsResponded(conns1, continued)
          \/ sessions' = [sessions EXCEPT ![s] = continued] /\ conns' = conns1
      BY <2>5 DEF ListenAgain
    <3> HIDE DEF s, continued, cr
    <3>6. conns1 \in [Conns -> ConnState] /\ \A d \in Conns : OrderedReply(conns1[d].reply)
      BY <2>3, <3>4, EmptyInOrder
    <3> HIDE DEF conns1
    <3>7. InOrderSession(last, eventCount)
      BY <3>3, SessionRespondedInOrder
    <3>8. \A d \in Conns : OrderedReply(ConnsResponded(conns1, continued)[d].reply)
      BY <3>3, <3>6, ConnsRespondedInOrder
    <3> HIDE DEF last
    <3>9. QueuesInOrder'
      BY <1>s, <2>2, <3>1, <3>3, <3>5, <3>7 DEF QueuesInOrder, TypeOK
    <3>10. RepliesOrdered'
      BY <3>5, <3>6, <3>8 DEF RepliesOrdered
    <3> QED
      BY <3>9, <3>10
  <2> QED
    BY <2>1, <2>4, <2>5
<1>5. ASSUME NEW port \in PortIds, PushPortEvent(port) \/ AddPort(port) \/ RemovePort(port)
      PROVE  QueuesInOrder' /\ RepliesOrdered'
  <2>1. PICK type \in PortEventTypes : event_push(type, port)
    BY <1>5 DEF PushPortEvent, AddPort, RemovePort, PortEventTypes
  <2>2. conns' = conns
    BY <1>5 DEF PushPortEvent, AddPort, RemovePort
  <2> QED
    BY <2>1, <2>2, EventPushInOrder DEF RepliesOrdered
<1>6. CASE PushDeviceEvent
  <2>1. PICK type \in DeviceEventTypes : event_push(type, NoPort)
    BY <1>6 DEF PushDeviceEvent
  <2>2. conns' = conns
    BY <1>6 DEF PushDeviceEvent
  <2> QED
    BY <2>1, <2>2, EventPushInOrder DEF RepliesOrdered
<1>7. ASSUME NEW s \in Slots, ListenRespondTask(s) PROVE QueuesInOrder' /\ RepliesOrdered'
  <2>1. \/ sessions' = [sessions EXCEPT ![s] = SessionResponded(sessions[s])] /\ conns' = ConnsResponded(conns, sessions[s])
        \/ UNCHANGED <<sessions, conns>>
    BY <1>7 DEF ListenRespondTask
  <2>2. eventCount' = eventCount
    BY <1>7 DEF ListenRespondTask
  <2>3. QueuesInOrder'
    BY <1>s, <1>d, <2>1, <2>2 DEF QueuesInOrder, TypeOK
  <2>4. RepliesOrdered'
    BY <1>c, <1>r, <2>1 DEF RepliesOrdered
  <2> QED
    BY <2>3, <2>4
<1>8. ASSUME NEW s \in Slots, OnSessionTimeout(s) PROVE QueuesInOrder' /\ RepliesOrdered'
  <2>1. \/ sessions' = [sessions EXCEPT ![s] = SessionResponded(sessions[s])] /\ conns' = ConnsResponded(conns, sessions[s])
        \/ sessions' = [sessions EXCEPT ![s] = Unused] /\ conns' = conns
    BY <1>8 DEF OnSessionTimeout
  <2>2. eventCount' = eventCount
    BY <1>8 DEF OnSessionTimeout
  <2>3. InOrderSession(Unused, eventCount)
    BY EmptyInOrder DEF InOrderSession, Unused
  <2>4. QueuesInOrder'
    BY <1>s, <1>d, <2>1, <2>2, <2>3 DEF QueuesInOrder, TypeOK
  <2>5. RepliesOrdered'
    BY <1>c, <1>r, <2>1 DEF RepliesOrdered
  <2> QED
    BY <2>4, <2>5
<1>9. CASE OnSystemReset \/ OnOtaAutoPerform
  <2>1. sessions_respond_all /\ eventCount' = eventCount
    BY <1>9 DEF OnSystemReset, OnOtaAutoPerform
  <2>2. \A c \in Conns : OrderedReply(Respond(conns, c, <<>>)[c].reply)
    BY <1>c, EmptyInOrder, RespondInOrder
  <2>3. RepliesOrdered'
    BY <1>c, <2>1, <2>2 DEF sessions_respond_all, RepliesOrdered
  <2>4. \A s \in Slots : sessions'[s] = sessions[s] \/ sessions'[s] = [sessions[s] EXCEPT !.conn = NoConn, !.timer = TRUE]
    BY <2>1 DEF sessions_respond_all
  <2> QED
    BY <1>s, <1>d, <2>1, <2>3, <2>4 DEF QueuesInOrder
<1>10. CASE OtaChanges \/ ProvisioningChanges \/ UNCHANGED vars
  BY <1>10 DEF OtaChanges, ProvisioningChanges, vars, QueuesInOrder, RepliesOrdered
<1> QED
  BY <1>1, <1>2, <1>3, <1>4, <1>5, <1>6, <1>7, <1>8, <1>9, <1>10 DEF Next

\* Whatever is pushed, deduplicated, dropped and answered, every queue and every
\* response holds its events in the order of their generation, and no queue two
\* similar updates: so the deduplication loop of session_push() never writes
\* through the node that it has freed.
THEOREM OrderCorrect == Spec => []EventsInOrder
<1>1. QueuesInOrder /\ RepliesOrdered => EventsInOrder
  BY DEF QueuesInOrder, RepliesOrdered, InOrderSession, OrderedQueue, OrderedReply, EventsInOrder,
         QueuesConsistent, RepliesInOrder, Active
<1>2. Spec => [](QueuesInOrder /\ RepliesOrdered)
  BY InitInOrder, NextInOrder, TypeCorrect, PTL DEF Spec
<1> QED
  BY <1>1, <1>2, PTL

-----------------------------------------------------------------------------
(***************************************************************************)
(* Sessions with events are answered.                                      *)
(***************************************************************************)
\* The queue has room for a task of every session, whatever is pushed next.
Roomy == Len(tasks) + SessionCount <= TaskQueueSize

\* A session that has something for a client that is there.
Waits(session) == session.conn # NoConn /\ session.queue # <<>>

\* The slots listed in order are all of them, and not too many.
LEMMA InOrderCovers ==
    ASSUME NEW S \in SUBSET Slots, NEW woken \in InOrder(S)
    PROVE  Len(woken) \in Nat /\ Len(woken) <= SessionCount /\ ToSet(woken) = S
<1> DEFINE n == Cardinality(S)
<1>1. SessionCount \in Nat \ {0}
  BY SessionsAssumption DEF SessionsAssumption
<1>2. IsFiniteSet(Slots) /\ Cardinality(Slots) = SessionCount
  <2>1. 0 \in Int /\ SessionCount - 1 \in Int /\ ~(0 > SessionCount - 1)
    BY <1>1
  <2> QED
    BY <1>1, <2>1, FS_Interval DEF Slots
<1>3. IsFiniteSet(S) /\ n <= SessionCount
  BY <1>2, FS_Subset
<1>4. n \in Nat
  BY <1>3, FS_CardinalityType
<1>5. woken \in [1..n -> S] /\ \A i, j \in 1..n : i < j => woken[i] < woken[j]
  BY DEF InOrder
<1> HIDE DEF n
<1>6. woken \in Injection(1..n, S)
  <2>1. S \in SUBSET Nat
    BY SlotsAreNumbers
  <2>2. ASSUME NEW i \in 1..n, NEW j \in 1..n, woken[i] = woken[j]
        PROVE  i = j
    <3>1. woken[i] \in Nat /\ woken[j] \in Nat
      BY <1>5, <2>1
    <3>2. ~(i < j) /\ ~(j < i)
      BY <1>5, <2>2, <3>1
    <3> QED
      BY <1>4, <3>2
  <2>3. IsInjective(woken)
    BY <1>5, <2>2 DEF IsInjective
  <2> QED
    BY <1>5, <2>3 DEF Injection
<1>7. Cardinality(1..n) = n
  <2>1. 1 \in Int /\ n \in Int /\ (1 > n => n = 0)
    BY <1>4
  <2> QED
    BY <1>4, <2>1, FS_Interval
<1>8. woken \in Surjection(1..n, S)
  BY <1>3, <1>6, <1>7, FS_Injection DEF n
<1>9. ToSet(woken) = S
  BY <1>5, <1>8 DEF Surjection, ToSet
<1>10. Len(woken) = n
  BY <1>4, <1>5
<1> QED
  BY <1>3, <1>4, <1>9, <1>10

\* Nothing is dropped where there is room.
LEMMA ScheduledAll ==
    ASSUME NEW q \in Seq(Slots), NEW new \in Seq(Slots), Len(q) + Len(new) <= TaskQueueSize
    PROVE  ToSet(q) \cup ToSet(new) \subseteq ToSet(system_task_schedule(q, new))
<1> DEFINE all == q \o new
           q2  == SubSeq(all, 1, Len(all))
<1>1. Len(q) \in Nat /\ Len(new) \in Nat
  BY LenProperties
<1>2. /\ all \in Seq(Slots) /\ Len(all) = Len(q) + Len(new)
      /\ \A i \in 1..Len(all) : all[i] = IF i <= Len(q) THEN q[i] ELSE new[i - Len(q)]
  BY <1>1, ConcatProperties
<1> HIDE DEF all
<1>3. Len(all) \in Nat /\ \A i \in 1..Len(all) : all[i] \in Slots
  BY <1>1, <1>2, ElementOfSeq
<1>4. q2 \in Seq(Slots) /\ Len(q2) = Len(all) /\ \A i \in 1..Len(all) : q2[i] = all[i]
  BY <1>2, <1>3, SubSeqProperties
<1>5. system_task_schedule(q, new) = q2
  BY <1>1, <1>2 DEF system_task_schedule, all
<1> HIDE DEF q2
<1>6. DOMAIN q = 1..Len(q) /\ DOMAIN new = 1..Len(new) /\ DOMAIN q2 = 1..Len(q2)
  BY <1>4, LenProperties
<1>7. ASSUME NEW i \in 1..Len(q)
      PROVE  q[i] \in ToSet(q2)
  <2>1. i \in 1..Len(all) /\ q2[i] = q[i]
    BY <1>1, <1>2, <1>4
  <2> QED
    BY <1>4, <1>6, <2>1 DEF ToSet
<1>8. ASSUME NEW i \in 1..Len(new)
      PROVE  new[i] \in ToSet(q2)
  <2> DEFINE j == Len(q) + i
  <2>1. j \in 1..Len(all) /\ ~(j <= Len(q)) /\ j - Len(q) = i
    BY <1>1, <1>2
  <2>2. q2[j] = new[i]
    BY <1>2, <1>4, <2>1
  <2> QED
    BY <1>4, <1>6, <2>1, <2>2 DEF ToSet
<1> QED
  BY <1>5, <1>6, <1>7, <1>8 DEF ToSet

\* Taking the first task leaves the others.
LEMMA TakenOne ==
    ASSUME NEW q \in Seq(Slots), q # <<>>, NEW s \in ToSet(q), s # Head(q)
    PROVE  s \in ToSet(Tail(q))
<1>1. /\ Head(q) = q[1] /\ Tail(q) \in Seq(Slots) /\ Len(Tail(q)) = Len(q) - 1
      /\ \A i \in 1..Len(Tail(q)) : Tail(q)[i] = q[i + 1]
  BY HeadTailProperties
<1>2. Len(q) \in Nat /\ DOMAIN q = 1..Len(q) /\ DOMAIN Tail(q) = 1..Len(Tail(q))
  BY <1>1, LenProperties
<1>3. PICK i \in 1..Len(q) : q[i] = s
  BY <1>2 DEF ToSet
<1>4. i # 1
  BY <1>1, <1>3
<1>5. i - 1 \in 1..Len(Tail(q)) /\ (i - 1) + 1 = i
  BY <1>1, <1>2, <1>4
<1>6. Tail(q)[i - 1] = s
  BY <1>1, <1>3, <1>5
<1> QED
  BY <1>2, <1>5, <1>6 DEF ToSet

\* event_push() posts a task for every session that has a client.
LEMMA EventPushWakes ==
    ASSUME TypeOK, Roomy, NoLostWakeup, NEW type, NEW port, event_push(type, port)
    PROVE  NoLostWakeup'
<1>1. CASE ota_busy \/ provisioning
  BY <1>1 DEF event_push, NoLostWakeup
<1>2. CASE ~(ota_busy \/ provisioning)
  <2> DEFINE W == {s \in Addressees(type) : sessions[s].conn # NoConn}
  <2>1. PICK woken \in InOrder(W) : tasks' = system_task_schedule(tasks, woken)
    BY <1>2 DEF event_push
  <2>2. W \in SUBSET Slots
    BY DEF Addressees
  <2>3. \A s \in Slots : s \notin Addressees(type) => sessions'[s] = sessions[s]
    BY <1>2 DEF event_push
  <2>4. \A s \in Slots : sessions'[s].conn = sessions[s].conn
    BY EventPushKeepsSessions
  <2>5. \A s \in Slots : sessions'[s].conn # NoConn /\ sessions'[s].queue # <<>> => s \in ToSet(tasks) \/ s \in W
    BY <2>3, <2>4 DEF NoLostWakeup
  <2> HIDE DEF W
  <2>6. woken \in Seq(Slots) /\ Len(woken) \in Nat /\ Len(woken) <= SessionCount /\ ToSet(woken) = W
    BY <2>1, <2>2, InOrderType, InOrderCovers
  <2>7. tasks \in Seq(Slots) /\ Len(tasks) \in Nat /\ SessionCount \in Nat /\ TaskQueueSize \in Nat
    BY LenProperties, SessionsAssumption, Bounds DEF TypeOK, SessionsAssumption
  <2>8. Len(tasks) + Len(woken) <= TaskQueueSize
    BY <2>6, <2>7 DEF Roomy
  <2>9. ToSet(tasks) \cup W \subseteq ToSet(tasks')
    BY <2>1, <2>6, <2>7, <2>8, ScheduledAll
  <2> QED
    BY <2>5, <2>9 DEF NoLostWakeup
<1> QED
  BY <1>1, <1>2

\* Steps that leave the tasks alone and give no session something to wait for.
LEMMA SameWaits ==
    ASSUME NoLostWakeup, tasks' = tasks, \A s \in Slots : Waits(sessions'[s]) => Waits(sessions[s])
    PROVE  NoLostWakeup'
BY DEF NoLostWakeup, Waits

LEMMA AnsweredWaits ==
    ASSUME NEW session \in Session
    PROVE  ~Waits(SessionResponded(session))
BY RespondedKeepsSession DEF Waits

LEMMA NextWoken == TypeOK /\ Roomy /\ NoLostWakeup /\ [Next]_vars => NoLostWakeup'
<1> SUFFICES ASSUME TypeOK, Roomy, NoLostWakeup, [Next]_vars PROVE NoLostWakeup'
  OBVIOUS
<1>s. sessions \in [Slots -> Session] /\ \A s \in Slots : sessions[s] \in Session
  BY DEF TypeOK
<1>1. ASSUME NEW c \in Conns, OnTcpConn(c) \/ OnOtherRequest(c) \/ OnTrailingByte(c) PROVE NoLostWakeup'
  BY <1>1, SameWaits DEF OnTcpConn, OnOtherRequest, OnTrailingByte
<1>2. ASSUME NEW c \in Conns, OnTcpDisc(c) PROVE NoLostWakeup'
  <2>1. \A s \in Slots : sessions'[s] = sessions[s] \/ sessions'[s] = [sessions[s] EXCEPT !.conn = NoConn, !.timer = TRUE]
    BY <1>2 DEF OnTcpDisc
  <2>2. \A s \in Slots : Waits(sessions'[s]) => Waits(sessions[s])
    BY <1>s, <2>1 DEF Waits, Session
  <2> QED
    BY <1>2, <2>2, SameWaits DEF OnTcpDisc
<1>3. ASSUME NEW c \in Conns, OnListenRequest(c) PROVE NoLostWakeup'
  <2>1. PICK id \in SessionIds, access_level \in {VIEWONLY, ADMIN} :
            ListenNewSession(c, id, access_level) \/ ListenAgain(c, id, access_level)
    BY <1>3 DEF OnListenRequest
  <2>2. tasks' = tasks
    BY <1>3 DEF OnListenRequest
  <2>3. CASE ListenNewSession(c, id, access_level)
    <3> DEFINE new == [id |-> id, queue |-> <<>>, access_level |-> access_level, conn |-> c, timer |-> TRUE]
    <3>1. sessions' = [sessions EXCEPT ![FreeSlot] = new] /\ ~Waits(new)
      BY <2>3 DEF ListenNewSession, Waits
    <3> HIDE DEF new
    <3>2. \A s \in Slots : Waits(sessions'[s]) => Waits(sessions[s])
      BY <1>s, <3>1
    <3> QED
      BY <2>2, <3>2, SameWaits
  <2>4. CASE ListenAgain(c, id, access_level)
    <3> DEFINE s         == FindById(id)
               replaced  == SessionResponded(sessions[s])
               continued == [replaced EXCEPT !.conn = c, !.access_level = access_level, !.timer = TRUE]
    <3>1. s \in Slots
      BY <2>4, FindByIdProperties DEF ListenAgain
    <3>2. replaced \in Session
      BY <1>s, <3>1, SessionRespondedType DEF TypeOK, QueuesBounded
    <3>3. \/ sessions' = [sessions EXCEPT ![s] = SessionResponded(continued)]
          \/ sessions' = [sessions EXCEPT ![s] = continued] /\ continued.queue = <<>>
      BY <2>4 DEF ListenAgain
    <3> HIDE DEF s, replaced
    <3>4. continued \in Session
      BY <3>2 DEF Session
    <3> HIDE DEF continued
    <3>5. \A t \in Slots : Waits(sessions'[t]) => Waits(sessions[t])
      <4>1. CASE sessions' = [sessions EXCEPT ![s] = SessionResponded(continued)]
        BY <1>s, <3>1, <3>4, <4>1, AnsweredWaits
      <4>2. CASE sessions' = [sessions EXCEPT ![s] = continued] /\ continued.queue = <<>>
        BY <1>s, <3>1, <4>2 DEF Waits
      <4> QED
        BY <3>3, <4>1, <4>2
    <3> QED
      BY <2>2, <3>5, SameWaits
  <2> QED
    BY <2>1, <2>3, <2>4
<1>4. ASSUME NEW type, NEW port, event_push(type, port) PROVE NoLostWakeup'
  BY <1>4, EventPushWakes
<1>5. ASSUME NEW s \in Slots, ListenRespondTask(s) PROVE NoLostWakeup'
  <2>1. /\ tasks # <<>> /\ Head(tasks) = s /\ tasks' = Tail(tasks)
        /\ \/ sessions' = [sessions EXCEPT ![s] = SessionResponded(sessions[s])]
           \/ sessions[s].queue = <<>> /\ sessions' = sessions
    BY <1>5 DEF ListenRespondTask
  <2>2. ~Waits(sessions'[s])
    BY <1>s, <2>1, AnsweredWaits DEF Waits
  <2>3. \A t \in Slots : t # s => sessions'[t] = sessions[t]
    BY <1>s, <2>1
  <2>4. tasks \in Seq(Slots)
    BY DEF TypeOK
  <2>5. ASSUME NEW t \in Slots, Waits(sessions'[t])
        PROVE  t \in ToSet(tasks')
    <3>1. t # s /\ t \in ToSet(tasks)
      BY <2>2, <2>3, <2>5 DEF NoLostWakeup, Waits
    <3> QED
      BY <2>1, <2>4, <3>1, TakenOne
  <2> QED
    BY <2>5 DEF NoLostWakeup, Waits
<1>6. ASSUME NEW s \in Slots, OnSessionTimeout(s) PROVE NoLostWakeup'
  <2>1. sessions' = [sessions EXCEPT ![s] = SessionResponded(sessions[s])] \/ sessions' = [sessions EXCEPT ![s] = Unused]
    BY <1>6 DEF OnSessionTimeout
  <2>2. ~Waits(Unused) /\ ~Waits(SessionResponded(sessions[s]))
    BY <1>s, AnsweredWaits DEF Waits, Unused
  <2>3. \A t \in Slots : Waits(sessions'[t]) => Waits(sessions[t])
    BY <1>s, <2>1, <2>2
  <2> QED
    BY <1>6, <2>3, SameWaits DEF OnSessionTimeout
<1>7. CASE OnSystemReset \/ OnOtaAutoPerform
  <2>1. sessions_respond_all /\ tasks' = tasks
    BY <1>7 DEF OnSystemReset, OnOtaAutoPerform
  <2>2. \A s \in Slots : sessions'[s] = sessions[s] \/ sessions'[s] = [sessions[s] EXCEPT !.conn = NoConn, !.timer = TRUE]
    BY <2>1 DEF sessions_respond_all
  <2>3. \A s \in Slots : Waits(sessions'[s]) => Waits(sessions[s])
    BY <1>s, <2>2 DEF Waits, Session
  <2> QED
    BY <2>1, <2>3, SameWaits
<1>8. CASE OtaChanges \/ ProvisioningChanges \/ UNCHANGED vars
  BY <1>8, SameWaits DEF OtaChanges, ProvisioningChanges, vars
<1> QED
  BY <1>1, <1>2, <1>3, <1>4, <1>5, <1>6, <1>7, <1>8
     DEF Next, PushPortEvent, AddPort, RemovePort, PushDeviceEvent

\* As long as the task queue has room for a task of every session, a session
\* that has both a client and events has a task that will answer it, whatever
\* was pushed, answered, disconnected or taken over in between
\* (sessions_push_event(), core_task_handler(), on_http_request()).
THEOREM WokenWhenRoomy == Spec /\ []Roomy => []NoLostWakeup
<1>1. Init => NoLostWakeup
  BY DEF Init, NoLostWakeup, Unused
<1> QED
  BY <1>1, NextWoken, TypeCorrect, PTL DEF Spec

-----------------------------------------------------------------------------
(***************************************************************************)
(* Where the events of a queue go.                                         *)
(***************************************************************************)
Fate(s, i) == \/ Kept(s, i) \/ Delivered(s, i) \/ SuppliedLate(s, i)
              \/ Superseded(s, i) \/ Overflowed(s, i) \/ Forgotten(s)

Accounted(s) == \A i \in 1..Len(sessions[s].queue) : Fate(s, i)

\* The elements of a queue are at its positions.
LEMMA AtPosition ==
    ASSUME NEW S, NEW q \in Seq(S)
    PROVE  Len(q) \in Nat /\ \A i \in 1..Len(q) : q[i] \in ToSet(q)
BY LenProperties DEF ToSet

\* The new event, and those before it.
LEMMA ConsElements ==
    ASSUME NEW e \in Event, NEW r \in Seq(Event)
    PROVE  /\ Len(Cons(e, r)) = 1 + Len(r) /\ e \in ToSet(Cons(e, r))
           /\ \A i \in 1..Len(r) : r[i] \in ToSet(Cons(e, r))
<1> DEFINE p == <<e>> \o r
<1>1. <<e>> \in Seq(Event) /\ Len(<<e>>) = 1 /\ <<e>>[1] = e /\ Len(r) \in Nat
  BY LenProperties
<1>2. /\ p \in Seq(Event) /\ Len(p) = 1 + Len(r)
      /\ \A i \in 1..(1 + Len(r)) : p[i] = IF i <= 1 THEN <<e>>[i] ELSE r[i - 1]
  BY <1>1, ConcatProperties
<1> HIDE DEF p
<1>3. p[1] = e /\ 1 \in 1..Len(p)
  BY <1>1, <1>2
<1>4. \A i \in 1..Len(p) : p[i] \in ToSet(p)
  BY <1>2, AtPosition
<1>5. ASSUME NEW i \in 1..Len(r)
      PROVE  r[i] \in ToSet(p)
  <2>1. i + 1 \in 1..Len(p) /\ ~(i + 1 <= 1) /\ (i + 1) - 1 = i
    BY <1>1, <1>2
  <2>2. p[i + 1] = r[i]
    BY <1>2, <2>1
  <2> QED
    BY <1>4, <2>1, <2>2
<1> QED
  BY <1>2, <1>3, <1>4, <1>5 DEF p, Cons

\* session_push() keeps an event, replaces it by a similar one, or drops it as
\* the oldest of a full queue.
LEMMA PushedFates ==
    ASSUME NEW q \in Seq(Event), Len(q) <= MaxQueueLen, NEW e \in Event, NEW i \in 1..Len(q)
    PROVE  LET p == session_push(q, e)
           IN  \/ q[i] \in ToSet(p)
               \/ Similar(q[i], e) /\ e \in ToSet(p)
               \/ i = Len(q) /\ i = MaxQueueLen /\ Len(p) = MaxQueueLen
<1> DEFINE similar == {j \in 1..Len(q) : Similar(q[j], e)}
           w       == WithoutSimilar(q, e)
           r       == MakeRoom(w)
           p       == session_push(q, e)
<1>1. Len(q) \in Nat /\ MaxQueueLen \in Nat \ {0}
  BY LenProperties, Bounds
<1>2. p = Cons(e, r)
  BY DEF session_push
<1>3. CASE similar = {}
  <2>1. w = q
    BY <1>3 DEF WithoutSimilar
  <2>2. CASE Len(q) >= MaxQueueLen
    <3> DEFINE m == Len(q) - 1
    <3>1. m \in Nat /\ \A j \in 1..m : q[j] \in Event
      BY <1>1, <2>2, ElementOfSeq
    <3>2. r = SubSeq(q, 1, m)
      BY <2>1, <2>2 DEF MakeRoom, Front
    <3> HIDE DEF m, r, w, p
    <3>3. r \in Seq(Event) /\ Len(r) = m /\ \A j \in 1..m : r[j] = q[j]
      BY <3>1, <3>2, SubSeqProperties
    <3>4. CASE i = Len(q)
      <4>1. i = MaxQueueLen
        BY <1>1, <2>2, <3>4
      <4>2. Len(p) = 1 + m
        BY <1>2, <3>3, ConsElements
      <4>3. 1 + m = MaxQueueLen
        BY <1>1, <3>4, <4>1 DEF m
      <4> QED
        BY <3>4, <4>1, <4>2, <4>3 DEF p
    <3>5. CASE i # Len(q)
      <4>1. i \in 1..m
        BY <1>1, <3>5 DEF m
      <4>2. r[i] \in ToSet(p) /\ r[i] = q[i]
        BY <1>2, <3>3, <4>1, ConsElements
      <4> QED
        BY <4>2 DEF p
    <3> QED
      BY <3>4, <3>5
  <2>3. CASE ~(Len(q) >= MaxQueueLen)
    <3>1. r = q
      BY <2>1, <2>3 DEF MakeRoom
    <3> QED
      BY <1>2, <3>1, ConsElements
  <2> QED
    BY <2>2, <2>3
<1>4. CASE similar # {}
  <2> DEFINE k == CHOOSE j \in similar : TRUE
  <2>1. k \in 1..Len(q) /\ Similar(q[k], e)
    BY <1>4
  <2>2. w = RemoveAt(q, k)
    BY <1>4 DEF WithoutSimilar
  <2> HIDE DEF k, w
  <2>3. w \in Seq(Event) /\ Len(w) = Len(q) - 1
    BY <2>1, <2>2, RemoveAtProperties
  <2>4. r = w
    BY <1>1, <2>3 DEF MakeRoom
  <2> HIDE DEF r, p
  <2>5. e \in ToSet(p) /\ \A j \in 1..Len(w) : w[j] \in ToSet(p)
    BY <1>2, <2>3, <2>4, ConsElements
  <2>6. \A j \in 1..(Len(q) - 1) : w[j] = IF j < k THEN q[j] ELSE q[j + 1]
    BY <2>1, <2>2, RemoveAtElements
  <2>7. CASE i = k
    BY <2>1, <2>5, <2>7 DEF p
  <2>8. CASE i < k
    <3>1. i \in 1..(Len(q) - 1)
      BY <1>1, <2>1, <2>8
    <3>2. w[i] = q[i] /\ w[i] \in ToSet(p)
      BY <2>3, <2>5, <2>6, <2>8, <3>1
    <3> QED
      BY <3>2 DEF p
  <2>9. CASE i > k
    <3>1. i - 1 \in 1..(Len(q) - 1) /\ ~(i - 1 < k) /\ (i - 1) + 1 = i
      BY <1>1, <2>1, <2>9
    <3>2. w[i - 1] = q[i] /\ w[i - 1] \in ToSet(p)
      BY <2>3, <2>5, <2>6, <3>1
    <3> QED
      BY <3>2 DEF p
  <2> QED
    BY <1>1, <2>1, <2>7, <2>8, <2>9
<1> QED
  BY <1>3, <1>4

\* A response has all the events that can be rendered.
LEMMA RenderedAll ==
    ASSUME NEW q \in Seq(Event), NEW i \in 1..Len(q)
    PROVE  q[i] \in ToSet(Rendered(q)) \/ ~Renderable(q[i])
<1> DEFINE r == Rendered(q)
           j == Len(q) - i + 1
<1>1. Len(q) \in Nat
  BY LenProperties
<1>2. r \in Seq(Event) /\ Len(r) = Len(q) /\ DOMAIN r = 1..Len(q)
  BY <1>1, RenderedType DEF Rendered
<1>3. j \in 1..Len(q) /\ Len(q) - j + 1 = i
  BY <1>1
<1>4. r[j] = IF Renderable(q[Len(q) - j + 1]) THEN q[Len(q) - j + 1] ELSE Omitted
  <2> HIDE DEF j
  <2> QED
    BY <1>3 DEF Rendered
<1> HIDE DEF r, j
<1>5. r[j] \in ToSet(r)
  BY <1>2, <1>3 DEF ToSet
<1> QED
  BY <1>3, <1>4, <1>5 DEF r

\* A queue that does not change loses nothing.
LEMMA SameQueue ==
    ASSUME TypeOK, NEW s \in Slots, sessions'[s].queue = sessions[s].queue
    PROVE  Accounted(s)
<1>1. sessions[s].queue \in Seq(Event)
  BY DEF TypeOK, Session
<1> QED
  BY <1>1, AtPosition DEF Accounted, Fate, Kept

\* An empty one has nothing to lose.
LEMMA EmptyAccounted ==
    ASSUME NEW s \in Slots, sessions[s].queue = <<>>
    PROVE  Accounted(s)
BY EmptySeq DEF Accounted

\* session_respond() answers the client that waits.
LEMMA ClientAnswered ==
    ASSUME TypeOK, ListenersAttached, NEW s \in Slots, sessions[s].conn # NoConn
    PROVE  LET c == sessions[s].conn
           IN  /\ c \in Conns /\ conns[c].state = "listening"
               /\ ConnsResponded(conns, sessions[s]) = [conns EXCEPT ![c] = Conn("answered", Rendered(sessions[s].queue))]
BY DEF TypeOK, Session, ListenersAttached, ConnsResponded, Respond

LEMMA AnsweredAccounted ==
    ASSUME TypeOK, ListenersAttached, NEW s \in Slots, sessions[s].conn # NoConn,
           conns'[sessions[s].conn] = Conn("answered", Rendered(sessions[s].queue))
    PROVE  Accounted(s)
<1> DEFINE c == sessions[s].conn
<1>1. sessions[s].queue \in Seq(Event) /\ conns[c].state = "listening"
  BY ClientAnswered DEF TypeOK, Session
<1>2. conns'[c].state = "answered" /\ conns'[c].reply = Rendered(sessions[s].queue)
  BY DEF Conn
<1>3. ASSUME NEW i \in 1..Len(sessions[s].queue)
      PROVE  Delivered(s, i)
  <2>1. sessions[s].queue[i] \in ToSet(Rendered(sessions[s].queue)) \/ ~Renderable(sessions[s].queue[i])
    BY <1>1, RenderedAll
  <2> QED
    BY <1>1, <1>2, <2>1 DEF Delivered
<1> QED
  BY <1>3 DEF Accounted, Fate

\* session_respond() on slot s, and nothing else.
LEMMA RespondAccounted ==
    ASSUME TypeOK, ListenersAttached, NEW s \in Slots,
           sessions' = [sessions EXCEPT ![s] = SessionResponded(sessions[s])],
           conns' = ConnsResponded(conns, sessions[s])
    PROVE  \A t \in Slots : Accounted(t)
<1> SUFFICES ASSUME NEW t \in Slots
             PROVE  Accounted(t)
  OBVIOUS
<1>1. sessions \in [Slots -> Session] /\ conns \in [Conns -> ConnState]
  BY DEF TypeOK
<1>2. CASE t # s \/ sessions[s].conn = NoConn
  <2>1. sessions'[t] = sessions[t]
    BY <1>1, <1>2 DEF SessionResponded
  <2> QED
    BY <2>1, SameQueue
<1>3. CASE t = s /\ sessions[s].conn # NoConn
  <2>1. conns'[sessions[s].conn] = Conn("answered", Rendered(sessions[s].queue))
    BY <1>1, <1>3, ClientAnswered
  <2> QED
    BY <1>3, <2>1, AnsweredAccounted
<1> QED
  BY <1>2, <1>3

\* event_push() adds an event to queues.
LEMMA EventPushAccounted ==
    ASSUME TypeOK, NEW type \in PortEventTypes \cup DeviceEventTypes, NEW port \in PortIds \cup {NoPort},
           event_push(type, port)
    PROVE  \A s \in Slots : Accounted(s)
<1> SUFFICES ASSUME NEW s \in Slots
             PROVE  Accounted(s)
  OBVIOUS
<1>1. CASE ota_busy \/ provisioning \/ s \notin Addressees(type)
  <2>1. sessions'[s] = sessions[s]
    BY <1>1 DEF event_push
  <2> QED
    BY <2>1, SameQueue
<1>2. CASE ~(ota_busy \/ provisioning) /\ s \in Addressees(type)
  <2> DEFINE event == [seq |-> eventCount + 1, type |-> type, port |-> port]
             q     == sessions[s].queue
             p     == session_push(q, event)
  <2>1. event \in Event /\ event.seq = eventCount + 1
    BY Bounds DEF TypeOK, Event
  <2>2. sessions[s] \in Session /\ q \in Seq(Event) /\ Len(q) <= MaxQueueLen
    BY DEF TypeOK, QueuesBounded, Session
  <2>3. sessions'[s] = [sessions[s] EXCEPT !.queue = p]
    BY <1>2 DEF event_push
  <2> HIDE DEF event, q
  <2>6. ASSUME NEW i \in 1..Len(q)
        PROVE  \/ q[i] \in ToSet(p)
               \/ Similar(q[i], event) /\ event \in ToSet(p)
               \/ i = Len(q) /\ i = MaxQueueLen /\ Len(p) = MaxQueueLen
    BY <2>1, <2>2, PushedFates
  <2> HIDE DEF p
  <2>4. sessions'[s].queue = p
    BY <2>2, <2>3 DEF Session
  <2>5. ASSUME NEW i \in 1..Len(q)
        PROVE  Fate(s, i)
    BY <2>1, <2>4, <2>5, <2>6 DEF Fate, Kept, Superseded, Overflowed, q
  <2> QED
    BY <2>5 DEF Accounted, q
<1> QED
  BY <1>1, <1>2

\* A new session takes a free slot, which has no events, or answers, or ends,
\* the session of slot 0.
LEMMA NewSessionAccounted ==
    ASSUME TypeOK, ListenersAttached, QueuesInOrder, NEW c \in Conns, conns[c].state = "open",
           NEW id \in SessionIds, NEW access_level, ListenNewSession(c, id, access_level)
    PROVE  \A s \in Slots : Accounted(s)
<1> SUFFICES ASSUME NEW s \in Slots
             PROVE  Accounted(s)
  OBVIOUS
<1> DEFINE new == [id |-> id, queue |-> <<>>, access_level |-> access_level, conn |-> c, timer |-> TRUE]
           cr  == ConnsResponded(conns, sessions[FreeSlot])
<1>1. /\ sessions' = [sessions EXCEPT ![FreeSlot] = new] /\ new.id = id
      /\ conns' = [cr EXCEPT ![c] = Conn("listening", <<>>)] /\ sessions[s].id # id
  BY DEF ListenNewSession
<1> HIDE DEF new
<1>2. sessions \in [Slots -> Session] /\ conns \in [Conns -> ConnState] /\ FreeSlot \in Slots
  BY FreeSlotProperties DEF TypeOK
<1>3. CASE s # FreeSlot
  <2>1. sessions'[s] = sessions[s]
    BY <1>1, <1>2, <1>3
  <2> QED
    BY <2>1, SameQueue
<1>4. CASE s = FreeSlot /\ sessions[s].conn # NoConn
  <2> DEFINE d == sessions[s].conn
  <2>1. /\ d \in Conns /\ conns[d].state = "listening"
        /\ cr = [conns EXCEPT ![d] = Conn("answered", Rendered(sessions[s].queue))]
    BY <1>4, ClientAnswered
  <2>2. d # c
    BY <2>1
  <2> HIDE DEF d, cr
  <2>3. conns'[d] = Conn("answered", Rendered(sessions[s].queue))
    BY <1>1, <1>2, <2>1, <2>2
  <2> QED
    BY <1>4, <2>3, AnsweredAccounted DEF d
<1>5. CASE s = FreeSlot /\ sessions[s].conn = NoConn
  <2>1. sessions'[s].id = id
    BY <1>1, <1>2, <1>5
  <2>2. Forgotten(s)
    BY <1>1, <1>5, <2>1 DEF Forgotten
  <2> QED
    BY <2>2 DEF Accounted, Fate
<1> QED
  BY <1>3, <1>4, <1>5

\* A client that comes back gets the events at once, or the one that waits does.
LEMMA ListenAgainAccounted ==
    ASSUME TypeOK, ListenersAttached, NEW c \in Conns, conns[c].state = "open",
           NEW id \in SessionIds, NEW access_level \in {VIEWONLY, ADMIN}, ListenAgain(c, id, access_level)
    PROVE  \A s \in Slots : Accounted(s)
<1> SUFFICES ASSUME NEW t \in Slots
             PROVE  Accounted(t)
  OBVIOUS
<1> DEFINE s         == FindById(id)
           replaced  == SessionResponded(sessions[s])
           continued == [replaced EXCEPT !.conn = c, !.access_level = access_level, !.timer = TRUE]
           cr        == ConnsResponded(conns, sessions[s])
           conns1    == [cr EXCEPT ![c] = Conn("listening", <<>>)]
           last      == SessionResponded(continued)
<1>1. s \in Slots
  BY FindByIdProperties DEF ListenAgain
<1>2. /\ sessions \in [Slots -> Session] /\ conns \in [Conns -> ConnState] /\ sessions[s] \in Session
      /\ c # NoConn /\ sessions[s].queue \in Seq(Event)
  BY <1>1, SessionsAssumption DEF TypeOK, SessionsAssumption, Session
<1>3. \/ continued.queue # <<>> /\ sessions' = [sessions EXCEPT ![s] = last] /\ conns' = ConnsResponded(conns1, continued)
      \/ continued.queue = <<>> /\ sessions' = [sessions EXCEPT ![s] = continued] /\ conns' = conns1
  BY DEF ListenAgain
<1>4. replaced \in Session
  BY <1>1, <1>2, SessionRespondedType DEF TypeOK, QueuesBounded
<1>5. replaced.queue = IF sessions[s].conn = NoConn THEN sessions[s].queue ELSE <<>>
  BY <1>2 DEF SessionResponded, Session
<1> HIDE DEF s, replaced
<1>6. continued \in Session /\ continued.queue = replaced.queue /\ continued.conn = c
  BY <1>4 DEF Session
<1> HIDE DEF continued
<1>7. last.conn = NoConn
  BY <1>6, RespondedKeepsSession
<1> HIDE DEF last, cr
<1>8. CASE t # s
  <2>1. sessions'[t] = sessions[t]
    BY <1>2, <1>3, <1>8
  <2> QED
    BY <2>1, SameQueue
<1>9. CASE t = s /\ sessions[s].conn # NoConn
  <2> DEFINE d == sessions[s].conn
  <2>1. /\ d \in Conns /\ conns[d].state = "listening"
        /\ cr = [conns EXCEPT ![d] = Conn("answered", Rendered(sessions[s].queue))]
    BY <1>1, <1>9, ClientAnswered DEF cr
  <2>2. d # c
    BY <2>1
  <2> HIDE DEF d
  <2>3. conns' = conns1
    BY <1>3, <1>5, <1>6, <1>9
  <2>4. conns'[d] = Conn("answered", Rendered(sessions[s].queue))
    BY <1>2, <2>1, <2>2, <2>3
  <2> QED
    BY <1>9, <2>4, AnsweredAccounted DEF d
<1>10. CASE t = s /\ sessions[s].conn = NoConn /\ sessions[s].queue = <<>>
  BY <1>10, EmptyAccounted
<1>11. CASE t = s /\ sessions[s].conn = NoConn /\ sessions[s].queue # <<>>
  <2>1. sessions' = [sessions EXCEPT ![s] = last] /\ conns' = ConnsResponded(conns1, continued)
    BY <1>3, <1>5, <1>6, <1>11
  <2>2. sessions'[s].conn = NoConn
    BY <1>1, <1>2, <1>7, <2>1
  <2>3. cr = conns
    <3>1. NoConn \notin Conns
      BY SessionsAssumption DEF SessionsAssumption
    <3> QED
      BY <1>11, <3>1 DEF cr, ConnsResponded, Respond
  <2>4. conns1 \in [Conns -> ConnState] /\ conns1[c] = Conn("listening", <<>>) /\ conns1[c].state = "listening"
    BY <1>2, <2>3, EmptyQueue, ConnType DEF Conn
  <2> HIDE DEF conns1
  <2>5. conns' = [conns1 EXCEPT ![c] = Conn("answered", Rendered(sessions[s].queue))]
    BY <1>5, <1>6, <1>11, <2>1, <2>4 DEF ConnsResponded, Respond
  <2>6. conns'[c].state = "answered" /\ conns'[c].reply = Rendered(sessions[s].queue)
    BY <2>4, <2>5 DEF Conn
  <2>7. ASSUME NEW i \in 1..Len(sessions[s].queue)
        PROVE  SuppliedLate(s, i)
    <3>1. sessions[s].queue[i] \in ToSet(Rendered(sessions[s].queue)) \/ ~Renderable(sessions[s].queue[i])
      BY <1>2, RenderedAll
    <3> QED
      BY <1>11, <2>2, <2>6, <3>1 DEF SuppliedLate
  <2> QED
    BY <1>11, <2>7 DEF Accounted, Fate
<1> QED
  BY <1>8, <1>9, <1>10, <1>11

\* Every step accounts for the events of every queue.
LEMMA NextAccounted ==
    TypeOK /\ ListenersAttached /\ TimerPerSession /\ QueuesInOrder /\ [Next]_vars
    => \A s \in Slots : Accounted(s)
<1> SUFFICES ASSUME TypeOK, ListenersAttached, TimerPerSession, QueuesInOrder, [Next]_vars
             PROVE  \A s \in Slots : Accounted(s)
  OBVIOUS
<1>s. sessions \in [Slots -> Session] /\ \A s \in Slots : sessions[s] \in Session
  BY DEF TypeOK
<1>1. ASSUME UNCHANGED sessions PROVE \A s \in Slots : Accounted(s)
  BY <1>1, SameQueue
<1>2. ASSUME \A s \in Slots : sessions'[s] = sessions[s] \/ sessions'[s] = [sessions[s] EXCEPT !.conn = NoConn, !.timer = TRUE]
      PROVE  \A s \in Slots : Accounted(s)
  <2>1. \A s \in Slots : sessions'[s].queue = sessions[s].queue
    BY <1>s, <1>2 DEF Session
  <2> QED
    BY <2>1, SameQueue
<1>3. ASSUME NEW c \in Conns, OnListenRequest(c) PROVE \A s \in Slots : Accounted(s)
  BY <1>3, NewSessionAccounted, ListenAgainAccounted DEF OnListenRequest
<1>4. ASSUME NEW s \in Slots, ListenRespondTask(s) PROVE \A t \in Slots : Accounted(t)
  BY <1>1, <1>4, RespondAccounted DEF ListenRespondTask
<1>5. ASSUME NEW s \in Slots, OnSessionTimeout(s) PROVE \A t \in Slots : Accounted(t)
  <2>1. CASE sessions[s].conn # NoConn
    BY <1>5, <2>1, RespondAccounted DEF OnSessionTimeout
  <2>2. CASE sessions[s].conn = NoConn
    <3>1. sessions' = [sessions EXCEPT ![s] = Unused] /\ sessions[s].timer
      BY <1>5, <2>2 DEF OnSessionTimeout
    <3>2. sessions'[s].id # sessions[s].id
      BY <1>s, <3>1 DEF TimerPerSession, Active, Unused
    <3>3. Accounted(s)
      BY <2>2, <3>2 DEF Accounted, Fate, Forgotten
    <3>4. \A t \in Slots : t # s => Accounted(t)
      BY <1>s, <3>1, SameQueue
    <3> QED
      BY <3>3, <3>4
  <2> QED
    BY <2>1, <2>2
<1>6. ASSUME NEW port \in PortIds, PushPortEvent(port) \/ AddPort(port) \/ RemovePort(port)
      PROVE  \A s \in Slots : Accounted(s)
  <2>1. PICK type \in PortEventTypes : event_push(type, port)
    BY <1>6 DEF PushPortEvent, AddPort, RemovePort, PortEventTypes
  <2> QED
    BY <2>1, EventPushAccounted
<1>7. CASE PushDeviceEvent
  <2>1. PICK type \in DeviceEventTypes : event_push(type, NoPort)
    BY <1>7 DEF PushDeviceEvent
  <2> QED
    BY <2>1, EventPushAccounted
<1>8. CASE OnSystemReset \/ OnOtaAutoPerform
  BY <1>2, <1>8 DEF OnSystemReset, OnOtaAutoPerform, sessions_respond_all
<1>9. ASSUME NEW c \in Conns, OnTcpDisc(c) PROVE \A s \in Slots : Accounted(s)
  BY <1>2, <1>9 DEF OnTcpDisc
<1>10. ASSUME NEW c \in Conns, OnTcpConn(c) \/ OnOtherRequest(c) \/ OnTrailingByte(c)
       PROVE  \A s \in Slots : Accounted(s)
  BY <1>1, <1>10 DEF OnTcpConn, OnOtherRequest, OnTrailingByte
<1>11. CASE OtaChanges \/ ProvisioningChanges \/ UNCHANGED vars
  BY <1>1, <1>11 DEF OtaChanges, ProvisioningChanges, vars
<1> QED
  BY <1>3, <1>4, <1>5, <1>6, <1>7, <1>8, <1>9, <1>10, <1>11 DEF Next

\* As long as clients send nothing after a request, no event is lost unnoticed:
\* it leaves its queue to the client that waits or to the one that comes back,
\* to make way for a similar newer event, as the oldest of a full queue, or with
\* a session that nobody waits for (session_push(), session_respond(),
\* on_session_timeout(), on_http_request()).
THEOREM NothingLost == NoTrailingBytes => (Spec => NoSilentLoss)
<1>1. NoTrailingBytes \in BOOLEAN
  BY DEF NoTrailingBytes
<1>2. SUFFICES ASSUME NoTrailingBytes PROVE Spec => NoSilentLoss
  OBVIOUS
<1>3. Spec => []ListenersAttached
  BY <1>2, AttachedCorrect
<1>4. Spec => []QueuesInOrder
  BY InitInOrder, NextInOrder, TypeCorrect, PTL DEF Spec
<1>5. TypeOK /\ ListenersAttached /\ TimerPerSession /\ QueuesInOrder /\ [Next]_vars
      => [\A s \in Slots : \A i \in 1..Len(sessions[s].queue) :
             Kept(s, i) \/ Delivered(s, i) \/ SuppliedLate(s, i) \/ Superseded(s, i) \/ Overflowed(s, i) \/ Forgotten(s)]_vars
  BY NextAccounted DEF Accounted, Fate
<1> QED
  BY <1>3, <1>4, <1>5, TypeCorrect, TimersCorrect, PTL DEF Spec, NoSilentLoss

=============================================================================
