---------------------------- MODULE WebhooksProofs ----------------------------
(***************************************************************************)
(* For every length of the queue, number of retries, of requests and of    *)
(* events: the queue is worked on by one chain, an event is requested no   *)
(* more often than its retries allow, and an event that is removed without *)
(* a request has been displaced by one dropped from a full queue.          *)
(***************************************************************************)
EXTENDS Webhooks, SequenceTheorems, FiniteSetTheorems, TLAPS

\* A request is on its way, or what it ended with is about to be handled.
Awaiting == InProgress # {} \/ todo \in {"response 200", "response error"}

\* OneChain, without counting.
Chain ==
    /\ \A r, s \in InProgress : r = s
    /\ InProgress # {} => ~later_timer /\ Idle
    /\ later_timer => Idle
    /\ InProgress # {} \/ later_timer \/ ~Idle => queue # <<>>

\* The queue holds the events in the order they were pushed in.
Ordered ==
    \A i \in 1..Len(queue) :
        /\ queue[i].seq <= pushed
        /\ \A j \in 1..Len(queue) : i < j => queue[i].seq < queue[j].seq

\* Only the oldest event is ever requested.
Untried ==
    /\ \A i \in 2..Len(queue) :
           attempts[queue[i].seq] = 0 /\ queue[i].retries_left = granted[queue[i].seq]
    /\ \A e \in 1..MaxEvents : e > pushed => attempts[e] = 0

\* What the oldest event has used and what it has left are what it was given,
\* and the request whose response is awaited.
Budgeted ==
    /\ queue # <<>> =>
           attempts[queue[1].seq] + queue[1].retries_left
               <= granted[queue[1].seq] + (IF Awaiting THEN 1 ELSE 0)
    /\ RetryBudget

\* The request on its way is the one of the oldest event, if that has had any.
Owner ==
    /\ InProgress # {} => webhooks_host # "unset"
    /\ \A r \in InProgress : attempts[queue[1].seq] > 0 => requests[r] = queue[1].seq

\* The response on its way to an event that was never requested is counted.
Accounted ==
    missed + (IF Awaiting /\ webhooks_host # "unset" /\ attempts[queue[1].seq] = 0 THEN 1 ELSE 0)
        <= dropped

IInv == TypeOK /\ Chain /\ Ordered /\ Untried /\ Owner /\ Accounted /\ (Debug => Budgeted)

-----------------------------------------------------------------------------
(***************************************************************************)
(* The changes of the queue.                                               *)
(***************************************************************************)
LEMMA QueueAppended ==
    ASSUME NEW T, NEW q \in Seq(T), NEW e \in T
    PROVE  /\ Append(q, e) \in Seq(T) /\ Len(Append(q, e)) = Len(q) + 1
           /\ \A i \in 1..Len(q) : Append(q, e)[i] = q[i]
           /\ Append(q, e)[Len(q) + 1] = e
    OBVIOUS

LEMMA QueueTail ==
    ASSUME NEW T, NEW q \in Seq(T), q # <<>>
    PROVE  /\ Head(q) = q[1] /\ q[1] \in T
           /\ Tail(q) \in Seq(T) /\ Len(Tail(q)) = Len(q) - 1 /\ Len(q) \in Nat \ {0}
           /\ \A i \in 1..(Len(q) - 1) : Tail(q)[i] = q[i + 1]
  <1>1. Len(q) \in Nat \ {0} /\ Head(q) = q[1] /\ q[1] \in T
    OBVIOUS
  <1>2. Tail(q) \in Seq(T) /\ Len(Tail(q)) = Len(q) - 1
    BY <1>1
  <1>3. \A i \in 1..(Len(q) - 1) : Tail(q)[i] = q[i + 1]
    BY <1>1
  <1> QED
    BY <1>1, <1>2, <1>3

LEMMA OldestRemoved ==
    ASSUME NEW T, NEW q \in Seq(T), q # <<>>
    PROVE  /\ RemoveAt(q, 1) \in Seq(T) /\ Len(RemoveAt(q, 1)) = Len(q) - 1
           /\ \A i \in 1..(Len(q) - 1) : RemoveAt(q, 1)[i] = q[i + 1]
  <1>1. Len(q) \in Nat \ {0}
    OBVIOUS
  <1>2. SubSeq(q, 1, 0) = <<>>
    BY <1>1
  <1>3. /\ SubSeq(q, 2, Len(q)) \in Seq(T) /\ Len(SubSeq(q, 2, Len(q))) = Len(q) - 1
        /\ \A i \in 1..(Len(q) - 1) : SubSeq(q, 2, Len(q))[i] = q[i + 1]
    BY <1>1
  <1>4. RemoveAt(q, 1) = <<>> \o SubSeq(q, 2, Len(q))
    BY <1>2 DEF RemoveAt
  <1>5. RemoveAt(q, 1) = SubSeq(q, 2, Len(q))
    BY <1>3, <1>4, ConcatEmptySeq
  <1> QED
    BY <1>3, <1>5

\* The fields of an event.
LEMMA EventFields ==
    /\ \A e \in Event : e.seq \in 1..MaxEvents /\ e.port \in PortIds \cup {NoPort} /\ e.retries_left \in Nat
    /\ \A seq \in 1..MaxEvents, port \in PortIds \cup {NoPort}, left \in Nat :
           /\ [seq |-> seq, port |-> port, retries_left |-> left] \in Event
           /\ [seq |-> seq, port |-> port, retries_left |-> left].seq = seq
           /\ [seq |-> seq, port |-> port, retries_left |-> left].retries_left = left
    /\ \A e \in Event, left \in Nat :
           /\ [e EXCEPT !.retries_left = left] \in Event
           /\ [e EXCEPT !.retries_left = left].seq = e.seq
           /\ [e EXCEPT !.retries_left = left].retries_left = left
    BY DEF Event

LEMMA OldestCharged ==
    ASSUME NEW q \in Seq(Event), q # <<>>, NEW left \in Nat
    PROVE  LET charged == [q EXCEPT ![1].retries_left = left]
           IN  /\ charged \in Seq(Event) /\ Len(charged) = Len(q)
               /\ charged[1].seq = q[1].seq /\ charged[1].retries_left = left
               /\ \A i \in 2..Len(q) : charged[i] = q[i]
               /\ \A i \in 1..Len(q) : charged[i].seq = q[i].seq
  <1> DEFINE e == [q[1] EXCEPT !.retries_left = left]
             charged == [q EXCEPT ![1] = e]
  <1>1. Len(q) \in Nat \ {0} /\ q[1] \in Event /\ 1 \in 1..Len(q)
    OBVIOUS
  <1>2. e \in Event /\ e.seq = q[1].seq /\ e.retries_left = left
    BY <1>1, EventFields
  <1> HIDE DEF e
  <1>3. charged \in Seq(Event) /\ Len(charged) = Len(q)
    BY <1>1, <1>2
  <1>4. charged[1] = e /\ \A i \in 2..Len(q) : charged[i] = q[i]
    BY <1>1
  <1>5. \A i \in 1..Len(q) : charged[i].seq = q[i].seq
    BY <1>1, <1>2, <1>4
  <1>6. charged = [q EXCEPT ![1].retries_left = left]
    BY DEF e
  <1> QED
    BY <1>2, <1>3, <1>4, <1>5, <1>6

\* What IInv says of the types, and of the requests while nothing runs.
LEMMA Typed ==
    ASSUME TypeOK
    PROVE  /\ queue \in Seq(Event) /\ Len(queue) \in Nat /\ Len(queue) <= MaxQueueLen
           /\ pushed \in 0..MaxEvents /\ dropped \in Nat /\ missed \in Nat
           /\ attempts \in [1..MaxEvents -> Nat] /\ granted \in [1..MaxEvents -> Nat]
           /\ webhooks_retries \in Nat
           /\ \A i \in 1..Len(queue) :
                  /\ queue[i] \in Event /\ queue[i].seq \in 1..MaxEvents /\ queue[i].retries_left \in Nat
                  /\ attempts[queue[i].seq] \in Nat /\ granted[queue[i].seq] \in Nat
           /\ queue = <<>> <=> Len(queue) = 0
           /\ MaxQueueLen \in Nat /\ MaxQueueLen >= 2 /\ MaxEvents \in Nat
  <1>1. /\ queue \in Seq(Event) /\ Len(queue) \in Nat /\ Len(queue) <= MaxQueueLen
        /\ pushed \in 0..MaxEvents /\ dropped \in Nat /\ missed \in Nat
        /\ attempts \in [1..MaxEvents -> Nat] /\ granted \in [1..MaxEvents -> Nat]
    <2>1. queue \in Seq(Event)
      BY DEF TypeOK
    <2>2. Len(queue) \in Nat
      BY <2>1, LenProperties
    <2> QED
      BY <2>1, <2>2 DEF TypeOK
  <1>2. webhooks_retries \in Nat /\ MaxQueueLen \in Nat /\ MaxQueueLen >= 2 /\ MaxEvents \in Nat
    <2>1. webhooks_retries \in Retries /\ Retries \subseteq Nat
      BY WebhooksAssumption DEF TypeOK
    <2>2. MaxQueueLen \in Nat \ {0, 1} /\ MaxEvents \in Nat
      BY WebhooksAssumption
    <2> QED
      BY <2>1, <2>2
  <1>3. \A i \in 1..Len(queue) : queue[i] \in Event
    BY <1>1
  <1>4. \A i \in 1..Len(queue) : queue[i].seq \in 1..MaxEvents /\ queue[i].retries_left \in Nat
    BY <1>3, EventFields
  <1>5. \A i \in 1..Len(queue) : attempts[queue[i].seq] \in Nat /\ granted[queue[i].seq] \in Nat
    BY <1>1, <1>4
  <1>6. queue = <<>> <=> Len(queue) = 0
    BY <1>1, EmptySeq
  <1> QED
    BY <1>1, <1>2, <1>3, <1>4, <1>5, <1>6

LEMMA PushKeepsIInv ==
    ASSUME IInv, Idle, NEW port \in PortIds \cup {NoPort}, webhooks_push_event(port),
           UNCHANGED <<later_timer, requests, settings, connected, ota_busy, attempts, missed>>,
           ports' \subseteq PortIds
    PROVE  IInv'
  <1> DEFINE n == Len(queue)
             e == [seq |-> pushed + 1, port |-> port, retries_left |-> webhooks_retries]
  <1>0. TypeOK /\ Chain /\ Ordered /\ Untried /\ Owner /\ Accounted /\ (Debug => Budgeted)
    BY DEF IInv
  <1>1. /\ queue \in Seq(Event) /\ n \in Nat /\ n <= MaxQueueLen
        /\ pushed \in 0..MaxEvents /\ dropped \in Nat /\ missed \in Nat
        /\ attempts \in [1..MaxEvents -> Nat] /\ granted \in [1..MaxEvents -> Nat]
        /\ webhooks_retries \in Nat /\ (queue = <<>> <=> n = 0)
        /\ MaxQueueLen \in Nat /\ MaxQueueLen >= 2 /\ MaxEvents \in Nat
    BY <1>0, Typed
  <1>2. \A i \in 1..n : /\ queue[i].seq \in 1..MaxEvents /\ queue[i].retries_left \in Nat
                        /\ attempts[queue[i].seq] \in Nat /\ granted[queue[i].seq] \in Nat
    BY <1>0, Typed
  <1>3. /\ pushed' = pushed + 1 /\ pushed + 1 \in 1..MaxEvents
        /\ granted' = [granted EXCEPT ![pushed + 1] = webhooks_retries]
        /\ queue' = Append(MakeRoom(queue), e)
        /\ dropped' = IF MakeRoom(queue) # queue /\ Pending(Head(queue).seq) THEN dropped + 1 ELSE dropped
        /\ todo' = IF Len(queue') = 1 THEN "process_queue" ELSE "nothing"
    BY <1>1 DEF webhooks_push_event, StartsProcessing
  <1>4. e \in Event /\ e.seq = pushed + 1 /\ e.retries_left = webhooks_retries
    BY <1>1, <1>3, EventFields
  <1>5. /\ granted' \in [1..MaxEvents -> Nat] /\ granted'[pushed + 1] = webhooks_retries
        /\ \A x \in 1..MaxEvents : x <= pushed => granted'[x] = granted[x]
    <2>1. granted \in [1..MaxEvents -> Nat] /\ webhooks_retries \in Nat
      BY <1>1
    <2>2. /\ granted' = [granted EXCEPT ![pushed + 1] = webhooks_retries]
          /\ pushed + 1 \in 1..MaxEvents
      BY <1>3
    <2>3. \A x \in 1..MaxEvents : x <= pushed => x # pushed + 1
      BY <1>1
    <2> QED
      BY <2>1, <2>2, <2>3
  <1>6. /\ InProgress' = InProgress /\ (Awaiting <=> InProgress # {}) /\ (Awaiting' <=> InProgress # {})
        /\ todo = "nothing" /\ todo' \in {"nothing", "process_queue"}
    BY <1>3 DEF InProgress, Awaiting, Idle
  <1>7. attempts' = attempts /\ missed' = missed /\ later_timer' = later_timer
        /\ webhooks_host' = webhooks_host /\ requests' = requests
    BY DEF settings
  <1>8. attempts[pushed + 1] = 0
    BY <1>0, <1>1, <1>3 DEF Untried
  <1> HIDE DEF e
  <1>9. ASSUME queue' \in Seq(Event), Len(queue') <= MaxQueueLen, dropped' \in Nat
        PROVE  TypeOK'
    <2>1. /\ later_timer' \in BOOLEAN /\ connected' \in BOOLEAN /\ ota_busy' \in BOOLEAN
          /\ requests' \in [Requests -> 0..MaxEvents] /\ webhooks_host' \in {"unset", "good", "bad"}
          /\ webhooks_retries' \in Retries
      BY <1>0 DEF TypeOK, settings
    <2>2. /\ pushed' \in 0..MaxEvents /\ missed' \in Nat /\ attempts' \in [1..MaxEvents -> Nat]
          /\ todo' \in {"nothing", "process_queue", "response 200", "response error"}
      <3>1. pushed' \in 0..MaxEvents
        BY <1>1, <1>3
      <3>2. todo' \in {"nothing", "process_queue", "response 200", "response error"}
        BY <1>6
      <3> QED
        BY <1>1, <1>7, <3>1, <3>2
    <2> QED
      BY <1>5, <1>9, <2>1, <2>2 DEF TypeOK
  <1>10. ASSUME NEW d \in {0, 1}, NEW m \in Nat, n = m + d, m >= 1 \/ d = 0,
                queue' \in Seq(Event), Len(queue') = m + 1, m + 1 <= MaxQueueLen,
                \A i \in 1..m : queue'[i] = queue[i + d], queue'[m + 1] = e
         PROVE  Ordered' /\ Untried'
    <2>1. \A i \in 1..m : /\ i + d \in 1..n /\ queue'[i].seq = queue[i + d].seq
                          /\ queue'[i].retries_left = queue[i + d].retries_left
      BY <1>10
    <2>2. \A i \in 1..m : queue'[i].seq <= pushed /\ queue'[i].seq \in 1..MaxEvents
      BY <1>0, <1>2, <2>1 DEF Ordered
    <2>3. Ordered'
      <3>1. ASSUME NEW i \in 1..(m + 1)
            PROVE  queue'[i].seq <= pushed'
        <4>1. CASE i \in 1..m
          <5>1. queue'[i].seq <= pushed /\ queue'[i].seq \in 1..MaxEvents
            BY <2>2, <4>1
          <5>2. \A x \in 1..MaxEvents : x <= pushed => x <= pushed + 1
            BY <1>1
          <5> QED
            BY <1>3, <5>1, <5>2
        <4>2. CASE i = m + 1
          <5>1. queue'[i].seq = pushed + 1
            BY <1>4, <1>10, <4>2
          <5> QED
            BY <1>1, <1>3, <5>1
        <4> QED
          BY <1>10, <4>1, <4>2
      <3>2. ASSUME NEW i \in 1..(m + 1), NEW j \in 1..(m + 1), i < j
            PROVE  queue'[i].seq < queue'[j].seq
        <4>1. i \in 1..m
          BY <3>2
        <4>2. CASE j \in 1..m
          <5>1. queue[i + d].seq < queue[j + d].seq
            BY <1>0, <1>10, <2>1, <3>2, <4>1, <4>2 DEF Ordered
          <5> QED
            BY <2>1, <4>1, <4>2, <5>1
        <4>3. CASE j = m + 1
          <5>1. queue'[j].seq = pushed + 1
            BY <1>4, <1>10, <4>3
          <5>2. queue'[i].seq <= pushed /\ queue'[i].seq \in 1..MaxEvents
            BY <2>2, <4>1
          <5> QED
            BY <1>1, <5>1, <5>2
        <4> QED
          BY <3>2, <4>2, <4>3
      <3> QED
        BY <1>10, <3>1, <3>2 DEF Ordered
    <2>4. ASSUME NEW i \in 2..(m + 1)
          PROVE  attempts'[queue'[i].seq] = 0 /\ queue'[i].retries_left = granted'[queue'[i].seq]
      <3>1. CASE i \in 1..m
        <4>1. i + d \in 2..n
          BY <1>10, <2>4, <3>1
        <4>2. attempts[queue[i + d].seq] = 0 /\ queue[i + d].retries_left = granted[queue[i + d].seq]
          BY <1>0, <4>1 DEF Untried
        <4> QED
          BY <1>5, <1>7, <2>1, <2>2, <3>1, <4>2
      <3>2. CASE i = m + 1
        BY <1>4, <1>5, <1>7, <1>8, <1>10, <3>2
      <3> QED
        BY <2>4, <3>1, <3>2
    <2>5. \A x \in 1..MaxEvents : x > pushed' => attempts'[x] = 0
      BY <1>0, <1>1, <1>3, <1>7 DEF Untried
    <2> QED
      BY <1>10, <2>3, <2>4, <2>5 DEF Untried
  <1>11. Debug => RetryBudget'
    <2> SUFFICES ASSUME Debug, NEW x \in 1..pushed'
                 PROVE  attempts'[x] <= granted'[x] + 1
      BY DEF RetryBudget
    <2>1. CASE x = pushed + 1
      BY <1>1, <1>5, <1>7, <1>8, <2>1
    <2>2. CASE x \in 1..pushed
      BY <1>0, <1>1, <1>3, <1>5, <1>7, <2>2 DEF Budgeted, RetryBudget
    <2> QED
      BY <1>1, <1>3, <2>1, <2>2
  <1>12. CASE n < MaxQueueLen
    <2>1. MakeRoom(queue) = queue
      BY <1>1, <1>12 DEF MakeRoom
    <2>2. queue' = Append(queue, e) /\ dropped' = dropped
      BY <1>3, <2>1
    <2>3. /\ queue' \in Seq(Event) /\ Len(queue') = n + 1 /\ queue'[n + 1] = e
          /\ \A i \in 1..n : queue'[i] = queue[i]
      BY <1>1, <1>4, <2>2, QueueAppended
    <2>4. queue' # <<>> /\ n + 1 <= MaxQueueLen
      BY <1>1, <1>12, <2>3
    <2>5. TypeOK'
      BY <1>1, <1>9, <2>2, <2>3, <2>4
    <2>6. Ordered' /\ Untried'
      <3>1. \A i \in 1..n : queue'[i] = queue[i + 0]
        BY <1>1, <2>3
      <3> QED
        BY <1>1, <1>10, <2>3, <2>4, <3>1
    <2>7. CASE n = 0
      <3>1. InProgress = {} /\ ~later_timer /\ queue'[1] = e
        BY <1>0, <1>1, <2>3, <2>7 DEF Chain
      <3>2. Chain' /\ Owner'
        BY <1>6, <1>7, <2>4, <3>1 DEF Chain, Owner
      <3>3. Accounted'
        BY <1>0, <1>1, <1>6, <1>7, <2>2, <3>1 DEF Accounted
      <3>4. Debug => Budgeted'
        BY <1>1, <1>4, <1>5, <1>6, <1>7, <1>8, <1>11, <3>1 DEF Budgeted
      <3> QED
        BY <2>5, <2>6, <3>2, <3>3, <3>4 DEF IInv
    <2>8. CASE n # 0
      <3>1. 1 \in 1..n /\ queue'[1] = queue[1] /\ queue # <<>>
        BY <1>1, <2>3, <2>8
      <3>2. todo' = "nothing"
        BY <1>1, <1>3, <2>3, <2>8
      <3>3. Chain' /\ Owner'
        BY <1>0, <1>6, <1>7, <2>4, <3>1, <3>2 DEF Chain, Owner, Idle
      <3>4. Accounted'
        BY <1>0, <1>6, <1>7, <2>2, <3>1 DEF Accounted
      <3>5. granted'[queue[1].seq] = granted[queue[1].seq]
        BY <1>0, <1>2, <1>5, <3>1 DEF Ordered
      <3>6. Debug => Budgeted'
        BY <1>0, <1>6, <1>7, <1>11, <3>1, <3>5 DEF Budgeted
      <3> QED
        BY <2>5, <2>6, <3>3, <3>4, <3>6 DEF IInv
    <2> QED
      BY <2>7, <2>8
  <1>13. CASE n >= MaxQueueLen
    <2> DEFINE m == n - 1
    <2>1. n = MaxQueueLen /\ m \in Nat /\ m >= 1 /\ n = m + 1 /\ queue # <<>> /\ 1 \in 1..n /\ 2 \in 1..n
      BY <1>1, <1>13
    <2>2. MakeRoom(queue) = Tail(queue)
      BY <1>13 DEF MakeRoom
    <2>3. /\ Tail(queue) \in Seq(Event) /\ Len(Tail(queue)) = m /\ Head(queue) = queue[1]
          /\ \A i \in 1..m : Tail(queue)[i] = queue[i + 1]
      BY <1>1, <2>1, QueueTail
    <2>4. Tail(queue) # queue
      BY <1>1, <2>1, <2>3
    <2>5. /\ queue' \in Seq(Event) /\ Len(queue') = m + 1 /\ queue'[m + 1] = e
          /\ \A i \in 1..m : queue'[i] = queue[i + 1]
      <3> DEFINE q == Tail(queue)
      <3>1. queue' = Append(q, e)
        BY <1>3, <2>2
      <3>2. q \in Seq(Event) /\ Len(q) = m /\ \A i \in 1..m : q[i] = queue[i + 1]
        BY <2>3
      <3> HIDE DEF q
      <3>3. /\ Append(q, e) \in Seq(Event) /\ Len(Append(q, e)) = Len(q) + 1
            /\ \A i \in 1..Len(q) : Append(q, e)[i] = q[i]
            /\ Append(q, e)[Len(q) + 1] = e
        BY <1>4, <3>2, QueueAppended
      <3> QED
        BY <3>1, <3>2, <3>3
    <2>6. queue' # <<>> /\ todo' = "nothing" /\ queue'[1] = queue[2]
      BY <1>3, <2>1, <2>5
    <2>7. dropped' = IF Pending(queue[1].seq) THEN dropped + 1 ELSE dropped
      BY <1>3, <2>2, <2>3, <2>4
    <2>8. TypeOK'
      BY <1>1, <1>9, <2>1, <2>5, <2>7
    <2>9. Ordered' /\ Untried'
      BY <1>10, <2>1, <2>5
    <2>10. /\ attempts[queue[2].seq] = 0 /\ queue[2].retries_left = granted[queue[2].seq]
           /\ queue[2].seq <= pushed
      BY <1>0, <2>1 DEF Untried, Ordered
    <2>11. Chain' /\ Owner'
      BY <1>0, <1>6, <1>7, <2>6, <2>10 DEF Chain, Owner, Idle
    <2>12. Accounted'
      <3>1. CASE InProgress = {}
        <4>1. missed <= dropped
          BY <1>0, <1>1, <1>6, <3>1 DEF Accounted
        <4> QED
          BY <1>1, <1>6, <1>7, <2>7, <3>1, <4>1 DEF Accounted
      <3>2. CASE InProgress # {}
        <4>1. PICK r \in InProgress : TRUE
          BY <3>2
        <4>2. r \in Requests /\ webhooks_host # "unset"
          BY <1>0, <3>2, <4>1 DEF InProgress, Owner
        <4>3. missed + 1 <= dropped'
          <5>1. CASE attempts[queue[1].seq] = 0
            BY <1>0, <1>1, <1>6, <2>7, <3>2, <4>2, <5>1 DEF Accounted
          <5>2. CASE attempts[queue[1].seq] # 0
            <6>1. attempts[queue[1].seq] > 0
              BY <1>2, <2>1, <5>2
            <6>2. Pending(queue[1].seq)
              BY <1>0, <4>1, <4>2, <6>1 DEF Owner, Pending
            <6>3. missed <= dropped
              BY <1>0, <1>1, <5>2 DEF Accounted
            <6> QED
              BY <1>1, <2>7, <6>2, <6>3
          <5> QED
            BY <5>1, <5>2
        <4>4. dropped' \in Nat
          BY <2>8 DEF TypeOK
        <4> QED
          BY <1>1, <1>7, <4>3, <4>4 DEF Accounted
      <3> QED
        BY <3>1, <3>2
    <2>13. Debug => Budgeted'
      <3>1. granted'[queue[2].seq] = granted[queue[2].seq]
        BY <1>2, <1>5, <2>1, <2>10
      <3> QED
        BY <1>2, <1>7, <1>11, <2>1, <2>6, <2>10, <3>1 DEF Budgeted
    <2> QED
      BY <2>8, <2>9, <2>11, <2>12, <2>13 DEF IInv
  <1> QED
    BY <1>1, <1>12, <1>13

-----------------------------------------------------------------------------
(***************************************************************************)
(* The other steps.                                                        *)
(***************************************************************************)
\* Steps that neither change the queue nor what is known of its events.
LEMMA QueueKept ==
    ASSUME IInv, UNCHANGED <<queue, pushed, attempts, granted>>
    PROVE  Ordered' /\ Untried' /\ (Debug => RetryBudget')
    BY DEF IInv, Ordered, Untried, Budgeted, RetryBudget

LEMMA PortsKeepIInv ==
    ASSUME IInv, PushEvent \/ \E port \in PortIds : RemovePort(port) \/ AddPort(port)
    PROVE  IInv'
  <1>1. CASE PushEvent
    <2>1. PICK port \in ports \cup {NoPort} : webhooks_push_event(port)
      BY <1>1 DEF PushEvent
    <2>2. port \in PortIds \cup {NoPort} /\ ports' \subseteq PortIds
      BY <1>1 DEF PushEvent, world, IInv, TypeOK
    <2>3. Idle /\ UNCHANGED <<later_timer, requests, settings, connected, ota_busy, attempts, missed>>
      BY <1>1 DEF PushEvent, world
    <2> QED
      BY <2>1, <2>2, <2>3, PushKeepsIInv
  <1>2. ASSUME NEW port \in PortIds, RemovePort(port) \/ AddPort(port)
        PROVE  IInv'
    <2>1. /\ Idle /\ ports' \subseteq PortIds
          /\ UNCHANGED <<later_timer, requests, settings, connected, ota_busy, attempts, missed>>
      BY <1>2 DEF RemovePort, AddPort, IInv, TypeOK
    <2>2. CASE ota_busy
      <3>1. UNCHANGED <<queue, pushed, granted, dropped, todo>>
        BY <1>2, <2>2 DEF RemovePort, AddPort
      <3>2. TypeOK'
        BY <2>1, <3>1 DEF IInv, TypeOK, settings
      <3> QED
        BY <2>1, <3>1, <3>2, QueueKept
           DEF IInv, Chain, Owner, Accounted, Budgeted, Awaiting, InProgress, Idle, settings
    <2>3. CASE ~ota_busy
      <3>1. webhooks_push_event(NoPort) \/ webhooks_push_event(port)
        BY <1>2, <2>3 DEF RemovePort, AddPort
      <3> QED
        BY <2>1, <3>1, PushKeepsIInv
    <2> QED
      BY <2>2, <2>3
  <1> QED
    BY <1>1, <1>2

\* process_queue() ends without a request, or its timer fires.
LEMMA ProcessQueueKeepsIInv ==
    ASSUME IInv, ProcessQueueSkips \/ ProcessQueueWaits \/ ProcessQueueNoRequest \/ OnProcessQueueLater
    PROVE  IInv'
  <1>0. TypeOK /\ Chain /\ Owner /\ Accounted /\ (Debug => Budgeted)
    BY DEF IInv
  <1>1. UNCHANGED <<queue, requests, webhooks_host, webhooks_retries, ports, connected, ota_busy,
                    pushed, attempts, granted, dropped, missed>>
    BY DEF ProcessQueueSkips, ProcessQueueWaits, ProcessQueueNoRequest, OnProcessQueueLater,
           settings, world, history
  <1>2. /\ InProgress = {} /\ InProgress' = {}
        /\ queue # <<>>
    BY <1>0, <1>1 DEF ProcessQueueSkips, ProcessQueueWaits, ProcessQueueNoRequest, OnProcessQueueLater,
                      Chain, InProgress, Idle
  <1>3. \/ todo' \in {"nothing", "process_queue"} /\ ~(later_timer' /\ todo' # "nothing")
        \/ todo' = "response 200" /\ webhooks_host = "unset" /\ ~later_timer'
    BY <1>0 DEF ProcessQueueSkips, ProcessQueueWaits, ProcessQueueNoRequest, OnProcessQueueLater,
                Chain, Idle
  <1>4. todo \in {"nothing", "process_queue"}
    BY DEF ProcessQueueSkips, ProcessQueueWaits, ProcessQueueNoRequest, OnProcessQueueLater, Idle
  <1>5. TypeOK'
    <2>1. later_timer' \in BOOLEAN
      BY <1>0 DEF ProcessQueueSkips, ProcessQueueWaits, ProcessQueueNoRequest, OnProcessQueueLater, TypeOK
    <2> QED
      BY <1>0, <1>1, <1>3, <2>1 DEF TypeOK
  <1>6. Chain' /\ Owner'
    BY <1>1, <1>2, <1>3 DEF Chain, Owner, Idle
  <1>7. Accounted'
    BY <1>0, <1>1, <1>2, <1>3, <1>4 DEF Accounted, Awaiting
  <1>8. Debug => Budgeted'
    <2> SUFFICES ASSUME Debug PROVE Budgeted'
      OBVIOUS
    <2>1. attempts[queue[1].seq] + queue[1].retries_left <= granted[queue[1].seq]
      <3>1. 1 \in 1..Len(queue)
        BY <1>0, <1>2, Typed
      <3>2. /\ attempts[queue[1].seq] \in Nat /\ granted[queue[1].seq] \in Nat
            /\ queue[1].retries_left \in Nat
        BY <1>0, <3>1, Typed
      <3>3. ~Awaiting
        BY <1>2, <1>4 DEF Awaiting
      <3> QED
        BY <1>0, <1>2, <3>2, <3>3 DEF Budgeted
    <2>2. /\ attempts[queue[1].seq] + queue[1].retries_left \in Nat /\ granted[queue[1].seq] \in Nat
      <3>1. 1 \in 1..Len(queue)
        BY <1>0, <1>2, Typed
      <3> QED
        BY <1>0, <3>1, Typed
    <2> QED
      BY <1>1, <2>1, <2>2, QueueKept DEF Budgeted
  <1> QED
    BY <1>1, <1>5, <1>6, <1>7, <1>8, QueueKept DEF IInv

\* The request of the oldest event is made.
LEMMA RequestKeepsIInv ==
    ASSUME IInv, ProcessQueueRequests
    PROVE  IInv'
  <1> DEFINE head == queue[1].seq
  <1>0. TypeOK /\ Chain /\ Ordered /\ Untried /\ Owner /\ Accounted /\ (Debug => Budgeted)
    BY DEF IInv
  <1>1. /\ UNCHANGED <<queue, later_timer, webhooks_host, webhooks_retries, ports, connected, ota_busy>>
        /\ UNCHANGED <<pushed, granted, dropped, missed>>
        /\ todo = "process_queue" /\ queue # <<>> /\ webhooks_host = "good"
    BY DEF ProcessQueueRequests, Skipped, settings, world
  <1>2. /\ queue \in Seq(Event) /\ Len(queue) \in Nat /\ Len(queue) <= MaxQueueLen
        /\ attempts \in [1..MaxEvents -> Nat] /\ granted \in [1..MaxEvents -> Nat]
        /\ pushed \in 0..MaxEvents /\ dropped \in Nat /\ missed \in Nat /\ MaxEvents \in Nat
    BY <1>0, Typed
  <1>3. /\ 1 \in 1..Len(queue) /\ Head(queue) = queue[1] /\ head \in 1..MaxEvents
        /\ queue[1].retries_left \in Nat /\ attempts[head] \in Nat /\ granted[head] \in Nat
    <2>1. Len(queue) \in Nat \ {0} /\ Head(queue) = queue[1]
      BY <1>1, <1>2, QueueTail
    <2>2. 1 \in 1..Len(queue)
      BY <2>1
    <2> QED
      BY <1>0, <2>1, <2>2, Typed
  <1> HIDE DEF head
  <1>4. /\ attempts' = [attempts EXCEPT ![head] = @ + 1]
        /\ \/ todo' = "nothing" /\ \E r \in Requests : requests[r] = 0 /\ requests' = [requests EXCEPT ![r] = head]
           \/ todo' = "response error" /\ requests' = requests
    BY <1>3 DEF ProcessQueueRequests, head
  <1>5. /\ attempts' \in [1..MaxEvents -> Nat] /\ attempts'[head] = attempts[head] + 1
        /\ \A x \in 1..MaxEvents : x # head => attempts'[x] = attempts[x]
    <2>1. attempts' = [attempts EXCEPT ![head] = attempts[head] + 1]
      BY <1>4
    <2>2. attempts[head] + 1 \in Nat
      BY <1>3
    <2>3. attempts \in [1..MaxEvents -> Nat] /\ head \in 1..MaxEvents
      BY <1>2, <1>3
    <2> QED
      BY <2>1, <2>2, <2>3
  <1>6. InProgress = {} /\ ~later_timer
    BY <1>0, <1>1 DEF Chain, Idle
  <1>7. /\ requests' \in [Requests -> 0..MaxEvents]
        /\ \A r, s \in InProgress' : r = s
        /\ \A r \in InProgress' : requests'[r] = head
        /\ todo' = "nothing" => InProgress' # {}
        /\ todo' # "nothing" => InProgress' = {}
    <2>0. requests \in [Requests -> 0..MaxEvents] /\ \A r \in Requests : requests[r] = 0
      BY <1>0, <1>6 DEF TypeOK, InProgress
    <2>1. CASE todo' = "response error" /\ requests' = requests
      BY <2>0, <2>1 DEF InProgress
    <2>2. ASSUME todo' = "nothing", NEW r \in Requests, requests' = [requests EXCEPT ![r] = head]
          PROVE  /\ requests' \in [Requests -> 0..MaxEvents]
                 /\ InProgress' = {r} /\ requests'[r] = head
      <3>1. head \in 0..MaxEvents /\ head # 0
        BY <1>3
      <3>2. \A s \in Requests : requests'[s] = IF s = r THEN head ELSE 0
        BY <2>0, <2>2
      <3> QED
        BY <2>0, <2>2, <3>1, <3>2 DEF InProgress
    <2> QED
      BY <1>4, <2>1, <2>2
  <1>8. TypeOK'
    <2>1. todo' \in {"nothing", "process_queue", "response 200", "response error"}
      BY <1>4
    <2> QED
      BY <1>0, <1>1, <1>5, <1>7, <2>1 DEF TypeOK
  <1>9. Chain' /\ Owner'
    BY <1>1, <1>6, <1>7 DEF Chain, Owner, Idle, head
  <1>10. Ordered'
    BY <1>0, <1>1 DEF Ordered
  <1>11. Untried'
    <2>1. ASSUME NEW i \in 2..Len(queue)
          PROVE  attempts'[queue[i].seq] = 0
      <3>1. i \in 1..Len(queue) /\ 1 < i
        BY <1>2
      <3>2. head < queue[i].seq /\ queue[i].seq \in 1..MaxEvents
        BY <1>0, <1>3, <3>1, Typed DEF Ordered, head
      <3> QED
        BY <1>0, <1>3, <1>5, <3>2 DEF Untried
    <2>2. head <= pushed
      BY <1>0, <1>3 DEF Ordered, head
    <2>3. \A x \in 1..MaxEvents : x > pushed => attempts'[x] = 0
      BY <1>0, <1>2, <1>3, <1>5, <2>2 DEF Untried
    <2> QED
      BY <1>0, <1>1, <2>1, <2>3 DEF Untried
  <1>12. Accounted'
    <2>1. missed <= dropped
      BY <1>0, <1>1, <1>2, <1>6 DEF Accounted, Awaiting
    <2>2. attempts'[queue'[1].seq] # 0
      BY <1>1, <1>3, <1>5 DEF head
    <2> QED
      BY <1>1, <1>2, <2>1, <2>2 DEF Accounted
  <1>13. Debug => Budgeted'
    <2> SUFFICES ASSUME Debug PROVE Budgeted'
      OBVIOUS
    <2>1. attempts[head] + queue[1].retries_left <= granted[head]
      BY <1>0, <1>1, <1>3, <1>6 DEF Budgeted, Awaiting, head
    <2>2. Awaiting'
      BY <1>4, <1>7 DEF Awaiting
    <2>3. attempts'[head] + queue[1].retries_left <= granted[head] + 1
      BY <1>3, <1>5, <2>1
    <2>4. RetryBudget'
      <3> SUFFICES ASSUME NEW x \in 1..pushed PROVE attempts'[x] <= granted[x] + 1
        BY <1>1 DEF RetryBudget
      <3>1. x \in 1..MaxEvents
        BY <1>2
      <3>2. CASE x = head
        BY <1>3, <2>3, <1>5, <3>2
      <3>3. CASE x # head
        BY <1>0, <1>5, <3>1, <3>3 DEF Budgeted, RetryBudget
      <3> QED
        BY <3>2, <3>3
    <2> QED
      BY <1>1, <2>2, <2>3, <2>4 DEF Budgeted, head
  <1> QED
    BY <1>8, <1>9, <1>10, <1>11, <1>12, <1>13 DEF IInv

\* on_webhook_response().
LEMMA ResponseKeepsIInv ==
    ASSUME IInv, OnWebhookResponse
    PROVE  IInv'
  <1> DEFINE n    == Len(queue)
             rest == RemoveAt(queue, 1)
             left == RetriesLeft(queue[1])
  <1>0. TypeOK /\ Chain /\ Ordered /\ Untried /\ Owner /\ Accounted /\ (Debug => Budgeted)
    BY DEF IInv
  <1>1. /\ UNCHANGED <<requests, webhooks_host, webhooks_retries, ports, connected, ota_busy>>
        /\ UNCHANGED <<pushed, attempts, granted, dropped>>
        /\ todo \in {"response 200", "response error"} /\ queue # <<>>
    BY DEF OnWebhookResponse, settings, world
  <1>2. /\ queue \in Seq(Event) /\ n \in Nat /\ n <= MaxQueueLen /\ MaxQueueLen \in Nat
        /\ attempts \in [1..MaxEvents -> Nat] /\ granted \in [1..MaxEvents -> Nat]
        /\ pushed \in 0..MaxEvents /\ dropped \in Nat /\ missed \in Nat /\ MaxEvents \in Nat
    BY <1>0, Typed
  <1>3. /\ n \in Nat \ {0} /\ 1 \in 1..n
        /\ queue[1].seq \in 1..MaxEvents /\ queue[1].retries_left \in Nat
        /\ attempts[queue[1].seq] \in Nat /\ granted[queue[1].seq] \in Nat
    <2>1. n \in Nat \ {0}
      BY <1>1, <1>2, QueueTail
    <2>2. 1 \in 1..n
      BY <2>1
    <2> QED
      BY <1>0, <2>1, <2>2, Typed
  <1>4. InProgress = {} /\ InProgress' = {} /\ ~later_timer /\ Awaiting
    BY <1>0, <1>1 DEF Chain, InProgress, Idle, Awaiting
  <1>5. todo' \in {"nothing", "process_queue"} /\ ~Awaiting'
    <2>1. todo' \in {"nothing", "process_queue"}
      BY DEF OnWebhookResponse
    <2> QED
      BY <1>4, <2>1 DEF Awaiting
  <1>6. ASSUME queue' \in Seq(Event), Len(queue') <= MaxQueueLen,
               missed' \in Nat, later_timer' \in BOOLEAN
        PROVE  TypeOK'
    <2>1. todo' \in {"nothing", "process_queue", "response 200", "response error"}
      BY <1>5
    <2> QED
      BY <1>0, <1>1, <1>6, <2>1 DEF TypeOK
  <1>7. Owner'
    BY <1>4 DEF Owner
  <1>8. CASE Settled(queue[1])
    <2>1. /\ queue' = rest /\ later_timer' = later_timer
          /\ todo' = IF rest # <<>> THEN "process_queue" ELSE "nothing"
          /\ missed' = IF attempts[queue[1].seq] = 0 /\ webhooks_host # "unset" THEN missed + 1 ELSE missed
      BY <1>8 DEF OnWebhookResponse, Answered
    <2>2. rest \in Seq(Event) /\ Len(rest) = n - 1 /\ \A i \in 1..(n - 1) : rest[i] = queue[i + 1]
      BY <1>1, <1>2, OldestRemoved
    <2> HIDE DEF rest
    <2>3. TypeOK'
      <3>1. Len(queue') <= MaxQueueLen
        BY <1>2, <1>3, <2>1, <2>2
      <3>2. missed' \in Nat
        BY <1>2, <2>1
      <3>3. later_timer' \in BOOLEAN
        BY <1>0, <2>1 DEF TypeOK
      <3> QED
        BY <1>6, <2>1, <2>2, <3>1, <3>2, <3>3
    <2>4. Chain'
      BY <1>4, <2>1 DEF Chain, Idle
    <2>5. \A i \in 1..(n - 1) : i + 1 \in 2..n /\ i + 1 \in 1..n /\ rest[i] = queue[i + 1]
      BY <1>3, <2>2
    <2>6. Ordered'
      <3>1. ASSUME NEW i \in 1..(n - 1)
            PROVE  /\ rest[i].seq <= pushed
                   /\ \A j \in 1..(n - 1) : i < j => rest[i].seq < rest[j].seq
        <4>1. queue[i + 1].seq <= pushed
          BY <1>0, <2>5 DEF Ordered
        <4>2. ASSUME NEW j \in 1..(n - 1), i < j
              PROVE  queue[i + 1].seq < queue[j + 1].seq
          <5>1. i + 1 < j + 1
            BY <4>2
          <5> QED
            BY <1>0, <2>5, <5>1 DEF Ordered
        <4> QED
          BY <2>5, <4>1, <4>2
      <3> QED
        BY <1>1, <2>1, <2>2, <3>1 DEF Ordered
    <2>7. Untried'
      <3>1. \A i \in 1..(n - 1) :
                attempts[rest[i].seq] = 0 /\ rest[i].retries_left = granted[rest[i].seq]
        BY <1>0, <2>5 DEF Untried
      <3>2. \A i \in 2..(n - 1) : i \in 1..(n - 1)
        BY <1>3
      <3> QED
        BY <1>0, <1>1, <2>1, <2>2, <3>1, <3>2 DEF Untried
    <2>8. Accounted'
      <3>1. missed' <= dropped
        BY <1>0, <1>2, <1>4, <2>1 DEF Accounted
      <3>2. missed' \in Nat /\ dropped' = dropped
        BY <1>1, <2>3 DEF TypeOK
      <3>3. missed' + 0 <= dropped'
        <4>1. \A a, b \in Nat : a <= b => a + 0 <= b
          OBVIOUS
        <4>2. dropped' \in Nat /\ missed' <= dropped'
          BY <1>2, <3>1, <3>2
        <4> QED
          BY <3>2, <4>1, <4>2
      <3> QED
        BY <1>5, <3>3 DEF Accounted
    <2>9. Debug => Budgeted'
      <3> SUFFICES ASSUME Debug PROVE Budgeted'
        OBVIOUS
      <3>1. RetryBudget'
        BY <1>0, <1>1 DEF Budgeted, RetryBudget
      <3>2. ASSUME queue' # <<>>
            PROVE  attempts'[queue'[1].seq] + queue'[1].retries_left <= granted'[queue'[1].seq] + 0
        <4>1. n - 1 # 0
          <5>1. rest \in Seq(Event) /\ rest # <<>>
            BY <2>1, <2>2, <3>2
          <5>2. Len(rest) # 0
            BY <5>1, EmptySeq
          <5> QED
            BY <2>2, <5>2
        <4>2. 1 \in 1..(n - 1) /\ 2 \in 2..n /\ 2 \in 1..n
          <5>1. \A k \in Nat \ {0} : k - 1 # 0 => 1 \in 1..(k - 1) /\ 2 \in 2..k /\ 2 \in 1..k
            OBVIOUS
          <5> QED
            BY <1>3, <4>1, <5>1
        <4>3. /\ rest[1] = queue[2] /\ attempts[queue[2].seq] = 0
              /\ queue[2].retries_left = granted[queue[2].seq] /\ granted[queue[2].seq] \in Nat
          BY <1>0, <2>5, <4>2, Typed DEF Untried
        <4>4. /\ attempts'[queue'[1].seq] = 0 /\ queue'[1].retries_left = granted[queue[2].seq]
              /\ granted'[queue'[1].seq] = granted[queue[2].seq]
          BY <1>1, <2>1, <4>3
        <4>5. \A g \in Nat : 0 + g <= g + 0
          OBVIOUS
        <4> QED
          BY <4>3, <4>4, <4>5
      <3> QED
        BY <1>5, <3>1, <3>2 DEF Budgeted
    <2> QED
      BY <1>7, <2>3, <2>4, <2>6, <2>7, <2>8, <2>9 DEF IInv
  <1>9. CASE ~Settled(queue[1])
    <2>1. /\ queue' = [queue EXCEPT ![1].retries_left = left] /\ later_timer' = TRUE
          /\ todo' = "nothing" /\ missed' = missed
      BY <1>9 DEF OnWebhookResponse, Answered
    <2>2. left \in Nat /\ (Debug => left + 1 = queue[1].retries_left)
      <3>1. queue[1].retries_left \in Nat \ {0}
        BY <1>3, <1>9 DEF Settled
      <3>2. left = IF Debug THEN queue[1].retries_left - 1 ELSE queue[1].retries_left
        BY DEF RetriesLeft
      <3>3. queue[1].retries_left - 1 \in Nat /\ (queue[1].retries_left - 1) + 1 = queue[1].retries_left
        BY <3>1
      <3> HIDE DEF left
      <3> QED
        BY <3>1, <3>2, <3>3
    <2> HIDE DEF left
    <2>3. /\ queue' \in Seq(Event) /\ Len(queue') = n
          /\ queue'[1].seq = queue[1].seq /\ queue'[1].retries_left = left
          /\ \A i \in 2..n : queue'[i] = queue[i]
          /\ \A i \in 1..n : queue'[i].seq = queue[i].seq
      <3> DEFINE charged == [queue EXCEPT ![1].retries_left = left]
      <3>1. /\ charged \in Seq(Event) /\ Len(charged) = Len(queue)
            /\ charged[1].seq = queue[1].seq /\ charged[1].retries_left = left
            /\ \A i \in 2..Len(queue) : charged[i] = queue[i]
            /\ \A i \in 1..Len(queue) : charged[i].seq = queue[i].seq
        BY <1>1, <1>2, <2>2, OldestCharged
      <3>2. queue' = charged
        BY <2>1
      <3> HIDE DEF charged
      <3> QED
        BY <3>1, <3>2
    <2>4. TypeOK'
      BY <1>2, <1>6, <2>1, <2>3
    <2>5. queue' # <<>>
      BY <1>3, <2>3, EmptySeq
    <2>6. Chain'
      BY <1>4, <2>1, <2>5 DEF Chain, Idle
    <2>7. Ordered'
      BY <1>0, <1>1, <2>3 DEF Ordered
    <2>8. Untried'
      BY <1>0, <1>1, <2>3 DEF Untried
    <2>9. Accounted'
      <3>1. missed <= dropped
        BY <1>0, <1>2 DEF Accounted
      <3>2. missed' + 0 <= dropped'
        <4>1. \A a, b \in Nat : a <= b => a + 0 <= b
          OBVIOUS
        <4>2. missed' \in Nat /\ dropped' \in Nat /\ missed' <= dropped'
          BY <1>1, <1>2, <2>1, <3>1
        <4> QED
          BY <4>1, <4>2
      <3> QED
        BY <1>5, <3>2 DEF Accounted
    <2>10. Debug => Budgeted'
      <3> SUFFICES ASSUME Debug PROVE Budgeted'
        OBVIOUS
      <3>1. RetryBudget'
        BY <1>0, <1>1 DEF Budgeted, RetryBudget
      <3>2. attempts[queue[1].seq] + queue[1].retries_left <= granted[queue[1].seq] + 1
        BY <1>0, <1>1, <1>4 DEF Budgeted
      <3>3. attempts[queue[1].seq] + left <= granted[queue[1].seq] + 0
        BY <1>3, <2>2, <3>2
      <3> QED
        BY <1>1, <1>5, <2>3, <3>1, <3>3 DEF Budgeted
    <2> QED
      BY <1>7, <2>4, <2>6, <2>7, <2>8, <2>9, <2>10 DEF IInv
  <1> QED
    BY <1>8, <1>9

\* The request ends, or its time is up.
LEMMA RequestEndKeepsIInv ==
    ASSUME IInv, NEW r \in Requests, OnRequestEnd(r) \/ OnRequestTimeout(r)
    PROVE  IInv'
  <1>0. TypeOK /\ Chain /\ Owner /\ Accounted /\ (Debug => Budgeted)
    BY DEF IInv
  <1>1. /\ UNCHANGED <<queue, later_timer, webhooks_host, webhooks_retries, ports, connected, ota_busy>>
        /\ UNCHANGED <<pushed, attempts, granted, dropped, missed>>
        /\ requests[r] # 0 /\ requests' = [requests EXCEPT ![r] = 0]
        /\ todo' \in {"response 200", "response error"}
    BY DEF OnRequestEnd, OnRequestTimeout, settings, world, history
  <1>2. requests \in [Requests -> 0..MaxEvents] /\ 0 \in 0..MaxEvents
    <2>1. MaxEvents \in Nat
      BY WebhooksAssumption
    <2>2. 0 \in 0..MaxEvents
      BY <2>1
    <2> QED
      BY <1>0, <2>2 DEF TypeOK
  <1>3. r \in InProgress /\ ~later_timer /\ queue # <<>>
    BY <1>0, <1>1 DEF InProgress, Chain
  <1>4. InProgress' = {} /\ requests' \in [Requests -> 0..MaxEvents]
    <2>1. \A s \in Requests : s # r => requests[s] = 0
      BY <1>0, <1>3 DEF Chain, InProgress
    <2> QED
      BY <1>1, <1>2, <2>1 DEF InProgress
  <1>5. Awaiting /\ Awaiting'
    BY <1>1, <1>3 DEF Awaiting
  <1>6. TypeOK'
    <2>1. todo' \in {"nothing", "process_queue", "response 200", "response error"}
      BY <1>1
    <2> QED
      BY <1>0, <1>1, <1>4, <2>1 DEF TypeOK
  <1>7. Chain' /\ Owner'
    BY <1>1, <1>3, <1>4 DEF Chain, Owner, Idle
  <1>8. Accounted' /\ (Debug => Budgeted')
    BY <1>0, <1>1, <1>5 DEF Accounted, Budgeted, RetryBudget
  <1> QED
    BY <1>1, <1>6, <1>7, <1>8, QueueKept DEF IInv

\* The settings and the rest of the firmware.
LEMMA WorldKeepsIInv ==
    ASSUME IInv, PatchWebhooks \/ WifiChanges \/ OtaChanges
    PROVE  IInv'
  <1>0. TypeOK /\ Chain /\ Owner /\ Accounted /\ (Debug => Budgeted)
    BY DEF IInv
  <1>1. UNCHANGED <<queue, later_timer, todo, requests, pushed, attempts, granted, dropped, missed>>
    BY DEF PatchWebhooks, WifiChanges, OtaChanges, history
  <1>2. InProgress' = InProgress /\ (Awaiting' <=> Awaiting) /\ todo = "nothing"
    BY <1>1 DEF InProgress, Awaiting, PatchWebhooks, WifiChanges, OtaChanges, Idle
  <1>3. webhooks_host' = webhooks_host \/ webhooks_host' \in {"good", "bad"}
    BY DEF PatchWebhooks, WifiChanges, OtaChanges, settings
  <1>4. TypeOK'
    <2>1. /\ ports' \subseteq PortIds /\ connected' \in BOOLEAN /\ ota_busy' \in BOOLEAN
          /\ webhooks_retries' \in Retries
      BY <1>0 DEF TypeOK, PatchWebhooks, WifiChanges, OtaChanges, settings, world
    <2>2. webhooks_host' \in {"unset", "good", "bad"}
      BY <1>0, <1>3 DEF TypeOK
    <2> QED
      BY <1>0, <1>1, <2>1, <2>2 DEF TypeOK
  <1>5. Chain' /\ Owner'
    BY <1>0, <1>1, <1>2, <1>3 DEF Chain, Owner, Idle
  <1>6. Accounted'
    <2>1. Awaiting => webhooks_host # "unset"
      BY <1>0, <1>2 DEF Owner, Awaiting
    <2>2. missed <= dropped
      BY <1>0, Typed DEF Accounted
    <2>3. missed' = missed /\ dropped' = dropped /\ attempts' = attempts /\ queue' = queue
      BY <1>1
    <2>4. CASE Awaiting
      <3>1. webhooks_host' # "unset"
        BY <1>3, <2>1, <2>4
      <3> QED
        BY <1>0, <1>2, <2>1, <2>3, <2>4, <3>1 DEF Accounted
    <2>5. CASE ~Awaiting
      BY <1>0, <1>2, <2>2, <2>3, <2>5, Typed DEF Accounted
    <2> QED
      BY <2>4, <2>5
  <1>7. Debug => Budgeted'
    BY <1>0, <1>1, <1>2 DEF Budgeted, RetryBudget
  <1> QED
    BY <1>1, <1>4, <1>5, <1>6, <1>7, QueueKept DEF IInv

LEMMA InitIInv == Init => IInv
  <1> SUFFICES ASSUME Init PROVE IInv
    OBVIOUS
  <1>1. /\ queue = <<>> /\ queue \in Seq(Event) /\ Len(queue) = 0 /\ InProgress = {}
        /\ MaxEvents \in Nat /\ MaxQueueLen \in Nat
    <2>1. MaxEvents \in Nat /\ MaxQueueLen \in Nat
      BY WebhooksAssumption
    <2>2. queue = <<>> /\ queue \in Seq(Event) /\ Len(queue) = 0
      BY DEF Init
    <2>3. InProgress = {}
      BY DEF Init, InProgress
    <2> QED
      BY <2>1, <2>2, <2>3
  <1>2. /\ attempts \in [1..MaxEvents -> Nat] /\ granted \in [1..MaxEvents -> Nat]
        /\ requests \in [Requests -> 0..MaxEvents] /\ pushed \in 0..MaxEvents
        /\ \A e \in 1..MaxEvents : attempts[e] = 0
    BY <1>1 DEF Init
  <1>3. TypeOK
    <2>1. Len(queue) <= MaxQueueLen
      BY <1>1
    <2>2. /\ later_timer \in BOOLEAN /\ connected \in BOOLEAN /\ ota_busy \in BOOLEAN
          /\ todo \in {"nothing", "process_queue", "response 200", "response error"}
          /\ webhooks_host \in {"unset", "good", "bad"} /\ webhooks_retries \in Retries
          /\ ports \subseteq PortIds /\ dropped \in Nat /\ missed \in Nat
      BY DEF Init
    <2> QED
      BY <1>1, <1>2, <2>1, <2>2 DEF TypeOK
  <1>4. Chain /\ Owner
    BY <1>1 DEF Init, Chain, Owner, Idle
  <1>5. Ordered /\ Untried
    BY <1>1, <1>2 DEF Ordered, Untried
  <1>6. ~Awaiting
    BY <1>1 DEF Init, Awaiting
  <1>7. Accounted
    BY <1>6 DEF Init, Accounted
  <1>8. Budgeted
    BY <1>1 DEF Init, Budgeted, RetryBudget
  <1> QED
    BY <1>3, <1>4, <1>5, <1>7, <1>8 DEF IInv

LEMMA NextKeepsIInv == IInv /\ [Next]_vars => IInv'
  <1> SUFFICES ASSUME IInv, [Next]_vars PROVE IInv'
    OBVIOUS
  <1>1. CASE UNCHANGED vars
    BY <1>1 DEF vars, history, settings, world, IInv, TypeOK, Chain, Ordered, Untried, Owner, Accounted,
                Budgeted, RetryBudget, Awaiting, InProgress, Idle
  <1>2. CASE Next
    BY <1>2, PortsKeepIInv, ProcessQueueKeepsIInv, RequestKeepsIInv, ResponseKeepsIInv,
       RequestEndKeepsIInv, WorldKeepsIInv DEF Next, Callback
  <1> QED
    BY <1>1, <1>2

LEMMA AlwaysIInv == Spec => []IInv
    BY InitIInv, NextKeepsIInv, PTL DEF Spec

-----------------------------------------------------------------------------
\* The variables keep their types, and the queue its limit (webhooks.c).
THEOREM WebhooksTypeCorrect == Spec => []TypeOK
  <1>1. IInv => TypeOK
    BY DEF IInv
  <1> QED
    BY <1>1, AlwaysIInv, PTL

\* A push, a retry and a response never start a second chain of timers and
\* requests, and on_webhook_response() always finds an event.
THEOREM AlwaysOneChain == Spec => []OneChain
  <1>1. ASSUME IInv
        PROVE  OneChain
    <2>1. CASE InProgress = {}
      <3>1. Cardinality(InProgress) = 0
        BY <2>1, FS_EmptySet
      <3> QED
        BY <1>1, <2>1, <3>1 DEF IInv, Chain, OneChain
    <2>2. CASE InProgress # {}
      <3>1. PICK r \in InProgress : InProgress = {r}
        BY <1>1, <2>2 DEF IInv, Chain
      <3>2. Cardinality(InProgress) = 1
        BY <3>1, FS_Singleton
      <3> QED
        BY <1>1, <2>2, <3>2 DEF IInv, Chain, OneChain
    <2> QED
      BY <2>1, <2>2
  <1> QED
    BY <1>1, AlwaysIInv, PTL

\* In a build that evaluates the arguments of DEBUG_WEBHOOKS(), an event is
\* requested no more often than its retries allow.
THEOREM RetriesBounded == Debug => (Spec => []RetryBudget)
  <1> SUFFICES ASSUME Debug PROVE Spec => []RetryBudget
    OBVIOUS
  <1>1. IInv => RetryBudget
    BY DEF IInv, Budgeted
  <1> QED
    BY <1>1, AlwaysIInv, PTL

\* Whatever is removed without having been requested has been displaced by the
\* late response to an event dropped from a full queue (webhooks_push_event,
\* on_webhook_response).
THEOREM LossesAlwaysAccounted == Spec => []LossesAccounted
  <1>1. ASSUME IInv
        PROVE  LossesAccounted
    <2>1. dropped \in Nat /\ missed \in Nat
      BY <1>1, Typed DEF IInv
    <2> QED
      BY <1>1, <2>1 DEF IInv, Accounted, LossesAccounted
  <1> QED
    BY <1>1, AlwaysIInv, PTL

=============================================================================
