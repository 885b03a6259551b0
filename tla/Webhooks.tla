------------------------------ MODULE Webhooks ------------------------------
(***************************************************************************)
(* webhooks.c: events posted, one after the other and with retries, to an  *)
(* HTTP server, through httpclient.c.                                      *)
(*                                                                         *)
(* The functions of webhooks.c call each other, and httpclient.c may call  *)
(* on_webhook_response() before httpclient_request() returns.  `todo` holds *)
(* the call that the running callback makes next; everything else waits    *)
(* until it is "nothing", because callbacks run to completion.             *)
(*                                                                         *)
(* All the state is in RAM: a restart is a return to Init.                 *)
(***************************************************************************)
EXTENDS Integers, Sequences, SequencesExt, FiniteSetsExt

CONSTANTS
    MaxQueueLen,   \* WEBHOOKS_MAX_QUEUE_LEN
    Retries,       \* the values of webhooks_retries
    Requests,      \* the request_args_t blocks in use at a time
    PortIds,       \* ids of the ports that may exist
    NoPort,        \* the port id of an event that needs none
    Debug,         \* the build defines _DEBUG and _DEBUG_WEBHOOKS
    Activities,    \* bound: what else may go on, see the end of the actions
    MaxEvents      \* bound: number of events pushed in a behaviour

ASSUME WebhooksAssumption ==
    /\ MaxQueueLen \in Nat \ {0, 1} /\ MaxEvents \in Nat
    /\ Retries \subseteq Nat /\ Retries # {}
    /\ NoPort \notin PortIds /\ Debug \in BOOLEAN
    /\ Activities \subseteq {"ota", "ports", "wifi", "patch", "bad host"}

VARIABLES
    queue,              \* the queued events, oldest first
    later_timer,        \* later_timer is armed
    todo,               \* what the running callback does next
    requests,           \* requests that have not called on_webhook_response yet
    webhooks_host,      \* "unset": NULL; "bad": gives a URL httpclient.c refuses
    webhooks_retries,
    ports, connected, ota_busy,
    pushed,             \* number of events pushed so far; numbers the events
    attempts, granted,  \* history: requests made for an event, retries it was given
    dropped, missed     \* history: events dropped while their request was pending,
                        \* and removed by a response though never requested

history  == <<pushed, attempts, granted, dropped, missed>>
settings == <<webhooks_host, webhooks_retries>>
world    == <<ports, connected, ota_busy>>
vars     == <<queue, later_timer, todo, requests, settings, world, history>>

Event == [seq : 1..MaxEvents, port : PortIds \cup {NoPort}, retries_left : Nat]

\* The types of the variables, and the limit of the queue.
TypeOK ==
    /\ queue \in Seq(Event) /\ Len(queue) <= MaxQueueLen
    /\ later_timer \in BOOLEAN /\ connected \in BOOLEAN /\ ota_busy \in BOOLEAN
    /\ todo \in {"nothing", "process_queue", "response 200", "response error"}
    /\ requests \in [Requests -> 0..MaxEvents]
    /\ webhooks_host \in {"unset", "good", "bad"} /\ webhooks_retries \in Retries
    /\ ports \subseteq PortIds
    /\ pushed \in 0..MaxEvents /\ dropped \in Nat /\ missed \in Nat
    /\ attempts \in [1..MaxEvents -> Nat] /\ granted \in [1..MaxEvents -> Nat]

Init ==
    /\ queue = <<>> /\ later_timer = FALSE /\ todo = "nothing"
    /\ requests = [r \in Requests |-> 0]
    /\ webhooks_host \in {"unset", "good"} /\ webhooks_retries \in Retries
    /\ ports = PortIds /\ connected \in BOOLEAN /\ ota_busy = FALSE
    /\ pushed = 0 /\ dropped = 0 /\ missed = 0
    /\ attempts = [e \in 1..MaxEvents |-> 0] /\ granted = [e \in 1..MaxEvents |-> 0]

Idle == todo = "nothing"
Pending(e) == \E r \in Requests : requests[r] = e
Queued == {queue[i].seq : i \in 1..Len(queue)}

-----------------------------------------------------------------------------
(***************************************************************************)
(* The queue.                                                              *)
(***************************************************************************)
StartsProcessing_Always(q) == TRUE

\* webhooks_push_event() starts the processing for a queue of one only: a
\* longer one is expected to be in processing already.
StartsProcessing(q) == Len(q) = 1

\* The oldest event of a full queue goes, even if it is the one whose request
\* is pending.
MakeRoom(q) == IF Len(q) >= MaxQueueLen THEN Tail(q) ELSE q

webhooks_push_event(port) ==
    LET room == MakeRoom(queue)
    IN  /\ pushed < MaxEvents
        /\ pushed' = pushed + 1
        /\ queue' = Append(room, [seq |-> pushed + 1, port |-> port, retries_left |-> webhooks_retries])
        /\ granted' = [granted EXCEPT ![pushed + 1] = webhooks_retries]
        /\ dropped' = IF room # queue /\ Pending(Head(queue).seq) THEN dropped + 1 ELSE dropped
        /\ todo' = IF StartsProcessing(queue') THEN "process_queue" ELSE "nothing"

\* event_push(), with webhooks enabled for the type of the event: one that is
\* about a port and needs it later, port-update or port-add, or another one.
PushEvent ==
    /\ Idle /\ ~ota_busy
    /\ \E port \in ports \cup {NoPort} : webhooks_push_event(port)
    /\ UNCHANGED <<later_timer, requests, settings, world, attempts, missed>>

\* DELETE /ports/<id>, the port-remove event it pushes included.
RemovePort(port) ==
    /\ Idle /\ "ports" \in Activities /\ port \in ports
    /\ ports' = ports \ {port}
    /\ IF ota_busy
       THEN UNCHANGED <<queue, pushed, granted, dropped, todo>>
       ELSE webhooks_push_event(NoPort)
    /\ UNCHANGED <<later_timer, requests, settings, connected, ota_busy, attempts, missed>>

\* POST /ports, and its port-add event.
AddPort(port) ==
    /\ Idle /\ "ports" \in Activities /\ port \notin ports
    /\ ports' = ports \cup {port}
    /\ IF ota_busy
       THEN UNCHANGED <<queue, pushed, granted, dropped, todo>>
       ELSE webhooks_push_event(port)
    /\ UNCHANGED <<later_timer, requests, settings, connected, ota_busy, attempts, missed>>

\* process_queue() up to its request.
Skipped == queue = <<>> \/ ota_busy

ProcessQueueSkips ==
    /\ todo = "process_queue" /\ Skipped
    /\ todo' = "nothing"
    /\ UNCHANGED <<queue, later_timer, requests, settings, world, history>>

ProcessQueueWaits_NoTimer ==
    /\ todo = "process_queue" /\ ~Skipped /\ ~connected
    /\ todo' = "nothing"
    /\ UNCHANGED <<queue, later_timer, requests, settings, world, history>>

\* process_queue() without a network: process_queue_later().
ProcessQueueWaits ==
    /\ todo = "process_queue" /\ ~Skipped /\ ~connected
    /\ later_timer' = TRUE
    /\ todo' = "nothing"
    /\ UNCHANGED <<queue, requests, settings, world, history>>

\* do_webhook_request() without a host or path makes up a 200; for an event
\* that event_to_json() drops, or a URL that httpclient_request() refuses,
\* it makes no request and there is no response.
ProcessQueueNoRequest ==
    /\ todo = "process_queue" /\ ~Skipped /\ connected
    /\ \/ /\ webhooks_host = "unset"
          /\ todo' = "response 200"
       \/ /\ webhooks_host # "unset"
          /\ webhooks_host = "bad" \/ Head(queue).port \notin ports \cup {NoPort}
          /\ todo' = "nothing"
    /\ UNCHANGED <<queue, later_timer, requests, settings, world, history>>

\* do_webhook_request() and httpclient_request(): the name of the host is
\* being resolved or the connection being made, or it has failed at once.
\* (http_raw_request() then arms the timer of the request it has freed, which
\* is undefined behaviour; what the timer may do is left out.)
ProcessQueueRequests ==
    /\ todo = "process_queue" /\ ~Skipped /\ connected
    /\ webhooks_host = "good" /\ Head(queue).port \in ports \cup {NoPort}
    /\ \/ /\ todo' = "nothing"
          /\ \E r \in Requests : requests[r] = 0 /\ requests' = [requests EXCEPT ![r] = Head(queue).seq]
       \/ /\ todo' = "response error"
          /\ UNCHANGED requests
    /\ attempts' = [attempts EXCEPT ![Head(queue).seq] = @ + 1]
    /\ UNCHANGED <<queue, later_timer, settings, world, pushed, granted, dropped, missed>>

OnProcessQueueLater ==
    /\ Idle /\ later_timer
    /\ later_timer' = FALSE
    /\ todo' = "process_queue"
    /\ UNCHANGED <<queue, requests, settings, world, history>>

-----------------------------------------------------------------------------
(***************************************************************************)
(* The response.                                                           *)
(***************************************************************************)
Settled_OneMore(event) == todo = "response 200" \/ event.retries_left + 1 = 0

\* The event leaves the queue.
Settled(event) == todo = "response 200" \/ event.retries_left = 0

\* The retries left after an unsuccessful one.  They are counted in the
\* arguments of DEBUG_WEBHOOKS(), which a build without it does not evaluate.
RetriesLeft(event) == IF Debug THEN event.retries_left - 1 ELSE event.retries_left

Answered_Newest(q) == Len(q)

\* on_webhook_response() takes the oldest event for the one it is about.
Answered(q) == 1

OnWebhookResponse ==
    /\ todo \in {"response 200", "response error"} /\ queue # <<>>
    /\ LET i     == Answered(queue)
           event == queue[i]
           rest  == RemoveAt(queue, i)
       IN  IF Settled(event)
           THEN /\ queue' = rest
                /\ todo' = IF rest # <<>> THEN "process_queue" ELSE "nothing"
                /\ missed' = IF attempts[event.seq] = 0 /\ webhooks_host # "unset" THEN missed + 1 ELSE missed
                /\ UNCHANGED later_timer
           ELSE /\ queue' = [queue EXCEPT ![i].retries_left = RetriesLeft(event)]
                /\ todo' = "nothing"
                /\ later_timer' = TRUE
                /\ UNCHANGED missed
    /\ UNCHANGED <<requests, settings, world, pushed, attempts, granted, dropped>>

\* disconnect_callback(), error_callback() or dns_callback() of httpclient.c.
OnRequestEnd(r) ==
    /\ Idle /\ requests[r] # 0
    /\ requests' = [requests EXCEPT ![r] = 0]
    /\ todo' \in {"response 200", "response error"}
    /\ UNCHANGED <<queue, later_timer, settings, world, history>>

\* timeout_callback(): calls the callback, then forgets it, so that the
\* disconnection that follows does not call it again.
OnRequestTimeout(r) ==
    /\ Idle /\ requests[r] # 0
    /\ requests' = [requests EXCEPT ![r] = 0]
    /\ todo' = "response error"
    /\ UNCHANGED <<queue, later_timer, settings, world, history>>

-----------------------------------------------------------------------------
(***************************************************************************)
(* The rest of the firmware.                                               *)
(***************************************************************************)
\* PATCH /webhooks with valid fields.
PatchWebhooks ==
    /\ Idle /\ "patch" \in Activities
    /\ webhooks_host' \in IF "bad host" \in Activities THEN {"good", "bad"} ELSE {"good"}
    /\ webhooks_retries' \in Retries
    /\ UNCHANGED <<queue, later_timer, todo, requests, world, history>>

WifiChanges ==
    /\ Idle /\ "wifi" \in Activities
    /\ connected' = ~connected
    /\ UNCHANGED <<queue, later_timer, todo, requests, settings, ports, ota_busy, history>>

OtaChanges ==
    /\ Idle /\ "ota" \in Activities
    /\ ota_busy' = ~ota_busy
    /\ UNCHANGED <<queue, later_timer, todo, requests, settings, ports, connected, history>>

Callback ==
    \/ ProcessQueueSkips \/ ProcessQueueWaits \/ ProcessQueueNoRequest \/ ProcessQueueRequests
    \/ OnWebhookResponse

Next ==
    \/ Callback
    \/ PushEvent
    \/ \E port \in PortIds : RemovePort(port) \/ AddPort(port)
    \/ OnProcessQueueLater
    \/ \E r \in Requests : OnRequestEnd(r) \/ OnRequestTimeout(r)
    \/ PatchWebhooks \/ WifiChanges \/ OtaChanges

\* A callback runs to its end, and armed timers fire: later_timer and the one
\* of every request.  Nothing is promised of the server or the network.
Fairness ==
    /\ WF_vars(Callback)
    /\ WF_vars(OnProcessQueueLater)
    /\ \A r \in Requests : WF_vars(OnRequestTimeout(r))

Spec     == Init /\ [][Next]_vars
FairSpec == Spec /\ Fairness

-----------------------------------------------------------------------------
(***************************************************************************)
(* Properties.                                                             *)
(***************************************************************************)
InProgress == {r \in Requests : requests[r] # 0}

\* The queue is worked on by one chain of calls, timers and requests at a
\* time, whatever starts one (a push, a retry, a response), and the chain
\* never finds the queue empty: on_webhook_response() reads the oldest event
\* without looking whether there is one.
OneChain ==
    /\ Cardinality(InProgress) + (IF later_timer THEN 1 ELSE 0) + (IF Idle THEN 0 ELSE 1) <= 1
    /\ InProgress # {} \/ later_timer \/ ~Idle => queue # <<>>

\* An event is requested once, and at most as many times more as
\* webhooks_retries said when it was pushed: whatever drops, responses to
\* dropped events and changes of the setting come in between.  (For a build
\* with Debug; the released firmware is one without.)
RetryBudget == \A e \in 1..pushed : attempts[e] <= granted[e] + 1

\* A response removes an event that was never requested only if it is the
\* response to an event dropped from a full queue, one for each such drop.
LossesAccounted == missed <= dropped

\* In a build with Debug, as long as the network stays, no OTA is under way,
\* every port still exists and a URL can be made, every event leaves the
\* queue, sent or given up.
EventuallySettled ==
    (<>[]connected /\ []~ota_busy /\ [](ports = PortIds) /\ [](webhooks_host # "bad"))
        => \A e \in 1..MaxEvents : e \in Queued ~> e \notin Queued

\* A queue that holds events is being worked on, unless an OTA is under way:
\* what the push of an event to a queue that is not empty relies on.
NoStall == queue # <<>> /\ ~ota_busy => InProgress # {} \/ later_timer \/ ~Idle

=============================================================================
