------------------------------ MODULE Sessions ------------------------------
(***************************************************************************)
(* Long-polling event delivery: the listen sessions of sessions.c, the     *)
(* listen request of client.c, event_push() of events.c and the            *)
(* TASK_ID_LISTEN_RESPOND task of core.c, over the connections that        *)
(* tcpserver.c and httpserver.c hand to client.c.                          *)
(*                                                                         *)
(* The firmware is single threaded: a TCP callback, a timer callback or a  *)
(* task runs to completion, so each of them is one action.  What a client  *)
(* sees depends on the order in which they run.                            *)
(*                                                                         *)
(* A definition named X_Something is X with a plausible mistake; nothing   *)
(* uses it: the checks put it in the place of X to see the property that   *)
(* guards against the mistake fail.                                        *)
(***************************************************************************)
EXTENDS TaskQueue, SequencesExt

CONSTANTS
    SessionCount,     \* SESSION_COUNT
    MaxQueueLen,      \* SESSION_MAX_QUEUE_LEN
    MaxHttpRequests,  \* MAX_PARALLEL_HTTP_REQ
    SessionIds,       \* Session-Id header values that pass the validation
    NoId,             \* the zero-length id of an unused slot
    Conns,            \* client connections, by remote address and port
    NoConn,           \* NULL
    PortIds,          \* ids of the ports that may exist
    NoPort,           \* the port id of an event that is not about a port
    Activities,       \* bound: what else may go on, see the end of the actions
    EventTypes,       \* bound: the types of the events that are generated
    MaxEvents         \* bound: number of events pushed in a behaviour

ASSUME SessionsAssumption ==
    /\ SessionCount \in Nat \ {0} /\ MaxQueueLen \in Nat \ {0} /\ MaxHttpRequests \in Nat
    /\ NoId \notin SessionIds /\ NoConn \notin Conns /\ NoPort \notin PortIds
    /\ Activities \subseteq {"ota", "provisioning", "reset", "trailing bytes"} /\ MaxEvents \in Nat

VARIABLES
    sessions,       \* the slots
    tasks,          \* slots of the TASK_ID_LISTEN_RESPOND tasks posted and not yet run
    conns,          \* state of each connection, and the events of its 200 response
    ports,          \* ids of the ports that exist
    eventCount,     \* events pushed so far; numbers the events
    ota_busy,       \* what ota_busy() returns
    provisioning,   \* what config_is_provisioning() returns
    stopped         \* tcp_server_stop() was called, for a reset or for sleep

vars == <<sessions, tasks, conns, ports, eventCount, ota_busy, provisioning, stopped>>

Slots == 0..(SessionCount - 1)

VIEWONLY == 10
NORMAL   == 20
ADMIN    == 30

PortEventTypes   == {"value-change", "port-update", "port-add", "port-remove"}
DeviceEventTypes == {"device-update", "full-update"}
UpdateTypes      == {"port-update", "device-update", "full-update"}

EVENT_ACCESS_LEVELS == [type \in PortEventTypes \cup DeviceEventTypes |->
                           IF type = "device-update" THEN ADMIN ELSE VIEWONLY]

Event == [seq : Nat, type : PortEventTypes \cup DeviceEventTypes, port : PortIds \cup {NoPort}]

\* What stands in a response for an event that event_to_json() drops.
Omitted == [seq |-> 0, type |-> "port-update", port |-> NoPort]

Session == [id : SessionIds \cup {NoId}, queue : Seq(Event), access_level : {0, VIEWONLY, NORMAL, ADMIN},
            conn : Conns \cup {NoConn}, timer : BOOLEAN]

\* A connection is "refused" when on_tcp_conn() found no http context for it,
\* "open" until its request is complete, "listening" while a listen request
\* waits for events, and "answered" from its response to its end.
ConnState == [state : {"closed", "refused", "open", "listening", "answered"}, reply : Seq(Event)]

Unused == [id |-> NoId, queue |-> <<>>, access_level |-> 0, conn |-> NoConn, timer |-> FALSE]

Conn(state, reply) == [state |-> state, reply |-> reply]

Active(s)        == sessions[s].id # NoId
ContextsInUse    == {c \in Conns : conns[c].state \in {"open", "listening", "answered"}}

\* No queue outgrows its limit, whatever is pushed: SESSION_MAX_QUEUE_LEN
\* events in a session, TASK_QUEUE_SIZE tasks.
QueuesBounded ==
    /\ \A s \in Slots : Len(sessions[s].queue) <= MaxQueueLen
    /\ Len(tasks) <= TaskQueueSize

\* The types of the variables, and the limits of the queues among them.
TypeOK ==
    /\ sessions \in [Slots -> Session]
    /\ tasks \in Seq(Slots)
    /\ QueuesBounded
    /\ conns \in [Conns -> ConnState]
    /\ ports \subseteq PortIds
    /\ eventCount \in 0..MaxEvents
    /\ ota_busy \in BOOLEAN /\ provisioning \in BOOLEAN /\ stopped \in BOOLEAN

Init ==
    /\ sessions = [s \in Slots |-> Unused]
    /\ tasks = <<>>
    /\ conns = [c \in Conns |-> Conn("closed", <<>>)]
    /\ ports = PortIds
    /\ eventCount = 0
    /\ ota_busy = FALSE /\ provisioning = FALSE /\ stopped = FALSE

-----------------------------------------------------------------------------
(***************************************************************************)
(* The queue of a session, newest event first as in the linked list.       *)
(***************************************************************************)
Similar(old, new) == new.type \in UpdateTypes /\ old.type = new.type /\ old.port = new.port

\* The deduplication loop.  It frees the node it unlinks before it reads
\* n->next and keeps it as `pn`; the queue never holds two similar events
\* (QueuesConsistent), so there is at most one to unlink and `pn` is not
\* written through afterwards.
WithoutSimilar(queue, event) ==
    LET similar == {i \in 1..Len(queue) : Similar(queue[i], event)}
    IN  IF similar = {} THEN queue ELSE RemoveAt(queue, CHOOSE i \in similar : TRUE)

MakeRoom(queue) == IF Len(queue) >= MaxQueueLen THEN Front(queue) ELSE queue

session_push(queue, event) == Cons(event, MakeRoom(WithoutSimilar(queue, event)))

\* event_to_json(): a port-update or port-add needs its port to exist.
Renderable(event) == event.type \in {"port-update", "port-add"} => event.port \in ports

Rendered_NewestFirst(queue) == [i \in 1..Len(queue) |-> IF Renderable(queue[i]) THEN queue[i] ELSE Omitted]

\* pop_all_events() and the loop of session_respond(): oldest event first.
Rendered(queue) == [i \in 1..Len(queue) |-> LET event == queue[Len(queue) - i + 1]
                                            IN  IF Renderable(event) THEN event ELSE Omitted]

-----------------------------------------------------------------------------
(***************************************************************************)
(* Responses.  Each operator takes and returns the sessions, or the        *)
(* connections, in the middle of a callback.                               *)
(***************************************************************************)
\* respond_json(): the first response decides, tcpserver.c closes the
\* connection when it is sent.
Respond(cs, c, reply) ==
    IF c \in Conns /\ cs[c].state \in {"open", "listening"}
    THEN [cs EXCEPT ![c] = Conn("answered", reply)]
    ELSE cs

SessionResponded_KeepsConn(session) == IF session.conn = NoConn THEN session ELSE [session EXCEPT !.queue = <<>>]
SessionResponded_Always(session) == [session EXCEPT !.queue = <<>>, !.conn = NoConn]

\* session_respond(): nothing without a connection; else the whole queue goes.
SessionResponded(session) ==
    IF session.conn = NoConn THEN session ELSE [session EXCEPT !.queue = <<>>, !.conn = NoConn]
ConnsResponded(cs, session) == Respond(cs, session.conn, Rendered(session.queue))

-----------------------------------------------------------------------------
(***************************************************************************)
(* Connections.                                                            *)
(***************************************************************************)
\* on_tcp_conn(): without a free http context the client gets a 503.
OnTcpConn(c) ==
    /\ conns[c].state = "closed"
    /\ ~stopped
    /\ conns' = [conns EXCEPT ![c] = Conn(IF Cardinality(ContextsInUse) < MaxHttpRequests
                                          THEN "open" ELSE "refused", <<>>)]
    /\ UNCHANGED <<sessions, tasks, ports, eventCount, ota_busy, provisioning, stopped>>

\* on_tcp_disc(): the client leaves, or the server closes the connection
\* after its response (on_tcp_sent) or when the request does not complete
\* (on_http_request_timeout).
OnTcpDisc(c) ==
    /\ conns[c].state # "closed"
    /\ conns' = [conns EXCEPT ![c] = Conn("closed", <<>>)]
    /\ sessions' = [s \in Slots |->
           IF /\ conns[c].state # "refused"
              /\ Active(s) /\ sessions[s].conn = c
              /\ \A t \in Slots : t < s => ~(Active(t) /\ sessions[t].conn = c)
           THEN [sessions[s] EXCEPT !.conn = NoConn, !.timer = TRUE]
           ELSE sessions[s]]
    /\ UNCHANGED <<tasks, ports, eventCount, ota_busy, provisioning, stopped>>

\* A request answered at once, successfully or with an error, without
\* touching the sessions: a regular API call, or a listen request refused
\* because the API or an OTA is busy or its arguments are invalid.
OnOtherRequest(c) ==
    /\ conns[c].state = "open"
    /\ conns' = Respond(conns, c, <<>>)
    /\ UNCHANGED <<sessions, tasks, ports, eventCount, ota_busy, provisioning, stopped>>

\* httpserver_parse_req_char() after the end of a request without a body:
\* HTTP_STATE_INVALID and on_invalid_http_request(), a 400 response.
OnTrailingByte(c) ==
    /\ "trailing bytes" \in Activities
    /\ conns[c].state = "listening"
    /\ conns' = Respond(conns, c, <<>>)
    /\ UNCHANGED <<sessions, tasks, ports, eventCount, ota_busy, provisioning, stopped>>

-----------------------------------------------------------------------------
(***************************************************************************)
(* The listen request (on_http_request).                                   *)
(***************************************************************************)
FreeSlots == {s \in Slots : ~Active(s)}

\* The slot session_create() takes: the first free one, or slot 0.
FreeSlot == IF FreeSlots = {} THEN 0 ELSE CHOOSE s \in FreeSlots : \A t \in FreeSlots : s <= t

\* session_find_by_id() returns the first slot.
FindById(id) == CHOOSE s \in Slots : sessions[s].id = id /\ \A t \in Slots : t < s => sessions[t].id # id

\* session_respond() on the slot to take over (a slot that is not active has
\* no connection), session_dispose(), session_create(), session_reset().
ListenNewSession(c, id, access_level) ==
    /\ \A s \in Slots : sessions[s].id # id
    /\ conns' = [ConnsResponded(conns, sessions[FreeSlot]) EXCEPT ![c] = Conn("listening", <<>>)]
    /\ sessions' = [sessions EXCEPT ![FreeSlot] =
           [id |-> id, queue |-> <<>>, access_level |-> access_level, conn |-> c, timer |-> TRUE]]

ListenAgain_PendingEventsWait(c, id, access_level) ==
    /\ \E s \in Slots : sessions[s].id = id
    /\ LET s == FindById(id)
       IN  /\ sessions' = [sessions EXCEPT ![s] = [SessionResponded(@) EXCEPT
                  !.conn = c, !.access_level = access_level, !.timer = TRUE]]
           /\ conns' = [ConnsResponded(conns, sessions[s]) EXCEPT ![c] = Conn("listening", <<>>)]

\* A pending request of the session is answered; the new one is, if the
\* session still has events; session_reset().
ListenAgain(c, id, access_level) ==
    /\ \E s \in Slots : sessions[s].id = id
    /\ LET s         == FindById(id)
           replaced  == SessionResponded(sessions[s])
           continued == [replaced EXCEPT !.conn = c, !.access_level = access_level, !.timer = TRUE]
           conns1    == [ConnsResponded(conns, sessions[s]) EXCEPT ![c] = Conn("listening", <<>>)]
       IN  IF continued.queue # <<>>
           THEN /\ sessions' = [sessions EXCEPT ![s] = SessionResponded(continued)]
                /\ conns' = ConnsResponded(conns1, continued)
           ELSE /\ sessions' = [sessions EXCEPT ![s] = continued]
                /\ conns' = conns1

OnListenRequest(c) ==
    /\ conns[c].state = "open"
    /\ ~ota_busy
    /\ \E id \in SessionIds, access_level \in {VIEWONLY, ADMIN} :
           \/ ListenNewSession(c, id, access_level)
           \/ ListenAgain(c, id, access_level)
    /\ UNCHANGED <<tasks, ports, eventCount, ota_busy, provisioning, stopped>>

-----------------------------------------------------------------------------
(***************************************************************************)
(* Events.                                                                 *)
(***************************************************************************)
Addressees(type) == {s \in Slots : Active(s) /\ sessions[s].access_level >= EVENT_ACCESS_LEVELS[type]}

\* event_push() and sessions_push_event(): the event joins the queue of
\* every session entitled to it; those with a connection get a task each.
event_push(type, port) ==
    IF ota_busy \/ provisioning
    THEN UNCHANGED <<sessions, tasks, eventCount>>
    ELSE LET event == [seq |-> eventCount + 1, type |-> type, port |-> port]
         IN  /\ eventCount < MaxEvents
             /\ eventCount' = eventCount + 1
             /\ sessions' = [s \in Slots |->
                    IF s \in Addressees(type)
                    THEN [sessions[s] EXCEPT !.queue = session_push(@, event)]
                    ELSE sessions[s]]
             /\ \E woken \in InOrder({s \in Addressees(type) : sessions[s].conn # NoConn}) :
                    tasks' = system_task_schedule(tasks, woken)

PushPortEvent(port) ==
    /\ port \in ports
    /\ \E type \in EventTypes \cap {"value-change", "port-update"} : event_push(type, port)
    /\ UNCHANGED <<conns, ports, ota_busy, provisioning, stopped>>

PushDeviceEvent ==
    /\ \E type \in EventTypes \cap DeviceEventTypes : event_push(type, NoPort)
    /\ UNCHANGED <<conns, ports, ota_busy, provisioning, stopped>>

\* POST /ports (api_post_ports) and DELETE /ports/<id> (api_delete_port).
AddPort(port) ==
    /\ "port-add" \in EventTypes /\ port \notin ports
    /\ ports' = ports \cup {port}
    /\ event_push("port-add", port)
    /\ UNCHANGED <<conns, ota_busy, provisioning, stopped>>

RemovePort(port) ==
    /\ "port-remove" \in EventTypes /\ port \in ports
    /\ ports' = ports \ {port}
    /\ event_push("port-remove", port)
    /\ UNCHANGED <<conns, ota_busy, provisioning, stopped>>

\* core_task_handler(), TASK_ID_LISTEN_RESPOND: the slot may have been
\* answered, or given to another session, since the task was posted.
ListenRespondTask(s) ==
    /\ tasks # <<>> /\ Head(tasks) = s
    /\ tasks' = Tail(tasks)
    /\ IF sessions[s].queue # <<>>
       THEN /\ sessions' = [sessions EXCEPT ![s] = SessionResponded(@)]
            /\ conns' = ConnsResponded(conns, sessions[s])
       ELSE UNCHANGED <<sessions, conns>>
    /\ UNCHANGED <<ports, eventCount, ota_busy, provisioning, stopped>>

OnSessionTimeout_NoKeepAlive(s) ==
    /\ sessions[s].timer
    /\ sessions' = [sessions EXCEPT ![s] = IF @.conn = NoConn THEN Unused ELSE @]
    /\ UNCHANGED <<tasks, conns, ports, eventCount, ota_busy, provisioning, stopped>>
OnSessionTimeout_NoExpiry(s) ==
    /\ sessions[s].timer
    /\ sessions' = [sessions EXCEPT ![s] = SessionResponded(@)]
    /\ conns' = ConnsResponded(conns, sessions[s])
    /\ UNCHANGED <<tasks, ports, eventCount, ota_busy, provisioning, stopped>>

\* on_session_timeout(): keep-alive with a connection, expiry without.
OnSessionTimeout(s) ==
    /\ sessions[s].timer
    /\ IF sessions[s].conn # NoConn
       THEN /\ sessions' = [sessions EXCEPT ![s] = SessionResponded(@)]
            /\ conns' = ConnsResponded(conns, sessions[s])
       ELSE /\ sessions' = [sessions EXCEPT ![s] = Unused]
            /\ UNCHANGED conns
    /\ UNCHANGED <<tasks, ports, eventCount, ota_busy, provisioning, stopped>>

-----------------------------------------------------------------------------
(***************************************************************************)
(* The rest of the firmware.                                               *)
(***************************************************************************)
\* sessions_respond_all(): 503 to every session that has a connection.
sessions_respond_all ==
    /\ conns' = [c \in Conns |->
           IF \E s \in Slots : Active(s) /\ sessions[s].conn = c THEN Respond(conns, c, <<>>)[c] ELSE conns[c]]
    /\ sessions' = [s \in Slots |->
           IF Active(s) THEN [sessions[s] EXCEPT !.conn = NoConn, !.timer = TRUE] ELSE sessions[s]]

\* on_system_reset() and on_system_sleep(); the restart itself is not part
\* of this module.
OnSystemReset ==
    /\ "reset" \in Activities /\ ~stopped
    /\ stopped' = TRUE
    /\ sessions_respond_all
    /\ UNCHANGED <<tasks, ports, eventCount, ota_busy, provisioning>>

\* on_ota_auto_perform(), whether the new firmware is there or not, and
\* on_ota_perform() of api.c, if it is: on_ota_head_response() calls them when
\* the OTA goes on or is over.
OnOtaAutoPerform ==
    /\ ota_busy
    /\ ota_busy' \in BOOLEAN
    /\ sessions_respond_all
    /\ UNCHANGED <<tasks, ports, eventCount, provisioning, stopped>>

OtaChanges ==
    /\ "ota" \in Activities
    /\ ota_busy' = ~ota_busy
    /\ UNCHANGED <<sessions, tasks, conns, ports, eventCount, provisioning, stopped>>

ProvisioningChanges ==
    /\ "provisioning" \in Activities
    /\ provisioning' = ~provisioning
    /\ UNCHANGED <<sessions, tasks, conns, ports, eventCount, ota_busy, stopped>>

Next ==
    \/ \E c \in Conns : OnTcpConn(c) \/ OnTcpDisc(c) \/ OnOtherRequest(c)
                            \/ OnTrailingByte(c) \/ OnListenRequest(c)
    \/ \E port \in PortIds : PushPortEvent(port) \/ AddPort(port) \/ RemovePort(port)
    \/ PushDeviceEvent
    \/ \E s \in Slots : ListenRespondTask(s) \/ OnSessionTimeout(s)
    \/ OnSystemReset \/ OnOtaAutoPerform \/ OtaChanges \/ ProvisioningChanges

\* An armed os_timer fires and a posted task runs; nothing else is promised.
Fairness == \A s \in Slots : WF_vars(ListenRespondTask(s)) /\ WF_vars(OnSessionTimeout(s))

Spec     == Init /\ [][Next]_vars
FairSpec == Spec /\ Fairness

-----------------------------------------------------------------------------
(***************************************************************************)
(* Properties.                                                             *)
(***************************************************************************)
\* A connection waits for events exactly when one active session has it: a
\* session never answers a connection that is closed, answered or somebody
\* else's, and no listening client is forgotten by the sessions
\* (on_http_request, on_tcp_disc, session_create's takeover of slot 0).
ListenersAttached ==
    /\ \A s \in Slots : sessions[s].conn # NoConn => Active(s) /\ conns[sessions[s].conn].state = "listening"
    /\ \A c \in Conns : conns[c].state = "listening" => \E s \in Slots : sessions[s].conn = c
    /\ \A s, t \in Slots : sessions[s].conn # NoConn /\ sessions[s].conn = sessions[t].conn => s = t

\* A slot in use has its timer armed, or its session would never end; a slot
\* not in use has none, or it would end the next session of the slot.
TimerPerSession == \A s \in Slots : Active(s) <=> sessions[s].timer

\* The queues hold events in the order of their generation, no two of them
\* similar updates, and an unused slot has none (session_push, pop_all_events,
\* session_dispose).
QueuesConsistent ==
    \A s \in Slots :
        LET queue == sessions[s].queue
        IN  /\ \A i, j \in 1..Len(queue) : i < j => queue[i].seq > queue[j].seq /\ ~Similar(queue[j], queue[i])
            /\ ~Active(s) => queue = <<>>

\* A response lists its events in the order of their generation, however
\* they were queued, deduplicated and popped.
RepliesInOrder ==
    \A c \in Conns :
        LET reply == conns[c].reply
        IN  \A i, j \in 1..Len(reply) :
                i < j /\ reply[i] # Omitted /\ reply[j] # Omitted => reply[i].seq < reply[j].seq

\* The order of the events, from session_push() to the response.
EventsInOrder == QueuesConsistent /\ RepliesInOrder

\* A listening session with events has a task that will answer it.  Needs a
\* task queue that is never full.
NoLostWakeup ==
    \A s \in Slots : sessions[s].conn # NoConn /\ sessions[s].queue # <<>> => s \in ToSet(tasks)

\* The fates of the event at position i of the queue of slot s in a step.
Kept(s, i)       == sessions[s].queue[i] \in ToSet(sessions'[s].queue)
Delivered(s, i)  == LET c == sessions[s].conn
                        event == sessions[s].queue[i]
                    IN  /\ c # NoConn /\ conns[c].state = "listening" /\ conns'[c].state = "answered"
                        /\ event \in ToSet(conns'[c].reply) \/ ~Renderable(event)
Superseded(s, i) == \E event \in ToSet(sessions'[s].queue) :
                        event.seq = eventCount + 1 /\ Similar(sessions[s].queue[i], event)
Overflowed(s, i) == /\ i = Len(sessions[s].queue) /\ i = MaxQueueLen
                    /\ Len(sessions'[s].queue) = MaxQueueLen
Forgotten(s)     == sessions[s].conn = NoConn /\ sessions'[s].id # sessions[s].id
SuppliedLate(s, i) == /\ sessions[s].conn = NoConn /\ sessions'[s].conn = NoConn
                      /\ \E c \in Conns : /\ conns[c].state = "open" /\ conns'[c].state = "answered"
                                          /\ sessions[s].queue[i] \in ToSet(conns'[c].reply)
                                             \/ ~Renderable(sessions[s].queue[i])

\* An event leaves a queue only because it was handed to the session's
\* waiting client or to the one that comes back for it, because a similar
\* newer one replaced it, because it was the oldest of a full queue, or with
\* a session that had no client waiting.
NoSilentLoss ==
    [][\A s \in Slots : \A i \in 1..Len(sessions[s].queue) :
          Kept(s, i) \/ Delivered(s, i) \/ SuppliedLate(s, i) \/ Superseded(s, i) \/ Overflowed(s, i) \/ Forgotten(s)]_vars

\* Every listen request gets its response, or its client leaves, even when
\* the task that should have answered it was lost: the keep-alive does.
ListenAnswered == \A c \in Conns : conns[c].state = "listening" ~> conns[c].state # "listening"

\* A session whose client does not come back frees its slot.
AbandonedFreed == \A s \in Slots : (Active(s) /\ sessions[s].conn = NoConn) ~> (~Active(s) \/ sessions[s].conn # NoConn)

=============================================================================
