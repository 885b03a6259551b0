----------------------------- MODULE HttpServer -----------------------------
(***************************************************************************)
(* The path of a request from a TCP connection to on_http_request(), and   *)
(* of its response back: tcpserver.c, the request parser of httpserver.c   *)
(* and the http contexts of client.c.  What a request does is in the       *)
(* modules Dispatch, Sessions and AsyncApi; here a request is answered at  *)
(* once or later, with some number of packets.                             *)
(*                                                                         *)
(* Bytes are one-character strings, with "SP", "CR" and "LF" for the white *)
(* space.  A TCP segment is parsed byte by byte in one callback; the model *)
(* lets every byte come in a segment of its own, which is legal and the    *)
(* finest interleaving.                                                    *)
(*                                                                         *)
(* A definition named X_Something is X with a plausible mistake; nothing   *)
(* uses it: the checks put it in the place of X to see the property that   *)
(* guards against the mistake fail.                                        *)
(***************************************************************************)
EXTENDS SequencesExt

CONSTANTS
    Slots,           \* indices of http_contexts
    NoSlot,          \* the NULL that on_tcp_conn() returns
    Conns,           \* client connections, by remote address and port
    NoConn,          \* NULL
    Messages,        \* bound: what each client may send: [bytes, request], with
                     \* request NotARequest if the bytes are not a request
    NotARequest,
    MaxBodyLen,      \* HTTP_MAX_BODY_LEN
    MaxFieldLen,     \* HTTP_MAX_PATH_LEN and the limits of the other fields, as one
    ResponseLens,    \* bound: lengths of responses, in packets of SEND_PACKET_SIZE
    MaxRefusals      \* bound: calls of espconn_send() that fail

ASSUME HttpServerAssumption ==
    /\ Slots \subseteq Nat /\ NoSlot \notin Slots /\ NoConn \notin Conns
    /\ MaxBodyLen \in Nat /\ MaxFieldLen \in Nat /\ MaxRefusals \in Nat
    /\ ResponseLens \subseteq Nat \ {0}

VARIABLES
    http_contexts,   \* the httpserver_context_t of each slot
    links,           \* each connection, as seen by tcpserver.c and by its client
    refusals         \* calls of espconn_send() that failed so far

vars == <<http_contexts, links, refusals>>

Alpha  == {"G", "P", "n", "L"}           \* isalpha()
Digits == [d \in {"0", "1", "2", "3"} |-> CASE d = "0" -> 0 [] d = "1" -> 1 [] d = "2" -> 2 [] OTHER -> 3]
Space  == {"SP", "CR", "LF"}             \* isspace()

\* The name of the header that tells the length of the body.
ContentLength == <<"L">>

-----------------------------------------------------------------------------
(***************************************************************************)
(* The parser (httpserver.c).                                              *)
(***************************************************************************)
\* A context after httpserver_context_reset(): memset() but for the slot index.
\* "called" is the call that the parsing of the last byte has made.
Idle == [req_state |-> "IDLE", method |-> <<>>, path |-> <<>>, query |-> <<>>,
         header_name |-> <<>>, header_value |-> <<>>, headers |-> <<>>,
         content_length |-> 0, body |-> <<>>, timer |-> FALSE, arg |-> NoConn, called |-> "none"]

append_max_len(s, c) == IF Len(s) < MaxFieldLen THEN Append(s, c) ELSE s

\* strtol() of a header value: these have one digit, or none.
Value(s) == IF s # <<>> /\ Head(s) \in DOMAIN Digits THEN Digits[Head(s)] ELSE 0

To(hc, state)      == [hc EXCEPT !.req_state = state]
handle_invalid(hc) == [hc EXCEPT !.req_state = "INVALID", !.called = "invalid_callback"]
handle_request(hc) == [hc EXCEPT !.timer = FALSE, !.called = "request_callback"]

NameStarts(hc, c) == [To(hc, "HEADER_NAME") EXCEPT !.header_name = append_max_len(@, c)]

handle_header_value_ready(hc) ==
    [hc EXCEPT !.content_length = IF hc.header_name = ContentLength THEN Value(hc.header_value) ELSE @,
               !.headers = Append(@, <<hc.header_name, hc.header_value>>),
               !.header_name = <<>>, !.header_value = <<>>]

InMethod(hc, c) ==
    CASE c \in Alpha -> [To(hc, "METHOD") EXCEPT !.method = append_max_len(@, c)]
      [] c \in Space /\ hc.req_state = "METHOD" -> To(hc, "METHOD_READY")
      [] OTHER -> handle_invalid(hc)

InPath(hc, c) ==
    CASE c = "?" -> To(hc, "QUERY")
      [] c = "#" -> To(hc, "FRAGMENT")
      [] c \in Space -> To(hc, "FRAGMENT_READY")
      [] OTHER -> [hc EXCEPT !.path = append_max_len(@, c)]

InQuery(hc, c) ==
    CASE c = "#" -> To(hc, "FRAGMENT")
      [] c \in Space -> To(hc, "FRAGMENT_READY")
      [] OTHER -> [hc EXCEPT !.query = append_max_len(@, c)]

InHeaderName(hc, c) ==
    IF c \in Space \cup {":"}
    THEN To(hc, "HEADER_NAME_READY")
    ELSE [hc EXCEPT !.header_name = append_max_len(@, c)]

InHeaderValue(hc, c) ==
    CASE c = "CR" -> To(handle_header_value_ready(hc), "HEADER_VALUE_READY")
      [] c = "LF" -> To(handle_header_value_ready(hc), "HEADER_VALUE_READY_NL")
      [] OTHER    -> [hc EXCEPT !.header_value = append_max_len(@, c)]

\* After a header line: the next header or, at a second newline, the end.
AfterNewline(hc, c) ==
    CASE c \notin Space -> NameStarts(hc, c)
      [] c \in Space \ {"LF"} -> hc
      [] c = "LF" /\ hc.content_length = 0 -> handle_request(To(hc, "HEADER_READY"))
      [] c = "LF" /\ hc.content_length = 1 -> To(hc, "BODY")
      [] OTHER -> To(hc, "HEADER_READY")

InBody(hc, c) ==
    CASE Len(hc.body) >= MaxBodyLen -> handle_invalid(hc)
      [] Len(hc.body) < MaxBodyLen /\ Len(hc.body) + 1 >= hc.content_length ->
             handle_request([To(hc, "BODY_READY") EXCEPT !.body = Append(@, c)])
      [] OTHER -> [hc EXCEPT !.body = Append(@, c)]

\* The first byte of a body, but for a body of one byte, which is InBody's.
AfterHeader(hc, c) ==
    IF hc.content_length = 0 THEN handle_invalid(hc) ELSE [To(hc, "BODY") EXCEPT !.body = <<c>>]

httpserver_parse_req_char(context, c) ==
    LET hc == [context EXCEPT !.called = "none"]
    IN  CASE hc.req_state \in {"IDLE", "NEW", "METHOD"} -> InMethod(hc, c)
          [] hc.req_state = "INVALID"          -> handle_invalid(hc)
          [] hc.req_state = "METHOD_READY"     ->
                 IF c = "/" THEN [To(hc, "PATH") EXCEPT !.path = append_max_len(@, c)] ELSE hc
          [] hc.req_state = "PATH"             -> InPath(hc, c)
          [] hc.req_state = "QUERY"            -> InQuery(hc, c)
          [] hc.req_state = "FRAGMENT"         -> IF c \in Space THEN To(hc, "FRAGMENT_READY") ELSE hc
          [] hc.req_state = "FRAGMENT_READY"   -> IF c \in Space THEN hc ELSE To(hc, "PROTO")
          [] hc.req_state = "PROTO"            -> IF c \in Space THEN To(hc, "PROTO_READY") ELSE hc
          [] hc.req_state = "PROTO_READY"      -> IF c \in Space THEN hc ELSE NameStarts(hc, c)
          [] hc.req_state = "HEADER_NAME"      -> InHeaderName(hc, c)
          [] hc.req_state = "HEADER_NAME_READY" ->
                 IF c \in Space THEN hc
                 ELSE [To(hc, "HEADER_VALUE") EXCEPT !.header_value = append_max_len(@, c)]
          [] hc.req_state = "HEADER_VALUE"     -> InHeaderValue(hc, c)
          [] hc.req_state = "HEADER_VALUE_READY" ->
                 CASE c = "LF" -> To(hc, "HEADER_VALUE_READY_NL")
                   [] c \in Space \ {"LF"} -> hc
                   [] OTHER -> NameStarts(hc, c)
          [] hc.req_state = "HEADER_VALUE_READY_NL" -> AfterNewline(hc, c)
          [] hc.req_state = "HEADER_READY"     -> AfterHeader(hc, c)
          [] hc.req_state = "BODY"             -> InBody(hc, c)
          [] hc.req_state = "BODY_READY"       -> hc

-----------------------------------------------------------------------------
(***************************************************************************)
(* Connections (tcpserver.c).                                              *)
(***************************************************************************)
\* The connection c: the slot that is the app_info of its conn_info_t; the
\* packets of the response in send_buffer that are still to be sent; whether
\* a packet given to espconn_send() has not been reported as sent; whether
\* espconn_disconnect() was called.  Of the client: the message it sends and
\* the part still to come.  History: the length of the response that is on
\* its way and the packets of it accepted; the request that came out; whether
\* a packet was refused; whether the request timed out; whether it waits for an
\* answer that the program has no means to give.
Closed == [open |-> FALSE, slot |-> NoSlot, rest |-> 0, unsent |-> FALSE, closing |-> FALSE,
           waits |-> FALSE, message |-> NotARequest, todo |-> <<>>,
           len |-> 0, sent |-> 0, request |-> NotARequest, refused |-> FALSE, late |-> FALSE,
           forgotten |-> FALSE]

Init ==
    /\ http_contexts = [s \in Slots |-> Idle]
    /\ links = [c \in Conns |-> Closed]
    /\ refusals = 0

\* espconn_send(), of the SDK: one packet at a time; it may be out of memory.
espconn_send(link, accepted) ==
    IF link.unsent \/ ~accepted
    THEN [link EXCEPT !.refused = TRUE]
    ELSE [link EXCEPT !.unsent = TRUE, !.sent = @ + 1]

\* tcp_send() of a response of n packets.  Without a conn_info_t, that is
\* from on_tcp_conn(), it is sent in one shot.
tcp_send(link, n, accepted) ==
    IF link.rest > 0 THEN link
    ELSE [espconn_send([link EXCEPT !.len = IF link.unsent THEN @ ELSE n], accepted) EXCEPT
              !.rest = n - 1]

\* Whether the next call of espconn_send() is accepted.
Acceptances == {a \in BOOLEAN : a \/ refusals < MaxRefusals}
Counted(accepted) == refusals' = IF accepted THEN refusals ELSE refusals + 1

FreeSlots == {s \in Slots : http_contexts[s].req_state = "IDLE"}
FirstFree_First == CHOOSE s \in Slots : \A t \in Slots : s <= t
FirstFree == CHOOSE s \in FreeSlots : \A t \in FreeSlots : s <= t

OnClientConnection_NoTimer(c, message, accepted) ==
    /\ ~links[c].open
    /\ FreeSlots # {}
    /\ links' = [links EXCEPT ![c] =
           [Closed EXCEPT !.open = TRUE, !.message = message, !.todo = message.bytes, !.slot = FirstFree]]
    /\ http_contexts' = [http_contexts EXCEPT ![FirstFree] = [Idle EXCEPT !.req_state = "NEW", !.arg = c]]
    /\ UNCHANGED refusals

\* on_client_connection() and on_tcp_conn(): a context and its timer, or a 503
\* without a free context or with too little memory (MIN_HTTP_FREE_MEM).
OnClientConnection(c, message, accepted) ==
    /\ ~links[c].open
    /\ LET link == [Closed EXCEPT !.open = TRUE, !.message = message, !.todo = message.bytes]
       IN  \/ /\ FreeSlots # {}
              /\ links' = [links EXCEPT ![c] = [link EXCEPT !.slot = FirstFree]]
              /\ http_contexts' = [http_contexts EXCEPT ![FirstFree] =
                     [Idle EXCEPT !.req_state = "NEW", !.arg = c, !.timer = TRUE]]
              /\ UNCHANGED refusals
           \/ /\ links' = [links EXCEPT ![c] = tcp_send(link, 1, accepted)]
              /\ Counted(accepted)
              /\ UNCHANGED http_contexts

\* What came out of the parser, as on_http_request() gets it.
Request(hc) == [method |-> hc.method, path |-> hc.path, query |-> hc.query,
                headers |-> hc.headers, body |-> hc.body]

\* on_client_recv(), on_tcp_recv() and what the parser calls: a 400, or a
\* request that is answered at once, or waits.  The one that may wait for ever is
\* a PATCH /firmware whose URL httpclient.c refuses or that comes during an OTA:
\* api_patch_firmware() does not look at what ota_perform_url() returns.
OnClientRecv(c, n, accepted) ==
    /\ links[c].open /\ links[c].todo # <<>>
    /\ LET link == [links[c] EXCEPT !.todo = Tail(@)]
           s    == link.slot
           hc   == IF s = NoSlot THEN Idle
                   ELSE httpserver_parse_req_char(http_contexts[s], Head(links[c].todo))
       IN  /\ http_contexts' = IF s = NoSlot THEN http_contexts ELSE [http_contexts EXCEPT ![s] = hc]
           /\ \/ /\ hc.called = "none"
                 /\ links' = [links EXCEPT ![c] = link]
                 /\ UNCHANGED refusals
              \/ /\ hc.called = "invalid_callback"
                 /\ links' = [links EXCEPT ![c] = tcp_send(link, 1, accepted)]
                 /\ Counted(accepted)
              \/ /\ hc.called = "request_callback"
                 /\ links' = [links EXCEPT ![c] = tcp_send([link EXCEPT !.request = Request(hc)], n, accepted)]
                 /\ Counted(accepted)
              \/ /\ hc.called = "request_callback"
                 /\ \E forgotten \in BOOLEAN : links' = [links EXCEPT ![c] =
                        [link EXCEPT !.request = Request(hc), !.waits = TRUE, !.forgotten = forgotten]]
                 /\ UNCHANGED refusals

\* The response of a listen request or of an asynchronous API call.  A request
\* that is forgotten gets one only if the callback of another call is taken for
\* its own (on_ota_perform()).
AnswerLater(c, n, accepted) ==
    /\ links[c].waits
    /\ links' = [links EXCEPT ![c] = tcp_send([@ EXCEPT !.waits = FALSE], n, accepted)]
    /\ Counted(accepted)
    /\ UNCHANGED http_contexts

OnClientSent_DropsLast(c, accepted) ==
    /\ links[c].open /\ links[c].unsent
    /\ LET link == [links[c] EXCEPT !.unsent = FALSE]
       IN  links' = [links EXCEPT ![c] =
               IF link.rest <= 1 THEN [link EXCEPT !.closing = TRUE]
               ELSE [espconn_send(link, TRUE) EXCEPT !.rest = @ - 1]]
    /\ UNCHANGED <<refusals, http_contexts>>

\* on_client_sent(): the next packet or, when there is none, on_tcp_sent().
\* A packet that is refused is the last one that is tried.
OnClientSent(c, accepted) ==
    /\ links[c].open /\ links[c].unsent
    /\ LET link == [links[c] EXCEPT !.unsent = FALSE]
           sent == espconn_send(link, accepted)
       IN  \/ /\ link.rest = 0
              /\ links' = [links EXCEPT ![c] = [link EXCEPT !.closing = TRUE]]
              /\ UNCHANGED refusals
           \/ /\ link.rest > 0
              /\ links' = [links EXCEPT ![c] =
                     [sent EXCEPT !.rest = IF accepted THEN link.rest - 1 ELSE 0]]
              /\ Counted(accepted)
    /\ UNCHANGED http_contexts

\* on_http_request_timeout() by way of handle_request_timeout().
OnRequestTimeout(s) ==
    /\ http_contexts[s].timer
    /\ http_contexts' = [http_contexts EXCEPT ![s].timer = FALSE]
    /\ links' = [links EXCEPT ![http_contexts[s].arg].closing = TRUE,
                              ![http_contexts[s].arg].late = TRUE]
    /\ UNCHANGED refusals

OnClientDisconnect_KeepsContext(c) ==
    /\ links[c].open
    /\ links' = [links EXCEPT ![c] = Closed]
    /\ UNCHANGED <<http_contexts, refusals>>

\* on_client_disconnect(), also called by on_client_error(): on_tcp_disc()
\* resets the context, and the response that waits is cancelled.
OnClientDisconnect(c) ==
    /\ links[c].open
    /\ links' = [links EXCEPT ![c] = Closed]
    /\ http_contexts' = [s \in Slots |-> IF s = links[c].slot THEN Idle ELSE http_contexts[s]]
    /\ UNCHANGED refusals

\* The end of a connection that the server has closed.
Disconnects(c) == links[c].closing /\ OnClientDisconnect(c)

Next ==
    \/ \E c \in Conns, accepted \in Acceptances :
           \/ \E message \in Messages[c] : OnClientConnection(c, message, accepted)
           \/ \E n \in ResponseLens : OnClientRecv(c, n, accepted) \/ AnswerLater(c, n, accepted)
           \/ OnClientSent(c, accepted)
    \/ \E s \in Slots : OnRequestTimeout(s)
    \/ \E c \in Conns : OnClientDisconnect(c)

\* The SDK reports every packet sent and every disconnection, timers fire, and
\* a request that waits and is not forgotten is answered: a listen request when
\* its session times out (ListenAnswered of Sessions), an API call when its
\* operation ends (AsyncAnswered of AsyncApi).
Fairness ==
    /\ \A c \in Conns :
           /\ WF_vars(\E accepted \in Acceptances : OnClientSent(c, accepted))
           /\ WF_vars(\E n \in ResponseLens, accepted \in Acceptances :
                          ~links[c].forgotten /\ AnswerLater(c, n, accepted))
           /\ WF_vars(Disconnects(c))
    /\ \A s \in Slots : WF_vars(OnRequestTimeout(s))

Spec     == Init /\ [][Next]_vars
FairSpec == Spec /\ Fairness

-----------------------------------------------------------------------------
(***************************************************************************)
(* Properties.                                                             *)
(***************************************************************************)
\* A context belongs to one connection for exactly as long as this is open:
\* none is shared, none leaks, and its timer and its callbacks go to its own
\* connection (on_tcp_conn, on_tcp_disc, httpserver_context_reset).
ContextsOwned ==
    /\ \A s \in Slots : http_contexts[s].req_state # "IDLE" =>
           links[http_contexts[s].arg].open /\ links[http_contexts[s].arg].slot = s
    /\ \A c \in Conns : links[c].slot # NoSlot =>
           http_contexts[links[c].slot].req_state # "IDLE" /\ http_contexts[links[c].slot].arg = c
    /\ \A s \in Slots : http_contexts[s].timer => http_contexts[s].req_state # "IDLE"

\* run[i] is what a context becomes by the first i bytes.
IsRun(bytes, run) ==
    /\ run[0] = [Idle EXCEPT !.req_state = "NEW"]
    /\ \A i \in 1..Len(bytes) : run[i] = httpserver_parse_req_char(run[i - 1], bytes[i])

\* The parser takes the bytes of m in one go for the request of m, at the last
\* one; or does not take them for a request, if they are none.
Reads(m, run) ==
    /\ IsRun(m.bytes, run)
    /\ \A i \in 1..Len(m.bytes) :
           IF m.request = NotARequest THEN run[i].called # "request_callback"
           ELSE IF i < Len(m.bytes) THEN run[i].called = "none"
           ELSE run[i].called = "request_callback" /\ Request(run[i]) = m.request

\* However the bytes of a request arrive, on_http_request() gets the method,
\* path, query, headers and body that the client has sent, once it has sent
\* them all and not before; and nothing for bytes that are not a request.
HandledAsSent ==
    \A c \in Conns : links[c].slot # NoSlot =>
        /\ links[c].request \in {NotARequest, links[c].message.request}
        /\ links[c].todo = <<>> => links[c].request = links[c].message.request

\* The server closes a connection when the whole response has been sent, or
\* because the request did not come in time; but for a packet that
\* espconn_send() refused, and for bytes that are no request, each of which is
\* answered with a 400.
WholeResponse ==
    \A c \in Conns :
        (links[c].closing /\ ~links[c].late /\ ~links[c].refused /\ links[c].message.request # NotARequest) =>
            links[c].sent = links[c].len /\ links[c].rest = 0 /\ ~links[c].unsent

\* Every context becomes free again: neither a client that stops in the middle
\* of its request nor one that waits for events keeps it for ever.  A packet that
\* was refused leaves it to the keep-alive of the SDK, and so does a PATCH
\* /firmware that is forgotten: its client alone can end the wait, since
\* handle_request() has disarmed the timer of the request.
ContextFreed ==
    \A c \in Conns : links[c].slot # NoSlot
        ~> (links[c].slot = NoSlot \/ links[c].refused \/ links[c].forgotten)

=============================================================================
