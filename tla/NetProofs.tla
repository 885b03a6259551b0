------------------------------ MODULE NetProofs ------------------------------
(***************************************************************************)
(* Proofs about the network side: the contexts of the HTTP server and the  *)
(* connections of the TCP server, the calls of the API, those that are     *)
(* answered later, and the HTTP client.                                    *)
(***************************************************************************)
EXTENDS HttpServer, Dispatch, HttpClient, AsyncApi, NaturalsInduction, WellFoundedInduction, TLAPS

-----------------------------------------------------------------------------
(***************************************************************************)
(* HttpServer: contexts and connections own each other, for any slots,     *)
(* clients, messages and limits.  ContextsOwned is inductive with the      *)
(* shape of the two records (Shape) and with the fact that a closed        *)
(* connection has no slot (ClosedHasNone).  The parser matters only in     *)
(* what it leaves alone: ParserKeeps.                                      *)
(***************************************************************************)
\* The fields of an httpserver_context_t, and its states but for IDLE.
Fields == {"req_state", "method", "path", "query", "header_name", "header_value", "headers",
           "content_length", "body", "timer", "arg", "called"}

Busy == {"NEW", "INVALID", "METHOD", "METHOD_READY", "PATH", "QUERY", "FRAGMENT", "FRAGMENT_READY",
         "PROTO", "PROTO_READY", "HEADER_NAME", "HEADER_NAME_READY", "HEADER_VALUE",
         "HEADER_VALUE_READY", "HEADER_VALUE_READY_NL", "HEADER_READY", "BODY", "BODY_READY"}

\* A context with its fields.
IsContext(hc) == DOMAIN hc = Fields /\ hc.timer \in BOOLEAN

\* The context hc2 comes from hc, is in use, and has the same owner.
Keeps(hc, hc2) == IsContext(hc2) /\ hc2.req_state \in Busy /\ hc2.arg = hc.arg

-----------------------------------------------------------------------------
\* What the parts of the parser are made of keeps the owner of a context.
LEMMA StepsKeep ==
    ASSUME NEW hc, IsContext(hc)
    PROVE  /\ \A state \in Busy : Keeps(hc, To(hc, state))
           /\ Keeps(hc, handle_invalid(hc))
           /\ \A hc2 : Keeps(hc, hc2) => Keeps(hc, handle_request(hc2))
           /\ \A c : Keeps(hc, NameStarts(hc, c))
           /\ \A state \in Busy : Keeps(hc, To(handle_header_value_ready(hc), state))
<1>1. \A state \in Busy : Keeps(hc, To(hc, state))
  BY DEF Keeps, To, IsContext, Fields
<1>2. Keeps(hc, handle_invalid(hc))
  BY DEF Keeps, handle_invalid, IsContext, Fields, Busy
<1>3. ASSUME NEW hc2, Keeps(hc, hc2) PROVE Keeps(hc, handle_request(hc2))
  BY <1>3 DEF Keeps, handle_request, IsContext, Fields
<1>4. ASSUME NEW c PROVE Keeps(hc, NameStarts(hc, c))
  BY DEF Keeps, NameStarts, To, IsContext, Fields, Busy
<1>5. ASSUME NEW state \in Busy PROVE Keeps(hc, To(handle_header_value_ready(hc), state))
  BY DEF Keeps, handle_header_value_ready, To, IsContext, Fields
<1> QED
  BY <1>1, <1>2, <1>3, <1>4, <1>5

\* Each part of the parser keeps the owner of a context in use.
LEMMA PartsKeep ==
    ASSUME NEW hc, NEW c, IsContext(hc), hc.req_state \in Busy
    PROVE  /\ Keeps(hc, InMethod(hc, c)) /\ Keeps(hc, InPath(hc, c)) /\ Keeps(hc, InQuery(hc, c))
           /\ Keeps(hc, InHeaderName(hc, c)) /\ Keeps(hc, InHeaderValue(hc, c))
           /\ Keeps(hc, AfterNewline(hc, c)) /\ Keeps(hc, AfterHeader(hc, c)) /\ Keeps(hc, InBody(hc, c))
<1> USE StepsKeep
<1>0. {"METHOD", "METHOD_READY", "QUERY", "FRAGMENT", "FRAGMENT_READY", "HEADER_NAME_READY",
       "HEADER_VALUE_READY", "HEADER_VALUE_READY_NL", "HEADER_READY", "BODY", "BODY_READY"} \subseteq Busy
  BY DEF Busy
<1>1. Keeps(hc, hc)
  BY DEF Keeps
<1>2. Keeps(hc, InMethod(hc, c))
  <2>1. Keeps(hc, [To(hc, "METHOD") EXCEPT !.method = append_max_len(@, c)])
    BY <1>0 DEF Keeps, To, IsContext, Fields
  <2> QED
    BY <2>1, <1>0 DEF InMethod
<1>3. Keeps(hc, InPath(hc, c))
  <2>1. Keeps(hc, [hc EXCEPT !.path = append_max_len(@, c)])
    BY DEF Keeps, IsContext, Fields
  <2> QED
    BY <2>1, <1>0 DEF InPath
<1>4. Keeps(hc, InQuery(hc, c))
  <2>1. Keeps(hc, [hc EXCEPT !.query = append_max_len(@, c)])
    BY DEF Keeps, IsContext, Fields
  <2> QED
    BY <2>1, <1>0 DEF InQuery
<1>5. Keeps(hc, InHeaderName(hc, c))
  <2>1. Keeps(hc, [hc EXCEPT !.header_name = append_max_len(@, c)])
    BY DEF Keeps, IsContext, Fields
  <2> QED
    BY <2>1, <1>0 DEF InHeaderName
<1>6. Keeps(hc, InHeaderValue(hc, c))
  <2>1. Keeps(hc, [hc EXCEPT !.header_value = append_max_len(@, c)])
    BY DEF Keeps, IsContext, Fields
  <2> QED
    BY <2>1, <1>0 DEF InHeaderValue
<1>7. Keeps(hc, AfterNewline(hc, c))
  BY <1>0, <1>1 DEF AfterNewline
<1>8. Keeps(hc, AfterHeader(hc, c))
  <2>1. Keeps(hc, [To(hc, "BODY") EXCEPT !.body = <<c>>])
    BY <1>0 DEF Keeps, To, IsContext, Fields
  <2> QED
    BY <2>1 DEF AfterHeader
<1>9. Keeps(hc, InBody(hc, c))
  <2>1. Keeps(hc, [To(hc, "BODY_READY") EXCEPT !.body = Append(@, c)])
    BY <1>0 DEF Keeps, To, IsContext, Fields
  <2>2. Keeps(hc, [hc EXCEPT !.body = Append(@, c)])
    BY DEF Keeps, IsContext, Fields
  <2> QED
    BY <2>1, <2>2 DEF InBody
<1> QED
  BY <1>2, <1>3, <1>4, <1>5, <1>6, <1>7, <1>8, <1>9

\* The parser neither frees a context nor gives it to another connection,
\* whatever byte comes in whatever state.
LEMMA ParserKeeps ==
    ASSUME NEW context, NEW c, IsContext(context), context.req_state \in Busy
    PROVE  Keeps(context, httpserver_parse_req_char(context, c))
<1> DEFINE hc == [context EXCEPT !.called = "none"]
           result == httpserver_parse_req_char(context, c)
<1>1. /\ IsContext(hc) /\ hc.req_state \in Busy
      /\ hc.arg = context.arg /\ hc.req_state = context.req_state
  BY DEF IsContext, Fields
<1>2. Keeps(hc, hc)
  BY <1>1 DEF Keeps
<1> HIDE DEF hc
<1>3. Keeps(hc, [To(hc, "PATH") EXCEPT !.path = append_max_len(@, c)])
  BY <1>1 DEF Keeps, To, IsContext, Fields, Busy
<1>4. Keeps(hc, [To(hc, "HEADER_VALUE") EXCEPT !.header_value = append_max_len(@, c)])
  BY <1>1 DEF Keeps, To, IsContext, Fields, Busy
<1>5. {"FRAGMENT_READY", "PROTO", "PROTO_READY", "HEADER_VALUE_READY_NL"} \subseteq Busy
  BY DEF Busy
<1>6. Keeps(hc, result)
  <2>1. CASE hc.req_state \in {"NEW", "METHOD", "INVALID", "METHOD_READY", "PATH", "QUERY"}
    BY <2>1, <1>1, <1>2, <1>3, StepsKeep, PartsKeep DEF httpserver_parse_req_char, hc
  <2>2. CASE hc.req_state \in {"FRAGMENT", "FRAGMENT_READY", "PROTO", "PROTO_READY"}
    BY <2>2, <1>1, <1>2, <1>5, StepsKeep DEF httpserver_parse_req_char, hc
  <2>3. CASE hc.req_state \in {"HEADER_NAME", "HEADER_NAME_READY", "HEADER_VALUE"}
    BY <2>3, <1>1, <1>2, <1>4, PartsKeep DEF httpserver_parse_req_char, hc
  <2>4. CASE hc.req_state = "HEADER_VALUE_READY"
    BY <2>4, <1>1, <1>2, <1>5, StepsKeep DEF httpserver_parse_req_char, hc
  <2>5. CASE hc.req_state \in {"HEADER_VALUE_READY_NL", "HEADER_READY", "BODY", "BODY_READY"}
    BY <2>5, <1>1, <1>2, PartsKeep DEF httpserver_parse_req_char, hc
  <2> QED
    BY <1>1, <2>1, <2>2, <2>3, <2>4, <2>5 DEF Busy
<1> QED
  BY <1>1, <1>6 DEF Keeps
-----------------------------------------------------------------------------
(***************************************************************************)
(* Contexts and connections.                                               *)
(***************************************************************************)
LinkFields == {"open", "slot", "rest", "unsent", "closing", "waits", "message", "todo",
               "len", "sent", "request", "refused", "late", "forgotten"}

\* The shape of the two tables.
Shape ==
    /\ DOMAIN http_contexts = Slots /\ DOMAIN links = Conns
    /\ \A s \in Slots : /\ IsContext(http_contexts[s])
                        /\ \/ http_contexts[s].req_state = "IDLE"
                           \/ http_contexts[s].req_state \in Busy /\ http_contexts[s].arg \in Conns
    /\ \A c \in Conns : /\ DOMAIN links[c] = LinkFields
                        /\ links[c].slot \in Slots \cup {NoSlot}

\* A connection that is not open has no context.
ClosedHasNone == \A c \in Conns : ~links[c].open => links[c].slot = NoSlot

OwnInv == Shape /\ ClosedHasNone /\ ContextsOwned

\* The connection link2 comes from link, with the same context.
Same(link, link2) == DOMAIN link2 = LinkFields /\ link2.slot = link.slot /\ link2.open = link.open

\* Sending and receiving leaves a connection open, and its context its own.
LEMMA SendsKeep ==
    ASSUME NEW link, DOMAIN link = LinkFields, NEW n, NEW accepted
    PROVE  /\ Same(link, espconn_send(link, accepted))
           /\ Same(link, tcp_send(link, n, accepted))
           /\ \A x : /\ Same(link, [link EXCEPT !.todo = x])
                     /\ Same(link, [link EXCEPT !.waits = x])
                     /\ Same(link, [link EXCEPT !.unsent = x])
                     /\ Same(link, [link EXCEPT !.rest = x])
                     /\ Same(link, [link EXCEPT !.closing = x])
                     /\ Same(link, [link EXCEPT !.late = x])
                     /\ Same(link, [link EXCEPT !.request = x])
<1>1. \A x, y : /\ Same(link, [link EXCEPT !.todo = x]) /\ Same(link, [link EXCEPT !.waits = x])
                /\ Same(link, [link EXCEPT !.unsent = x]) /\ Same(link, [link EXCEPT !.rest = x])
                /\ Same(link, [link EXCEPT !.closing = x]) /\ Same(link, [link EXCEPT !.late = x])
                /\ Same(link, [link EXCEPT !.request = x]) /\ Same(link, [link EXCEPT !.refused = x])
                /\ Same(link, [link EXCEPT !.unsent = x, !.sent = y]) /\ Same(link, [link EXCEPT !.len = x])
  BY DEF Same, LinkFields
<1>2. Same(link, espconn_send(link, accepted))
  BY <1>1 DEF espconn_send
<1>3. Same(link, tcp_send(link, n, accepted))
  <2> DEFINE set  == [link EXCEPT !.len = IF link.unsent THEN @ ELSE n]
             sent == espconn_send(set, accepted)
  <2>1. Same(link, set)
    BY <1>1
  <2>2. Same(set, sent)
    <3>1. DOMAIN set = LinkFields
      BY <2>1 DEF Same
    <3> HIDE DEF set
    <3>2. /\ Same(set, [set EXCEPT !.refused = TRUE])
          /\ Same(set, [set EXCEPT !.unsent = TRUE, !.sent = @ + 1])
      BY <3>1 DEF Same, LinkFields
    <3> QED
      BY <3>2 DEF espconn_send
  <2> HIDE DEF set, sent
  <2>3. Same(sent, [sent EXCEPT !.rest = n - 1])
    BY <2>2 DEF Same, LinkFields
  <2>4. Same(link, [sent EXCEPT !.rest = n - 1])
    BY <2>1, <2>2, <2>3 DEF Same
  <2>5. Same(link, link)
    BY DEF Same
  <2> QED
    BY <2>4, <2>5 DEF tcp_send, sent, set
<1> QED
  BY <1>1, <1>2, <1>3

\* Steps that leave every connection with its context, and every context in
\* use with its owner, keep the invariant.
LEMMA OwnersKept ==
    ASSUME OwnInv,
           DOMAIN http_contexts' = Slots, DOMAIN links' = Conns,
           \A c \in Conns : Same(links[c], links'[c]),
           \A s \in Slots : \/ http_contexts'[s] = http_contexts[s]
                            \/ /\ http_contexts[s].req_state \in Busy
                               /\ Keeps(http_contexts[s], http_contexts'[s])
    PROVE  OwnInv'
<1>1. "IDLE" \notin Busy
  BY DEF Busy
<1>2. Shape'
  <2>1. ASSUME NEW s \in Slots
        PROVE  /\ IsContext(http_contexts'[s])
               /\ \/ http_contexts'[s].req_state = "IDLE"
                  \/ http_contexts'[s].req_state \in Busy /\ http_contexts'[s].arg \in Conns
    BY <1>1 DEF OwnInv, Shape, Keeps
  <2>2. ASSUME NEW c \in Conns
        PROVE  DOMAIN links'[c] = LinkFields /\ links'[c].slot \in Slots \cup {NoSlot}
    BY DEF OwnInv, Shape, Same
  <2> QED
    BY <2>1, <2>2 DEF Shape, IsContext
<1>3. ClosedHasNone'
  BY DEF OwnInv, ClosedHasNone, Same
<1>4. \A s \in Slots : /\ (http_contexts'[s].req_state = "IDLE") <=> (http_contexts[s].req_state = "IDLE")
                       /\ http_contexts'[s].req_state # "IDLE" => http_contexts'[s].arg = http_contexts[s].arg
  BY <1>1 DEF OwnInv, Shape, Keeps
<1>5. ASSUME NEW s \in Slots, http_contexts'[s].req_state # "IDLE"
      PROVE  links'[http_contexts'[s].arg].open /\ links'[http_contexts'[s].arg].slot = s
  BY <1>4, <1>5 DEF OwnInv, Shape, ContextsOwned, Same
<1>6. ASSUME NEW c \in Conns, links'[c].slot # NoSlot
      PROVE  http_contexts'[links'[c].slot].req_state # "IDLE" /\ http_contexts'[links'[c].slot].arg = c
  <2>1. links[c].slot # NoSlot /\ links'[c].slot = links[c].slot /\ links[c].slot \in Slots
    BY <1>6 DEF OwnInv, Shape, Same
  <2> QED
    BY <1>4, <2>1 DEF OwnInv, ContextsOwned
<1>7. ASSUME NEW s \in Slots, http_contexts'[s].timer PROVE http_contexts'[s].req_state # "IDLE"
  BY <1>1, <1>7 DEF OwnInv, ContextsOwned, Keeps
<1>8. ContextsOwned'
  BY <1>5, <1>6, <1>7 DEF ContextsOwned
<1> QED
  BY <1>2, <1>3, <1>8 DEF OwnInv

\* A set of numbers has a least one.
LEMMA LeastElement ==
    ASSUME NEW T \in SUBSET Nat, T # {}
    PROVE  \E m \in T : \A n \in T : m <= n
<1>1. PICK m \in T : \A n \in T : ~(<<n, m>> \in OpToRel(<, Nat))
  BY NatLessThanWellFounded, WFMin
<1>2. \A n \in T : ~(n < m)
  BY <1>1 DEF OpToRel
<1> QED
  BY <1>2

\* The context that on_tcp_conn() takes is a free one.
LEMMA FirstIsFree ==
    ASSUME FreeSlots # {}
    PROVE  FirstFree \in Slots /\ http_contexts[FirstFree].req_state = "IDLE"
<1>1. FreeSlots \in SUBSET Nat
  BY HttpServerAssumption DEF FreeSlots
<1>2. PICK s \in FreeSlots : \A t \in FreeSlots : s <= t
  BY <1>1, LeastElement
<1>3. FirstFree \in FreeSlots
  BY <1>2 DEF FirstFree
<1> QED
  BY <1>3 DEF FreeSlots

\* In the beginning nobody is connected.
LEMMA OwnInit == Init => OwnInv
<1> SUFFICES ASSUME Init PROVE OwnInv
  OBVIOUS
<1>1. IsContext(Idle) /\ Idle.req_state = "IDLE" /\ Idle.timer = FALSE
  BY DEF Idle, IsContext, Fields
<1>2. DOMAIN Closed = LinkFields /\ Closed.slot = NoSlot
  BY DEF Closed, LinkFields
<1>3. /\ DOMAIN http_contexts = Slots /\ \A s \in Slots : http_contexts[s] = Idle
      /\ DOMAIN links = Conns /\ \A c \in Conns : links[c] = Closed
  BY DEF Init
<1>4. Shape
  BY <1>1, <1>2, <1>3 DEF Shape
<1>5. ClosedHasNone /\ ContextsOwned
  BY <1>1, <1>2, <1>3 DEF ClosedHasNone, ContextsOwned
<1> QED
  BY <1>4, <1>5 DEF OwnInv

\* A new connection gets a context that nobody owns, or none.
LEMMA ConnectionOwns ==
    ASSUME OwnInv, NEW c \in Conns, NEW message, NEW accepted,
           OnClientConnection(c, message, accepted)
    PROVE  OwnInv'
<1> DEFINE link  == [Closed EXCEPT !.open = TRUE, !.message = message, !.todo = message.bytes]
           taken == [link EXCEPT !.slot = FirstFree]
           fresh == [Idle EXCEPT !.req_state = "NEW", !.arg = c, !.timer = TRUE]
<1>1. ~links[c].open /\ links[c].slot = NoSlot
  BY DEF OnClientConnection, OwnInv, ClosedHasNone
<1>2. DOMAIN link = LinkFields /\ link.slot = NoSlot /\ link.open
  BY DEF Closed, LinkFields
<1>3. DOMAIN taken = LinkFields /\ taken.slot = FirstFree /\ taken.open
  BY DEF Closed, LinkFields
<1>4. IsContext(fresh) /\ fresh.req_state = "NEW" /\ fresh.arg = c /\ fresh.timer = TRUE
  BY DEF Idle, IsContext, Fields
<1>5. "NEW" \in Busy /\ "NEW" # "IDLE" /\ "IDLE" \notin Busy
  BY DEF Busy
<1>6. OnClientConnection(c, message, accepted) <=>
          /\ ~links[c].open
          /\ \/ /\ FreeSlots # {}
                /\ links' = [links EXCEPT ![c] = taken]
                /\ http_contexts' = [http_contexts EXCEPT ![FirstFree] = fresh]
                /\ UNCHANGED refusals
             \/ /\ links' = [links EXCEPT ![c] = tcp_send(link, 1, accepted)]
                /\ Counted(accepted)
                /\ UNCHANGED http_contexts
  BY DEF OnClientConnection
<1> HIDE DEF link, taken, fresh
<1>7. CASE /\ FreeSlots # {}
           /\ links' = [links EXCEPT ![c] = taken]
           /\ http_contexts' = [http_contexts EXCEPT ![FirstFree] = fresh]
  <2>1. FirstFree \in Slots /\ http_contexts[FirstFree].req_state = "IDLE"
    BY <1>7, FirstIsFree
  <2>2. /\ DOMAIN links' = Conns /\ links'[c] = taken
        /\ \A d \in Conns \ {c} : links'[d] = links[d]
    BY <1>7 DEF OwnInv, Shape
  <2>3. /\ DOMAIN http_contexts' = Slots /\ http_contexts'[FirstFree] = fresh
        /\ \A s \in Slots \ {FirstFree} : http_contexts'[s] = http_contexts[s]
    BY <1>7, <2>1 DEF OwnInv, Shape
  <2>4. Shape'
    <3>1. ASSUME NEW s \in Slots
          PROVE  /\ IsContext(http_contexts'[s])
                 /\ \/ http_contexts'[s].req_state = "IDLE"
                    \/ http_contexts'[s].req_state \in Busy /\ http_contexts'[s].arg \in Conns
      BY <2>3, <1>4, <1>5 DEF OwnInv, Shape
    <3>2. ASSUME NEW d \in Conns
          PROVE  DOMAIN links'[d] = LinkFields /\ links'[d].slot \in Slots \cup {NoSlot}
      BY <2>1, <2>2, <1>3 DEF OwnInv, Shape
    <3> QED
      BY <2>2, <2>3, <3>1, <3>2 DEF Shape, IsContext
  <2>5. ClosedHasNone'
    BY <2>2, <1>3 DEF OwnInv, ClosedHasNone
  <2>6. ASSUME NEW s \in Slots, http_contexts'[s].req_state # "IDLE"
        PROVE  links'[http_contexts'[s].arg].open /\ links'[http_contexts'[s].arg].slot = s
    <3>1. CASE s = FirstFree
      BY <3>1, <2>2, <2>3, <1>3, <1>4
    <3>2. CASE s # FirstFree
      <4>1. http_contexts'[s] = http_contexts[s]
        BY <3>2, <2>3
      <4>2. /\ links[http_contexts[s].arg].open /\ links[http_contexts[s].arg].slot = s
            /\ http_contexts[s].arg \in Conns
        BY <2>6, <4>1 DEF OwnInv, ContextsOwned, Shape
      <4>3. http_contexts[s].arg # c
        BY <4>2, <1>1
      <4> QED
        BY <4>1, <4>2, <4>3, <2>2
    <3> QED
      BY <3>1, <3>2
  <2>7. ASSUME NEW d \in Conns, links'[d].slot # NoSlot
        PROVE  http_contexts'[links'[d].slot].req_state # "IDLE" /\ http_contexts'[links'[d].slot].arg = d
    <3>1. CASE d = c
      BY <3>1, <2>2, <2>3, <1>3, <1>4, <1>5
    <3>2. CASE d # c
      <4>1. links'[d] = links[d] /\ links[d].slot \in Slots
        BY <2>7, <3>2, <2>2 DEF OwnInv, Shape
      <4>2. http_contexts[links[d].slot].req_state # "IDLE" /\ http_contexts[links[d].slot].arg = d
        BY <2>7, <4>1 DEF OwnInv, ContextsOwned
      <4>3. links[d].slot # FirstFree
        BY <4>2, <2>1
      <4> QED
        BY <4>1, <4>2, <4>3, <2>3
    <3> QED
      BY <3>1, <3>2
  <2>8. \A s \in Slots : http_contexts'[s].timer => http_contexts'[s].req_state # "IDLE"
    BY <2>3, <1>4, <1>5 DEF OwnInv, ContextsOwned
  <2> QED
    BY <2>4, <2>5, <2>6, <2>7, <2>8 DEF OwnInv, ContextsOwned
<1>8. CASE /\ links' = [links EXCEPT ![c] = tcp_send(link, 1, accepted)]
           /\ UNCHANGED http_contexts
  <2>1. /\ DOMAIN links' = Conns /\ Same(link, links'[c])
        /\ \A d \in Conns \ {c} : links'[d] = links[d]
    BY <1>8, <1>2, SendsKeep DEF OwnInv, Shape
  <2>2. DOMAIN links'[c] = LinkFields /\ links'[c].slot = NoSlot
    BY <2>1, <1>2 DEF Same
  <2>3. Shape'
    <3>1. ASSUME NEW d \in Conns
          PROVE  DOMAIN links'[d] = LinkFields /\ links'[d].slot \in Slots \cup {NoSlot}
      BY <2>1, <2>2 DEF OwnInv, Shape
    <3> QED
      BY <1>8, <2>1, <3>1 DEF OwnInv, Shape, IsContext
  <2>4. ClosedHasNone'
    BY <2>1, <2>2 DEF OwnInv, ClosedHasNone
  <2>5. ASSUME NEW s \in Slots, http_contexts[s].req_state # "IDLE"
        PROVE  links'[http_contexts[s].arg].open /\ links'[http_contexts[s].arg].slot = s
    BY <2>1, <2>5, <1>1 DEF OwnInv, ContextsOwned, Shape
  <2>6. ASSUME NEW d \in Conns, links'[d].slot # NoSlot
        PROVE  http_contexts[links'[d].slot].req_state # "IDLE" /\ http_contexts[links'[d].slot].arg = d
    BY <2>1, <2>2, <2>6 DEF OwnInv, ContextsOwned
  <2>7. ContextsOwned'
    BY <1>8, <2>5, <2>6 DEF OwnInv, ContextsOwned
  <2> QED
    BY <2>3, <2>4, <2>7 DEF OwnInv
<1> QED
  BY <1>6, <1>7, <1>8

\* A step of one connection that sends or receives keeps the invariant.
LEMMA OneLinkKept ==
    ASSUME OwnInv, NEW c \in Conns, NEW link, Same(links[c], link),
           links' = [links EXCEPT ![c] = link],
           DOMAIN http_contexts' = Slots,
           \A s \in Slots : \/ http_contexts'[s] = http_contexts[s]
                            \/ /\ http_contexts[s].req_state \in Busy
                               /\ Keeps(http_contexts[s], http_contexts'[s])
    PROVE  OwnInv'
<1>1. DOMAIN links' = Conns
  BY DEF OwnInv, Shape
<1>2. ASSUME NEW d \in Conns PROVE Same(links[d], links'[d])
  <2>1. DOMAIN links[d] = LinkFields
    BY DEF OwnInv, Shape
  <2> QED
    BY <2>1 DEF OwnInv, Shape, Same
<1> QED
  BY <1>1, <1>2, OwnersKept

\* A byte that comes in goes to the context of its connection, if it has one.
LEMMA RecvOwns ==
    ASSUME OwnInv, NEW c \in Conns, NEW n, NEW accepted, OnClientRecv(c, n, accepted)
    PROVE  OwnInv'
<1> DEFINE link == [links[c] EXCEPT !.todo = Tail(@)]
           s    == link.slot
           hc   == IF s = NoSlot THEN Idle
                   ELSE httpserver_parse_req_char(http_contexts[s], Head(links[c].todo))
           handed == [link EXCEPT !.request = Request(hc)]
<1>1. DOMAIN links[c] = LinkFields /\ links[c].slot \in Slots \cup {NoSlot}
  BY DEF OwnInv, Shape
<1>2. Same(links[c], link)
  BY <1>1, SendsKeep
<1>3. PICK forgotten \in BOOLEAN :
      /\ http_contexts' = IF s = NoSlot THEN http_contexts ELSE [http_contexts EXCEPT ![s] = hc]
      /\ \/ links' = [links EXCEPT ![c] = link]
         \/ links' = [links EXCEPT ![c] = tcp_send(link, 1, accepted)]
         \/ links' = [links EXCEPT ![c] = tcp_send(handed, n, accepted)]
         \/ links' = [links EXCEPT ![c] =
                [link EXCEPT !.request = Request(hc), !.waits = TRUE, !.forgotten = forgotten]]
  BY DEF OnClientRecv
<1> DEFINE waits == [link EXCEPT !.request = Request(hc), !.waits = TRUE, !.forgotten = forgotten]
<1>4. s = links[c].slot /\ DOMAIN link = LinkFields
  BY <1>2 DEF Same
<1>5. s \in Slots => http_contexts[s].req_state \in Busy /\ Keeps(http_contexts[s], hc)
  <2>1. ASSUME s \in Slots PROVE s # NoSlot /\ http_contexts[s].req_state \in Busy /\ IsContext(http_contexts[s])
    BY <2>1, <1>4, HttpServerAssumption DEF HttpServerAssumption, OwnInv, Shape, ContextsOwned
  <2>2. ASSUME s \in Slots
        PROVE  Keeps(http_contexts[s], httpserver_parse_req_char(http_contexts[s], Head(links[c].todo)))
    BY <2>1, <2>2, ParserKeeps
  <2> QED
    BY <2>1, <2>2
<1> HIDE DEF hc
<1>7. Same(link, handed) /\ Same(link, waits)
  BY <1>4 DEF Same, LinkFields
<1> HIDE DEF link, s, handed, waits
<1>6. Same(links[c], tcp_send(link, 1, accepted))
  BY <1>2, <1>4, SendsKeep DEF Same
<1>8. Same(links[c], tcp_send(handed, n, accepted))
  <2>1. DOMAIN handed = LinkFields
    BY <1>7 DEF Same
  <2>2. Same(handed, tcp_send(handed, n, accepted))
    BY <2>1, SendsKeep
  <2> QED
    BY <1>2, <1>7, <2>2 DEF Same
<1>9. Same(links[c], waits)
  BY <1>2, <1>7 DEF Same
<1>10. /\ DOMAIN http_contexts' = Slots
       /\ \A t \in Slots : \/ http_contexts'[t] = http_contexts[t]
                           \/ /\ http_contexts[t].req_state \in Busy
                              /\ Keeps(http_contexts[t], http_contexts'[t])
  <2>1. DOMAIN http_contexts = Slots
    BY DEF OwnInv, Shape
  <2>2. CASE s = NoSlot
    BY <2>1, <2>2, <1>3
  <2>3. CASE s # NoSlot
    <3>1. s \in Slots
      BY <2>3, <1>1, <1>4
    <3>2. http_contexts' = [http_contexts EXCEPT ![s] = hc]
      BY <2>3, <1>3
    <3>3. /\ DOMAIN http_contexts' = Slots /\ http_contexts'[s] = hc
          /\ \A t \in Slots \ {s} : http_contexts'[t] = http_contexts[t]
      BY <2>1, <3>1, <3>2
    <3> QED
      BY <3>1, <3>3, <1>5
  <2> QED
    BY <2>2, <2>3
<1> QED
  BY <1>2, <1>3, <1>6, <1>8, <1>9, <1>10, OneLinkKept DEF waits

\* An answer, or the next packet of one, leaves the contexts alone.
LEMMA AnswerOwns ==
    ASSUME OwnInv, NEW c \in Conns, NEW n, NEW accepted,
           AnswerLater(c, n, accepted) \/ OnClientSent(c, accepted)
    PROVE  OwnInv'
<1> DEFINE answered == [links[c] EXCEPT !.waits = FALSE]
           link     == [links[c] EXCEPT !.unsent = FALSE]
           sent     == espconn_send(link, accepted)
<1>1. DOMAIN links[c] = LinkFields /\ DOMAIN links = Conns
  BY DEF OwnInv, Shape
<1>2. Same(links[c], answered) /\ Same(links[c], link)
  BY <1>1, SendsKeep
<1>3. /\ UNCHANGED http_contexts
      /\ \/ links' = [links EXCEPT ![c] = tcp_send(answered, n, accepted)]
         \/ links' = [links EXCEPT ![c] = [link EXCEPT !.closing = TRUE]]
         \/ links' = [links EXCEPT ![c] = [sent EXCEPT !.rest = IF accepted THEN link.rest - 1 ELSE 0]]
  BY <1>1 DEF AnswerLater, OnClientSent
<1> HIDE DEF answered, link
<1>4. Same(links[c], tcp_send(answered, n, accepted))
  BY <1>2, SendsKeep DEF Same
<1>5. Same(links[c], [link EXCEPT !.closing = TRUE])
  BY <1>2, SendsKeep DEF Same
<1>6. Same(links[c], sent)
  BY <1>2, SendsKeep DEF Same
<1> HIDE DEF sent
<1>7. Same(links[c], [sent EXCEPT !.rest = IF accepted THEN link.rest - 1 ELSE 0])
  BY <1>6, SendsKeep DEF Same
<1>8. DOMAIN http_contexts' = Slots /\ \A s \in Slots : http_contexts'[s] = http_contexts[s]
  BY <1>3 DEF OwnInv, Shape
<1> QED
  BY <1>3, <1>4, <1>5, <1>7, <1>8, OneLinkKept

\* The timer of a request fires for the connection that owns its context.
LEMMA TimeoutOwns ==
    ASSUME OwnInv, NEW s \in Slots, OnRequestTimeout(s)
    PROVE  OwnInv'
<1> DEFINE c == http_contexts[s].arg
           closing == [links[c] EXCEPT !.closing = TRUE]
           late == [closing EXCEPT !.late = TRUE]
           done == [http_contexts[s] EXCEPT !.timer = FALSE]
<1>1. /\ http_contexts[s].req_state \in Busy /\ c \in Conns /\ IsContext(http_contexts[s])
      /\ DOMAIN http_contexts = Slots /\ DOMAIN links = Conns /\ DOMAIN links[c] = LinkFields
  BY DEF OnRequestTimeout, OwnInv, Shape, ContextsOwned
<1>2. Keeps(http_contexts[s], done)
  BY <1>1 DEF Keeps, IsContext, Fields
<1>3. Same(links[c], late)
  <2>1. Same(links[c], closing)
    BY <1>1, SendsKeep
  <2> HIDE DEF closing
  <2>2. Same(closing, late)
    BY <2>1, SendsKeep DEF Same
  <2> QED
    BY <2>1, <2>2 DEF Same
<1>4. links' = [links EXCEPT ![c] = late]
  BY <1>1 DEF OnRequestTimeout
<1>5. http_contexts' = [http_contexts EXCEPT ![s] = done]
  BY <1>1 DEF OnRequestTimeout
<1> HIDE DEF c, late, done
<1>6. /\ DOMAIN http_contexts' = Slots
      /\ \A t \in Slots : \/ http_contexts'[t] = http_contexts[t]
                          \/ /\ http_contexts[t].req_state \in Busy
                             /\ Keeps(http_contexts[t], http_contexts'[t])
  BY <1>1, <1>2, <1>5
<1> QED
  BY <1>1, <1>3, <1>4, <1>6, OneLinkKept

\* A connection that ends frees its context, and no other.
LEMMA DisconnectOwns ==
    ASSUME OwnInv, NEW c \in Conns, OnClientDisconnect(c)
    PROVE  OwnInv'
<1>1. IsContext(Idle) /\ Idle.req_state = "IDLE" /\ Idle.timer = FALSE
  BY DEF Idle, IsContext, Fields
<1>2. DOMAIN Closed = LinkFields /\ Closed.slot = NoSlot
  BY DEF Closed, LinkFields
<1>3. /\ DOMAIN links' = Conns /\ links'[c] = Closed
      /\ \A d \in Conns \ {c} : links'[d] = links[d]
  BY DEF OnClientDisconnect, OwnInv, Shape
<1>4. /\ DOMAIN http_contexts' = Slots
      /\ \A s \in Slots : http_contexts'[s] = IF s = links[c].slot THEN Idle ELSE http_contexts[s]
  BY DEF OnClientDisconnect
<1>5. Shape'
  <2>1. ASSUME NEW s \in Slots
        PROVE  /\ IsContext(http_contexts'[s])
               /\ \/ http_contexts'[s].req_state = "IDLE"
                  \/ http_contexts'[s].req_state \in Busy /\ http_contexts'[s].arg \in Conns
    <3>1. CASE s = links[c].slot
      BY <3>1, <1>1, <1>4
    <3>2. CASE s # links[c].slot
      BY <3>2, <1>4 DEF OwnInv, Shape
    <3> QED
      BY <3>1, <3>2
  <2>2. ASSUME NEW d \in Conns
        PROVE  DOMAIN links'[d] = LinkFields /\ links'[d].slot \in Slots \cup {NoSlot}
    BY <1>2, <1>3 DEF OwnInv, Shape
  <2> QED
    BY <1>3, <1>4, <2>1, <2>2 DEF Shape, IsContext
<1>6. ClosedHasNone'
  BY <1>2, <1>3 DEF OwnInv, ClosedHasNone
<1>7. ASSUME NEW s \in Slots, http_contexts'[s].req_state # "IDLE"
      PROVE  links'[http_contexts'[s].arg].open /\ links'[http_contexts'[s].arg].slot = s
  <2>1. s # links[c].slot /\ http_contexts'[s] = http_contexts[s]
    BY <1>1, <1>4, <1>7
  <2>2. /\ links[http_contexts[s].arg].open /\ links[http_contexts[s].arg].slot = s
        /\ http_contexts[s].arg \in Conns
    BY <1>7, <2>1 DEF OwnInv, ContextsOwned, Shape
  <2>3. http_contexts[s].arg # c
    BY <2>1, <2>2
  <2> QED
    BY <2>1, <2>2, <2>3, <1>3
<1>8. ASSUME NEW d \in Conns, links'[d].slot # NoSlot
      PROVE  http_contexts'[links'[d].slot].req_state # "IDLE" /\ http_contexts'[links'[d].slot].arg = d
  <2>1. d # c /\ links'[d] = links[d]
    BY <1>2, <1>3, <1>8
  <2>2. /\ http_contexts[links[d].slot].req_state # "IDLE" /\ http_contexts[links[d].slot].arg = d
        /\ links[d].slot \in Slots
    BY <1>8, <2>1 DEF OwnInv, ContextsOwned, Shape
  <2>3. links[d].slot # links[c].slot
    <3>1. links[c].slot # NoSlot => http_contexts[links[c].slot].arg = c
      BY DEF OwnInv, ContextsOwned
    <3> QED
      BY <3>1, <2>1, <2>2, <1>8
  <2> QED
    BY <2>1, <2>2, <2>3, <1>4
<1>9. \A s \in Slots : http_contexts'[s].timer => http_contexts'[s].req_state # "IDLE"
  BY <1>1, <1>4 DEF OwnInv, ContextsOwned
<1> QED
  BY <1>5, <1>6, <1>7, <1>8, <1>9 DEF OwnInv, ContextsOwned

\* Every step keeps the invariant.
LEMMA OwnStep == OwnInv /\ [Next]_vars => OwnInv'
<1> SUFFICES ASSUME OwnInv, [Next]_vars PROVE OwnInv'
  OBVIOUS
<1>1. CASE UNCHANGED vars
  BY <1>1 DEF vars, OwnInv, Shape, ClosedHasNone, ContextsOwned, IsContext
<1>2. ASSUME NEW c \in Conns, NEW accepted \in Acceptances, NEW message \in Messages[c],
             OnClientConnection(c, message, accepted)
      PROVE  OwnInv'
  BY <1>2, ConnectionOwns
<1>3. ASSUME NEW c \in Conns, NEW accepted \in Acceptances, NEW n \in ResponseLens,
             OnClientRecv(c, n, accepted) \/ AnswerLater(c, n, accepted)
      PROVE  OwnInv'
  BY <1>3, RecvOwns, AnswerOwns
<1>4. ASSUME NEW c \in Conns, NEW accepted \in Acceptances, OnClientSent(c, accepted)
      PROVE  OwnInv'
  BY <1>4, AnswerOwns
<1>5. ASSUME NEW s \in Slots, OnRequestTimeout(s) PROVE OwnInv'
  BY <1>5, TimeoutOwns
<1>6. ASSUME NEW c \in Conns, OnClientDisconnect(c) PROVE OwnInv'
  BY <1>6, DisconnectOwns
<1> QED
  BY <1>1, <1>2, <1>3, <1>4, <1>5, <1>6 DEF Next

\* Each context of the HTTP server belongs to one open connection for exactly
\* as long as it is open, for any number of contexts, clients and requests
\* (on_tcp_conn, httpserver_parse_req_char, on_tcp_disc).
THEOREM AlwaysOwned == Spec => []ContextsOwned
<1>1. OwnInv => ContextsOwned
  BY DEF OwnInv
<1> QED
  BY OwnInit, OwnStep, <1>1, PTL DEF Spec

-----------------------------------------------------------------------------
(***************************************************************************)
(* HttpServer: requests are handled as they were sent and responses are    *)
(* sent whole, for any slots, clients, limits and messages that the parser *)
(* understands when it gets their bytes in one go.  The parser heeds       *)
(* neither timer nor owner (ParserAlike), so a context is at each byte     *)
(* what it would be if there were no other (Received); and a connection    *)
(* with a response under way has sent what is not left to be sent (Whole). *)
(***************************************************************************)
\* Two contexts that differ in their timers and owners at most.
Alike(hc, hc2) ==
    /\ DOMAIN hc = Fields /\ DOMAIN hc2 = Fields
    /\ \A f \in Fields \ {"timer", "arg"} : hc[f] = hc2[f]

\* What the parts of the parser are made of keeps contexts alike.
LEMMA StepsAlike ==
    ASSUME NEW hc, NEW hc2, Alike(hc, hc2)
    PROVE  /\ \A x : /\ Alike(To(hc, x), To(hc2, x))
                     /\ Alike([hc EXCEPT !.method = x], [hc2 EXCEPT !.method = x])
                     /\ Alike([hc EXCEPT !.path = x], [hc2 EXCEPT !.path = x])
                     /\ Alike([hc EXCEPT !.query = x], [hc2 EXCEPT !.query = x])
                     /\ Alike([hc EXCEPT !.header_name = x], [hc2 EXCEPT !.header_name = x])
                     /\ Alike([hc EXCEPT !.header_value = x], [hc2 EXCEPT !.header_value = x])
                     /\ Alike([hc EXCEPT !.body = x], [hc2 EXCEPT !.body = x])
                     /\ Alike([hc EXCEPT !.called = x], [hc2 EXCEPT !.called = x])
           /\ Alike(handle_invalid(hc), handle_invalid(hc2))
           /\ Alike(handle_request(hc), handle_request(hc2))
           /\ Alike(handle_header_value_ready(hc), handle_header_value_ready(hc2))
<1>1. ASSUME NEW x
      PROVE  /\ Alike(To(hc, x), To(hc2, x))
             /\ Alike([hc EXCEPT !.method = x], [hc2 EXCEPT !.method = x])
             /\ Alike([hc EXCEPT !.path = x], [hc2 EXCEPT !.path = x])
             /\ Alike([hc EXCEPT !.query = x], [hc2 EXCEPT !.query = x])
             /\ Alike([hc EXCEPT !.header_name = x], [hc2 EXCEPT !.header_name = x])
             /\ Alike([hc EXCEPT !.header_value = x], [hc2 EXCEPT !.header_value = x])
             /\ Alike([hc EXCEPT !.body = x], [hc2 EXCEPT !.body = x])
             /\ Alike([hc EXCEPT !.called = x], [hc2 EXCEPT !.called = x])
  BY DEF Alike, To, Fields
<1>2. Alike(handle_invalid(hc), handle_invalid(hc2))
  BY DEF Alike, handle_invalid, Fields
<1>3. Alike(handle_request(hc), handle_request(hc2))
  BY DEF Alike, handle_request, Fields
<1>4. Alike(handle_header_value_ready(hc), handle_header_value_ready(hc2))
  <2>1. /\ hc.header_name = hc2.header_name /\ hc.header_value = hc2.header_value
        /\ hc.headers = hc2.headers /\ hc.content_length = hc2.content_length
    BY DEF Alike, Fields
  <2> DEFINE length == IF hc.header_name = ContentLength THEN Value(hc.header_value) ELSE hc.content_length
             headers == Append(hc.headers, <<hc.header_name, hc.header_value>>)
  <2> HIDE DEF length, headers
  <2>2. /\ handle_header_value_ready(hc) = [hc EXCEPT !.content_length = length, !.headers = headers,
                                                     !.header_name = <<>>, !.header_value = <<>>]
        /\ handle_header_value_ready(hc2) = [hc2 EXCEPT !.content_length = length, !.headers = headers,
                                                     !.header_name = <<>>, !.header_value = <<>>]
    BY <2>1, Zenon DEF handle_header_value_ready, length, headers
  <2> QED
    BY <2>2 DEF Alike, Fields
<1> QED
  BY <1>1, <1>2, <1>3, <1>4

\* So does each part of the parser.
LEMMA PartsAlike ==
    ASSUME NEW hc, NEW hc2, NEW c, Alike(hc, hc2)
    PROVE  /\ Alike(NameStarts(hc, c), NameStarts(hc2, c))
           /\ Alike(InMethod(hc, c), InMethod(hc2, c)) /\ Alike(InPath(hc, c), InPath(hc2, c))
           /\ Alike(InQuery(hc, c), InQuery(hc2, c)) /\ Alike(InHeaderName(hc, c), InHeaderName(hc2, c))
           /\ Alike(InHeaderValue(hc, c), InHeaderValue(hc2, c))
           /\ Alike(AfterNewline(hc, c), AfterNewline(hc2, c))
           /\ Alike(AfterHeader(hc, c), AfterHeader(hc2, c)) /\ Alike(InBody(hc, c), InBody(hc2, c))
<1>0. /\ hc.req_state = hc2.req_state /\ hc.method = hc2.method /\ hc.path = hc2.path
      /\ hc.query = hc2.query /\ hc.header_name = hc2.header_name /\ hc.header_value = hc2.header_value
      /\ hc.content_length = hc2.content_length /\ hc.body = hc2.body
  BY DEF Alike, Fields
<1>1. \A x, y : /\ To(hc, x).method = hc.method /\ To(hc2, x).method = hc2.method
                /\ To(hc, x).header_name = hc.header_name /\ To(hc2, x).header_name = hc2.header_name
                /\ To(hc, x).body = hc.body /\ To(hc2, x).body = hc2.body
  BY DEF Alike, Fields, To
<1>2. Alike(NameStarts(hc, c), NameStarts(hc2, c))
  <2>1. Alike(To(hc, "HEADER_NAME"), To(hc2, "HEADER_NAME"))
    BY StepsAlike
  <2> QED
    BY <2>1, <1>0, <1>1, StepsAlike DEF NameStarts
<1>3. Alike(InMethod(hc, c), InMethod(hc2, c))
  <2>1. Alike(To(hc, "METHOD"), To(hc2, "METHOD"))
    BY StepsAlike
  <2>2. Alike([To(hc, "METHOD") EXCEPT !.method = append_max_len(@, c)],
              [To(hc2, "METHOD") EXCEPT !.method = append_max_len(@, c)])
    BY <2>1, <1>0, <1>1, StepsAlike
  <2>3. Alike(To(hc, "METHOD_READY"), To(hc2, "METHOD_READY")) /\ Alike(handle_invalid(hc), handle_invalid(hc2))
    BY StepsAlike
  <2> QED
    BY <2>2, <2>3, <1>0 DEF InMethod
<1>4. Alike(InPath(hc, c), InPath(hc2, c))
  <2>1. Alike([hc EXCEPT !.path = append_max_len(@, c)], [hc2 EXCEPT !.path = append_max_len(@, c)])
    BY <1>0, StepsAlike
  <2>2. /\ Alike(To(hc, "QUERY"), To(hc2, "QUERY")) /\ Alike(To(hc, "FRAGMENT"), To(hc2, "FRAGMENT"))
        /\ Alike(To(hc, "FRAGMENT_READY"), To(hc2, "FRAGMENT_READY"))
    BY StepsAlike
  <2> QED
    BY <2>1, <2>2 DEF InPath
<1>5. Alike(InQuery(hc, c), InQuery(hc2, c))
  <2>1. Alike([hc EXCEPT !.query = append_max_len(@, c)], [hc2 EXCEPT !.query = append_max_len(@, c)])
    BY <1>0, StepsAlike
  <2>2. /\ Alike(To(hc, "FRAGMENT"), To(hc2, "FRAGMENT"))
        /\ Alike(To(hc, "FRAGMENT_READY"), To(hc2, "FRAGMENT_READY"))
    BY StepsAlike
  <2> QED
    BY <2>1, <2>2 DEF InQuery
<1>6. Alike(InHeaderName(hc, c), InHeaderName(hc2, c))
  BY <1>0, StepsAlike DEF InHeaderName
<1>7. Alike(InHeaderValue(hc, c), InHeaderValue(hc2, c))
  <2>1. Alike(handle_header_value_ready(hc), handle_header_value_ready(hc2))
    BY StepsAlike
  <2> QED
    BY <2>1, <1>0, StepsAlike DEF InHeaderValue
<1>8. Alike(AfterNewline(hc, c), AfterNewline(hc2, c))
  <2>1. /\ Alike(To(hc, "HEADER_READY"), To(hc2, "HEADER_READY")) /\ Alike(To(hc, "BODY"), To(hc2, "BODY"))
    BY StepsAlike
  <2>2. Alike(handle_request(To(hc, "HEADER_READY")), handle_request(To(hc2, "HEADER_READY")))
    BY <2>1, StepsAlike
  <2> QED
    BY <2>1, <2>2, <1>0, <1>2 DEF AfterNewline
<1>9. Alike(AfterHeader(hc, c), AfterHeader(hc2, c))
  <2>1. Alike(To(hc, "BODY"), To(hc2, "BODY"))
    BY StepsAlike
  <2> QED
    BY <2>1, <1>0, StepsAlike DEF AfterHeader
<1>10. Alike(InBody(hc, c), InBody(hc2, c))
  <2>1. Alike(To(hc, "BODY_READY"), To(hc2, "BODY_READY"))
    BY StepsAlike
  <2>2. Alike([To(hc, "BODY_READY") EXCEPT !.body = Append(@, c)],
              [To(hc2, "BODY_READY") EXCEPT !.body = Append(@, c)])
    BY <2>1, <1>0, <1>1, StepsAlike
  <2>3. Alike(handle_request([To(hc, "BODY_READY") EXCEPT !.body = Append(@, c)]),
              handle_request([To(hc2, "BODY_READY") EXCEPT !.body = Append(@, c)]))
    BY <2>2, StepsAlike
  <2>4. /\ Alike(handle_invalid(hc), handle_invalid(hc2))
        /\ Alike([hc EXCEPT !.body = Append(@, c)], [hc2 EXCEPT !.body = Append(@, c)])
    BY <1>0, StepsAlike
  <2> QED
    BY <2>3, <2>4, <1>0 DEF InBody
<1> QED
  BY <1>2, <1>3, <1>4, <1>5, <1>6, <1>7, <1>8, <1>9, <1>10

\* What the parser does depends neither on the timer nor on the owner.
LEMMA ParserAlike ==
    ASSUME NEW context, NEW context2, NEW c, Alike(context, context2), context.req_state \in Busy
    PROVE  Alike(httpserver_parse_req_char(context, c), httpserver_parse_req_char(context2, c))
<1> DEFINE hc  == [context EXCEPT !.called = "none"]
           hc2 == [context2 EXCEPT !.called = "none"]
           result == httpserver_parse_req_char(context, c)
           result2 == httpserver_parse_req_char(context2, c)
<1>1. Alike(hc, hc2)
  BY StepsAlike
<1>2. hc.req_state \in Busy
  BY DEF Alike, Fields
<1> HIDE DEF hc, hc2
<1>3. hc2.req_state = hc.req_state /\ hc2.path = hc.path /\ hc2.header_value = hc.header_value
  BY <1>1 DEF Alike, Fields
<1>4. Alike([To(hc, "PATH") EXCEPT !.path = append_max_len(@, c)],
            [To(hc2, "PATH") EXCEPT !.path = append_max_len(@, c)])
  <2>1. Alike(To(hc, "PATH"), To(hc2, "PATH"))
    BY <1>1, StepsAlike
  <2>2. To(hc, "PATH").path = hc.path /\ To(hc2, "PATH").path = hc.path
    BY <1>1, <1>3 DEF Alike, Fields, To
  <2> QED
    BY <2>1, <2>2, StepsAlike
<1>5. Alike([To(hc, "HEADER_VALUE") EXCEPT !.header_value = append_max_len(@, c)],
            [To(hc2, "HEADER_VALUE") EXCEPT !.header_value = append_max_len(@, c)])
  <2>1. Alike(To(hc, "HEADER_VALUE"), To(hc2, "HEADER_VALUE"))
    BY <1>1, StepsAlike
  <2>2. To(hc, "HEADER_VALUE").header_value = hc.header_value /\ To(hc2, "HEADER_VALUE").header_value = hc.header_value
    BY <1>1, <1>3 DEF Alike, Fields, To
  <2> QED
    BY <2>1, <2>2, StepsAlike
<1>6. \A x : Alike(To(hc, x), To(hc2, x))
  BY <1>1, StepsAlike
<1>7. CASE hc.req_state \in {"NEW", "METHOD", "INVALID", "METHOD_READY", "PATH", "QUERY"}
  <2>1. Alike(handle_invalid(hc), handle_invalid(hc2))
    BY <1>1, StepsAlike
  <2>2. /\ Alike(InMethod(hc, c), InMethod(hc2, c)) /\ Alike(InPath(hc, c), InPath(hc2, c))
        /\ Alike(InQuery(hc, c), InQuery(hc2, c))
    BY <1>1, PartsAlike
  <2> QED
    BY <1>7, <1>1, <1>3, <1>4, <2>1, <2>2 DEF httpserver_parse_req_char, hc, hc2
<1>8. CASE hc.req_state \in {"FRAGMENT", "FRAGMENT_READY", "PROTO", "PROTO_READY"}
  <2>1. Alike(NameStarts(hc, c), NameStarts(hc2, c))
    BY <1>1, PartsAlike
  <2> QED
    BY <1>8, <1>1, <1>3, <1>6, <2>1 DEF httpserver_parse_req_char, hc, hc2
<1>9. CASE hc.req_state \in {"HEADER_NAME", "HEADER_NAME_READY", "HEADER_VALUE"}
  <2>1. Alike(InHeaderName(hc, c), InHeaderName(hc2, c)) /\ Alike(InHeaderValue(hc, c), InHeaderValue(hc2, c))
    BY <1>1, PartsAlike
  <2> QED
    BY <1>9, <1>1, <1>3, <1>5, <2>1 DEF httpserver_parse_req_char, hc, hc2
<1>10. CASE hc.req_state = "HEADER_VALUE_READY"
  <2>1. Alike(NameStarts(hc, c), NameStarts(hc2, c))
    BY <1>1, PartsAlike
  <2> QED
    BY <1>10, <1>1, <1>3, <1>6, <2>1 DEF httpserver_parse_req_char, hc, hc2
<1>11. CASE hc.req_state \in {"HEADER_VALUE_READY_NL", "HEADER_READY", "BODY", "BODY_READY"}
  <2>1. /\ Alike(AfterNewline(hc, c), AfterNewline(hc2, c))
        /\ Alike(AfterHeader(hc, c), AfterHeader(hc2, c)) /\ Alike(InBody(hc, c), InBody(hc2, c))
    BY <1>1, PartsAlike
  <2> QED
    BY <1>11, <1>1, <1>3, <2>1 DEF httpserver_parse_req_char, hc, hc2
<1> QED
  BY <1>2, <1>7, <1>8, <1>9, <1>10, <1>11 DEF Busy

\* The parser has an answer for the message m.
Understood(m) == m.bytes \in Seq(STRING) /\ m.bytes # <<>> /\ \E run : Reads(m, run)

\* The context hc of the connection link of c is what it would be if the bytes
\* received had come in one go, and the request came out with the last of them.
Received(c, link, hc) ==
    LET m == link.message
        i == Len(m.bytes) - Len(link.todo)
    IN  /\ m \in Messages[c] /\ link.todo \in Seq(STRING) /\ i \in Nat
        /\ \A j \in 1..Len(link.todo) : link.todo[j] = m.bytes[i + j]
        /\ \E run : Reads(m, run) /\ IsContext(run[i]) /\ run[i].req_state \in Busy /\ Alike(run[i], hc)
        /\ link.request = IF link.todo = <<>> THEN m.request ELSE NotARequest

Numbers(link) ==
    /\ link.rest \in Nat /\ link.len \in Nat /\ link.sent \in Nat
    /\ link.unsent \in BOOLEAN /\ link.closing \in BOOLEAN /\ link.waits \in BOOLEAN
    /\ link.late \in BOOLEAN /\ link.refused \in BOOLEAN

\* Nothing has been sent; what has been sent and what is left are the response.
Unanswered(link) ==
    link.len = 0 /\ link.sent = 0 /\ link.rest = 0 /\ ~link.unsent /\ (link.closing => link.late)
Balanced(link) ==
    ~link.refused => /\ link.sent + link.rest = link.len
                     /\ link.rest > 0 => link.unsent
                     /\ link.closing /\ ~link.late => ~link.unsent

\* A connection is answered once: after its last byte and, if it waits, then;
\* but for bytes that are no request, each of which is answered.
Whole(link) ==
    /\ Numbers(link)
    /\ link.waits => link.todo = <<>> /\ link.slot # NoSlot
    /\ link.slot = NoSlot \/ link.message.request # NotARequest =>
           /\ (link.todo # <<>> /\ link.slot # NoSlot) \/ link.waits => Unanswered(link)
           /\ Balanced(link)

HandledInv ==
    \A c \in Conns : /\ Whole(links[c])
                     /\ links[c].slot # NoSlot => Received(c, links[c], http_contexts[links[c].slot])

\* link2 is for the same request as link.
Carries(link, link2) ==
    /\ DOMAIN link2 = LinkFields /\ link2.slot = link.slot /\ link2.message = link.message
    /\ link2.todo = link.todo /\ link2.request = link.request /\ link2.waits = link.waits

LEMMA ReceivedCarries ==
    ASSUME NEW c, NEW link, NEW link2, NEW hc, Carries(link, link2), Received(c, link, hc)
    PROVE  Received(c, link2, hc)
BY Zenon DEF Carries, Received

\* Sending a response of n packets on a connection that has not been answered.
LEMMA SendWhole ==
    ASSUME NEW link, DOMAIN link = LinkFields, Numbers(link), NEW n \in Nat \ {0}, NEW accepted \in BOOLEAN
    PROVE  LET link2 == tcp_send(link, n, accepted)
           IN  Carries(link, link2) /\ Numbers(link2) /\ (Unanswered(link) => Balanced(link2))
<1> DEFINE set  == [link EXCEPT !.len = IF link.unsent THEN @ ELSE n]
           sent == espconn_send(set, accepted)
           done == [sent EXCEPT !.rest = n - 1]
<1>1. CASE link.rest > 0
  BY <1>1 DEF tcp_send, Carries, Unanswered
<1>2. CASE ~(link.rest > 0)
  <2>1. /\ Carries(link, set) /\ Numbers(set)
        /\ Unanswered(link) => set.len = n /\ set.sent = 0 /\ ~set.unsent /\ (set.closing => set.late)
    <3>1. DOMAIN set = LinkFields /\ \A f \in LinkFields \ {"len"} : set[f] = link[f]
      BY DEF LinkFields
    <3>2. set.len = IF link.unsent THEN link.len ELSE n
      BY DEF LinkFields
    <3> HIDE DEF set
    <3>3. Carries(link, set)
      BY <3>1 DEF Carries, LinkFields
    <3>4. Numbers(set)
      BY <3>1, <3>2 DEF Numbers, LinkFields
    <3> QED
      BY <3>1, <3>2, <3>3, <3>4 DEF Unanswered, LinkFields
  <2> HIDE DEF set
  <2>2. CASE set.unsent \/ ~accepted
    <3>1. sent = [set EXCEPT !.refused = TRUE]
      BY <2>2 DEF espconn_send
    <3>2. DOMAIN sent = LinkFields /\ sent.refused = TRUE /\ \A f \in LinkFields \ {"refused"} : sent[f] = set[f]
      BY <2>1, <3>1 DEF Carries, LinkFields
    <3> HIDE DEF sent
    <3>3. DOMAIN done = LinkFields /\ done.rest = n - 1 /\ \A f \in LinkFields \ {"rest"} : done[f] = sent[f]
      BY <3>2 DEF LinkFields
    <3> HIDE DEF done
    <3>4. Carries(link, done)
      BY <2>1, <3>2, <3>3 DEF Carries, LinkFields
    <3>5. Numbers(done)
      <4>1. /\ done.rest = n - 1 /\ done.len = set.len /\ done.sent = set.sent
            /\ done.unsent = set.unsent /\ done.closing = set.closing /\ done.waits = set.waits
            /\ done.late = set.late /\ done.refused = TRUE
        BY <3>2, <3>3 DEF LinkFields
      <4>2. n - 1 \in Nat
        OBVIOUS
      <4> QED
        BY <2>1, <4>1, <4>2, Zenon DEF Numbers
    <3>6. Balanced(done)
      BY <3>2, <3>3 DEF Balanced, LinkFields
    <3> QED
      BY <1>2, <3>4, <3>5, <3>6 DEF tcp_send, done, sent, set
  <2>3. CASE ~set.unsent /\ accepted
    <3>1. sent = [set EXCEPT !.unsent = TRUE, !.sent = @ + 1]
      BY <2>3 DEF espconn_send
    <3>2. /\ DOMAIN sent = LinkFields /\ sent.unsent = TRUE /\ sent.sent = set.sent + 1
          /\ \A f \in LinkFields \ {"unsent", "sent"} : sent[f] = set[f]
      BY <2>1, <3>1 DEF Carries, LinkFields
    <3> HIDE DEF sent
    <3>3. DOMAIN done = LinkFields /\ done.rest = n - 1 /\ \A f \in LinkFields \ {"rest"} : done[f] = sent[f]
      BY <3>2 DEF LinkFields
    <3> HIDE DEF done
    <3>4. Carries(link, done)
      BY <2>1, <3>2, <3>3 DEF Carries, LinkFields
    <3>5. Numbers(done)
      <4>1. /\ done.rest = n - 1 /\ done.len = set.len /\ done.sent = set.sent + 1
            /\ done.unsent = TRUE /\ done.closing = set.closing /\ done.waits = set.waits
            /\ done.late = set.late /\ done.refused = set.refused
        BY <3>2, <3>3 DEF LinkFields
      <4>2. n - 1 \in Nat /\ (set.sent \in Nat => set.sent + 1 \in Nat)
        OBVIOUS
      <4> QED
        BY <2>1, <4>1, <4>2, Zenon DEF Numbers
    <3>6. Unanswered(link) => Balanced(done)
      <4>1. ASSUME Unanswered(link)
            PROVE  done.sent = 1 /\ done.rest = n - 1 /\ done.len = n /\ done.unsent = TRUE
                   /\ (done.closing => done.late)
        BY <2>1, <3>2, <3>3, <4>1 DEF LinkFields
      <4>2. Unanswered(link) => done.sent + done.rest = done.len
        BY <4>1
      <4> QED
        BY <4>1, <4>2, Zenon DEF Balanced
    <3> QED
      BY <1>2, <3>4, <3>5, <3>6 DEF tcp_send, done, sent, set
  <2> QED
    BY <2>1, <2>2, <2>3 DEF Numbers
<1> QED
  BY <1>1, <1>2

\* A step of one connection leaves the others as they were.
LEMMA OneHandled ==
    ASSUME OwnInv, HandledInv, NEW c \in Conns, NEW link, links' = [links EXCEPT ![c] = link],
           Whole(link),
           link.slot # NoSlot => Received(c, link, http_contexts'[link.slot]),
           \A d \in Conns \ {c} : links[d].slot # NoSlot =>
               http_contexts'[links[d].slot] = http_contexts[links[d].slot]
    PROVE  HandledInv'
<1>1. links'[c] = link /\ \A d \in Conns \ {c} : links'[d] = links[d]
  BY DEF OwnInv, Shape
<1>2. ASSUME NEW d \in Conns
      PROVE  /\ Whole(links'[d])
             /\ links'[d].slot # NoSlot => Received(d, links'[d], http_contexts'[links'[d].slot])
  <2>1. CASE d = c
    BY <2>1, <1>1
  <2>2. CASE d # c
    <3>1. links'[d] = links[d]
      BY <2>2, <1>1
    <3> QED
      BY <2>2, <3>1 DEF HandledInv
  <2> QED
    BY <2>1, <2>2
<1> QED
  BY <1>2 DEF HandledInv

\* Two connections have no context in common.
LEMMA OthersContexts ==
    ASSUME OwnInv, NEW c \in Conns, NEW d \in Conns \ {c}, links[d].slot # NoSlot
    PROVE  /\ links[d].slot \in Slots /\ links[d].slot # links[c].slot
           /\ http_contexts[links[d].slot].arg = d /\ http_contexts[links[d].slot].req_state # "IDLE"
<1>1. links[d].slot \in Slots /\ links[c].slot \in Slots \cup {NoSlot}
  BY DEF OwnInv, Shape
<1>2. links[c].slot # NoSlot => http_contexts[links[c].slot].arg = c
  BY DEF OwnInv, ContextsOwned
<1> QED
  BY <1>1, <1>2 DEF OwnInv, ContextsOwned

\* A new connection: an empty context for its message, or a response of its own.
LEMMA ConnectionHandled ==
    ASSUME OwnInv, HandledInv, NEW c \in Conns, NEW message \in Messages[c], Understood(message),
           NEW accepted \in BOOLEAN, OnClientConnection(c, message, accepted)
    PROVE  HandledInv'
<1> DEFINE link  == [Closed EXCEPT !.open = TRUE, !.message = message, !.todo = message.bytes]
           taken == [link EXCEPT !.slot = FirstFree]
           fresh == [Idle EXCEPT !.req_state = "NEW", !.arg = c, !.timer = TRUE]
           start == [Idle EXCEPT !.req_state = "NEW"]
<1>1. /\ DOMAIN link = LinkFields /\ Numbers(link) /\ Unanswered(link) /\ ~link.waits
      /\ link.slot = NoSlot
  BY DEF Closed, LinkFields, Numbers, Unanswered
<1>2. /\ DOMAIN taken = LinkFields /\ Numbers(taken) /\ Unanswered(taken) /\ ~taken.waits
      /\ taken.slot = FirstFree /\ taken.message = message /\ taken.todo = message.bytes
      /\ taken.request = NotARequest
  BY DEF Closed, LinkFields, Numbers, Unanswered
<1>3. Alike(start, fresh) /\ IsContext(start) /\ start.req_state = "NEW"
  BY DEF Alike, Idle, IsContext, Fields
<1>4. OnClientConnection(c, message, accepted) <=>
          /\ ~links[c].open
          /\ \/ /\ FreeSlots # {}
                /\ links' = [links EXCEPT ![c] = taken]
                /\ http_contexts' = [http_contexts EXCEPT ![FirstFree] = fresh]
                /\ UNCHANGED refusals
             \/ /\ links' = [links EXCEPT ![c] = tcp_send(link, 1, accepted)]
                /\ Counted(accepted)
                /\ UNCHANGED http_contexts
  BY DEF OnClientConnection
<1>5. "NEW" \in Busy
  BY DEF Busy
<1> HIDE DEF link, taken, fresh, start
<1>6. \A l : Numbers(l) /\ Unanswered(l) => Balanced(l)
  BY DEF Numbers, Unanswered, Balanced
<1>7. CASE /\ FreeSlots # {}
           /\ links' = [links EXCEPT ![c] = taken]
           /\ http_contexts' = [http_contexts EXCEPT ![FirstFree] = fresh]
  <2>1. /\ FirstFree \in Slots /\ http_contexts[FirstFree].req_state = "IDLE"
        /\ DOMAIN http_contexts = Slots
    BY <1>7, FirstIsFree DEF OwnInv, Shape
  <2>2. http_contexts'[FirstFree] = fresh
    BY <1>7, <2>1
  <2>3. Whole(taken)
    BY <1>2, <1>6 DEF Whole
  <2>4. Received(c, taken, fresh)
    <3>1. Len(message.bytes) \in Nat /\ Len(message.bytes) - Len(taken.todo) = 0
      BY <1>2 DEF Understood
    <3>2. PICK run : Reads(message, run)
      BY DEF Understood
    <3>3. run[0] = start
      BY <3>2 DEF Reads, IsRun, start
    <3>4. \A j \in 1..Len(taken.todo) : taken.todo[j] = message.bytes[0 + j]
      BY <1>2 DEF Understood
    <3>5. taken.todo \in Seq(STRING) /\ taken.todo # <<>>
      BY <1>2 DEF Understood
    <3>6. IsContext(run[0]) /\ run[0].req_state \in Busy /\ Alike(run[0], fresh)
      BY <1>3, <1>5, <3>3
    <3> QED
      BY <1>2, <3>1, <3>2, <3>4, <3>5, <3>6 DEF Received
  <2>5. \A d \in Conns \ {c} : links[d].slot # NoSlot =>
            http_contexts'[links[d].slot] = http_contexts[links[d].slot]
    BY <1>7, <2>1, OthersContexts
  <2> QED
    BY <1>7, <1>2, <2>2, <2>3, <2>4, <2>5, OneHandled
<1>8. CASE links' = [links EXCEPT ![c] = tcp_send(link, 1, accepted)] /\ UNCHANGED http_contexts
  <2> DEFINE link2 == tcp_send(link, 1, accepted)
  <2>1. Carries(link, link2) /\ Numbers(link2) /\ Balanced(link2)
    BY <1>1, SendWhole
  <2> HIDE DEF link2
  <2>2. Whole(link2) /\ link2.slot = NoSlot
    BY <1>1, <2>1 DEF Carries, Whole
  <2> QED
    BY <1>8, <2>2, OneHandled DEF link2
<1> QED
  BY <1>4, <1>7, <1>8

\* What Head and Tail are, element by element.
LEMMA TailIsShorter ==
    ASSUME NEW S, NEW s \in Seq(S), s # <<>>
    PROVE  /\ Len(s) \in Nat \ {0} /\ Tail(s) \in Seq(S) /\ Len(Tail(s)) = Len(s) - 1
           /\ Head(s) = s[1] /\ \A j \in 1..Len(Tail(s)) : Tail(s)[j] = s[j + 1]
           /\ (Tail(s) = <<>>) <=> (Len(s) = 1)
<1>1. /\ Len(s) \in Nat \ {0} /\ Tail(s) \in Seq(S) /\ Len(Tail(s)) = Len(s) - 1
      /\ Head(s) = s[1] /\ \A j \in 1..Len(Tail(s)) : Tail(s)[j] = s[j + 1]
  OBVIOUS
<1>2. (Tail(s) = <<>>) <=> (Len(Tail(s)) = 0)
  BY <1>1
<1> QED
  BY <1>1, <1>2

\* What is received with the next byte of c, but for the request.
LEMMA NextByte ==
    ASSUME NEW c, NEW link, NEW context, Received(c, link, context), Understood(link.message), link.todo # <<>>
    PROVE  LET hc == httpserver_parse_req_char(context, Head(link.todo))
           IN  /\ hc.called = "request_callback" => /\ link.message.request # NotARequest
                                                    /\ Tail(link.todo) = <<>> /\ Request(hc) = link.message.request
               /\ hc.called # "request_callback" /\ Tail(link.todo) = <<>> => link.message.request = NotARequest
               /\ hc.called = "invalid_callback" => link.message.request = NotARequest
               /\ \A link2 : /\ link2.message = link.message /\ link2.todo = Tail(link.todo)
                             /\ link2.request = IF link2.todo = <<>> THEN link.message.request ELSE NotARequest
                             => Received(c, link2, hc)
<1> DEFINE m  == link.message
           i  == Len(m.bytes) - Len(link.todo)
           b  == Head(link.todo)
           rest == Tail(link.todo)
           hc == httpserver_parse_req_char(context, b)
<1>1. /\ m \in Messages[c] /\ link.todo \in Seq(STRING) /\ i \in Nat /\ m.bytes \in Seq(STRING)
      /\ \A j \in 1..Len(link.todo) : link.todo[j] = m.bytes[i + j]
  BY DEF Received, Understood
<1>2. PICK run : Reads(m, run) /\ IsContext(run[i]) /\ run[i].req_state \in Busy /\ Alike(run[i], context)
  BY DEF Received
<1>3. /\ Len(link.todo) \in Nat \ {0} /\ rest \in Seq(STRING) /\ Len(rest) = Len(link.todo) - 1
      /\ b = link.todo[1] /\ \A j \in 1..Len(rest) : rest[j] = link.todo[j + 1]
      /\ (rest = <<>>) <=> (Len(link.todo) = 1)
  BY <1>1, TailIsShorter
<1> DEFINE size == Len(m.bytes)
           left == Len(link.todo)
<1>4. /\ Len(m.bytes) \in Nat /\ Len(m.bytes) - Len(rest) = i + 1 /\ i + 1 \in 1..Len(m.bytes)
      /\ (rest = <<>>) <=> (i + 1 = Len(m.bytes))
  <2>1. size \in Nat /\ left \in Nat \ {0} /\ Len(rest) = left - 1 /\ i = size - left /\ i \in Nat
    BY <1>1, <1>3
  <2>2. (rest = <<>>) <=> (left = 1)
    BY <1>3
  <2> HIDE DEF size, left, i
  <2>3. size - (left - 1) = i + 1 /\ i + 1 \in 1..size /\ ((left = 1) <=> (i + 1 = size))
    BY <2>1
  <2> QED
    BY <2>1, <2>2, <2>3 DEF size
<1>5. b = m.bytes[i + 1] /\ \A j \in 1..Len(rest) : rest[j] = m.bytes[(i + 1) + j]
  <2>1. left \in Nat \ {0} /\ Len(rest) = left - 1 /\ b = link.todo[1] /\ i \in Nat
        /\ (\A j \in 1..left : link.todo[j] = m.bytes[i + j])
        /\ (\A j \in 1..(left - 1) : rest[j] = link.todo[j + 1])
    BY <1>1, <1>3
  <2> HIDE DEF left, i, b
  <2>2. b = m.bytes[i + 1]
    <3>1. 1 \in 1..left
      BY <2>1
    <3> QED
      BY <2>1, <3>1
  <2>3. ASSUME NEW j \in 1..Len(rest) PROVE rest[j] = m.bytes[(i + 1) + j]
    <3>1. j \in 1..(left - 1) /\ j + 1 \in 1..left /\ i + (j + 1) = (i + 1) + j
      BY <2>1
    <3>2. rest[j] = link.todo[j + 1] /\ link.todo[j + 1] = m.bytes[i + (j + 1)]
      BY <2>1, <3>1
    <3> QED
      BY <3>1, <3>2
  <2> QED
    BY <2>2, <2>3
<1> HIDE DEF size, left, rest
<1> HIDE DEF i, b
<1>6. run[i + 1] = httpserver_parse_req_char(run[i], b)
  <2>1. (i + 1) - 1 = i
    BY <1>1
  <2> QED
    BY <1>2, <1>4, <1>5, <2>1 DEF Reads, IsRun
<1>7. IsContext(run[i + 1]) /\ run[i + 1].req_state \in Busy /\ Alike(run[i + 1], hc)
  <2>1. Keeps(run[i], run[i + 1])
    BY <1>2, <1>6, ParserKeeps
  <2>2. Alike(run[i + 1], hc)
    BY <1>2, <1>6, ParserAlike
  <2> QED
    BY <2>1, <2>2 DEF Keeps
<1> HIDE DEF hc
<1>8. hc.called = run[i + 1].called /\ Request(hc) = Request(run[i + 1])
  BY <1>7 DEF Alike, Fields, Request
<1>9. IF m.request = NotARequest THEN run[i + 1].called # "request_callback"
      ELSE IF i + 1 < Len(m.bytes) THEN run[i + 1].called = "none"
      ELSE run[i + 1].called = "request_callback" /\ Request(run[i + 1]) = m.request
  BY <1>2, <1>4 DEF Reads
<1>10. /\ hc.called = "request_callback" => m.request # NotARequest /\ rest = <<>> /\ Request(hc) = m.request
       /\ hc.called # "request_callback" /\ rest = <<>> => m.request = NotARequest
       /\ hc.called = "invalid_callback" => m.request = NotARequest
  BY <1>4, <1>8, <1>9
<1>11. ASSUME NEW link2, link2.message = m, link2.todo = rest,
              link2.request = IF link2.todo = <<>> THEN m.request ELSE NotARequest
       PROVE  Received(c, link2, hc)
  <2> DEFINE i2 == Len(link2.message.bytes) - Len(link2.todo)
  <2>1. i2 = i + 1 /\ i2 \in Nat
    <3>1. i2 = Len(m.bytes) - Len(rest)
      BY <1>11
    <3> HIDE DEF i2
    <3>2. i2 = i + 1
      BY <3>1, <1>4, Zenon
    <3>3. i + 1 \in Nat
      BY <1>1
    <3> QED
      BY <3>2, <3>3, Zenon
  <2> HIDE DEF i2
  <2>2. link2.message \in Messages[c] /\ link2.todo \in Seq(STRING)
    BY <1>1, <1>3, <1>11
  <2>3. \A j \in 1..Len(link2.todo) : link2.todo[j] = link2.message.bytes[i2 + j]
    BY <1>5, <1>11, <2>1
  <2>4. /\ Reads(link2.message, run) /\ IsContext(run[i2]) /\ run[i2].req_state \in Busy
        /\ Alike(run[i2], hc)
    BY <1>2, <1>7, <1>11, <2>1
  <2>5. link2.request = IF link2.todo = <<>> THEN link2.message.request ELSE NotARequest
    BY <1>11
  <2> QED
    BY <2>1, <2>2, <2>3, <2>4, <2>5, Zenon DEF Received, i2
<1> QED
  BY <1>10, <1>11 DEF hc, b, rest

\* What each message is understood as is a hypothesis on the constants.
Intelligible == \A c \in Conns : \A m \in Messages[c] : Understood(m)

\* A byte that comes in.
LEMMA RecvHandled ==
    ASSUME Intelligible, OwnInv, HandledInv, NEW c \in Conns, NEW n \in Nat \ {0},
           NEW accepted \in BOOLEAN, OnClientRecv(c, n, accepted)
    PROVE  HandledInv'
<1> DEFINE link == [links[c] EXCEPT !.todo = Tail(@)]
           s    == link.slot
           hc   == IF s = NoSlot THEN Idle
                   ELSE httpserver_parse_req_char(http_contexts[s], Head(links[c].todo))
           handed == [link EXCEPT !.request = Request(hc)]
<1>1. /\ DOMAIN links[c] = LinkFields /\ links[c].slot \in Slots \cup {NoSlot} /\ links[c].todo # <<>>
      /\ DOMAIN http_contexts = Slots
  BY DEF OwnInv, Shape, OnClientRecv
<1>2. PICK forgotten \in BOOLEAN :
      /\ http_contexts' = IF s = NoSlot THEN http_contexts ELSE [http_contexts EXCEPT ![s] = hc]
      /\ \/ hc.called = "none" /\ links' = [links EXCEPT ![c] = link]
         \/ hc.called = "invalid_callback" /\ links' = [links EXCEPT ![c] = tcp_send(link, 1, accepted)]
         \/ hc.called = "request_callback" /\ links' = [links EXCEPT ![c] = tcp_send(handed, n, accepted)]
         \/ hc.called = "request_callback" /\ links' = [links EXCEPT ![c] =
                [link EXCEPT !.request = Request(hc), !.waits = TRUE, !.forgotten = forgotten]]
  BY DEF OnClientRecv
<1> DEFINE waits == [link EXCEPT !.request = Request(hc), !.waits = TRUE, !.forgotten = forgotten]
<1>3. /\ DOMAIN link = LinkFields /\ link.todo = Tail(links[c].todo)
      /\ \A f \in LinkFields \ {"todo"} : link[f] = links[c][f]
  BY <1>1 DEF LinkFields
<1>4. s = links[c].slot
  BY <1>3 DEF LinkFields
<1>5. /\ DOMAIN handed = LinkFields /\ handed.request = Request(hc)
      /\ \A f \in LinkFields \ {"request"} : handed[f] = link[f]
  BY <1>3 DEF LinkFields
<1>6. /\ DOMAIN waits = LinkFields /\ waits.request = Request(hc) /\ waits.waits = TRUE
      /\ \A f \in LinkFields \ {"request", "waits", "forgotten"} : waits[f] = link[f]
  BY <1>3 DEF LinkFields
<1>7. Whole(links[c])
  BY DEF HandledInv
<1>8. Numbers(link) /\ Numbers(handed) /\ Numbers(waits)
  BY <1>3, <1>5, <1>6, <1>7 DEF Whole, Numbers, LinkFields
<1>9. ~link.waits /\ ~handed.waits
  BY <1>1, <1>3, <1>5, <1>7 DEF Whole, LinkFields
<1>10. ASSUME NEW d \in Conns \ {c}, links[d].slot # NoSlot
       PROVE  http_contexts'[links[d].slot] = http_contexts[links[d].slot]
  BY <1>1, <1>2, <1>4, <1>10, OthersContexts
<1>11. CASE s = NoSlot
  <2>1. hc.called = "none"
    BY <1>11 DEF Idle
  <2>2. links' = [links EXCEPT ![c] = link]
    BY <1>2, <2>1
  <2>3. Balanced(link)
    <3>1. Balanced(links[c])
      BY <1>4, <1>7, <1>11 DEF Whole
    <3> HIDE DEF link
    <3> QED
      BY <1>3, <3>1 DEF Balanced, LinkFields
  <2> HIDE DEF link, s, hc
  <2>4. Whole(link) /\ link.slot = NoSlot
    BY <1>8, <1>9, <1>11, <2>3 DEF Whole, s
  <2> QED
    BY <1>10, <2>2, <2>4, OneHandled
<1>12. CASE s # NoSlot
  <2> DEFINE context == http_contexts[s]
             m == links[c].message
  <2>1. s \in Slots /\ http_contexts'[s] = hc
    BY <1>1, <1>2, <1>4, <1>12
  <2>2. Received(c, links[c], context)
    BY <1>4, <1>12 DEF HandledInv
  <2>3. Understood(m)
    BY <2>2 DEF Received, Intelligible
  <2>4. hc = httpserver_parse_req_char(context, Head(links[c].todo))
    BY <1>12
  <2> HIDE DEF hc, context
  <2>5. /\ link.message = m /\ handed.message = m /\ waits.message = m
        /\ handed.todo = link.todo /\ waits.todo = link.todo
    BY <1>3, <1>5, <1>6 DEF LinkFields
  <2> HIDE DEF link, handed, waits, m
  <2>6. /\ hc.called = "request_callback" => /\ m.request # NotARequest
                                             /\ link.todo = <<>> /\ Request(hc) = m.request
        /\ hc.called # "request_callback" /\ link.todo = <<>> => m.request = NotARequest
        /\ hc.called = "invalid_callback" => m.request = NotARequest
    <3>1. /\ Understood(links[c].message) /\ link.message = links[c].message
          /\ link.todo = Tail(links[c].todo)
      BY <1>3, <2>3, <2>5 DEF m
    <3>2. LET h == httpserver_parse_req_char(context, Head(links[c].todo))
          IN  /\ h.called = "request_callback" => /\ links[c].message.request # NotARequest
                                                  /\ link.todo = <<>> /\ Request(h) = links[c].message.request
              /\ h.called # "request_callback" /\ link.todo = <<>> => links[c].message.request = NotARequest
              /\ h.called = "invalid_callback" => links[c].message.request = NotARequest
      BY <1>1, <2>2, <3>1, NextByte
    <3> QED
      BY <2>4, <3>2 DEF m
  <2>7. ASSUME NEW link2, link2.message = m, link2.todo = link.todo,
               link2.request = IF link.todo = <<>> THEN m.request ELSE NotARequest
        PROVE  Received(c, link2, hc)
    BY <1>1, <1>3, <2>2, <2>3, <2>4, <2>7, NextByte DEF m
  <2>8. links[c].request = NotARequest
    BY <1>1, <2>2 DEF Received
  <2>9. m.request # NotARequest => Unanswered(links[c]) /\ Balanced(links[c])
    BY <1>1, <1>4, <1>7, <1>12 DEF Whole, m
  <2>10. m.request # NotARequest => /\ Unanswered(link) /\ Balanced(link)
                                    /\ Unanswered(handed) /\ Unanswered(waits) /\ Balanced(waits)
    BY <1>3, <1>5, <1>6, <2>9 DEF Unanswered, Balanced, LinkFields
  <2>11. link.slot = s /\ handed.slot = s /\ waits.slot = s
    BY <1>3, <1>4, <1>5, <1>6 DEF LinkFields
  <2>12. CASE hc.called = "none" /\ links' = [links EXCEPT ![c] = link]
    <3>1. link.request = IF link.todo = <<>> THEN m.request ELSE NotARequest
      <4>1. link.request = NotARequest
        BY <1>3, <2>8 DEF LinkFields
      <4> QED
        BY <2>6, <2>12, <4>1
    <3>2. Received(c, link, hc)
      BY <2>5, <2>7, <3>1
    <3>3. Whole(link)
      BY <1>8, <1>9, <1>12, <2>5, <2>10, <2>11 DEF Whole
    <3> QED
      BY <1>10, <2>1, <2>11, <2>12, <3>2, <3>3, OneHandled
  <2>13. CASE hc.called = "invalid_callback" /\ links' = [links EXCEPT ![c] = tcp_send(link, 1, accepted)]
    <3> DEFINE link2 == tcp_send(link, 1, accepted)
    <3>1. Carries(link, link2) /\ Numbers(link2)
      BY <1>3, <1>8, SendWhole
    <3> HIDE DEF link2
    <3>2. m.request = NotARequest
      BY <2>6, <2>13
    <3>3. link.request = IF link.todo = <<>> THEN m.request ELSE NotARequest
      BY <1>3, <2>8, <3>2 DEF LinkFields
    <3>4. Received(c, link2, hc)
      BY <2>5, <2>7, <3>3, <3>1, ReceivedCarries
    <3>5. Whole(link2) /\ link2.slot = s
      BY <1>9, <1>12, <2>5, <2>11, <3>1, <3>2 DEF Whole, Carries
    <3> QED
      BY <1>10, <2>1, <2>13, <3>4, <3>5, OneHandled DEF link2
  <2>14. CASE hc.called = "request_callback" /\ links' = [links EXCEPT ![c] = tcp_send(handed, n, accepted)]
    <3> DEFINE link2 == tcp_send(handed, n, accepted)
    <3>1. Carries(handed, link2) /\ Numbers(link2) /\ Balanced(link2)
      BY <1>5, <1>8, <2>6, <2>10, <2>14, SendWhole
    <3> HIDE DEF link2
    <3>2. Received(c, handed, hc)
      BY <1>5, <2>5, <2>6, <2>7, <2>14
    <3>3. Received(c, link2, hc)
      BY <3>1, <3>2, ReceivedCarries
    <3>4. Whole(link2) /\ link2.slot = s
      BY <1>9, <2>5, <2>6, <2>11, <2>14, <3>1 DEF Whole, Carries
    <3> QED
      BY <1>10, <2>1, <2>14, <3>3, <3>4, OneHandled DEF link2
  <2>15. CASE hc.called = "request_callback" /\ links' = [links EXCEPT ![c] = waits]
    <3>1. Received(c, waits, hc)
      BY <1>6, <2>5, <2>6, <2>7, <2>15
    <3>2. Whole(waits)
      BY <1>8, <1>12, <2>5, <2>6, <2>10, <2>11, <2>15 DEF Whole
    <3> QED
      BY <1>10, <2>1, <2>11, <2>15, <3>1, <3>2, OneHandled
  <2> QED
    BY <1>2, <2>12, <2>13, <2>14, <2>15 DEF link, handed, waits, hc
<1> QED
  BY <1>11, <1>12

\* The answer to a request that waited.
LEMMA AnswerHandled ==
    ASSUME OwnInv, HandledInv, NEW c \in Conns, NEW n \in Nat \ {0}, NEW accepted \in BOOLEAN,
           AnswerLater(c, n, accepted)
    PROVE  HandledInv'
<1> DEFINE answered == [links[c] EXCEPT !.waits = FALSE]
           link2    == tcp_send(answered, n, accepted)
<1>1. DOMAIN links[c] = LinkFields /\ DOMAIN links = Conns /\ links[c].waits /\ UNCHANGED http_contexts
  BY DEF OwnInv, Shape, AnswerLater
<1>2. links' = [links EXCEPT ![c] = link2]
  BY <1>1 DEF AnswerLater
<1>3. /\ DOMAIN answered = LinkFields /\ answered.waits = FALSE
      /\ \A f \in LinkFields \ {"waits"} : answered[f] = links[c][f]
  BY <1>1 DEF LinkFields
<1> HIDE DEF answered
<1>4. Whole(links[c]) /\ links[c].slot # NoSlot /\ links[c].todo = <<>>
  BY <1>1 DEF HandledInv, Whole
<1>5. Numbers(answered)
  BY <1>3, <1>4 DEF Whole, Numbers, LinkFields
<1>6. links[c].message.request # NotARequest => Unanswered(answered)
  BY <1>1, <1>3, <1>4 DEF Whole, Unanswered, LinkFields
<1>7. /\ Carries(answered, link2) /\ Numbers(link2)
      /\ links[c].message.request # NotARequest => Balanced(link2)
  BY <1>3, <1>5, <1>6, SendWhole
<1> HIDE DEF link2
<1>8. /\ link2.slot = links[c].slot /\ link2.message = links[c].message /\ link2.todo = <<>>
      /\ link2.waits = FALSE /\ link2.request = links[c].request
  BY <1>3, <1>4, <1>7 DEF Carries, LinkFields
<1>9. Whole(link2)
  BY <1>4, <1>7, <1>8 DEF Whole
<1>10. Received(c, links[c], http_contexts[links[c].slot])
  BY <1>4 DEF HandledInv
<1>11. Received(c, link2, http_contexts[links[c].slot])
  <2>1. link2.todo = links[c].todo
    BY <1>4, <1>8
  <2> QED
    BY <1>8, <1>10, <2>1, Zenon DEF Received
<1> QED
  BY <1>1, <1>2, <1>8, <1>9, <1>11, OneHandled

\* A packet has been sent: the next one, or the end.
LEMMA SentHandled ==
    ASSUME OwnInv, HandledInv, NEW c \in Conns, NEW accepted \in BOOLEAN, OnClientSent(c, accepted)
    PROVE  HandledInv'
<1> DEFINE link == [links[c] EXCEPT !.unsent = FALSE]
           sent == espconn_send(link, accepted)
           closed == [link EXCEPT !.closing = TRUE]
           next == [sent EXCEPT !.rest = IF accepted THEN link.rest - 1 ELSE 0]
<1>1. /\ DOMAIN links[c] = LinkFields /\ links[c].unsent /\ UNCHANGED http_contexts
      /\ Whole(links[c])
  BY DEF OwnInv, Shape, OnClientSent, HandledInv
<1>2. \/ link.rest = 0 /\ links' = [links EXCEPT ![c] = closed]
      \/ link.rest > 0 /\ links' = [links EXCEPT ![c] = next]
  BY DEF OnClientSent
<1>3. /\ DOMAIN link = LinkFields /\ link.unsent = FALSE
      /\ \A f \in LinkFields \ {"unsent"} : link[f] = links[c][f]
  BY <1>1 DEF LinkFields
<1>4. /\ link.rest = links[c].rest /\ link.len = links[c].len /\ link.sent = links[c].sent
      /\ link.late = links[c].late /\ link.closing = links[c].closing /\ link.refused = links[c].refused
      /\ Carries(links[c], link) /\ Numbers(link)
  BY <1>1, <1>3 DEF Whole, Numbers, Carries, LinkFields
<1> HIDE DEF link
\* A connection that has something to report has been answered.
<1>5. links[c].slot = NoSlot \/ links[c].message.request # NotARequest =>
          /\ ~((links[c].todo # <<>> /\ links[c].slot # NoSlot) \/ links[c].waits)
          /\ Balanced(links[c])
  BY <1>1 DEF Whole, Unanswered
<1>6. ASSUME NEW link2, Carries(link, link2), Numbers(link2), links' = [links EXCEPT ![c] = link2],
             Balanced(links[c]) => Balanced(link2)
      PROVE  HandledInv'
  <2>1. Carries(links[c], link2)
    BY <1>4, <1>6 DEF Carries
  <2>2. Whole(link2)
    BY <1>1, <1>5, <1>6, <2>1 DEF Whole, Carries
  <2>3. link2.slot # NoSlot => Received(c, link2, http_contexts'[link2.slot])
    <3>1. link2.slot = links[c].slot
      BY <2>1 DEF Carries
    <3> QED
      BY <1>1, <2>1, <3>1, ReceivedCarries DEF HandledInv
  <2> QED
    BY <1>1, <1>6, <2>2, <2>3, OneHandled
<1>7. CASE link.rest = 0 /\ links' = [links EXCEPT ![c] = closed]
  <2>1. /\ DOMAIN closed = LinkFields /\ closed.closing = TRUE
        /\ \A f \in LinkFields \ {"closing"} : closed[f] = link[f]
    BY <1>3 DEF LinkFields
  <2> HIDE DEF closed
  <2>2. Carries(link, closed)
    BY <2>1 DEF Carries, LinkFields
  <2>3. /\ closed.rest = link.rest /\ closed.len = link.len /\ closed.sent = link.sent
        /\ closed.unsent = FALSE /\ closed.waits = link.waits /\ closed.late = link.late
        /\ closed.refused = link.refused
    BY <1>3, <2>1 DEF LinkFields
  <2>4. Numbers(closed)
    BY <1>4, <2>1, <2>3 DEF Numbers
  <2>5. Balanced(links[c]) => Balanced(closed)
    BY <1>4, <1>7, <2>3 DEF Balanced, Numbers
  <2> QED
    BY <1>6, <1>7, <2>2, <2>4, <2>5
<1>8. CASE link.rest > 0 /\ links' = [links EXCEPT ![c] = next]
  <2>1. CASE accepted
    <3>1. sent = [link EXCEPT !.unsent = TRUE, !.sent = @ + 1]
      BY <1>3, <2>1 DEF espconn_send
    <3>2. /\ DOMAIN sent = LinkFields /\ sent.unsent = TRUE /\ sent.sent = link.sent + 1
          /\ \A f \in LinkFields \ {"unsent", "sent"} : sent[f] = link[f]
      BY <1>3, <3>1 DEF LinkFields
    <3> HIDE DEF sent
    <3>3. /\ DOMAIN next = LinkFields /\ next.rest = link.rest - 1
          /\ \A f \in LinkFields \ {"rest"} : next[f] = sent[f]
      BY <2>1, <3>2 DEF LinkFields
    <3> HIDE DEF next
    <3>4. Carries(link, next)
      BY <3>2, <3>3 DEF Carries, LinkFields
    <3>5. /\ next.len = link.len /\ next.sent = link.sent + 1 /\ next.unsent = TRUE
          /\ next.closing = link.closing /\ next.waits = link.waits /\ next.late = link.late
          /\ next.refused = link.refused
      BY <3>2, <3>3 DEF LinkFields
    <3>6. Numbers(next)
      <4>1. link.rest - 1 \in Nat /\ link.sent + 1 \in Nat
        BY <1>4, <1>8 DEF Numbers
      <4> QED
        BY <1>4, <3>3, <3>5, <4>1, Zenon DEF Numbers
    <3>7. Balanced(links[c]) => Balanced(next)
      <4>1. ASSUME Balanced(links[c]), ~next.refused
            PROVE  next.sent + next.rest = next.len /\ (next.closing => next.late)
        <5>1. link.sent + link.rest = link.len
          BY <1>4, <3>5, <4>1 DEF Balanced
        <5>2. next.sent + next.rest = next.len
          BY <1>4, <3>3, <3>5, <5>1 DEF Numbers
        <5>3. next.closing => next.late
          BY <1>1, <1>4, <3>5, <4>1, Zenon DEF Balanced
        <5> QED
          BY <5>2, <5>3
      <4> QED
        BY <3>5, <4>1, Zenon DEF Balanced
    <3> QED
      BY <1>6, <1>8, <3>4, <3>6, <3>7
  <2>2. CASE ~accepted
    <3>1. sent = [link EXCEPT !.refused = TRUE]
      BY <2>2 DEF espconn_send
    <3>2. /\ DOMAIN sent = LinkFields /\ sent.refused = TRUE
          /\ \A f \in LinkFields \ {"refused"} : sent[f] = link[f]
      BY <1>3, <3>1 DEF LinkFields
    <3> HIDE DEF sent
    <3>3. /\ DOMAIN next = LinkFields /\ next.rest = 0
          /\ \A f \in LinkFields \ {"rest"} : next[f] = sent[f]
      BY <2>2, <3>2 DEF LinkFields
    <3> HIDE DEF next
    <3>4. Carries(link, next)
      BY <3>2, <3>3 DEF Carries, LinkFields
    <3>5. Numbers(next) /\ next.refused = TRUE
      <4>1. /\ next.rest = 0 /\ next.len = link.len /\ next.sent = link.sent
            /\ next.unsent = link.unsent /\ next.closing = link.closing /\ next.waits = link.waits
            /\ next.late = link.late /\ next.refused = TRUE
        BY <3>2, <3>3 DEF LinkFields
      <4>2. 0 \in Nat
        OBVIOUS
      <4> QED
        BY <1>4, <4>1, <4>2, Zenon DEF Numbers
    <3>6. Balanced(next)
      BY <3>5 DEF Balanced
    <3> QED
      BY <1>6, <1>8, <3>4, <3>5, <3>6
  <2> QED
    BY <2>1, <2>2
<1> QED
  BY <1>2, <1>7, <1>8

\* A request that is late closes its connection, whose context stays.
LEMMA TimeoutHandled ==
    ASSUME OwnInv, HandledInv, NEW s \in Slots, OnRequestTimeout(s)
    PROVE  HandledInv'
<1> DEFINE c == http_contexts[s].arg
           late == [links[c] EXCEPT !.closing = TRUE, !.late = TRUE]
           done == [http_contexts[s] EXCEPT !.timer = FALSE]
<1>1. /\ c \in Conns /\ IsContext(http_contexts[s]) /\ links[c].slot = s
      /\ DOMAIN http_contexts = Slots /\ DOMAIN links = Conns /\ DOMAIN links[c] = LinkFields
  BY DEF OnRequestTimeout, OwnInv, Shape, ContextsOwned
<1>2. /\ http_contexts' = [http_contexts EXCEPT ![s] = done]
      /\ links' = [links EXCEPT ![c].closing = TRUE, ![c].late = TRUE]
  BY DEF OnRequestTimeout
<1>3. links' = [links EXCEPT ![c] = late]
  BY <1>1, <1>2
<1>4. /\ DOMAIN late = LinkFields /\ late.closing = TRUE /\ late.late = TRUE
      /\ \A f \in LinkFields \ {"closing", "late"} : late[f] = links[c][f]
  BY <1>1 DEF LinkFields
<1>5. DOMAIN done = Fields /\ \A f \in Fields \ {"timer"} : done[f] = http_contexts[s][f]
  BY <1>1 DEF IsContext
<1>6. c = http_contexts[s].arg
  OBVIOUS
<1> HIDE DEF c, late, done
<1>7. Whole(links[c]) /\ Received(c, links[c], http_contexts[s])
  BY <1>1, HttpServerAssumption DEF HandledInv, HttpServerAssumption
<1>8. Carries(links[c], late)
  BY <1>4 DEF Carries, LinkFields
<1>9. Whole(late)
  <2>1. Numbers(late)
    BY <1>4, <1>7 DEF Whole, Numbers, LinkFields
  <2>2. Unanswered(links[c]) => Unanswered(late)
    BY <1>4 DEF Unanswered, LinkFields
  <2>3. Balanced(links[c]) => Balanced(late)
    <3>1. /\ late.refused = links[c].refused /\ late.sent = links[c].sent /\ late.rest = links[c].rest
          /\ late.len = links[c].len /\ late.unsent = links[c].unsent /\ late.late = TRUE
      BY <1>4 DEF LinkFields
    <3> QED
      BY <3>1, Zenon DEF Balanced
  <2> QED
    BY <1>7, <1>8, <2>1, <2>2, <2>3 DEF Whole, Carries
<1>10. Received(c, late, done)
  <2>1. \A hc : Alike(hc, http_contexts[s]) => Alike(hc, done)
    BY <1>5 DEF Alike
  <2>2. Received(c, links[c], done)
    BY <1>7, <2>1, Zenon DEF Received
  <2> QED
    BY <1>8, <2>2, ReceivedCarries
<1>11. late.slot = s /\ http_contexts'[s] = done
  BY <1>1, <1>2, <1>4 DEF LinkFields
<1>12. ASSUME NEW d \in Conns \ {c}, links[d].slot # NoSlot
       PROVE  http_contexts'[links[d].slot] = http_contexts[links[d].slot]
  <2>1. links[d].slot # s
    BY <1>1, <1>12, OthersContexts
  <2> QED
    BY <1>1, <1>2, <2>1
<1> QED
  BY <1>1, <1>3, <1>9, <1>10, <1>11, <1>12, OneHandled

\* The end of a connection.
LEMMA DisconnectHandled ==
    ASSUME OwnInv, HandledInv, NEW c \in Conns, OnClientDisconnect(c)
    PROVE  HandledInv'
<1>1. /\ links' = [links EXCEPT ![c] = Closed]
      /\ http_contexts' = [s \in Slots |-> IF s = links[c].slot THEN Idle ELSE http_contexts[s]]
  BY DEF OnClientDisconnect
<1>2. Whole(Closed) /\ Closed.slot = NoSlot
  BY DEF Closed, Whole, Numbers, Unanswered, Balanced
<1>3. ASSUME NEW d \in Conns \ {c}, links[d].slot # NoSlot
      PROVE  http_contexts'[links[d].slot] = http_contexts[links[d].slot]
  BY <1>1, <1>3, OthersContexts
<1> QED
  BY <1>1, <1>2, <1>3, OneHandled

LEMMA HandledInit == Init => HandledInv
<1> SUFFICES ASSUME Init PROVE HandledInv
  OBVIOUS
<1>1. Whole(Closed) /\ Closed.slot = NoSlot
  BY DEF Closed, Whole, Numbers, Unanswered, Balanced
<1> QED
  BY <1>1 DEF Init, HandledInv

LEMMA HandledStep == Intelligible /\ OwnInv /\ HandledInv /\ [Next]_vars => HandledInv'
<1> SUFFICES ASSUME Intelligible, OwnInv, HandledInv, [Next]_vars PROVE HandledInv'
  OBVIOUS
<1>1. CASE UNCHANGED vars
  BY <1>1 DEF vars, HandledInv
<1>2. Acceptances \subseteq BOOLEAN /\ ResponseLens \subseteq Nat \ {0}
  BY HttpServerAssumption DEF Acceptances, HttpServerAssumption
<1>3. ASSUME NEW c \in Conns, NEW accepted \in Acceptances, NEW message \in Messages[c],
             OnClientConnection(c, message, accepted)
      PROVE  HandledInv'
  BY <1>2, <1>3, ConnectionHandled DEF Intelligible
<1>4. ASSUME NEW c \in Conns, NEW accepted \in Acceptances, NEW n \in ResponseLens,
             OnClientRecv(c, n, accepted) \/ AnswerLater(c, n, accepted)
      PROVE  HandledInv'
  BY <1>2, <1>4, RecvHandled, AnswerHandled
<1>5. ASSUME NEW c \in Conns, NEW accepted \in Acceptances, OnClientSent(c, accepted)
      PROVE  HandledInv'
  BY <1>2, <1>5, SentHandled
<1>6. ASSUME NEW s \in Slots, OnRequestTimeout(s) PROVE HandledInv'
  BY <1>6, TimeoutHandled
<1>7. ASSUME NEW c \in Conns, OnClientDisconnect(c) PROVE HandledInv'
  BY <1>7, DisconnectHandled
<1> QED
  BY <1>1, <1>3, <1>4, <1>5, <1>6, <1>7 DEF Next

LEMMA HandledAlways == Intelligible => (Spec => [](OwnInv /\ HandledInv))
<1> SUFFICES ASSUME Intelligible PROVE Spec => [](OwnInv /\ HandledInv)
  OBVIOUS
<1>1. Init => OwnInv /\ HandledInv
  BY OwnInit, HandledInit
<1>2. OwnInv /\ HandledInv /\ [Next]_vars => (OwnInv /\ HandledInv)'
  BY OwnStep, HandledStep
<1> QED
  BY <1>1, <1>2, PTL DEF Spec

\* A message that the parser takes for its request when its bytes come in one
\* go is taken for that request however they come, whatever other connections
\* do and timers fire in between, and not before the last byte; and bytes that
\* it does not take for a request never make one (on_client_recv(),
\* httpserver_parse_req_char()).
THEOREM HandledAsInOneGo == Intelligible => (Spec => []HandledAsSent)
<1> SUFFICES ASSUME Intelligible PROVE Spec => []HandledAsSent
  OBVIOUS
<1>1. HandledInv => HandledAsSent
  BY DEF HandledInv, Received, HandledAsSent
<1> QED
  BY HandledAlways, <1>1, PTL

\* Of a request so understood, the server closes the connection when the last
\* packet of the one response has been reported as sent, or because the request
\* was late or the SDK refused a packet (tcp_send(), on_client_sent(),
\* on_tcp_sent(), handle_request_timeout()).
THEOREM ResponsesWhole == Intelligible => (Spec => []WholeResponse)
<1> SUFFICES ASSUME Intelligible PROVE Spec => []WholeResponse
  OBVIOUS
<1>1. HandledInv => WholeResponse
  <2> SUFFICES ASSUME HandledInv, NEW c \in Conns, links[c].closing, ~links[c].late, ~links[c].refused,
                      links[c].message.request # NotARequest
               PROVE  links[c].sent = links[c].len /\ links[c].rest = 0 /\ ~links[c].unsent
    BY DEF WholeResponse
  <2>1. Numbers(links[c]) /\ Balanced(links[c])
    BY DEF HandledInv, Whole
  <2> QED
    BY <2>1 DEF Numbers, Balanced
<1> QED
  BY HandledAlways, <1>1, PTL

-----------------------------------------------------------------------------
(***************************************************************************)
(* Dispatch: who gets a call made, for any passwords, methods, paths and   *)
(* ports.                                                                  *)
(***************************************************************************)
\* The levels of users are above that of nobody.
LEMMA Levels == \A user \in Users : Level[user] \in Nat /\ Level[user] > NONE
BY DEF Users, Level, NONE, VIEWONLY, NORMAL, ADMIN

\* What Authorize() gives a request outside of the setup mode: a user's level
\* only for a token with that user's password; without one, an administrator's
\* only while there is no password.
LEMMA LevelEarned ==
    ASSUME ~setup_mode, NEW request, request.token \in Tokens \cup {NoToken},
           Authorize(request) # Unauthenticated
    PROVE  \/ Authorize(request) = NONE
           \/ request.token = NoToken /\ hash["admin"] = NoPassword
           \/ \E user \in Users : Proves(request.token, user) /\ Authorize(request) = Level[user]
<1>1. CASE request.token = NoToken
  BY <1>1 DEF Authorize
<1>2. CASE request.token # NoToken
  <2>1. CASE request.token.fault = "none" /\ jwt_validate(request.token)
    <3>1. Authorize(request) = Level[request.token.user]
      BY <1>2, <2>1 DEF Authorize
    <3>2. request.token.user \in Users
      BY <1>2 DEF Tokens, Users
    <3>3. Proves(request.token, request.token.user)
      BY <1>2, <2>1 DEF Proves, jwt_validate
    <3> QED
      BY <3>1, <3>2, <3>3
  <2>2. CASE ~(request.token.fault = "none" /\ jwt_validate(request.token))
    BY <1>2, <2>2 DEF Authorize
  <2> QED
    BY <2>1, <2>2
<1> QED
  BY <1>1, <1>2

\* Levels are numbers.
LEMMA LevelIsNumber ==
    ASSUME NEW request, request.token \in Tokens \cup {NoToken}
    PROVE  Authorize(request) \in Nat
<1>1. request.token # NoToken => request.token.user \in Users
  BY DEF Tokens, Users
<1> QED
  BY <1>1, Levels DEF Authorize, ADMIN, NONE, Unauthenticated

\* A request whose handler makes a call has the level that the call asks for,
\* and was not refused before.
LEMMA CallLevel ==
    ASSUME NEW request, HandlerOf(request) = "call"
    PROVE  /\ Authorize(request) # Unauthenticated
           /\ api_call_handle(request.method, request.path) \notin {NoSuchFunction, NoSuchPort}
           /\ ~(Authorize(request) < api_call_handle(request.method, request.path))
<1>1. StatusOf(request) = 200 /\ ~Listens(request)
  BY DEF HandlerOf
<1>2. api_call_handle(request.method, request.path) \notin {NoSuchFunction, NoSuchPort}
  BY <1>1 DEF HandlerOf
<1>3. Authorize(request) # Unauthenticated /\ CallStatus(request, Authorize(request)) = 200
  <2> DEFINE level     == Authorize(request)
             malformed == WithBody(request) /\ request.flaw = "malformed body"
             allowed   == CASE InvalidSession(request) -> 400
                            [] ~InvalidSession(request) /\ Listens(request) -> ListenStatus(request, level)
                            [] OTHER -> CallStatus(request, level)
  <2>1. StatusOf(request) = CASE api_busy -> 503
                              [] ~api_busy /\ malformed -> 400
                              [] ~api_busy /\ ~malformed /\ level = Unauthenticated -> 401
                              [] ~api_busy /\ ~malformed /\ level # Unauthenticated -> allowed
    BY Zenon DEF StatusOf
  <2> HIDE DEF level, malformed, allowed
  <2>2. ~api_busy /\ ~malformed /\ level # Unauthenticated
    BY <1>1, <2>1
  <2>3. allowed = 200
    BY <1>1, <2>1, <2>2
  <2>4. CallStatus(request, level) = 200
    BY <1>1, <2>3 DEF allowed
  <2> QED
    BY <2>2, <2>4 DEF level
<1>4. ~(Authorize(request) < api_call_handle(request.method, request.path))
  BY <1>2, <1>3 DEF CallStatus
<1> QED
  BY <1>2, <1>3, <1>4

\* What a call may ask for.
Needs == {NoSuchFunction, NoSuchPort, NONE, VIEWONLY, NORMAL, ADMIN}

\* Whatever is asked for, the call is one of these.
LEMMA NeedIsNumber ==
    ASSUME NEW method, NEW path
    PROVE  api_call_handle(method, path) \in Needs
<1> USE DEF Needs
<1>1. PortHandler(method, path) \in Needs
  BY DEF PortHandler
<1>2. ASSUME method \in DOMAIN Handlers, path[1] \in DOMAIN Handlers[method]
      PROVE  Handlers[method][path[1]] \in Needs
  BY <1>2 DEF Handlers
<1> QED
  BY <1>1, <1>2 DEF api_call_handle

\* Whatever was requested before, whatever passwords were set and however the
\* setup mode came and went: a call is made only for somebody with the password
\* of a user entitled to it, or while the device is open to all.
THEOREM OnlyEarned == DispatchSpec => CallsEarned
<1> DEFINE Earned(request) ==
        \/ api_call_handle(request.method, request.path) = NONE
        \/ request.token = NoToken /\ hash["admin"] = NoPassword
        \/ \E user \in Users : /\ Proves(request.token, user)
                               /\ Level[user] >= api_call_handle(request.method, request.path)
<1>1. ASSUME NEW request, request.token \in Tokens \cup {NoToken}, ~setup_mode, HandlerOf(request) = "call"
      PROVE  Earned(request)
  <2> DEFINE level == Authorize(request)
             need  == api_call_handle(request.method, request.path)
  <2>1. level # Unauthenticated /\ need \notin {NoSuchFunction, NoSuchPort} /\ ~(level < need)
    BY <1>1, CallLevel
  <2>2. level \in Nat /\ need \in Needs
    BY <1>1, LevelIsNumber, NeedIsNumber
  <2>3. \/ level = NONE
        \/ request.token = NoToken /\ hash["admin"] = NoPassword
        \/ \E user \in Users : Proves(request.token, user) /\ level = Level[user]
    BY <1>1, <2>1, LevelEarned
  <2> HIDE DEF level, need
  <2>4. need \in Nat /\ level >= need
    BY <2>1, <2>2 DEF Needs, NONE, VIEWONLY, NORMAL, ADMIN
  <2>5. level = NONE => need = NONE
    BY <2>4 DEF NONE
  <2>6. \/ need = NONE
        \/ request.token = NoToken /\ hash["admin"] = NoPassword
        \/ \E user \in Users : Proves(request.token, user) /\ Level[user] >= need
    BY <2>3, <2>4, <2>5
  <2> QED
    BY <2>6 DEF need
<1> HIDE DEF Earned
<1>2. ASSUME NEW request, request.token \in Tokens \cup {NoToken}, Serve(request),
             last'.handler = "call", ~setup_mode
      PROVE  Earned(last'.request)
  <2>1. last'.request = request /\ HandlerOf(request) = "call"
    BY <1>2 DEF Serve, Outcome
  <2> QED
    BY <1>1, <1>2, <2>1
<1>3. ASSUME [DispatchNext]_dispatch_vars, last'.handler = "call", last' # last, ~setup_mode
      PROVE  Earned(last'.request)
  <2>1. OnHttpRequest \/ last' = NoRequest \/ last' = last
    BY <1>3 DEF DispatchNext, Forget, Elsewhere, dispatch_vars
  <2>2. last' # NoRequest
    BY <1>3 DEF NoRequest
  <2>3. PICK method \in Methods, path \in Paths, token \in Tokens \cup {NoToken}, flaw \in Flaws :
            Serve([method |-> method, path |-> path, token |-> token, flaw |-> flaw])
    BY <1>3, <2>1, <2>2 DEF OnHttpRequest
  <2> QED
    BY <1>2, <1>3, <2>3
<1>4. [DispatchNext]_dispatch_vars =>
          [ LET request == last'.request
            IN  last'.handler = "call" /\ last' # last /\ ~setup_mode =>
                    \/ api_call_handle(request.method, request.path) = NONE
                    \/ request.token = NoToken /\ hash["admin"] = NoPassword
                    \/ \E user \in Users : /\ Proves(request.token, user)
                                           /\ Level[user] >= api_call_handle(request.method, request.path)
          ]_dispatch_vars
  BY <1>3 DEF Earned
<1> QED
  BY <1>4, PTL DEF DispatchSpec, CallsEarned

-----------------------------------------------------------------------------
(***************************************************************************)
(* HttpClient implements HttpRequests, as far as safety goes.  A request   *)
(* and its calls are always a good pair (Good); for a good pair the        *)
(* outcome of HttpRequests is the first status that was told (Told), so    *)
(* that each action either leaves it alone or takes it where HttpRequests  *)
(* says.                                                                   *)
(***************************************************************************)
States == {"none", "refused", "dns", "connecting", "connected", "freed"}

Amounts == {"nothing", "part of the head", "head", "all", "discarded"}

Records == [state : States, timer : BOOLEAN, callback : BOOLEAN,
            to_send : {<<>>, <<"body">>, <<"head", "body">>}, received : Amounts, closing : BOOLEAN]

\* A request that is under way has its callback for as long as this was not
\* called, and its timer only with its callback.
CallbackOnce(req, told) ==
    req.state \in {"dns", "connecting", "connected"} =>
        /\ req.callback => told = <<>>
        /\ ~req.callback => Len(told) = 1
        /\ req.timer => req.callback

\* A request that is over has been called back, and more than once only if its
\* DNS query failed at once, which leaves a timer behind.
OverIsCalled(req, told) ==
    /\ req.state \in {"none", "refused"} => told = <<>> /\ ~req.timer
    /\ req.state = "freed" =>
           /\ told # <<>>
           /\ Len(told) # 1 \/ req.timer => told[1] = "dns error"

Good(req, told) == CallbackOnce(req, told) /\ OverIsCalled(req, told)

ClientInv ==
    /\ reqs \in [Requests -> Records]
    /\ calls \in [Requests -> Seq(Statuses)]
    /\ \A r \in Requests : Good(reqs[r], calls[r])

\* The outcome of a request, as long as its callback is called once.
Told(req, told) ==
    IF req.state \in {"none", "refused"} THEN req.state ELSE IF told = <<>> THEN "pending" ELSE told[1]

\* What HttpRequests lets the outcome o become.
MayBecome(o, o2) ==
    \/ o2 = o
    \/ o = "none" /\ o2 \in {"pending", "refused"} \cup Statuses
    \/ o = "pending" /\ o2 \in Statuses

\* r alone makes a step that HttpRequests allows.
Moves(r) ==
    /\ ClientInv'
    /\ \A q \in Requests \ {r} : Told(reqs[q], calls[q])' = Told(reqs[q], calls[q])
    /\ MayBecome(Told(reqs[r], calls[r]), Told(reqs[r], calls[r])')

\* In the beginning there are no requests.
LEMMA ClientInit == HttpClientInit => ClientInv
BY DEF HttpClientInit, ClientInv, Records, Good, CallbackOnce, OverIsCalled, None, States, Amounts

\* No callback is called twice, but for the requests that may be.
LEMMA OutcomeIsTold == ClientInv => outcome = [r \in Requests |-> Told(reqs[r], calls[r])]
<1> SUFFICES ASSUME ClientInv, NEW r \in Requests
             PROVE  outcome[r] = Told(reqs[r], calls[r])
  BY DEF outcome
<1> DEFINE req  == reqs[r]
           told == calls[r]
<1>1. req \in Records /\ told \in Seq(Statuses) /\ Good(req, told)
  BY DEF ClientInv
<1>2. outcome[r] = CASE req.state \in {"none", "refused"} -> req.state
                     [] told = <<>> /\ req.state \notin {"none", "refused"} -> "pending"
                     [] Len(told) = 1 \/ (told # <<>> /\ req.state = "freed" /\ told # <<>> /\ told[1] = "dns error") -> told[1]
                     [] OTHER -> "called twice"
  BY DEF outcome, LostAtOnce
<1> HIDE DEF req, told
<1>3. CASE req.state \in {"none", "refused"}
  <2>1. told = <<>> /\ Len(told) = 0
    BY <1>1, <1>3 DEF Good, OverIsCalled
  <2> QED
    BY <1>2, <1>3, <2>1 DEF Told, req, told
<1>4. CASE req.state \notin {"none", "refused"} /\ told = <<>>
  <2>1. Len(told) = 0
    BY <1>4
  <2> QED
    BY <1>2, <1>4, <2>1 DEF Told, req, told
<1>5. CASE req.state \notin {"none", "refused"} /\ told # <<>>
  <2>2. req.state \in {"dns", "connecting", "connected", "freed"}
    BY <1>1, <1>5 DEF Records, States
  <2>3. Len(told) = 1 \/ (req.state = "freed" /\ told[1] = "dns error")
    <3>1. CASE req.state = "freed"
      BY <1>1, <3>1, Zenon DEF Good, OverIsCalled
    <3>2. CASE req.state \in {"dns", "connecting", "connected"}
      <4>1. req.callback \in BOOLEAN
        BY <1>1 DEF Records
      <4>2. req.callback => told = <<>>
        BY <1>1, <3>2 DEF Good, CallbackOnce
      <4>3. ~req.callback => Len(told) = 1
        BY <1>1, <3>2 DEF Good, CallbackOnce
      <4> QED
        BY <1>5, <4>1, <4>2, <4>3
    <3> QED
      BY <2>2, <3>1, <3>2
  <2> QED
    BY <1>2, <1>5, <2>3 DEF Told, req, told
<1> QED
  BY <1>3, <1>4, <1>5

\* A record that does not change.
LEMMA SameRecord ==
    \A req \in Records : \E closing \in BOOLEAN : req = [req EXCEPT !.closing = closing]
<1> SUFFICES ASSUME NEW req \in Records
             PROVE  req = [req EXCEPT !.closing = req.closing] /\ req.closing \in BOOLEAN
  OBVIOUS
<1> QED
  BY DEF Records

\* Calling back adds one status, if there is a callback.
LEMMA CalledBack ==
    ASSUME ClientInv, NEW r \in Requests, NEW status \in Statuses, Called(r, status)
    PROVE  /\ calls' \in [Requests -> Seq(Statuses)]
           /\ \A q \in Requests \ {r} : calls'[q] = calls[q]
           /\ calls'[r] = IF reqs[r].callback THEN Append(calls[r], status) ELSE calls[r]
BY DEF ClientInv, Called

\* Nothing matters of the other requests but that they stay what they are:
\* only their connection may be closed.
LEMMA OneMoves ==
    ASSUME ClientInv, NEW r \in Requests,
           reqs' \in [Requests -> Records], calls' \in [Requests -> Seq(Statuses)],
           \A q \in Requests \ {r} : /\ \E closing \in BOOLEAN : reqs'[q] = [reqs[q] EXCEPT !.closing = closing]
                                     /\ calls'[q] = calls[q],
           Good(reqs'[r], calls'[r]),
           MayBecome(Told(reqs[r], calls[r]), Told(reqs'[r], calls'[r]))
    PROVE  Moves(r)
<1>1. ASSUME NEW q \in Requests \ {r}
      PROVE  /\ Good(reqs'[q], calls'[q])
             /\ Told(reqs'[q], calls'[q]) = Told(reqs[q], calls[q])
  <2>1. PICK closing \in BOOLEAN : reqs'[q] = [reqs[q] EXCEPT !.closing = closing]
    BY <1>1
  <2>2. reqs[q] \in Records /\ Good(reqs[q], calls[q]) /\ calls'[q] = calls[q]
    BY <1>1 DEF ClientInv
  <2>3. /\ reqs'[q].state = reqs[q].state
        /\ reqs'[q].timer = reqs[q].timer
        /\ reqs'[q].callback = reqs[q].callback
    BY <2>1, <2>2 DEF Records
  <2> QED
    BY <2>2, <2>3 DEF Good, CallbackOnce, OverIsCalled, Told
<1> QED
  BY <1>1 DEF Moves, ClientInv

\* One call is a first call, and the first one stays.
LEMMA OneIsFirst == ASSUME NEW told \in Seq(Statuses), Len(told) = 1 PROVE told # <<>>
OBVIOUS

LEMMA FirstStays ==
    ASSUME NEW told \in Seq(Statuses), told # <<>>, NEW status \in Statuses
    PROVE  /\ Append(told, status) \in Seq(Statuses)
           /\ Append(told, status) # <<>>
           /\ Append(told, status)[1] = told[1]
OBVIOUS

\* A request that is freed after one call.
LEMMA ToldOnce ==
    ASSUME NEW req, req.state = "freed",
           NEW told \in Seq(Statuses), Len(told) = 1, req.timer => told[1] = "dns error"
    PROVE  Good(req, told)
<1>1. told # <<>>
  BY OneIsFirst
<1> QED
  BY <1>1, Zenon DEF Good, CallbackOnce, OverIsCalled

\* The callback is called, if it was not already, and the request is freed.
LEMMA FreedMoves ==
    ASSUME ClientInv, NEW r \in Requests, NEW status \in Statuses, Called(r, status),
           reqs[r].state \in {"dns", "connecting", "connected"},
           reqs' = [reqs EXCEPT ![r] = Freed(FALSE)]
    PROVE  Moves(r)
<1> DEFINE req  == reqs[r]
           told == calls[r]
           new  == Freed(FALSE)
<1>1. req \in Records /\ told \in Seq(Statuses) /\ Good(req, told)
  BY DEF ClientInv
<1>2. reqs \in [Requests -> Records] /\ calls \in [Requests -> Seq(Statuses)]
  BY DEF ClientInv
<1>3. new \in Records /\ new.state = "freed" /\ ~new.timer
  BY DEF Freed, None, Records, States, Amounts
<1>4. reqs'[r] = new /\ \A q \in Requests \ {r} : reqs'[q] = reqs[q]
  BY <1>2
<1>5. reqs' \in [Requests -> Records]
  BY <1>2, <1>3
<1>6. /\ calls' \in [Requests -> Seq(Statuses)]
      /\ \A q \in Requests \ {r} : calls'[q] = calls[q]
      /\ calls'[r] = IF req.callback THEN Append(told, status) ELSE told
  BY CalledBack
<1>7. req.callback \in BOOLEAN /\ (req.callback => told = <<>>) /\ (~req.callback => Len(told) = 1)
  BY <1>1 DEF Good, CallbackOnce, Records
<1> HIDE DEF req, told, new
<1>8. CASE req.callback
  <2>1. calls'[r] = <<status>>
    BY <1>6, <1>7, <1>8
  <2>2. Good(new, <<status>>)
    <3>1. Len(<<status>>) = 1 /\ <<status>> \in Seq(Statuses)
      OBVIOUS
    <3> QED
      BY <1>3, <3>1, ToldOnce
  <2>3. MayBecome(Told(req, told), Told(new, <<status>>))
    BY <1>3, <1>7, <1>8 DEF MayBecome, Told, req
  <2> QED
    BY <1>2, <1>4, <1>5, <1>6, <2>1, <2>2, <2>3, SameRecord, OneMoves DEF req, told
<1>9. CASE ~req.callback
  <2>1. calls'[r] = told /\ Len(told) = 1
    BY <1>6, <1>7, <1>9
  <2>2. Good(new, told)
    BY <1>1, <1>3, <2>1, ToldOnce
  <2>3. MayBecome(Told(req, told), Told(new, told))
    BY <1>3, <2>1 DEF MayBecome, Told, req
  <2> QED
    BY <1>2, <1>4, <1>5, <1>6, <2>1, <2>2, <2>3, SameRecord, OneMoves DEF req, told
<1> QED
  BY <1>8, <1>9

\* The request, until it is sent.
LEMMA RequestMoves ==
    ASSUME ClientInv, NEW r \in Requests,
           RefuseUrl(r) \/ httpclient_request(r) \/ RequestWithoutDns(r) \/ DnsFound(r) \/ DnsNotFound(r)
    PROVE  Moves(r)
<1> DEFINE req == reqs[r]
<1>1. req \in Records /\ calls[r] \in Seq(Statuses) /\ Good(req, calls[r])
  BY DEF ClientInv
<1>2. reqs \in [Requests -> Records] /\ calls \in [Requests -> Seq(Statuses)]
  BY DEF ClientInv
<1>3. \A q \in Requests : \E closing \in BOOLEAN : reqs[q] = [reqs[q] EXCEPT !.closing = closing]
  BY <1>2, SameRecord
<1>4. ASSUME RefuseUrl(r)
      PROVE  Moves(r)
  <2>1. /\ reqs'[r] = [req EXCEPT !.state = "refused"]
        /\ \A q \in Requests \ {r} : reqs'[q] = reqs[q]
        /\ calls' = calls /\ req.state = "none"
    BY <1>2, <1>4 DEF RefuseUrl
  <2>2. [req EXCEPT !.state = "refused"] \in Records
    BY <1>1 DEF Records, States
  <2>3. reqs' \in [Requests -> Records]
    BY <1>2, <1>4, <2>2 DEF RefuseUrl
  <2>4. /\ reqs'[r].state = "refused" /\ reqs'[r].timer = req.timer
    BY <1>1, <2>1 DEF Records
  <2>5. Good(reqs'[r], calls'[r])
    BY <1>1, <2>1, <2>4 DEF Good, CallbackOnce, OverIsCalled
  <2>6. MayBecome(Told(req, calls[r]), Told(reqs'[r], calls'[r]))
    BY <2>1, <2>4 DEF MayBecome, Told
  <2> HIDE DEF req
  <2> QED
    BY <1>2, <1>3, <2>1, <2>3, <2>5, <2>6, OneMoves DEF req
<1>5. ASSUME httpclient_request(r)
      PROVE  Moves(r)
  <2>1. PICK state \in {"dns", "connecting"} :
            reqs' = [reqs EXCEPT ![r] = [None EXCEPT !.state = state, !.timer = TRUE, !.callback = TRUE,
                                                     !.to_send = <<"head", "body">>]]
    BY <1>5 DEF httpclient_request
  <2> DEFINE new == [None EXCEPT !.state = state, !.timer = TRUE, !.callback = TRUE,
                                 !.to_send = <<"head", "body">>]
  <2>2. new \in Records /\ new.state = state /\ new.callback
    BY DEF None, Records, States, Amounts
  <2>3. /\ reqs'[r] = new /\ \A q \in Requests \ {r} : reqs'[q] = reqs[q]
        /\ calls' = calls /\ req.state = "none"
    BY <1>2, <1>5, <2>1 DEF httpclient_request
  <2> HIDE DEF new, req
  <2>4. reqs' \in [Requests -> Records]
    BY <1>2, <2>1, <2>2 DEF new
  <2>5. calls[r] = <<>>
    BY <1>1, <2>3 DEF Good, OverIsCalled
  <2>6. Good(reqs'[r], calls'[r])
    BY <2>2, <2>3, <2>5 DEF Good, CallbackOnce, OverIsCalled
  <2>7. MayBecome(Told(req, calls[r]), Told(reqs'[r], calls'[r]))
    BY <2>2, <2>3, <2>5 DEF MayBecome, Told
  <2> QED
    BY <1>2, <1>3, <2>3, <2>4, <2>6, <2>7, OneMoves DEF req
<1>6. ASSUME RequestWithoutDns(r)
      PROVE  Moves(r)
  <2> DEFINE new == Freed(TRUE)
  <2>1. new \in Records /\ new.state = "freed"
    BY DEF Freed, None, Records, States, Amounts
  <2>2. /\ reqs' = [reqs EXCEPT ![r] = new] /\ req.state = "none"
        /\ calls' = [calls EXCEPT ![r] = <<"dns error">>]
    BY <1>6 DEF RequestWithoutDns
  <2>3. <<"dns error">> \in Seq(Statuses) /\ "dns error" \in Statuses
        /\ Len(<<"dns error">>) = 1 /\ <<"dns error">>[1] = "dns error"
    BY DEF Statuses
  <2> HIDE DEF new, req
  <2>4. /\ reqs'[r] = new /\ calls'[r] = <<"dns error">>
        /\ \A q \in Requests \ {r} : reqs'[q] = reqs[q] /\ calls'[q] = calls[q]
        /\ reqs' \in [Requests -> Records] /\ calls' \in [Requests -> Seq(Statuses)]
    BY <1>2, <2>1, <2>2, <2>3
  <2>5. calls[r] = <<>>
    BY <1>1, <2>2 DEF Good, OverIsCalled
  <2>6. Good(new, <<"dns error">>)
    BY <2>1, <2>3, ToldOnce
  <2>7. MayBecome(Told(req, calls[r]), Told(new, <<"dns error">>))
    BY <2>1, <2>2, <2>3, <2>5 DEF MayBecome, Told
  <2> QED
    BY <1>2, <1>3, <2>4, <2>6, <2>7, OneMoves DEF req
<1>7. ASSUME DnsFound(r)
      PROVE  Moves(r)
  <2> DEFINE new == [req EXCEPT !.state = "connecting"]
  <2>1. new \in Records /\ new.state = "connecting" /\ new.timer = req.timer /\ new.callback = req.callback
    BY <1>1 DEF Records, States
  <2>2. reqs' = [reqs EXCEPT ![r] = new] /\ calls' = calls /\ req.state = "dns"
    BY <1>2, <1>7 DEF DnsFound
  <2> HIDE DEF new, req
  <2>3. /\ reqs'[r] = new /\ \A q \in Requests \ {r} : reqs'[q] = reqs[q]
        /\ reqs' \in [Requests -> Records]
    BY <1>2, <2>1, <2>2
  <2>4. Good(new, calls[r])
    BY <1>1, <2>1, <2>2 DEF Good, CallbackOnce, OverIsCalled
  <2>5. MayBecome(Told(req, calls[r]), Told(new, calls[r]))
    BY <2>1, <2>2 DEF MayBecome, Told
  <2> QED
    BY <1>2, <1>3, <2>2, <2>3, <2>4, <2>5, OneMoves DEF req
<1>8. ASSUME DnsNotFound(r)
      PROVE  Moves(r)
  <2>1. Called(r, "dns error") /\ reqs' = [reqs EXCEPT ![r] = Freed(FALSE)] /\ req.state = "dns"
    BY <1>8 DEF DnsNotFound
  <2> QED
    BY <2>1, FreedMoves DEF Statuses
<1> QED
  BY <1>4, <1>5, <1>6, <1>7, <1>8

\* The connection: what changes of r is not what the promise is about.
LEMMA ConnectionMoves ==
    ASSUME ClientInv, NEW r \in Requests,
           ConnectCallback(r) \/ SentCallback(r) \/ ReceiveCallback(r) \/ ReceiveTooMuch(r)
    PROVE  Moves(r)
<1> DEFINE req == reqs[r]
<1>1. req \in Records /\ reqs \in [Requests -> Records] /\ calls \in [Requests -> Seq(Statuses)]
      /\ Good(req, calls[r])
  BY DEF ClientInv
<1>2. ASSUME NEW new \in Records, reqs' = [reqs EXCEPT ![r] = new], calls' = calls,
             new.timer = req.timer, new.callback = req.callback,
             req.state \in {"connecting", "connected"}, new.state \in {"connecting", "connected"}
      PROVE  Moves(r)
  <2>1. reqs'[r] = new /\ \A q \in Requests \ {r} : reqs'[q] = reqs[q]
    BY <1>1, <1>2
  <2>2. reqs' \in [Requests -> Records]
    BY <1>1, <1>2
  <2>3. Good(new, calls[r])
    BY <1>1, <1>2 DEF Good, CallbackOnce, OverIsCalled
  <2>4. MayBecome(Told(req, calls[r]), Told(new, calls[r]))
    BY <1>2 DEF MayBecome, Told
  <2> HIDE DEF req
  <2> QED
    BY <1>1, <1>2, <2>1, <2>2, <2>3, <2>4, SameRecord, OneMoves DEF req
<1>3. CASE ConnectCallback(r)
  <2> DEFINE new == [[req EXCEPT !.state = "connected"] EXCEPT !.to_send = <<"body">>]
  <2>1. /\ new \in Records
        /\ new.timer = req.timer /\ new.callback = req.callback /\ new.state = "connected"
    BY <1>1 DEF Records, States
  <2>2. reqs' = [reqs EXCEPT ![r] = new] /\ calls' = calls /\ req.state = "connecting"
    BY <1>1, <1>3 DEF ConnectCallback, Records
  <2> HIDE DEF new, req
  <2> QED
    BY <1>2, <2>1, <2>2
<1>4. CASE SentCallback(r)
  <2> DEFINE new == [req EXCEPT !.to_send = <<>>]
  <2>1. /\ new \in Records
        /\ new.timer = req.timer /\ new.callback = req.callback /\ new.state = req.state
    BY <1>1 DEF Records
  <2>2. reqs' = [reqs EXCEPT ![r] = new] /\ calls' = calls /\ req.state = "connected"
    BY <1>1, <1>4 DEF SentCallback, Connected
  <2> HIDE DEF new, req
  <2> QED
    BY <1>2, <2>1, <2>2
<1>5. CASE ReceiveCallback(r)
  <2>1. PICK amount \in Amounts : reqs' = [reqs EXCEPT ![r].received = amount]
    BY <1>5 DEF ReceiveCallback, Amounts
  <2> DEFINE new == [req EXCEPT !.received = amount]
  <2>2. /\ new \in Records
        /\ new.timer = req.timer /\ new.callback = req.callback /\ new.state = req.state
    BY <1>1 DEF Records
  <2>3. reqs' = [reqs EXCEPT ![r] = new] /\ calls' = calls /\ req.state = "connected"
    BY <1>1, <1>5, <2>1 DEF ReceiveCallback, Connected
  <2> HIDE DEF new, req
  <2> QED
    BY <1>2, <2>2, <2>3
<1>6. CASE ReceiveTooMuch(r)
  <2> DEFINE new == [[req EXCEPT !.received = "discarded"] EXCEPT !.closing = TRUE]
  <2>1. /\ new \in Records
        /\ new.timer = req.timer /\ new.callback = req.callback /\ new.state = req.state
    BY <1>1 DEF Records, Amounts
  <2>2. reqs' = [reqs EXCEPT ![r] = new] /\ calls' = calls /\ req.state = "connected"
    BY <1>1, <1>6 DEF ReceiveTooMuch, Connected, Records
  <2> HIDE DEF new, req
  <2> QED
    BY <1>2, <2>1, <2>2
<1> QED
  BY <1>3, <1>4, <1>5, <1>6

\* The end of the connection.
LEMMA DisconnectMoves ==
    ASSUME ClientInv, NEW r \in Requests, DisconnectCallback(r)
    PROVE  Moves(r)
<1>1. Status(reqs[r]) \in Statuses
  BY DEF Status, Statuses
<1> QED
  BY <1>1, FreedMoves DEF DisconnectCallback

\* The timer.
LEMMA TimerMoves ==
    ASSUME ClientInv, NEW r \in Requests,
           TimeoutCallback(r) \/ TimeoutWithoutConnection(r) \/ TimeoutInFreedMemory(r)
    PROVE  Moves(r)
<1> DEFINE req  == reqs[r]
           told == calls[r]
<1>1. req \in Records /\ reqs \in [Requests -> Records] /\ calls \in [Requests -> Seq(Statuses)]
      /\ told \in Seq(Statuses) /\ Good(req, told)
  BY DEF ClientInv
<1>2. ASSUME NEW new \in Records, Called(r, "timeout"), reqs'[r] = new, reqs' \in [Requests -> Records],
             \A q \in Requests \ {r} : \E closing \in BOOLEAN : reqs'[q] = [reqs[q] EXCEPT !.closing = closing],
             req.timer, ~new.timer, ~new.callback, new.state = req.state,
             req.state \in {"dns", "connecting", "connected"}
      PROVE  Moves(r)
  <2>1. told = <<>> /\ req.callback
    BY <1>1, <1>2 DEF Good, CallbackOnce
  <2>2. /\ calls' \in [Requests -> Seq(Statuses)]
        /\ \A q \in Requests \ {r} : calls'[q] = calls[q]
        /\ calls'[r] = Append(told, "timeout")
    BY <1>2, <2>1, CalledBack DEF Statuses
  <2>3. calls'[r] = <<"timeout">> /\ Len(<<"timeout">>) = 1 /\ <<"timeout">>[1] = "timeout"
    BY <2>1, <2>2
  <2>4. Good(new, <<"timeout">>)
    BY <1>2, <2>3 DEF Good, CallbackOnce, OverIsCalled
  <2>5. MayBecome(Told(req, told), Told(new, <<"timeout">>))
    BY <1>2, <2>1, <2>3 DEF MayBecome, Told, Statuses
  <2> HIDE DEF req
  <2> QED
    BY <1>2, <2>2, <2>3, <2>4, <2>5, OneMoves DEF req
<1>3. CASE TimeoutCallback(r)
  <2> DEFINE new == [[[[req EXCEPT !.timer = FALSE] EXCEPT !.callback = FALSE]
                            EXCEPT !.received = "discarded"] EXCEPT !.closing = TRUE]
  <2>1. new \in Records /\ ~new.timer /\ ~new.callback /\ new.state = req.state
    BY <1>1 DEF Records, Amounts
  <2>2. /\ reqs' = [reqs EXCEPT ![r] = new] /\ Called(r, "timeout")
        /\ req.timer /\ req.state \in {"connecting", "connected"}
    BY <1>1, <1>3 DEF TimeoutCallback, Records
  <2> HIDE DEF new, req
  <2>3. /\ reqs'[r] = new /\ \A q \in Requests \ {r} : reqs'[q] = reqs[q]
        /\ reqs' \in [Requests -> Records]
    BY <1>1, <2>1, <2>2
  <2> QED
    BY <1>1, <1>2, <2>1, <2>2, <2>3, SameRecord
<1>4. CASE TimeoutWithoutConnection(r)
  <2>1. PICK closed :
            reqs' = [q \in Requests |->
               IF q = r THEN [reqs[q] EXCEPT !.timer = FALSE, !.callback = FALSE, !.received = "discarded"]
               ELSE [reqs[q] EXCEPT !.closing = @ \/ q \in closed]]
    BY <1>4 DEF TimeoutWithoutConnection
  <2> DEFINE new == [req EXCEPT !.timer = FALSE, !.callback = FALSE, !.received = "discarded"]
  <2>2. new \in Records /\ ~new.timer /\ ~new.callback /\ new.state = req.state
    BY <1>1 DEF Records, Amounts
  <2>3. reqs'[r] = new
    BY <2>1
  <2>4. ASSUME NEW q \in Requests \ {r}
        PROVE  /\ \E closing \in BOOLEAN : reqs'[q] = [reqs[q] EXCEPT !.closing = closing]
               /\ reqs'[q] \in Records
    <3>1. reqs'[q] = [reqs[q] EXCEPT !.closing = reqs[q].closing \/ q \in closed]
      BY <2>1, <2>4
    <3>2. (reqs[q].closing \/ q \in closed) \in BOOLEAN /\ reqs[q] \in Records
      BY <1>1, <2>4
    <3>3. \A closing \in BOOLEAN : [reqs[q] EXCEPT !.closing = closing] \in Records
      BY <3>2 DEF Records
    <3> QED
      BY <3>1, <3>2, <3>3, Zenon
  <2>5. reqs' \in [Requests -> Records]
    <3>1. \A q \in Requests : reqs'[q] \in Records
      BY <2>2, <2>3, <2>4
    <3>2. reqs' = [q \in Requests |-> reqs'[q]]
      BY <2>1, Zenon
    <3> QED
      BY <3>1, <3>2
  <2>6. req.timer /\ req.state = "dns" /\ Called(r, "timeout")
    BY <1>4 DEF TimeoutWithoutConnection
  <2> HIDE DEF new, req
  <2> QED
    BY <1>2, <2>2, <2>3, <2>4, <2>5, <2>6
<1>5. CASE TimeoutInFreedMemory(r)
  <2> DEFINE new == [req EXCEPT !.timer = FALSE]
  <2>1. new \in Records /\ ~new.timer /\ new.state = req.state
    BY <1>1 DEF Records
  <2>2. /\ reqs' = [reqs EXCEPT ![r] = new] /\ req.timer /\ req.state = "freed"
        /\ calls' = [calls EXCEPT ![r] = Append(@, "timeout")] \/ calls' = calls
    BY <1>1, <1>5 DEF TimeoutInFreedMemory
  <2>3. told[1] = "dns error" /\ told # <<>>
    BY <1>1, <2>2 DEF Good, OverIsCalled
  <2>4. calls'[r] = Append(told, "timeout") \/ calls'[r] = told
    BY <1>1, <2>2
  <2>5. calls'[r] \in Seq(Statuses) /\ calls'[r] # <<>> /\ calls'[r][1] = "dns error"
    <3>1. "timeout" \in Statuses
      BY DEF Statuses
    <3>2. Append(told, "timeout") \in Seq(Statuses) /\ Append(told, "timeout") # <<>>
          /\ Append(told, "timeout")[1] = told[1]
      BY <1>1, <2>3, <3>1, FirstStays
    <3> QED
      BY <1>1, <2>3, <2>4, <3>2
  <2>6. /\ calls' \in [Requests -> Seq(Statuses)]
        /\ \A q \in Requests \ {r} : calls'[q] = calls[q]
    BY <1>1, <2>2, <2>5
  <2> HIDE DEF new, req
  <2>7. /\ reqs'[r] = new /\ \A q \in Requests \ {r} : reqs'[q] = reqs[q]
        /\ reqs' \in [Requests -> Records]
    BY <1>1, <2>1, <2>2
  <2>8. Good(new, calls'[r])
    BY <2>1, <2>2, <2>5 DEF Good, CallbackOnce, OverIsCalled
  <2>9. MayBecome(Told(req, told), Told(new, calls'[r]))
    BY <2>1, <2>2, <2>3, <2>5 DEF MayBecome, Told
  <2> QED
    BY <1>1, <2>6, <2>7, <2>8, <2>9, SameRecord, OneMoves DEF req
<1> QED
  BY <1>3, <1>4, <1>5

\* Every step is one that HttpRequests allows, or leaves all outcomes alone.
LEMMA ClientSteps ==
    ASSUME ClientInv, [HttpClientNext]_httpclient_vars
    PROVE  ClientInv' /\ [Promise!Next]_outcome
<1> DEFINE told == [r \in Requests |-> Told(reqs[r], calls[r])]
<1>1. outcome = told
  BY OutcomeIsTold
<1>2. (ClientInv => outcome = told)'
  BY OutcomeIsTold, PTL
<1>3. ASSUME NEW r \in Requests, Moves(r)
      PROVE  ClientInv' /\ [Promise!Next]_outcome
  <2>1. ClientInv' /\ told' = [told EXCEPT ![r] = told'[r]]
    BY <1>3 DEF Moves
  <2>2. \/ told'[r] = told[r]
        \/ told[r] = "none" /\ told'[r] \in {"pending", "refused"} \cup Statuses
        \/ told[r] = "pending" /\ told'[r] \in Statuses
    BY <1>3 DEF Moves, MayBecome
  <2> HIDE DEF told
  <2>3. CASE told'[r] = told[r]
    <3>1. told' = told
      BY <2>1, <2>3 DEF told
    <3> QED
      BY <1>1, <1>2, <2>1, <3>1
  <2>4. CASE told[r] = "none" /\ told'[r] \in {"pending", "refused"} \cup Statuses
    BY <1>1, <1>2, <2>1, <2>4 DEF Promise!Next, Promise!Issue, Promise!Refuse, Promise!AtOnce, Promise!Becomes
  <2>5. CASE told[r] = "pending" /\ told'[r] \in Statuses
    BY <1>1, <1>2, <2>1, <2>5 DEF Promise!Next, Promise!Complete, Promise!Becomes
  <2> QED
    BY <2>2, <2>3, <2>4, <2>5
<1>4. CASE \E r \in Requests :
               \/ RefuseUrl(r) \/ httpclient_request(r) \/ RequestWithoutDns(r)
               \/ DnsFound(r) \/ DnsNotFound(r)
               \/ ConnectCallback(r) \/ SentCallback(r) \/ ReceiveCallback(r) \/ ReceiveTooMuch(r)
               \/ DisconnectCallback(r)
               \/ TimeoutCallback(r) \/ TimeoutWithoutConnection(r) \/ TimeoutInFreedMemory(r)
  BY <1>3, <1>4, RequestMoves, ConnectionMoves, DisconnectMoves, TimerMoves
<1>5. CASE Restart
  <2>1. None \in Records /\ <<>> \in Seq(Statuses)
    BY DEF None, Records, States, Amounts
  <2>2. Good(None, <<>>) /\ Told(None, <<>>) = "none"
    BY DEF None, Good, CallbackOnce, OverIsCalled, Told
  <2>3. reqs' = [r \in Requests |-> None] /\ calls' = [r \in Requests |-> <<>>]
    BY <1>5 DEF Restart
  <2>4. ClientInv'
    BY <2>1, <2>2, <2>3 DEF ClientInv
  <2>5. told' = [r \in Requests |-> "none"]
    BY <2>2, <2>3
  <2> HIDE DEF told
  <2> QED
    BY <1>2, <2>4, <2>5 DEF Promise!Next, Promise!Restart
<1>6. CASE UNCHANGED httpclient_vars
  BY <1>6 DEF httpclient_vars, ClientInv, outcome, LostAtOnce
<1> QED
  BY <1>4, <1>5, <1>6 DEF HttpClientNext

\* A second call is one of a request that was lost at once.
LEMMA OnceOrLost == ClientInv => TwiceOnlyIfLost
<1> SUFFICES ASSUME ClientInv, NEW r \in Requests, Len(calls[r]) > 1
             PROVE  LostAtOnce(r)
  BY DEF TwiceOnlyIfLost
<1>1. reqs[r] \in Records /\ calls[r] \in Seq(Statuses) /\ Good(reqs[r], calls[r])
  BY DEF ClientInv
<1>2. Len(calls[r]) # 0 /\ Len(calls[r]) # 1 /\ calls[r] # <<>>
  <2>1. Len(<<>>) = 0
    OBVIOUS
  <2>2. Len(calls[r]) \in Nat
    BY <1>1
  <2>3. \A n \in Nat : n > 1 => n # 0 /\ n # 1
    OBVIOUS
  <2>4. Len(calls[r]) # 0 /\ Len(calls[r]) # 1
    BY <2>2, <2>3
  <2> QED
    BY <2>1, <2>4
<1>3. reqs[r].callback \in BOOLEAN /\ reqs[r].state \in States
  BY <1>1 DEF Records
<1>4. reqs[r].state \notin {"none", "refused", "dns", "connecting", "connected"}
  BY <1>1, <1>2, <1>3, Zenon DEF Good, CallbackOnce, OverIsCalled
<1>5. reqs[r].state = "freed"
  BY <1>3, <1>4 DEF States
<1> QED
  BY <1>1, <1>2, <1>5, Zenon DEF Good, OverIsCalled, LostAtOnce

\* Whatever the DNS, the network, the server and the timer do, in whatever
\* order and for any number of requests: no callback is called twice but that of
\* a request whose DNS query failed at once (http_raw_request, dns_callback),
\* none is called for a refused request, and only a restart forgets what it was
\* told.
THEOREM CallsBackOnceUnlessLost == HttpClientSpec => CalledOnce /\ []TwiceOnlyIfLost
<1>1. HttpClientInit => Promise!Init
  <2> SUFFICES ASSUME HttpClientInit PROVE Promise!Init
    OBVIOUS
  <2>1. outcome = [r \in Requests |-> Told(reqs[r], calls[r])]
    BY ClientInit, OutcomeIsTold
  <2> QED
    BY <2>1 DEF HttpClientInit, Promise!Init, Told, None
<1>2. ClientInv /\ [HttpClientNext]_httpclient_vars => ClientInv' /\ [Promise!Next]_outcome
  BY ClientSteps
<1> QED
  BY ClientInit, OnceOrLost, <1>1, <1>2, PTL DEF HttpClientSpec, CalledOnce, Promise!AtMostOnce

-----------------------------------------------------------------------------
(***************************************************************************)
(* AsyncApi: its types, ApiConnWaits, OtaExclusive and OwnAnswers, for any *)
(* number of clients and requests.  ApiConnWaits is inductive.             *)
(* OtaExclusive needs to know which flags of ota.c go with which operation *)
(* (OtaConsistent), and OwnAnswers that two operations never have the same *)
(* number (Numbered).                                                      *)
(***************************************************************************)
\* The callbacks and flags of ota.c name one operation at a time.
OtaConsistent ==
    /\ "latest" \in http <=> ota_latest_callback # "NULL"
    /\ ota_auto_update_checking <=> ota_latest_callback = "on_ota_auto_latest"
    /\ "head" \in http => ota_perform_callback # "NULL"
    /\ ota_perform_callback # "NULL" => ota_url /\ ("head" \in http \/ refused)
    /\ ota_url => ota_perform_callback # "NULL" \/ ota_timer
    /\ ota_timer => ota_url /\ ota_perform_callback = "NULL"
    /\ ota_latest_callback # "NULL" => ~ota_url /\ ~ota_timer /\ ~upgrading
    /\ upgrading => ~ota_url /\ ~ota_timer

ScanUnderway == scan_callback = "on_wifi_scan"
OtaUnderway  == ota_latest_callback = "on_ota_latest" \/ ota_perform_callback = "on_ota_perform"

\* The numbers of the operations are those of different requests.
Numbered ==
    /\ scan_for <= asked /\ ota_for <= asked
    /\ ScanUnderway /\ OtaUnderway => scan_for # ota_for

\* TypeOK in parts: the provers reason on arithmetic and records, or on
\* Boolean variables, but not on both in one step.
DataTypes ==
    /\ conns \in [Clients -> ConnState] /\ api_conn \in Clients \cup {NoClient}
    /\ asked \in 0..MaxRequests /\ scan_for \in 0..MaxRequests /\ ota_for \in 0..MaxRequests
FlagTypes ==
    /\ scan_callback \in {"NULL", "on_wifi_scan"}
    /\ ota_latest_callback \in {"NULL", "on_ota_latest", "on_ota_auto_latest"}
    /\ ota_perform_callback \in {"NULL", "on_ota_perform", "on_ota_auto_perform"}
    /\ scanning \in BOOLEAN /\ ota_auto_update_checking \in BOOLEAN
    /\ ota_url \in BOOLEAN /\ ota_timer \in BOOLEAN /\ upgrading \in BOOLEAN
    /\ orphaned \in BOOLEAN /\ wrong \in BOOLEAN /\ refused \in BOOLEAN /\ ignored \in BOOLEAN

HttpTypes == http \subseteq {"latest", "head"}

\* TypeOK in three parts, for provers that each handle one of them.
LEMMA TypeParts == TypeOK <=> DataTypes /\ FlagTypes /\ HttpTypes
BY Zenon DEF TypeOK, DataTypes, FlagTypes, HttpTypes

\* The initial state is well typed.
LEMMA InitTypeOK == AsyncInit => TypeOK
<1>1. AsyncInit => DataTypes
  BY AsyncApiAssumption DEF AsyncInit, DataTypes, Conn, ConnState, AsyncApiAssumption
<1>2. AsyncInit => FlagTypes
  BY Zenon DEF AsyncInit, FlagTypes
<1>3. AsyncInit => HttpTypes
  BY DEF AsyncInit, HttpTypes
<1> QED
  BY <1>1, <1>2, <1>3, TypeParts

\* Every step keeps the types of connections, api_conn and the numbers of
\* requests.
LEMMA NextDataTypes == DataTypes /\ [AsyncNext]_async_vars => DataTypes'
<1> SUFFICES ASSUME DataTypes, [AsyncNext]_async_vars PROVE DataTypes'
  OBVIOUS
<1>1. ASSUME NEW c \in Clients, OnTcpConn(c) \/ OnTcpDisc(c) \/ OnOtherRequest(c) \/ OnTrailingByte(c) PROVE DataTypes'
  BY <1>1, AsyncApiAssumption DEF OnTcpConn, OnTcpDisc, OnOtherRequest, OnTrailingByte, DataTypes, Conn, ConnState,
              history, AsyncApiAssumption
<1>2. ASSUME NEW c \in Clients, GetWifi(c) \/ PatchFirmwareBusy(c) PROVE DataTypes'
  BY <1>2, AsyncApiAssumption DEF GetWifi, PatchFirmwareBusy, ApiFree, Waits, DataTypes, Conn, ConnState, AsyncApiAssumption
<1>3. ASSUME NEW c \in Clients, GetFirmware(c) \/ PatchFirmware(c) PROVE DataTypes'
  <2>1. ApiFree(c) /\ ((Waits(c) /\ ota_for' = asked') \/ (AnsweredAtOnce(c) /\ ota_for' = ota_for)) /\ scan_for' = scan_for
    BY <1>3 DEF GetFirmware, PatchFirmware
  <2>2. CASE Waits(c) /\ ota_for' = asked'
    BY <2>1, <2>2, AsyncApiAssumption DEF ApiFree, Waits, DataTypes, Conn, ConnState, AsyncApiAssumption
  <2>3. CASE AnsweredAtOnce(c) /\ ota_for' = ota_for
    BY <2>1, <2>3 DEF AnsweredAtOnce, DataTypes, ConnState
  <2> QED
    BY <2>1, <2>2, <2>3
<1>4. CASE OnWifiScanDone \/ OnOtaLatestResponse \/ OnOtaHeadResponse
  <2>1. (conns' = conns /\ api_conn' = api_conn) \/ \E n : Answers(n)
    BY <1>4 DEF OnWifiScanDone, OnOtaLatestResponse, OnOtaHeadResponse
  <2>2. asked' = asked /\ scan_for' = scan_for /\ ota_for' = ota_for
    BY <1>4 DEF OnWifiScanDone, OnOtaLatestResponse, OnOtaHeadResponse
  <2>3. CASE conns' = conns /\ api_conn' = api_conn
    BY <2>2, <2>3 DEF DataTypes
  <2>4. ASSUME NEW n, Answers(n) PROVE DataTypes'
    <3>1. conns' \in [Clients -> ConnState]
      BY <2>4 DEF DataTypes, Answers, ConnState
    <3>2. api_conn' \in Clients \cup {NoClient}
      BY <2>4 DEF DataTypes, Answers
    <3> QED
      BY <2>2, <3>1, <3>2 DEF DataTypes
  <2> QED
    BY <2>1, <2>3, <2>4
<1>5. CASE OnAutoScan \/ OtaAutoUpdateCheck \/ OnOtaAutoLatest \/ OnOtaStart
  BY <1>5 DEF OnAutoScan, OtaAutoUpdateCheck, OnOtaAutoLatest, OnOtaStart, DataTypes, history
<1>6. CASE RestartUpdated
  BY <1>6, AsyncApiAssumption DEF RestartUpdated, DataTypes, Conn, ConnState, AsyncApiAssumption
<1>7. CASE UNCHANGED async_vars
  BY <1>7 DEF async_vars, history, DataTypes
<1> QED
  BY <1>1, <1>2, <1>3, <1>4, <1>5, <1>6, <1>7 DEF AsyncNext

\* Answering a request leaves wrong a truth value.
LEMMA AnswersWrong == ASSUME FlagTypes, NEW n, Answers(n) PROVE wrong' \in BOOLEAN
<1>1. CASE api_conn = NoClient
  BY <1>1, Zenon DEF Answers, FlagTypes
<1>2. CASE api_conn # NoClient
  <2>1. wrong' = (wrong \/ (conns[api_conn].state = "waiting" /\ conns[api_conn].asked # n))
    BY <1>2, Zenon DEF Answers
  <2> QED
    BY <2>1, SMT
<1> QED
  BY <1>1, <1>2

\* Every step keeps the flags truth values and the callbacks among their
\* handlers.
LEMMA NextFlagTypes == FlagTypes /\ [AsyncNext]_async_vars => FlagTypes'
<1> SUFFICES ASSUME FlagTypes, [AsyncNext]_async_vars PROVE FlagTypes'
  OBVIOUS
<1>1. ASSUME NEW c \in Clients, OnTcpConn(c) \/ OnTcpDisc(c) \/ OnOtherRequest(c) \/ OnTrailingByte(c) PROVE FlagTypes'
  <2>1. CASE OnTcpDisc(c)
    <3>1. orphaned' \in BOOLEAN
      BY <2>1, SMT DEF OnTcpDisc, FlagTypes
    <3> QED
      BY <2>1, <3>1, Zenon DEF OnTcpDisc, FlagTypes, wifi_vars, ota_vars
  <2> QED
    BY <1>1, <2>1, SMT DEF OnTcpConn, OnOtherRequest, OnTrailingByte, FlagTypes, wifi_vars, ota_vars, history
<1>2. ASSUME NEW c \in Clients, GetWifi(c) PROVE FlagTypes'
  BY <1>2, Zenon DEF GetWifi, FlagTypes, ota_vars
<1>3. ASSUME NEW c \in Clients, PatchFirmwareBusy(c) PROVE FlagTypes'
  BY <1>3, Zenon DEF PatchFirmwareBusy, FlagTypes, wifi_vars, ota_vars
<1>4. ASSUME NEW c \in Clients, GetFirmware(c) PROVE FlagTypes'
  BY <1>4, SMT DEF GetFirmware, FlagTypes, wifi_vars
<1>5. ASSUME NEW c \in Clients, PatchFirmware(c) PROVE FlagTypes'
  <2>1. ota_url' \in BOOLEAN
    BY <1>5, Zenon DEF PatchFirmware, FlagTypes
  <2>2. ota_perform_callback' \in {"NULL", "on_ota_perform", "on_ota_auto_perform"}
    BY <1>5, Zenon DEF PatchFirmware, FlagTypes
  <2>3. refused' \in BOOLEAN
    BY <1>5, Zenon DEF PatchFirmware, FlagTypes
  <2>4. UNCHANGED <<scanning, scan_callback, ota_latest_callback, ota_auto_update_checking, ota_timer,
                    upgrading, orphaned, wrong, ignored>>
    BY <1>5, Zenon DEF PatchFirmware, wifi_vars
  <2> QED
    BY <2>1, <2>2, <2>3, <2>4, Zenon DEF FlagTypes
<1>6. CASE OnWifiScanDone
  <2>1. wrong' \in BOOLEAN
    <3>1. Answers(scan_for) \/ wrong' = wrong
      BY <1>6, Zenon DEF OnWifiScanDone
    <3> QED
      BY <3>1, AnswersWrong, Zenon DEF FlagTypes
  <2>2. /\ scanning' = FALSE /\ scan_callback' = "NULL"
        /\ UNCHANGED <<ota_latest_callback, ota_perform_callback, ota_auto_update_checking, ota_url, ota_timer,
                       upgrading, orphaned, refused, ignored>>
    BY <1>6, Zenon DEF OnWifiScanDone, ota_vars
  <2> QED
    BY <2>1, <2>2, Zenon DEF FlagTypes
<1>7. CASE OnOtaLatestResponse
  BY <1>7, Zenon DEF OnOtaLatestResponse, Answers, FlagTypes, wifi_vars
<1>8. CASE OnOtaHeadResponse
  BY <1>8, Zenon DEF OnOtaHeadResponse, Answers, FlagTypes, wifi_vars
<1>9. CASE OnAutoScan \/ OtaAutoUpdateCheck \/ OnOtaStart
  <2>1. CASE OnAutoScan
    BY <2>1, Zenon DEF OnAutoScan, FlagTypes, ota_vars, history
  <2>2. CASE OtaAutoUpdateCheck
    BY <2>2, Zenon DEF OtaAutoUpdateCheck, FlagTypes, wifi_vars, history
  <2>3. CASE OnOtaStart
    BY <2>3, Zenon DEF OnOtaStart, FlagTypes, wifi_vars, history
  <2> QED
    BY <1>9, <2>1, <2>2, <2>3
<1>10. CASE OnOtaAutoLatest
  BY <1>10, Zenon DEF OnOtaAutoLatest, FlagTypes, wifi_vars, ota_vars, history
<1>11. CASE RestartUpdated
  BY <1>11, Zenon DEF RestartUpdated, FlagTypes
<1>12. CASE UNCHANGED async_vars
  BY <1>12, SMT DEF async_vars, wifi_vars, ota_vars, history, FlagTypes
<1> QED
  BY <1>1, <1>2, <1>3, <1>4, <1>5, <1>6, <1>7, <1>8, <1>9, <1>10, <1>11, <1>12 DEF AsyncNext

\* Every step keeps the requests under way among the two kinds ota.c makes.
LEMMA NextHttpTypes == HttpTypes /\ [AsyncNext]_async_vars => HttpTypes'
BY DEF HttpTypes, AsyncNext, async_vars, ota_vars, OnTcpConn, OnTcpDisc, OnOtherRequest, OnTrailingByte, GetWifi,
       GetFirmware, PatchFirmware, PatchFirmwareBusy, OnAutoScan, OnWifiScanDone, OtaAutoUpdateCheck,
       OnOtaLatestResponse, OnOtaAutoLatest, OnOtaHeadResponse, OnOtaStart, RestartUpdated

\* The types of the variables never change.
THEOREM AsyncTypeCorrect == AsyncSpec => []TypeOK
<1>1. DataTypes /\ FlagTypes /\ HttpTypes /\ [AsyncNext]_async_vars => (DataTypes /\ FlagTypes /\ HttpTypes)'
  BY NextDataTypes, NextFlagTypes, NextHttpTypes
<1> QED
  BY <1>1, InitTypeOK, TypeParts, PTL DEF AsyncSpec

-----------------------------------------------------------------------------
(***************************************************************************)
(* The waiting client.                                                     *)
(***************************************************************************)
\* Every step keeps api_conn and the waiting connections in agreement: only
\* ApiFree lets a request take api_conn, and whoever clears it answers or is
\* gone.
LEMMA NextApiConnWaits == DataTypes /\ ApiConnWaits /\ [AsyncNext]_async_vars => ApiConnWaits'
<1> SUFFICES ASSUME DataTypes, ApiConnWaits, [AsyncNext]_async_vars PROVE ApiConnWaits'
  OBVIOUS
<1> USE AsyncApiAssumption DEF DataTypes, ConnState, ApiConnWaits, AsyncApiAssumption
<1>1. ASSUME NEW c \in Clients, OnTcpConn(c) \/ OnTcpDisc(c) \/ OnOtherRequest(c) \/ OnTrailingByte(c) PROVE ApiConnWaits'
  BY <1>1 DEF OnTcpConn, OnTcpDisc, OnOtherRequest, OnTrailingByte, Conn
<1>2. ASSUME NEW c \in Clients, ApiFree(c), Waits(c) PROVE ApiConnWaits'
  BY <1>2 DEF ApiFree, Waits, Conn
<1>3. ASSUME NEW c \in Clients, ApiFree(c), AnsweredAtOnce(c) PROVE ApiConnWaits'
  BY <1>3 DEF ApiFree, AnsweredAtOnce
<1>4. ASSUME NEW n, Answers(n) PROVE ApiConnWaits'
  BY <1>4 DEF Answers
<1>5. CASE UNCHANGED <<conns, api_conn>>
  BY <1>5
<1>6. ASSUME NEW c \in Clients, GetWifi(c) \/ PatchFirmwareBusy(c) \/ GetFirmware(c) \/ PatchFirmware(c)
      PROVE  ApiFree(c) /\ (Waits(c) \/ AnsweredAtOnce(c))
  BY <1>6 DEF GetWifi, PatchFirmwareBusy, GetFirmware, PatchFirmware
<1>7. CASE OnWifiScanDone \/ OnOtaLatestResponse \/ OnOtaHeadResponse
  BY <1>4, <1>5, <1>7 DEF OnWifiScanDone, OnOtaLatestResponse, OnOtaHeadResponse
<1>8. CASE OnAutoScan \/ OtaAutoUpdateCheck \/ OnOtaAutoLatest \/ OnOtaStart
  BY <1>5, <1>8 DEF OnAutoScan, OtaAutoUpdateCheck, OnOtaAutoLatest, OnOtaStart
<1>9. CASE RestartUpdated
  BY <1>9 DEF RestartUpdated, Conn
<1>10. CASE UNCHANGED async_vars
  BY <1>5, <1>10 DEF async_vars
<1> QED
  BY <1>1, <1>2, <1>3, <1>6, <1>7, <1>8, <1>9, <1>10 DEF AsyncNext

\* A client that waits for an asynchronous answer is the one api_conn names,
\* and api_conn never names a connection that is gone (on_http_request,
\* on_tcp_disc and the three callbacks that answer).
THEOREM ApiConnCorrect == AsyncSpec => []ApiConnWaits
<1>1. AsyncInit => ApiConnWaits
  BY DEF AsyncInit, ApiConnWaits, Conn
<1>2. TypeOK /\ ApiConnWaits /\ [AsyncNext]_async_vars => ApiConnWaits'
  BY NextApiConnWaits, TypeParts
<1> QED
  BY <1>1, <1>2, AsyncTypeCorrect, PTL DEF AsyncSpec

-----------------------------------------------------------------------------
(***************************************************************************)
(* One OTA operation at a time.                                            *)
(***************************************************************************)
\* Every step keeps the callbacks of ota.c, its requests and its timer in the
\* agreement OtaConsistent states.
LEMMA NextOtaConsistent == OtaConsistent /\ [AsyncNext]_async_vars => OtaConsistent'
<1> SUFFICES ASSUME OtaConsistent, [AsyncNext]_async_vars PROVE OtaConsistent'
  OBVIOUS
<1> USE DEF OtaConsistent
<1>1. ASSUME NEW c \in Clients, OnTcpConn(c) \/ OnTcpDisc(c) \/ OnOtherRequest(c) \/ OnTrailingByte(c) PROVE OtaConsistent'
  BY <1>1 DEF OnTcpConn, OnTcpDisc, OnOtherRequest, OnTrailingByte, ota_vars, history
<1>2. ASSUME NEW c \in Clients, GetWifi(c) \/ PatchFirmwareBusy(c) PROVE OtaConsistent'
  BY <1>2 DEF GetWifi, PatchFirmwareBusy, ota_vars
<1>3. ASSUME NEW c \in Clients, GetFirmware(c) PROVE OtaConsistent'
  BY <1>3 DEF GetFirmware, ota_busy
<1>4. ASSUME NEW c \in Clients, PatchFirmware(c) PROVE OtaConsistent'
  BY <1>4 DEF PatchFirmware, ota_busy
<1>5. CASE OnAutoScan \/ OnWifiScanDone
  BY <1>5 DEF OnAutoScan, OnWifiScanDone, ota_vars, history
<1>6. CASE OtaAutoUpdateCheck
  BY <1>6 DEF OtaAutoUpdateCheck, ota_busy, history
<1>7. CASE OnOtaLatestResponse
  BY <1>7 DEF OnOtaLatestResponse
<1>8. CASE OnOtaAutoLatest
  BY <1>8 DEF OnOtaAutoLatest, history
<1>9. CASE OnOtaHeadResponse
  <2>1. "head" \in http /\ ota_perform_callback # "NULL" /\ ota_url /\ ~ota_timer /\ ~upgrading
    BY <1>9 DEF OnOtaHeadResponse
  <2>2. /\ http' = http \ {"head"} /\ ota_perform_callback' = "NULL"
        /\ UNCHANGED <<ota_latest_callback, ota_auto_update_checking, upgrading>>
    BY <1>9 DEF OnOtaHeadResponse
  <2>3. (ota_timer' /\ ota_url') \/ (~ota_timer' /\ ~ota_url')
    BY <1>9, <2>1 DEF OnOtaHeadResponse
  <2> QED
    BY <2>1, <2>2, <2>3
<1>10. CASE OnOtaStart
  BY <1>10 DEF OnOtaStart, history
<1>11. CASE RestartUpdated
  BY <1>11 DEF RestartUpdated
<1>12. CASE UNCHANGED async_vars
  BY <1>12 DEF async_vars, ota_vars, history
<1> QED
  BY <1>1, <1>2, <1>3, <1>4, <1>5, <1>6, <1>7, <1>8, <1>9, <1>10, <1>11, <1>12 DEF AsyncNext

\* At most one OTA operation goes on, and ota_busy() lasts as long as it does,
\* but for a URL that httpclient.c refused (ota_get_latest, ota_perform_url,
\* ota_auto_update_check and their responses).
THEOREM OtaExclusiveCorrect == AsyncSpec => []OtaExclusive
<1>1. AsyncInit => OtaConsistent
  BY DEF AsyncInit, OtaConsistent
<1>2. TypeOK /\ OtaConsistent => OtaExclusive
  BY TypeParts DEF HttpTypes, OtaConsistent, OtaExclusive, ota_busy
<1> QED
  BY <1>1, <1>2, NextOtaConsistent, AsyncTypeCorrect, PTL DEF AsyncSpec

-----------------------------------------------------------------------------
(***************************************************************************)
(* The right answer.                                                       *)
(***************************************************************************)
\* Every step keeps the numbers of the requests that operations stand for
\* within those asked so far.
LEMMA NextNumbered == DataTypes /\ Numbered /\ [AsyncNext]_async_vars => Numbered'
<1> SUFFICES ASSUME DataTypes, Numbered, [AsyncNext]_async_vars PROVE Numbered'
  OBVIOUS
<1> USE AsyncApiAssumption DEF DataTypes, Numbered, ScanUnderway, OtaUnderway, AsyncApiAssumption
<1>1. ASSUME NEW c \in Clients, OnTcpConn(c) \/ OnTcpDisc(c) \/ OnOtherRequest(c) \/ OnTrailingByte(c) PROVE Numbered'
  BY <1>1 DEF OnTcpConn, OnTcpDisc, OnOtherRequest, OnTrailingByte, wifi_vars, ota_vars, history
<1>2. ASSUME NEW c \in Clients, GetWifi(c) PROVE Numbered'
  BY <1>2 DEF GetWifi, Waits, ota_vars
<1>3. ASSUME NEW c \in Clients, PatchFirmwareBusy(c) PROVE Numbered'
  BY <1>3 DEF PatchFirmwareBusy, Waits, wifi_vars, ota_vars
<1>4. ASSUME NEW c \in Clients, GetFirmware(c) PROVE Numbered'
  BY <1>4 DEF GetFirmware, Waits, AnsweredAtOnce, wifi_vars
<1>5. ASSUME NEW c \in Clients, PatchFirmware(c) PROVE Numbered'
  BY <1>5 DEF PatchFirmware, Waits, AnsweredAtOnce, wifi_vars
<1>6. CASE OnAutoScan \/ OnWifiScanDone
  BY <1>6 DEF OnAutoScan, OnWifiScanDone, ota_vars, history
<1>7. CASE OtaAutoUpdateCheck \/ OnOtaAutoLatest \/ OnOtaStart
  BY <1>7 DEF OtaAutoUpdateCheck, OnOtaAutoLatest, OnOtaStart, wifi_vars, history
<1>8. CASE OnOtaLatestResponse \/ OnOtaHeadResponse
  BY <1>8 DEF OnOtaLatestResponse, OnOtaHeadResponse, wifi_vars
<1>9. CASE RestartUpdated
  BY <1>9 DEF RestartUpdated
<1>10. CASE UNCHANGED async_vars
  BY <1>10 DEF async_vars, wifi_vars, ota_vars, history
<1> QED
  BY <1>1, <1>2, <1>3, <1>4, <1>5, <1>6, <1>7, <1>8, <1>9, <1>10 DEF AsyncNext

\* OwnAnswers, operation by operation.
OwnScan == ScanUnderway => api_conn # NoClient /\ conns[api_conn].asked = scan_for
OwnOta  == OtaUnderway => api_conn # NoClient /\ conns[api_conn].asked = ota_for
Own     == ~orphaned => ~wrong /\ OwnScan /\ OwnOta

\* OwnAnswers in named parts.
LEMMA OwnMeans == OwnAnswers <=> Own
BY DEF OwnAnswers, Own, OwnScan, OwnOta, Underway, ScanUnderway, OtaUnderway

\* Every step keeps Own: an operation that starts takes the number of the
\* request that api_conn serves, and a disconnection that would break the
\* link sets orphaned.
LEMMA NextOwn == TypeOK /\ ApiConnWaits /\ OtaConsistent /\ Numbered /\ Own /\ [AsyncNext]_async_vars => Own'
<1> SUFFICES ASSUME TypeOK, ApiConnWaits, OtaConsistent, Numbered, Own, [AsyncNext]_async_vars, ~orphaned'
             PROVE  ~wrong' /\ OwnScan' /\ OwnOta'
  BY DEF Own
<1> DataTypes /\ FlagTypes
  BY TypeParts
<1> USE DEF OwnScan, OwnOta, ScanUnderway, OtaUnderway
<1>1. ASSUME NEW c \in Clients, OnTcpConn(c) \/ OnOtherRequest(c) \/ OnTrailingByte(c)
      PROVE  ~wrong' /\ OwnScan' /\ OwnOta'
  <2>1. UNCHANGED <<api_conn, wifi_vars, ota_vars, history>>
    BY <1>1 DEF OnTcpConn, OnOtherRequest, OnTrailingByte
  <2>2. ASSUME api_conn # NoClient PROVE conns'[api_conn].asked = conns[api_conn].asked
    BY <1>1, <2>2 DEF OnTcpConn, OnOtherRequest, OnTrailingByte, DataTypes, ConnState, ApiConnWaits
  <2> QED
    BY <2>1, <2>2 DEF wifi_vars, ota_vars, history, Own
<1>2. ASSUME NEW c \in Clients, OnTcpDisc(c) PROVE ~wrong' /\ OwnScan' /\ OwnOta'
  <2>1. ~orphaned /\ ~wrong' /\ UNCHANGED <<wifi_vars, ota_vars, scan_for, ota_for>>
    BY <1>2 DEF OnTcpDisc, Own
  <2>2. CASE api_conn = c
    <3>1. ~ScanUnderway /\ ~OtaUnderway
      BY <1>2, <2>1, <2>2 DEF OnTcpDisc, Own, Underway
    <3> QED
      BY <2>1, <3>1 DEF wifi_vars, ota_vars
  <2>3. CASE api_conn # c
    <3>1. api_conn' = api_conn /\ (api_conn # NoClient => conns'[api_conn] = conns[api_conn])
      BY <1>2, <2>3 DEF OnTcpDisc, DataTypes
    <3> QED
      BY <2>1, <3>1 DEF wifi_vars, ota_vars, Own
  <2> QED
    BY <2>2, <2>3
<1>3. ASSUME NEW c \in Clients, GetWifi(c) \/ PatchFirmwareBusy(c) \/ GetFirmware(c) \/ PatchFirmware(c)
      PROVE  ~wrong' /\ OwnScan' /\ OwnOta'
  <2>1. ApiFree(c) /\ ~orphaned /\ ~wrong'
    BY <1>3 DEF GetWifi, PatchFirmwareBusy, GetFirmware, PatchFirmware, Own
  <2>2. ~ScanUnderway /\ ~OtaUnderway
    BY <2>1 DEF ApiFree, Own
  <2>3. CASE Waits(c)
    <3>1. api_conn' = c /\ c # NoClient /\ conns'[c].asked = asked'
      BY <2>3, AsyncApiAssumption DEF Waits, Conn, DataTypes, AsyncApiAssumption
    <3>2. (ScanUnderway' => scan_for' = asked') /\ (OtaUnderway' => ota_for' = asked')
      BY <1>3, <2>2 DEF GetWifi, PatchFirmwareBusy, GetFirmware, PatchFirmware, wifi_vars, ota_vars
    <3> QED
      BY <2>1, <3>1, <3>2
  <2>4. CASE AnsweredAtOnce(c)
    <3>1. ~Waits(c)
      BY <2>4 DEF AnsweredAtOnce, Waits, DataTypes
    <3> QED
      BY <1>3, <2>1, <2>2, <3>1 DEF GetWifi, PatchFirmwareBusy, GetFirmware, PatchFirmware, wifi_vars
  <2> QED
    BY <1>3, <2>3, <2>4 DEF GetWifi, PatchFirmwareBusy, GetFirmware, PatchFirmware
<1>4. CASE OnWifiScanDone
  <2>1. ~orphaned /\ ~ScanUnderway' /\ UNCHANGED <<ota_vars, ota_for>>
    BY <1>4 DEF OnWifiScanDone
  <2>2. CASE scan_callback = "NULL"
    BY <1>4, <2>1, <2>2 DEF OnWifiScanDone, Own, ota_vars
  <2>3. CASE scan_callback = "on_wifi_scan"
    <3>1. api_conn # NoClient /\ conns[api_conn].asked = scan_for /\ ~wrong /\ Answers(scan_for)
      BY <1>4, <2>1, <2>3 DEF OnWifiScanDone, Own
    <3>2. ~wrong'
      BY <3>1 DEF Answers
    <3>3. ~OtaUnderway
      BY <2>1, <2>3, <3>1 DEF Own, Numbered
    <3> QED
      BY <2>1, <3>2, <3>3 DEF ota_vars
  <2> QED
    BY <2>2, <2>3 DEF FlagTypes
<1>5. CASE OnOtaLatestResponse \/ (OnOtaHeadResponse /\ ota_perform_callback = "on_ota_perform")
  <2>1. ~orphaned /\ OtaUnderway /\ Answers(ota_for) /\ UNCHANGED <<wifi_vars, scan_for>>
    BY <1>5 DEF OnOtaLatestResponse, OnOtaHeadResponse
  <2>2. ~OtaUnderway'
    <3>1. CASE OnOtaLatestResponse
      BY <3>1 DEF OnOtaLatestResponse, OtaConsistent
    <3>2. CASE OnOtaHeadResponse
      BY <1>5, <3>2 DEF OnOtaHeadResponse, OnOtaLatestResponse, OtaConsistent
    <3> QED
      BY <1>5, <3>1, <3>2
  <2>3. api_conn # NoClient /\ conns[api_conn].asked = ota_for /\ ~wrong
    BY <2>1 DEF Own
  <2>4. ~wrong'
    BY <2>1, <2>3 DEF Answers
  <2>5. ~ScanUnderway
    BY <2>1, <2>3 DEF Own, Numbered
  <2> QED
    BY <2>1, <2>2, <2>4, <2>5 DEF wifi_vars
<1>6. CASE OnOtaHeadResponse /\ ota_perform_callback # "on_ota_perform"
  <2>1. ~orphaned /\ ota_perform_callback' = "NULL"
        /\ UNCHANGED <<conns, api_conn, wrong, wifi_vars, ota_latest_callback, scan_for, ota_for>>
    BY <1>6 DEF OnOtaHeadResponse
  <2> QED
    BY <1>6, <2>1 DEF wifi_vars, Own
<1>7. CASE OnAutoScan \/ OtaAutoUpdateCheck \/ OnOtaStart
  BY <1>7 DEF OnAutoScan, OtaAutoUpdateCheck, OnOtaStart, wifi_vars, ota_vars, history, Own
<1>8. CASE OnOtaAutoLatest
  BY <1>8 DEF OnOtaAutoLatest, wifi_vars, history, Own
<1>9. CASE RestartUpdated
  BY <1>9 DEF RestartUpdated
<1>10. CASE UNCHANGED async_vars
  BY <1>10 DEF async_vars, wifi_vars, ota_vars, history, Own
<1> QED
  BY <1>1, <1>2, <1>3, <1>4, <1>5, <1>6, <1>7, <1>8, <1>9, <1>10 DEF AsyncNext

\* A request gets the answer of another only after a client has left during
\* the operation it had asked for: an invariant of api_conn, the callbacks and
\* the operations together.
THEOREM OwnAnswersCorrect == AsyncSpec => []OwnAnswers
<1>1. AsyncInit => OtaConsistent /\ Numbered /\ Own
  BY DEF AsyncInit, OtaConsistent, Numbered, Own, OwnScan, OwnOta, ScanUnderway, OtaUnderway
<1>2. TypeOK /\ ApiConnWaits /\ OtaConsistent /\ Numbered /\ Own /\ [AsyncNext]_async_vars => (OtaConsistent /\ Numbered /\ Own)'
  BY NextOtaConsistent, NextNumbered, NextOwn, TypeParts
<1> QED
  BY <1>1, <1>2, OwnMeans, AsyncTypeCorrect, ApiConnCorrect, PTL DEF AsyncSpec

=============================================================================
