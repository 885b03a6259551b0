----------------------------- MODULE HttpClient -----------------------------
(***************************************************************************)
(* HTTP requests of the device: httpclient.c, over the DNS and TCP         *)
(* callbacks of the SDK.  Each request has its own request_args_t; what a  *)
(* request is for is in the modules Webhooks, AsyncApi and Startup.        *)
(*                                                                         *)
(* A definition named X_Something is X with a plausible mistake; nothing   *)
(* uses it: the checks put it in the place of X to see the property that   *)
(* guards against the mistake fail.                                        *)
(***************************************************************************)
EXTENDS SequencesExt

CONSTANTS
    Requests,    \* requests
    MaxLosses    \* bound: requests whose DNS query fails at once

VARIABLES
    reqs,    \* the request_args_t of each request and its connection
    calls,   \* history: the statuses that the callback of each request got
    losses   \* history: DNS queries that failed at once

httpclient_vars == <<reqs, calls, losses>>

Statuses == {"response", "no response", "dns error", "timeout"}

\* state: "none" before the request, "refused", then where it is; "freed"
\* after free(req).  timer: the request timer is armed, in freed memory once
\* the state is "freed".  callback: not NULL.  to_send: whether the head, and
\* the body, are still to be sent.  received: how much of a response is in
\* the buffer.  closing: espconn_disconnect() was called.
None == [state |-> "none", timer |-> FALSE, callback |-> FALSE, to_send |-> <<>>,
         received |-> "nothing", closing |-> FALSE]

Freed(timer) == [None EXCEPT !.state = "freed", !.timer = timer]

HttpClientInit ==
    /\ reqs = [r \in Requests |-> None]
    /\ calls = [r \in Requests |-> <<>>]
    /\ losses = 0

Called(r, status) == calls' = [calls EXCEPT ![r] = IF reqs[r].callback THEN Append(@, status) ELSE @]

-----------------------------------------------------------------------------
(***************************************************************************)
(* The request and the DNS.                                                *)
(***************************************************************************)
\* httpclient_request() with a URL that is not HTTP(S) or has port 0.
RefuseUrl(r) ==
    /\ reqs[r].state = "none"
    /\ reqs' = [reqs EXCEPT ![r].state = "refused"]
    /\ UNCHANGED <<calls, losses>>

\* Arms no timer.
httpclient_request_NoTimer(r) ==
    /\ reqs[r].state = "none"
    /\ \E state \in {"dns", "connecting"} :
           reqs' = [reqs EXCEPT ![r] = [None EXCEPT !.state = state, !.callback = TRUE,
                                                    !.to_send = <<"head", "body">>]]
    /\ UNCHANGED <<calls, losses>>

\* http_raw_request(): the name is known, or is asked for.
httpclient_request(r) ==
    /\ reqs[r].state = "none"
    /\ \E state \in {"dns", "connecting"} :
           reqs' = [reqs EXCEPT ![r] = [None EXCEPT !.state = state, !.timer = TRUE, !.callback = TRUE,
                                                    !.to_send = <<"head", "body">>]]
    /\ UNCHANGED <<calls, losses>>

\* http_raw_request(): espconn_gethostbyname() fails.  dns_callback() calls
\* back and frees the request, then the timer is armed in the freed memory.
RequestWithoutDns(r) ==
    /\ reqs[r].state = "none" /\ losses < MaxLosses
    /\ reqs' = [reqs EXCEPT ![r] = Freed(TRUE)]
    /\ calls' = [calls EXCEPT ![r] = <<"dns error">>]
    /\ losses' = losses + 1

\* dns_callback()
DnsFound(r) ==
    /\ reqs[r].state = "dns"
    /\ reqs' = [reqs EXCEPT ![r].state = "connecting"]
    /\ UNCHANGED <<calls, losses>>

DnsNotFound(r) ==
    /\ reqs[r].state = "dns"
    /\ Called(r, "dns error")
    /\ reqs' = [reqs EXCEPT ![r] = Freed(FALSE)]
    /\ UNCHANGED losses

-----------------------------------------------------------------------------
(***************************************************************************)
(* The connection.                                                         *)
(***************************************************************************)
Connected(r) == reqs[r].state = "connected"

\* connect_callback() sends the head, sent_callback() the body, once.
ConnectCallback(r) ==
    /\ reqs[r].state = "connecting" /\ ~reqs[r].closing
    /\ reqs' = [reqs EXCEPT ![r].state = "connected", ![r].to_send = <<"body">>]
    /\ UNCHANGED <<calls, losses>>

SentCallback(r) ==
    /\ Connected(r) /\ reqs[r].to_send # <<>>
    /\ reqs' = [reqs EXCEPT ![r].to_send = <<>>]
    /\ UNCHANGED <<calls, losses>>

\* receive_callback(): more of the response.  What comes after a timeout is
\* appended behind a null character and never looked at.
ReceiveCallback(r) ==
    /\ Connected(r) /\ reqs[r].to_send = <<>>
    /\ \E amount \in {"part of the head", "head", "all"} :
           /\ amount = "part of the head" => reqs[r].received = "nothing"
           /\ amount = "head" => reqs[r].received \in {"nothing", "part of the head"}
           /\ reqs[r].received \in {"nothing", "part of the head", "head"}
           /\ reqs' = [reqs EXCEPT ![r].received = amount]
    /\ UNCHANGED <<calls, losses>>

\* receive_callback(): more than BUFFER_SIZE_MAX, or no memory.
ReceiveTooMuch(r) ==
    /\ Connected(r) /\ reqs[r].received # "discarded"
    /\ reqs' = [reqs EXCEPT ![r].received = "discarded", ![r].closing = TRUE]
    /\ UNCHANGED <<calls, losses>>

\* The head must be whole for disconnect_callback() to find the body.
Status(req) == IF req.received \in {"head", "all"} THEN "response" ELSE "no response"

\* disconnect_callback(), also called by error_callback(): the server closes,
\* the network fails, or espconn_disconnect() has been called.
DisconnectCallback(r) ==
    /\ reqs[r].state \in {"connecting", "connected"}
    /\ reqs[r].received # "part of the head"
    /\ Called(r, Status(reqs[r]))
    /\ reqs' = [reqs EXCEPT ![r] = Freed(FALSE)]
    /\ UNCHANGED losses

\* The device restarts, at any time; in particular disconnect_callback() stores
\* to an invalid address when a response ends within its head.
Restart ==
    /\ reqs' = [r \in Requests |-> None]
    /\ calls' = [r \in Requests |-> <<>>]
    /\ UNCHANGED losses

-----------------------------------------------------------------------------
(***************************************************************************)
(* The timer.                                                              *)
(***************************************************************************)
TimeoutCallback_KeepsCallback(r) ==
    /\ reqs[r].timer /\ reqs[r].state \in {"connecting", "connected"}
    /\ Called(r, "timeout")
    /\ reqs' = [reqs EXCEPT ![r].timer = FALSE, ![r].received = "discarded", ![r].closing = TRUE]
    /\ UNCHANGED losses

\* timeout_callback(): the callback is told, and forgotten.
TimeoutCallback(r) ==
    /\ reqs[r].timer /\ reqs[r].state \in {"connecting", "connected"}
    /\ Called(r, "timeout")
    /\ reqs' = [reqs EXCEPT ![r].timer = FALSE, ![r].callback = FALSE,
                            ![r].received = "discarded", ![r].closing = TRUE]
    /\ UNCHANGED losses

\* timeout_callback() while the DNS query lasts: req->connection has never
\* been written.  What malloc() left there may be the address of nothing or
\* of the connection of another request, which is then closed.
TimeoutWithoutConnection(r) ==
    /\ reqs[r].timer /\ reqs[r].state = "dns"
    /\ Called(r, "timeout")
    /\ \E closed \in {{}} \cup {{other} : other \in {q \in Requests \ {r} : Connected(q)}} :
           reqs' = [q \in Requests |->
               IF q = r THEN [reqs[q] EXCEPT !.timer = FALSE, !.callback = FALSE, !.received = "discarded"]
               ELSE [reqs[q] EXCEPT !.closing = @ \/ q \in closed]]
    /\ UNCHANGED losses

\* The timer that was armed in freed memory: whatever is there now, the
\* callback may be called again.
TimeoutInFreedMemory(r) ==
    /\ reqs[r].timer /\ reqs[r].state = "freed"
    /\ reqs' = [reqs EXCEPT ![r].timer = FALSE]
    /\ \/ calls' = [calls EXCEPT ![r] = Append(@, "timeout")]
       \/ UNCHANGED calls
    /\ UNCHANGED losses

HttpClientNext ==
    \/ \E r \in Requests :
           \/ RefuseUrl(r) \/ httpclient_request(r) \/ RequestWithoutDns(r)
           \/ DnsFound(r) \/ DnsNotFound(r)
           \/ ConnectCallback(r) \/ SentCallback(r) \/ ReceiveCallback(r) \/ ReceiveTooMuch(r)
           \/ DisconnectCallback(r)
           \/ TimeoutCallback(r) \/ TimeoutWithoutConnection(r) \/ TimeoutInFreedMemory(r)
    \/ Restart

\* The timer fires.  Nothing is assumed of the server, nor of the DNS.
HttpClientFairness == \A r \in Requests : WF_httpclient_vars(TimeoutCallback(r) \/ TimeoutWithoutConnection(r))

HttpClientSpec == HttpClientInit /\ [][HttpClientNext]_httpclient_vars /\ HttpClientFairness

-----------------------------------------------------------------------------
(***************************************************************************)
(* Properties.                                                             *)
(***************************************************************************)
\* A request whose DNS query failed: at once, it has left its timer in freed
\* memory, and may be called back again.
LostAtOnce(r) == reqs[r].state = "freed" /\ calls[r] # <<>> /\ calls[r][1] = "dns error"

\* The outcome of a request that was lost at once is its first call.
outcome == [r \in Requests |->
    CASE reqs[r].state \in {"none", "refused"} -> reqs[r].state
      [] calls[r] = <<>> /\ reqs[r].state \notin {"none", "refused"} -> "pending"
      [] Len(calls[r]) = 1 \/ (calls[r] # <<>> /\ LostAtOnce(r)) -> calls[r][1]
      [] OTHER -> "called twice"]

Promise == INSTANCE HttpRequests WITH Outcomes <- Statuses

\* httpclient.c keeps the promise of HttpRequests, one call of the callback for
\* every request, whatever the DNS, the network and the server do and in
\* whatever order, but for the requests whose DNS query fails at once.  The
\* callback of one of these may be called again, by a timer in freed memory
\* (RequestWithoutDns, then TimeoutInFreedMemory): `outcome` counts its first
\* call only, and the promise is broken for it.
CalledOnce == Promise!AtMostOnce

\* No callback is called twice but for that reason.
TwiceOnlyIfLost == \A r \in Requests : Len(calls[r]) > 1 => LostAtOnce(r)

\* And the callback is called, within the timeout.
CalledInTime == Promise!Answered

=============================================================================
