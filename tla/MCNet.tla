------------------------------- MODULE MCNet --------------------------------
(***************************************************************************)
(* The instances of HttpServer, Dispatch and HttpClient that TLC checks.   *)
(* They share no state: a behaviour is one of one of the three.            *)
(***************************************************************************)
EXTENDS HttpServer, Dispatch, HttpClient

CONSTANTS c1, c2

VARIABLE part

-----------------------------------------------------------------------------
\* Requests with a query and no body, with a body of one byte, and with a
\* longer one that contains a newline; and bytes that are no request.
Queried == [method |-> <<"G">>, path |-> <<"/">>, query |-> <<"n">>,
            headers |-> << <<<<"n">>, <<"0">>>> >>, body |-> <<>>]
OneByte == [method |-> <<"P">>, path |-> <<"/", "n">>, query |-> <<>>,
            headers |-> << <<<<"L">>, <<"1">>>> >>, body |-> <<"n">>]
Longer  == [method |-> <<"P">>, path |-> <<"/">>, query |-> <<>>,
            headers |-> << <<<<"n">>, <<"n">>>>, <<<<"L">>, <<"3">>>> >>, body |-> <<"n", "LF", "n">>]

Bytes(r, newline) ==
    r.method \o <<"SP">> \o r.path \o (IF r.query = <<>> THEN <<>> ELSE <<"?">> \o r.query)
    \o <<"SP", "P">> \o newline
    \o FlattenSeq([i \in 1..Len(r.headers) |-> r.headers[i][1] \o <<":", "SP">> \o r.headers[i][2] \o newline])
    \o newline \o r.body

Message(r, newline) == [bytes |-> Bytes(r, newline), request |-> r]

\* Calls of every level, a port that is there and one that is not.
MCPaths == {<<"device">>, <<"access">>, <<"firmware">>, <<"listen">>, <<"ports", "p", "value">>, <<"ports", "q">>}

MCMessages == [c \in Conns |->
    IF c = c1
    THEN {Message(r, <<"CR", "LF">>) : r \in {OneByte, Longer}}
         \cup {[bytes |-> <<"SP", "G">>, request |-> NotARequest]}
    ELSE {Message(Queried, <<"LF">>)}]

\* What the theorems about the server (NetProofs) suppose of its messages.
ASSUME MessagesUnderstood ==
    \A c \in Conns : \A m \in Messages[c] :
        LET run[i \in 0..Len(m.bytes)] ==
                IF i = 0 THEN [Idle EXCEPT !.req_state = "NEW"]
                ELSE httpserver_parse_req_char(run[i - 1], m.bytes[i])
        IN  m.bytes # <<>> /\ Reads(m, run)

-----------------------------------------------------------------------------
NetInit ==
    /\ part \in {"server", "client", "dispatch"}
    /\ Init /\ HttpClientInit /\ DispatchInit

NetNext ==
    \/ part = "server" /\ Next /\ UNCHANGED <<part, httpclient_vars, dispatch_vars>>
    \/ part = "client" /\ HttpClientNext /\ UNCHANGED <<part, vars, dispatch_vars>>
    \/ part = "dispatch" /\ DispatchNext /\ UNCHANGED <<part, vars, httpclient_vars>>

NetSpec == NetInit /\ [][NetNext]_<<part, vars, httpclient_vars, dispatch_vars>> /\ Fairness /\ HttpClientFairness

=============================================================================
