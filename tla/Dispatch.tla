------------------------------ MODULE Dispatch ------------------------------
(***************************************************************************)
(* Which request gets to do what: the authorisation ladder and the checks  *)
(* of on_http_request() in client.c, the routing of api_call_handle() and  *)
(* the access level that each API handler asks for, in api.c.  What the    *)
(* handlers do is in other modules, but for the passwords, which decide    *)
(* about the requests that follow.                                         *)
(***************************************************************************)
EXTENDS Integers, Sequences

CONSTANTS
    Passwords,   \* passwords, as the hashes that are stored
    NoPassword,  \* EMPTY_SHA256_HEX, one of them
    Methods,     \* bound: HTTP methods that are tried
    Paths,       \* bound: paths that are tried, as the sequences of their parts
    PortIds      \* ids of the ports that exist

VARIABLES
    hash,         \* device_admin_password_hash and the two others
    setup_mode,   \* system_setup_mode_active()
    api_busy,     \* api_conn_busy()
    ota_active,   \* ota_busy()
    last          \* history: the last request and what became of it

dispatch_vars == <<hash, setup_mode, api_busy, ota_active, last>>

NONE     == 0
VIEWONLY == 10
NORMAL   == 20
ADMIN    == 30

Users == {"admin", "normal", "viewonly"}
Level == [user \in Users |-> CASE user = "admin" -> ADMIN [] user = "normal" -> NORMAL [] OTHER -> VIEWONLY]

\* An Authorization header: its first fault, or none, and the user and the
\* key that a token without fault claims and is signed with.
TokenFaults == {"not a bearer", "not a HS256 JWT", "not of qToggle", "not of a consumer", "unknown user"}
NoToken     == [fault |-> "no header", user |-> "admin", key |-> NoPassword]
Tokens      == [fault : {"none"}, user : Users, key : Passwords]
               \cup [fault : TokenFaults, user : {"admin"}, key : {NoPassword}]

\* What may be wrong with a request besides its token.
Flaws == {"none", "malformed body", "invalid session", "no session", "invalid timeout"}

NoRequest == [handler |-> "nothing"]

DispatchInit ==
    /\ hash = [user \in Users |-> NoPassword]
    /\ setup_mode = FALSE /\ api_busy = FALSE /\ ota_active = FALSE
    /\ last = NoRequest

-----------------------------------------------------------------------------
(***************************************************************************)
(* Authorisation (client.c).                                               *)
(***************************************************************************)
Unprotected(request) == request.path = <<"access">>

jwt_validate_AnyKey(token) == TRUE
jwt_validate(token) == token.key = hash[token.user]

\* The access level, or 401.
Unauthenticated == 401
Authorize(request) ==
    CASE setup_mode -> ADMIN
      [] ~setup_mode /\ request.token = NoToken ->
             IF Unprotected(request) THEN NONE
             ELSE IF hash["admin"] = NoPassword THEN ADMIN ELSE Unauthenticated
      [] ~setup_mode /\ request.token # NoToken ->
             IF request.token.fault = "none" /\ jwt_validate(request.token) THEN Level[request.token.user]
             ELSE IF Unprotected(request) THEN NONE ELSE Unauthenticated

-----------------------------------------------------------------------------
(***************************************************************************)
(* Routing (api_call_handle) and the level that each handler asks for.     *)
(***************************************************************************)
\* method and path, with "{id}" for a part that is looked up -> level
Handlers ==
    [GET |-> [device |-> ADMIN, firmware |-> ADMIN, access |-> NONE, ports |-> VIEWONLY,
              webhooks |-> ADMIN, wifi |-> ADMIN, peripherals |-> ADMIN, system |-> ADMIN,
              provisioning |-> ADMIN],
     PATCH |-> [device |-> ADMIN, firmware |-> ADMIN, access |-> NONE, system |-> ADMIN],
     PUT |-> [device |-> ADMIN, access |-> NONE, ports |-> ADMIN, webhooks |-> ADMIN,
              peripherals |-> ADMIN, provisioning |-> ADMIN],
     POST |-> [reset |-> ADMIN, access |-> NONE, ports |-> ADMIN],
     DELETE |-> [access |-> NONE], HEAD |-> [access |-> NONE], OPTIONS |-> [access |-> NONE]]

NoSuchFunction == -1
NoSuchPort     == -2

PortHandler(method, path) ==
    CASE path[2] \notin PortIds -> NoSuchPort
      [] path[2] \in PortIds /\ Len(path) = 2 ->
             IF method \in {"PATCH", "DELETE"} THEN ADMIN ELSE NoSuchFunction
      [] path[2] \in PortIds /\ Len(path) = 3 /\ path[3] = "value" ->
             CASE method = "GET" -> VIEWONLY [] method = "PATCH" -> NORMAL [] OTHER -> NoSuchFunction
      [] path[2] \in PortIds /\ Len(path) = 3 /\ path[3] = "sequence" ->
             IF method = "PATCH" THEN NORMAL ELSE NoSuchFunction
      [] OTHER -> NoSuchFunction

\* The level that the handler of a call asks for, or the error of a 404.
api_call_handle(method, path) ==
    CASE method \notin DOMAIN Handlers \/ Len(path) \notin 1..3 -> NoSuchFunction
      [] method \in DOMAIN Handlers /\ Len(path) = 1 ->
             IF path[1] \in DOMAIN Handlers[method] THEN Handlers[method][path[1]] ELSE NoSuchFunction
      [] method \in DOMAIN Handlers /\ Len(path) \in 2..3 /\ path[1] = "ports" -> PortHandler(method, path)
      [] method \in DOMAIN Handlers /\ Len(path) \in 2..3 /\ path[1] = "backup" ->
             IF path[2] = "endpoints" THEN ADMIN ELSE NoSuchFunction
      [] method \in DOMAIN Handlers /\ Len(path) = 2 /\ path[1] = "rawio" ->
             IF method \in {"GET", "PATCH"} THEN ADMIN ELSE NoSuchFunction
      [] OTHER -> NoSuchFunction

-----------------------------------------------------------------------------
(***************************************************************************)
(* Requests (on_http_request).                                             *)
(***************************************************************************)
WithBody(request) == request.method \in {"POST", "PATCH", "PUT"}
Listens(request)  == request.method = "GET" /\ request.path # <<>> /\ request.path[1] = "listen"

\* In setup mode the headers are not looked at: no session id is found.
InvalidSession(request) == request.flaw = "invalid session" /\ ~setup_mode
NoSession(request)      == request.flaw = "no session" \/ setup_mode

ListenStatus(request, level) ==
    CASE level < VIEWONLY -> 403
      [] level >= VIEWONLY /\ ota_active -> 503
      [] level >= VIEWONLY /\ ~ota_active /\ (NoSession(request) \/ request.flaw = "invalid timeout") -> 400
      [] OTHER -> 200

CallStatus(request, level) ==
    LET needed == api_call_handle(request.method, request.path)
    IN  CASE needed \in {NoSuchFunction, NoSuchPort} ->
                 IF setup_mode /\ request.method = "GET" THEN 200 ELSE 404
          [] needed \notin {NoSuchFunction, NoSuchPort} /\ level < needed -> 403
          [] OTHER -> 200

\* The status, where 200 stands for whatever the handler answers.
StatusOf(request) ==
    LET level     == Authorize(request)
        malformed == WithBody(request) /\ request.flaw = "malformed body"
    IN  CASE api_busy -> 503
          [] ~api_busy /\ malformed -> 400
          [] ~api_busy /\ ~malformed /\ level = Unauthenticated -> 401
          [] ~api_busy /\ ~malformed /\ level # Unauthenticated ->
                 CASE InvalidSession(request) -> 400
                   [] ~InvalidSession(request) /\ Listens(request) -> ListenStatus(request, level)
                   [] OTHER -> CallStatus(request, level)

\* The call that a request with status 200 makes, or the page, or nothing.
HandlerOf(request) ==
    IF StatusOf(request) # 200 THEN "nothing"
    ELSE IF Listens(request) THEN "listen"
    ELSE IF api_call_handle(request.method, request.path) \in {NoSuchFunction, NoSuchPort} THEN "setup page"
    ELSE "call"

Outcome(request) == [request |-> request, status |-> StatusOf(request), handler |-> HandlerOf(request),
                     level |-> Authorize(request)]

\* Calls that are answered later keep the API busy.
Asynchronous(request) == request.path \in {<<"firmware">>, <<"wifi">>} /\ request.method \in {"GET", "PATCH"}

SetsPassword(request) == request.method = "PATCH" /\ request.path = <<"device">>

Serve(request) ==
    /\ last = NoRequest
    /\ last' = Outcome(request)
    /\ \/ /\ Asynchronous(request) /\ HandlerOf(request) = "call"
          /\ api_busy' \in BOOLEAN
          /\ UNCHANGED hash
       \/ /\ SetsPassword(request) /\ HandlerOf(request) = "call"
          /\ \E user \in Users, password \in Passwords : hash' = [hash EXCEPT ![user] = password]
          /\ UNCHANGED api_busy
       \/ /\ ~(Asynchronous(request) /\ HandlerOf(request) = "call")
          /\ UNCHANGED <<hash, api_busy>>
    /\ UNCHANGED <<setup_mode, ota_active>>

OnHttpRequest ==
    \E method \in Methods, path \in Paths, token \in Tokens \cup {NoToken}, flaw \in Flaws :
        Serve([method |-> method, path |-> path, token |-> token, flaw |-> flaw])

\* The next request finds what the last one has left.
Forget == last # NoRequest /\ last' = NoRequest /\ UNCHANGED <<hash, setup_mode, api_busy, ota_active>>

\* on_ota_latest() and the other callbacks of AsyncApi, or on_tcp_disc();
\* system_setup_mode_toggle(); an OTA that starts or ends.
Elsewhere ==
    /\ last = NoRequest
    /\ \/ api_busy' = FALSE /\ UNCHANGED <<setup_mode, ota_active>>
       \/ setup_mode' = ~setup_mode /\ UNCHANGED <<api_busy, ota_active>>
       \/ ota_active' = ~ota_active /\ UNCHANGED <<api_busy, setup_mode>>
    /\ UNCHANGED <<hash, last>>

DispatchNext == OnHttpRequest \/ Forget \/ Elsewhere

DispatchSpec == DispatchInit /\ [][DispatchNext]_dispatch_vars

-----------------------------------------------------------------------------
(***************************************************************************)
(* Properties.                                                             *)
(***************************************************************************)
Proves(token, user) == token # NoToken /\ token.fault = "none" /\ token.user = user /\ token.key = hash[user]

\* Whatever was requested before, a call is made only by somebody who knows
\* the password of a user entitled to it, unless the device is in setup mode
\* or has no admin password and the request does not claim to be a user; so
\* a user cannot give themselves another password or level.
CallsEarned ==
    [][ LET request == last'.request
        IN  last'.handler = "call" /\ last' # last /\ ~setup_mode =>
                \/ api_call_handle(request.method, request.path) = NONE
                \/ request.token = NoToken /\ hash["admin"] = NoPassword
                \/ \E user \in Users : /\ Proves(request.token, user)
                                       /\ Level[user] >= api_call_handle(request.method, request.path)
      ]_dispatch_vars

=============================================================================
