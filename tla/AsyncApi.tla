------------------------------ MODULE AsyncApi ------------------------------
(***************************************************************************)
(* API calls answered later: GET /firmware, PATCH /firmware and GET /wifi. *)
(* client.c remembers the connection that waits in the one variable        *)
(* api_conn of api.c; ota.c and wifi.c remember a callback for each        *)
(* operation, which answers whatever connection api_conn is by then.       *)
(*                                                                         *)
(* The requests are numbered (history), so that an answer can be compared  *)
(* with the request that started the operation it comes from.              *)
(***************************************************************************)
EXTENDS Integers

CONSTANTS
    Clients,      \* client connections, by remote address and port
    NoClient,     \* NULL
    MaxRequests   \* bound: number of requests that wait for their answer

ASSUME AsyncApiAssumption == NoClient \notin Clients /\ MaxRequests \in Nat

VARIABLES
    conns,                     \* state of each connection, and the number of its request
    api_conn,
    scanning, scan_callback,   \* of wifi.c
    ota_latest_callback, ota_perform_callback, ota_auto_update_checking,
    ota_url,                   \* ota_url is not NULL
    ota_timer,                 \* on_ota_start() is scheduled
    upgrading,                 \* the upgrade flag of the SDK is UPGRADE_FLAG_START
    http,                      \* the HTTP requests of ota.c that have not ended
    asked, scan_for, ota_for,  \* history: number of requests so far, and those that
                               \* the scan and the OTA operation were started for
    orphaned, wrong,           \* history: a client has left during its operation;
                               \* a request got the answer of another
    refused, ignored           \* history: httpclient.c refused a URL; a PATCH /firmware
                               \* was ignored because ota_busy()

wifi_vars == <<scanning, scan_callback>>
ota_vars  == <<ota_latest_callback, ota_perform_callback, ota_auto_update_checking,
               ota_url, ota_timer, upgrading, http>>
history   == <<asked, scan_for, ota_for, orphaned, wrong, refused, ignored>>
async_vars == <<conns, api_conn, wifi_vars, ota_vars, history>>

ConnState == [state : {"closed", "open", "waiting", "answered"}, asked : 0..MaxRequests]

\* The types of the variables.
TypeOK ==
    /\ conns \in [Clients -> ConnState] /\ api_conn \in Clients \cup {NoClient}
    /\ scan_callback \in {"NULL", "on_wifi_scan"}
    /\ ota_latest_callback \in {"NULL", "on_ota_latest", "on_ota_auto_latest"}
    /\ ota_perform_callback \in {"NULL", "on_ota_perform", "on_ota_auto_perform"}
    /\ http \subseteq {"latest", "head"}
    /\ asked \in 0..MaxRequests /\ scan_for \in 0..MaxRequests /\ ota_for \in 0..MaxRequests
    /\ scanning \in BOOLEAN /\ ota_auto_update_checking \in BOOLEAN
    /\ ota_url \in BOOLEAN /\ ota_timer \in BOOLEAN /\ upgrading \in BOOLEAN
    /\ orphaned \in BOOLEAN /\ wrong \in BOOLEAN /\ refused \in BOOLEAN /\ ignored \in BOOLEAN

Conn(state, n) == [state |-> state, asked |-> n]

AsyncInit ==
    /\ conns = [c \in Clients |-> Conn("closed", 0)] /\ api_conn = NoClient
    /\ scanning = FALSE /\ scan_callback = "NULL"
    /\ ota_latest_callback = "NULL" /\ ota_perform_callback = "NULL"
    /\ ota_auto_update_checking = FALSE /\ ota_url = FALSE /\ ota_timer = FALSE
    /\ upgrading = FALSE /\ http = {}
    /\ asked = 0 /\ scan_for = 0 /\ ota_for = 0
    /\ orphaned = FALSE /\ wrong = FALSE /\ refused = FALSE /\ ignored = FALSE

\* ota_busy(), and with it every state of ota_current_state() but IDLE.
ota_busy ==
    \/ upgrading \/ ota_url \/ ota_auto_update_checking
    \/ ota_latest_callback # "NULL" \/ ota_perform_callback # "NULL"

\* The requests whose operation goes on.
Underway ==
    (IF scan_callback = "on_wifi_scan" THEN {scan_for} ELSE {})
    \cup (IF ota_latest_callback = "on_ota_latest" \/ ota_perform_callback = "on_ota_perform"
          THEN {ota_for} ELSE {})

-----------------------------------------------------------------------------
(***************************************************************************)
(* Connections and requests (client.c).                                    *)
(***************************************************************************)
OnTcpConn(c) ==
    /\ conns[c].state = "closed"
    /\ conns' = [conns EXCEPT ![c] = Conn("open", 0)]
    /\ UNCHANGED <<api_conn, wifi_vars, ota_vars, history>>

OnTcpDisc_KeepsApiConn(c) ==
    /\ conns[c].state # "closed"
    /\ conns' = [conns EXCEPT ![c] = Conn("closed", 0)]
    /\ orphaned' = (orphaned \/ (api_conn = c /\ conns[c].asked \in Underway))
    /\ UNCHANGED <<api_conn, wifi_vars, ota_vars, asked, scan_for, ota_for, wrong, refused, ignored>>

\* on_tcp_disc(): whatever the connection waits for goes on.
OnTcpDisc(c) ==
    /\ conns[c].state # "closed"
    /\ conns' = [conns EXCEPT ![c] = Conn("closed", 0)]
    /\ api_conn' = IF api_conn = c THEN NoClient ELSE api_conn
    /\ orphaned' = (orphaned \/ (api_conn = c /\ conns[c].asked \in Underway))
    /\ UNCHANGED <<wifi_vars, ota_vars, asked, scan_for, ota_for, wrong, refused, ignored>>

\* A request answered at once: with 503 because the API is busy, or by a call
\* that needs nothing asynchronous, such as GET /firmware during an OTA.
OnOtherRequest(c) ==
    /\ conns[c].state = "open"
    /\ conns' = [conns EXCEPT ![c].state = "answered"]
    /\ UNCHANGED <<api_conn, wifi_vars, ota_vars, history>>

\* on_invalid_http_request(), for bytes after the end of a request: a 400.
OnTrailingByte(c) ==
    /\ conns[c].state = "waiting"
    /\ conns' = [conns EXCEPT ![c].state = "answered"]
    /\ UNCHANGED <<api_conn, wifi_vars, ota_vars, history>>

ApiFree_Overwrites(c) == conns[c].state = "open" /\ asked < MaxRequests

\* on_http_request(): the API is not busy.
ApiFree(c) == conns[c].state = "open" /\ api_conn = NoClient /\ asked < MaxRequests

\* on_http_request() with a call that has no response yet.
Waits(c) ==
    /\ asked' = asked + 1
    /\ api_conn' = c
    /\ conns' = [conns EXCEPT ![c] = Conn("waiting", asked')]

\* A call whose operation fails, and answers, before api_call_handle() returns.
AnsweredAtOnce(c) ==
    /\ conns' = [conns EXCEPT ![c].state = "answered"]
    /\ UNCHANGED <<api_conn, asked>>

\* on_ota_latest(), on_ota_perform() and on_wifi_scan(), called for request n.
Answers(n) ==
    IF api_conn = NoClient
    THEN UNCHANGED <<conns, api_conn, wrong>>
    ELSE /\ conns' = [conns EXCEPT ![api_conn].state = "answered"]
         /\ api_conn' = NoClient
         /\ wrong' = (wrong \/ (conns[api_conn].state = "waiting" /\ conns[api_conn].asked # n))

-----------------------------------------------------------------------------
(***************************************************************************)
(* Scans (wifi.c).                                                         *)
(***************************************************************************)
CanScan == ~scanning /\ ~ota_busy

\* api_get_wifi()
GetWifi(c) ==
    /\ ApiFree(c) /\ CanScan
    /\ scanning' = TRUE /\ scan_callback' = "on_wifi_scan"
    /\ Waits(c)
    /\ scan_for' = asked'
    /\ UNCHANGED <<ota_vars, ota_for, orphaned, wrong, refused, ignored>>

\* on_auto_scan()
OnAutoScan ==
    /\ CanScan
    /\ scanning' = TRUE /\ scan_callback' = "NULL"
    /\ UNCHANGED <<conns, api_conn, ota_vars, history>>

OnWifiScanDone ==
    /\ scanning
    /\ scanning' = FALSE /\ scan_callback' = "NULL"
    /\ IF scan_callback = "NULL"
       THEN UNCHANGED <<conns, api_conn, wrong>>
       ELSE Answers(scan_for)
    /\ UNCHANGED <<ota_vars, asked, scan_for, ota_for, orphaned, refused, ignored>>

-----------------------------------------------------------------------------
(***************************************************************************)
(* Firmware updates (ota.c).                                               *)
(***************************************************************************)
\* api_get_firmware() and ota_get_latest(); the request may fail at once.
GetFirmware(c) ==
    /\ ApiFree(c) /\ ~ota_busy
    /\ \/ /\ ota_latest_callback' = "on_ota_latest"
          /\ http' = http \cup {"latest"}
          /\ Waits(c)
          /\ ota_for' = asked'
       \/ /\ AnsweredAtOnce(c)
          /\ UNCHANGED <<ota_latest_callback, http, ota_for>>
    /\ UNCHANGED <<wifi_vars, ota_perform_callback, ota_auto_update_checking, ota_url, ota_timer,
                   upgrading, scan_for, orphaned, wrong, refused, ignored>>

\* ota_auto_update_check(), unless its request fails at once.
OtaAutoUpdateCheck ==
    /\ ~ota_busy
    /\ ota_auto_update_checking' = TRUE
    /\ ota_latest_callback' = "on_ota_auto_latest"
    /\ http' = http \cup {"latest"}
    /\ UNCHANGED <<conns, api_conn, wifi_vars, ota_perform_callback, ota_url, ota_timer, upgrading, history>>

PatchFirmwareBusy_Performs(c) ==
    /\ ApiFree(c) /\ ota_busy
    /\ Waits(c)
    /\ ota_for' = asked'
    /\ ota_url' = TRUE /\ ota_perform_callback' = "on_ota_perform" /\ http' = http \cup {"head"}
    /\ UNCHANGED <<wifi_vars, ota_latest_callback, ota_auto_update_checking, ota_timer, upgrading,
                   scan_for, orphaned, wrong, refused, ignored>>

\* api_patch_firmware() ignores that ota_perform_url() returns FALSE.
PatchFirmwareBusy(c) ==
    /\ ApiFree(c) /\ ota_busy
    /\ Waits(c)
    /\ ignored' = TRUE
    /\ UNCHANGED <<wifi_vars, ota_vars, scan_for, ota_for, orphaned, wrong, refused>>

\* api_patch_firmware() and ota_perform_url(); the URL of the client may be
\* one that httpclient_request() refuses, without a call of its callback.
PatchFirmware(c) ==
    /\ ApiFree(c) /\ ~ota_busy
    /\ \/ /\ ota_url' = TRUE /\ ota_perform_callback' = "on_ota_perform"
          /\ Waits(c)
          /\ ota_for' = asked'
          /\ \/ http' = http \cup {"head"} /\ UNCHANGED refused
             \/ refused' = TRUE /\ UNCHANGED http
       \/ /\ AnsweredAtOnce(c)
          /\ UNCHANGED <<ota_url, ota_perform_callback, http, ota_for, refused>>
    /\ UNCHANGED <<wifi_vars, ota_latest_callback, ota_auto_update_checking, ota_timer, upgrading,
                   scan_for, orphaned, wrong, ignored>>

\* on_ota_latest_response() for the API: whatever the status.
OnOtaLatestResponse ==
    /\ "latest" \in http /\ ota_latest_callback = "on_ota_latest"
    /\ http' = http \ {"latest"}
    /\ ota_latest_callback' = "NULL"
    /\ Answers(ota_for)
    /\ UNCHANGED <<wifi_vars, ota_perform_callback, ota_auto_update_checking, ota_url, ota_timer, upgrading,
                   asked, scan_for, ota_for, orphaned, refused, ignored>>

\* on_ota_latest_response() for on_ota_auto_latest(), which goes on with
\* ota_perform_url() for a new version.
OnOtaAutoLatest ==
    /\ "latest" \in http /\ ota_latest_callback = "on_ota_auto_latest"
    /\ ota_latest_callback' = "NULL" /\ ota_auto_update_checking' = FALSE
    /\ \/ /\ http' = http \ {"latest"}
          /\ UNCHANGED <<ota_url, ota_perform_callback>>
       \/ /\ ~(upgrading \/ ota_url \/ ota_perform_callback # "NULL")
          /\ http' = (http \ {"latest"}) \cup {"head"}
          /\ ota_url' = TRUE /\ ota_perform_callback' = "on_ota_auto_perform"
    /\ UNCHANGED <<conns, api_conn, wifi_vars, ota_timer, upgrading, history>>

OnOtaHeadResponse_OnlySuccess ==
    /\ "head" \in http
    /\ http' = http \ {"head"}
    /\ ota_perform_callback' = "NULL"
    /\ \/ ota_timer' = TRUE /\ UNCHANGED ota_url
       \/ ota_url' = FALSE /\ UNCHANGED ota_timer
    /\ IF ota_timer' /\ ota_perform_callback = "on_ota_perform"
       THEN Answers(ota_for)
       ELSE UNCHANGED <<conns, api_conn, wrong>>
    /\ UNCHANGED <<wifi_vars, ota_latest_callback, ota_auto_update_checking, upgrading,
                   asked, scan_for, ota_for, orphaned, refused, ignored>>

\* on_ota_head_response(): schedules the download if the file is there, then
\* calls on_ota_perform() or on_ota_auto_perform().
OnOtaHeadResponse ==
    /\ "head" \in http
    /\ http' = http \ {"head"}
    /\ ota_perform_callback' = "NULL"
    /\ \/ ota_timer' = TRUE /\ UNCHANGED ota_url
       \/ ota_url' = FALSE /\ UNCHANGED ota_timer
    /\ IF ota_perform_callback = "on_ota_perform"
       THEN Answers(ota_for)
       ELSE UNCHANGED <<conns, api_conn, wrong>>
    /\ UNCHANGED <<wifi_vars, ota_latest_callback, ota_auto_update_checking, upgrading,
                   asked, scan_for, ota_for, orphaned, refused, ignored>>

\* on_ota_start(), with a download that starts.
OnOtaStart ==
    /\ ota_timer
    /\ ota_timer' = FALSE /\ ota_url' = FALSE
    /\ upgrading' = TRUE
    /\ UNCHANGED <<conns, api_conn, wifi_vars, ota_latest_callback, ota_perform_callback,
                   ota_auto_update_checking, http, history>>

\* on_ota_finish_check(), or on_ota_start() when the download does not start:
\* in any case the device restarts.
RestartUpdated ==
    /\ upgrading \/ ota_timer
    /\ conns' = [c \in Clients |-> Conn("closed", 0)] /\ api_conn' = NoClient
    /\ scanning' = FALSE /\ scan_callback' = "NULL"
    /\ ota_latest_callback' = "NULL" /\ ota_perform_callback' = "NULL"
    /\ ota_auto_update_checking' = FALSE /\ ota_url' = FALSE /\ ota_timer' = FALSE
    /\ upgrading' = FALSE /\ http' = {}
    /\ orphaned' = FALSE /\ wrong' = FALSE /\ refused' = FALSE /\ ignored' = FALSE
    /\ UNCHANGED <<asked, scan_for, ota_for>>

AsyncNext ==
    \/ \E c \in Clients :
           \/ OnTcpConn(c) \/ OnTcpDisc(c) \/ OnOtherRequest(c) \/ OnTrailingByte(c)
           \/ GetWifi(c) \/ GetFirmware(c) \/ PatchFirmware(c) \/ PatchFirmwareBusy(c)
    \/ OnAutoScan \/ OnWifiScanDone
    \/ OtaAutoUpdateCheck \/ OnOtaLatestResponse \/ OnOtaAutoLatest \/ OnOtaHeadResponse
    \/ OnOtaStart \/ RestartUpdated

\* The SDK ends a scan, httpclient.c ends a request by its timer at the
\* latest, ota_timer fires, and a download ends (check_times).
AsyncFairness ==
    /\ WF_async_vars(OnWifiScanDone)
    /\ WF_async_vars(OnOtaLatestResponse) /\ WF_async_vars(OnOtaAutoLatest) /\ WF_async_vars(OnOtaHeadResponse)
    /\ WF_async_vars(OnOtaStart) /\ WF_async_vars(RestartUpdated)

AsyncSpec     == AsyncInit /\ [][AsyncNext]_async_vars
AsyncFairSpec == AsyncSpec /\ AsyncFairness

-----------------------------------------------------------------------------
(***************************************************************************)
(* Properties.                                                             *)
(***************************************************************************)
\* A client that waits for an asynchronous answer is the one api_conn names,
\* so it is alone and can be answered; api_conn never names a connection that
\* is gone (on_tcp_disc, api_conn_reset).
ApiConnWaits ==
    /\ \A c \in Clients : conns[c].state = "waiting" => api_conn = c
    /\ api_conn # NoClient => conns[api_conn].state \in {"waiting", "answered"}

\* Scans aside, one operation at a time: a check, a HEAD request, the wait
\* for the download or the download; and ota_busy() tells so, no longer and
\* no shorter than it lasts, but for a URL that was refused.
OtaExclusive ==
    /\ "latest" \in http => "head" \notin http
    /\ http # {} => ~ota_timer /\ ~upgrading
    /\ ota_timer => ~upgrading
    /\ (http # {} \/ ota_timer \/ upgrading) => ota_busy
    /\ ota_busy /\ ~refused => http # {} \/ ota_timer \/ upgrading

\* As long as no client leaves during the operation it has asked for, every
\* operation has its client waiting, unless it got a 400 for trailing bytes,
\* and no request gets the answer of another.
OwnAnswers ==
    ~orphaned =>
        /\ ~wrong
        /\ \A n \in Underway : api_conn # NoClient /\ conns[api_conn].asked = n

\* Every request that waits is answered or its client leaves, unless a URL
\* was refused or a PATCH /firmware ignored.
AsyncAnswered ==
    \A c \in Clients :
        (conns[c].state = "waiting" /\ ~refused /\ ~ignored) ~> (conns[c].state # "waiting" \/ refused \/ ignored)

\* Nobody ever gets the answer to somebody else's request: what cancelling
\* the response to a closed connection is meant to achieve.
RightAnswer == ~wrong

=============================================================================
