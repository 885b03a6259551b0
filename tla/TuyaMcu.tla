------------------------------ MODULE TuyaMcu ------------------------------
(***************************************************************************)
(* The driver of a Tuya MCU (peripherals/tuyamcu.c): the values of the     *)
(* ports are data points (DPs) that a second microcontroller reports over  *)
(* a serial line that loses and changes bytes.  The driver runs only when  *)
(* a port is read: update() handles at most one frame.                     *)
(***************************************************************************)
EXTENDS Integers, SequencesExt

CONSTANTS
    Dps,                \* the DPs that have a port
    Flags,              \* [Dps -> Nat]: the flags of a DP, its type in the lowest four bits
    TrueValue,          \* [Dps -> Values]: for enums treated as booleans
    DefValue,           \* [Dps -> Values \cup {NoDefault}]
    NoDefault,
    Values,             \* of a DP; a subset of Nat
    McuDps,             \* the DPs that the MCU reports: those of Dps and others
    Undefined,          \* the value of a port that is not known
    HEARTBEAT_INTERVAL, SYNC_TIMEOUT,  \* in units of time
    PollingIntervals,   \* those that the peripheral may have been given: 0 disables polling
    RestoreOnEnter, RestoreOnExit, RestoreNoInternal,    \* flags of the peripheral
    ForceCoordinated,
    MaxRx,              \* UART_BUFF_SIZE: whole frames that fit, with a part of another
    MaxIdle,            \* bound: units of time between two updates
    MaxEvents           \* bound: faults of the line, changes, resets and writes together

VARIABLES
    tuya,       \* user_data and dp_details
    rx,         \* what has come from the MCU and waits in the UART's buffer
    tx,         \* the commands on their way to the MCU
    setup_mode, \* system.c
    connected,  \* wifi_station_is_connected()
    mcu,        \* the MCU: whether it works, and its values
    idle, events

vars == <<tuya, rx, tx, setup_mode, connected, mcu, idle, events>>

-----------------------------------------------------------------------------
(* What is in the buffer: frames, and what faults of the line make of them. *)

Frame(cmd) == [cmd |-> cmd]
Report(cmd, values) == [cmd |-> cmd, values |-> values]

BadChecksum == Frame("bad")
Noise       == Frame("noise")                   \* fewer bytes than a frame, without a header
Bogus(n)    == [cmd |-> "bogus", frames |-> n]  \* a header whose length covers the next n frames

\* wait_uart_frame(), without waiting: what is left in the buffer after it, and
\* the frame that it has taken.  A header with a length that the buffer could
\* not hold is skipped.
NothingTaken == Frame("none")
\* Mutant: a header that the full buffer cannot complete is waited for.
TooLong_OffByOne(item) == item.cmd = "bogus" /\ item.frames > MaxRx
TooLong(item) == item.cmd = "bogus" /\ item.frames >= MaxRx
Whole ==
    /\ rx # <<>>
    /\ Head(rx).cmd = "noise" => Len(rx) > 1
    /\ Head(rx).cmd = "bogus" => TooLong(Head(rx)) \/ Len(rx) > Head(rx).frames

RxAfter ==
    CASE ~Whole                    -> rx
      [] Whole /\ TooLong(Head(rx)) -> <<Noise>> \o Tail(rx)
      [] Whole /\ Head(rx).cmd = "bogus" /\ ~TooLong(Head(rx)) ->
            SubSeq(rx, Head(rx).frames + 2, Len(rx))
      [] Whole /\ Head(rx).cmd # "bogus" -> Tail(rx)

\* parse_frame() refuses a frame whose checksum is wrong.
FrameTaken == IF Whole /\ Head(rx).cmd \notin {"noise", "bogus", "bad"} THEN Head(rx) ELSE NothingTaken

-----------------------------------------------------------------------------
(* A driver is a record d: tuya, with the system's setup mode and the       *)
(* commands that it sends.                                                  *)

Driver == [u |-> tuya, rx |-> RxAfter, tx |-> <<>>, setup_mode |-> setup_mode]

Put(d) == tuya' = d.u /\ rx' = d.rx /\ tx' = tx \o d.tx /\ setup_mode' = d.setup_mode

send(d, frames) == [d EXCEPT !.tx = @ \o frames]

compute_net_status(d) ==
    IF d.setup_mode THEN "SMART_CONFIG" ELSE IF connected THEN "CONNECTED_CLOUD" ELSE "AP"

\* Twice, as some MCUs appear to ignore some of these frames.
send_net_status_cmd(d, cmd) == send(d, <<Frame(cmd), Frame(cmd)>>)

DpSet(dp, value) == [cmd |-> "DP_SET", dp |-> dp, value |-> value]

\* handle_setup_mode(), as system_setup_mode_toggle() calls it: the default
\* values are written to the ports that have one.
handle_setup_mode(d, external) ==
    IF (IF d.setup_mode THEN RestoreOnEnter ELSE RestoreOnExit) /\ (external \/ ~RestoreNoInternal)
    THEN send(d, SetToSeq({DpSet(dp, DefValue[dp]) : dp \in {x \in Dps : DefValue[x] # NoDefault}}))
    ELSE d

\* A value that comes for a DP that no port shows is ignored.
process_dp_report_cmd(d, values) ==
    [d EXCEPT !.u.details = [dp \in Dps |->
        IF dp \in DOMAIN values THEN [valid |-> TRUE, value |-> values[dp]] ELSE @[dp]]]

Queries == {"NO_HEARTBEAT", "LOCAL_TIME", "SYSTEM_TIME", "MEM_INFO", "WIFI_STRENGTH", "MAC_ADDR"}

process_next_frame ==
    LET f == FrameTaken
        d == Driver
    IN  CASE f.cmd = "HEARTBEAT"      -> [d EXCEPT !.u.heartbeat_pending = FALSE]
          [] f.cmd = "RESET"          ->
                send(handle_setup_mode([d EXCEPT !.setup_mode = ~@], TRUE), <<Frame("RESET")>>)
          [] f.cmd = "DP_REPORT"      -> process_dp_report_cmd(d, f.values)
          [] f.cmd = "DP_REPORT_SYNC" ->
                send(process_dp_report_cmd(d, f.values), <<Frame("DP_CONFIRM_SYNC")>>)
          [] f.cmd = "NET_STATUS"     -> send_net_status_cmd(d, "NET_STATUS")
          [] f.cmd \in Queries        -> send(d, <<f>>)
          [] OTHER                    -> d

\* init_mcu() waits for the answers of the MCU and drops whatever else comes
\* before each.  It ends with what is in sent having been sent: without an
\* answer to its first command, to one of the next two, or to all of them.
Heartbeat == Frame("HEARTBEAT")
Initialised(d, self_setup) ==
    LET e == [d EXCEPT !.u.self_setup = self_setup /\ ~ForceCoordinated, !.u.ready = TRUE,
                       !.u.polling_age = 0, !.rx = <<>>]
    IN  send(IF e.u.self_setup THEN e ELSE send_net_status_cmd(e, "NET_STATUS_REPORT"), <<Frame("DP_QUERY")>>)

init_mcu(d) ==
    LET begun  == [d EXCEPT !.u.heartbeat_age = 0]
        failed == {[begun EXCEPT !.rx = r] : r \in {SubSeq(d.rx, i, Len(d.rx)) : i \in 1..(Len(d.rx) + 1)}}
    IN  {send(e, <<Heartbeat>>) : e \in failed}
        \cup (IF mcu.alive THEN {Initialised(begun, s) : s \in BOOLEAN} ELSE {})

\* The parts of update() after the frame, in their order.
\* Mutant: no answer is expected.
HeartbeatStep_NotPending(d) ==
    IF d.u.heartbeat_age <= HEARTBEAT_INTERVAL THEN {d}
    ELSE IF ~d.u.ready THEN init_mcu(d)
    ELSE {send([d EXCEPT !.u.heartbeat_age = 0], <<Heartbeat>>)}

HeartbeatStep(d) ==
    IF d.u.heartbeat_age <= HEARTBEAT_INTERVAL THEN {d}
    ELSE IF ~d.u.ready THEN init_mcu(d)
    ELSE {send([d EXCEPT !.u.heartbeat_pending = TRUE, !.u.heartbeat_age = 0], <<Heartbeat>>)}

TimeoutStep(d) ==
    IF d.u.heartbeat_pending /\ d.u.heartbeat_age > SYNC_TIMEOUT
    THEN [d EXCEPT !.u.heartbeat_pending = FALSE,
                   !.u.details = [dp \in Dps |-> [@[dp] EXCEPT !.valid = FALSE]]]
    ELSE d

NetStatusStep(d) ==
    IF ~d.u.self_setup /\ compute_net_status(d) # d.u.last_net_status
    THEN send_net_status_cmd([d EXCEPT !.u.last_net_status = compute_net_status(d)], "NET_STATUS_REPORT")
    ELSE d

PollStep(d) ==
    IF d.u.polling_interval > 0 /\ d.u.polling_age > d.u.polling_interval
    THEN send([d EXCEPT !.u.polling_age = 0], <<Frame("DP_QUERY")>>)
    ELSE d

-----------------------------------------------------------------------------
\* The test of read_value() and write_value() for PARAM_DP_FLAG_ENUM_AS_BOOL:
\* flags & 8.
FlagEnumAsBool(flags) == (flags \div 8) % 2 = 1

\* read_value(), after update(): the value that the port has.
read_value(dp) ==
    IF ~tuya.details[dp].valid THEN Undefined
    ELSE IF FlagEnumAsBool(Flags[dp]) THEN (IF tuya.details[dp].value = TrueValue[dp] THEN 1 ELSE 0)
    ELSE tuya.details[dp].value

-----------------------------------------------------------------------------
\* init() and make_ports(): no value is known before the MCU has reported it.
Init ==
    /\ connected = FALSE /\ setup_mode = FALSE
    /\ tuya \in {[polling_interval |-> interval,
                ready |-> FALSE, self_setup |-> FALSE, configured |-> FALSE, heartbeat_pending |-> FALSE,
                last_net_status |-> "AP",
                heartbeat_age |-> 0, polling_age |-> 0,
                details |-> [dp \in Dps |-> [valid |-> FALSE, value |-> 0]]]
                : interval \in PollingIntervals}
    /\ rx = <<>> /\ tx = <<>>
    /\ mcu \in [alive : {TRUE}, values : {[dp \in McuDps |-> v] : v \in Values}]
    /\ idle = 0 /\ events = 0

\* configure(): the first port that is enabled.
configure ==
    /\ ~tuya.configured
    /\ \E d \in init_mcu([Driver EXCEPT !.u.configured = TRUE]) : Put(d)
    /\ UNCHANGED <<connected, mcu, idle, events>>

\* update(), each time core polls an enabled port.
update ==
    /\ tuya.configured
    /\ \E d \in HeartbeatStep(process_next_frame) : Put(PollStep(NetStatusStep(TimeoutStep(d))))
    /\ idle' = 0
    /\ UNCHANGED <<connected, mcu, events>>

\* write_value() of a port that is set.
write_value(dp, value) ==
    /\ tuya.configured
    /\ events < MaxEvents /\ events' = events + 1
    /\ tx' = Append(tx, DpSet(dp, value))
    /\ UNCHANGED <<tuya, rx, setup_mode, connected, mcu, idle>>

\* Setup mode is entered or left by the button, or by the idle timer.
system_setup_mode_toggle(external) ==
    /\ events < MaxEvents /\ events' = events + 1
    /\ tuya.configured
    /\ Put(handle_setup_mode([Driver EXCEPT !.rx = rx, !.setup_mode = ~@], external))
    /\ UNCHANGED <<connected, mcu, idle>>

-----------------------------------------------------------------------------
(* The MCU and the line. *)

\* What a frame that does not fit may leave: nothing, a part of it without the
\* header, or its header with a length that covers the frame after it.
Truncated == {<<>>, <<Noise>>, <<Bogus(1)>>}

\* A frame from the MCU reaches the buffer, as it was sent or as a fault has
\* changed it.  ring_buffer_write() stores of it what fits; everything is dropped
\* before the buffer exists (handle_interrupt()).
Arrives(frame, cost) ==
    \E item \in {frame, BadChecksum, Noise} \cup {Bogus(n) : n \in 1..MaxRx} :
        LET spent == cost + (IF item = frame THEN 0 ELSE 1) IN
        /\ events + spent <= MaxEvents
        /\ events' = events + spent
        /\ rx' \in {rx \o stored : stored \in
                      CASE ~tuya.configured \/ Len(rx) > MaxRx -> {<<>>}
                        [] tuya.configured /\ Len(rx) = MaxRx  -> Truncated
                        [] tuya.configured /\ Len(rx) < MaxRx  -> {<<item>>}}

\* It takes a command and answers it; one that does not work answers nothing.
McuAnswers ==
    /\ tx # <<>>
    /\ tx' = Tail(tx)
    /\ LET c == Head(tx)
           values == IF mcu.alive /\ c.cmd = "DP_SET" THEN [mcu.values EXCEPT ![c.dp] = c.value] ELSE mcu.values
       IN  /\ mcu' = [mcu EXCEPT !.values = values]
           /\ IF mcu.alive /\ c.cmd \in {"HEARTBEAT", "DP_QUERY", "DP_SET"}
              THEN Arrives(IF c.cmd = "HEARTBEAT" THEN c ELSE Report("DP_REPORT", values), 0)
              ELSE UNCHANGED <<rx, events>>
    /\ UNCHANGED <<tuya, setup_mode, connected, idle>>

\* A value changes, and is reported, with or without asking for confirmation.
McuChanges ==
    /\ mcu.alive
    /\ \E dp \in McuDps, v \in Values, cmd \in {"DP_REPORT", "DP_REPORT_SYNC"} :
        /\ v # mcu.values[dp]
        /\ mcu' = [mcu EXCEPT !.values[dp] = v]
        /\ Arrives([cmd |-> cmd, values |-> [x \in {dp} |-> v]], 1)
    /\ UNCHANGED <<tuya, tx, setup_mode, connected, idle>>

\* Its reset button is pressed, or it asks for something.
McuAsks ==
    /\ mcu.alive
    /\ \E cmd \in {"RESET", "NET_STATUS", "MEM_INFO"} : Arrives(Frame(cmd), 1)
    /\ UNCHANGED <<tuya, tx, setup_mode, connected, mcu, idle>>

McuFails ==
    /\ mcu.alive
    /\ mcu' = [mcu EXCEPT !.alive = FALSE]
    /\ UNCHANGED <<tuya, rx, tx, setup_mode, connected, idle, events>>

WiFiChanges ==
    /\ events < MaxEvents /\ events' = events + 1
    /\ connected' = ~connected
    /\ UNCHANGED <<tuya, rx, tx, setup_mode, mcu, idle>>

\* A unit of time.  The MCU answers within one, and ports are polled often
\* enough for what it has sent to be handled within one.
AtMost(n, limit) == IF n > limit THEN limit ELSE n
Tick ==
    /\ tx = <<>> /\ ~Whole
    /\ idle < MaxIdle /\ idle' = idle + 1
    /\ tuya' = [tuya EXCEPT !.heartbeat_age = AtMost(@ + 1, HEARTBEAT_INTERVAL + 1),
                            !.polling_age = AtMost(@ + 1, tuya.polling_interval + 1)]
    /\ UNCHANGED <<rx, tx, setup_mode, connected, mcu, events>>

Next ==
    \/ configure \/ update
    \/ \E dp \in Dps, v \in Values : write_value(dp, v)
    \/ \E external \in BOOLEAN : system_setup_mode_toggle(external)
    \/ McuAnswers \/ McuChanges \/ McuAsks \/ McuFails \/ WiFiChanges \/ Tick

\* The port is enabled and polled, the MCU answers, and time passes.
Fairness == WF_vars(configure) /\ WF_vars(update) /\ WF_vars(McuAnswers) /\ WF_vars(Tick)

Spec == Init /\ [][Next]_vars /\ Fairness

-----------------------------------------------------------------------------
\* Once the line is quiet, the ports show the values of a working MCU, whatever
\* bytes were lost before: a header with a wrong length delays the frames after
\* it but cannot hold the buffer, and an answered heartbeat does not invalidate
\* values.  (init_mcu() may still fail, at each of its attempts, with a working
\* MCU: hence the condition that it has succeeded.  Polling must be enabled: with
\* an interval of 0 nothing asks again for a report that was lost, nor for the
\* values that a lost answer to a heartbeat has invalidated.)
ValuesSettle ==
    <>[](mcu.alive /\ tuya.ready /\ tuya.polling_interval # 0)
        => <>[](\A dp \in Dps : tuya.details[dp] = [valid |-> TRUE, value |-> mcu.values[dp]])

\* The ports of an MCU that no longer answers become undefined and stay so,
\* whether or not polling is enabled.
DeathNoticed ==
    <>[](~mcu.alive /\ tuya.ready) => <>[](\A dp \in Dps : ~tuya.details[dp].valid)

\* The driver's comment on read_value(): an enum that is treated as a boolean
\* has the values 0 and 1.
PARAM_DP_FLAG_ENUM_AS_BOOL(flags) == (flags \div 256) % 2 = 1
EnumsAreMapped ==
    \A dp \in Dps : PARAM_DP_FLAG_ENUM_AS_BOOL(Flags[dp]) =>
        read_value(dp) \in {Undefined, IF tuya.details[dp].value = TrueValue[dp] THEN 1 ELSE 0}
=============================================================================
