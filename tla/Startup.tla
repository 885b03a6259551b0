------------------------------ MODULE Startup ------------------------------
(***************************************************************************)
(* The life of the device between power-on and power-off: user_main.c with *)
(* the parts of system.c, sleep.c, rtc.c, wifi.c, core.c and config.c that *)
(* start it, connect it, put it into and out of setup mode, send it to     *)
(* sleep and restart it.                                                   *)
(*                                                                         *)
(* `ram` is what a restart loses, `rtc` what survives a restart but not    *)
(* the loss of power, `flash` what survives everything.  A restart is one  *)
(* step that ends in the state user_init() leaves behind.  Times are not   *)
(* modelled: a timer that is armed may fire; but durations of sleep are,   *)
(* in seconds.                                                             *)
(***************************************************************************)
EXTENDS TaskQueue

CONSTANTS
    MaxSleep,       \* MAX_SLEEP_DURATION
    Intervals,      \* the values of sleep_wake_interval, in seconds, 0: no sleep
    MaxUnexpResets, \* MAX_UNEXP_RESET_COUNT
    Hold, ResetHold,\* setup_button_hold, setup_button_reset_hold, in updates
    Garbage,        \* what the sleep counters of the RTC may hold at power-on
    Budget          \* bound: how many disturbances there are, see Next

ASSUME StartupAssumption ==
    /\ MaxSleep \in Nat \ {0} /\ Intervals \subseteq Nat /\ Intervals # {}
    /\ MaxUnexpResets \in Nat /\ Hold \in Nat /\ ResetHold \in Nat /\ Hold < ResetHold
    /\ Garbage \subseteq Nat \X Nat /\ Garbage # {}
    /\ Budget \in Nat

VARIABLES
    power,     \* "off", "asleep", "asleep for ever" (deep sleep with no time set), "on"
    rtc,       \* memory of the real-time clock
    flash,     \* saved settings
    ram,       \* the variables of the program
    network,   \* the configured network is in reach
    setupnet,  \* the network DEFAULT_SSID is in reach
    clients,   \* clients of the access point: how many have joined, and have an address
    button,    \* the setup button is pressed
    owed,      \* history: seconds of sleep left of the last on_sleep()
    stale,     \* history: rtc holds sleep counters from before a full boot
    crashes,   \* history: unexpected resets in a row
    starved,   \* history: the queue was full when polling was enabled
    spent      \* number of disturbances so far

world == <<network, setupnet, clients, button>>
vars  == <<power, rtc, flash, ram, world, owed, stale, crashes, starved, spent>>

NotSleeping == 0 - 1

\* sleep_init() ignores the counters from this value on: 1024 sleeps of
\* MAX_SLEEP_DURATION, but also a rest of 1024 seconds.
Invalid == 1024
Smaller(a, b) == IF a < b THEN a ELSE b

-----------------------------------------------------------------------------
(***************************************************************************)
(* Starting.  `ram` after the initialised variables of the C files, and    *)
(* user_init() with a reset for `reason`, on memories r and f.             *)
(***************************************************************************)

\* The variables as the program defines them.
Blank ==
    [ready |-> FALSE, queue |-> <<>>, timers |-> {}, polling |-> FALSE, first |-> FALSE, setup |-> FALSE,
     station |-> "off", callback |-> FALSE, link |-> "none", connecting |-> FALSE, connected |-> FALSE,
     ssid |-> FALSE, changed |-> FALSE, ap_count |-> 0, provisioning |-> FALSE, ota |-> FALSE,
     pin |-> TRUE, button |-> "IDLE", held |-> 0, interval |-> 0, sleeping |-> NotSleeping]

\* rtc_init(): light boots are those that find the magic number.
rtc_init(r) == [r EXCEPT !.magic = TRUE]

\* rtc_get_value(): nothing is read after a full boot.
rtc_get_value(r, field) == IF r.magic THEN r[field] ELSE 0

\* system_check_reboot_loop(): the number of unexpected resets in a row, and
\* whether it has become too large.
CountsAsCrash(reason) == reason = "crash"
TooManyResets(r, reason) == CountsAsCrash(reason) /\ rtc_get_value(r, "unexp") >= MaxUnexpResets
\* Forgets to start again after a reset that was expected.
system_check_reboot_loop_NeverZero(r, reason) ==
    IF CountsAsCrash(reason) THEN Smaller(rtc_get_value(r, "unexp") + 1, MaxUnexpResets + 1)
    ELSE rtc_get_value(r, "unexp")

system_check_reboot_loop(r, reason) ==
    IF CountsAsCrash(reason) THEN Smaller(rtc_get_value(r, "unexp") + 1, MaxUnexpResets + 1) ELSE 0

\* sleep_init(): how long the device goes back to sleep, 0 if it does not,
\* and the counters it leaves.
sleep_init(r) ==
    LET count == rtc_get_value(r, "count")
        rem   == rtc_get_value(r, "rem")
    IN  IF count >= Invalid \/ rem >= Invalid THEN [sleep |-> 0, count |-> r.count, rem |-> r.rem]
        ELSE IF count > 0 THEN [sleep |-> MaxSleep, count |-> count - 1, rem |-> r.rem]
        ELSE IF rem > 0 THEN [sleep |-> rem, count |-> r.count, rem |-> 0]
        ELSE [sleep |-> 0, count |-> r.count, rem |-> r.rem]

\* system_init(): the task that updates itself, and the setup button, which
\* is disabled when it is pressed at boot time.
system_init(m) ==
    [m EXCEPT !.queue = system_task_schedule(@, <<"UPDATE">>), !.pin = ~button]

\* wifi_init(), then main_init(): the timers of the connection, and the
\* station if a network is configured.
main_init(m) ==
    [m EXCEPT !.timers = @ \cup {"core polling", "setup mode"},
              !.station = IF m.ssid THEN "on" ELSE "off",
              !.callback = m.ssid]

\* user_init(), after a reset for `reason` that finds r and f.
user_init(reason, r, f) ==
    LET loop  == TooManyResets(r, reason)
        f2    == [f EXCEPT !.factory = @ \/ loop, !.interval = IF loop THEN 0 ELSE @]
        slept == sleep_init(r)
        r2    == [rtc_init(r) EXCEPT !.unexp = system_check_reboot_loop(r, reason),
                                     !.count = slept.count, !.rem = slept.rem]
        start == [Blank EXCEPT !.interval = f2.interval, !.ssid = f2.ssid]
    IN  /\ rtc' = r2 /\ flash' = f2
        /\ power' = IF slept.sleep > 0 THEN "asleep" ELSE "on"
        /\ ram' = IF slept.sleep > 0 THEN Blank ELSE main_init(system_init(start))
        /\ owed' = IF slept.sleep > 0 THEN owed - slept.sleep ELSE IF reason = "sleep" /\ ~stale THEN owed ELSE 0
        /\ stale' = (r.count + r.rem > 0 /\ (stale \/ ~r.magic))
        /\ crashes' = IF reason = "crash" THEN Smaller(crashes + 1, MaxUnexpResets + 1) ELSE 0
        /\ clients' = [joined |-> 0, ip |-> 0] /\ starved' = FALSE
        /\ UNCHANGED <<network, setupnet, button>>

-----------------------------------------------------------------------------
(***************************************************************************)
(* What the handlers are built from: they take the program's variables m   *)
(* and give them back changed.                                             *)
(***************************************************************************)
Arm(m, timer)    == [m EXCEPT !.timers = @ \cup {timer}]
Disarm(m, timer) == [m EXCEPT !.timers = @ \ {timer}]

core_enable_polling(m) ==
    IF m.polling THEN m
    ELSE [m EXCEPT !.polling = TRUE, !.queue = system_task_schedule(@, <<"POLL">>)]

\* The post of core_enable_polling() finds no room.
Starves(m) == ~m.polling /\ Len(m.queue) = TaskQueueSize

core_disable_polling(m) == [m EXCEPT !.polling = FALSE]

\* sleep_reset(): the wake duration is taken to be set whenever the interval is.
sleep_reset(m) == IF m.interval = 0 THEN Disarm(m, "sleep") ELSE Arm(m, "sleep")

\* config_start_auto_provisioning(), with a configuration name.
config_start_auto_provisioning(m) == [m EXCEPT !.provisioning = TRUE]

\* wifi_station_disable(); wifi_station_temporary_enable(DEFAULT_SSID), as
\* on_setup_mode() calls them.  The event of the disconnection comes later.
StartTemporaryStation(m) ==
    [m EXCEPT !.station = "temporary", !.callback = FALSE, !.link = "none", !.connecting = TRUE,
              !.timers = @ \cup {"temporary"}]

\* The half of system_setup_mode_toggle() that enters setup mode, with
\* wifi_ap_enable() and on_setup_mode(TRUE).
EnterSetupMode(m) == StartTemporaryStation(Arm([m EXCEPT !.setup = TRUE], "setup idle"))

\* system_reset(TRUE) with on_system_reset() of user_main.c: polling ends,
\* the configuration is saved and the restart follows by a timer.
DelayedReset(m) == Arm(core_disable_polling(m), "reset")

\* on_system_reset() of system.c: wifi_save_config(), rtc_reset() and the
\* restart.  f is what the flash holds before.
Restart(m, f) ==
    user_init("soft", [rtc EXCEPT !.magic = FALSE], [f EXCEPT !.ssid = IF m.changed THEN m.ssid ELSE @])

\* Nothing but the program's variables changes, which become m.
Becomes(m) ==
    /\ ram' = m
    /\ UNCHANGED <<power, rtc, flash, world, owed, stale, crashes, starved>>

\* Polling is enabled in m, after which the variables are m2.
EnablesPolling(m, m2) ==
    /\ ram' = m2
    /\ starved' = (starved \/ Starves(m))
    /\ UNCHANGED <<power, rtc, flash, world, owed, stale, crashes>>

system_setup_mode_toggle(m) == IF m.setup THEN Restart(m, flash) ELSE Becomes(EnterSetupMode(m))

\* The program runs; it has been told so by the SDK; a request can reach it.
On        == power = "on"
Ready     == On /\ ram.ready
Reachable == Ready /\ (ram.connected \/ clients.ip > 0)

-----------------------------------------------------------------------------
(***************************************************************************)
(* Power, sleep and resets.                                                *)
(***************************************************************************)
PowerOn ==
    /\ power = "off"
    /\ \E g \in Garbage : user_init("power", [magic |-> FALSE, unexp |-> 0, count |-> g[1], rem |-> g[2]], flash)

PowerOff ==
    /\ power # "off" /\ power' = "off" /\ ram' = Blank
    /\ owed' = 0 /\ crashes' = 0 /\ clients' = [joined |-> 0, ip |-> 0]
    /\ UNCHANGED <<rtc, flash, network, setupnet, button, stale, starved>>

\* The time of a deep sleep is over.
Wake == power = "asleep" /\ user_init("sleep", rtc, flash)

\* An exception or a watchdog; the reset pin, which also ends a deep sleep.
Crash         == On /\ user_init("crash", rtc, flash)
ExternalReset == power # "off" /\ user_init("external", rtc, flash)

\* on_system_ready(): without a network the device goes to setup mode.
OnSystemReady ==
    /\ On /\ ~ram.ready
    /\ LET m == [ram EXCEPT !.ready = TRUE]
       IN  Becomes(IF ~m.ssid /\ ~m.setup THEN EnterSetupMode(m) ELSE m)

\* Counts the sleep that begins now among those to come.
OnSleep_CountsAll ==
    /\ On /\ "sleep" \in ram.timers /\ ~ram.ota
    /\ LET count == ram.interval \div MaxSleep
           rem   == ram.interval % MaxSleep
       IN  /\ ram' = [core_disable_polling(ram) EXCEPT !.sleeping = IF count > 0 THEN MaxSleep ELSE rem]
           /\ rtc' = [rtc EXCEPT !.count = count, !.rem = IF count > 0 THEN rem ELSE 0]
           /\ owed' = ram.interval - ram'.sleeping
           /\ stale' = FALSE
           /\ UNCHANGED <<power, flash, world, crashes, starved>>

\* on_sleep(): a long sleep is made of many, counted in the RTC.  The timer
\* stays armed.
OnSleep ==
    /\ On /\ "sleep" \in ram.timers
    /\ IF ram.ota THEN Becomes(ram)
       ELSE LET count == ram.interval \div MaxSleep
                rem   == ram.interval % MaxSleep
            IN  /\ ram' = [core_disable_polling(ram) EXCEPT !.sleeping = IF count > 0 THEN MaxSleep ELSE rem]
                /\ rtc' = [rtc EXCEPT !.count = IF count > 0 THEN count - 1 ELSE 0,
                                      !.rem = IF count > 0 THEN rem ELSE 0]
                /\ owed' = ram.interval - ram'.sleeping
                /\ stale' = FALSE
                /\ UNCHANGED <<power, flash, world, crashes, starved>>

\* system_deep_sleep() takes effect.  Zero means without end.
DeepSleep ==
    /\ On /\ ram.sleeping # NotSleeping
    /\ power' = IF ram.sleeping > 0 THEN "asleep" ELSE "asleep for ever"
    /\ ram' = Blank /\ clients' = [joined |-> 0, ip |-> 0]
    /\ UNCHANGED <<rtc, flash, network, setupnet, button, owed, stale, crashes, starved>>

\* The timer of a delayed reset.
OnSystemReset == On /\ "reset" \in ram.timers /\ Restart(Disarm(ram, "reset"), flash)

-----------------------------------------------------------------------------
(***************************************************************************)
(* Tasks.                                                                  *)
(***************************************************************************)

\* The reading of the setup button at the end of update().
ReadButton(m) ==
    IF m.pin /\ button /\ m.button = "IDLE" THEN [m EXCEPT !.button = "PRESSED", !.held = 0]
    ELSE IF m.pin /\ ~button /\ m.button # "IDLE" THEN [m EXCEPT !.button = "IDLE", !.held = 0]
    ELSE m

\* update(), when the button was found pressed `held` updates ago.
update(m) ==
    IF m.button = "RESET" THEN Becomes(m)
    ELSE IF m.button # "IDLE" /\ m.held > ResetHold THEN
        /\ ram' = DelayedReset([m EXCEPT !.button = "RESET"])
        /\ flash' = [ssid |-> FALSE, interval |-> 0, factory |-> TRUE]
        /\ UNCHANGED <<power, rtc, world, owed, stale, crashes, starved>>
    ELSE IF m.button = "PRESSED" /\ m.held > Hold THEN
        IF m.setup THEN Restart(m, flash)
        ELSE Becomes(ReadButton(EnterSetupMode([m EXCEPT !.button = "TRIGGERED"])))
    ELSE Becomes(ReadButton(m))

\* TASK_ID_SYSTEM_UPDATE.
UpdateTask ==
    /\ Ready /\ ram.queue # <<>> /\ Head(ram.queue) = "UPDATE"
    /\ \E held \in {ram.held, Smaller(ram.held + 1, ResetHold + 1)} :
           /\ ram.button = "IDLE" => held = ram.held
           /\ update([ram EXCEPT !.held = held,
                                 !.queue = system_task_schedule(Tail(@), <<"UPDATE">>)])

\* Posts the task again after core_poll().
PollTask_PostsLast ==
    /\ Ready /\ ram.queue # <<>> /\ Head(ram.queue) = "POLL"
    /\ \E listeners \in {<<>>, <<"RESPOND">>} :
           /\ listeners # <<>> => Reachable
           /\ Becomes([ram EXCEPT !.queue = IF ram.polling
                                            THEN system_task_schedule(Tail(@), listeners \o <<"POLL">>)
                                            ELSE Tail(@)])

\* TASK_ID_POLL: the task is posted again before core_poll() runs, whose
\* events post `listeners` other tasks.
PollTask ==
    /\ Ready /\ ram.queue # <<>> /\ Head(ram.queue) = "POLL"
    /\ \E listeners \in {<<>>, <<"RESPOND">>} :
           /\ listeners # <<>> => Reachable
           /\ Becomes([ram EXCEPT !.queue = IF ram.polling
                                            THEN system_task_schedule(Tail(@), <<"POLL">> \o listeners)
                                            ELSE Tail(@)])

\* TASK_ID_LISTEN_RESPOND.
RespondTask ==
    /\ Ready /\ ram.queue # <<>> /\ Head(ram.queue) = "RESPOND"
    /\ Becomes([ram EXCEPT !.queue = Tail(@)])

\* An event that is not raised by core_poll() wakes a listener.
PostRespond == Reachable /\ Becomes([ram EXCEPT !.queue = system_task_schedule(@, <<"RESPOND">>)])

-----------------------------------------------------------------------------
(***************************************************************************)
(* Wi-Fi.                                                                  *)
(***************************************************************************)

\* on_wifi_connect(TRUE), the first time: polling starts, and provisioning
\* if there is a configuration name, and an update check if it is due.
FirstConnection(m, named, check) ==
    LET m2 == core_enable_polling([Disarm(m, "core polling") EXCEPT !.first = TRUE])
        m3 == IF named THEN config_start_auto_provisioning(m2) ELSE m2
    IN  [sleep_reset(m3) EXCEPT !.ota = @ \/ check]

\* EVENT_STAMODE_GOT_IP.
GotIp ==
    /\ Ready /\ ~ram.connected /\ ram.link = "none"
    /\ \/ ram.station = "on" /\ ram.ssid /\ network
       \/ ram.station = "temporary" /\ ram.connecting /\ setupnet
    /\ LET m == [Disarm(ram, "temporary") EXCEPT
                    !.connected = TRUE, !.connecting = FALSE,
                    !.link = IF ram.station = "on" THEN "network" ELSE "setupnet"]
           c == Disarm(m, "setup mode")
       IN  IF ~ram.callback THEN Becomes(m)
           ELSE IF ram.first THEN Becomes(c)
           ELSE \E named, check \in BOOLEAN : EnablesPolling(c, FirstConnection(c, named, check))

\* EVENT_STAMODE_DISCONNECTED: the link is lost, or an attempt to connect to
\* DEFAULT_SSID has failed.
Disconnected ==
    /\ Ready /\ ram.link = "none"
    /\ ram.connected \/ (ram.connecting /\ ~setupnet)
    /\ LET m == IF ram.callback /\ ram.connected THEN Arm(ram, "setup mode") ELSE ram
       IN  \E again \in IF ram.station = "temporary" THEN BOOLEAN ELSE {FALSE} :
               Becomes([m EXCEPT !.connected = FALSE, !.connecting = again \/ (@ /\ ram.connected),
                                 !.timers = IF ram.station = "temporary" THEN @ \cup {"temporary"} ELSE @])

OnTemporaryConnect ==
    /\ Ready /\ "temporary" \in ram.timers /\ Becomes([ram EXCEPT !.connecting = ~ram.connected])

\* The networks come and go; with them goes the link.
NetworkChanges ==
    /\ \/ network' = ~network /\ UNCHANGED setupnet
       \/ setupnet' = ~setupnet /\ UNCHANGED network
    /\ ram' = IF (ram.link = "network" /\ ~network') \/ (ram.link = "setupnet" /\ ~setupnet')
              THEN [ram EXCEPT !.link = "none"] ELSE ram
    /\ UNCHANGED <<power, rtc, flash, clients, button, owed, stale, crashes, starved>>

\* EVENT_SOFTAPMODE_STACONNECTED, ..._DISTRIBUTE_STA_IP, ..._STADISCONNECTED.
ClientJoins ==
    /\ Ready /\ ram.setup /\ clients' = [clients EXCEPT !.joined = @ + 1]
    /\ ram' = Disarm(ram, "temporary")
    /\ UNCHANGED <<power, rtc, flash, network, setupnet, button, owed, stale, crashes, starved>>
ClientGetsIp ==
    /\ Ready /\ ram.setup /\ clients.ip < clients.joined /\ clients' = [clients EXCEPT !.ip = @ + 1]
    /\ ram' = [ram EXCEPT !.ap_count = @ + 1]
    /\ UNCHANGED <<power, rtc, flash, network, setupnet, button, owed, stale, crashes, starved>>
ClientLeaves ==
    /\ Ready /\ clients.joined > 0
    /\ \E ip \in {clients.ip, clients.ip - 1} :
           ip \in 0..clients.joined - 1 /\ clients' = [joined |-> clients.joined - 1, ip |-> ip]
    /\ ram' = [ram EXCEPT !.ap_count = @ - 1]
    /\ UNCHANGED <<power, rtc, flash, network, setupnet, button, owed, stale, crashes, starved>>

-----------------------------------------------------------------------------
(***************************************************************************)
(* Timers of user_main.c.                                                  *)
(***************************************************************************)
OnWifiConnectTimeoutCorePolling ==
    /\ Ready /\ "core polling" \in ram.timers
    /\ LET m == Disarm(ram, "core polling") IN EnablesPolling(m, sleep_reset(core_enable_polling(m)))

OnWifiConnectTimeoutSetupMode ==
    /\ Ready /\ "setup mode" \in ram.timers
    /\ LET m == Disarm(ram, "setup mode") IN Becomes(IF m.setup THEN m ELSE EnterSetupMode(m))

\* The timer fires only once.
OnSetupModeIdleTimeout_Once ==
    /\ Ready /\ "setup idle" \in ram.timers
    /\ IF ~ram.setup \/ ram.connected \/ ram.ap_count > 0 THEN Becomes(Disarm(ram, "setup idle"))
       ELSE system_setup_mode_toggle(ram)

OnSetupModeIdleTimeout ==
    /\ Ready /\ "setup idle" \in ram.timers
    /\ IF ~ram.setup \/ ram.connected \/ ram.ap_count > 0 THEN Becomes(ram) ELSE system_setup_mode_toggle(ram)

-----------------------------------------------------------------------------
(***************************************************************************)
(* Requests, updates and the button.                                       *)
(***************************************************************************)

\* PATCH /device with a sleep interval, with Wi-Fi attributes, or with both:
\* then only the restart is arranged for.
api_patch_device(wifi, i) ==
    /\ Reachable
    /\ LET m == [ram EXCEPT !.interval = i, !.ssid = IF wifi THEN TRUE ELSE @, !.changed = @ \/ wifi]
       IN  ram' = IF wifi THEN DelayedReset(m) ELSE IF i # ram.interval THEN sleep_reset(m) ELSE m
    /\ flash' = [flash EXCEPT !.interval = i, !.factory = FALSE]
    /\ UNCHANGED <<power, rtc, world, owed, stale, crashes, starved>>

\* PUT /device: the interval becomes the one given, or none; the timer stays.
api_put_device(i) ==
    /\ Reachable
    /\ ram' = [ram EXCEPT !.interval = i]
    /\ flash' = [flash EXCEPT !.interval = i, !.factory = FALSE]
    /\ UNCHANGED <<power, rtc, world, owed, stale, crashes, starved>>

\* POST /reset.
api_post_reset(factory) ==
    /\ Reachable
    /\ ram' = DelayedReset(ram)
    /\ flash' = IF factory THEN [ssid |-> FALSE, interval |-> 0, factory |-> TRUE] ELSE flash
    /\ UNCHANGED <<power, rtc, world, owed, stale, crashes, starved>>

\* A configuration name is set: provisioning starts unless it is under way.
PatchConfigName == Reachable /\ Becomes(config_start_auto_provisioning(ram))

\* on_provisioning_config_response(): an error, or a configuration that
\* config_apply_json_provisioning() applies, maybe with a sleep interval.
OnProvisioningConfigResponse ==
    /\ Ready /\ ram.provisioning
    /\ LET m == [ram EXCEPT !.provisioning = FALSE]
       IN  \E i \in Intervals :
               /\ ram' = IF i # m.interval THEN sleep_reset([m EXCEPT !.interval = i]) ELSE m
               /\ flash' = [flash EXCEPT !.interval = i, !.factory = @ /\ i = m.interval]
    /\ UNCHANGED <<power, rtc, world, owed, stale, crashes, starved>>

\* An update starts, fails, or ends with system_reset(FALSE).
OtaStarts == Reachable /\ ~ram.ota /\ Becomes([ram EXCEPT !.ota = TRUE])
OtaFails  == Ready /\ ram.ota /\ Becomes([ram EXCEPT !.ota = FALSE])
OtaEnds   == Ready /\ ram.ota /\ Restart(core_disable_polling(ram), flash)

ToggleButton ==
    /\ button' = ~button
    /\ UNCHANGED <<power, rtc, flash, ram, network, setupnet, clients, owed, stale, crashes, starved>>

-----------------------------------------------------------------------------
Init ==
    /\ power = "off" /\ ram = Blank
    /\ rtc = [magic |-> FALSE, unexp |-> 0, count |-> 0, rem |-> 0]
    /\ flash \in [ssid : BOOLEAN, interval : Intervals, factory : {FALSE}]
    /\ network \in BOOLEAN /\ setupnet = FALSE /\ clients = [joined |-> 0, ip |-> 0] /\ button = FALSE
    /\ owed = 0 /\ stale = FALSE /\ crashes = 0 /\ starved = FALSE /\ spent = 0

\* What happens by itself, and what happens to the device.
System ==
    \/ Wake \/ OnSystemReady \/ DeepSleep \/ OnSleep \/ OnSystemReset
    \/ UpdateTask \/ PollTask \/ RespondTask \/ GotIp \/ Disconnected \/ OnTemporaryConnect
    \/ OnWifiConnectTimeoutCorePolling \/ OnWifiConnectTimeoutSetupMode \/ OnSetupModeIdleTimeout
    \/ OnProvisioningConfigResponse \/ OtaFails \/ OtaEnds \/ ClientGetsIp \/ PowerOn
    \/ power = "asleep for ever" /\ ExternalReset

Disturbance ==
    \/ PowerOff \/ Crash \/ ExternalReset \/ NetworkChanges \/ ToggleButton
    \/ ClientJoins \/ ClientLeaves \/ PostRespond \/ OtaStarts \/ PatchConfigName
    \/ \E wifi \in BOOLEAN, i \in Intervals : api_patch_device(wifi, i)
    \/ \E i \in Intervals \cup {0} : api_put_device(i)
    \/ \E factory \in BOOLEAN : api_post_reset(factory)

Next ==
    \/ System /\ UNCHANGED spent
    \/ spent < Budget /\ Disturbance /\ spent' = spent + 1

\* Timers fire, tasks run, requests end; a connection that can be made is
\* made before the 300 seconds of the timer for setup mode are over.
Fairness ==
    /\ WF_vars(Wake /\ UNCHANGED spent) /\ WF_vars(OnSystemReady /\ UNCHANGED spent)
    /\ WF_vars(DeepSleep /\ UNCHANGED spent) /\ WF_vars(OnSystemReset /\ UNCHANGED spent)
    /\ WF_vars(OnSleep /\ UNCHANGED spent) /\ WF_vars(Disconnected /\ UNCHANGED spent)
    /\ SF_vars(UpdateTask /\ UNCHANGED spent) /\ SF_vars(PollTask /\ UNCHANGED spent)
    /\ SF_vars(RespondTask /\ UNCHANGED spent)
    /\ SF_vars(GotIp /\ UNCHANGED spent)
    /\ WF_vars(OnWifiConnectTimeoutCorePolling /\ UNCHANGED spent)
    /\ WF_vars(OnWifiConnectTimeoutSetupMode /\ UNCHANGED spent)
    /\ WF_vars(OnSetupModeIdleTimeout /\ UNCHANGED spent)

Spec == Init /\ [][Next]_vars /\ Fairness

-----------------------------------------------------------------------------
(***************************************************************************)
(* Properties.                                                             *)
(***************************************************************************)
Polls == {i \in 1..Len(ram.queue) : ram.queue[i] = "POLL"}

\* A long sleep, which is a series of short ones counted in the RTC, lasts
\* exactly as long as wake_interval said when it began, and the device runs
\* only when it is over: sleep_init() and on_sleep() agree about the counters.
\* They do so for an interval whose rest after the sleeps of MAX_SLEEP_DURATION
\* is below 1024 seconds, not for any other of more than one sleep (a rest of
\* 18 minutes and more, which on_sleep() writes, is invalid to sleep_init()).
\* Counters left over from before a full boot (`stale`) are excepted.
SleepsAsAsked ==
    ~stale => /\ owed >= 0
              /\ (On /\ ram.sleeping = NotSleeping) => owed = 0

\* As long as polling is enabled there is a poll task, however many tasks
\* core_poll() posts to the full queue, and only one; unless the queue was
\* full when polling was enabled, or it is enabled again before a restart.
OnePollChain ==
    On /\ ram.polling => /\ starved \/ Polls # {}
                         /\ Cardinality(Polls) <= 1 \/ "reset" \in ram.timers \/ ram.sleeping # NotSleeping

\* A start does away with the configuration only after more than
\* MAX_UNEXP_RESET_COUNT unexpected resets in a row, whatever resets, sleeps
\* and losses of power came before (system_check_reboot_loop()).
ResetOnlyInLoop ==
    [][(power' = "on" /\ ~ram'.ready /\ flash'.factory /\ ~flash.factory) => crashes' > MaxUnexpResets]_vars

\* The environment from some point on: there is power, and nobody meddles.
Alone == power \notin {"off", "asleep for ever"} /\ clients.joined = 0 /\ ~setupnet

\* A device whose network is there to stay gets back to it, from setup mode
\* too, which gives up the network and only a restart brings it back.
NetworkRegained == <>[](Alone /\ network /\ flash.ssid) => []<>(On /\ ram.connected)

\* The device does not go to sleep when sleep mode is off.
NoSleepIfOff == [][ram'.sleeping # ram.sleeping /\ On /\ On' => ram.interval > 0]_vars
=============================================================================
