# A TLA+ model of espQToggle

espQToggle is firmware for ESP8266 chips: it exposes *ports* (pins, sensors, virtual values) over an HTTP/JSON API,
delivers events to clients that listen and to a webhook server, evaluates expressions that make ports depend on each
other, keeps its configuration in flash and updates itself over the air. This directory holds TLA+ modules that model
its core logic, the TLC configurations that check them on small instances, and theorems with proofs for TLAPS.

The firmware is **single threaded** but for interrupts: the SDK calls TCP, timer, DNS and Wi-Fi callbacks and the task
handler one at a time, and each runs to its end. So each callback is one action. What is hard is not data races but the
order of callbacks, calls that re-enter their caller, results that come when their request is gone, timers with two
meanings, queues at their limits, power failing between two flash operations, requests that fail halfway, and rules
("updates replace updates", "only the first push starts the queue", "no loop of expressions") that must survive every
sequence of legal calls. The one exception is the receive interrupt of the UART, which shares a ring buffer with its
reader.

## Reading and running

    tlc -workers 2 -config core.cfg MCCore.tla      # a run: see the table below for modules and configurations
    tlapm CoreProofs.tla                            # the proofs of a module

`PROJECT.json` lists components, runs, mutants, hazards and theorems; its `map` gives the lines of source each
definition translates. Definitions keep the names of the C functions and variables where there is one, and actions
that stand for a callback or a handler of the API are named after it (`OnTcpDisc` for `on_tcp_disc()`, `PatchValue` for
`api_patch_port_value()`). A definition named `X_Something` is `X` with a plausible mistake. Nothing uses it; put in the
place of `X`, it breaks the property that `PROJECT.json` names for it, which shows that the property can fail.

## Inventory

Paths are below `src/src/`. *State* is what lives longer than one callback.

| Component | State | Operations | Correct when | Module |
|---|---|---|---|---|
| Listen sessions (`sessions.c`) | 3 slots: id, queue of events (newest first), access level, connection, timer | create/take over, push, respond, reset, timeout, respond to all | a waiting client belongs to exactly one session, queues and responses are ordered, no event vanishes without a reason, every listener is answered, abandoned slots come free | `Sessions` |
| Events (`events.c`) | none | `event_push()` to sessions and webhooks, rendering | an event reaches those entitled to it; one about a port that is gone is dropped without harm | `Sessions`, `Webhooks` |
| HTTP front end (`client.c`) | HTTP context per connection | connection, request, disconnection, invalid request, authorisation | a request has one answer; nothing keeps a connection that is gone; a call is made only by who may make it | `HttpServer`, `Dispatch`, `Sessions`, `AsyncApi` |
| API (`api.c`) | `api_conn`, access level | one handler per call | checks come before effects, or what was done is consistent; an answer goes to its own request | `Dispatch`, `AsyncApi`, `Core`, `Storage`, `Startup`, `Config`, `Webhooks` |
| HTTP and TCP servers (`espgoodies/httpserver.c`, `tcpserver.c`) | parser state, send buffer | receive, time out, send, close | a request is handled once, as it was sent; its response is sent whole; its context comes free | `HttpServer` |
| JWT (`espgoodies/jwt.c`) | none | validate | only a token signed with the user's password is that user's | `Dispatch` |
| HTTP client (`espgoodies/httpclient.c`) | one block per request | resolve, connect, time out, parse | exactly one callback per accepted request, within the timeout | `HttpClient` implements `HttpRequests`; environment of `Webhooks`, `AsyncApi`, `Storage` |
| Firmware update (`espgoodies/ota.c`) | callbacks, URL, timers, SDK flag | check, perform, automatic check, download | one operation at a time; busy exactly while there is one | `AsyncApi` |
| Wi-Fi (`espgoodies/wifi.c`) | scan and its callback, connection state, temporary station, clients of the access point | scan, connect, reconnect, temporary station | one scan; its result goes to who asked; a lasting network is joined again | `AsyncApi` (scans), `Startup` (connections) |
| Webhooks (`webhooks.c`) | queue, retries left, timer, settings | push, process, request, response, retry | one request at a time, bounded retries, losses explained, every event settled | `Webhooks` |
| Configuration (`config.c`), flash (`espgoodies/flashcfg.c`) | two flash sectors; settings in RAM; mark and time of saving; provisioning flag | load, delayed save, forced save, factory reset, provisioning | a change that is marked is saved in the end and an orderly reset does not lose it, an erased sector is never taken for settings; what is restored is what was saved; a provisioning ends | `Config` (when), `Storage` (what) |
| Ports (`ports.c`, `virtual.c`) | registered ports, flags, values, sequence, expression, dependency mask, slot | register, enable, disable, write, add, remove, load, save | masks match expressions; one writer of a port at a time; slots unique | `Core` (values), `Storage` (identity, slots, what is saved) |
| Peripherals framework (`peripherals.c`), string pool (`stringpool.c`), device (`device.c`) | list of peripherals; pool in the image; passwords and names | create, clean up, save, load | ports of peripherals keep ids and slots; a string that does not fit harms no other | `Storage` |
| Core loop (`core.c`) | change mask, forced-evaluation mask, polling flag, time | `core_poll()`, value changes, saving, LISTEN_RESPOND | hardware follows expressions; evaluation stops; one chain of polls | `Core`, `Startup`, `Config`, `Sessions` |
| Expressions (`expr.c`) | parsed trees, state of some functions | parse, evaluate, dependencies, check for loops | loops are found and nothing else is refused | `Core` |
| Main (`user_main.c`), sleep, RTC memory (`espgoodies/sleep.c`, `rtc.c`) | start-up timers; counters that survive deep sleep | start-up, connected, ready, reset, sleep | every path leads to polling, setup mode or sleep; sleeps last as asked | `Startup` |
| System (`espgoodies/system.c`) | task queue, uptime, reset timer, setup button, reboot loop counter | post a task, reset, setup button, setup mode | a lost task does no lasting harm; only a reboot loop resets the configuration | `TaskQueue`, `Startup`, `Config` |
| Ring buffer (`espgoodies/ringbuffer.c`), UART (`drivers/uart.c`) | head, tail, length, bytes | write (in the interrupt), read, peek | a bounded queue | `RingBuffer` implements `Fifo` |
| Tuya MCU (`peripherals/tuyamcu.c`) | readiness, data points, ages of heartbeat and polling | frames, heartbeat, values, setup mode | ports show the values of a working MCU and become undefined when it dies | `TuyaMcu` |
| Other drivers, DNS server, battery, JSON, utilities | see *Not modelled* | | | |

How they interact: the TCP server feeds bytes to the HTTP parser, which hands a request to `client.c`; that authorises it and
passes it to `api.c`, or to `sessions.c` if it is a listen request. Handlers change ports, settings, webhooks and mark the
configuration for saving. `core_poll()`, a task that posts itself again, reads ports (and so runs the drivers of peripherals),
evaluates expressions, pushes value changes and saves. `event_push()` fans out to sessions, which post a LISTEN_RESPOND task, and
to webhooks, which start a request of `httpclient.c`. An OTA in progress silences events, listening and webhooks; so does a
provisioning for events; a reset or sleep answers all listeners, disables polling and saves.

## The modules

**`TaskQueue`** is the task queue of the SDK as `system.c` uses it: bounded, and a post to a full queue is lost silently.
`Sessions` and `Startup` extend it.

**`HttpServer`** has the contexts of `client.c` and, per connection, what `tcpserver.c` keeps and what the client still has to
send. A TCP segment is one callback; every byte may come in a segment of its own, the finest interleaving. The parser is a
function from a context and a byte to a context, one operator per state (`InMethod` ... `InBody`). A response is a number of
packets of `SEND_PACKET_SIZE`, of which `espconn_send()` may refuse some. A request is answered at once or later.

**`Dispatch`** is what `on_http_request()` decides: the ladder of authorisation, setup mode, busy and OTA checks, the routing
of `api_call_handle()` and the level each handler asks for. Requests are tokens (with their first fault, or a user and the
key signed with), methods, paths and flaws. The three password hashes are state, as a call sets them.

**`HttpRequests`** promises what users of the HTTP client rely on: a request is refused, or has one outcome in the end.
**`HttpClient`** is `httpclient.c`: DNS, connection, head and body to send, the buffer, disconnection, the timer; and
`free(req)`, with the uses of freed memory that the code has. It keeps the promise of `HttpRequests` for every request but one whose DNS
query fails at once: the timer of that one is in freed memory and may call its callback a second time (`TwiceOnlyIfLost`: nothing else
does). `CalledOnce` and `CalledInTime` are the safety and the liveness half of the promise, under a mapping that gives a request the outcome
of the *first* call of its callback, so a second one does not show there.

**`Sessions`** has the slots, the connections (`closed`, `refused`, `open`, `listening`, `answered`,
with the events of the response), the posted tasks, the existing ports and the modes that stop events. Its actions are
connection, disconnection, the listen request with a new or known id (with the takeover of slot 0 when no slot is free),
other requests, bytes after a request, port and device events, adding and removing a port, the task, the timer (keep-alive
or expiry), a reset and the OTA callbacks that answer everybody. An event is its number, type and port; its JSON is left
out but for the events that `event_to_json()` drops. Authentication is an input: the access level of the request.

**`Webhooks`** has the queue (oldest first), retries left, the retry timer and the pending request. The functions of
`webhooks.c` call each other and may be called back *inside* `httpclient_request()`, so `todo` names the call that the
running callback makes next, and other callbacks wait until it is `"nothing"`. `Debug` is a constant: `retries_left--` is an
argument of a debug message, and so is compiled out of the released firmware.

**`AsyncApi`** has the calls whose answer comes later (`GET /wifi`, `GET /firmware`, `PATCH /firmware`), the single
`api_conn`, the callbacks, flags and HTTP requests of `ota.c`, and the scan of `wifi.c`. Requests are numbered so that an
answer can be compared with the request whose operation it is the result of.

**`Core`** has the fields of ports that matter for values (registered, enabled, expression as text and parsed, dependency
mask, value last read, value the hardware gives, reason of the last change, sequence), the masks of `core_poll()` and the
polling and OTA modes. Bit masks of slots are sets of ports. Actions: `core_poll()` with any of the slow ports due; value
reads by the API, which poll as well; changes of inputs; each PATCH of a port (expression, value, sequence, enabled, any
other attribute, with the rewrite of the last value at its end); the sequence timer; adding and removing virtual ports; `PUT /peripherals`,
which removes the other ports, rebuilds the masks and *then* makes ports; `PUT /ports`, which removes and makes all again; OTA; restart. The
history `deaf` has the ports whose expression names a port that `PUT /peripherals` made after it rebuilt the masks. An expression is the conjunction of its ports, maybe negated: enough to chain, loop, oscillate and be undefined.

**`Config`** is *when* the configuration is saved. It has two sectors, each abstracted to the number of the change it holds,
the settings in RAM, the mark and times of delayed saving. The code does not mark every change: `ChangeSettings` does, `ChangeSettingsUnmarked`
(the name and version of the configuration, values in the first two seconds, requests that fail halfway) does not. The history `marked` is the
last change of each sector that was marked before `system_reset()`. A save is a series of flash operations, each a step, between which
only a power failure may come. It also has resets, factory resets and the start that loads the sectors or falls back to defaults.

**`Storage`** is *what* is saved: ports with id, slot, flags, names and persisted values, virtual ports, peripherals, the device
and the pins of the system; `config_save()` and `config_load()` through the image with its parts by slot and its string pool.
A call is an operator from the state in RAM to an outcome `[ram, ok]`, as calls make other calls: `PUT /ports` removes, makes
and configures ports one after the other and may fail at each; a provisioning is a sequence of such calls.

**`Startup`** is the life of the device between power-on and power-off. `ram` is what a restart loses, `rtc` what survives a
restart but not a loss of power, `flash` what survives everything. It has the start (reboot loop check, sleep counters), the
setup button and setup mode, the permanent and the temporary station, the timers of `user_main.c`, delayed resets, sleep, the
task queue with the chain of poll tasks, provisioning and OTA as far as they hold these up, and the API calls that change them.

**`Fifo`** is a bounded queue with a reader that peeks and reads; **`RingBuffer`** is `ringbuffer.c` as `uart.c` uses it, with the
interrupt's write possible between any two operations of the reader, and between the two halves of a peek. It implements `Fifo`.

**`TuyaMcu`** is `tuyamcu.c` over such a buffer, in frames: the start of the MCU, the parsing with its resynchronisation after lost
and changed bytes, heartbeats, network status, setup mode with values that are set and restored, data points read and written, with any of
the polling intervals of `PollingIntervals`, of which 0 disables polling. The MCU and the line are the environment.

**`MCNet`** (HTTP server, HTTP client and dispatch), **`MCStorage`** (`Storage` and `Config`) and **`MCDevices`** put independent
specifications into one run each; a behaviour is one of one of them, and each property is about its own.

### How the modules fit together

* `HttpClient` implements `HttpRequests`; `Webhooks` (a request ends with a response or an error, or its timer fires), `AsyncApi`
  and `Storage` (the answer to the request for a provisioning) assume no more of a request than that.
* `RingBuffer` implements `Fifo`; `TuyaMcu` reads its frames from a queue.
* `HttpServer` leaves open what a request does and when it is answered; `Dispatch` says which handler gets it, and `Sessions`,
  `AsyncApi`, `Core`, `Storage`, `Startup` what it does. The fairness of `HttpServer` that a waiting request is answered, unless it is
  `forgotten`, is what `ListenAnswered` and `AsyncAnswered` show. Bytes after a request come into `Sessions` as `OnTrailingByte`.
* `Config` says that what is marked is saved; `Storage` marks, and says what a save keeps. Each step of `Storage` that changes
  what is saved is a change of `Config`, `ChangeSettings` if it marks and `ChangeSettingsUnmarked` if it does not.
* A common state of all would be out of reach for TLC; where a module needs the state of another (`ota_busy`, polling, connected),
  it has it as a variable that an action of its own changes at any time the other module could.

## Runs

| Run | Instance | Shows |
|---|---|---|
| `sessions_safety` | 2 slots, queues of 2, 3 ids, 2 clients, 3 events | `ListenersAttached`, `EventsInOrder`, `NoLostWakeup`, `NoSilentLoss` |
| `sessions_liveness` | a task queue of one, bytes after a request, OTA, provisioning and resets | `ListenAnswered` and `AbandonedFreed` hold all the same |
| `webhooks` | queue of 2, 4 events, retries 0 and 1, every disturbance | `OneChain`, `RetryBudget` (debug build), `LossesAccounted`, `EventuallySettled` |
| `webhooks_release` | the same with `Debug` false | counterexample to `RetryBudget`: retries without end |
| `async_api` | 2 clients, 4 requests | `ApiConnWaits`, `OtaExclusive`, `OwnAnswers`, `AsyncAnswered` |
| `core` | an input, a slowly sampled output, a persisted virtual port, 4 requests or changes, peripherals removed and made again | `DepsCurrent`, `SequenceExclusive`, `LoopCheckExact`, `ExpressionsFollow`, `PortsSettle` |
| `startup` | sleeps of 75 minutes, which are two of 30 and one of 15, a task queue of 3, 2 disturbances | `SleepsAsAsked`, `OnePollChain`, `ResetOnlyInLoop`, `NetworkRegained` |
| `startup_sleep` | the same with 1 disturbance | counterexample to `NoSleepIfOff`: a sleep that nobody asked for, for ever |
| `startup_rest` | sleeps of 49 minutes, which are one of 30 and one of 19 | counterexample to `SleepsAsAsked`: the second is never slept |
| `net` | 2 connections for 2 contexts, bodies of up to 3 bytes, fields of 2, responses of 1 and 3 packets, 1 refusal; 2 requests of the HTTP client; 6 paths, 2 methods, 2 passwords, every token and flaw | `ContextsOwned`, `HandledAsSent`, `WholeResponse`, `ContextFreed`, `CalledOnce`, `CalledInTime`, `CallsEarned` |
| `storage` | 2 peripherals, 2 virtual and 1 extra slot, a pool of 7 strings, 3 requests or restarts; 4 changes of settings, marked or not, a save interval of 2 ticks, power failing anywhere | `SlotsConsistent`, `RestoredAsSaved`, `PortsRecreated`, `ProvisioningEnds`; `ChangesKept`, `NeverErased`, `EventuallySaved` |
| `devices` | a buffer of 3 bytes; 1 data point with a port and 1 without, polling on and off, 2 faults or changes | `ImplementsFifo`, `ValuesSettle`, `DeathNoticed` |

The properties are stated, with the code they are about, at the end of each module.

### Where code, comments and documentation differ

Three counterexamples are runs, and the `findings` of `PROJECT.json`, each with the line of source and the comment that says
otherwise. Seven more configurations reproduce others and are run by hand; TLC stops each with a counterexample to the
one property it checks:

| Configuration | Module | Property | What happens |
|---|---|---|---|
| `webhooks_ota.cfg` | `Webhooks` | `NoStall` | an OTA stops the processing of a queue that is not empty; as only a push to an empty queue starts it, it stays stopped (`webhooks.c:126`) |
| `webhooks_ports.cfg` | `Webhooks` | `NoStall` | the same after an event about a port that has been removed (`webhooks.c:217`) |
| `config_factory.cfg` | `Config` | `FactoryResetSticks` | the reset saves the settings in RAM over the factory reset that asked for it (`api.c:1045`) |
| `async_api_orphan.cfg` | `AsyncApi` | `RightAnswer` | a client gets the answer to the request of one that has left (`api.c:3965`, `client.c:165`) |
| `core_patch.cfg` | `MCCore` | `ExpressionsAlwaysFollow` | a PATCH of any attribute writes the value last read over what an expression has just written (`api.c:1938`) |
| `core_peripherals.cfg` | `MCCore` | `DepsComplete` | `PUT /peripherals` rebuilds the masks before it makes its ports (`api.c:2759`, 2981), so an expression that names one of them does not hear its changes; the comment of `api_post_ports()`, at `api.c:1442`, gives the reason why a new port asks for a rebuild |
| `storage_put.cfg` | `MCStorage` | `SavedOnlyIfWell` | a `PUT /ports` that fails marks for saving all the same, by the calls it made before (`api.c:1538`) |

Met while modelling, and modelled as the code has it without a configuration of their own, or left out:

* *HTTP client.* A DNS error inside `espconn_gethostbyname()` frees the request and then arms its timer (`httpclient.c:103`); the
  timer that fires during a DNS query reads a connection that is not set (440). Both are in `HttpClient`; the first may call a callback
  twice (`RequestWithoutDns`, then `TimeoutInFreedMemory`).
* *HTTP server.* Every byte after an invalid one is answered with a 400 of its own; a byte after a request restarts the parser and its
  responses mix with a later large one; paths are cut at 64 bytes; the timer of a context is cleared before it is disarmed
  (`httpserver.c:415`); a refused `espconn_send()` leaves the connection to the keep-alive. In setup mode the headers are not read
  and so a listen request is always a bad one.
* *Wi-Fi and start.* The count of clients of the access point can get negative (`system.c:523`); sleep counters
  from before a full boot are believed after it (`rtc.c:70`, `sleep.c:48`), the history `stale`; a factory reset by button cannot be
  reached from setup mode; a sleep within the 3 seconds before a reset loses the new Wi-Fi settings.
* *Storage.* A port that is virtual and integer is not restored as integer (`virtual.c:70`): the flag is never set. A
  string that does not fit leaves the offset of an earlier image (`stringpool.c:52`). A `PUT /peripherals` that fails has changed RAM and
  does not mark it (`api.c:2739`). `PATCH /system` and `PUT /provisioning` clear the name and version of the configuration without marking
  (`api.c:3168`, 3217), as a provisioning does its version (`config.c:226`): unless something else is saved, a restart brings them back. A provisioning records its version before it applies the parts, so one that fails is not tried
  again. `api_patch_system()` gives an absent LED the pin of the button. The widths in `ports.c:200` are of no consequence, as no driver
  of the repository defines attributes.
* *Tuya MCU.* `read_value()` tests bit 3 instead of bit 8 for enums as booleans (`tuyamcu.c:577`): `EnumsAreMapped` of `TuyaMcu` states
  what its comment says and TLC refutes it; `init_mcu()` sends the network status without remembering it; with ports read
  less often than the heartbeat times out, a dead MCU is never noticed (873-896), which `MaxIdle` excludes. With a polling interval of 0 a
  report that is lost is never asked for again, and after a lost answer to a heartbeat (888-895) all data points stay undefined until
  they change.

### Bounds, and why they are enough

* *Slots, queues and retries* are the real constants made small (3 slots of 16 events, 8 events for webhooks, at most 10 retries in the
  code). Two slots and three ids reach the takeover of a used slot; a queue of two reaches the drop of the oldest together with
  the replacement of a similar event, in both orders; retries 0 and 1 reach a give-up, a retry and a change between them.
* *Events, requests, changes* (`MaxEvents`, `MaxRequests`, `MaxChanges`, `Budget`) are budgets, each one more than the longest
  interaction sought: 3 events overflow a session queue of 2; 4 fill, drop from and refill the queue of the webhooks; 4
  requests to ports make a chain, disable part of it, re-enable it and change an input; 3 calls of `Storage` make, replace and
  restore a port. The budgets bound what the outside does; timers, tasks, polls and responses are not counted.
* *Disturbances of `Startup`* are counted separately from what the device does by itself. Two are enough for a setting changed
  in a wake that is cut by a loss of power, or for a button held while a client joins; and with `MaxUnexpResets` 1 for a reboot loop.
* *Limits of the parser*: `MaxBodyLen` 3 and `MaxFieldLen` 2 let one message be exactly as long as the limit, and one have a path cut.
  The messages have `CR LF` and `LF` line ends, an empty and a non-empty query, a body with a newline, and one is no request at all;
  which bytes there are is a constant, when they arrive and where they stop is not.
* *`PoolSize`* 7 is too small for some configurations and large enough for others, so both branches of `stringpool_write()` are taken.
* *Tasks*: `TaskQueueSize` 8 is never full in `sessions_safety`, which `NoLostWakeup` needs; 1 is full at once in
  `sessions_liveness`, and 3 soon in `startup`, which `OnePollChain` is about.
* *Time* in `Config` and `TuyaMcu` counts ticks up to one more than the interval; more has no further effect. In `Core` any slow port
  may be due at any poll, which covers every sampling interval. In `Startup` armed timers fire in any order.
* *`Activities`* and *`EventTypes`* choose which disturbances a run has, to keep each below five minutes; between them the
  passing runs fire every action. `Symmetry` is used in `sessions_safety` only, for ids, clients and ports, which
  nothing orders; it is not used with liveness.
* *`LoopCheckExact`* quantifies over all 512 graphs of three ports. As it does not depend on the state, it is evaluated in
  the first states only.

`CHECK_DEADLOCK FALSE` stands in the configurations of `Sessions` and `Storage`: once all is stopped, every client gone and
every session expired, or the budget of requests used up, nothing is left to do.

### Fairness

Timers of the SDK fire (session timers, the retry timer, request timeouts, sequences, the OTA timer, the timers of
`user_main.c`), posted tasks run, a callback runs to its end, packets sent and disconnections are reported, a scan and a
download end. In `HttpServer` a waiting request is answered unless it is `forgotten`: a `PATCH /firmware` whose URL is refused, or that comes during
another OTA, never is. Nothing is promised of clients, servers, DNS, networks, people or power. In `Core`, the poll task is weakly fair,
because `core_poll()` posts itself again, and each slow port is due again and again because time passes. In `TuyaMcu` the driver
runs because its port is polled, and a live MCU answers.

Fairness is weak but for tasks and the station in `Startup`: a task there is at the head of the queue only now and then, when the
others have run, so that weak fairness of each would say nothing; the queue is first-in first-out and so each comes to
its turn. `GotIp` is strongly fair because the station tries again and again, and a try succeeds if the network is there.
`EventuallySettled`, `EventuallySaved`, `PortsSettle`, `NetworkRegained`, `ValuesSettle` and `DeathNoticed` state their conditions in
the formula instead (the network stays; polling stays enabled; there is no loop of expressions; nobody meddles; the MCU is up, and for `ValuesSettle` polled).

### What a property leaves open on purpose

* `ExpressionsFollow` leaves out the ports in `stale`, a history of the cases in which the code itself lets a port depart
  from its expression: a value given by the API, a PATCH that rewrites an old value, the enabling of a dependency (which is no
  change), and a result equal to the value last read but not to the one last written, when the port is sampled slowly. The
  property says that nothing else does. `ExpressionsAlwaysFollow`, without the exceptions, is what `core_patch.cfg` refutes.
* `DepsCurrent` and `ExpressionsFollow` except, too, the ports in `deaf`, those that name a port which `PUT /peripherals` made, until a POST or
  DELETE of a port, a `PUT /ports`, a restart or a PATCH of their own expression rebuilds their masks. For these, `DepsCurrent` still says that
  the mask has no port the expression does not name. `DepsComplete`, without the exception, is what `core_peripherals.cfg` refutes.
* `LoopCheckExact` is about the search. That only giving an expression, and not enabling a port, is refused for a loop is in `Core` as the
  code has it; the test `src/test/test-cases/02-api/16-expressions/33-expressions-circular-dependency.json` is about the former.
* `OwnAnswers` ends where a client leaves during its operation; what happens then is `async_api_orphan.cfg`.
* `AsyncAnswered` exempts a refused URL and a `PATCH /firmware` during another OTA, after which the client waits until it leaves.
* `LossesAccounted` allows one event taken off the queue without a request for each drop from a full queue, which the code
  causes: the response to a dropped event is taken for the next one.
* `OnePollChain` excepts a chain that could not start because the queue was full when polling was enabled (`starved`), and the time
  between a connection that enables polling again and the restart or sleep that comes anyway.
* `SleepsAsAsked` excepts counters left from before a full boot. In `startup` the intervals are such that the rest is below 1024 seconds,
  the limit above which `sleep_init()` takes the counters for garbage (`sleep.c:50`); `startup_rest` has one that is not.
* `ChangesKept` is about the changes that were marked before `system_reset()`, with unmarked ones, saves and polls in between. The changes
  that the code does not mark (see `ChangeSettingsUnmarked`) are lost by a restart unless another save takes them along, and those made
  between `system_reset()` and the restart may be; the property promises nothing of either. A factory reset takes the marks back.
* `WholeResponse` and `ContextFreed` except a connection on which `espconn_send()` refused a packet, and bytes that are no request.
* `ContextFreed` excepts a request that is `forgotten` as well: `api_patch_firmware()` ignores that `ota_perform_url()` has refused
  (`api.c:1113`), or `httpclient_request()` the URL (`ota.c:142`), the timer of the request has been disarmed when it was handled, and so the
  context is kept until the client leaves.
* `ValuesSettle` asks for a polling interval other than 0; `DeathNoticed` holds for all.
* `RestoredAsSaved` excepts a save whose strings did not all fit.
* `CalledOnce` counts the first call of a callback. A request whose DNS query failed at once may be called back again, from a timer in freed
  memory, and the code breaks its promise there; `TwiceOnlyIfLost`, which is proved, says that no other request is.

## Proofs

The theorems hold for every value of the constants that satisfies the named assumption of each module. Each is proved from an
inductive invariant in parts, with a lemma per action or group of actions that takes the parts one by one.

* **`SessionsProofs`** (`SessionsAssumption`, `TaskQueueSizeAssumption`). `TypeCorrect`: `TypeOK`, which includes the limits
  of the event and task queues, is inductive, by lemmas on `session_push()`, the task queue and rendering. `TimersCorrect`:
  `TimerPerSession`, relative to the types. `AttachedCorrect`: `ListenersAttached`, as long as no client sends bytes after
  its request, because those make the server answer behind the back of the session. It rests on an invariant of
  *any* pair of slots and connections (`AttachedIn`), since a listen request responds, disposes and attaches within one step.
  `OrderCorrect`: `EventsInOrder` needs that the numbers in a queue fall from the newest on and are at most the count of
  events generated, that an unused slot has an empty queue, and that the deduplication leaves no event similar to the one pushed.
  `WokenWhenRoomy`: `NoLostWakeup` holds as long as `Roomy` does, that the posted tasks leave room for one more of every session. It is
  a hypothesis, as it is in the code: `sessions_push_event()` posts without looking whether the post succeeded, and the queue (of 8)
  is shared with other users of it. In `sessions_safety` it always holds. `NothingLost`: `NoSilentLoss`, under the same condition as
  `AttachedCorrect`, from a lemma per way an event may leave its queue (replaced, dropped, rendered, ended with its session).
* **`CoreProofs`** (`CoreAssumption`). `TypeOKHolds`, from `TypeInv`, which adds that the position in a sequence is within
  it, so that no value past its end is read. `SequencesExclusive`, from `PortInv`, which adds what holds of ports that are not
  registered (no expression, value or sequence) and of parsed expressions (only of enabled ports, and the text that is
  saved). `DepsAreCurrent`, with the exception of `DepsCurrent`. `PortsFollow`: `ExpressionsFollow` needs all of these: a poll that evaluates a port for the changed bits
  of its mask keeps it only if the mask has all the bits, and adding a port only because it starts without a value.
  `LoopsFound`: `LoopCheckExact`, for any finite set of ports (`CoreAssumption`) and all expressions, is about the search alone. What it visits, in as many rounds as there are ports,
  is the least set without the port itself that has what the expression and its members read (`VisitedLeast`); a loop is through the new
  expression, as there was none before, and so has its port read by a member of that set, and the members on the way there are one.
* **`WebhooksProofs`** (`WebhooksAssumption`). `WebhooksTypeCorrect`, `AlwaysOneChain`, `RetriesBounded` (for `Debug`),
  `LossesAlwaysAccounted`. The invariant: `Chain`, that one of a call, a timer and a request works on a queue that is not empty
  and what each implies of the others; `Ordered`, that the queue has increasing events that have been pushed; `Untried`, that all but the oldest were
  never requested; `Owner`, whose response a running request will be; `Accounted`, that each event taken without a request has a drop from a full queue before it; and `Budgeted`, that the attempts of
  the oldest and its retries left add up to what was granted. `Budgeted` is the only part that needs `Debug`.
* **`StorageProofs`** is about what keeps data: `Storage`, `Config` and `RingBuffer`. **`StorageLemmas`** has what it needs of `Storage`.
  * `SlotsAlwaysConsistent`, `PortsAlwaysRecreated`, `AlwaysRestoredAsSaved` (`StorageAssumption`: there are slots, room for a peripheral, and a
    string pool; `RequestsAssumption`: requests are sequences of attributes there are, the types of peripherals make ports below the virtual
    slots, without the flag of virtual ones, and no request sets a flag that only a driver gives). All three follow from one inductive
    invariant, `IInv`, because none of them is inductive: what a restart makes depends on where the ports were when they were saved.
    - `AsMade`: there is a list of ports `made`, in the order of the peripherals, in which every one of a peripheral has the slot its driver asks for or
      the first free one that *the ones before it* left, and the peripheral made fewer than it has only if no slot was left
      (`Laid`); the ports that are not virtual are those, in that order, with the same slots, peripherals and ids (`Matches`), whatever has been done to
      the others in between; and the ports have slots of their own and of their kind, which are the busy ones (`RamOk`). Without it, a restart or
      PUT /ports, which makes them again from nothing, could lay them out in other slots: `SameLayout` says that the same
      peripherals are laid out the same, so that virtual ports, or the order in which things were done, make no difference.
    - `ImageOk`: the image has every field, types of peripherals that exist, and marks as virtual only slots of virtual ports. What is loaded
      from *any* such image, one whose strings did not fit or the one of the factory included, is `AsMade` (`LoadedAsMade`).
    - `KeptInFlash`: what a restart would load is what was there to save, if all strings fitted in the pool. `SavedOk` proves it of a save: ports,
      device and peripherals write parts of the image in turn, each of which leaves those of the others alone; `Restored` proves that what is
      read back by slot is what was saved. What a port is given that nothing stores (the flags of its driver) comes from the layout.
    Every call makes of what is `AsMade` an outcome that is, with the same `made` but for PUT of peripherals, whether it is refused, ends, or fails half way,
    alone or as a part of another (`PutPortsOk`, `PutPeripheralsOk`, `ProvisioningDone`). As a call takes a list of changes, entries,
    peripherals or parts one by one, each of these is an induction over a fold, an instance of `FoldInduction`.
  * `ConfigTypeCorrect`, `ChangesAlwaysKept`, `NeverRunsErased` (`ConfigAssumption`). None
    is inductive: `Progress` relates the flash operations left of a save to the contents of the sectors they will leave, at every one of which power may
    fail; `ImagesSound` says that no image in RAM or on its way to flash has an erased sector; `SettingsHaveMarked` that the settings in RAM have every
    change that was marked, so that any save does; `WillBeSaved` that the last image on its way to flash, or flash itself, has them, or they are
    marked for saving with no reset under way. From which `ChangesKept` follows once the writes are over.
  * `PointersAlwaysAgree`: head, tail and length agree modulo the size. `BufferIsQueue`: the
    buffer implements `Fifo` (`RingBufferAssumption`), with the contents of the queue as a function of tail, length and bytes; writing and reading in up to
    two pieces map to appending and taking, and the second half of a peek to a peek, as the bytes it covers are not written meanwhile.
* **`FoldInduction`**. `FoldKeeps`: what holds at first, and after a step if before it, holds after a fold. A theorem
  with an operator as parameter cannot be applied to one, so the step and the property are constants of the module, and each
  fold has an instance. The fold of the community modules is a function chosen by its recursive equation; `FoldExists` builds that
  function for sequences of any length, from the well-foundedness of the natural numbers.
* **`StartupProofs`** (`StartupAssumption`, `TaskQueueSizeAssumption`). `StartupCorrect`: the types with `Chain` and `Counted`. `Chain` is what
  `OneChain` (`OnePollChain`) follows from: it speaks of the positions of poll tasks in the queue, adds that a
  program whose polling is disabled and that is not about to end has no poll task left (otherwise enabling would make a second chain), and is
  a predicate of any program and flag, since a step passes the program through several calls. `Counted`, that the counter in the RTC
  is valid while the device has power and never ahead of the unexpected resets in a row, gives `ErasedOnlyInLoop` (`ResetOnlyInLoop`). `SleptAsAsked`
  (`SleepsAsAsked`) needs `Slept`, that what is left to sleep is what the counters make up, that these are valid, and zero while the device
  runs. It assumes `RestsFit`, that every interval has at most 1024 whole sleeps and a rest below 1024 seconds, as one of 75
  minutes has; without it the theorem is false, which is what `startup_rest` shows.
* **`NetProofs`** (`HttpServerAssumption`, `AsyncApiAssumption`). Of `AsyncApi`: `AsyncTypeCorrect`; `ApiConnCorrect`, inductive with the
  types; `OtaExclusiveCorrect`, from `OtaConsistent`, which says which callbacks and flags of `ota.c` go with which operation;
  `OwnAnswersCorrect`, which also needs `Numbered`: two operations under way never have the number of the same request. `OnlyEarned`: `CallsEarned` holds of each step alone, from `LevelEarned`,
  that authentication gives a level only for a token with the password of that level's user or for want of a password, and `CallLevel`, that
  a call is made only at the level it asks for. `AlwaysOwned`: `ContextsOwned` is inductive with the shape of the records and
  `ClosedHasNone`, that a closed connection has no slot. `ParserKeeps` says that the parser, in any state and on any byte, neither frees a context
  nor changes its owner; `FirstIsFree` that the slot taken is one that nobody has. `HandledAsInOneGo` and `ResponsesWhole`:
  `HandledAsSent` and `WholeResponse` for messages that the parser understands when it gets their bytes in one go (`Intelligible`; `MCNet` asserts it of
  its own). What a given message is parsed to is an induction over its bytes and left to TLC; that nothing which happens between two
  bytes makes a difference is proved: `ParserAlike` says that the parser heeds neither timer nor owner, `Received` that the context of a connection
  is what it would be if there were no other, and `Whole` that a connection is answered once and has sent what is not left to be sent. `CallsBackOnceUnlessLost`: no callback is called twice but that of a
  request whose DNS query failed at once (`TwiceOnlyIfLost`), and the HTTP client implements the safety half of `HttpRequests` under the mapping to the
  first calls, step by step, from `ClientInv`: each request with what its caller was told is a *good*
  pair, in which a callback is still set only if it was not called. A pair is good on its own, so a callback that
  frees the request and a timer that fires on freed memory each only have to keep one pair good.

Only model-checked: liveness (it needs fairness and ENABLED), which includes `CalledInTime`, the properties of `TuyaMcu`, `ProvisioningEnds`
and the others of the form `~>`.

## Abstractions

* `Sessions`: the use of a freed node in the deduplication loop is not modelled; `EventsInOrder` shows why it is harmless.
* `Webhooks`: all state is in RAM, so a restart is a return to `Init`. What `httpclient.c` does after it has freed a
  request whose callback ran inside the call is in `HttpClient`; the callback inside the call is in both.
* `Config`: contents of sectors are numbers. Erasure and writing are separate steps; a write of a sector is not torn, and
  a save cut short is (`interrupted`).
* `AsyncApi`: a download that starts always ends in a restart, as `ota.c` arranges. `wifi_station_scan()` does not refuse.
* `Core`: a slot is not used again for another port; no transforms, no functions of time or with state; writes to hardware
  succeed; one attribute per PATCH (a request with several has the effect of several); the start has saved expressions for outputs
  only, and a restart those of every port. A peripheral that gives an id to a port of another kind than before is left out; what `PUT /ports`
  restores after making the ports is left to requests of their own.
* `Startup`: no durations; a timer that is armed may fire. A restart is one step that ends where `user_init()` does.
* `HttpServer`: bytes are characters of a small alphabet; the limits of the fields are one; a response is a number of packets.
* `HttpClient`: plain HTTP; a response is nothing, the status line and part of the headers, or more, or too much.
* `Dispatch`: digests do not collide; a token carries the key it was signed with.
* `Storage`: a string takes one cell of the pool, whatever its length; a save and a restart are one step (`Config` splits them).
* `TuyaMcu`: a frame is one element of the buffer; a fault of the line makes a frame with a wrong checksum, noise, or a header that swallows the
  next frames. `MaxRx` whole frames fit, and of the one after them a part that may be nothing, noise, or a header whose length covers the
  frame that follows (`Truncated`). Raw and string data points are left out.

## Not modelled, and why

* *JSON, JSON references, HTML, utilities, versions, debugging*: text in, text out; no state outlives a call. The same goes for parsing expressions and
  addresses, percent decoding, formatting attributes and their definitions.
* *Cryptography*: digests are arithmetic on bytes; what depends on them is in `Dispatch`.
* *Drivers* of GPIO, PWM, SPI, 1-Wire, and the other peripherals: registers, microsecond timing and the conversion of readings.
* *DNS server, battery*: a stateless answer in setup mode; one ADC reading.
* *The uptime* (`system.c:219`) is extended from a counter of 32 bits by looking how far it went back, which is right as long as it
  is read once within a range; that is a matter of elapsed time alone.
* *Expression functions with state or of time* (delay, hold, derivative, schedules): each is local to an expression and a function of elapsed time.
* *Blinking of the LED, CPU frequency, Wi-Fi access point selection*: no other state depends on them, but for which access point is joined.
