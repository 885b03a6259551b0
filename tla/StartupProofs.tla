---------------------------- MODULE StartupProofs ----------------------------
(***************************************************************************)
(* For any queue, sleeps, intervals and limits: one poll task goes on as   *)
(* long as polling is enabled, only a loop of unexpected resets erases the *)
(* configuration, and a long sleep lasts as long as it was asked to.       *)
(*                                                                         *)
(* The program's variables are a record that most handlers change only in  *)
(* fields that the properties do not look at (Calm); the others post or    *)
(* run a task, enable polling, arrange for a reset, or go to sleep.  All   *)
(* starts are user_init() on some memory.                                  *)
(***************************************************************************)
EXTENDS Startup, FiniteSetTheorems, SequenceTheorems, TLAPS

Tasks   == {"UPDATE", "POLL", "RESPOND"}
Timers  == {"core polling", "setup mode", "setup idle", "temporary", "sleep", "reset"}
Queues  == {q \in Seq(Tasks) : Len(q) <= TaskQueueSize}
Lengths == Intervals \cup {0}

\* The program's variables, the memory of the RTC, and the saved settings.
Program ==
    [ready : BOOLEAN, queue : Queues, timers : SUBSET Timers, polling : BOOLEAN, first : BOOLEAN,
     setup : BOOLEAN, station : {"off", "on", "temporary"}, callback : BOOLEAN,
     link : {"none", "network", "setupnet"}, connecting : BOOLEAN, connected : BOOLEAN,
     ssid : BOOLEAN, changed : BOOLEAN, ap_count : Int, provisioning : BOOLEAN, ota : BOOLEAN,
     pin : BOOLEAN, button : {"IDLE", "PRESSED", "TRIGGERED", "RESET"}, held : Nat,
     interval : Lengths, sleeping : Int]

Memory   == [magic : BOOLEAN, unexp : Nat, count : Nat, rem : Nat]
Settings == [ssid : BOOLEAN, interval : Lengths, factory : BOOLEAN]

Types ==
    /\ power \in {"off", "asleep", "asleep for ever", "on"}
    /\ ram \in Program /\ rtc \in Memory /\ flash \in Settings
    /\ owed \in Int /\ crashes \in Nat /\ stale \in BOOLEAN /\ starved \in BOOLEAN

-----------------------------------------------------------------------------
\* Where the poll tasks are in the queue of m; whether m is about to end.
PollsOf(m) == {i \in 1..Len(m.queue) : m.queue[i] = "POLL"}
Ending(m)  == "reset" \in m.timers \/ m.sleeping # NotSleeping

\* OnePollChain for the variables m.  Whoever disables polling ends the
\* program, so that there is no poll task left when it is enabled.
Chain(m, starving) ==
    /\ m.polling => starving \/ PollsOf(m) # {}
    /\ ~Ending(m) => /\ \A i, j \in PollsOf(m) : i = j
                     /\ ~m.polling => PollsOf(m) = {}

\* The counter in the RTC is not ahead of the unexpected resets in a row.
Counted == power # "off" => rtc.magic /\ rtc.unexp <= crashes

StartupInv == Types /\ Chain(ram, starved) /\ Counted

\* What is left of a long sleep is what the counters say, which are valid, and
\* zero while the device runs.
Slept ==
    /\ power = "off" => owed = 0
    /\ power # "off" /\ ~stale =>
           /\ owed = rtc.count * MaxSleep + rtc.rem /\ rtc.count < Invalid /\ rtc.rem < Invalid
           /\ On /\ ram.sleeping = NotSleeping => rtc.count = 0 /\ rtc.rem = 0

\* The intervals that on_sleep() and sleep_init() agree about.
RestsFit == \A i \in Lengths : i \div MaxSleep <= Invalid /\ i % MaxSleep < Invalid

\* What a step does to it, for such intervals.
KeepsSlept == RestsFit /\ Slept => Slept'

-----------------------------------------------------------------------------
(***************************************************************************)
(* The task queue.                                                         *)
(***************************************************************************)
\* What posting does: the entries that are in the queue stay where they are,
\* and the first new one is behind them if there is room.
LEMMA Posting ==
    ASSUME NEW q \in Queues, NEW new \in Seq(Tasks)
    PROVE  LET q2 == system_task_schedule(q, new)
           IN  /\ q2 \in Queues /\ Len(q) <= Len(q2)
               /\ \A i \in 1..Len(q) : q2[i] = q[i]
               /\ \A i \in (Len(q) + 1)..Len(q2) : i - Len(q) \in 1..Len(new) /\ q2[i] = new[i - Len(q)]
               /\ new # <<>> /\ Len(q) < TaskQueueSize => Len(q) < Len(q2)
<1> DEFINE all == q \o new
           n   == IF Len(all) <= TaskQueueSize THEN Len(all) ELSE TaskQueueSize
           q2  == SubSeq(all, 1, n)
<1>1. q \in Seq(Tasks) /\ Len(q) \in Nat /\ Len(q) <= TaskQueueSize /\ Len(new) \in Nat
  BY LenProperties DEF Queues
<1>2. all \in Seq(Tasks) /\ Len(all) = Len(q) + Len(new)
  BY <1>1, ConcatProperties
<1>3. \A i \in 1..Len(all) : all[i] = IF i <= Len(q) THEN q[i] ELSE new[i - Len(q)]
  BY <1>1, ConcatProperties
<1>4. n \in Nat /\ n <= Len(all) /\ n <= TaskQueueSize /\ Len(q) <= n
      /\ (Len(new) > 0 /\ Len(q) < TaskQueueSize => Len(q) < n)
  BY <1>1, <1>2, TaskQueueSizeAssumption DEF TaskQueueSizeAssumption
<1> HIDE DEF all, n
<1>5. q2 \in Seq(Tasks) /\ Len(q2) = n /\ \A i \in 1..n : q2[i] = all[i]
  <2>1. \A i \in 1..n : all[i] \in Tasks
    BY <1>2, <1>4, ElementOfSeq
  <2> QED
    BY <1>2, <1>4, <2>1, SubSeqProperties
<1>6. \A i \in 1..Len(q) : q2[i] = q[i]
  BY <1>1, <1>2, <1>3, <1>4, <1>5
<1>7. \A i \in (Len(q) + 1)..n : i - Len(q) \in 1..Len(new) /\ q2[i] = new[i - Len(q)]
  BY <1>1, <1>2, <1>3, <1>4, <1>5
<1>8. new # <<>> => Len(new) > 0
  BY EmptySeq
<1>9. system_task_schedule(q, new) = q2
  BY DEF system_task_schedule, q2, n, all
<1>10. q2 \in Queues
  BY <1>4, <1>5 DEF Queues
<1> HIDE DEF q2
<1> QED
  BY <1>1, <1>4, <1>5, <1>6, <1>7, <1>8, <1>9, <1>10

\* The queue without its head.
LEMMA Taking ==
    ASSUME NEW q \in Queues, q # <<>>
    PROVE  /\ Tail(q) \in Queues /\ Len(Tail(q)) = Len(q) - 1 /\ Len(q) \in Nat /\ Len(q) >= 1
           /\ Len(Tail(q)) < TaskQueueSize
           /\ \A i \in 1..Len(Tail(q)) : i + 1 \in 1..Len(q) /\ Tail(q)[i] = q[i + 1]
           /\ Head(q) = q[1]
<1>1. q \in Seq(Tasks) /\ Len(q) <= TaskQueueSize
  BY DEF Queues
<1>2. Tail(q) \in Seq(Tasks) /\ Len(Tail(q)) = Len(q) - 1 /\ Len(q) \in Nat /\ Len(q) >= 1
      /\ Head(q) = q[1] /\ \A i \in 1..Len(Tail(q)) : Tail(q)[i] = q[i + 1]
  BY <1>1, EmptySeq, LenProperties, HeadTailProperties
<1> QED
  BY <1>1, <1>2, TaskQueueSizeAssumption DEF Queues, TaskQueueSizeAssumption

-----------------------------------------------------------------------------
(***************************************************************************)
(* The handlers' parts.                                                    *)
(***************************************************************************)
\* m2 differs from m only in what the invariants do not look at, or in the
\* reset that has been arranged for.
Calm(m, m2) ==
    /\ m2 \in Program
    /\ m2.queue = m.queue /\ m2.polling = m.polling
    /\ m2.sleeping = m.sleeping
    /\ "reset" \in m.timers => "reset" \in m2.timers

\* Any number of calm changes make one.
LEMMA CalmTwice ==
    ASSUME NEW m, NEW m2, NEW m3, Calm(m, m2), Calm(m2, m3)
    PROVE  Calm(m, m3)
BY DEF Calm

\* The parts that are calm.
LEMMA CalmTimers ==
    ASSUME NEW m \in Program, NEW timer \in Timers
    PROVE  /\ Calm(m, m) /\ Calm(m, Arm(m, timer))
           /\ timer # "reset" => Calm(m, Disarm(m, timer))
BY DEF Calm, Program, Arm, Disarm

LEMMA CalmSleep ==
    ASSUME NEW m \in Program
    PROVE  Calm(m, sleep_reset(m))
BY CalmTimers DEF sleep_reset, Timers

LEMMA CalmProvisioning ==
    ASSUME NEW m \in Program
    PROVE  Calm(m, config_start_auto_provisioning(m))
BY DEF Calm, Program, config_start_auto_provisioning

LEMMA CalmStation ==
    ASSUME NEW m \in Program
    PROVE  Calm(m, StartTemporaryStation(m))
BY DEF Calm, Program, StartTemporaryStation, Timers

LEMMA CalmSetupMode ==
    ASSUME NEW m \in Program
    PROVE  Calm(m, EnterSetupMode(m))
<1> DEFINE m2 == [m EXCEPT !.setup = TRUE]
<1>1. Calm(m, m2)
  BY DEF Calm, Program
<1> HIDE DEF m2
<1>2. m2 \in Program
  BY <1>1 DEF Calm
<1>3. Calm(m2, Arm(m2, "setup idle"))
  BY <1>2, CalmTimers DEF Timers
<1>4. Calm(Arm(m2, "setup idle"), StartTemporaryStation(Arm(m2, "setup idle")))
  BY <1>3, CalmStation DEF Calm
<1> QED
  BY <1>1, <1>3, <1>4, CalmTwice DEF EnterSetupMode, m2

LEMMA CalmButton ==
    ASSUME NEW m \in Program
    PROVE  Calm(m, ReadButton(m))
<1>1. Calm(m, [m EXCEPT !.button = "PRESSED", !.held = 0]) /\ Calm(m, [m EXCEPT !.button = "IDLE", !.held = 0])
  BY DEF Calm, Program
<1>2. Calm(m, m)
  BY DEF Calm
<1> QED
  BY <1>1, <1>2 DEF ReadButton

\* Arranging for a reset.
LEMMA ResetArranged ==
    ASSUME NEW m \in Program
    PROVE  /\ DelayedReset(m) \in Program /\ DelayedReset(m).queue = m.queue /\ ~DelayedReset(m).polling
           /\ DelayedReset(m).sleeping = m.sleeping /\ DelayedReset(m).interval = m.interval
           /\ DelayedReset(m).ready = m.ready /\ "reset" \in DelayedReset(m).timers
BY DEF Program, DelayedReset, core_disable_polling, Arm, Timers

\* Calm changes keep the chain of poll tasks.
LEMMA CalmChain ==
    ASSUME NEW m \in Program, NEW m2, NEW starving, Calm(m, m2), Chain(m, starving)
    PROVE  Chain(m2, starving)
<1>1. PollsOf(m2) = PollsOf(m)
  BY DEF Calm, PollsOf
<1>2. Ending(m) => Ending(m2)
  BY DEF Calm, Ending
<1> QED
  BY <1>1, <1>2 DEF Chain, Calm

\* Enabling polling begins a chain, or starves.
LEMMA EnablingChain ==
    ASSUME NEW m \in Program, NEW starving \in BOOLEAN, Chain(m, starving)
    PROVE  LET m2 == core_enable_polling(m)
           IN  /\ m2 \in Program /\ m2.sleeping = m.sleeping /\ m2.interval = m.interval
               /\ Chain(m2, starving \/ Starves(m))
<1>1. CASE m.polling
  BY <1>1 DEF core_enable_polling, Starves
<1>2. CASE ~m.polling
  <2> DEFINE q  == m.queue
             q2 == system_task_schedule(q, <<"POLL">>)
             m2 == [m EXCEPT !.polling = TRUE, !.queue = q2]
  <2>1. m \in Program /\ q \in Queues
    BY DEF Program
  <2>2. <<"POLL">> \in Seq(Tasks) /\ <<"POLL">> # <<>> /\ Len(<<"POLL">>) = 1 /\ <<"POLL">>[1] = "POLL"
    BY DEF Tasks
  <2>3. /\ q2 \in Queues /\ Len(q) <= Len(q2)
        /\ \A i \in 1..Len(q) : q2[i] = q[i]
        /\ \A i \in (Len(q) + 1)..Len(q2) : i - Len(q) \in 1..1 /\ q2[i] = <<"POLL">>[i - Len(q)]
        /\ Len(q) < TaskQueueSize => Len(q) < Len(q2)
    BY <2>1, <2>2, Posting
  <2> HIDE DEF q2
  <2>4. m2 \in Program /\ m2.polling /\ m2.queue = q2 /\ m2.sleeping = m.sleeping /\ m2.interval = m.interval
        /\ m2.timers = m.timers
    BY <2>1, <2>3 DEF Program
  <2>5. Len(q) \in Nat /\ Len(q2) \in Nat /\ Len(q) <= TaskQueueSize
    BY <2>1, <2>3, LenProperties DEF Queues
  <2> HIDE DEF q, m2
  <2>6. \A i \in 1..Len(q2) : (i \in 1..Len(q) /\ q2[i] = q[i]) \/ (i = Len(q) + 1 /\ q2[i] = "POLL")
    <3> SUFFICES ASSUME NEW i \in 1..Len(q2)
                 PROVE  (i \in 1..Len(q) /\ q2[i] = q[i]) \/ (i = Len(q) + 1 /\ q2[i] = "POLL")
      OBVIOUS
    <3>1. CASE i \in 1..Len(q)
      BY <2>3, <3>1, Zenon
    <3>2. CASE i \in (Len(q) + 1)..Len(q2)
      <4>1. i - Len(q) = 1
        BY <2>3, <2>5, <3>2
      <4> QED
        BY <2>2, <2>3, <2>5, <3>2, <4>1
    <3> QED
      BY <2>5, <3>1, <3>2
  <2>7. Starves(m) \/ PollsOf(m2) # {}
    <3>1. CASE Len(q) = TaskQueueSize
      BY <1>2, <3>1 DEF Starves, q
    <3>2. CASE Len(q) < TaskQueueSize
      <4>1. Len(q) + 1 \in 1..Len(q2) /\ Len(q) + 1 \notin 1..Len(q)
        BY <2>3, <2>5, <3>2
      <4>2. q2[Len(q) + 1] = "POLL"
        BY <2>6, <4>1
      <4> QED
        BY <2>4, <4>1, <4>2 DEF PollsOf
    <3> QED
      BY <2>5, <3>1, <3>2, TaskQueueSizeAssumption DEF TaskQueueSizeAssumption
  <2>8. ~Ending(m2) => \A i, j \in PollsOf(m2) : i = j
    <3> SUFFICES ASSUME ~Ending(m2), NEW i \in PollsOf(m2)
                 PROVE  i = Len(q) + 1
      OBVIOUS
    <3>1. PollsOf(m) = {}
      BY <1>2, <2>4 DEF Chain, Ending
    <3>2. i \in 1..Len(q2) /\ q2[i] = "POLL"
      BY <2>4 DEF PollsOf
    <3>3. ~(i \in 1..Len(q) /\ q2[i] = q[i])
      BY <3>1, <3>2 DEF PollsOf, q
    <3> QED
      BY <2>6, <3>2, <3>3
  <2>9. Chain(m2, starving \/ Starves(m))
    BY <2>4, <2>7, <2>8 DEF Chain
  <2> QED
    BY <1>2, <2>4, <2>9 DEF core_enable_polling, m2, q, q2
<1> QED
  BY <1>1, <1>2 DEF Program

-----------------------------------------------------------------------------
(***************************************************************************)
(* Starting.                                                               *)
(***************************************************************************)
\* The program before its initialisation.
LEMMA BlankTyped ==
    /\ Blank \in Program /\ ~Blank.polling /\ Blank.sleeping = NotSleeping
    /\ \A starving : Chain(Blank, starving)
<1>1. <<>> \in Queues
  BY EmptySeq, TaskQueueSizeAssumption DEF Queues, TaskQueueSizeAssumption
<1>2. Blank \in Program /\ Blank.queue = <<>> /\ ~Blank.polling /\ Blank.sleeping = NotSleeping
  BY <1>1, StartupAssumption DEF Blank, Program, Lengths, NotSleeping, StartupAssumption
<1>3. PollsOf(Blank) = {}
  <2>1. Len(<<>>) = 0
    BY EmptySeq
  <2> QED
    BY <1>2, <2>1 DEF PollsOf
<1> QED
  BY <1>2, <1>3 DEF Chain

\* The program after it: its queue has the task of the system, and no poll task.
LEMMA InitialisedTyped ==
    ASSUME Types, NEW interval \in Lengths, NEW ssid \in BOOLEAN
    PROVE  LET m == main_init(system_init([Blank EXCEPT !.interval = interval, !.ssid = ssid]))
           IN  /\ m \in Program /\ ~m.polling /\ m.sleeping = NotSleeping /\ m.interval = interval
               /\ \A starving : Chain(m, starving)
<1> DEFINE start == [Blank EXCEPT !.interval = interval, !.ssid = ssid]
           q     == system_task_schedule(<<>>, <<"UPDATE">>)
           m     == main_init(system_init(start))
<1>1. Blank \in Program /\ Blank.queue = <<>> /\ ~Blank.polling /\ Blank.sleeping = NotSleeping
  BY BlankTyped DEF Blank
<1>2. /\ start \in Program /\ start.queue = <<>> /\ ~start.polling /\ start.sleeping = NotSleeping
      /\ start.interval = interval /\ start.ssid = ssid
  BY <1>1 DEF Program
<1>3. /\ q \in Queues
      /\ \A i \in 1..Len(q) : q[i] = "UPDATE"
  <2>1. <<>> \in Queues /\ Len(<<>>) = 0
    BY EmptySeq, TaskQueueSizeAssumption DEF Queues, TaskQueueSizeAssumption
  <2>2. <<"UPDATE">> \in Seq(Tasks) /\ Len(<<"UPDATE">>) = 1 /\ <<"UPDATE">>[1] = "UPDATE"
    BY DEF Tasks
  <2>3. /\ q \in Queues
        /\ \A i \in (0 + 1)..Len(q) : i - 0 \in 1..1 /\ q[i] = <<"UPDATE">>[i - 0]
    BY <2>1, <2>2, Posting
  <2>4. Len(q) \in Nat
    BY <2>3, LenProperties DEF Queues
  <2> HIDE DEF q
  <2>5. ASSUME NEW i \in 1..Len(q)
        PROVE  q[i] = "UPDATE"
    <3>1. i - 0 = 1
      BY <2>3, <2>4
    <3> QED
      BY <2>2, <2>3, <2>4, <3>1
  <2> QED
    BY <2>3, <2>5
<1> HIDE DEF start, q
<1>4. /\ system_init(start) \in Program /\ system_init(start).queue = q /\ ~system_init(start).polling
      /\ system_init(start).sleeping = NotSleeping /\ system_init(start).interval = interval
  <2>1. system_init(start) = [start EXCEPT !.queue = q, !.pin = ~button]
    BY <1>2 DEF system_init, q
  <2>2. (~button) \in BOOLEAN
    OBVIOUS
  <2> QED
    BY <1>2, <1>3, <2>1, <2>2 DEF Program
<1>5. /\ m \in Program /\ m.queue = q /\ ~m.polling /\ m.sleeping = NotSleeping /\ m.interval = interval
  BY <1>4 DEF main_init, Program, Timers
<1> HIDE DEF m
<1>6. PollsOf(m) = {}
  BY <1>3, <1>5 DEF PollsOf
<1>7. \A starving : Chain(m, starving)
  BY <1>5, <1>6 DEF Chain
<1> QED
  BY <1>5, <1>7 DEF m, start

Reasons == {"power", "sleep", "crash", "external", "soft"}

\* A start from memory r and settings f: it keeps the invariant, and erases the
\* configuration only in a loop.
LEMMA Starting ==
    ASSUME Types, NEW reason \in Reasons, NEW r \in Memory, NEW f \in Settings,
           reason = "crash" => rtc_get_value(r, "unexp") <= crashes,
           r.magic => r = rtc /\ power # "off", reason = "sleep" => r.magic,
           user_init(reason, r, f)
    PROVE  /\ StartupInv' /\ KeepsSlept
           /\ flash'.factory /\ ~f.factory => crashes' > MaxUnexpResets
<1> DEFINE loop   == TooManyResets(r, reason)
           f2     == [f EXCEPT !.factory = @ \/ loop, !.interval = IF loop THEN 0 ELSE @]
           slept  == sleep_init(r)
           unexp2 == system_check_reboot_loop(r, reason)
           r2     == [rtc_init(r) EXCEPT !.unexp = unexp2, !.count = slept.count, !.rem = slept.rem]
           start  == [Blank EXCEPT !.interval = f2.interval, !.ssid = f2.ssid]
<1>1. /\ rtc' = r2 /\ flash' = f2
      /\ power' = IF slept.sleep > 0 THEN "asleep" ELSE "on"
      /\ ram' = IF slept.sleep > 0 THEN Blank ELSE main_init(system_init(start))
      /\ owed' = IF slept.sleep > 0 THEN owed - slept.sleep ELSE IF reason = "sleep" /\ ~stale THEN owed ELSE 0
      /\ stale' = (r.count + r.rem > 0 /\ (stale \/ ~r.magic))
      /\ crashes' = IF reason = "crash" THEN Smaller(crashes + 1, MaxUnexpResets + 1) ELSE 0
      /\ starved' = FALSE
  BY DEF user_init
<1>2. /\ rtc_get_value(r, "unexp") \in Nat /\ rtc_get_value(r, "count") \in Nat /\ rtc_get_value(r, "rem") \in Nat
      /\ r.count \in Nat /\ r.rem \in Nat /\ r.magic \in BOOLEAN
  BY DEF rtc_get_value, Memory
<1>3. slept.sleep \in Nat /\ slept.count \in Nat /\ slept.rem \in Nat
  BY <1>2, StartupAssumption DEF sleep_init, Invalid, StartupAssumption
<1>4. MaxUnexpResets \in Nat /\ crashes \in Nat /\ owed \in Int /\ stale \in BOOLEAN
  BY StartupAssumption DEF StartupAssumption, Types
<1>5. unexp2 \in Nat /\ unexp2 <= crashes' /\ crashes' \in Nat
  <2>1. CASE reason = "crash"
    BY <1>1, <1>2, <1>4, <2>1 DEF system_check_reboot_loop, CountsAsCrash, Smaller
  <2>2. CASE reason # "crash"
    BY <1>1, <2>2 DEF system_check_reboot_loop, CountsAsCrash
  <2> QED
    BY <2>1, <2>2
<1>6. loop \in BOOLEAN /\ (loop => crashes' > MaxUnexpResets)
  BY <1>1, <1>2, <1>4 DEF TooManyResets, CountsAsCrash, Smaller
<1> HIDE DEF loop, unexp2
<1>13. KeepsSlept
  <2> SUFFICES ASSUME Slept
               PROVE  Slept'
    BY DEF KeepsSlept
  <2>1. rtc'.count = slept.count /\ rtc'.rem = slept.rem
    BY <1>1 DEF rtc_init, Memory
  <2>2. MaxSleep \in Nat \ {0}
    BY StartupAssumption DEF StartupAssumption
  <2>3. power' # "off" /\ (On' => slept.sleep = 0)
    BY <1>1, <1>3 DEF On
  <2>4. owed' = (IF slept.sleep > 0 THEN owed - slept.sleep ELSE IF reason = "sleep" /\ ~stale THEN owed ELSE 0)
        /\ (~stale' => r.count + r.rem = 0 \/ (~stale /\ r.magic))
    <3>1. owed' = (IF slept.sleep > 0 THEN owed - slept.sleep ELSE IF reason = "sleep" /\ ~stale THEN owed ELSE 0)
      BY <1>1
    <3>2. ~stale' => r.count + r.rem = 0 \/ (~stale /\ r.magic)
      <4>1. stale' = (r.count + r.rem > 0 /\ (stale \/ ~r.magic))
        BY <1>1
      <4>2. r.count + r.rem > 0 \/ r.count + r.rem = 0
        BY <1>2
      <4> QED
        BY <4>1, <4>2, Zenon
    <3> QED
      BY <3>1, <3>2
  <2>5. CASE ~r.magic
    <3>1. slept.sleep = 0 /\ slept.count = r.count /\ slept.rem = r.rem
      BY <2>5 DEF sleep_init, rtc_get_value, Invalid
    <3>2. ~stale' => r.count = 0 /\ r.rem = 0
      BY <1>2, <2>4, <2>5
    <3>3. owed' = 0
      BY <2>4, <2>5, <3>1
    <3> HIDE DEF slept
    <3>4. ~stale' => owed' = 0 /\ rtc'.count = 0 /\ rtc'.rem = 0
      BY <2>1, <3>1, <3>2, <3>3
    <3> QED
      BY <2>2, <2>3, <3>4 DEF Slept, Invalid
  <2>6. CASE r.magic /\ stale
    <3>1. ~stale' => r.count = 0 /\ r.rem = 0
      BY <1>2, <2>4, <2>6
    <3>2. ~stale' => slept.sleep = 0 /\ slept.count = 0 /\ slept.rem = 0
      BY <2>6, <3>1 DEF sleep_init, rtc_get_value, Invalid
    <3> HIDE DEF slept
    <3>3. ~stale' => owed' = 0 /\ rtc'.count = 0 /\ rtc'.rem = 0
      BY <2>1, <2>4, <2>6, <3>2
    <3> QED
      BY <2>2, <2>3, <3>3 DEF Slept, Invalid
  <2>7. CASE r.magic /\ ~stale
    <3>1. owed = r.count * MaxSleep + r.rem /\ r.count < Invalid /\ r.rem < Invalid
      BY <2>7 DEF Slept
    <3>2. CASE r.count > 0
      <4>1. slept.sleep = MaxSleep /\ slept.count = r.count - 1 /\ slept.rem = r.rem
        BY <1>2, <2>7, <3>1, <3>2 DEF sleep_init, rtc_get_value, Invalid
      <4> HIDE DEF slept
      <4>2. owed' = owed - MaxSleep /\ rtc'.count = r.count - 1 /\ rtc'.rem = r.rem
        BY <2>1, <2>2, <2>4, <4>1
      <4>3. owed' = (r.count - 1) * MaxSleep + r.rem
        BY <1>2, <2>2, <3>1, <4>2
      <4> QED
        BY <1>2, <2>2, <2>3, <3>1, <4>1, <4>2, <4>3 DEF Slept, Invalid
    <3>3. CASE r.count = 0 /\ r.rem > 0
      <4>1. slept.sleep = r.rem /\ slept.count = 0 /\ slept.rem = 0
        BY <1>2, <2>7, <3>1, <3>3 DEF sleep_init, rtc_get_value, Invalid
      <4> HIDE DEF slept
      <4>2. owed' = owed - r.rem /\ owed = r.rem /\ rtc'.count = 0 /\ rtc'.rem = 0
        BY <1>2, <2>1, <2>2, <2>4, <3>1, <3>3, <4>1
      <4>3. owed' = 0
        BY <1>2, <4>2
      <4> QED
        BY <2>2, <2>3, <4>2, <4>3 DEF Slept, Invalid
    <3>4. CASE r.count = 0 /\ r.rem = 0
      <4>1. slept.sleep = 0 /\ slept.count = 0 /\ slept.rem = 0
        BY <1>2, <2>7, <3>4 DEF sleep_init, rtc_get_value, Invalid
      <4> HIDE DEF slept
      <4>2. owed' = 0 /\ rtc'.count = 0 /\ rtc'.rem = 0
        BY <2>1, <2>2, <2>4, <3>1, <3>4, <4>1
      <4> QED
        BY <2>2, <2>3, <4>2 DEF Slept, Invalid
    <3> QED
      BY <1>2, <3>2, <3>3, <3>4
  <2> QED
    BY <2>5, <2>6, <2>7
<1> HIDE DEF slept
<1>7. r2 \in Memory /\ r2.magic /\ r2.unexp = unexp2
  BY <1>3, <1>5 DEF rtc_init, Memory
<1>8. f2 \in Settings /\ (f2.factory <=> f.factory \/ loop)
  BY <1>6 DEF Settings, Lengths
<1> HIDE DEF r2, f2
<1>9. start = [Blank EXCEPT !.interval = f2.interval, !.ssid = f2.ssid]
  OBVIOUS
<1> HIDE DEF start
<1>10. ram' \in Program /\ Chain(ram', starved')
  <2>1. f2.interval \in Lengths /\ f2.ssid \in BOOLEAN
    BY <1>8 DEF Settings
  <2>2. main_init(system_init(start)) \in Program /\ \A starving : Chain(main_init(system_init(start)), starving)
    BY <1>9, <2>1, InitialisedTyped
  <2> QED
    BY <1>1, <2>2, BlankTyped
<1>11. Types'
  <2>1. owed' \in Int /\ stale' \in BOOLEAN /\ starved' \in BOOLEAN
    <3>1. owed - slept.sleep \in Int
      BY <1>3, <1>4
    <3>2. owed' \in Int
      BY <1>1, <1>4, <3>1
    <3> QED
      BY <1>1, <3>2
  <2>2. power' \in {"off", "asleep", "asleep for ever", "on"}
    BY <1>1
  <2> QED
    BY <1>1, <1>5, <1>7, <1>8, <1>10, <2>1, <2>2 DEF Types
<1>12. Counted'
  BY <1>1, <1>5, <1>7 DEF Counted
<1> QED
  BY <1>1, <1>6, <1>8, <1>10, <1>11, <1>12, <1>13 DEF StartupInv

-----------------------------------------------------------------------------
(***************************************************************************)
(* The actions.                                                            *)
(***************************************************************************)
\* What every step does: it keeps the invariants, and if it is a start, it
\* erases the configuration only in a loop.
Fine ==
    /\ StartupInv' /\ KeepsSlept
    /\ power' = "on" /\ ~ram'.ready /\ flash'.factory /\ ~flash.factory => crashes' > MaxUnexpResets

\* Steps that neither begin nor end a sleep.
LEMMA SleptSteps ==
    ASSUME ram'.sleeping = ram.sleeping, UNCHANGED <<power, rtc, owed, stale>>
    PROVE  KeepsSlept
BY DEF KeepsSlept, Slept, On

\* Steps that change nothing but the program's variables, and keep the chain.
LEMMA ChainSteps ==
    ASSUME StartupInv, ram' \in Program, Chain(ram', starved), ram'.sleeping = ram.sleeping,
           UNCHANGED <<power, rtc, flash, owed, stale, crashes, starved>>
    PROVE  Fine
<1>1. Types'
  BY DEF StartupInv, Types
<1>2. Counted'
  BY DEF StartupInv, Counted
<1>3. ~(flash'.factory /\ ~flash.factory)
  OBVIOUS
<1> QED
  BY <1>1, <1>2, <1>3, SleptSteps DEF StartupInv, Fine

\* Steps that change nothing that matters.
LEMMA CalmSteps ==
    ASSUME StartupInv, Calm(ram, ram'),
           UNCHANGED <<power, rtc, flash, owed, stale, crashes, starved>>
    PROVE  Fine
BY ChainSteps, CalmChain DEF StartupInv, Types, Calm

LEMMA CalmBecomes ==
    ASSUME StartupInv, NEW m, Calm(ram, m), Becomes(m)
    PROVE  Fine
BY CalmSteps DEF Becomes

\* A restart by the program itself.
LEMMA RestartFine ==
    ASSUME StartupInv, NEW m \in Program, Restart(m, flash)
    PROVE  Fine
<1> DEFINE r == [rtc EXCEPT !.magic = FALSE]
           f == [flash EXCEPT !.ssid = IF m.changed THEN m.ssid ELSE @]
<1>1. r \in Memory /\ f \in Settings /\ f.factory = flash.factory /\ ~r.magic
  BY DEF StartupInv, Types, Memory, Settings, Program
<1>2. user_init("soft", r, f)
  BY DEF Restart
<1> HIDE DEF r, f
<1> QED
  BY <1>1, <1>2, Starting DEF Reasons, Fine, StartupInv

\* Starts that are not the program's.
LEMMA StartsFine ==
    ASSUME StartupInv, PowerOn \/ Wake \/ Crash \/ ExternalReset
    PROVE  Fine
<1>1. Types /\ rtc \in Memory /\ flash \in Settings
  BY DEF StartupInv, Types
<1>2. ASSUME NEW reason \in Reasons, NEW r \in Memory, user_init(reason, r, flash),
             reason = "crash" => rtc_get_value(r, "unexp") <= crashes,
             r.magic => r = rtc /\ power # "off", reason = "sleep" => r.magic
      PROVE  Fine
  BY <1>1, <1>2, Starting DEF Fine
<1>3. CASE PowerOn
  <2>1. PICK g \in Garbage : user_init("power", [magic |-> FALSE, unexp |-> 0, count |-> g[1], rem |-> g[2]], flash)
    BY <1>3 DEF PowerOn
  <2>2. /\ [magic |-> FALSE, unexp |-> 0, count |-> g[1], rem |-> g[2]] \in Memory
        /\ ~[magic |-> FALSE, unexp |-> 0, count |-> g[1], rem |-> g[2]].magic
    BY StartupAssumption DEF StartupAssumption, Memory
  <2> QED
    BY <1>2, <2>1, <2>2 DEF Reasons
<1>4. CASE Wake \/ ExternalReset
  <2>1. power # "off" /\ rtc.magic
    BY <1>4 DEF Wake, ExternalReset, StartupInv, Counted
  <2> QED
    BY <1>1, <1>2, <1>4, <2>1 DEF Wake, ExternalReset, Reasons
<1>5. CASE Crash
  <2>1. rtc.magic /\ rtc.unexp <= crashes /\ power # "off"
    BY <1>5 DEF Crash, On, StartupInv, Counted
  <2>2. rtc_get_value(rtc, "unexp") <= crashes
    BY <2>1 DEF rtc_get_value
  <2> QED
    BY <1>1, <1>2, <1>5, <2>1, <2>2 DEF Crash, Reasons
<1> QED
  BY <1>3, <1>4, <1>5

\* The device stops.
LEMMA StopsFine ==
    ASSUME StartupInv, PowerOff \/ DeepSleep
    PROVE  Fine
<1>1. /\ ram' = Blank /\ power' \in {"off", "asleep", "asleep for ever"}
      /\ UNCHANGED <<rtc, flash, stale, starved>>
      /\ owed' \in {0, owed} /\ crashes' \in {0, crashes}
  BY DEF PowerOff, DeepSleep
<1>2. power' # "off" => crashes' = crashes /\ power = "on"
  BY DEF PowerOff, DeepSleep, On
<1>3. Types'
  <2>1. owed' \in Int /\ crashes' \in Nat
    <3>1. owed \in Int /\ crashes \in Nat
      BY DEF StartupInv, Types
    <3>2. owed' = 0 \/ owed' = owed
      BY <1>1
    <3>3. crashes' = 0 \/ crashes' = crashes
      BY <1>1
    <3>4. owed' \in Int
      BY <3>1, <3>2
    <3>5. crashes' \in Nat
      BY <3>1, <3>3
    <3> QED
      BY <3>4, <3>5
  <2>2. rtc' \in Memory /\ flash' \in Settings /\ stale' \in BOOLEAN /\ starved' \in BOOLEAN
    BY <1>1 DEF StartupInv, Types
  <2> QED
    BY <1>1, <2>1, <2>2, BlankTyped DEF Types
<1>4. Chain(ram', starved')
  BY <1>1, BlankTyped
<1>5. Counted'
  BY <1>1, <1>2 DEF StartupInv, Counted
<1>6. KeepsSlept
  <2>1. CASE PowerOff
    BY <2>1 DEF PowerOff, KeepsSlept, Slept
  <2>2. CASE DeepSleep
    BY <2>2 DEF DeepSleep, KeepsSlept, Slept, On
  <2> QED
    BY <2>1, <2>2
<1> QED
  BY <1>1, <1>3, <1>4, <1>5, <1>6 DEF StartupInv, Fine

\* Polling ends because the program is to end.
LEMMA EndingFine ==
    ASSUME StartupInv, ram' \in Program, ~ram'.polling, Ending(ram'),
           rtc' \in Memory, UNCHANGED <<power, crashes, starved>>,
           rtc'.magic = rtc.magic, rtc'.unexp = rtc.unexp,
           owed' \in Int, stale' \in BOOLEAN, flash' \in Settings,
           flash'.factory => flash.factory \/ ram'.ready,
           KeepsSlept
    PROVE  Fine
<1>1. Types'
  BY DEF StartupInv, Types
<1>2. Chain(ram', starved')
  BY DEF Chain
<1>3. Counted'
  BY DEF StartupInv, Counted
<1> QED
  BY <1>1, <1>2, <1>3 DEF StartupInv, Fine

\* on_sleep() leaves counters that sleep_init() agrees about.
LEMMA SleepFine ==
    ASSUME StartupInv, OnSleep
    PROVE  Fine
<1>1. CASE ram.ota
  <2>1. Calm(ram, ram)
    BY DEF Calm, StartupInv, Types
  <2> QED
    BY <1>1, <2>1, CalmBecomes DEF OnSleep
<1>2. CASE ~ram.ota
  <2> DEFINE count == ram.interval \div MaxSleep
             rem   == ram.interval % MaxSleep
             long  == IF count > 0 THEN MaxSleep ELSE rem
  <2>1. ram \in Program /\ rtc \in Memory /\ owed \in Int /\ ram.interval \in Nat
    <3>1. ram \in Program /\ rtc \in Memory /\ owed \in Int
      BY DEF StartupInv, Types
    <3>2. ram.interval \in Lengths
      BY <3>1 DEF Program
    <3>3. Lengths \subseteq Nat
      BY StartupAssumption DEF Lengths, StartupAssumption
    <3> QED
      BY <3>1, <3>2, <3>3
  <2>2. count \in Nat /\ rem \in Nat /\ MaxSleep \in Nat /\ ram.interval = MaxSleep * count + rem
    <3>1. MaxSleep \in Nat \ {0}
      BY StartupAssumption DEF StartupAssumption
    <3>2. \A i \in Nat : i \div MaxSleep \in Nat /\ i % MaxSleep \in Nat /\ i = MaxSleep * (i \div MaxSleep) + (i % MaxSleep)
      BY <3>1
    <3> QED
      BY <2>1, <3>1, <3>2
  <2>10. RestsFit => count <= Invalid /\ rem < Invalid
    <3>1. ram.interval \in Lengths
      BY <2>1 DEF Program
    <3> QED
      BY <3>1 DEF RestsFit
  <2>3. /\ ram' = [core_disable_polling(ram) EXCEPT !.sleeping = long]
        /\ rtc' = [rtc EXCEPT !.count = IF count > 0 THEN count - 1 ELSE 0, !.rem = IF count > 0 THEN rem ELSE 0]
        /\ owed' = ram.interval - ram'.sleeping /\ stale' = FALSE
        /\ UNCHANGED <<power, flash, crashes, starved>>
    BY <1>2 DEF OnSleep
  <2> HIDE DEF count, rem
  <2>4. long \in Nat /\ (IF count > 0 THEN count - 1 ELSE 0) \in Nat /\ (IF count > 0 THEN rem ELSE 0) \in Nat
    BY <2>2
  <2> HIDE DEF long
  <2>5. ram' \in Program /\ ~ram'.polling /\ ram'.sleeping = long
    <3>1. core_disable_polling(ram) \in Program /\ ~core_disable_polling(ram).polling
      BY <2>1 DEF Program, core_disable_polling
    <3> QED
      BY <2>3, <2>4, <3>1 DEF Program
  <2>6. rtc' \in Memory /\ rtc'.magic = rtc.magic /\ rtc'.unexp = rtc.unexp
    BY <2>1, <2>3, <2>4 DEF Memory
  <2>7. Ending(ram')
    BY <2>4, <2>5 DEF Ending, NotSleeping
  <2>8. owed' \in Int
    BY <2>1, <2>3, <2>4, <2>5
  <2>9. flash' \in Settings
    BY <2>3 DEF StartupInv, Types
  <2>11. KeepsSlept
    <3> SUFFICES ASSUME RestsFit
                 PROVE  Slept'
      BY DEF KeepsSlept
    <3>1. ~(ram'.sleeping = NotSleeping)
      BY <2>4, <2>5 DEF NotSleeping
    <3>2. power # "off"
      BY DEF OnSleep, On
    <3>3. CASE count > 0
      <4>1. rtc'.count = count - 1 /\ rtc'.rem = rem /\ owed' = ram.interval - MaxSleep
        BY <2>1, <2>3, <2>5, <3>3 DEF long, Memory
      <4>2. owed' = (count - 1) * MaxSleep + rem
        BY <2>1, <2>2, <4>1
      <4> QED
        BY <2>2, <2>3, <2>10, <3>1, <3>2, <3>3, <4>1, <4>2 DEF Slept, Invalid
    <3>4. CASE count = 0
      <4>1. rtc'.count = 0 /\ rtc'.rem = 0 /\ owed' = ram.interval - rem
        BY <2>1, <2>3, <2>5, <3>4 DEF long, Memory
      <4>2. owed' = rtc'.count * MaxSleep + rtc'.rem
        <5>1. owed' = 0
          BY <2>1, <2>2, <3>4, <4>1
        <5>2. 0 * MaxSleep + 0 = 0
          BY <2>2
        <5> QED
          BY <4>1, <5>1, <5>2
      <4>3. rtc'.count < Invalid /\ rtc'.rem < Invalid /\ power' # "off"
        BY <2>3, <3>2, <4>1 DEF Invalid
      <4> QED
        BY <3>1, <4>2, <4>3 DEF Slept
    <3> QED
      BY <2>2, <3>3, <3>4
  <2> QED
    BY <2>3, <2>5, <2>6, <2>7, <2>8, <2>9, <2>11, EndingFine
<1> QED
  BY <1>1, <1>2

\* Polling is enabled.
LEMMA EnablingFine ==
    ASSUME StartupInv, NEW m, NEW m1, NEW m2, Calm(ram, m), Calm(m, m1), Calm(core_enable_polling(m1), m2),
           EnablesPolling(m, m2)
    PROVE  Fine
<1>1. /\ ram' = m2 /\ starved' = (starved \/ Starves(m))
      /\ UNCHANGED <<power, rtc, flash, owed, stale, crashes>>
  BY DEF EnablesPolling
<1>2. m \in Program /\ m1 \in Program /\ m2 \in Program /\ ram \in Program /\ starved \in BOOLEAN
  BY DEF Calm, StartupInv, Types
<1>3. Chain(m1, starved)
  BY <1>2, CalmTwice, CalmChain DEF StartupInv
<1>4. Starves(m1) = Starves(m)
  BY DEF Starves, Calm
<1>5. core_enable_polling(m1) \in Program /\ Chain(core_enable_polling(m1), starved \/ Starves(m))
  BY <1>2, <1>3, <1>4, EnablingChain
<1>6. Chain(ram', starved')
  BY <1>1, <1>5, CalmChain
<1>7. Types'
  BY <1>1, <1>2 DEF StartupInv, Types
<1>8. Counted'
  BY <1>1 DEF StartupInv, Counted
<1>9. ~(flash'.factory /\ ~flash.factory)
  BY <1>1
<1>10. KeepsSlept
  <2>1. core_enable_polling(m1).sleeping = m1.sleeping
    BY <1>2, <1>3, EnablingChain
  <2>2. ram'.sleeping = ram.sleeping
    BY <1>1, <2>1 DEF Calm
  <2> QED
    BY <1>1, <2>2, SleptSteps
<1> QED
  BY <1>6, <1>7, <1>8, <1>9, <1>10 DEF StartupInv, Fine

\* The network is connected.
LEMMA GotIpFine ==
    ASSUME StartupInv, GotIp
    PROVE  Fine
<1> DEFINE m == [Disarm(ram, "temporary") EXCEPT
                    !.connected = TRUE, !.connecting = FALSE,
                    !.link = IF ram.station = "on" THEN "network" ELSE "setupnet"]
           c == Disarm(m, "setup mode")
<1>1. ram \in Program
  BY DEF StartupInv, Types
<1>2. Calm(ram, Disarm(ram, "temporary")) /\ Disarm(ram, "temporary") \in Program
  BY <1>1, CalmTimers DEF Timers, Calm
<1>3. Calm(Disarm(ram, "temporary"), m)
  BY <1>2 DEF Calm, Program
<1>4. Calm(ram, m) /\ m \in Program
  BY <1>2, <1>3, CalmTwice DEF Calm
<1>5. \/ Becomes(m) \/ Becomes(c)
      \/ \E named, check \in BOOLEAN : EnablesPolling(c, FirstConnection(c, named, check))
  BY DEF GotIp
<1> HIDE DEF m
<1>6. Calm(m, c) /\ Calm(ram, c) /\ c \in Program
  BY <1>4, CalmTimers, CalmTwice DEF Timers, Calm
<1> HIDE DEF c
<1>7. ASSUME NEW named \in BOOLEAN, NEW check \in BOOLEAN, EnablesPolling(c, FirstConnection(c, named, check))
      PROVE  Fine
  <2> DEFINE c1 == [Disarm(c, "core polling") EXCEPT !.first = TRUE]
             m2 == core_enable_polling(c1)
             m3 == IF named THEN config_start_auto_provisioning(m2) ELSE m2
             m4 == sleep_reset(m3)
             m5 == [m4 EXCEPT !.ota = @ \/ check]
  <2>1. FirstConnection(c, named, check) = m5
    BY DEF FirstConnection
  <2>2. Calm(c, Disarm(c, "core polling")) /\ Disarm(c, "core polling") \in Program
    BY <1>6, CalmTimers DEF Timers, Calm
  <2>3. Calm(Disarm(c, "core polling"), c1)
    BY <2>2 DEF Calm, Program
  <2> HIDE DEF c1
  <2>4. Calm(c, c1) /\ c1 \in Program
    BY <2>2, <2>3, CalmTwice DEF Calm
  <2>5. Calm(ram, c1)
    BY <1>6, <2>4, CalmTwice
  <2>6. Chain(c1, starved)
    BY <1>1, <2>5, CalmChain DEF StartupInv
  <2>7. m2 \in Program
    BY <2>4, <2>6, EnablingChain DEF StartupInv, Types
  <2> HIDE DEF m2
  <2>8. Calm(m2, m3) /\ m3 \in Program
    BY <2>7, CalmProvisioning, CalmTimers DEF Calm
  <2> HIDE DEF m3
  <2>9. Calm(m3, m4) /\ m4 \in Program
    BY <2>8, CalmSleep DEF Calm
  <2> HIDE DEF m4
  <2>10. Calm(m4, m5)
    BY <2>9 DEF Calm, Program
  <2>11. Calm(m2, m5)
    BY <2>8, <2>9, <2>10, CalmTwice
  <2> HIDE DEF m5
  <2> QED
    BY <1>6, <1>7, <2>1, <2>4, <2>11, EnablingFine DEF m2
<1> QED
  BY <1>4, <1>5, <1>6, <1>7, CalmBecomes

\* Too long without one.
LEMMA CorePollingFine ==
    ASSUME StartupInv, OnWifiConnectTimeoutCorePolling
    PROVE  Fine
<1> DEFINE m  == Disarm(ram, "core polling")
           m2 == core_enable_polling(m)
<1>1. ram \in Program /\ EnablesPolling(m, sleep_reset(m2))
  BY DEF StartupInv, Types, OnWifiConnectTimeoutCorePolling
<1>2. Calm(ram, m) /\ Calm(m, m) /\ m \in Program
  BY <1>1, CalmTimers DEF Timers, Calm
<1> HIDE DEF m
<1>3. Chain(m, starved)
  BY <1>1, <1>2, CalmChain DEF StartupInv
<1>4. m2 \in Program
  BY <1>2, <1>3, EnablingChain DEF StartupInv, Types
<1>5. Calm(m2, sleep_reset(m2))
  BY <1>4, CalmSleep
<1> QED
  BY <1>1, <1>2, <1>5, EnablingFine

-----------------------------------------------------------------------------
(***************************************************************************)
(* The tasks.                                                              *)
(***************************************************************************)
\* The poll tasks of the queue q are those of q2, k places further back.
Moved(q, q2, k) ==
    /\ \A i \in 1..Len(q2) : q2[i] = "POLL" => i + k \in 1..Len(q) /\ q[i + k] = "POLL"
    /\ \A j \in 1..Len(q)  : q[j] = "POLL"  => j - k \in 1..Len(q2) /\ q2[j - k] = "POLL"

LEMMA MovedChain ==
    ASSUME NEW m \in Program, NEW m2 \in Program, NEW k \in 0..1, NEW starving,
           Moved(m.queue, m2.queue, k), m2.polling = m.polling, Ending(m) => Ending(m2),
           Chain(m, starving)
    PROVE  Chain(m2, starving)
<1>1. \A i \in PollsOf(m2) : i \in Nat /\ i + k \in PollsOf(m)
  BY DEF PollsOf, Moved
<1>2. \A j \in PollsOf(m) : j - k \in PollsOf(m2)
  BY DEF PollsOf, Moved
<1>3. PollsOf(m) # {} <=> PollsOf(m2) # {}
  BY <1>1, <1>2
<1>4. ASSUME NEW i \in PollsOf(m2), NEW j \in PollsOf(m2), \A x, y \in PollsOf(m) : x = y
      PROVE  i = j
  <2>1. i + k = j + k /\ i \in Nat /\ j \in Nat
    BY <1>1, <1>4
  <2> QED
    BY <2>1
<1> QED
  BY <1>3, <1>4 DEF Chain

\* Tasks that are not poll tasks may be posted, and the first task, if it is
\* not one, may be taken.
LEMMA PostingMoves ==
    ASSUME NEW q \in Queues, NEW new \in Seq(Tasks), \A i \in 1..Len(new) : new[i] # "POLL"
    PROVE  Moved(q, system_task_schedule(q, new), 0)
<1> DEFINE q2 == system_task_schedule(q, new)
<1>1. /\ q2 \in Queues /\ Len(q) <= Len(q2)
      /\ \A i \in 1..Len(q) : q2[i] = q[i]
      /\ \A i \in (Len(q) + 1)..Len(q2) : i - Len(q) \in 1..Len(new) /\ q2[i] = new[i - Len(q)]
  BY Posting
<1>2. Len(q) \in Nat /\ Len(q2) \in Nat
  BY <1>1, LenProperties DEF Queues
<1> HIDE DEF q2
<1>3. ASSUME NEW i \in 1..Len(q2), q2[i] = "POLL"
      PROVE  i \in 1..Len(q) /\ q[i] = "POLL"
  <2>1. i \notin (Len(q) + 1)..Len(q2)
    BY <1>1, <1>3
  <2>2. i \in 1..Len(q)
    BY <1>2, <2>1
  <2> QED
    BY <1>1, <1>3, <2>2
<1>4. ASSUME NEW j \in 1..Len(q), q[j] = "POLL"
      PROVE  j \in 1..Len(q2) /\ q2[j] = "POLL"
  <2>1. q2[j] = q[j]
    BY <1>1
  <2>2. j \in 1..Len(q2)
    BY <1>1, <1>2
  <2> QED
    BY <1>4, <2>1, <2>2
<1>5. \A i \in Nat : i + 0 = i /\ i - 0 = i
  OBVIOUS
<1>6. Moved(q, q2, 0)
  BY <1>3, <1>4, <1>5 DEF Moved
<1> QED
  BY <1>6 DEF q2

LEMMA TakingMoves ==
    ASSUME NEW q \in Queues, q # <<>>, Head(q) # "POLL"
    PROVE  Moved(q, Tail(q), 1)
<1>1. /\ Len(Tail(q)) = Len(q) - 1 /\ Len(q) \in Nat
      /\ \A i \in 1..Len(Tail(q)) : i + 1 \in 1..Len(q) /\ Tail(q)[i] = q[i + 1]
      /\ q[1] # "POLL"
  BY Taking
<1>2. ASSUME NEW j \in 1..Len(q), q[j] = "POLL"
      PROVE  j - 1 \in 1..Len(Tail(q)) /\ Tail(q)[j - 1] = "POLL"
  <2>1. j # 1
    BY <1>1, <1>2
  <2>2. j - 1 \in 1..Len(Tail(q)) /\ (j - 1) + 1 = j
    BY <1>1, <2>1
  <2> QED
    BY <1>1, <1>2, <2>2
<1> QED
  BY <1>1, <1>2 DEF Moved

\* What is posted.
LEMMA PostedTask ==
    ASSUME NEW task \in Tasks
    PROVE  <<task>> \in Seq(Tasks) /\ Len(<<task>>) = 1 /\ <<task>>[1] = task
OBVIOUS

\* core_poll() comes after its task has been posted again.
LEMMA PostedPoll ==
    ASSUME NEW listeners \in {<<>>, <<"RESPOND">>}
    PROVE  LET new == <<"POLL">> \o listeners
           IN  /\ new \in Seq(Tasks) /\ new # <<>> /\ Len(new) \in Nat /\ new[1] = "POLL"
               /\ \A i \in 1..Len(new) : new[i] = "POLL" => i = 1
<1> DEFINE new == <<"POLL">> \o listeners
<1>1. "POLL" \in Tasks /\ "RESPOND" \in Tasks
  BY DEF Tasks
<1>2. <<"POLL">> \in Seq(Tasks) /\ Len(<<"POLL">>) = 1 /\ <<"POLL">>[1] = "POLL"
  BY <1>1, PostedTask
<1>3. listeners \in Seq(Tasks) /\ Len(listeners) \in 0..1 /\ \A i \in 1..Len(listeners) : listeners[i] = "RESPOND"
  <2>1. CASE listeners = <<>>
    BY <2>1, EmptySeq
  <2>2. CASE listeners = <<"RESPOND">>
    <3>1. <<"RESPOND">> \in Seq(Tasks) /\ Len(<<"RESPOND">>) = 1 /\ <<"RESPOND">>[1] = "RESPOND"
      BY <1>1, PostedTask
    <3> QED
      BY <2>2, <3>1
  <2> QED
    BY <2>1, <2>2
<1>4. /\ new \in Seq(Tasks) /\ Len(new) = 1 + Len(listeners)
      /\ \A i \in 1..Len(new) : new[i] = IF i <= 1 THEN "POLL" ELSE listeners[i - 1]
  <2>1. /\ new \in Seq(Tasks) /\ Len(new) = Len(<<"POLL">>) + Len(listeners)
        /\ \A i \in 1..Len(new) : new[i] = IF i <= Len(<<"POLL">>) THEN <<"POLL">>[i]
                                           ELSE listeners[i - Len(<<"POLL">>)]
    BY <1>2, <1>3, ConcatProperties
  <2> HIDE DEF new
  <2>2. ASSUME NEW i \in 1..Len(new)
        PROVE  new[i] = IF i <= 1 THEN "POLL" ELSE listeners[i - 1]
    <3>1. CASE i = 1
      BY <1>2, <2>1, <3>1
    <3>2. CASE i # 1
      <4>1. ~(i <= 1)
        BY <2>1, <3>2, LenProperties
      <4> QED
        BY <1>2, <2>1, <4>1
    <3> QED
      BY <3>1, <3>2
  <2> QED
    BY <1>2, <2>1, <2>2
<1> HIDE DEF new
<1>5. Len(new) \in Nat /\ 1 \in 1..Len(new)
  BY <1>3, <1>4
<1>6. new[1] = "POLL" /\ new # <<>>
  BY <1>4, <1>5, EmptySeq
<1>7. ASSUME NEW i \in 1..Len(new), new[i] = "POLL"
      PROVE  i = 1
  <2> SUFFICES ASSUME i # 1
               PROVE  FALSE
    OBVIOUS
  <2>1. i - 1 \in 1..Len(listeners) /\ new[i] = listeners[i - 1]
    BY <1>3, <1>4, <1>5
  <2> QED
    BY <1>3, <1>7, <2>1
<1> QED
  BY <1>4, <1>5, <1>6, <1>7 DEF new

\* The poll task taken and posted again is where the last entry was, and no
\* other is a poll task that was not.
LEMMA PollAgain ==
    ASSUME NEW q \in Queues, q # <<>>, NEW listeners \in {<<>>, <<"RESPOND">>}
    PROVE  LET q2 == system_task_schedule(Tail(q), <<"POLL">> \o listeners)
           IN  /\ q2 \in Queues /\ Len(q) \in 1..Len(q2) /\ q2[Len(q)] = "POLL"
               /\ \A i \in 1..Len(q2) :
                      q2[i] = "POLL" => i = Len(q) \/ (i + 1 \in 1..Len(q) /\ i + 1 # 1 /\ q[i + 1] = "POLL")
<1> DEFINE t   == Tail(q)
           new == <<"POLL">> \o listeners
           q2  == system_task_schedule(t, new)
<1>1. /\ t \in Queues /\ Len(t) = Len(q) - 1 /\ Len(q) \in Nat /\ Len(q) >= 1 /\ Len(t) < TaskQueueSize
      /\ \A i \in 1..Len(t) : i + 1 \in 1..Len(q) /\ t[i] = q[i + 1]
  BY Taking
<1>2. /\ new \in Seq(Tasks) /\ new # <<>> /\ Len(new) \in Nat /\ new[1] = "POLL"
      /\ \A i \in 1..Len(new) : new[i] = "POLL" => i = 1
  BY PostedPoll
<1> HIDE DEF t, new
<1>3. /\ q2 \in Queues /\ Len(t) < Len(q2)
      /\ \A i \in 1..Len(t) : q2[i] = t[i]
      /\ \A i \in (Len(t) + 1)..Len(q2) : i - Len(t) \in 1..Len(new) /\ q2[i] = new[i - Len(t)]
  BY <1>1, <1>2, Posting
<1>4. Len(q2) \in Nat /\ Len(t) \in Nat
  BY <1>1, <1>3, LenProperties DEF Queues
<1> HIDE DEF q2
<1>5. Len(q) \in 1..Len(q2) /\ q2[Len(q)] = "POLL"
  <2>1. Len(q) \in (Len(t) + 1)..Len(q2) /\ Len(q) - Len(t) = 1
    BY <1>1, <1>3, <1>4
  <2> QED
    BY <1>1, <1>2, <1>3, <1>4, <2>1
<1>6. ASSUME NEW i \in 1..Len(q2), q2[i] = "POLL"
      PROVE  i = Len(q) \/ (i + 1 \in 1..Len(q) /\ i + 1 # 1 /\ q[i + 1] = "POLL")
  <2>1. CASE i \in 1..Len(t)
    <3>1. q[i + 1] = "POLL" /\ i + 1 \in 1..Len(q)
      BY <1>1, <1>3, <1>6, <2>1
    <3> QED
      BY <1>4, <2>1, <3>1
  <2>2. CASE i \in (Len(t) + 1)..Len(q2)
    <3>1. i - Len(t) = 1
      BY <1>2, <1>3, <1>6, <2>2
    <3> QED
      BY <1>1, <1>4, <2>2, <3>1
  <2> QED
    BY <1>4, <2>1, <2>2
<1> QED
  BY <1>3, <1>5, <1>6 DEF q2, t, new

\* A listener is to be answered, or has been.
LEMMA RespondFine ==
    ASSUME StartupInv, PostRespond \/ RespondTask
    PROVE  Fine
<1>1. ram \in Program /\ ram.queue \in Queues /\ Chain(ram, starved)
  BY DEF StartupInv, Types, Program
<1>2. ASSUME NEW q2 \in Queues, NEW k \in 0..1, Moved(ram.queue, q2, k),
             Becomes([ram EXCEPT !.queue = q2])
      PROVE  Fine
  <2>1. /\ ram' \in Program /\ ram'.queue = q2 /\ ram'.polling = ram.polling
        /\ ram'.timers = ram.timers /\ ram'.sleeping = ram.sleeping
    BY <1>1, <1>2 DEF Becomes, Program
  <2>2. Chain(ram', starved)
    BY <1>1, <1>2, <2>1, MovedChain DEF Ending
  <2> QED
    BY <1>2, <2>1, <2>2, ChainSteps DEF Becomes
<1>3. CASE PostRespond
  <2>1. <<"RESPOND">> \in Seq(Tasks) /\ Len(<<"RESPOND">>) = 1 /\ <<"RESPOND">>[1] = "RESPOND"
    BY PostedTask DEF Tasks
  <2>2. \A i \in 1..Len(<<"RESPOND">>) : <<"RESPOND">>[i] # "POLL"
    BY <2>1
  <2>3. /\ system_task_schedule(ram.queue, <<"RESPOND">>) \in Queues
        /\ Moved(ram.queue, system_task_schedule(ram.queue, <<"RESPOND">>), 0)
    BY <1>1, <2>1, <2>2, Posting, PostingMoves
  <2> QED
    BY <1>2, <1>3, <2>3 DEF PostRespond
<1>4. CASE RespondTask
  <2>1. ram.queue # <<>> /\ Head(ram.queue) # "POLL" /\ Becomes([ram EXCEPT !.queue = Tail(ram.queue)])
    BY <1>4 DEF RespondTask
  <2>2. Tail(ram.queue) \in Queues
    BY <1>1, <2>1, Taking
  <2>3. Moved(ram.queue, Tail(ram.queue), 1)
    BY <1>1, <2>1, TakingMoves
  <2>4. 1 \in 0..1
    OBVIOUS
  <2> QED
    BY ONLY <1>2, <2>1, <2>2, <2>3, <2>4, Zenon
<1> QED
  BY <1>3, <1>4

\* core_poll() and its task.
LEMMA PollFine ==
    ASSUME StartupInv, PollTask
    PROVE  Fine
<1>1. ram \in Program /\ ram.queue \in Queues /\ Chain(ram, starved)
  BY DEF StartupInv, Types, Program
<1>2. PICK listeners \in {<<>>, <<"RESPOND">>} :
          Becomes([ram EXCEPT !.queue = IF ram.polling
                                        THEN system_task_schedule(Tail(@), <<"POLL">> \o listeners)
                                        ELSE Tail(@)])
  BY DEF PollTask
<1>3. ram.queue # <<>> /\ Head(ram.queue) = "POLL"
  BY DEF PollTask
<1>4. 1 \in PollsOf(ram)
  <2>1. 1 \in 1..Len(ram.queue) /\ ram.queue[1] = "POLL"
    BY <1>1, <1>3, Taking
  <2> QED
    BY <2>1 DEF PollsOf
<1>5. ASSUME NEW q2 \in Queues, ram' = [ram EXCEPT !.queue = q2]
      PROVE  /\ ram' \in Program /\ ram'.queue = q2 /\ ram'.polling = ram.polling
             /\ ram'.timers = ram.timers /\ ram'.sleeping = ram.sleeping
             /\ Ending(ram') = Ending(ram)
  BY <1>1, <1>5 DEF Program, Ending
<1>6. CASE ram.polling
  <2> DEFINE q2 == system_task_schedule(Tail(ram.queue), <<"POLL">> \o listeners)
  <2>1. /\ q2 \in Queues /\ Len(ram.queue) \in 1..Len(q2) /\ q2[Len(ram.queue)] = "POLL"
        /\ \A i \in 1..Len(q2) :
               q2[i] = "POLL" => \/ i = Len(ram.queue)
                                 \/ i + 1 \in 1..Len(ram.queue) /\ i + 1 # 1 /\ ram.queue[i + 1] = "POLL"
    BY <1>1, <1>3, PollAgain
  <2>2. Becomes([ram EXCEPT !.queue = q2])
    BY <1>2, <1>6
  <2> HIDE DEF q2
  <2>3. /\ ram' \in Program /\ ram'.queue = q2 /\ ram'.polling /\ Ending(ram') = Ending(ram)
        /\ ram'.sleeping = ram.sleeping
    BY <1>5, <1>6, <2>1, <2>2 DEF Becomes
  <2>4. Len(ram.queue) \in PollsOf(ram')
    BY <2>1, <2>3 DEF PollsOf
  <2>5. ASSUME ~Ending(ram'), NEW i \in PollsOf(ram')
        PROVE  i = Len(ram.queue)
    <3>1. i \in 1..Len(q2) /\ q2[i] = "POLL"
      BY <2>3 DEF PollsOf
    <3>2. ~(i + 1 \in 1..Len(ram.queue) /\ i + 1 # 1 /\ ram.queue[i + 1] = "POLL")
      BY <1>1, <1>4, <2>3, <2>5 DEF Chain, PollsOf
    <3> QED
      BY <2>1, <3>1, <3>2
  <2>6. Chain(ram', starved)
    BY <2>3, <2>4, <2>5 DEF Chain
  <2> QED
    BY <2>2, <2>3, <2>6, ChainSteps DEF Becomes
<1>7. CASE ~ram.polling
  <2>1. Tail(ram.queue) \in Queues
    BY <1>1, <1>3, Taking
  <2>2. Becomes([ram EXCEPT !.queue = Tail(ram.queue)])
    BY <1>2, <1>7
  <2>3. ram' \in Program /\ ~ram'.polling /\ Ending(ram') = Ending(ram) /\ ram'.sleeping = ram.sleeping
    BY <1>5, <1>7, <2>1, <2>2 DEF Becomes
  <2>4. Ending(ram)
    BY <1>1, <1>4, <1>7 DEF Chain
  <2>5. Chain(ram', starved)
    BY <2>3, <2>4 DEF Chain
  <2> QED
    BY <2>2, <2>3, <2>5, ChainSteps DEF Becomes
<1> QED
  BY <1>6, <1>7

\* A task taken, others posted, and what it does is calm.
LEMMA BecomesFine ==
    ASSUME StartupInv, NEW m \in Program, NEW m2, Chain(m, starved), m.sleeping = ram.sleeping,
           Calm(m, m2), Becomes(m2)
    PROVE  Fine
<1>1. m2 \in Program /\ Chain(m2, starved) /\ m2.sleeping = ram.sleeping
  BY CalmChain DEF Calm
<1> QED
  BY <1>1, ChainSteps DEF Becomes

\* The task of the system, which reads the setup button.
LEMMA UpdateFine ==
    ASSUME StartupInv, UpdateTask
    PROVE  Fine
<1>1. ram \in Program /\ ram.queue \in Queues /\ Chain(ram, starved) /\ ram.held \in Nat /\ flash \in Settings
  BY DEF StartupInv, Types, Program
<1>2. ram.ready /\ ram.queue # <<>> /\ Head(ram.queue) # "POLL"
  BY DEF UpdateTask, Ready
<1>3. PICK held \in {ram.held, Smaller(ram.held + 1, ResetHold + 1)} :
          update([ram EXCEPT !.held = held, !.queue = system_task_schedule(Tail(@), <<"UPDATE">>)])
  BY DEF UpdateTask
<1>4. held \in Nat
  BY <1>1, StartupAssumption DEF Smaller, StartupAssumption
<1> DEFINE t  == Tail(ram.queue)
           q2 == system_task_schedule(t, <<"UPDATE">>)
           m1 == [ram EXCEPT !.queue = t]
           m  == [ram EXCEPT !.held = held, !.queue = q2]
<1>5. t \in Queues /\ Moved(ram.queue, t, 1)
  BY <1>1, <1>2, Taking, TakingMoves
<1>6. m1 \in Program /\ m1.queue = t /\ m1.polling = ram.polling /\ Ending(m1) = Ending(ram)
  BY <1>1, <1>5 DEF Program, Ending
<1>7. q2 \in Queues /\ Moved(t, q2, 0)
  <2>1. <<"UPDATE">> \in Seq(Tasks) /\ Len(<<"UPDATE">>) = 1 /\ <<"UPDATE">>[1] = "UPDATE"
    BY PostedTask DEF Tasks
  <2>2. \A i \in 1..Len(<<"UPDATE">>) : <<"UPDATE">>[i] # "POLL"
    BY <2>1
  <2> QED
    BY <1>5, <2>1, <2>2, Posting, PostingMoves
<1> HIDE DEF q2
<1>8. /\ m \in Program /\ m.queue = q2 /\ m.polling = ram.polling /\ Ending(m) = Ending(ram)
      /\ m.ready = ram.ready /\ m.sleeping = ram.sleeping
  BY <1>1, <1>4, <1>7 DEF Program, Ending
<1>9. update(m)
  BY <1>3 DEF q2
<1> HIDE DEF m, m1, t
<1>10. Chain(m, starved)
  <2>1. 0 \in 0..1 /\ 1 \in 0..1
    OBVIOUS
  <2>2. Chain(m1, starved)
    BY <1>1, <1>5, <1>6, <2>1, MovedChain
  <2> QED
    BY <1>6, <1>7, <1>8, <2>1, <2>2, MovedChain
<1>11. Calm(m, m) /\ Calm(m, ReadButton(m))
  BY <1>8, CalmButton DEF Calm
<1>12. Calm(m, ReadButton(EnterSetupMode([m EXCEPT !.button = "TRIGGERED"])))
  <2> DEFINE m2 == [m EXCEPT !.button = "TRIGGERED"]
  <2>1. Calm(m, m2) /\ m2 \in Program
    BY <1>8 DEF Calm, Program
  <2> HIDE DEF m2
  <2>2. Calm(m2, EnterSetupMode(m2)) /\ EnterSetupMode(m2) \in Program
    BY <2>1, CalmSetupMode DEF Calm
  <2>3. Calm(EnterSetupMode(m2), ReadButton(EnterSetupMode(m2)))
    BY <2>2, CalmButton
  <2>4. Calm(m, EnterSetupMode(m2))
    BY <2>1, <2>2, CalmTwice
  <2>5. Calm(m, ReadButton(EnterSetupMode(m2)))
    BY <2>3, <2>4, CalmTwice
  <2> QED
    BY <2>5 DEF m2
<1>13. \/ Becomes(m) \/ Becomes(ReadButton(m))
       \/ Becomes(ReadButton(EnterSetupMode([m EXCEPT !.button = "TRIGGERED"])))
       \/ Restart(m, flash)
       \/ /\ ram' = DelayedReset([m EXCEPT !.button = "RESET"])
          /\ flash' = [ssid |-> FALSE, interval |-> 0, factory |-> TRUE]
          /\ UNCHANGED <<power, rtc, world, owed, stale, crashes, starved>>
  BY <1>9 DEF update
<1>14. CASE /\ ram' = DelayedReset([m EXCEPT !.button = "RESET"])
            /\ flash' = [ssid |-> FALSE, interval |-> 0, factory |-> TRUE]
            /\ UNCHANGED <<power, rtc, world, owed, stale, crashes, starved>>
  <2>1. /\ [m EXCEPT !.button = "RESET"] \in Program /\ [m EXCEPT !.button = "RESET"].ready
        /\ [m EXCEPT !.button = "RESET"].sleeping = ram.sleeping
    BY <1>2, <1>8 DEF Program
  <2>2. ram' \in Program /\ ~ram'.polling /\ Ending(ram') /\ ram'.ready /\ ram'.sleeping = ram.sleeping
    BY <1>14, <2>1, ResetArranged DEF Ending
  <2>3. flash' \in Settings
    BY <1>14 DEF Settings, Lengths
  <2>4. rtc \in Memory /\ owed \in Int /\ stale \in BOOLEAN
    BY DEF StartupInv, Types
  <2> QED
    BY <1>14, <2>2, <2>3, <2>4, SleptSteps, EndingFine
<1> QED
  BY <1>8, <1>10, <1>11, <1>12, <1>13, <1>14, BecomesFine, RestartFine

-----------------------------------------------------------------------------
(***************************************************************************)
(* Actions that change nothing that the invariant looks at.                *)
(***************************************************************************)
LEMMA ReadyFine ==
    ASSUME StartupInv, OnSystemReady
    PROVE  Fine
<1> DEFINE m == [ram EXCEPT !.ready = TRUE]
<1>1. Calm(ram, m) /\ m \in Program
  BY DEF Calm, Program, StartupInv, Types
<1>2. Becomes(m) \/ Becomes(EnterSetupMode(m))
  BY DEF OnSystemReady
<1> HIDE DEF m
<1>3. Calm(ram, EnterSetupMode(m))
  BY <1>1, CalmSetupMode, CalmTwice
<1> QED
  BY <1>1, <1>2, <1>3, CalmBecomes

LEMMA WifiFine ==
    ASSUME StartupInv, Disconnected \/ OnTemporaryConnect \/ NetworkChanges
    PROVE  Fine
<1>1. ram \in Program
  BY DEF StartupInv, Types
<1>2. CASE Disconnected
  <2> DEFINE m == IF ram.callback /\ ram.connected THEN Arm(ram, "setup mode") ELSE ram
  <2>1. Calm(ram, m) /\ m \in Program
    BY <1>1, CalmTimers DEF Timers, Calm
  <2>2. PICK again \in BOOLEAN :
            Becomes([m EXCEPT !.connected = FALSE, !.connecting = again \/ (@ /\ ram.connected),
                              !.timers = IF ram.station = "temporary" THEN @ \cup {"temporary"} ELSE @])
    <3>1. (IF ram.station = "temporary" THEN BOOLEAN ELSE {FALSE}) \subseteq BOOLEAN
      OBVIOUS
    <3> QED
      BY <1>2, <3>1 DEF Disconnected
  <2> HIDE DEF m
  <2> DEFINE m2 == [m EXCEPT !.connected = FALSE, !.connecting = again \/ (@ /\ ram.connected),
                             !.timers = IF ram.station = "temporary" THEN @ \cup {"temporary"} ELSE @]
  <2>3. Calm(m, m2)
    <3> DEFINE connecting == again \/ (m.connecting /\ ram.connected)
               timers     == IF ram.station = "temporary" THEN m.timers \cup {"temporary"} ELSE m.timers
    <3>1. connecting \in BOOLEAN
      OBVIOUS
    <3>2. timers \in SUBSET Timers /\ ("reset" \in m.timers => "reset" \in timers)
      BY <2>1 DEF Program, Timers
    <3>3. m2 = [m EXCEPT !.connected = FALSE, !.connecting = connecting, !.timers = timers]
      BY <2>1 DEF Program
    <3> HIDE DEF connecting, timers, m2
    <3> QED
      BY <2>1, <3>1, <3>2, <3>3 DEF Calm, Program
  <2> HIDE DEF m2
  <2>4. Calm(ram, m2)
    BY <2>1, <2>3, CalmTwice
  <2> QED
    BY <2>2, <2>4, CalmBecomes DEF m2
<1>3. CASE OnTemporaryConnect
  <2>1. Calm(ram, [ram EXCEPT !.connecting = ~ram.connected])
    BY <1>1 DEF Calm, Program
  <2> QED
    BY <1>3, <2>1, CalmBecomes DEF OnTemporaryConnect
<1>4. CASE NetworkChanges
  <2>1. Calm(ram, ram) /\ Calm(ram, [ram EXCEPT !.link = "none"])
    BY <1>1 DEF Calm, Program
  <2>2. Calm(ram, ram')
    BY <1>4, <2>1 DEF NetworkChanges
  <2> QED
    BY <1>4, <2>2, CalmSteps DEF NetworkChanges
<1> QED
  BY <1>2, <1>3, <1>4

LEMMA ClientsFine ==
    ASSUME StartupInv, ClientJoins \/ ClientGetsIp \/ ClientLeaves \/ ToggleButton
    PROVE  Fine
<1>1. ram \in Program
  BY DEF StartupInv, Types
<1>2. /\ Calm(ram, ram) /\ Calm(ram, Disarm(ram, "temporary"))
      /\ Calm(ram, [ram EXCEPT !.ap_count = @ + 1]) /\ Calm(ram, [ram EXCEPT !.ap_count = @ - 1])
  <2>1. Calm(ram, ram) /\ Calm(ram, Disarm(ram, "temporary"))
    BY <1>1, CalmTimers DEF Timers
  <2>2. ram.ap_count + 1 \in Int /\ ram.ap_count - 1 \in Int
    BY <1>1 DEF Program
  <2> QED
    BY <1>1, <2>1, <2>2 DEF Calm, Program
<1>3. Calm(ram, ram') /\ UNCHANGED <<power, rtc, flash, owed, stale, crashes, starved>>
  BY <1>2 DEF ClientJoins, ClientGetsIp, ClientLeaves, ToggleButton
<1> QED
  BY <1>3, CalmSteps

LEMMA SetupModeFine ==
    ASSUME StartupInv, OnWifiConnectTimeoutSetupMode \/ OnSetupModeIdleTimeout
    PROVE  Fine
<1>1. ram \in Program
  BY DEF StartupInv, Types
<1>2. CASE OnWifiConnectTimeoutSetupMode
  <2> DEFINE m == Disarm(ram, "setup mode")
  <2>1. Calm(ram, m) /\ m \in Program
    BY <1>1, CalmTimers DEF Timers, Calm
  <2>2. Becomes(m) \/ Becomes(EnterSetupMode(m))
    BY <1>2 DEF OnWifiConnectTimeoutSetupMode
  <2> HIDE DEF m
  <2>3. Calm(ram, EnterSetupMode(m))
    BY <2>1, CalmSetupMode, CalmTwice
  <2> QED
    BY <2>1, <2>2, <2>3, CalmBecomes
<1>3. CASE OnSetupModeIdleTimeout
  <2>1. Calm(ram, ram) /\ Calm(ram, EnterSetupMode(ram))
    BY <1>1, CalmTimers, CalmSetupMode DEF Timers
  <2>2. Becomes(ram) \/ Becomes(EnterSetupMode(ram)) \/ Restart(ram, flash)
    BY <1>3 DEF OnSetupModeIdleTimeout, system_setup_mode_toggle
  <2> QED
    BY <1>1, <2>1, <2>2, CalmBecomes, RestartFine
<1> QED
  BY <1>2, <1>3

LEMMA UnderWayFine ==
    ASSUME StartupInv, PatchConfigName \/ OtaStarts \/ OtaFails
    PROVE  Fine
<1>1. ram \in Program
  BY DEF StartupInv, Types
<1>2. Calm(ram, config_start_auto_provisioning(ram))
  BY <1>1, CalmProvisioning
<1>3. Calm(ram, [ram EXCEPT !.ota = TRUE]) /\ Calm(ram, [ram EXCEPT !.ota = FALSE])
  BY <1>1 DEF Calm, Program
<1> QED
  BY <1>2, <1>3, CalmBecomes DEF PatchConfigName, OtaStarts, OtaFails

-----------------------------------------------------------------------------
(***************************************************************************)
(* Actions that save settings, and those that end the program.             *)
(***************************************************************************)
LEMMA SavingSteps ==
    ASSUME StartupInv, Calm(ram, ram'), flash' \in Settings, flash'.factory => flash.factory,
           UNCHANGED <<power, rtc, owed, stale, crashes, starved>>
    PROVE  Fine
<1>1. ram' \in Program /\ Chain(ram', starved)
  BY CalmChain DEF StartupInv, Types, Calm
<1>2. Types'
  BY <1>1 DEF StartupInv, Types
<1>3. Counted'
  BY DEF StartupInv, Counted
<1>4. KeepsSlept
  BY SleptSteps DEF Calm
<1> QED
  BY <1>1, <1>2, <1>3, <1>4 DEF StartupInv, Fine

LEMMA PatchFine ==
    ASSUME StartupInv, NEW wifi \in BOOLEAN, NEW i \in Intervals, api_patch_device(wifi, i)
    PROVE  Fine
<1> DEFINE ssid    == IF wifi THEN TRUE ELSE ram.ssid
           changed == ram.changed \/ wifi
           m       == [ram EXCEPT !.interval = i, !.ssid = ssid, !.changed = changed]
<1>1. ram \in Program /\ flash \in Settings /\ i \in Lengths /\ rtc \in Memory /\ owed \in Int /\ stale \in BOOLEAN
  BY DEF StartupInv, Types, Lengths
<1>2. /\ ram' = IF wifi THEN DelayedReset(m) ELSE IF i # ram.interval THEN sleep_reset(m) ELSE m
      /\ flash' = [flash EXCEPT !.interval = i, !.factory = FALSE]
      /\ UNCHANGED <<power, rtc, owed, stale, crashes, starved>>
  BY DEF api_patch_device
<1>3. flash' \in Settings /\ ~flash'.factory
  BY <1>1, <1>2 DEF Settings
<1>4. ssid \in BOOLEAN /\ changed \in BOOLEAN
  BY <1>1 DEF Program
<1> HIDE DEF ssid, changed
<1>5. Calm(ram, m) /\ m \in Program
  BY <1>1, <1>4 DEF Calm, Program
<1> HIDE DEF m
<1>6. CASE wifi
  <2>1. ram' \in Program /\ ~ram'.polling /\ Ending(ram') /\ ram'.sleeping = ram.sleeping
    BY <1>2, <1>5, <1>6, ResetArranged DEF Ending, Calm
  <2> QED
    BY <1>1, <1>2, <1>3, <2>1, SleptSteps, EndingFine
<1>7. CASE ~wifi
  <2>1. Calm(ram, sleep_reset(m))
    BY <1>5, CalmSleep, CalmTwice
  <2> QED
    BY <1>2, <1>3, <1>5, <1>7, <2>1, SavingSteps
<1> QED
  BY <1>6, <1>7

LEMMA PutFine ==
    ASSUME StartupInv, NEW i \in Lengths, api_put_device(i)
    PROVE  Fine
<1>1. ram \in Program /\ flash \in Settings
  BY DEF StartupInv, Types
<1>2. Calm(ram, [ram EXCEPT !.interval = i])
  BY <1>1 DEF Calm, Program
<1>3. [flash EXCEPT !.interval = i, !.factory = FALSE] \in Settings
      /\ ~[flash EXCEPT !.interval = i, !.factory = FALSE].factory
  BY <1>1 DEF Settings
<1> QED
  BY <1>2, <1>3, SavingSteps DEF api_put_device

LEMMA ProvisioningFine ==
    ASSUME StartupInv, OnProvisioningConfigResponse
    PROVE  Fine
<1> DEFINE m == [ram EXCEPT !.provisioning = FALSE]
<1>1. ram \in Program /\ flash \in Settings
  BY DEF StartupInv, Types
<1>2. Calm(ram, m) /\ m \in Program /\ m.interval = ram.interval
  BY <1>1 DEF Calm, Program
<1>3. PICK i \in Intervals :
          /\ ram' = IF i # m.interval THEN sleep_reset([m EXCEPT !.interval = i]) ELSE m
          /\ flash' = [flash EXCEPT !.interval = i, !.factory = @ /\ i = m.interval]
  BY DEF OnProvisioningConfigResponse
<1>4. UNCHANGED <<power, rtc, owed, stale, crashes, starved>>
  BY DEF OnProvisioningConfigResponse
<1> HIDE DEF m
<1>5. flash' \in Settings /\ (flash'.factory => flash.factory)
  <2> DEFINE factory == flash.factory /\ i = m.interval
  <2>1. factory \in BOOLEAN /\ (factory => flash.factory)
    OBVIOUS
  <2>2. flash' = [flash EXCEPT !.interval = i, !.factory = factory]
    BY <1>3
  <2> HIDE DEF factory
  <2>3. i \in Lengths
    BY DEF Lengths
  <2> QED
    BY <1>1, <2>1, <2>2, <2>3 DEF Settings
<1>6. Calm(m, [m EXCEPT !.interval = i]) /\ [m EXCEPT !.interval = i] \in Program
  BY <1>2 DEF Calm, Program, Lengths
<1>7. Calm(m, sleep_reset([m EXCEPT !.interval = i]))
  BY <1>6, CalmSleep, CalmTwice
<1>8. Calm(ram, sleep_reset([m EXCEPT !.interval = i]))
  BY <1>2, <1>7, CalmTwice
<1> QED
  BY <1>2, <1>3, <1>4, <1>5, <1>8, SavingSteps

LEMMA ResetsFine ==
    ASSUME StartupInv, NEW factory \in BOOLEAN, api_post_reset(factory) \/ OnSystemReset \/ OtaEnds
    PROVE  Fine
<1>1. ram \in Program /\ flash \in Settings /\ rtc \in Memory /\ owed \in Int /\ stale \in BOOLEAN
  BY DEF StartupInv, Types
<1>2. CASE api_post_reset(factory)
  <2>1. ram' \in Program /\ ~ram'.polling /\ Ending(ram') /\ ram'.ready /\ ram'.sleeping = ram.sleeping
    BY <1>1, <1>2, ResetArranged DEF api_post_reset, Ending, Reachable, Ready
  <2>2. flash' \in Settings
    BY <1>1, <1>2 DEF api_post_reset, Settings, Lengths
  <2> QED
    BY <1>1, <1>2, <2>1, <2>2, SleptSteps, EndingFine DEF api_post_reset
<1>3. CASE OnSystemReset
  <2>1. Disarm(ram, "reset") \in Program
    BY <1>1 DEF Program, Disarm
  <2> QED
    BY <1>3, <2>1, RestartFine DEF OnSystemReset
<1>4. CASE OtaEnds
  <2>1. core_disable_polling(ram) \in Program
    BY <1>1 DEF Program, core_disable_polling
  <2> QED
    BY <1>4, <2>1, RestartFine DEF OtaEnds
<1> QED
  BY <1>2, <1>3, <1>4

-----------------------------------------------------------------------------
(***************************************************************************)
(* The program.                                                            *)
(***************************************************************************)
LEMMA NothingFine ==
    ASSUME StartupInv, UNCHANGED vars
    PROVE  Fine
<1>1. Calm(ram, ram)
  BY DEF StartupInv, Types, Calm
<1> QED
  BY <1>1, CalmSteps DEF vars, world

LEMMA NextFine ==
    ASSUME StartupInv, [Next]_vars
    PROVE  Fine
<1>1. CASE System
  <2>1. TRUE \in BOOLEAN
    OBVIOUS
  <2> QED
    BY <1>1, <2>1, StartsFine, ReadyFine, StopsFine, SleepFine, ResetsFine, UpdateFine, PollFine, RespondFine, GotIpFine,
       WifiFine, CorePollingFine, SetupModeFine, ProvisioningFine, UnderWayFine, ClientsFine DEF System
<1>2. CASE Disturbance
  <2>1. Intervals \cup {0} = Lengths
    BY DEF Lengths
  <2> QED
    BY <1>2, <2>1, StopsFine, StartsFine, WifiFine, ClientsFine, RespondFine, UnderWayFine,
       PatchFine, PutFine, ResetsFine DEF Disturbance
<1> QED
  BY <1>1, <1>2, NothingFine DEF Next

LEMMA InitFine == Init => StartupInv
<1> SUFFICES ASSUME Init
             PROVE  StartupInv
  OBVIOUS
<1>1. ram \in Program /\ Chain(ram, starved)
  BY BlankTyped DEF Init
<1>2. rtc \in Memory /\ flash \in Settings
  BY DEF Init, Memory, Settings, Lengths
<1>3. power = "off" /\ owed = 0 /\ crashes = 0 /\ stale = FALSE /\ starved = FALSE
  BY DEF Init
<1>4. Types
  <2>1. owed \in Int /\ crashes \in Nat
    BY <1>3
  <2>2. stale \in BOOLEAN /\ starved \in BOOLEAN
    BY <1>3
  <2>3. power \in {"off", "asleep", "asleep for ever", "on"}
    BY <1>3
  <2> QED
    BY <1>1, <1>2, <2>1, <2>2, <2>3 DEF Types
<1>5. Counted
  BY <1>3 DEF Counted
<1> QED
  BY <1>1, <1>4, <1>5 DEF StartupInv

THEOREM StartupCorrect == Spec => []StartupInv
<1>1. StartupInv /\ [Next]_vars => StartupInv'
  BY NextFine DEF Fine
<1> QED
  BY <1>1, InitFine, PTL DEF Spec

\* As long as polling is enabled there is exactly one poll task, unless the
\* queue was full when polling was enabled or the program is about to end:
\* whoever enables polling posts one, whoever takes it posts it again before
\* anything else can take the room, and only what ends the program disables
\* polling (core_enable_polling(), task_handler(), on_system_reset()).
THEOREM OneChain == Spec => []OnePollChain
<1>1. StartupInv => OnePollChain
  <2> SUFFICES ASSUME StartupInv, On, ram.polling
               PROVE  /\ starved \/ Polls # {}
                      /\ Cardinality(Polls) <= 1 \/ "reset" \in ram.timers \/ ram.sleeping # NotSleeping
    BY DEF OnePollChain
  <2>1. Polls = PollsOf(ram) /\ Chain(ram, starved)
    BY DEF Polls, PollsOf, StartupInv
  <2>2. ASSUME ~Ending(ram)
        PROVE  Cardinality(Polls) <= 1
    <3>1. \A i, j \in Polls : i = j
      BY <2>1, <2>2 DEF Chain
    <3>2. CASE Polls = {}
      <4>1. Cardinality(Polls) = 0
        BY <3>2, FS_EmptySet
      <4> QED
        BY <4>1
    <3>3. CASE Polls # {}
      <4>1. PICK i \in Polls : Polls = {i}
        BY <3>1, <3>3
      <4>2. Cardinality(Polls) = 1
        BY <4>1, FS_Singleton
      <4> QED
        BY <4>2
    <3> QED
      BY <3>2, <3>3
  <2> QED
    BY <2>1, <2>2 DEF Chain, Ending
<1> QED
  BY <1>1, StartupCorrect, PTL

\* A start does away with the configuration only after more than
\* MAX_UNEXP_RESET_COUNT unexpected resets in a row: the counter in the RTC is
\* never ahead of them, whatever it went through (system_check_reboot_loop()).
THEOREM ErasedOnlyInLoop == Spec => ResetOnlyInLoop
<1>1. StartupInv /\ [Next]_vars
      => [(power' = "on" /\ ~ram'.ready /\ flash'.factory /\ ~flash.factory) => crashes' > MaxUnexpResets]_vars
  BY NextFine DEF Fine
<1> QED
  BY <1>1, StartupCorrect, PTL DEF Spec, ResetOnlyInLoop

\* A long sleep lasts as long as it was asked to, for the intervals whose
\* counters sleep_init() takes for valid; for others it does not (the finding
\* of README.md): on_sleep() writes counters that make up what is left, every
\* start takes one sleep of them, and the device runs only without any.
THEOREM SleptAsAsked ==
    ASSUME RestsFit
    PROVE  Spec => []SleepsAsAsked
<1>1. Init => Slept
  BY DEF Init, Slept
<1>2. StartupInv /\ Slept /\ [Next]_vars => Slept'
  BY NextFine DEF Fine, KeepsSlept
<1>3. StartupInv /\ Slept => SleepsAsAsked
  <2> SUFFICES ASSUME StartupInv, Slept, ~stale
               PROVE  /\ owed >= 0
                      /\ On /\ ram.sleeping = NotSleeping => owed = 0
    BY DEF SleepsAsAsked
  <2>1. CASE power = "off"
    BY <2>1 DEF Slept, On
  <2>2. CASE power # "off"
    <3>1. rtc.count \in Nat /\ rtc.rem \in Nat /\ MaxSleep \in Nat
      BY StartupAssumption DEF StartupInv, Types, Memory, StartupAssumption
    <3>2. owed = rtc.count * MaxSleep + rtc.rem
      BY <2>2 DEF Slept
    <3>3. On /\ ram.sleeping = NotSleeping => rtc.count = 0 /\ rtc.rem = 0
      BY <2>2 DEF Slept
    <3> QED
      BY <3>1, <3>2, <3>3
  <2> QED
    BY <2>1, <2>2
<1> QED
  BY <1>1, <1>2, <1>3, StartupCorrect, PTL DEF Spec

=============================================================================
