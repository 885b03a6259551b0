----------------------------- MODULE MCDevices -----------------------------
(***************************************************************************)
(* The instances of RingBuffer and TuyaMcu that TLC checks.  TuyaMcu reads *)
(* the buffer as the queue that RingBuffer is shown to be, in units of     *)
(* frames; the two share no state here: a behaviour is one of the two.     *)
(***************************************************************************)
EXTENDS RingBuffer

CONSTANTS
    Dps, McuDps, NoDefault, Values, Undefined, HEARTBEAT_INTERVAL, SYNC_TIMEOUT, PollingIntervals,
    RestoreOnEnter, RestoreOnExit, RestoreNoInternal, ForceCoordinated, MaxRx, MaxIdle, MaxEvents

VARIABLES part, tuya, rx, tx, setup_mode, connected, mcu, idle, events

\* Enums that are treated as booleans (bit 8), writable (bit 4), of type 4, with
\* 2 for true, and with a default value.
Mcu == INSTANCE TuyaMcu WITH
    Flags <- [dp \in Dps |-> 256 + 16 + 4], TrueValue <- [dp \in Dps |-> 2], DefValue <- [dp \in Dps |-> 1]

mcu_vars == <<tuya, rx, tx, setup_mode, connected, mcu, idle, events>>

-----------------------------------------------------------------------------
\* What memory the buffer has got is of no concern to the other part, and the
\* polling interval is of none to the buffer.  The MCU starts with values that
\* restoring the defaults would change.
DevicesInit ==
    /\ part \in {"buffer", "mcu"} /\ RingInit /\ Mcu!Init
    /\ part = "mcu" => data \in [DOMAIN data -> {CHOOSE b \in Bytes : TRUE}]
    /\ part = "buffer" => tuya.polling_interval = CHOOSE interval \in PollingIntervals : TRUE
    /\ \A dp \in McuDps : mcu.values[dp] = 2

DevicesNext ==
    \/ part = "buffer" /\ RingNext /\ UNCHANGED <<part, mcu_vars>>
    \/ part = "mcu" /\ Mcu!Next /\ UNCHANGED <<part, ring_vars>>

DevicesSpec == DevicesInit /\ [][DevicesNext]_<<part, ring_vars, mcu_vars>> /\ Mcu!Fairness

-----------------------------------------------------------------------------
\* Properties of the instance, stated and explained in TuyaMcu.
ValuesSettle   == Mcu!ValuesSettle
DeathNoticed   == Mcu!DeathNoticed
EnumsAreMapped == Mcu!EnumsAreMapped
=============================================================================
