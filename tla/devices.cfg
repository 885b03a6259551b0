SPECIFICATION DevicesSpec
CONSTANTS
    Size = 3
    Bytes = {"a", "b"}
    MaxLen = 3
    Dps = {"a"}
    McuDps = {"a", "x"}
    NoDefault = NoDefault
    Undefined = Undefined
    Values = {1, 2}
    HEARTBEAT_INTERVAL = 2
    SYNC_TIMEOUT = 1
    PollingIntervals = {0, 1}
    RestoreOnEnter = TRUE
    RestoreOnExit = FALSE
    RestoreNoInternal = TRUE
    ForceCoordinated = FALSE
    MaxRx = 2
    MaxIdle = 1
    MaxEvents = 2
PROPERTIES ImplementsFifo ValuesSettle DeathNoticed
