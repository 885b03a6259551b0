SPECIFICATION Spec
CONSTANTS
    SessionCount = 2
    MaxQueueLen = 2
    MaxHttpRequests = 2
    TaskQueueSize = 8
    SessionIds = {i1, i2, i3}
    NoId = noId
    Conns = {c1, c2}
    NoConn = noConn
    PortIds = {p1}
    NoPort = noPort
    Activities = {"reset"}
    EventTypes = {"port-update", "device-update", "port-add", "port-remove"}
    MaxEvents = 3
SYMMETRY Symmetry
INVARIANTS ListenersAttached EventsInOrder NoLostWakeup
PROPERTIES NoSilentLoss
CHECK_DEADLOCK FALSE
