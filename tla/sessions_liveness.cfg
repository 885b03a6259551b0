SPECIFICATION FairSpec
CONSTANTS
    SessionCount = 2
    MaxQueueLen = 2
    MaxHttpRequests = 1
    TaskQueueSize = 1
    SessionIds = {i1, i2}
    NoId = noId
    Conns = {c1, c2}
    NoConn = noConn
    PortIds = {p1}
    NoPort = noPort
    Activities = {"ota", "provisioning", "reset", "trailing bytes"}
    EventTypes = {"value-change", "full-update"}
    MaxEvents = 2
PROPERTIES ListenAnswered AbandonedFreed
CHECK_DEADLOCK FALSE
