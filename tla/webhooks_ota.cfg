SPECIFICATION Spec
CONSTANTS
    MaxQueueLen = 2
    Retries = {0, 1}
    Requests = {r1, r2}
    PortIds = {p1}
    NoPort = noPort
    Debug = TRUE
    Activities = {"ota"}
    MaxEvents = 3
INVARIANTS NoStall
