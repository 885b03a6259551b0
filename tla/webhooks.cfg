SPECIFICATION FairSpec
CONSTANTS
    MaxQueueLen = 2
    Retries = {0, 1}
    Requests = {r1, r2}
    PortIds = {p1}
    NoPort = noPort
    Debug = TRUE
    Activities = {"ota", "ports", "wifi", "patch", "bad host"}
    MaxEvents = 4
INVARIANTS OneChain RetryBudget LossesAccounted
PROPERTIES EventuallySettled
