SPECIFICATION Spec
CONSTANTS
    MaxQueueLen = 2
    Retries = {0, 1}
    Requests = {r1, r2}
    PortIds = {p1}
    NoPort = noPort
    Debug = FALSE
    Activities = {"wifi"}
    MaxEvents = 2
INVARIANTS RetryBudget
