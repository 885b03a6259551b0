SPECIFICATION NetSpec
CONSTANTS
    c1 = c1
    c2 = c2
    Conns = {c1, c2}
    NoConn = NoConn
    Slots = {0, 1}
    NoSlot = NoSlot
    Messages <- MCMessages
    NotARequest = NotARequest
    MaxBodyLen = 3
    MaxFieldLen = 2
    ResponseLens = {1, 3}
    MaxRefusals = 1
    Requests = {r1, r2}
    MaxLosses = 1
    Passwords = {"empty", "secret"}
    NoPassword = "empty"
    Methods = {"GET", "PATCH"}
    Paths <- MCPaths
    PortIds = {"p"}
INVARIANTS ContextsOwned HandledAsSent WholeResponse
PROPERTIES ContextFreed CalledOnce CalledInTime CallsEarned
