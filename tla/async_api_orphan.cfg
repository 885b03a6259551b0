SPECIFICATION AsyncSpec
CONSTANTS
    Clients = {c1, c2}
    NoClient = noConn
    MaxRequests = 3
INVARIANTS RightAnswer
