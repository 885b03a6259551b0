SPECIFICATION AsyncFairSpec
CONSTANTS
    Clients = {c1, c2}
    NoClient = noConn
    MaxRequests = 4
INVARIANTS ApiConnWaits OtaExclusive OwnAnswers
PROPERTIES AsyncAnswered
