SPECIFICATION FairSpec
CONSTANTS
    in = in
    out = out
    virt = virt
    Inputs = {in}
    Outputs = {out}
    VirtualPorts = {virt}
    SlowPorts = {out}
    PersistedPorts = {virt}
    Exprs <- MCExprs
    NoExpr = noExpr
    Sequences <- MCSequences
    Undefined = undefined
    Activities = {"value", "attributes", "enabled", "virtual", "sequence", "restart", "ota", "peripherals"}
    MaxRequests = 4
INVARIANTS DepsCurrent SequenceExclusive LoopCheckExact ExpressionsFollow
PROPERTIES PortsSettle
