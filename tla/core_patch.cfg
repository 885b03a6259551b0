SPECIFICATION Spec
CONSTANTS
    in = in
    out = out
    virt = virt
    Inputs = {in}
    Outputs = {out}
    VirtualPorts = {virt}
    SlowPorts = {}
    PersistedPorts = {}
    Exprs <- MCExprs
    NoExpr = noExpr
    Sequences <- MCSequences
    Undefined = undefined
    Activities = {"attributes"}
    MaxRequests = 2
INVARIANTS ExpressionsAlwaysFollow
