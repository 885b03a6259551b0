SPECIFICATION Spec
CONSTANTS
    TaskQueueSize = 3
    MaxSleep = 1800
    Intervals = {0, 4500}
    MaxUnexpResets = 1
    Hold = 0
    ResetHold = 1
    Garbage <- MCGarbage
    Budget = 2
INVARIANTS SleepsAsAsked OnePollChain
PROPERTIES ResetOnlyInLoop NetworkRegained
