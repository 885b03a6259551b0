SPECIFICATION Spec
CONSTANTS
    TaskQueueSize = 3
    MaxSleep = 1800
    Intervals = {0, 2940}
    MaxUnexpResets = 1
    Hold = 0
    ResetHold = 1
    Garbage <- MCGarbage
    Budget = 1
INVARIANT SleepsAsAsked
