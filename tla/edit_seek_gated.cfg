SPECIFICATION Spec
CHECK_DEADLOCK FALSE
CONSTANTS
    Clip <- VideoFirst
    Total = 1
    ReadAhead = 1
    Soft = 1
    Hard = 2
    LowWater = 1
    RingCap = 1
    MaxOps = 3
    MaxFaults = 0
    MaxPending = 1
INVARIANTS
    SeekNeverGated
