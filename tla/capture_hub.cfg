SPECIFICATION PumpSpec
CONSTANTS
    Kinds = {"dxgi", "wgc"}
    MaxAttempts = 1
    MaxSessions = 1
    MaxGui = 3
    MaxFaults = 2
    MaxPending = 3
    Timeouts = TRUE
INVARIANTS
    AnsweredLeaseStands
    LastCommandStands
CHECK_DEADLOCK FALSE
PROPERTIES
    ImplementsLease
    LeaseAnswered
