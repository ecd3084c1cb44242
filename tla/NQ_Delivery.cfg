SPECIFICATION Spec
CONSTANTS
    N = 2
    Kinds <- MCKinds
    MaxHandlers = 2
    MaxAttempts = 2
    Batch = 1
    MaxReports = 2
    MaxFaults = 1
INVARIANTS TypeOK ConfirmedIsDelivered
PROPERTIES VerdictsMoveForward EachIsSettled
CHECK_DEADLOCK FALSE
