SPECIFICATION Spec
CONSTANTS
    u1 = u1
    u2 = u2
    Users = {u1}
    NoUser = NoUser
    MaxPendingWrites = 3
    Verdicts = {TRUE, FALSE}
    FaultCodes = {"Unavailable"}
    Overtaking = TRUE
    MaxWrites = 3
    MaxChanges = 0
    MaxFaults = 0
INVARIANTS
    NotStoredIfRejected
CHECK_DEADLOCK FALSE
