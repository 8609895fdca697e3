SPECIFICATION FairSpec
CONSTANTS
    u1 = u1
    u2 = u2
    Users = {u1}
    NoUser = NoUser
    MaxPendingWrites = 2
    Verdicts = {TRUE, FALSE}
    FaultCodes = {"Unavailable", "Aborted"}
    Overtaking = TRUE
    MaxWrites = 2
    MaxChanges = 1
    MaxFaults = 1
INVARIANTS
    AppliedInOrder
    StoredIfTold
PROPERTIES
    Delivered
CHECK_DEADLOCK FALSE
