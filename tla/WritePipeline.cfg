SPECIFICATION Spec
CONSTANTS
    u1 = u1
    u2 = u2
    Users = {u1, u2}
    NoUser = NoUser
    MaxPendingWrites = 2
    Verdicts = {TRUE, FALSE}
    FaultCodes = {"Aborted"}
    Overtaking = FALSE
    MaxWrites = 3
    MaxChanges = 1
    MaxFaults = 1
SYMMETRY Symmetry
INVARIANTS
    TypeOK
    NoAssertionFails
    PipelineIsFull
    NeverStalls
    ResultsInStep
    OpenedForItsOwner
    RefusedOnItsMerits
    CallbackOfItsWrite
PROPERTIES
    KeepsItsPromise
CHECK_DEADLOCK FALSE
