SPECIFICATION Spec
CONSTANTS
    Radix = 2
    Names = {memo}
    NoName = NoName
    MaxTakes = 1
    MaxClock = 1
    MaxFailures = 0
    MaxLate = 0
INVARIANTS
    FailedStartIsSurvived
