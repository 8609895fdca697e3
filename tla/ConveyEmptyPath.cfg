SPECIFICATION Spec
CONSTANTS
    Users = {ann}
    NoUser = NoUser
    Revocable = FALSE
    MaxQueue = 2
    Radix = 2
    Names = {memo}
    NoName = NoName
    MaxTakes = 1
    MaxClock = 0
    MaxFailures = 0
    MaxLate = 0
    Recognizers = {"available"}
    MaxSaves = 1
INVARIANTS
    PathIsNeverEmpty
