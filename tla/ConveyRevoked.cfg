SPECIFICATION GrantedSpec
CONSTANTS
    Users = {ann}
    NoUser = NoUser
    Revocable = TRUE
    MaxQueue = 2
    Radix = 2
    Names = {memo}
    NoName = NoName
    MaxTakes = 2
    MaxClock = 1
    MaxFailures = 0
    MaxLate = 0
    Recognizers = {"available"}
    MaxSaves = 1
INVARIANTS
    OneFlowUnderTheOverlay
    OneRecordPerSave
    UploadedAsAsked
