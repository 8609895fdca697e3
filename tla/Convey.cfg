SPECIFICATION Spec
CONSTANTS
    Users = {ann, bob}
    NoUser = NoUser
    Revocable = FALSE
    MaxQueue = 2
    Radix = 2
    Names = {memo}
    NoName = NoName
    MaxTakes = 2
    MaxClock = 1
    MaxFailures = 0
    MaxLate = 0
    Recognizers = {"available", "unavailable"}
    MaxSaves = 2
SYMMETRY Accounts
INVARIANTS
    TypeOK
    OneFlowUnderTheOverlay
    OneRecordPerSave
    UploadedAsAsked
    OwnTakesOnly
    QueuedForItsOwner
    EmptyPathOnlyAfterSignOut
    Agreement
    NoSignInFormAfterSuccess
    OnlySignOutCrashes
