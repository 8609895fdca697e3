SPECIFICATION FairSpec
CONSTANTS
    Users = {ann, bob}
    NoUser = NoUser
    Revocable = FALSE
    MaxQueue = 3
    Radix = 2
    Names = {memo}
    NoName = NoName
    MaxTakes = 1
    MaxClock = 0
    MaxFailures = 0
    MaxLate = 0
    Recognizers = {"available"}
    MaxSaves = 1
PROPERTIES
    OverlayGoes
    SignInIsShown
