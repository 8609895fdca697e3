SPECIFICATION Spec
CONSTANTS
    Users = {ann}
    NoUser = NoUser
    Revocable = TRUE
    MaxQueue = 3
    OtherBlocks = {}
    OtherCrashes = {}
INVARIANTS
    SignOutIsHeard
