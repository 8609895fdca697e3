SPECIFICATION Spec
CONSTANTS
    Users = {ann, bob}
    NoUser = NoUser
    Revocable = TRUE
    MaxQueue = 3
    OtherBlocks = {}
    OtherCrashes = {}
SYMMETRY Accounts
INVARIANTS
    TypeOK
    OneRequest
    SignedOutStays
PROPERTIES
    DocForTheNewAccount
