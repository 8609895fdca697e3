SPECIFICATION Spec
CONSTANTS
    Users = {ann, bob}
    NoUser = NoUser
    OwnerOnly = TRUE
    MaxRecords = 1
    MaxChanges = 2
    MaxFaults = 2
SYMMETRY Accounts
INVARIANTS
    TypeOK
    NobodyElsesRecords
    
CHECK_DEADLOCK FALSE
