SPECIFICATION Spec
CONSTANTS
    Radix = 2
    Names = {memo}
    NoName = NoName
    MaxTakes = 2
    MaxClock = 9
    MaxFailures = 2
    MaxLate = 1
INVARIANTS
    TypeOK
    StopFindsRecorder
    OneTimerLostPerFailure
    
    TimeOfThePromptedTake
