SPECIFICATION FairSpec
CONSTANTS
    None = None
    SoftTurns = 2
    HardTurns = 3
    MaxTurns = 3
    MaxPipe = 2
    MaxWork = 1
    MaxAttempt = 2
    MaxFault = 1
    MaxResume = 1
INVARIANTS SettledIsQuiet ContinuationIsBound SpendIsCountedOnce SuccessIsClean
PROPERTY AttemptSettles
CHECK_DEADLOCK FALSE
