SPECIFICATION LifecycleSpec
CONSTANTS
    None = None
    MaxResume = 4
    Outcomes <- MCOutcomes
INVARIANTS
    OnlyLateAbortIsRefused
    SuccessIsEarned
PROPERTY
    FactsAreFrozen
CHECK_DEADLOCK FALSE
