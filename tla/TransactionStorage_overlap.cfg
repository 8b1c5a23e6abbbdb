SPECIFICATION Spec
CONSTANTS
    Proc = {p1, p2}
    Token = {t1, t2}
    None = None
    Kinds = {"implementation"}
    Stops = {"budget paused"}
    MaxResume = 3
    MaxRecovery = 1
    MaxCrash = 1
    Faults = TRUE
    Outcomes <- MCClean
INVARIANTS
    AcknowledgedIsDurable
    ProofIsOnDisk
PROPERTY
    ImplementsLifecycle
SYMMETRY Symmetry
