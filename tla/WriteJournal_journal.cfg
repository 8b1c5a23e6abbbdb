SPECIFICATION Spec
CONSTANTS
    None = None
    Path = {p, q}
    Tracked = {p}
    Content <- MCContent
    Call = {c1, c2}
    MaxOps = 2
    MaxCaptures = 3
    MaxEdit = 1
    MaxAttempt = 2
    Faults = TRUE
SYMMETRY MCSymmetry
INVARIANTS EveryWriteIsJournaled ForeignEditConflicts ChainIsUnbroken
PROPERTY JournalGrows
