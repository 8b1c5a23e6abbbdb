SPECIFICATION Spec
CONSTANTS
    Caller = {c1, c2, c3}
    Token = {t1, t2}
    MaxLate = 1
    Foreign = Foreign
    None = None
    Faults = TRUE
SYMMETRY Symmetry
INVARIANTS
    TypeOK
    RunningHoldsLane
    CountedBorrowerHoldsLane
    OnlySettledIsReleased
