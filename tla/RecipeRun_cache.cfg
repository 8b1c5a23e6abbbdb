SPECIFICATION Spec
CONSTANTS
    None = None
    Damaged = Damaged
    Run = {r1, r2}
    Input = {a, b}
    Keep = 1
    MaxEdit = 1
    MaxFault = 1
    MaxDamage = 1
    MaxCrash = 1
    MaxLeft = 1
SYMMETRY MCSymmetry
INVARIANTS AcknowledgedIsFindable ExecutesOnce
CHECK_DEADLOCK FALSE
