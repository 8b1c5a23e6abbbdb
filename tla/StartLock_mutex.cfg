SPECIFICATION LockSpec
CONSTANTS
    Proc = {p1, p2, p3}
    OwnerToken = {t1, t2, t3, t4}
    Absent = Absent
    MaxRecovery = 2
    MaxInc = 1
    IoFaults = FALSE
SYMMETRY Symmetry
CHECK_DEADLOCK FALSE
INVARIANTS
    MutualExclusion
