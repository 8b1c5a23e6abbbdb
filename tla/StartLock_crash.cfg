SPECIFICATION LockSpec
CONSTANTS
    Proc = {p1, p2}
    OwnerToken = {t1, t2, t3, t4}
    Absent = Absent
    MaxRecovery = 2
    MaxInc = 2
    IoFaults = TRUE
SYMMETRY Symmetry
CHECK_DEADLOCK FALSE
INVARIANTS
    LockTypeOK
    
    
    DeadVerdictIsFinal
