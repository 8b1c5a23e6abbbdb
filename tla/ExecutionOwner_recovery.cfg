SPECIFICATION FairSpec
CONSTANTS
    None = None
    p1 = p1
    p2 = p2
    r1 = r1
    r2 = r2
    Proc = {p1, p2}
    Exec = {e1, e2}
    Recon = {r1, r2}
    Home <- MCApart
    MaxCrash = 1
    MaxFault = 1
INVARIANTS LiveExecutionIsNotStopped OneWriter AbortedIsUnwritten
PROPERTIES PersistsAreLegal SettledLaneIsFreed
CHECK_DEADLOCK FALSE
