\* Two sessions and two paths, three delegations of which two are no repairs, one fault or
\* restoration of the checkout.
SPECIFICATION Spec
CONSTANTS
    Paths = {p1, p2}
    Sessions = {s1, s2}
    None = None
    MaxTxn = 3
    MaxRoot = 2
    MaxFault = 1
SYMMETRY Symmetry
INVARIANTS UnacceptedWorkIsGuarded ChainIsSound
PROPERTIES ClosedIsNotRepaired
CHECK_DEADLOCK FALSE
