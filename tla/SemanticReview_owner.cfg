\* No fault, no damage: published evidence followed by a manual review.
SPECIFICATION Spec
CONSTANTS
    Pages = 2
    Batches = 2
    None = None
    Damaged = Damaged
    MaxCall = 4
    MaxFault = 0
    MaxEdit = 1
    MaxDamage = 0
    Policies = 2
INVARIANTS SoleSemanticOwner
CHECK_DEADLOCK FALSE
