\* Two pages and two batches, four calls, two faults, two edits, one damage, two policies.
SPECIFICATION Spec
CONSTANTS
    Pages = 2
    Batches = 2
    None = None
    Damaged = Damaged
    MaxCall = 4
    MaxFault = 2
    MaxEdit = 2
    MaxDamage = 1
    Policies = 2
INVARIANTS TellsOneDecision AcceptIsGrounded RepairFreezesPacket EvidenceIsOfOneJob CompletedHasEvidence
PROPERTIES CompletedBatchIsNotAskedAgain
CHECK_DEADLOCK FALSE
