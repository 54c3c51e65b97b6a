CONSTANTS
    k1 = k1
    k2 = k2
    r1 = r1
    r2 = r2
    r3 = r3
    r4 = r4
    Key = {k1, k2}
    Req = {r1, r2, r3, r4}
    LastWindow = 2
    WindowsPerDay = 1
    Ladder = {1, 3}
    Cost = 2
    OrgCeiling = 4
    Threshold = 2
    Allocation = 8
    Block = 4
    SweepLimit = 1
    MaxEvictions = 1
    MaxFaults = 1
SYMMETRY Symmetry
SPECIFICATION Spec
INVARIANTS
    EvidenceNeverAbsent
    TotalReported
    EmissionsDistinctInOrder
    EmissionsBounded
    EvidenceCeilingHeld
CHECK_DEADLOCK FALSE
