CONSTANTS
    k1 = k1
    k2 = k2
    r1 = r1
    r2 = r2
    r3 = r3
    r4 = r4
    Key = {k1, k2}
    Req = {r1, r2, r3, r4}
    LastWindow = 2
    WindowsPerDay = 2
    Ladder = {1, 3}
    Cost = 2
    OrgCeiling = 12
    Threshold = 6
    Allocation = 12
    Block = 4
    SweepLimit = 8
    MaxEvictions = 0
    MaxFaults = 0
SYMMETRY Symmetry
SPECIFICATION Spec
INVARIANTS
    EmissionsDistinct
CHECK_DEADLOCK FALSE
