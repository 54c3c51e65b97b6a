CONSTANTS
    o1 = o1
    o2 = o2
    r1 = r1
    r2 = r2
    r3 = r3
    Org = {o1, o2}
    Req = {r1, r2, r3}
    LastDay = 2
    OrgCeiling = 3
    PlatformShare = 2
    Allocation = 2
    Block = 2
    Units = {1, 2}
    Evictable = FALSE
    LedgerFaults = FALSE
SYMMETRY Symmetry
SPECIFICATION Spec
INVARIANTS
    AllocationHeld
CHECK_DEADLOCK FALSE
