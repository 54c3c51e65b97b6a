CONSTANTS
    o1 = o1
    o2 = o2
    r1 = r1
    r2 = r2
    Org = {o1, o2}
    Req = {r1, r2}
    LastDay = 2
    OrgCeiling = 3
    PlatformShare = 2
    Allocation = 5
    Block = 3
    Units = {1, 2}
    Evictable = TRUE
    LedgerFaults = TRUE
SPECIFICATION FairSpec
INVARIANTS
    PermitConservation
    CreditBacked
PROPERTIES
    EveryReserveAnswered
CHECK_DEADLOCK FALSE
