SPECIFICATION Spec
CONSTANTS
    b1 = b1
    b2 = b2
    theirs = theirs
    owner = owner
    clerk = clerk
    OrgWide = OrgWide
    Customer = {1, 2, 3, 4, 5}
    Business <- MCBusiness
    Outside = theirs
    Name = {1, 2}
    Mail = {1, 2}
    Principal = {owner, clerk}
    Grant <- MCGrants
    Assigned <- MCAssigned
    Req <- MCReq
    NewId <- MCNewId
    Input <- MCInput
    Tables <- MCTables
    PageSize = 1
    MaxFaults = 1
INVARIANTS
    LastAskedStands
    AnswerMatchesTrail
    DenialHasEvidence
    TenantIsolation
    WalkIsComplete
PROPERTIES
    FreshWriteIsLegal
CHECK_DEADLOCK FALSE
