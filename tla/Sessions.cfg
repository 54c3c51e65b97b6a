SPECIFICATION Spec
SYMMETRY Symmetry
CONSTANTS
    ann = ann
    ben = ben
    acme = acme
    s1 = s1
    s2 = s2
    s3 = s3
    Principal <- MCPrincipal
    Org <- MCOrg
    First <- MCFirst
    Req = {r1, r2}
    Asked <- MCAsked
    InitialSessions <- MCInitialSessions
    InitialMembers <- MCInitialMembers
    Lifetime = 2
    LastTime = 1
    MaxRevoked = 2
    MaxChanges = 1
    MaxFaults = 1
INVARIANTS
    ResetEndsOldKeys
    LogoutEnds
PROPERTIES
    AnswersWereTrue
    ImplementsLives
CHECK_DEADLOCK FALSE
