SPECIFICATION Spec
CONSTANTS
    ann = ann
    ben = ben
    mod = mod
    school = school
    clinic = clinic
    acme = acme
    newco = newco
    admin = admin
    plain = plain
    special = special
    Principal <- MCPrincipal
    InitialRoles <- MCInitialRoles
    Req = {r1, r2}
    Asked <- MCAsked
    Name = {"School", "Clinic"}
    Label = {plain, special}
    Template <- MCTemplate
    InitialTemplate <- MCInitialTemplate
    Org <- MCOrg
    InitialOrg <- MCInitialOrg
    Identifier = {admin}
    MaxGrants = 1
    MaxFaults = 1
SYMMETRY Symmetry
INVARIANTS
    TrailTellsStatus
    RecordedAsDone
PROPERTIES
    LastOperatorLeavesOnlyItself
    RetiredIsWithdrawn
    EditsKeepTheRest
