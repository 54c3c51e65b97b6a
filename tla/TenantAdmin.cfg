SPECIFICATION Spec
SYMMETRY Symmetry
CONSTANTS
    olga = olga
    adam = adam
    mia = mia
    noor = noor
    desk = desk
    r1 = r1
    r2 = r2
    MembershipRole <- MCRole
    Permission <- MCPermission
    Critical = {"move"}
    Envelope <- MCPermission
    Grants <- MCGrants
    Name <- MCName
    Vocabulary <- MCVocabulary
    OrganizationShaped = {"organization_id"}
    Identifier <- MCIdentifier
    Base = "organization"
    MaxPageSize = 2
    Principal <- MCPrincipal
    Custom <- MCCustom
    Req = {r1, r2}
    Tables <- MCTables
    Asked <- MCAsked
    Handled <- MCHandled
    InitialRole <- MCInitialRole
    InitialAssigned <- MCInitialAssigned
    InitialContent <- MCInitialContent
    Definable = {{"write"}, {"move"}}
    Invitation <- MCInvitation
    InitialInvitations <- MCInitialInvitations
    Lifetime = 1
    SweepLimit = 1
    PageSize = 1
    MaxTime = 1
    MaxChanges = 1
    MaxFaults = 1
INVARIANTS
    RegisteredIsServed
    EffectIsEntitled
    OfferWithinReach
    AnsweredAsRecorded
    WalkIsWhole
PROPERTIES
    ImplementsLives
