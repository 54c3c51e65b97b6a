SPECIFICATION Spec
SYMMETRY Symmetry
CONSTANTS
    Org = {o1, o2, o3}
    Actor = {u1, u2}
    Source = {a}
    ActorLimit = 1
    OrganizationLimit = 2
    SourceLimit = 2
    ReportInterval = 2
    Keep = 0
    EntryPoint <- MCEntryPoint
    EntryLimit <- MCEntryLimit
    Bucket = {b}
    IdentifierLimit = 1
    Limiter = {l}
    Req = {r1, r2, r3}
    Setups <- MCSetups
    LastWindow = 1
    MaxEvictions = 1
    MaxFaults = 1
INVARIANTS
    RateBounded
    SourceHeldWhenPrompt
    AttemptsBounded
    RefusalsLeaveTrace
CHECK_DEADLOCK FALSE
