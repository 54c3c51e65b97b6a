SPECIFICATION GateSpec
SYMMETRY Symmetry
CONSTANTS
    revoke = revoke
    reset = reset
    theirs = theirs
    alice = alice
    bob = bob
    Binding <- MCBinding
    Principal <- MCPrincipal
    Owner <- MCOwner
    Does <- MCDoes
    Nested = {"reset"}
    Gate = {g1}
    NoReq = NoReq
    Req = {r1, r2, r3}
    Lifetime = 1
    DayLength = 1
    LastTime = 1
    Units = 2
    PrincipalCeiling = 6
    PlatformCeiling = 7
    Remaining = {3, 6}
    Earlier = {3}
    MaxFaults = 1
INVARIANTS
    SingleUse
    PerformedIsConfirmed
    CeilingsHeldInTurn
    
CHECK_DEADLOCK FALSE
