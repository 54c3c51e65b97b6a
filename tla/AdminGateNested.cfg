SPECIFICATION GateSpec
SYMMETRY Symmetry
CONSTANTS
    revoke = revoke
    reset = reset
    theirs = theirs
    alice = alice
    bob = bob
    Binding <- MCBinding
    Principal <- MCPrincipal
    Owner <- MCOwner
    Does <- MCDoes
    Nested = {"reset"}
    Gate = {g1}
    NoReq = NoReq
    Req = {r1, r2, r3}
    Lifetime = 1
    DayLength = 1
    LastTime = 1
    Units = 2
    PrincipalCeiling = 5
    PlatformCeiling = 6
    Remaining = {5}
    Earlier = {2}
    MaxFaults = 1
INVARIANTS
    CredentialKept
CHECK_DEADLOCK FALSE
