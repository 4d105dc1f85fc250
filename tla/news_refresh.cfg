CONSTANTS
    Record = {x1, x2}
    Req = {r1, r2}
    NoReq = NoReq
    MaxCluster = 2
    MaxStart = 3
SYMMETRY Symmetry
SPECIFICATION Spec
INVARIANTS
    TypeOK
    LockIsHeld
    AssignedIsStored
    AssignedIsRegistered
PROPERTIES
    NewsGoesForward
    ImplementsHeadlinePlacement
