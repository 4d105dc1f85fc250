CONSTANTS
    Ticker = {t1}
    Start = {4}
    Period = 2
    MemoSize = 1
    Req = {r1, r2}
    NoReq = NoReq
    MaxDay = 4
SYMMETRY Symmetry
CONSTRAINT OneAccident
SPECIFICATION Spec
INVARIANTS
    TypeOK
    MemoBounded
    LookupLeavesMemo
    CompleteUpToOmissions
    AdjustedSettles
