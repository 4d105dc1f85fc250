CONSTANTS
    Days = {1, 2}
    Anchors = {1, 2}
    Direction = {"contradicts"}
    DirDay = 1
    Grace = 1
    RecentAge = 1
    FrozenAge = 1
    RecentTTL = 0
    OlderTTL = 1
    NoRow = NoRow
    NoTickers = NoTickers
    NoSnap = NoSnap
    NoDate = NoDate
    Never = Never
    Refresher = {f1}
    Revisitor = {v1}
    Daemon = daemon
    Free = Free
    ScanLimit = 1
    MaxEvent = 1
    MinTime = 1
    MaxTime = 2
    MaxFault = 0
SPECIFICATION Spec
INVARIANTS
    TypeOK
    VerdictMatchesTickers
    CapturedIsStored
    PassIsComplete
PROPERTIES
    CapturesKept
    ImplementsAtomicEvidence
