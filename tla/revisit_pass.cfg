CONSTANTS
    Days = {1}
    Anchors = {1}
    Direction = {}
    DirDay = 1
    Grace = 1
    RecentAge = 1
    FrozenAge = 1
    RecentTTL = 0
    OlderTTL = 1
    NoRow = NoRow
    NoTickers = NoTickers
    NoSnap = NoSnap
    NoDate = NoDate
    Never = Never
    Refresher = {}
    Revisitor = {}
    Daemon = daemon
    Free = Free
    ScanLimit = 2
    MaxEvent = 3
    MinTime = 1
    MaxTime = 1
    MaxFault = 1
SPECIFICATION FairSpec
INVARIANTS
    PassIsComplete
PROPERTIES
    DueIsTried
    EveryPassEnds
