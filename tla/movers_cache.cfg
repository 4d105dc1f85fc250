CONSTANTS
    Slice = {weekly}
    ClearedOnDelete = {weekly}
    SliceTTL <- TTLs
    TodayTTL = 1
    TodayWindow = 0
    FallbackWindow = 1
    EdgeGrace = 0
    RecentLimit = 1
    Req = {r1, r2}
    Absent = Absent
    NoEntry = NoEntry
    NoData = NoData
    MaxEvent = 2
    MaxWrite = 3
    MaxTime = 1
    MaxVersion = 1
SYMMETRY Symmetry
CONSTRAINT OneSurface
SPECIFICATION Spec
INVARIANTS
    TypeOK
    CleanEntryIsCurrent
    HitWithinTTL
    CleanTodayIsCurrent
