CONSTANTS
    Headline = {h1}
    Context = {x1}
    Macro = {m1, m2}
    Cluster = {c1}
    Title = {}
    Source = {s1}
    Unmapped = Unmapped
    DupWindow = 0
    LegacyTTL = 1
    Req = {r1, r2}
    NoReq = NoReq
    NoCand = NoCand
    NoHash = NoHash
    ReadFaults = FALSE
    MaxId = 2
    MaxTime = 2
SYMMETRY Symmetry
SPECIFICATION Spec
INVARIANTS
    TypeOK
    CompleteBundle
    RequestIdentity
    LegacyAnswerUnmapped
    FreshIsAccountedFor
PROPERTIES
    SidecarsAppendOnly
    PaysOnlyForAMiss
