CONSTANTS
    Headline = {h1}
    Context = {x1}
    Macro = {m1}
    Cluster = {c1}
    Title = {}
    Source = {s1}
    Unmapped = Unmapped
    DupWindow = 0
    LegacyTTL = 0
    Req = {r1}
    NoReq = NoReq
    NoCand = NoCand
    NoHash = NoHash
    ReadFaults = FALSE
    MaxId = 2
    MaxTime = 0
SPECIFICATION Spec
INVARIANT PaidRunIsSaved
