CONSTANTS
    Headline = {h1}
    Context = {x1}
    Macro = {m1, m2}
    Cluster = {c1}
    Title = {t1}
    Source = {s1, s2}
    Unmapped = Unmapped
    DupWindow = 0
    LegacyTTL = 0
    Req = {r1, r2}
    NoReq = NoReq
    NoCand = NoCand
    NoHash = NoHash
    ReadFaults = FALSE
    MaxId = 2
    MaxTime = 0
SYMMETRY LinkSymmetry
SPECIFICATION Spec
CONSTRAINT OnlyLinkingRuns
INVARIANTS
    SealedIsRecorded
    LinkedWasCommitted
PROPERTIES
    LinkNeverMoves
    RegistryForward
