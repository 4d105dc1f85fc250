CONSTANTS
    Ticker = {t1}
    Start = {1}
    Period = 1
    MemoSize = 1
    Req = {r1, r2}
    NoReq = NoReq
    MaxDay = 2
SYMMETRY Symmetry
SPECIFICATION Spec
INVARIANT RawSettles
