SPECIFICATION Spec
CONSTANTS
    Workers = {w1, w2}
    Dests = {d1, d2}
    NumEvents = 3
    BatchSize = 2
    PageCap = 2
    Overlap = 1
    Lookback = 1
    MaxFailures = 2
    Nobody = Nobody
INVARIANTS TypeOK CursorCovered ClaimsBacked
PROPERTIES EventuallyAccounted
VIEW FateView
