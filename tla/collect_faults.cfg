SPECIFICATION SpecLockLost
CONSTANTS
    Workers = {w1, w2}
    Dests = {d1}
    NumEvents = 2
    BatchSize = 2
    PageCap = 2
    Overlap = 1
    Lookback = 1
    MaxFailures = 1
    Nobody = Nobody
INVARIANTS ExclusiveProcessing NoCascade
SYMMETRY Symmetry
VIEW ProcessingView
