SPECIFICATION SpecLockLost
CONSTANTS
    Workers = {w1, w2}
    Dests = {d1}
    NumEvents = 2
    BatchSize = 2
    PageCap = 2
    Overlap = 0
    Lookback = 1
    MaxFailures = 1
    Nobody = Nobody
INVARIANTS NoLossAtRest
