SPECIFICATION BreakerSpec
CONSTANTS
    Workers = {w1, w2, w3}
    Threshold = 2
    Cooldown = 2
    Window = 3
    SendMax = 1
INVARIANTS BreakerTypes BlackoutBounded
PROPERTY SendsContinue
