SPECIFICATION Spec
CONSTANTS
    Drains = {d1, d2}
    Events = {e1, e2}
    Blank = {}
    Garbled = {e2}
    LotSize = 1
    MaxPerRun = 1
    MaxGen = 2
    MaxFaults = 2
CHECK_DEADLOCK FALSE
INVARIANTS TypeOK NoRowLost
PROPERTY RequestedTried
