SPECIFICATION Spec
CONSTANTS
    e1 = e1
    e2 = e2
    e3 = e3
    k1 = k1
    k2 = k2
    Events = {e1, e2, e3}
    Kinds = {k1, k2}
    KindOf <- MCKindOf
    Cap = 1
    Truncated = {e3}
    Dests = {d1, d2}
    DropNewest = {d2}
    Replays = {r1, r2}
    MaxRequests = 2
    MaxFaults = 1
CHECK_DEADLOCK FALSE
INVARIANTS TypeOK MarkedWasSent KindsRepresented
PROPERTIES DeletedForGood AcceptedSettles
