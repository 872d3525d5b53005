SPECIFICATION Spec
CONSTANTS
    t1 = t1
    t2 = t2
    t3 = t3
    l1 = l1
    l2 = l2
    Tasks = {t1, t2, t3}
    Loops = {l1, l2}
    LoopOf <- MCLoopOf
    Skew <- MCSkew
    Tokens <- MCTokens
    NoToken = NoToken
    Limits = {1, 2}
    Lease = 2
    MaxWait = 1
    MaxFaults = 1
CHECK_DEADLOCK FALSE
INVARIANTS TypeOK CapHeld PermitsConserved
PROPERTIES LeaksHeal NobodyStuck
