SPECIFICATION Spec
CONSTANTS
    d1 = d1
    d2 = d2
    Dests = {d1, d2}
    NoDest = NoDest
    Text = Text
    None = None
    Batch <- MCBatch
    RouteSets <- MCRouteSets
    Defaults = {NoDest, d1, d2}
    Samplings <- MCSamplings
    LoopDests = {d2}
    Residency <- MCResidency
    Lookups <- SomeLookups
INVARIANTS
    NoSilentLoss
    OneSafeCopy
    UnreachableSound
CHECK_DEADLOCK FALSE
