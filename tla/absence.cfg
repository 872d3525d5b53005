SPECIFICATION Spec
CONSTANTS
    NumKeys = 2
    Tickers = {t1, t2}
    Deadline = 1
    Grace = 0
    Forget = 2
    ObserverMaxAge = 1
    CycleMax = 0
    KeyCap = 1
    AlertBudget = 1
    MaxFaults = 1
INVARIANTS TypeOK OpenIsMarked
PROPERTIES  ForgottenWasAlerted AlertsEnd
