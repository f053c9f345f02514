CONSTANTS
    Procs = {p1, p2}
    Tokens = {t1, t2}
    Clients = {c1}
    NoToken = none
    RefreshTTL = 2
    MaxSessionAge = 1
    ReplayAttempts = 3
    FastBailout = 2
    MaxLogins = 1
    MaxTime = 1
    MaxFaults = 1
SPECIFICATION FairSpec
INVARIANTS MarkerOwned
PROPERTIES ImplementsSession EveryRequestAnswered
CHECK_DEADLOCK FALSE
