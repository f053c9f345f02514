CONSTANTS
    Procs = {p1, p2}
    Tokens = {t1, t2, t3}
    Clients = {c1, c2}
    NoToken = none
    RefreshTTL = 1
    MaxSessionAge = 1
    ReplayAttempts = 2
    FastBailout = 1
    MaxLogins = 1
    MaxTime = 2
    MaxFaults = 0
SYMMETRY Symmetric
SPECIFICATION Spec
INVARIANTS SessionConserved EndedIsFinal SingleLineage ClientBound ClosedStaysClosed
CHECK_DEADLOCK FALSE
