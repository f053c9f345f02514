SPECIFICATION Spec
CHECK_DEADLOCK FALSE
CONSTANTS
 Scenarios <- GateScenarios Home <- OnTwoPods
 Callers = {"p1", "p2", "p3"} Replicas = {"A", "B"}
 GrantTTL = 2 Jitter = 1 UsesCap = 2 CapTTL = 3 Subject = "sub"
 Binds = {"sub", "old@", "new@"} Sessions = {"s1", "s2"} Rights = {"read", "write", "admin"}
INVARIANTS FreshAfterBump StaleBounded BudgetKept NeverInflated
PROPERTIES RequestsAnswered
