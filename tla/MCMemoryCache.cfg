SPECIFICATION Spec
CONSTANTS
    Keys = {k1, k2, k3}
    Gens = {g1, g2, g3}
    First = g1
    Scopes = {TRUE, FALSE}
    MaxItems = 2
    Uses = {2}
    MaxTTL = 1
    MaxTime = 2
    NoEntry = NoEntry
    MaxWrites = 4
INVARIANTS Evictable SingleWinner
SYMMETRY Symmetry
CHECK_DEADLOCK FALSE
