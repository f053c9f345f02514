CONSTANTS
  Procs = {p1}
  Tokens = {t1, t2, t3}
  Clients = {c1}
  NoToken = none
  RefreshTTL = 2
  MaxSessionAge = 1
  ReplayAttempts = 3
  FastBailout = 2
  MaxLogins = 1
  MaxTime = 1
  MaxFaults = 0
SYMMETRY Symmetric
SPECIFICATION Spec
INVARIANT LogoutTearsDownGrace
CHECK_DEADLOCK FALSE
