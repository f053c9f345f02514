SPECIFICATION RegistrySpec
CHECK_DEADLOCK FALSE
CONSTANTS
 a = a
 b = b
 x = x
 y = y
 Names = {a}
 Replicas = {x, y}
 MaxSkew = 0
 Legacy = FALSE
 MaxTime = 6
 MaxEdits = 4
 MaxCreds = 2
INVARIANTS CleanSlate
