SPECIFICATION RegistrySpec
CHECK_DEADLOCK FALSE
CONSTANTS
 a = a
 b = b
 x = x
 y = y
 Names = {a}
 Replicas = {x, y}
 MaxSkew = 1
 Legacy = TRUE
 MaxTime = 3
 MaxEdits = 3
 MaxCreds = 2
INVARIANTS KindNeverChanges ReAddIsCleanSlate
