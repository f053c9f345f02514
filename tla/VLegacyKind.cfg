SPECIFICATION RegistrySpec
CHECK_DEADLOCK FALSE
CONSTANTS
 a = a
 b = b
 x = x
 y = y
 Names = {a}
 Replicas = {x, y}
 MaxSkew = 0
 Legacy = TRUE
 MaxTime = 3
 MaxEdits = 2
 MaxCreds = 2
INVARIANTS SubjectKindSound
