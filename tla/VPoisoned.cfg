SPECIFICATION Spec
CHECK_DEADLOCK FALSE
CONSTANTS
 Settings <- Poisoned Versions = {1, 2} MaxGens = 3 Backoff = 1
 NoRefs = NoRefs NoObj = NoObj NoJob = NoJob NoImage = NoImage Prebuilt = Prebuilt
PROPERTY PoisonHeals
