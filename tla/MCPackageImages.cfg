SPECIFICATION Spec
CHECK_DEADLOCK FALSE
CONSTANTS
 Settings <- AllSettings Versions = {1, 2} MaxGens = 3 Backoff = 1
 NoRefs = NoRefs NoObj = NoObj NoJob = NoJob NoImage = NoImage Prebuilt = Prebuilt
INVARIANT ReadyIsBuilt
PROPERTIES KnownGoodServed Delivered
