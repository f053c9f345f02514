SPECIFICATION LifecycleSpec
CONSTANT Settings <- Edited
INVARIANTS ServesTheSpec
PROPERTIES ActiveJobKept
