SPECIFICATION LifecycleSpec
CONSTANT Settings <- HiddenEdit
INVARIANT ReadyIsCurrent
