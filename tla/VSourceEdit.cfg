SPECIFICATION LifecycleSpec
CONSTANT Settings <- SourceEdit
INVARIANT SourceIsAuthoritative
