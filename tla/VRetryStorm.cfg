SPECIFICATION FairSpec
CONSTANT Settings <- OnlyFailures
PROPERTY FailureSurfaces
