SPECIFICATION FairSpec
CONSTANT Settings <- Settling
PROPERTY Settles
