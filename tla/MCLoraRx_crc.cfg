SPECIFICATION FairSpec
CONSTANTS
    Kinds <- TextAndNoise
    MaxPackets = 2
    MaxFailures = 0
PROPERTY
    TextHeardAfterCrcError
