SPECIFICATION FairSpec
CONSTANTS
    Kinds <- AllKinds
    MaxPackets = 3
    MaxFailures = 2
INVARIANTS
    LoraTypeOK
    WholePacketsInOrder
    NoCorruptMessage
PROPERTIES
    LastTextHeard
\* The thread may panic, and then nothing happens any more.
CHECK_DEADLOCK FALSE
