SPECIFICATION Spec
CONSTANTS
    MaxMsgs = 1
    MaxDrops = 0
    MaxCrashes = 0
    Malformed <- NoMalformed
    Faults <- QueryFault
INVARIANT
    QueryIsAnswered
