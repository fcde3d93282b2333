SPECIFICATION Spec
CONSTANTS
    MaxMsgs = 2
    MaxDrops = 2
    MaxCrashes = 0
    Malformed <- NoMalformed
    Faults <- NoFaults
INVARIANT
    StoredUntilSentAlways
