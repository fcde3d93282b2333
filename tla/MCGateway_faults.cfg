SPECIFICATION Spec
CONSTANTS
    MaxMsgs = 3
    MaxDrops = 1
    MaxCrashes = 1
    Malformed <- OneMalformed
    Faults <- AllFaults
INVARIANTS
    NoSilentLoss
    StoredUntilSent
PROPERTY
    ImplementsStoreAndForward
