SPECIFICATION Spec
CONSTANTS
    MaxMsgs = 2
    MaxDrops = 2
    MaxCrashes = 0
    Malformed <- NoMalformed
    Faults <- Unannounced
INVARIANTS
    TypeOK
    RepliesMatchRequests
    NoSilentLoss
    StoredUntilSent
    DuplicatesExplained
    BeliefFollowsLink
    ConnectedImpliesSubscribed
