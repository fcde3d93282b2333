SPECIFICATION LiveSpec
CONSTANTS
    MaxMsgs = 2
    MaxDrops = 1
    MaxCrashes = 1
    Malformed <- NoMalformed
    Faults <- UploadFaults
PROPERTIES
    BacklogDrained
    StaysConnected
    BeliefConverges
