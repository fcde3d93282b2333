SPECIFICATION LinkSpec
CONSTANTS
    MaxMsgs = 1
    MaxDrops = 1
    Faults <- NoFaults
INVARIANT
    QuiescentBelief
