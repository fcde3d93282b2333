SPECIFICATION Spec
CONSTANTS
    Checksum <- StandInSum
    Payloads <- SomePayloads
    Ids = {51}
    NoiseBytes <- SomeNoise
    TxSpace = 14
    MAX_PAYLOAD = 4
    MaxFrames = 3
    MaxNoise = 2
INVARIANTS
    FramingTypeOK
    CleanFramesArrive
    StartsAreSent
PROPERTY
    DeliveredAsFramed
\* The run ends when MaxFrames frames have been received.
CHECK_DEADLOCK FALSE
