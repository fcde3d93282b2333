SPECIFICATION FairSpec
CONSTANTS
    Kinds <- AllKinds
    Size <- TextSize
    Says <- TextSays
    SaysCut <- TextSaysCut
    NotText <- SecondIsNoText
    MaxCmds = 2
    MaxReadings = 3
    MaxDrops = 1
    MaxNoise = 1
    MaxCrashes = 1
INVARIANTS
    RemoteTypeOK
    ReadingsInOrder
PROPERTIES
    ImplementsChannel
    CommandsDelivered
    ReadingsHeard
