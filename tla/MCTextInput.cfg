SPECIFICATION FairSpec
CONSTANTS
    Template <- GwTemplate
    Messages <- SomeMessages
    Modes <- AllModes
    MaxLines = 3
    MaxFailures = 1
INVARIANTS
    TextTypeOK
    WipedOnlyInWindow
    LinesInOrder
    WrittenAsTemplate
    RefusedForCause
PROPERTY
    EveryLineIsHandled
