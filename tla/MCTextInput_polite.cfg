SPECIFICATION Spec
CONSTANTS
    Template <- GwTemplate
    Messages <- OneMessage
    Modes <- OnlyPolite
    MaxLines = 1
    MaxFailures = 0
INVARIANT
    PoliteLinesAreRead
