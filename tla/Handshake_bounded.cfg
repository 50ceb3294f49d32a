CONSTANTS
    Distance = 5
    SemValueMax = 11
    Interval = 0
    MaxMessages = 5
SPECIFICATION Spec
INVARIANTS CopyExclusive CopyFresh
PROPERTIES ImplementsTwoHeads EverythingProcessed
