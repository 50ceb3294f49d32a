CONSTANTS
    Distance = 0
    SemValueMax = 9
    Interval = 1
    MaxMessages = 5
SPECIFICATION Spec
INVARIANTS NoOverflow
PROPERTIES EverythingProcessed
