CONSTANTS
    NPartitions = 3
    Keys <- ThreeKeys
    NInitialKeys = 1
    Requests <- OverlappingRequests
    Capacity = 1
    MaxEntries = 2
SPECIFICATION Spec
INVARIANTS NoCircleOfWaiting
PROPERTIES EveryRequestExecuted ImplementsOrderedExecution
