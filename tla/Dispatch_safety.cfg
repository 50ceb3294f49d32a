CONSTANTS
    NPartitions = 2
    Keys <- ThreeKeys
    NInitialKeys = 0
    Requests <- MixedRequests
    Capacity = 0
    MaxEntries = 3
SPECIFICATION Safety
INVARIANTS ConflictOrder ScanIsolation EpochOrder BarrierAlive
