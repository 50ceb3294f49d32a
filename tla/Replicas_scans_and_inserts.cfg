CONSTANTS
    NRecords = 2
    NInitialKeys = 2
    NOperations = 6
    Types = {"WRITE", "SCAN"}
    Distributions = {"ZIPFIAN"}
    ExpectedNewKeys = 3
    ScanLengths = {1}
    r1 = r1
    r2 = r2
    Replica <- Two
SYMMETRY Symmetry
SPECIFICATION ReplicasSpec
INVARIANTS ReplicasAgree
