CONSTANTS
    NRecords = 2
    NInitialKeys = 1
    NOperations = 5
    Types = {"READ", "WRITE", "SCAN"}
    Distributions = {"ZIPFIAN"}
    ExpectedNewKeys = 3
    ScanLengths = {1, 2}
    r1 = r1
    r2 = r2
    Replica <- Two
SYMMETRY Symmetry
SPECIFICATION ReplicasSpec
INVARIANTS ReadsFindKeys StoresConverge SettledScansReadTheirKeys
