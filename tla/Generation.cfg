CONSTANTS
    NRecords = 5
    NOperations = 3
    Types = {"READ", "UPDATE", "WRITE", "SCAN"}
    Distributions = {"UNIFORM", "ZIPFIAN", "LATEST"}
    ExpectedNewKeys = 3
    ScanLengths = {0, 2, 3, 5}
SPECIFICATION Spec
INVARIANTS KeysServed KeysDense
PROPERTY GenerationEndsUnlessTooLong
