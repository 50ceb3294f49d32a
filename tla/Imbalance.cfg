CONSTANTS
    Partition = {p1, p2, p3}
    MaxSucessiveImbalances = 1
    ThresholdNumerator = 1
    ThresholdDenominator = 2
    MaxLength = 2
    MaxRequests = 4
SPECIFICATION Spec
INVARIANTS EvidenceActedOn RatioOfOneWindow
PROPERTIES RoundJustified
CHECK_DEADLOCK FALSE
