CONSTANTS
    Variants <- AllVariants
    Interval = 2
    Maps = {m1, m2, m3}
SPECIFICATION Spec
INVARIANTS ActiveAllocated HandoverExclusive NoLeak
PROPERTIES NoOldMap RoundEnds ImplementsRounds
