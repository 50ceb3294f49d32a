CONSTANTS
    Requests <- MCRequests
    TL = 2
    MaxMessages = 5
SPECIFICATION Spec
INVARIANTS VerticesCountWindow EdgesCountWindow TotalsMatch CutDataSound
