CONSTANTS
    Ahead <- MCAhead
    MaxMessages = 4
SPECIFICATION Spec
INVARIANTS NoUseAfterFree Reclaimed
PROPERTIES ImplementsTwoHeads EverythingPopped
