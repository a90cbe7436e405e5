SPECIFICATION FairSpec
CONSTANTS
    N = 4
    Data = {d1, d2}
    Unwritten = unwritten
    EagerReader = FALSE
INVARIANTS
    TypeOK
    FlagsSafe
    IInv
PROPERTIES
    IsFifo
    WordSeen
    CellSeen
