SPECIFICATION LiveSpec
CONSTANTS
    NBanks = 2
    NCells = 1
    Lanes = {0}
    Byte = {0, 1}
    Strobes = {{0}}
    MaxIssued = 2
INVARIANTS IInv
PROPERTIES IsMemoryPort WritesLand
