SPECIFICATION Spec
CONSTANTS
    NBanks = 1
    NCells = 1
    Lanes = {0, 1}
    Byte = {0, 1}
    Strobes = {{0}, {0, 1}}
    MaxIssued = 1
PROPERTIES IsMemoryPort
