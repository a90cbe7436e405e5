SPECIFICATION Spec
CONSTANTS
    N = 4
    Data = {d1}
    Unwritten = unwritten
    EagerReader = TRUE
PROPERTIES
    EmptyOnReset
