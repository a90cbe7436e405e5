SPECIFICATION Spec
CONSTANTS
    ADR_BIT = 3
    Data = {d1}
    Unwritten = unwritten
PROPERTY
    IsAsyncFifo
