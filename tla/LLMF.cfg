SPECIFICATION Spec
CONSTANTS
    Pixel = {0, 1}
    Inputs <- McInputs
INVARIANT OutputIsMedian
