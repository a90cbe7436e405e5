SPECIFICATION Spec
CONSTANTS
    N = 2
    Ops <- TwoOps
    PowerUp <- NoOp
    Credit = 5
PROPERTIES OfferedUntilAcked
