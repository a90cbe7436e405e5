SPECIFICATION LiveSpec
CONSTANTS
    N = 4
    Ops <- TwoOps
    PowerUp <- NoOp
    Credit = 4
INVARIANTS NothingLost
PROPERTIES IsFifo AreFifos Computed
