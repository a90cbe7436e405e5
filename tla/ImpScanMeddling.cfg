SPECIFICATION LiveSpec
CONSTANTS
    W16 = 8
    W32 = 16
    Configs <- Changing
    MidJob = {"config", "start"}
INVARIANTS TypeOK Lockstep
PROPERTIES JobEnds
