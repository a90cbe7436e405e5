SPECIFICATION JobSpec
CONSTANTS
    B = 4
    W16 = 16
    W32 = 256
    Ch = 16
    Programs <- ReadPrograms
    Configs <- Jobs
    MidJob = {}
INVARIANTS OnPixel RunsWhatIsWanted
PROPERTIES IsRegionScan LastStoreStarts
