SPECIFICATION JobSpec
CONSTANTS
    B = 256
    W16 = 65536
    W32 = 16777216
    Ch = 0
    Programs <- WritePrograms
    Configs <- Jobs
    MidJob = {}
PROPERTIES LastStoreStarts
