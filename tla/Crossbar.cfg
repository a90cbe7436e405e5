SPECIFICATION FairSpec
CONSTANTS
    MaxTrans = 2
    Memories = {"RAM1"}
    CpuAddrs <- McAddrs
    CpuData = {d1}
    Job <- McJob
    Blank = blank
INVARIANTS
    WordsInPlace
    ReadsFresh
    AnswersInOrder
    AnswersTaken
    OwnResponse
PROPERTIES
    CpuServed
    ScansEnd
