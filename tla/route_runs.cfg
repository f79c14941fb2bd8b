SPECIFICATION FairSpec
CONSTANTS
    r1 = r1
    r2 = r2
    w1 = w1
    w2 = w2
    Runs <- BothRuns
    Workers <- TwoWorkers
    MayIdle <- OneIdles
    Modes <- Unpunished
    MaxMarks = 1
    CountedAt = 70
    NoRun = NoRun
    NoWorker = NoWorker
INVARIANTS TypeOK OneLiveRun
PROPERTIES EndedIsFinal EveryRequestEnds
