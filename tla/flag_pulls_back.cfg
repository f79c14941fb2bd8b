SPECIFICATION Spec
CONSTANTS
    r1 = r1
    r2 = r2
    w1 = w1
    w2 = w2
    Runs <- BothRuns
    Workers <- OneWorker
    MayIdle <- NoneIdles
    Modes <- Switching
    MaxMarks = 1
    CountedAt = 70
    NoRun = NoRun
    NoWorker = NoWorker
PROPERTY FlagPullsBack
