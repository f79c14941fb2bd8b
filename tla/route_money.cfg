SPECIFICATION Spec
CONSTANTS
    r1 = r1
    r2 = r2
    w1 = w1
    w2 = w2
    Runs <- BothRuns
    Workers <- OneWorker
    MayIdle <- OneIdles
    Modes <- Switching
    MaxMarks = 2
    CountedAt = 70
    NoRun = NoRun
    NoWorker = NoWorker
INVARIANTS NeverOverpaid HoldsAreSound
PROPERTY KeepsLedger
