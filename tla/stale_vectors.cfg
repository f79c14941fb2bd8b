SPECIFICATION IndexSpec
CONSTANTS
    p1 = p1
    p2 = p2
    old = old
    new = new
    m1 = m1
    m2 = m2
    x1 = x1
    x2 = x2
    Papers <- TwoPapers
    Wordings <- TwoWordings
    Indexers <- TwoIndexers
    Wires <- TwoWires
    EmbedModels <- TwoEmbedModels
    CommitEvery = 2
    MaxEditions = 2
    MaxNightRuns = 3
    MaxRestarts = 1
    Unpublished = Unpublished
    NoVector = NoVector
    NoIndexer = NoIndexer
CHECK_DEADLOCK FALSE
INVARIANT VectorsMatchTexts
