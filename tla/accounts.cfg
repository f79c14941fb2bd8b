SPECIFICATION Spec
CONSTANTS
    s1 = s1
    s2 = s2
    s3 = s3
    before = before
    after = after
    Looks <- TwoContents
    Starts <- ThreeStarts
    MaxBatches = 2
    MaxRows = 3
    NoSnapshot = NoSnapshot
    NoStart = NoStart

    a1 = a1
    a2 = a2
    a3 = a3
    Askers <- ThreeAskers
    MaxCodes = 3

    w1 = w1
    w2 = w2
    Workers <- TwoWorkers
    MaxAttempts = 2
    MaxJobs = 1
    MaxCrashes = 1

    FlagAt = 2
    FlagWindow = 1
    BlockAt = 3
    BlockWindow = 2
    Ladder <- TwoSteps
    Memory = 3
    Lookback = 4
    HandBlocks <- HandHours
    Horizon = 6
    MaxViolations = 5

    i1 = i1
    i2 = i2
    d1 = d1
    d2 = d2
    c1 = c1
    Stops <- TwoStops
    Optional <- FirstOptional
    LastInstant = 3
    Skew = 1
    Lag = 2
    IdleAfter = 2
    CountedAt = 70
    MaxPauses = 1
    Ids <- TwoIds
    Deliveries <- TwoDeliveries
    Closers <- OneCloser
    Tell <- Actions
    Never = Never
    NoId = NoId

    p1 = p1
    p2 = p2
    first = first
    second = second
    m1 = m1
    m2 = m2
    x1 = x1
    x2 = x2
    Papers <- TwoPapers
    Wordings <- TwoWordings
    Indexers <- TwoIndexers
    Wires <- TwoWires
    EmbedModels <- TwoEmbedModels
    CommitEvery = 2
    MaxEditions = 1
    MaxNightRuns = 3
    MaxRestarts = 1
    Unpublished = Unpublished
    NoVector = NoVector
    NoIndexer = NoIndexer

    f1 = f1
    f2 = f2
    Exchanges <- TwoExchanges
    MaxTokens = 3
    NoExchange = NoExchange

    explorer = explorer
    q1 = q1
    upkeep = upkeep
    Badges <- OneBadge
    Occasions <- OneOccasion
    Upkeep = upkeep
    JobsBack = 2
    MaxFailures = 1
    MaxRevoked = 1

    h1 = h1
    h2 = h2
    h3 = h3
    Questions <- ThreeQuestions
    MaxWaiting = 2

    o1 = o1
    o2 = o2
    Operators <- TwoOperators
    Revisions <- TwoRevisions
    ReviewDays = 1
    LastDay = 2
    MaxEditorial = 4
    NoErrand = NoErrand
CHECK_DEADLOCK FALSE
INVARIANTS
    AccountsTypeOK SnapshotsServeStarts PunishedOnceAndInTime
    HistoryIsSound ChangesAtMostOnce GoodNightCoversAll ToldOnce
PROPERTIES OneMessageEach OneCodeAtATime FamiliesEndForGood SlotGoesRound OverForGood EveryJobEnds OnlyLiftedShortens EndedIsFrozen
    EarnedIsGranted AnyQuestionIsAnswered ShownAgainOnlyWhenReread
