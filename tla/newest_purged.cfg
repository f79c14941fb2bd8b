SPECIFICATION SnapSpec
CONSTANTS
    s1 = s1
    s2 = s2
    s3 = s3
    before = before
    after = after
    Looks <- TwoContents
    Starts <- ThreeStarts
    MaxBatches = 2
    MaxRows = 3
    NoSnapshot = NoSnapshot
    NoStart = NoStart
CHECK_DEADLOCK FALSE
PROPERTY NewestIsKept
