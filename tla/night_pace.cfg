SPECIFICATION TimelineSpec
CONSTANTS
    Stops <- OneStop
    Optional <- NoneOptional
    LastInstant = 2
    Skew = 1
    Lag = 2
    IdleAfter = 2
    CountedAt = 70
    MaxPauses = 1
    Ids <- NoIds
    Deliveries <- NoDeliveries
    Closers <- NoClosers
    Tell <- Actions
    Never = Never
    NoId = NoId
CHECK_DEADLOCK FALSE
INVARIANT PaceSeesPauses
