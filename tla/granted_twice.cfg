SPECIFICATION PointsSpec
CONSTANTS
    like = like
    favourite = favourite
    self = self
    g1 = g1
    g2 = g2
    Likes <- OneLike
    Favourites <- OneFavourite
    OwnReactions <- NoOwn
    Grants <- TwoGrants
    Ranks <- TwoRanks
    AwardPoints = 1
    RunPoints = 2
    MaxRuns = 0
    Unread = Unread
    NoGrant = NoGrant
CHECK_DEADLOCK FALSE
INVARIANT PaidOncePerReaction
