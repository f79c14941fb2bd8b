SPECIFICATION Spec
CONSTANTS
    ann = ann
    bob = bob
    cat = cat
    hike1 = hike1
    hike2 = hike2
    Members <- Three
    Groups <- TwoGroups
    Organizer <- Organizers
    MaxMembers = 2
    AtOnce <- Both
    MaxActs = 1
    MaxRequests = 4
    MaxWalks = 1
    MaxVersion = 1

    Owner = ann
    Coauthors <- Friends
    s1 = s1
    SlowRequests <- OneSlow
    MaxChanges = 4

    q1 = q1
    q2 = q2
    Reviewers <- OnePerson
    ReviewRequests <- TwoRequests
    MaxReviews = 2
    MaxSayings = 2

    t1 = t1
    t2 = t2
    c1 = c1
    Calls <- TwoCalls
    Chats <- OneChat
    MessageLimit = 4
    MaxReplies = 1
    DailyBuilds = 1
    WeeklyBuilds = 2
    MaxNights = 1
    MaxProposals = 3

    e1 = e1
    e2 = e2
    Errands <- TwoErrands
    Readers <- OnePerson
    MaxComments = 1
    MaxEdits = 2

    cape = cape
    canyon = canyon
    spring = spring
    Sights <- TwoSights
    OwnPoints <- OneSpring
    VisitMinutes <- Visits
    RoadMinutes <- Roads
    Trips <- TwoTrips
    MaxStops = 3
    MaxChanged = 2

    sea = sea
    woods = woods
    town = town
    Interests <- TwoInterests
    Transports <- TwoTransports
    Towns <- OneTown
    Form <- FromForm
    Profile <- FromProfile
    Chips <- SomeChips
    Spoken <- SomeWords
    Proposed <- SomeProposed
    MaxTurns = 2
    None = None

    hill = hill
    shore = shore
    Hikes <- TwoHikes
    Worth <- SomeWorth
    DayParts = 2
    Cooldown = 2
    DailyCap = 3
    LastTick = 2
    MaxHikes = 3

    like = like
    self = self
    g1 = g1
    g2 = g2
    Likes <- OneLike
    Favourites <- OneOwn
    OwnReactions <- OneOwn
    Grants <- TwoGrants
    Ranks <- TwoRanks
    AwardPoints = 1
    RunPoints = 2
    MaxRuns = 1
    Unread = Unread
    NoGrant = NoGrant

    u1 = u1
    u2 = u2
    near = near
    far = far
    Callers <- TwoCallers
    Routes <- TwoRoutes
    Windows <- OneOrTwo
    FailureThreshold = 2
    BreakerCooldown = 2
    CacheTtl = 2
    CacheMaxItems = 1
    LastMoment = 3
SYMMETRY Mirrored
CHECK_DEADLOCK FALSE
INVARIANTS
    CommunityTypeOK SeatsAreSound
    ReviewsAreModerated QuotasKept ArticlesShowTheTruth
    DaysFollowTheNorms ConfirmedAsHeard ShownForTheWishesKept
    LimitsKept BreakerHoldsBack CachedRoutesAreFresh
PROPERTIES
    StartsOnTheGroupsVersion NeverEditedInPlace SentAfterTheLastSave WithdrawnPaysNothing
