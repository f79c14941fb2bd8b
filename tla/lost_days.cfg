SPECIFICATION DaysSpec
CONSTANTS
    cape = cape
    canyon = canyon
    spring = spring
    Sights <- TwoSights
    OwnPoints <- OneSpring
    VisitMinutes <- Visits
    RoadMinutes <- Roads
    Trips <- OneFamily
    MaxStops = 3
    MaxChanged = 2
CHECK_DEADLOCK FALSE
INVARIANTS
    BreaksSurviveASave
