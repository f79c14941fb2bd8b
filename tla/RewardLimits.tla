---------------------------- MODULE RewardLimits ----------------------------
(***************************************************************************)
(* What limits the points of one user's runs: the cooldown of a route and  *)
(* the cap of a Moscow day, at the time a run is settled.                  *)
(*                                                                         *)
(* A run is settled in one transaction that holds the users row, and the   *)
(* next one begins after that.  Time is counted in parts of a Moscow day.  *)
(* A completion may be told later than it was made.                        *)
(***************************************************************************)
EXTENDS Naturals, Sequences, FiniteSetsExt, SequencesExt

CONSTANTS
    Hikes,         \* routes
    Worth,         \* what a run may come to before the limits
    DayParts,      \* ticks in a day
    Cooldown,      \* af_route_points_cooldown_days, in ticks
    DailyCap,      \* af_daily_points_cap
    LastTick,      \* bound: the last tick
    MaxHikes       \* bound: runs

ASSUME WorthAssumption == Worth \subseteq Nat
ASSUME LimitsAssumption ==
    /\ DayParts \in Nat \ {0} /\ Cooldown \in Nat /\ DailyCap \in Nat
    /\ LastTick \in Nat /\ MaxHikes \in Nat

VARIABLES
    tick,
    limiting,   \* af_mode is enforce; in shadow the limits are only logged
    hike,       \* the going run: its route, beginning and night pauses, or none
    settlement  \* runs settled, in that order

limitVars == <<tick, limiting, hike, settlement>>

NoHike == [route |-> "none", began |-> 0, nights |-> 0]

LimitInit ==
    /\ tick = 0
    /\ limiting \in BOOLEAN
    /\ hike = NoHike
    /\ settlement = <<>>

Underway == hike # NoHike
SettledRuns == DOMAIN settlement
MoscowDay(t) == t \div DayParts

TimePasses ==
    /\ tick < LastTick
    /\ tick' = tick + 1
    /\ UNCHANGED <<limiting, hike, settlement>>

SetLimiting ==
    /\ limiting' = ~limiting
    /\ UNCHANGED <<tick, hike, settlement>>

SetOut(r) ==
    /\ ~Underway
    /\ Len(settlement) < MaxHikes
    /\ hike' = [route |-> r, began |-> tick, nights |-> 0]
    /\ UNCHANGED <<tick, limiting, settlement>>

\* A pause for the night, and on the next day the walk goes on.
SleepOver ==
    /\ Underway
    /\ hike.nights < MoscowDay(LastTick)
    /\ hike' = [hike EXCEPT !.nights = @ + 1]
    /\ UNCHANGED <<tick, limiting, settlement>>

----------------------------------------------------------------------------
(* settle_completion_points.                                               *)

\* What the first i settled runs come to, those of finished counted.
PointsOf(finished) ==
    LET upTo[i \in 0..Len(settlement)] ==
            IF i = 0 THEN 0
            ELSE upTo[i - 1] + (IF i \in finished THEN settlement[i].computed ELSE 0)
    IN  upTo[Len(settlement)]

CompletedRuns == {i \in SettledRuns : settlement[i].completed}
PaidRuns(r) == {i \in CompletedRuns : /\ settlement[i].route = r
                                  /\ settlement[i].status \in {"awarded", "held"}
                                  /\ settlement[i].computed > 0}

NewestPaid(r) == Max({settlement[i].at : i \in PaidRuns(r)})
CoolingDown(at) == PaidRuns(hike.route) # {} /\ at - NewestPaid(hike.route) < Cooldown

CalendarDays(at) ==
    IF hike.nights = 0 THEN 1
    ELSE Max({1, Min({MoscowDay(at) - MoscowDay(hike.began) + 1, hike.nights + 1})})

AwardedToday(at) ==  \* fault: what is held does not count
    PointsOf({i \in CompletedRuns : /\ MoscowDay(settlement[i].at) = MoscowDay(at)
                                /\ settlement[i].status = "awarded"})
ComputedToday(at) ==
    PointsOf({i \in CompletedRuns : MoscowDay(settlement[i].at) = MoscowDay(at)})
Remaining(at) == Max({0, DailyCap * CalendarDays(at) - ComputedToday(at)})

Allowed(points, at) ==
    IF ~limiting THEN points
    ELSE IF CoolingDown(at) THEN 0
    ELSE Min({points, Remaining(at)})

\* A flag parks what is left of the points; the flag is kept elsewhere.
Settle(completed, at, points) ==
    LET final == Allowed(points, at)
    IN \E flagged \in BOOLEAN :
          /\ settlement' = Append(settlement,
                [route |-> hike.route, completed |-> completed, at |-> at, computed |-> final,
                 status |-> IF final = 0 THEN "none"
                            ELSE IF flagged /\ limiting THEN "held" ELSE "awarded",
                 days |-> CalendarDays(at), limited |-> limiting])
          /\ hike' = NoHike
          /\ UNCHANGED <<tick, limiting>>

CompleteHike(at, points) == Underway /\ at \in hike.began..tick /\ Settle(TRUE, at, points)

\* Ended early, the run has no time of completion: it is settled as of now.
EndHikeEarly(points) == Underway /\ Settle(FALSE, tick, points)

\* decide_hold, of a run that is held; approving credits it.
DecideHike(i, status) ==
    /\ settlement[i].status = "held"
    /\ settlement' = [settlement EXCEPT ![i].status = status]
    /\ UNCHANGED <<tick, limiting, hike>>

LimitNext ==
    \/ TimePasses \/ SetLimiting \/ SleepOver
    \/ \E r \in Hikes : SetOut(r)
    \/ \E points \in Worth :
          EndHikeEarly(points) \/ \E at \in 0..LastTick : CompleteHike(at, points)
    \/ \E i \in SettledRuns, status \in {"awarded", "rejected"} : DecideHike(i, status)

LimitSpec == LimitInit /\ [][LimitNext]_limitVars
----------------------------------------------------------------------------
(* What holds.                                                             *)

LimitTypeOK ==
    /\ tick \in 0..LastTick
    /\ limiting \in BOOLEAN
    /\ hike \in [route: Hikes, began: 0..LastTick, nights: Nat] \union {NoHike}
    /\ settlement \in Seq([route: Hikes, completed: BOOLEAN, at: 0..LastTick, computed: Nat,
                           status: {"none", "awarded", "held", "rejected"}, days: Nat \ {0},
                           limited: BOOLEAN])

\* While the limits are enforced, what completed runs bring on a Moscow day,
\* held for review or not, is within the cap of the days the longest of them
\* was walked on, wherever midnight falls and however late it is told.
CompletedWithinCap ==
    \A d \in 0..MoscowDay(LastTick) :
        LET today == {i \in CompletedRuns : MoscowDay(settlement[i].at) = d}
        IN today # {} /\ (\A i \in today : settlement[i].limited)
           => PointsOf(today)
                <= DailyCap * Max({settlement[i].days : i \in today})

\* A route that was completed for points, on hold or not, brings none to a
\* later completion before the cooldown is over (_last_paid_completion).  A
\* moderator may reject the first and so make way for the second.
CompletedApart ==
    \A i, j \in CompletedRuns :
        /\ i < j /\ settlement[j].limited
        /\ settlement[i].route = settlement[j].route
        /\ settlement[i].status \in {"awarded", "held"}
        /\ settlement[i].computed > 0 /\ settlement[j].computed > 0
        => settlement[j].at - settlement[i].at >= Cooldown

\* Both limits together.
LimitsKept == CompletedWithinCap /\ CompletedApart
=============================================================================
