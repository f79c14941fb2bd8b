------------------------------ MODULE RouteDays ------------------------------
(***************************************************************************)
(* The days of a route: split by its norms, or where the author or an      *)
(* editor ended them.  Every request that changes the stops, the roads or  *)
(* the boundaries derives the rows of route_days anew.                     *)
(*                                                                         *)
(* A boundary is kept by the place of its stop: a save makes new rows of   *)
(* the stops.  A catalogue place is at most once on a draft, a point of    *)
(* the author's own may be there again.                                    *)
(***************************************************************************)
EXTENDS Naturals, Sequences, FiniteSets, SequencesExt, FiniteSetsExt

CONSTANTS
    Sights,       \* places of the catalogue
    OwnPoints,    \* points of the author's own
    VisitMinutes, \* recommended_visit_minutes of a place, 0 for none
    RoadMinutes,  \* what a leg may take, without the margin
    Trips,        \* pace, driven, children and daylight of a route
    MaxStops,     \* place_ids: max_length
    MaxChanged    \* bound: requests that change the route

Spots == Sights \union OwnPoints

ASSUME DaysAssumption ==
    /\ IsFiniteSet(Spots) /\ Sights \intersect OwnPoints = {}
    /\ VisitMinutes \in [Spots -> Nat]
    /\ RoadMinutes \subseteq Nat
    /\ Trips \subseteq [pace: {"calm", "moderate", "active"}, driven: BOOLEAN,
                        children: BOOLEAN, daylight: Nat]
    /\ MaxStops \in Nat /\ MaxChanged \in Nat

VARIABLES
    stops,   \* route_stops in order: place, visit_duration_minutes, time_of_day
    road,    \* what the router says of each two places
    norm,    \* day_norm_minutes
    breaks,  \* day_breaks: places
    byHand,  \* days_manual
    days,    \* route_days: first and last stop, overloaded
    changed  \* such requests so far

daysVars == <<stops, road, norm, breaks, byHand, days, changed>>

----------------------------------------------------------------------------
(* Days by the norms.                                                      *)

MealMinutes == 45
FourHours == 240

\* Minutes of a day: by pace, less with children, within the daylight (from
\* an hour after sunrise to an hour before sunset, six to fourteen hours).
DayNorm(trip) ==
    LET paced == CASE trip.driven -> 480 [] trip.pace = "calm" -> 300
                   [] trip.pace = "active" -> 480 [] OTHER -> 360
        usual == IF trip.children THEN (paced * 8) \div 10 ELSE paced
        window == Min({14 * 60, Max({6 * 60, trip.daylight - 120})})
    IN Min({usual, window})

VisitTime(stop) == Max({5, IF stop.visit = 0 THEN 45 ELSE stop.visit})
Apart(a, b, roads) == IF a = b THEN 0 ELSE roads[{a, b}]

\* The leg to the i-th stop with its margin of 15 %, rounded up.
LegTo(i, way, roads) == (Apart(way[i - 1].place, way[i].place, roads) * 115 + 99) \div 100
StepMinutes(i, way, roads) == LegTo(i, way, roads) + VisitTime(way[i])

PlannedDay(first, last, overloaded) == [first |-> first, last |-> last, overloaded |-> overloaded]

LoneStartOfAny(day, i) == day.first = i - 1  \* fault: no day is one stop
LoneStart(day, i) == day.days = <<>> /\ day.first = i - 1

\* split_days, from one stop to the next: a day is closed before a stop that
\* it has no room for, or where a stop asks for the night.
FirstStop(way) == [days |-> <<>>, first |-> 1, used |-> VisitTime(way[1]), overloaded |-> FALSE]
NextStop(was, i, way, roads, minutes) ==
    LET step == StepMinutes(i, way, roads)
        meal == IF was.used <= FourHours /\ was.used + step > FourHours THEN MealMinutes ELSE 0
        over == 10 * (was.used + step + meal) > 13 * minutes
        tooLong == LegTo(i, way, roads) > minutes
    IN IF \/ way[i].mark = "dawn" \/ way[i - 1].mark = "dark"
          \/ over /\ ~LoneStart(was, i)
       THEN [days |-> Append(was.days, PlannedDay(was.first, i - 1, was.overloaded)),
             first |-> i, used |-> step, overloaded |-> tooLong]
       ELSE [was EXCEPT !.used = @ + step + meal, !.overloaded = @ \/ tooLong]

SplitDays(way, roads, minutes) ==
    LET walk[i \in 1..Len(way)] ==
            IF i = 1 THEN FirstStop(way) ELSE NextStop(walk[i - 1], i, way, roads, minutes)
        end == walk[Len(way)]
    IN Append(end.days, PlannedDay(end.first, Len(way), end.overloaded))

\* days_from_breaks: the next boundary ends the day at the first stop of its
\* place; the last stop ends no day early.
DaysFromBreaks(way, places) ==
    LET walk[i \in 0..Len(way) - 1] ==
            IF i = 0 THEN [days |-> <<>>, first |-> 1, pending |-> places]
            ELSE LET was == walk[i - 1]
                 IN IF was.pending # <<>> /\ Head(was.pending) = way[i].place
                    THEN [days |-> Append(was.days, PlannedDay(was.first, i, FALSE)),
                          first |-> i + 1, pending |-> Tail(was.pending)]
                    ELSE was
        end == walk[Len(way) - 1]
    IN Append(end.days, PlannedDay(end.first, Len(way), FALSE))

\* refresh_route_structure.
Derived(way, roads, minutes, hand, places) ==
    IF hand THEN DaysFromBreaks(way, places) ELSE SplitDays(way, roads, minutes)

----------------------------------------------------------------------------
\* The rows of a save have no minutes; those of a generated route have the
\* recommended ones of their places.
Plain(places) == [i \in DOMAIN places |-> [place |-> places[i], visit |-> 0, mark |-> "any"]]
Generated(places) == [i \in DOMAIN places |-> [Plain(places)[i] EXCEPT !.visit = VisitMinutes[places[i]]]]
Pairs == kSubset(2, Spots)

\* What a save may send: two stops and more, every sight once.
Itineraries ==
    {places \in UNION {[1..n -> Spots] : n \in 2..MaxStops} :
        \A i, j \in DOMAIN places : i # j /\ places[i] = places[j] => places[i] \in OwnPoints}

DaysInit ==
    /\ \E places \in Itineraries : stops \in {Plain(places), Generated(places)}
    /\ road \in [Pairs -> RoadMinutes]
    /\ norm \in {DayNorm(trip) : trip \in Trips}
    /\ breaks = <<>> /\ byHand = FALSE
    /\ days = SplitDays(stops, road, norm)
    /\ changed = 0

BeforeTheLast == 1..Len(stops) - 1
\* The places of the chosen stops, in the order of the stops.
PlacesAt(chosen) ==
    LET upTo[i \in 0..Len(stops) - 1] ==
            IF i = 0 THEN <<>>
            ELSE IF i \in chosen THEN Append(upTo[i - 1], stops[i].place) ELSE upTo[i - 1]
    IN  upTo[Len(stops) - 1]

\* breaks_follow_the_stops: a place counts where it is visited last.
LastVisit(place, places) == Max({0} \union {i \in DOMAIN places : places[i] = place})
FollowTheStops(ends, places) ==
    /\ \A k \in DOMAIN ends : LastVisit(ends[k], places) \in 1..Len(places) - 1
    /\ \A k \in 1..Len(ends) - 1 : LastVisit(ends[k], places) < LastVisit(ends[k + 1], places)

\* save_user_route_draft: the stops are new rows, and without day_breaks in
\* the request (older apps) the boundaries stay as they are.
SaveRoute(places, trip, hand, ends) ==
    /\ stops' = Plain(places)
    /\ norm' = DayNorm(trip)
    /\ byHand' = hand
    /\ breaks' = ends
    /\ days' = Derived(stops', road, norm', hand, ends)
    /\ UNCHANGED road

SaveStops(places, trip) == SaveRoute(places, trip, byHand, breaks)

SaveWithBreaks(places, trip, ends) ==
    /\ FollowTheStops(ends, places)
    /\ SaveRoute(places, trip, ends # <<>>, ends)

\* set_user_route_days: the author ends a day after each of these stops; of
\* none, the route is one day.
EndDaysAfter(chosen) ==
    /\ breaks' = PlacesAt(chosen)
    /\ byHand' = TRUE
    /\ days' = DaysFromBreaks(stops, breaks')
    /\ UNCHANGED <<stops, road, norm>>

\* reset_user_route_days.
SplitAgain ==
    /\ breaks' = <<>> /\ byHand' = FALSE
    /\ days' = SplitDays(stops, road, norm)
    /\ UNCHANGED <<stops, road, norm>>

\* An editor's form has one box for a place, wherever it is on the route.
TickedStops(ticked) == {i \in BeforeTheLast : stops[i].place \in ticked}
EditorEndsDays(ticked) ==
    /\ breaks' = PlacesAt(TickedStops(ticked))
    /\ byHand' = (breaks' # <<>>)
    /\ days' = Derived(stops, road, norm, byHand', breaks')
    /\ UNCHANGED <<stops, road, norm>>

\* time_of_day is set beside the application; the next run start, which
\* refreshes the structure, follows it.
MarkTime(i, mark) ==
    /\ stops' = [stops EXCEPT ![i].mark = mark]
    /\ days' = Derived(stops', road, norm, byHand, breaks)
    /\ UNCHANGED <<road, norm, breaks, byHand>>

\* reroute_route: the router's answer is another one today.
Reroute(pair, minutes) ==
    /\ road' = [road EXCEPT ![pair] = minutes]
    /\ days' = Derived(stops, road', norm, byHand, breaks)
    /\ UNCHANGED <<stops, norm, breaks, byHand>>

DaysNext ==
    /\ changed < MaxChanged /\ changed' = changed + 1
    /\ \/ \E places \in Itineraries, trip \in Trips :
             \/ SaveStops(places, trip)
             \/ \E ends \in UNION {[1..n -> Spots] : n \in 0..2} : SaveWithBreaks(places, trip, ends)
       \/ \E chosen \in SUBSET BeforeTheLast : EndDaysAfter(chosen)
       \/ \E ticked \in SUBSET Spots : EditorEndsDays(ticked)
       \/ \E i \in DOMAIN stops, mark \in {"any", "dark", "dawn"} : MarkTime(i, mark)
       \/ \E pair \in Pairs, minutes \in RoadMinutes : Reroute(pair, minutes)
       \/ SplitAgain

DaysSpec == DaysInit /\ [][DaysNext]_daysVars
----------------------------------------------------------------------------
(* What holds.                                                             *)

DaysTypeOK ==
    /\ stops \in Seq([place: Spots, visit: Nat, mark: {"any", "dark", "dawn"}])
    /\ road \in [Pairs -> RoadMinutes]
    /\ norm \in Nat /\ breaks \in Seq(Spots) /\ byHand \in BOOLEAN
    /\ days \in Seq([first: Nat, last: Nat, overloaded: BOOLEAN])

\* The load of the stops from first to last in one day: legs and visits, and
\* a meal once they pass four hours after the day's first stop.
Minutes(i) == IF i = 1 THEN VisitTime(stops[1]) ELSE StepMinutes(i, stops, road)
WithoutMeal(first, last) ==
    LET upTo[i \in DOMAIN stops] == IF i <= first THEN Minutes(first) ELSE upTo[i - 1] + Minutes(i)
    IN  upTo[last]
DayMinutes(first, last) ==
    LET bare == WithoutMeal(first, last)
    IN bare + IF Minutes(first) <= FourHours /\ bare > FourHours THEN MealMinutes ELSE 0

RoomFor(first, last) == 10 * DayMinutes(first, last) <= 13 * norm
NightAfter(i) == stops[i].mark = "dark" \/ stops[i + 1].mark = "dawn"

\* Days by the norms take every stop once and in order; a night is where a
\* stop asks for it or where the day had no room for the next stop, never
\* after the first stop alone for want of room; no day is longer than 1.3
\* norms, unless it is one stop or the first two; and a day is marked as
\* overloaded when a leg into it takes longer than the norm.  This says of
\* the result what split_days computes stop by stop.
DaysFollowTheNorms ==
    ~byHand =>
        /\ days[1].first = 1 /\ days[Len(days)].last = Len(stops)
        /\ \A d \in DOMAIN days :
              LET first == days[d].first
                  last == days[d].last
              IN /\ first <= last
                 /\ d > 1 => first = days[d - 1].last + 1
                 /\ d < Len(days) => \/ NightAfter(last)
                                     \/ ~RoomFor(first, last + 1) /\ last > 1
                 /\ \A i \in first..last - 1 : ~NightAfter(i)
                 /\ RoomFor(first, last) \/ first = last \/ (first = 1 /\ last = 2)
                 /\ days[d].overloaded <=> \E i \in first..last : i > 1 /\ LegTo(i, stops, road) > norm

(* What the repository says and the code does not keep.                    *)

\* The boundaries whose places are still on the route.
KeptBreaks == SelectSeq(breaks, LAMBDA place : \E i \in DOMAIN stops : stops[i].place = place)
InVisitOrder(ends) ==
    \E visit \in [DOMAIN ends -> BeforeTheLast] :
        /\ \A k \in DOMAIN ends : stops[visit[k]].place = ends[k]
        /\ \A k \in 1..Len(ends) - 1 : visit[k] < visit[k + 1]

\* "a break whose place left the route is dropped" (days_from_breaks), "The
\* boundaries are kept by place, so they survive the author's next save of
\* the stops" (set_user_route_days): when the boundaries that are left come
\* in the order of the stops, every one of them ends a day.
BreaksSurviveASave ==
    byHand /\ InVisitOrder(KeptBreaks) => Len(days) = Len(KeptBreaks) + 1
=============================================================================
