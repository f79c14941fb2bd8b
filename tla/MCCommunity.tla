---------------------------- MODULE MCCommunity ----------------------------
(* The parts in which people make routes, walk them together, are paid for *)
(* it and write about it, side by side in one run.  They share no state    *)
(* and call no one of the others, so every behaviour moves one of them,    *)
(* the part, and the states of the run are the sum of theirs, not the      *)
(* product.                                                                *)
EXTENDS CompanionGroups, RoutePublication, RouteReviews, BuilderChat, Articles,
        RouteDays, BuilderTurns, RewardLimits, TravelPoints, ProviderCalls, TLC

CONSTANTS
    ann, bob, cat, hike1, hike2,  \* people and what they do together
    s1,                           \* a request about a route
    q1, q2,                       \* requests about reviews, of ann
    t1, t2, c1,                   \* calls and a chat
    e1, e2,                       \* requests about an article
    cape, canyon, spring,         \* stops of a route
    sea, woods, town,             \* what a person may wish of a trip
    hill, shore,                  \* routes that pay points
    like, self, g1, g2,           \* a reaction that pays, one that does not; two grants
    u1, u2, near, far             \* requests for a route, and what they ask

Three == {ann, bob, cat}
TwoGroups == {hike1, hike2}
Organizers == hike1 :> ann @@ hike2 :> bob
Both == {1, 2}
Friends == {bob, cat}
OneSlow == {s1}
OnePerson == {ann}
TwoRequests == {q1, q2}
TwoCalls == {t1, t2}
OneChat == {c1}
TwoErrands == {e1, e2}
TwoSights == {cape, canyon}
OneSpring == {spring}
Visits == cape :> 0 @@ canyon :> 120 @@ spring :> 0
Roads == {60, 300}
TwoTrips ==
    {[pace |-> "moderate", driven |-> FALSE, children |-> TRUE, daylight |-> 900],
     [pace |-> "calm", driven |-> TRUE, children |-> FALSE, daylight |-> 600]}
TwoInterests == {sea, woods}
TwoTransports == {"walk", "car"}
OneTown == {town}
FromForm == {[interests |-> {woods}, transport_mode |-> "walk", start_query |-> town, flexible_start |-> FALSE]}
FromProfile == "interests" :> {woods}
SomeChips == {"transport_mode" :> "car", "interests_add" :> {sea}, "flexible_start" :> TRUE}
SomeWords == {NoPatch, "interests_add" :> {sea}, "start_query" :> town}
SomeProposed ==
    {NoPatch, "transport_mode" :> "walk" @@ "interests_add" :> {woods}, "flexible_start" :> TRUE,
     "start_query" :> town}

TwoHikes == {hill, shore}
SomeWorth == {2}
OneLike == {like}
OneOwn == {self}
TwoGrants == {g1, g2}
TwoRanks == {0, 2}
TwoCallers == {u1, u2}
TwoRoutes == {near, far}
OneOrTwo == near :> 1 @@ far :> 2

VARIABLE part

walkVars == <<groupsVars, pubVars, reviewVars, chatVars, articleVars, daysVars>>
paidVars == <<limitVars, pointsVars>>
vars == <<part, walkVars, turnVars, paidVars, providerVars>>

Init ==
    /\ part \in {"groups", "publication", "reviews", "chat", "articles", "days", "turns",
                 "limits", "balance", "provider"}
    /\ GroupsInit /\ PubInit /\ ReviewsInit /\ ChatInit /\ ArticlesInit /\ DaysInit
    /\ TurnsInit /\ LimitInit /\ PointsInit /\ ProviderInit
    \* The other parts rest in one initial state of theirs.
    /\ part # "groups" => atOnce = 1
    /\ part # "reviews" => inTurn
    /\ part # "chat" => building
    /\ part # "articles" => oneAtATime
    /\ part # "turns" => confirmed = {}
    \* A bound: of the start both fields were filled in on the form, or none.
    /\ StartFields \subseteq confirmed \/ StartFields \intersect confirmed = {}
    /\ part # "limits" => limiting
    /\ part = "days" => \A pair, other \in Pairs : road[pair] = road[other]
    /\ part # "days" => stops = Plain(<<spring, spring>>) /\ norm = 288 /\ road = [pair \in Pairs |-> 60]

\* An article is commented on, or edited again: neither looks at the other.
EditedOrDiscussed == edits' <= 1 \/ comment' = [k \in Comments |-> NoComment]

\* A bound: where a request is slow, the owner has at most one co-author.
SlowAmongTwo == (\A s \in SlowRequests : stage'[s] = "waiting") \/ coauthor'[cat] = "none"

\* What each part leaves alone.
NotGroups == UNCHANGED <<pubVars, reviewVars, chatVars, articleVars, daysVars>>
NotPub == UNCHANGED <<groupsVars, reviewVars, chatVars, articleVars, daysVars>>
NotReviews == UNCHANGED <<groupsVars, pubVars, chatVars, articleVars, daysVars>>
NotChat == UNCHANGED <<groupsVars, pubVars, reviewVars, articleVars, daysVars>>
NotArticles == UNCHANGED <<groupsVars, pubVars, reviewVars, chatVars, daysVars>>
NotDays == UNCHANGED <<groupsVars, pubVars, reviewVars, chatVars, articleVars>>

WalkNext ==
    \/ part = "groups" /\ GroupsNext /\ NotGroups
    \/ part = "publication" /\ PubNext /\ SlowAmongTwo /\ NotPub
    \/ part = "reviews" /\ ReviewsNext /\ NotReviews
    \/ part = "chat" /\ ChatNext /\ NotChat
    \/ part = "articles" /\ ArticlesNext /\ EditedOrDiscussed /\ NotArticles
    \/ part = "days" /\ DaysNext /\ NotDays

PaidNext ==
    \/ part = "limits" /\ LimitNext /\ UNCHANGED pointsVars
    \/ part = "balance" /\ PointsNext /\ UNCHANGED limitVars

Next ==
    /\ UNCHANGED part
    /\ \/ WalkNext /\ UNCHANGED <<turnVars, paidVars, providerVars>>
       \/ part = "turns" /\ TurnsNext /\ UNCHANGED <<walkVars, paidVars, providerVars>>
       \/ PaidNext /\ UNCHANGED <<walkVars, turnVars, providerVars>>
       \/ part = "provider" /\ ProviderNext /\ UNCHANGED <<walkVars, turnVars, paidVars>>

Spec == Init /\ [][Next]_vars

\* In no part does it matter which of its two requests, or paying routes, is
\* which: all of them change names, or none.
Other == q1 :> q2 @@ q2 :> q1 @@ t1 :> t2 @@ t2 :> t1 @@ e1 :> e2 @@ e2 :> e1
         @@ g1 :> g2 @@ g2 :> g1 @@ u1 :> u2 @@ u2 :> u1 @@ hill :> shore @@ shore :> hill
Mirrored == {[x \in DOMAIN Other |-> IF same THEN x ELSE Other[x]] : same \in BOOLEAN}

CommunityTypeOK ==
    \/ part = "groups" /\ GroupsTypeOK
    \/ part = "publication" /\ PubTypeOK
    \/ part = "reviews" /\ ReviewsTypeOK
    \/ part = "chat" /\ ChatTypeOK
    \/ part = "articles" /\ ArticlesTypeOK
    \/ part = "days" /\ DaysTypeOK
    \/ part = "turns" /\ TurnsTypeOK
    \/ part = "limits" /\ LimitTypeOK
    \/ part = "balance" /\ PointsTypeOK
    \/ part = "provider" /\ ProviderTypeOK
=============================================================================
