---------------------------- MODULE TravelPoints ----------------------------
(***************************************************************************)
(* The travel points and the rank of one user, as likes of the profile,    *)
(* favourites of the user's routes, and route runs change them.            *)
(*                                                                         *)
(* A route run is settled, and points are taken back, in one transaction   *)
(* that holds the users row from before it reads it.  Reactions are paid   *)
(* by whichever request comes along (grant_due_travel_points), from a row  *)
(* read without a lock: an UPDATE then waits for the lock, and writes the  *)
(* columns that differ from what was read, as values.                      *)
(*                                                                         *)
(* Data: a reaction is made at most once; a run is worth RunPoints; a rank *)
(* is the points it begins at.                                             *)
(***************************************************************************)
EXTENDS Integers, FiniteSetsExt

CONSTANTS
    Likes,       \* likes of the profile
    Favourites,  \* favourites of the user's routes
    OwnReactions,\* those of the user or a co-author, which pay nothing
    Grants,      \* requests that pay reactions, in flight at once
    Ranks,       \* the points each rank begins at
    AwardPoints, RunPoints,
    MaxRuns,     \* bound: runs settled, and times points are taken back
    Unread, NoGrant

Reactions == Likes \union Favourites

ASSUME ReactionsAssumption == Likes \intersect Favourites = {} /\ OwnReactions \subseteq Favourites
ASSUME PointsAssumption == AwardPoints \in Nat /\ RunPoints \in Nat /\ MaxRuns \in Nat
ASSUME RanksAssumption == Ranks \subseteq Nat /\ 0 \in Ranks
ASSUME PointsNullsAssumption == NoGrant \notin Grants

VARIABLES
    user,      \* the row of users: points and rank
    reaction,  \* reaction[x]: where its row stands
    awarded,   \* reactions with awarded_at or author_points_awarded_at
    grant,     \* grant[g]: what request g has read, and has not committed yet
    rowHeldBy, \* the grant whose UPDATE holds the users row
    runs,      \* how many runs were settled, and how often points taken back
    grants,    \* history: grants[x]: commits that paid reaction x
    settled,   \* history: points of settled runs
    reclaimed  \* history: points taken back

pointsVars == <<user, reaction, awarded, grant, rowHeldBy, runs, grants, settled, reclaimed>>
counts == <<runs, settled, reclaimed>>

IdleGrant == [stage |-> "idle", row |-> Unread, due |-> {}, marked |-> {}, paid |-> {}]

PointsInit ==
    /\ user = [points |-> 0, rank |-> 0]
    /\ reaction = [x \in Reactions |-> "none"]
    /\ awarded = {}
    /\ grant = [g \in Grants |-> IdleGrant]
    /\ rowHeldBy = NoGrant
    /\ runs = [settled |-> 0, taken |-> 0]
    /\ grants = [x \in Reactions |-> 0]
    /\ settled = 0
    /\ reclaimed = 0

\* _sync_rank: the highest rank the points reach; the first needs none.
RankOf(points) == Max({p \in Ranks : p = 0 \/ p <= points})
WithPoints(points) == [points |-> points, rank |-> RankOf(points)]

----------------------------------------------------------------------------
(* Reactions.                                                              *)

React(x) ==
    /\ reaction[x] = "none"
    /\ reaction' = [reaction EXCEPT ![x] = "fresh"]
    /\ UNCHANGED <<user, awarded, grant, rowHeldBy, counts, grants>>

\* AWARD_DELAY goes by.
Ripen(x) ==
    /\ reaction[x] = "fresh"
    /\ reaction' = [reaction EXCEPT ![x] = "due"]
    /\ UNCHANGED <<user, awarded, grant, rowHeldBy, counts, grants>>

\* Rows a grant has updated are locked until it is through.
Updated == UNION {grant[g].marked : g \in Grants}

\* unlike_profile, remove_favorite_route: points that were paid stay.
WithdrawReaction(x) ==
    /\ reaction[x] \in {"fresh", "due"}
    /\ x \notin Updated
    /\ reaction' = [reaction EXCEPT ![x] = "gone"]
    /\ UNCHANGED <<user, awarded, grant, rowHeldBy, counts, grants>>

----------------------------------------------------------------------------
(* grant_due_travel_points.                                                *)

DueAmong(S) == {x \in S : reaction[x] = "due"} \ awarded

\* The likes are listed; the user's row may have been read long before.
ListLikes(g) ==
    /\ grant[g].stage = "idle"
    /\ grant' = [grant EXCEPT ![g].stage = "likes", ![g].due = DueAmong(Likes)]
    /\ UNCHANGED <<user, reaction, awarded, rowHeldBy, counts, grants>>

ReadUser(g) ==
    /\ grant[g].row = Unread
    /\ grant' = [grant EXCEPT ![g].row = user]
    /\ UNCHANGED <<user, reaction, awarded, rowHeldBy, counts, grants>>

LiveOrGone(S) == TRUE  \* fault: a withdrawn reaction is marked and paid
StillThere(S) == \A x \in S : reaction[x] = "due"

\* Points are added to the row as this request sees it; the UPDATE locks it.
Pay(g, S, next) ==
    /\ StillThere(S)
    /\ IF S \ OwnReactions = {} THEN UNCHANGED rowHeldBy
       ELSE rowHeldBy \in {NoGrant, g} /\ grant[g].row # Unread /\ rowHeldBy' = g
    /\ grant' = [grant EXCEPT ![g].stage = next, ![g].due = {},
                              ![g].marked = @ \union S, ![g].paid = @ \union (S \ OwnReactions)]
    /\ UNCHANGED <<user, reaction, awarded, counts, grants>>

PayLikes(g) == grant[g].stage = "likes" /\ Pay(g, grant[g].due, "listing")

\* The favourites are listed after the likes are paid.
ListFavourites(g) ==
    /\ grant[g].stage = "listing"
    /\ grant' = [grant EXCEPT ![g].stage = "favourites", ![g].due = DueAmong(Favourites)]
    /\ UNCHANGED <<user, reaction, awarded, rowHeldBy, counts, grants>>

PayFavourites(g) == grant[g].stage = "favourites" /\ Pay(g, grant[g].due, "paid")

\* Only a grant that paid something commits; marks on own reactions wait for
\* one that does.  The rank is written if it differs from the one read.
CommitGrant(g) ==
    /\ grant[g].stage = "paid"
    /\ LET row == grant[g].row
           points == row.points + AwardPoints * Cardinality(grant[g].paid)
       IN IF grant[g].paid # {}
          THEN /\ user' = [points |-> points,
                           rank |-> IF RankOf(points) = row.rank THEN user.rank
                                    ELSE RankOf(points)]
               /\ awarded' = awarded \union grant[g].marked
               /\ grants' = [x \in Reactions |->
                               IF x \in grant[g].paid THEN grants[x] + 1 ELSE grants[x]]
          ELSE UNCHANGED <<user, awarded, grants>>
    /\ rowHeldBy' = IF rowHeldBy = g THEN NoGrant ELSE rowHeldBy
    /\ grant' = [grant EXCEPT ![g] = IdleGrant]
    /\ UNCHANGED <<reaction, counts>>

\* A row to be marked is gone: the request fails and nothing is committed.
GrantFails(g) ==
    /\ grant[g].stage \in {"likes", "favourites"}
    /\ ~StillThere(grant[g].due)
    /\ rowHeldBy' = IF rowHeldBy = g THEN NoGrant ELSE rowHeldBy
    /\ grant' = [grant EXCEPT ![g] = IdleGrant]
    /\ UNCHANGED <<user, reaction, awarded, counts, grants>>

----------------------------------------------------------------------------
(* Transactions that hold the row before they read it.                     *)

\* award_travel_points, for a settled run.
SettleRun ==
    /\ rowHeldBy = NoGrant
    /\ runs.settled < MaxRuns
    /\ user' = WithPoints(user.points + RunPoints)
    /\ settled' = settled + RunPoints
    /\ runs' = [runs EXCEPT !.settled = @ + 1]
    /\ UNCHANGED <<reaction, awarded, grant, rowHeldBy, grants, reclaimed>>

Adjusted(delta) == IF user.points + delta < 0 THEN 0 ELSE user.points + delta

\* adjust_travel_points, for a run held back.
TakeBack ==
    /\ rowHeldBy = NoGrant
    /\ runs.taken < runs.settled
    /\ user' = WithPoints(Adjusted(-RunPoints))
    /\ reclaimed' = reclaimed + (user.points - user'.points)
    /\ runs' = [runs EXCEPT !.taken = @ + 1]
    /\ UNCHANGED <<reaction, awarded, grant, rowHeldBy, grants, settled>>

GrantStep(g) ==
    \/ ReadUser(g) \/ ListLikes(g) \/ PayLikes(g) \/ ListFavourites(g)
    \/ PayFavourites(g) \/ CommitGrant(g) \/ GrantFails(g)

PointsNext ==
    \/ \E x \in Reactions : React(x) \/ Ripen(x) \/ WithdrawReaction(x)
    \/ \E g \in Grants : GrantStep(g)
    \/ SettleRun \/ TakeBack

PointsSpec == PointsInit /\ [][PointsNext]_pointsVars
----------------------------------------------------------------------------
(* What holds.                                                             *)

PointsTypeOK ==
    /\ user \in [points: Nat, rank: Ranks]
    /\ reaction \in [Reactions -> {"none", "fresh", "due", "gone"}]
    /\ awarded \subseteq Reactions
    /\ grant \in [Grants ->
                 [stage: {"idle", "likes", "listing", "favourites", "paid"},
                  row: [points: Nat, rank: Ranks] \union {Unread},
                  due: SUBSET Reactions, marked: SUBSET Reactions, paid: SUBSET Reactions]]
    /\ rowHeldBy \in Grants \union {NoGrant}
    /\ runs \in [settled: 0..MaxRuns, taken: 0..MaxRuns]
    /\ grants \in [Reactions -> Nat]
    /\ settled \in Nat
    /\ reclaimed \in Nat

\* A like or favourite that was withdrawn pays nothing any more, also to a
\* request that had listed it as due before it went ("removing before award
\* drops the pending grant", unlike_profile and remove_favorite_route).
WithdrawnPaysNothing ==
    [][\A x \in Reactions : reaction[x] = "gone" => grants'[x] = grants[x]]_pointsVars

(* What the repository says and the code does not keep.                    *)

\* Reactions are paid "idempotently" (grant_due_travel_points): the balance is
\* what the settled runs and the awarded reactions add up to.
PaidOncePerReaction ==
    user.points = settled - reclaimed + AwardPoints * Cardinality(awarded \ OwnReactions)
============================================================================
