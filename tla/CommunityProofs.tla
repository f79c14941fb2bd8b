--------------------------- MODULE CommunityProofs ---------------------------
(* Proofs about what points are for and what limits them: travel points, the *)
(* cooldown of a route and the cap of a day, for any reactions, runs and     *)
(* bounds; and about the run that puts all that people do together side by   *)
(* side.                                                                     *)
EXTENDS MCCommunity, CompanionGroupsProofs, PublishingProofs, BuilderProofs

-----------------------------------------------------------------------------
\* A set of numbers has a latest one.
LEMMA LatestExists ==
    ASSUME NEW k \in Nat, NEW S \in SUBSET (0..k), S # {}
    PROVE  Max(S) \in S /\ \A x \in S : x <= Max(S)
<1> DEFINE Gaps == {g \in 0..k : k - g \in S}
<1>1. Gaps \in SUBSET Nat /\ \A x \in S : k - x \in Gaps
  OBVIOUS
<1>2. Gaps # {}
  BY <1>1
<1>3. PICK gap \in Gaps : \A other \in Gaps : ~(<<other, gap>> \in Below)
  <2> HIDE DEF Gaps
  <2> QED
    BY <1>1, <1>2, WFMin, BelowWellFounded
<1>4. PICK latest \in S : gap = k - latest
  BY <1>1, <1>3
<1>5. ASSUME NEW x \in S PROVE latest >= x
  <2>1. k - x \in Gaps /\ <<k - x, gap>> \notin Below
    BY <1>1, <1>3
  <2>2. k - x \in Nat /\ gap \in Nat
    BY <1>1, <1>3, <2>1
  <2>3. ~(k - x < gap)
    BY <2>1, <2>2 DEF Below
  <2> QED
    BY <1>4, <2>2, <2>3
<1> QED
  BY <1>5 DEF Max

-----------------------------------------------------------------------------
(* TravelPoints: a reaction that a grant has marked is there until the grant *)
(* is through, because its row is locked.                                   *)

UserRow == [points: Nat, rank: Ranks]
GrantRow == [stage: {"idle", "likes", "listing", "favourites", "paid"}, row: UserRow \cup {Unread},
             due: SUBSET Reactions, marked: SUBSET Reactions, paid: SUBSET Reactions]

\* Only who has read the user's row pays from it.
GrantSound(r) ==
    /\ r.paid \subseteq r.marked
    /\ r.paid # {} => r.row # Unread
    /\ \A x \in r.marked : reaction[x] = "due"

Made == {x \in Reactions : reaction[x] # "none"}
PointsTypes ==
    /\ user \in UserRow
    /\ reaction \in [Reactions -> {"none", "fresh", "due", "gone"}]
    /\ awarded \in SUBSET Reactions /\ IsFiniteSet(Made)
    /\ grant \in [Grants -> GrantRow]
    /\ rowHeldBy \in Grants \cup {NoGrant}
    /\ runs \in [settled: 0..MaxRuns, taken: 0..MaxRuns] /\ runs.taken <= runs.settled
    /\ grants \in [Reactions -> Nat]
    /\ settled \in Nat /\ reclaimed \in Nat
PointsInv == PointsTypes /\ \A g \in Grants : GrantSound(grant[g])

\* A rank is one of the ranks.
LEMMA RanksFit == ASSUME NEW points \in Nat PROVE WithPoints(points) \in UserRow
<1>1. PICK S : S = {p \in Ranks : p = 0 \/ p <= points}
  OBVIOUS
<1>2. S \in SUBSET (0..points) /\ S # {} /\ S \subseteq Ranks
  <2>1. \A p \in S : p \in Ranks /\ p \in Nat /\ p <= points
    BY <1>1, RanksAssumption
  <2>2. 0 \in S
    BY <1>1, RanksAssumption
  <2> QED
    BY <2>1, <2>2
<1>3. Max(S) \in S
  BY <1>2, LatestExists
<1>4. RankOf(points) \in Ranks
  <2>1. RankOf(points) = Max(S)
    BY <1>1 DEF RankOf
  <2> QED
    BY <1>2, <1>3, <2>1
<1> QED
  BY <1>4 DEF WithPoints, UserRow

\* What a grant pays can be counted.
LEMMA PaidIsFinite ==
    ASSUME PointsInv, NEW g \in Grants
    PROVE  IsFiniteSet(grant[g].paid) /\ AwardPoints * Cardinality(grant[g].paid) \in Nat
<1>1. grant[g].paid \subseteq Made
  BY DEF PointsInv, PointsTypes, GrantSound, GrantRow, Made
<1>2. IsFiniteSet(grant[g].paid)
  BY <1>1, FS_Subset DEF PointsInv, PointsTypes
<1>3. Cardinality(grant[g].paid) \in Nat
  BY <1>2, FS_CardinalityType
<1>4. \A a, b \in Nat : a * b \in Nat
  OBVIOUS
<1> QED
  BY <1>2, <1>3, <1>4, PointsAssumption

LEMMA PointsBegin == PointsInit => PointsInv
<1> SUFFICES ASSUME PointsInit PROVE PointsInv
  OBVIOUS
<1>1. IdleGrant \in GrantRow /\ IdleGrant.paid = {} /\ IdleGrant.marked = {}
  BY DEF IdleGrant, GrantRow
<1>2. Made = {} /\ IsFiniteSet({})
  BY FS_EmptySet DEF PointsInit, Made
<1>3. user \in UserRow /\ runs \in [settled: 0..MaxRuns, taken: 0..MaxRuns] /\ runs.taken <= runs.settled
  BY RanksAssumption, PointsAssumption DEF PointsInit, UserRow
<1> QED
  BY <1>1, <1>2, <1>3 DEF PointsInit, PointsInv, PointsTypes, GrantSound

\* One grant moves on; the reactions stay as they are.
LEMMA OneGrant ==
    ASSUME PointsInv, NEW g \in Grants, NEW row \in GrantRow, grant' = [grant EXCEPT ![g] = row],
           UNCHANGED <<reaction, counts>>, user' \in UserRow, awarded' \in SUBSET Reactions,
           rowHeldBy' \in Grants \cup {NoGrant}, grants' \in [Reactions -> Nat], GrantSound(row)
    PROVE  PointsInv'
<1>1. UNCHANGED <<reaction, runs, settled, reclaimed>> /\ Made' = Made
  BY DEF counts, Made
<1>2. /\ grant' \in [Grants -> GrantRow] /\ grant'[g] = row
      /\ \A h \in Grants \ {g} : grant'[h] = grant[h]
  BY DEF PointsInv, PointsTypes
<1>3. PointsTypes'
  BY <1>1, <1>2 DEF PointsInv, PointsTypes
<1>4. \A h \in Grants : GrantSound(grant[h])'
  BY <1>1, <1>2 DEF PointsInv, GrantSound
<1> QED
  BY <1>3, <1>4 DEF PointsInv

LEMMA GrantsKeep == ASSUME PointsInv, NEW g \in Grants, GrantStep(g) PROVE PointsInv'
<1>0. /\ grant \in [Grants -> GrantRow] /\ grant[g] \in GrantRow /\ GrantSound(grant[g])
      /\ user \in UserRow /\ awarded \in SUBSET Reactions /\ grants \in [Reactions -> Nat]
      /\ rowHeldBy \in Grants \cup {NoGrant}
  BY DEF PointsInv, PointsTypes
<1>1. CASE ReadUser(g)
  <2>1. PICK row : row = [grant[g] EXCEPT !.row = user]
    OBVIOUS
  <2>2. row \in GrantRow /\ GrantSound(row)
    <3>1. row \in GrantRow /\ row.paid = grant[g].paid /\ row.marked = grant[g].marked
      BY <1>0, <2>1 DEF GrantRow
    <3>2. grant[g].paid = {}
      BY <1>0, <1>1 DEF ReadUser, GrantSound
    <3> QED
      BY <1>0, <3>1, <3>2 DEF GrantSound
  <2>3. grant' = [grant EXCEPT ![g] = row] /\ UNCHANGED <<user, reaction, awarded, rowHeldBy, counts, grants>>
    BY <1>1, <2>1 DEF ReadUser
  <2> QED
    BY <1>0, <2>2, <2>3, OneGrant
\* Listings.
<1>2. ASSUME NEW list \in {"likes", "favourites"}, NEW due \in SUBSET Reactions,
             grant' = [grant EXCEPT ![g].stage = list, ![g].due = due],
             UNCHANGED <<user, reaction, awarded, rowHeldBy, counts, grants>>
      PROVE  PointsInv'
  <2>1. PICK row : row = [grant[g] EXCEPT !.stage = list, !.due = due]
    OBVIOUS
  <2>2. row \in GrantRow /\ GrantSound(row)
    BY <1>0, <2>1 DEF GrantRow, GrantSound
  <2>3. grant' = [grant EXCEPT ![g] = row]
    BY <1>2, <2>1
  <2> QED
    BY <1>0, <1>2, <2>2, <2>3, OneGrant
<1>3. CASE ListLikes(g)
  <2>1. DueAmong(Likes) \in SUBSET Reactions
    BY DEF DueAmong, Reactions
  <2> QED
    BY <1>2, <1>3, <2>1 DEF ListLikes
<1>4. CASE ListFavourites(g)
  <2>1. DueAmong(Favourites) \in SUBSET Reactions
    BY DEF DueAmong, Reactions
  <2> QED
    BY <1>2, <1>4, <2>1 DEF ListFavourites
\* Payments.
<1>5. ASSUME NEW next \in {"listing", "paid"}, Pay(g, grant[g].due, next) PROVE PointsInv'
  <2>1. PICK S : S = grant[g].due
    OBVIOUS
  <2>2. PICK row : row = [grant[g] EXCEPT !.stage = next, !.due = {}, !.marked = @ \cup S,
                                          !.paid = @ \cup (S \ OwnReactions)]
    OBVIOUS
  <2>3. S \in SUBSET Reactions
    BY <1>0, <2>1 DEF GrantRow
  <2>4. /\ row \in GrantRow /\ row.marked = grant[g].marked \cup S
        /\ row.paid = grant[g].paid \cup (S \ OwnReactions) /\ row.row = grant[g].row
    BY <1>0, <2>2, <2>3 DEF GrantRow
  <2>5. /\ grant' = [grant EXCEPT ![g] = row] /\ UNCHANGED <<user, reaction, awarded, counts, grants>>
        /\ \A x \in S : reaction[x] = "due"
        /\ S \ OwnReactions # {} => grant[g].row # Unread
        /\ rowHeldBy' \in {rowHeldBy, g}
    BY <1>5, <2>1, <2>2 DEF Pay, StillThere
  <2>6. GrantSound(row)
    BY <1>0, <2>4, <2>5 DEF GrantSound
  <2> QED
    BY <1>0, <2>4, <2>5, <2>6, OneGrant
<1>6. IdleGrant \in GrantRow /\ GrantSound(IdleGrant)
  BY DEF IdleGrant, GrantRow, GrantSound
<1>7. CASE CommitGrant(g)
  <2>1. PICK row : row = grant[g].row
    OBVIOUS
  <2>2. PICK points : points = row.points + AwardPoints * Cardinality(grant[g].paid)
    OBVIOUS
  <2>3. /\ grant' = [grant EXCEPT ![g] = IdleGrant] /\ UNCHANGED <<reaction, counts>>
        /\ rowHeldBy' \in {rowHeldBy, NoGrant}
    BY <1>7 DEF CommitGrant
  <2>4. CASE grant[g].paid = {}
    <3>1. UNCHANGED <<user, awarded, grants>>
      BY <1>7, <2>4 DEF CommitGrant
    <3> QED
      BY <1>0, <1>6, <2>3, <3>1, OneGrant
  <2>5. CASE grant[g].paid # {}
    <3>1. row \in UserRow
      BY <1>0, <2>1, <2>5 DEF GrantSound, GrantRow
    <3>2. points \in Nat
      BY <2>1, <2>2, <3>1, PaidIsFinite DEF UserRow
    <3>3. RankOf(points) \in Ranks
      BY <3>2, RanksFit DEF WithPoints, UserRow
    <3>4. user' = [points |-> points, rank |-> IF RankOf(points) = row.rank THEN user.rank ELSE RankOf(points)]
      BY <1>7, <2>1, <2>2, <2>5 DEF CommitGrant
    <3>5. user' \in UserRow
      BY <1>0, <3>2, <3>3, <3>4 DEF UserRow
    <3>6. /\ awarded' = awarded \cup grant[g].marked
          /\ grants' = [x \in Reactions |-> IF x \in grant[g].paid THEN grants[x] + 1 ELSE grants[x]]
      BY <1>7, <2>5 DEF CommitGrant
    <3>7. awarded' \in SUBSET Reactions /\ grants' \in [Reactions -> Nat]
      BY <1>0, <3>6 DEF GrantRow
    <3> QED
      BY <1>0, <1>6, <2>3, <3>5, <3>7, OneGrant
  <2> QED
    BY <2>4, <2>5
<1>8. CASE GrantFails(g)
  <2>1. /\ grant' = [grant EXCEPT ![g] = IdleGrant]
        /\ UNCHANGED <<user, reaction, awarded, counts, grants>> /\ rowHeldBy' \in {rowHeldBy, NoGrant}
    BY <1>8 DEF GrantFails
  <2> QED
    BY <1>0, <1>6, <2>1, OneGrant
<1> QED
  BY <1>1, <1>3, <1>4, <1>5, <1>7, <1>8 DEF GrantStep, PayLikes, PayFavourites

\* A marked row is locked, so that its reaction is not withdrawn meanwhile.
LEMMA ReactionsKeep ==
    ASSUME PointsInv, NEW x \in Reactions, React(x) \/ Ripen(x) \/ WithdrawReaction(x)
    PROVE  PointsInv'
<1>0. reaction \in [Reactions -> {"none", "fresh", "due", "gone"}] /\ IsFiniteSet(Made)
  BY DEF PointsInv, PointsTypes
<1>1. PICK to \in {"fresh", "due", "gone"} : reaction' = [reaction EXCEPT ![x] = to]
  BY DEF React, Ripen, WithdrawReaction
<1>2. UNCHANGED <<user, awarded, grant, rowHeldBy, runs, settled, reclaimed, grants>>
  BY DEF React, Ripen, WithdrawReaction, counts
<1>3. /\ reaction' \in [Reactions -> {"none", "fresh", "due", "gone"}] /\ reaction'[x] = to
      /\ \A y \in Reactions \ {x} : reaction'[y] = reaction[y]
  BY <1>0, <1>1
<1>4. Made' = Made \cup {x}
  BY <1>3 DEF Made
<1>5. PointsTypes'
  BY <1>0, <1>2, <1>3, <1>4, FS_AddElement DEF PointsInv, PointsTypes
<1>6. x \notin Updated
  BY DEF React, Ripen, WithdrawReaction, PointsInv, GrantSound, Updated
<1>7. \A g \in Grants : grant[g].marked \subseteq Reactions /\ x \notin grant[g].marked
  BY <1>6 DEF Updated, PointsInv, PointsTypes, GrantRow
<1>8. \A g \in Grants : GrantSound(grant[g])'
  BY <1>2, <1>3, <1>7 DEF PointsInv, GrantSound
<1> QED
  BY <1>5, <1>8 DEF PointsInv

LEMMA RunsKeep == ASSUME PointsInv, SettleRun \/ TakeBack PROVE PointsInv'
<1>0. /\ user \in UserRow /\ runs \in [settled: 0..MaxRuns, taken: 0..MaxRuns]
      /\ runs.taken <= runs.settled /\ settled \in Nat /\ reclaimed \in Nat
      /\ RunPoints \in Nat /\ MaxRuns \in Nat /\ user.points \in Nat
  BY PointsAssumption DEF PointsInv, PointsTypes, UserRow
<1>1. UNCHANGED <<reaction, awarded, grant, rowHeldBy, grants>>
  BY DEF SettleRun, TakeBack
<1>2. ASSUME user' \in UserRow, runs' \in [settled: 0..MaxRuns, taken: 0..MaxRuns],
             runs'.taken <= runs'.settled, settled' \in Nat, reclaimed' \in Nat
      PROVE  PointsInv'
  BY <1>1, <1>2 DEF PointsInv, PointsTypes, Made, GrantSound
<1>3. CASE SettleRun
  <2>1. /\ user' = WithPoints(user.points + RunPoints) /\ settled' = settled + RunPoints
        /\ runs' = [runs EXCEPT !.settled = @ + 1] /\ reclaimed' = reclaimed /\ runs.settled < MaxRuns
    BY <1>3 DEF SettleRun
  <2>2. user' \in UserRow
    BY <1>0, <2>1, RanksFit
  <2>3. runs' \in [settled: 0..MaxRuns, taken: 0..MaxRuns] /\ runs'.taken <= runs'.settled
    BY <1>0, <2>1
  <2> QED
    BY <1>0, <1>2, <2>1, <2>2, <2>3
<1>4. CASE TakeBack
  <2>1. PICK left : left = Adjusted(-RunPoints)
    OBVIOUS
  <2>2. left \in Nat /\ left <= user.points
    BY <1>0, <2>1 DEF Adjusted
  <2>3. /\ user' = WithPoints(left) /\ settled' = settled /\ runs' = [runs EXCEPT !.taken = @ + 1]
        /\ reclaimed' = reclaimed + (user.points - user'.points) /\ runs.taken < runs.settled
    BY <1>4, <2>1 DEF TakeBack
  <2>4. user' \in UserRow /\ user'.points = left
    BY <2>2, <2>3, RanksFit DEF WithPoints
  <2>5. reclaimed' \in Nat
    BY <1>0, <2>2, <2>3, <2>4
  <2>6. runs' \in [settled: 0..MaxRuns, taken: 0..MaxRuns] /\ runs'.taken <= runs'.settled
    BY <1>0, <2>3
  <2> QED
    BY <1>0, <1>2, <2>3, <2>4, <2>5, <2>6
<1> QED
  BY <1>3, <1>4

LEMMA PointsInvHolds == PointsSpec => []PointsInv
<1>1. PointsInv /\ [PointsNext]_pointsVars => PointsInv'
  <2> SUFFICES ASSUME PointsInv, [PointsNext]_pointsVars PROVE PointsInv'
    OBVIOUS
  <2>1. CASE UNCHANGED pointsVars
    BY <2>1 DEF pointsVars, PointsInv, PointsTypes, Made, GrantSound
  <2>2. CASE PointsNext
    BY <2>2, GrantsKeep, ReactionsKeep, RunsKeep DEF PointsNext
  <2> QED
    BY <2>1, <2>2
<1> QED
  BY <1>1, PointsBegin, PTL DEF PointsSpec

\* The row, the reactions and what grants carry are of their kinds, the rank
\* is one of the ranks and the balance never below nothing.
THEOREM PointsTypesHold == PointsSpec => []PointsTypeOK
<1>1. PointsInv => PointsTypeOK
  BY DEF PointsInv, PointsTypes, PointsTypeOK, UserRow, GrantRow
<1> QED
  BY <1>1, PointsInvHolds, PTL

\* A like or favourite that was withdrawn pays nothing any more, also to a
\* grant that had listed it before, for any reactions, grants and ranks
\* (grant_due_travel_points, unlike_profile, remove_favorite_route).
THEOREM NothingForTheWithdrawn == PointsSpec => WithdrawnPaysNothing
<1>1. ASSUME PointsInv, [PointsNext]_pointsVars, NEW x \in Reactions, reaction[x] = "gone"
      PROVE  grants'[x] = grants[x]
  <2>1. ASSUME NEW g \in Grants, GrantStep(g) PROVE grants'[x] = grants[x]
    <3>1. x \notin grant[g].paid
      BY <1>1 DEF PointsInv, GrantSound
    <3>2. CASE CommitGrant(g)
      BY <3>1, <3>2 DEF CommitGrant
    <3>3. CASE ~CommitGrant(g)
      BY <2>1, <3>3 DEF GrantStep, ReadUser, ListLikes, PayLikes, Pay, ListFavourites, PayFavourites, GrantFails
    <3> QED
      BY <3>2, <3>3
  <2>2. CASE ~\E g \in Grants : GrantStep(g)
    BY <1>1, <2>2 DEF PointsNext, pointsVars, React, Ripen, WithdrawReaction, SettleRun, TakeBack
  <2> QED
    BY <2>1, <2>2
<1>2. PointsInv /\ [PointsNext]_pointsVars =>
          [\A x \in Reactions : reaction[x] = "gone" => grants'[x] = grants[x]]_pointsVars
  BY <1>1
<1> QED
  BY <1>2, PointsInvHolds, PTL DEF PointsSpec, WithdrawnPaysNothing
-----------------------------------------------------------------------------
(* RewardLimits: sums over the settled runs.                                 *)

\* f adds up, one by one, what piece[1], ..., piece[n] come to.
AddsUp(f, n, piece) == f = [i \in 0..n |-> IF i = 0 THEN 0 ELSE f[i - 1] + piece[i]]

\* Such a function exists for as many parts as there are.
LEMMA SumExists ==
    ASSUME NEW k \in Nat, NEW piece \in [1..k -> Nat]
    PROVE  \E f : AddsUp(f, k, piece)
<1> DEFINE Bad == {n \in 0..k : ~\E f : AddsUp(f, n, piece)}
<1>1. ASSUME Bad # {} PROVE FALSE
  <2>1. PICK n \in Bad : \A other \in Bad : ~(<<other, n>> \in Below)
    <3>1. Bad \in SUBSET Nat
      OBVIOUS
    <3> HIDE DEF Bad
    <3> QED
      BY <1>1, <3>1, WFMin, BelowWellFounded
  <2>2. n \in 0..k /\ ~\E f : AddsUp(f, n, piece)
    BY <2>1
  <2>3. n # 0
    <3>1. PICK f : f = [i \in 0..0 |-> 0]
      OBVIOUS
    <3>2. \A i \in 0..0 : i = 0
      OBVIOUS
    <3>3. AddsUp(f, 0, piece)
      BY <3>1, <3>2 DEF AddsUp
    <3> QED
      BY <2>2, <3>3
  <2>4. n - 1 \in 0..k /\ n - 1 < n /\ n \in Nat /\ n - 1 \in Nat
    BY <2>2, <2>3
  <2>5. n - 1 \notin Bad
    BY <2>1, <2>4 DEF Below
  <2>6. PICK g : AddsUp(g, n - 1, piece)
    BY <2>4, <2>5
  <2>7. PICK f : f = [i \in 0..n |-> IF i = n THEN g[n - 1] + piece[n] ELSE g[i]]
    OBVIOUS
  <2>8. \A i \in 0..(n - 1) : f[i] = g[i]
    BY <2>4, <2>7
  <2>9. \A i \in 0..n : f[i] = IF i = 0 THEN 0 ELSE f[i - 1] + piece[i]
    <3> TAKE i \in 0..n
    <3>1. CASE i = n
      <4>1. f[n] = g[n - 1] + piece[n] /\ f[n - 1] = g[n - 1]
        BY <2>4, <2>7, <2>8
      <4> QED
        BY <2>3, <3>1, <4>1
    <3>2. CASE i # n
      <4>1. i \in 0..(n - 1) /\ (i # 0 => i - 1 \in 0..(n - 1))
        BY <2>4, <3>2
      <4>2. g[i] = IF i = 0 THEN 0 ELSE g[i - 1] + piece[i]
        BY <2>6, <4>1 DEF AddsUp
      <4> QED
        BY <2>8, <4>1, <4>2
    <3> QED
      BY <3>1, <3>2
  <2>10. AddsUp(f, n, piece)
    BY <2>7, <2>9 DEF AddsUp
  <2> QED
    BY <2>2, <2>10
<1>2. k \in 0..k
  OBVIOUS
<1>3. ~\E n \in 0..k : ~\E f : AddsUp(f, n, piece)
  BY <1>1
<1> QED
  BY <1>2, <1>3

\* Two of them that add the same parts come to the same.
LEMMA SumsAgree ==
    ASSUME NEW n \in Nat, NEW k \in Nat, NEW l \in Nat, n <= k, n <= l,
           NEW f, NEW g, NEW piece, NEW share, AddsUp(f, k, piece), AddsUp(g, l, share),
           \A i \in 1..n : piece[i] = share[i]
    PROVE  f[n] = g[n]
<1> DEFINE Bad == {m \in 0..n : f[m] # g[m]}
<1>1. ASSUME Bad # {} PROVE FALSE
  <2>1. PICK m \in Bad : \A other \in Bad : ~(<<other, m>> \in Below)
    <3>1. Bad \in SUBSET Nat
      OBVIOUS
    <3> HIDE DEF Bad
    <3> QED
      BY <1>1, <3>1, WFMin, BelowWellFounded
  <2>2. m \in 0..n /\ f[m] # g[m] /\ m \in 0..k /\ m \in 0..l
    BY <2>1
  <2>3. /\ f[m] = IF m = 0 THEN 0 ELSE f[m - 1] + piece[m]
        /\ g[m] = IF m = 0 THEN 0 ELSE g[m - 1] + share[m]
    BY <2>2 DEF AddsUp
  <2>4. m # 0
    BY <2>2, <2>3
  <2>5. m - 1 \in 0..n /\ m - 1 < m /\ m \in Nat /\ m - 1 \in Nat /\ m \in 1..n
    BY <2>2, <2>4
  <2>6. m - 1 \notin Bad
    BY <2>1, <2>5 DEF Below
  <2>7. f[m - 1] = g[m - 1] /\ piece[m] = share[m]
    BY <2>5, <2>6
  <2> QED
    BY <2>2, <2>3, <2>4, <2>7
<1> QED
  BY <1>1

\* They come to a natural number, and to nothing when there is nothing to add.
LEMMA SumIs ==
    ASSUME NEW k \in Nat, NEW piece \in [1..k -> Nat], NEW f, AddsUp(f, k, piece)
    PROVE  f[k] \in Nat /\ ((\A i \in 1..k : piece[i] = 0) => f[k] = 0)
<1> DEFINE Good(m) == f[m] \in Nat /\ ((\A i \in 1..k : piece[i] = 0) => f[m] = 0)
           Bad == {m \in 0..k : ~Good(m)}
<1>1. ASSUME Bad # {} PROVE FALSE
  <2>1. PICK m \in Bad : \A other \in Bad : ~(<<other, m>> \in Below)
    <3>1. Bad \in SUBSET Nat
      OBVIOUS
    <3> HIDE DEF Bad
    <3> QED
      BY <1>1, <3>1, WFMin, BelowWellFounded
  <2>2. m \in 0..k /\ ~Good(m)
    BY <2>1
  <2>3. f[m] = IF m = 0 THEN 0 ELSE f[m - 1] + piece[m]
    BY <2>2 DEF AddsUp
  <2>4. m # 0
    BY <2>2, <2>3
  <2>5. m - 1 \in 0..k /\ m - 1 < m /\ m \in Nat /\ m - 1 \in Nat /\ m \in 1..k
    BY <2>2, <2>4
  <2>6. m - 1 \notin Bad
    BY <2>1, <2>5 DEF Below
  <2>7. Good(m - 1) /\ piece[m] \in Nat
    BY <2>5, <2>6
  <2>8. Good(m)
    BY <2>3, <2>4, <2>5, <2>7
  <2> QED
    BY <2>2, <2>8
<1>2. Good(k)
  BY <1>1
<1> QED
  BY <1>2

SettledRow == [route: Hikes, completed: BOOLEAN, at: 0..LastTick, computed: Nat,
           status: {"none", "awarded", "held", "rejected"}, days: 1..(MoscowDay(LastTick) + 1),
           limited: BOOLEAN]

\* PointsOf, of the runs s: what the runs in S come to.
Part(s, S) == [i \in 1..Len(s) |-> IF i \in S THEN s[i].computed ELSE 0]
SumOf(s, S) ==
    LET upTo[i \in 0..Len(s)] ==
            IF i = 0 THEN 0
            ELSE upTo[i - 1] + (IF i \in S THEN s[i].computed ELSE 0)
    IN  upTo[Len(s)]

LEMMA PartIs ==
    ASSUME NEW s \in Seq(SettledRow), NEW S
    PROVE  Len(s) \in Nat /\ Part(s, S) \in [1..Len(s) -> Nat]
<1>1. Len(s) \in Nat /\ \A i \in 1..Len(s) : s[i] \in SettledRow
  OBVIOUS
<1>2. \A i \in 1..Len(s) : s[i].computed \in Nat
  BY <1>1 DEF SettledRow
<1> QED
  BY <1>1, <1>2 DEF Part

\* The function the sum is read from adds up.
LEMMA SumAdds ==
    ASSUME NEW s \in Seq(SettledRow), NEW S
    PROVE  \E f : AddsUp(f, Len(s), Part(s, S)) /\ SumOf(s, S) = f[Len(s)]
<1> DEFINE Right(f) == f = [i \in 0..Len(s) |->
                               IF i = 0 THEN 0
                               ELSE f[i - 1] + (IF i \in S THEN s[i].computed ELSE 0)]
           sum == CHOOSE f : Right(f)
<1>1. PICK g : AddsUp(g, Len(s), Part(s, S))
  BY PartIs, SumExists
<1>2. ASSUME NEW f PROVE AddsUp(f, Len(s), Part(s, S)) <=> Right(f)
  <2>1. Len(s) \in Nat /\ \A i \in 0..Len(s) : i # 0 => i \in 1..Len(s)
    BY PartIs
  <2>2. \A i \in 0..Len(s) : i # 0 => Part(s, S)[i] = IF i \in S THEN s[i].computed ELSE 0
    BY <2>1 DEF Part
  <2>3. \A i \in 0..Len(s) :
           (IF i = 0 THEN 0 ELSE f[i - 1] + Part(s, S)[i])
           = IF i = 0 THEN 0 ELSE f[i - 1] + (IF i \in S THEN s[i].computed ELSE 0)
    BY <2>2
  <2>4. [i \in 0..Len(s) |-> IF i = 0 THEN 0 ELSE f[i - 1] + Part(s, S)[i]]
        = [i \in 0..Len(s) |-> IF i = 0 THEN 0
                               ELSE f[i - 1] + (IF i \in S THEN s[i].computed ELSE 0)]
    BY <2>3
  <2> QED
    BY <2>4 DEF AddsUp
<1>3. Right(sum)
  <2>1. Right(g)
    BY <1>1, <1>2
  <2> HIDE DEF Right
  <2> QED
    BY <2>1
<1>4. SumOf(s, S) = sum[Len(s)]
  BY DEF SumOf
<1>5. AddsUp(sum, Len(s), Part(s, S))
  <2> HIDE DEF Right, sum
  <2> QED
    BY <1>2, <1>3
<1> QED
  <2> HIDE DEF sum
  <2> QED
    BY <1>4, <1>5

LEMMA SumOfNothing ==
    ASSUME NEW s \in Seq(SettledRow), NEW S
    PROVE  SumOf(s, S) \in Nat /\ (S \cap 1..Len(s) = {} => SumOf(s, S) = 0)
<1>1. PICK f : AddsUp(f, Len(s), Part(s, S)) /\ SumOf(s, S) = f[Len(s)]
  BY SumAdds
<1>2. S \cap 1..Len(s) = {} => \A i \in 1..Len(s) : Part(s, S)[i] = 0
  BY DEF Part
<1> QED
  BY <1>1, <1>2, PartIs, SumIs

\* What the runs are paid does not change with their status.
LEMMA SameSum ==
    ASSUME NEW s \in Seq(SettledRow), NEW t \in Seq(SettledRow), NEW S, NEW T, Len(s) = Len(t),
           \A i \in 1..Len(s) : s[i].computed = t[i].computed /\ (i \in S <=> i \in T)
    PROVE  SumOf(s, S) = SumOf(t, T)
<1>1. PICK f : AddsUp(f, Len(s), Part(s, S)) /\ SumOf(s, S) = f[Len(s)]
  BY SumAdds
<1>2. PICK g : AddsUp(g, Len(t), Part(t, T)) /\ SumOf(t, T) = g[Len(t)]
  BY SumAdds
<1>3. \A i \in 1..Len(s) : Part(s, S)[i] = Part(t, T)[i]
  BY DEF Part
<1>4. Len(s) \in Nat
  OBVIOUS
<1>5. f[Len(s)] = g[Len(s)]
  BY <1>1, <1>2, <1>3, <1>4, SumsAgree
<1> QED
  BY <1>1, <1>2, <1>5

\* One more run adds its points, if it is among those counted.
LEMMA OneMoreRun ==
    ASSUME NEW s \in Seq(SettledRow), NEW row \in SettledRow, NEW S, NEW T,
           \A i \in 1..Len(s) : i \in S <=> i \in T
    PROVE  SumOf(Append(s, row), T)
             = SumOf(s, S) + (IF Len(s) + 1 \in T THEN row.computed ELSE 0)
<1>1. PICK n \in Nat : n = Len(s)
  OBVIOUS
<1>2. PICK t : t = Append(s, row)
  OBVIOUS
<1>3. /\ t \in Seq(SettledRow)
      /\ Len(t) = n + 1 /\ t[n + 1] = row /\ \A i \in 1..n : t[i] = s[i]
  BY <1>1, <1>2, AppendProperties
<1>4. PICK f : AddsUp(f, n, Part(s, S)) /\ SumOf(s, S) = f[n]
  BY <1>1, SumAdds
<1>5. PICK g : AddsUp(g, n + 1, Part(t, T)) /\ SumOf(t, T) = g[n + 1]
  BY <1>3, SumAdds
<1>6. \A i \in 1..n : Part(s, S)[i] = Part(t, T)[i]
  BY <1>1, <1>3 DEF Part
<1>7. f[n] = g[n]
  <2>1. n + 1 \in Nat /\ n <= n + 1
    OBVIOUS
  <2> QED
    BY <1>4, <1>5, <1>6, <2>1, SumsAgree
<1>8. g[n + 1] = g[n] + Part(t, T)[n + 1]
  <2>1. n + 1 \in 0..(n + 1) /\ n + 1 # 0 /\ n + 1 - 1 = n
    OBVIOUS
  <2> QED
    BY <1>5, <2>1 DEF AddsUp
<1>9. Part(t, T)[n + 1] = IF n + 1 \in T THEN row.computed ELSE 0
  BY <1>3 DEF Part
<1> QED
  BY <1>1, <1>2, <1>4, <1>5, <1>7, <1>8, <1>9

-----------------------------------------------------------------------------
(* RewardLimits: days and what is left of a cap.                             *)

LEMMA MoscowDayIs == ASSUME NEW t \in Nat PROVE MoscowDay(t) \in Nat
BY LimitsAssumption DEF MoscowDay

LEMMA ProductGrows ==
    ASSUME NEW c \in Nat, NEW a \in Nat, NEW b \in Nat, a <= b
    PROVE  c * a \in Nat /\ c * b \in Nat /\ c * a <= c * b
<1>1. PICK d \in Nat : b = a + d
  <2>1. b - a \in Nat /\ b = a + (b - a)
    OBVIOUS
  <2> QED
    BY <2>1
<1>2. c * b = c * a + c * d /\ c * d \in Nat /\ c * a \in Nat
  BY <1>1
<1> QED
  BY <1>2

HikeRow == [route: Hikes, began: 0..LastTick, nights: 0..MoscowDay(LastTick)]
LimitTypes ==
    /\ tick \in 0..LastTick
    /\ limiting \in BOOLEAN
    /\ hike \in HikeRow \cup {NoHike}
    /\ settlement \in Seq(SettledRow)

LEMMA CalendarDaysAre ==
    ASSUME hike \in HikeRow, NEW at \in 0..LastTick
    PROVE  CalendarDays(at) \in 1..(MoscowDay(LastTick) + 1)
<1>1. PICK last \in Nat : last = MoscowDay(LastTick)
  BY MoscowDayIs, LimitsAssumption
<1>2. hike.nights \in 0..last /\ hike.began \in Nat /\ at \in Nat
  BY <1>1, LimitsAssumption DEF HikeRow
<1>3. PICK span \in Int : span = MoscowDay(at) - MoscowDay(hike.began) + 1
  BY <1>2, MoscowDayIs
<1>4. PICK slept \in 1..(last + 1) : slept = hike.nights + 1
  BY <1>2
<1>5. PICK least \in Int : least = Min({span, slept}) /\ least <= slept
  <2>1. slept \in Int
    BY <1>4
  <2>2. Min({span, slept}) \in {span, slept} /\ Min({span, slept}) <= slept
    BY <2>1, SmallerOfInts
  <2>3. Min({span, slept}) \in Int
    BY <2>1, <2>2
  <2> QED
    BY <2>2, <2>3
<1>6. Max({1, least}) \in {1, least} /\ 1 <= Max({1, least})
  BY LargerOfInts
<1>7. Max({1, least}) \in 1..(last + 1)
  BY <1>5, <1>6
<1>8. hike.nights # 0 => CalendarDays(at) = Max({1, least})
  BY <1>3, <1>4, <1>5 DEF CalendarDays
<1>9. hike.nights = 0 => CalendarDays(at) = 1
  BY DEF CalendarDays
<1> QED
  BY <1>1, <1>7, <1>8, <1>9

\* The completed runs among s that fall on day d.
OnDay(s, d) == {i \in 1..Len(s) : s[i].completed /\ MoscowDay(s[i].at) = d}

LEMMA ComputedTodayIs ==
    ASSUME settlement \in Seq(SettledRow), NEW at
    PROVE  ComputedToday(at) = SumOf(settlement, OnDay(settlement, MoscowDay(at)))
<1>1. {i \in CompletedRuns : MoscowDay(settlement[i].at) = MoscowDay(at)}
      = OnDay(settlement, MoscowDay(at))
  BY DEF CompletedRuns, SettledRuns, OnDay
<1> QED
  BY <1>1 DEF ComputedToday, PointsOf, SumOf

\* The limits leave a run no more than what is left of the day's cap, and
\* nothing while its route cools down.
LEMMA AllowedIs ==
    ASSUME settlement \in Seq(SettledRow), hike \in HikeRow, limiting \in BOOLEAN,
           NEW at \in 0..LastTick, NEW points \in Nat
    PROVE  /\ Allowed(points, at) \in Nat
           /\ limiting /\ Allowed(points, at) # 0 =>
                 /\ ~CoolingDown(at)
                 /\ ComputedToday(at) + Allowed(points, at) <= DailyCap * CalendarDays(at)
<1>1. PICK sum \in Nat : sum = ComputedToday(at)
  BY ComputedTodayIs, SumOfNothing
<1>2. PICK cap \in Nat : cap = DailyCap * CalendarDays(at)
  <2>1. CalendarDays(at) \in Nat
    <3>1. MoscowDay(LastTick) \in Nat /\ CalendarDays(at) \in 1..(MoscowDay(LastTick) + 1)
      BY CalendarDaysAre, MoscowDayIs, LimitsAssumption
    <3> QED
      BY <3>1
  <2> QED
    BY <2>1, ProductGrows, LimitsAssumption
<1>3. PICK left \in Int : left = cap - sum
  OBVIOUS
<1>4. PICK room \in Nat : room = Max({0, left}) /\ (room = 0 \/ room = left)
  <2>1. PICK none \in Int : none = 0
    OBVIOUS
  <2>2. Max({none, left}) \in {none, left} /\ none <= Max({none, left})
    BY LargerOfInts
  <2>3. Max({0, left}) \in Nat /\ (Max({0, left}) = 0 \/ Max({0, left}) = left)
    BY <2>1, <2>2
  <2> QED
    BY <2>3
<1>5. Remaining(at) = room
  BY <1>1, <1>2, <1>3, <1>4 DEF Remaining
<1>6. PICK least \in Nat : least = Min({points, room}) /\ least <= room
  <2>1. points \in Int /\ room \in Int
    OBVIOUS
  <2>2. Min({points, room}) \in {points, room} /\ Min({points, room}) <= room
    BY <2>1, SmallerOfInts
  <2>3. Min({points, room}) \in Nat
    BY <2>2
  <2> QED
    BY <2>2, <2>3
<1>7. Allowed(points, at) = IF ~limiting THEN points ELSE IF CoolingDown(at) THEN 0 ELSE least
  BY <1>5, <1>6 DEF Allowed
<1>8. least # 0 => sum + least <= cap
  BY <1>3, <1>4, <1>6
<1>9. CASE limiting /\ ~CoolingDown(at)
  BY <1>1, <1>2, <1>7, <1>8, <1>9
<1>10. CASE limiting /\ CoolingDown(at)
  BY <1>7, <1>10
<1>11. CASE ~limiting
  BY <1>7, <1>11
<1> QED
  BY <1>9, <1>10, <1>11

-----------------------------------------------------------------------------
(* RewardLimits: both limits, of the runs s.                                 *)

DaysOf(s, S) == {s[i].days : i \in S}
KeepsCap(s, d) ==
    OnDay(s, d) # {} /\ (\A i \in OnDay(s, d) : s[i].limited)
        => SumOf(s, OnDay(s, d)) <= DailyCap * Max(DaysOf(s, OnDay(s, d)))
AllApart(s) ==
    \A i, j \in 1..Len(s) :
        /\ i < j /\ s[i].completed /\ s[j].completed /\ s[j].limited
        /\ s[i].route = s[j].route
        /\ s[i].status \in {"awarded", "held"}
        /\ s[i].computed > 0 /\ s[j].computed > 0
        => s[j].at - s[i].at >= Cooldown

LimitsInv ==
    /\ LimitTypes
    /\ \A d \in 0..MoscowDay(LastTick) : KeepsCap(settlement, d)
    /\ AllApart(settlement)

LEMMA LongestIs ==
    ASSUME NEW s \in Seq(SettledRow), NEW S \in SUBSET (1..Len(s)), S # {}
    PROVE  /\ Max(DaysOf(s, S)) \in Nat
           /\ \A i \in S : s[i].days <= Max(DaysOf(s, S))
           /\ \E i \in S : Max(DaysOf(s, S)) = s[i].days
<1>1. PICK last \in Nat : last = MoscowDay(LastTick) + 1
  BY MoscowDayIs, LimitsAssumption
<1>2. \A i \in S : s[i].days \in 1..last
  <2> TAKE i \in S
  <2>1. PICK row \in SettledRow : row = s[i]
    OBVIOUS
  <2>2. row.days \in 1..last
    BY <1>1 DEF SettledRow
  <2> QED
    BY <2>1, <2>2
<1>3. PICK spans \in SUBSET (0..last) : spans = DaysOf(s, S) /\ spans # {}
  <2>1. \A i \in S : s[i].days \in 0..last
    BY <1>2
  <2>2. \A x \in DaysOf(s, S) : x \in 0..last
    BY <2>1 DEF DaysOf
  <2>3. DaysOf(s, S) # {}
    BY DEF DaysOf
  <2> QED
    BY <2>2, <2>3
<1>4. Max(spans) \in spans /\ \A x \in spans : x <= Max(spans)
  BY <1>3, LatestExists
<1>5. PICK most \in Nat : most = Max(spans)
  BY <1>3, <1>4
<1>6. /\ \A i \in S : s[i].days <= most
      /\ \E i \in S : most = s[i].days
  BY <1>3, <1>4, <1>5 DEF DaysOf
<1> QED
  BY <1>3, <1>5, <1>6

LEMMA OnDayIs ==
    ASSUME NEW s \in Seq(SettledRow), NEW d
    PROVE  OnDay(s, d) \in SUBSET (1..Len(s)) /\ Len(s) \in Nat
BY DEF OnDay

\* A run that is settled within what was left keeps the cap of its day.
LEMMA CapIsKept ==
    ASSUME NEW s \in Seq(SettledRow), NEW row \in SettledRow, NEW d, KeepsCap(s, d),
           row.completed /\ row.limited /\ row.computed # 0 /\ MoscowDay(row.at) = d =>
              SumOf(s, OnDay(s, d)) + row.computed <= DailyCap * row.days
    PROVE  KeepsCap(Append(s, row), d)
<1>1. PICK n \in Nat : n = Len(s)
  OBVIOUS
<1>2. PICK t : t = Append(s, row)
  OBVIOUS
<1>3. /\ t \in Seq(SettledRow)
      /\ Len(t) = n + 1 /\ t[n + 1] = row /\ \A i \in 1..n : t[i] = s[i]
  BY <1>1, <1>2, AppendProperties
<1>4. PICK S : S = OnDay(s, d)
  OBVIOUS
<1>5. PICK T : T = OnDay(t, d)
  OBVIOUS
<1>6. /\ S \in SUBSET (1..n) /\ T \in SUBSET (1..(n + 1))
      /\ \A i \in 1..n : i \in S <=> i \in T
      /\ n + 1 \in T <=> row.completed /\ MoscowDay(row.at) = d
  BY <1>1, <1>3, <1>4, <1>5 DEF OnDay
<1>7. SumOf(t, T) = SumOf(s, S) + (IF n + 1 \in T THEN row.computed ELSE 0)
  BY <1>1, <1>2, <1>6, OneMoreRun
<1>8. row.computed \in Nat /\ row.days \in Nat /\ DailyCap \in Nat /\ SumOf(s, S) \in Nat
  <2>1. PICK last \in Nat : last = MoscowDay(LastTick)
    BY MoscowDayIs, LimitsAssumption
  <2>2. row.computed \in Nat /\ row.days \in 1..(last + 1)
    BY <2>1 DEF SettledRow
  <2> QED
    BY <2>2, SumOfNothing, LimitsAssumption
<1> SUFFICES ASSUME T # {}, \A i \in T : t[i].limited
             PROVE  SumOf(t, T) <= DailyCap * Max(DaysOf(t, T))
  BY <1>2, <1>5 DEF KeepsCap
<1>9. /\ Max(DaysOf(t, T)) \in Nat /\ \A i \in T : t[i].days <= Max(DaysOf(t, T))
  BY <1>3, <1>6, LongestIs
<1>10. PICK longest \in Nat : longest = Max(DaysOf(t, T)) /\ \A i \in T : t[i].days <= longest
  BY <1>9
<1>11. S # {} => SumOf(s, S) <= DailyCap * longest
  <2> HAVE S # {}
  <2>1. PICK i \in S : Max(DaysOf(s, S)) = s[i].days
    BY <1>1, <1>6, LongestIs
  <2>2. Max(DaysOf(s, S)) \in Nat
    BY <1>1, <1>6, LongestIs
  <2>3. t[i] = s[i] /\ i \in T
    BY <1>3, <1>6
  <2>4. PICK most \in Nat : most = Max(DaysOf(s, S)) /\ most <= longest
    BY <1>10, <2>1, <2>2, <2>3
  <2>5. \A j \in S : s[j].limited
    BY <1>3, <1>6
  <2>6. SumOf(s, S) <= DailyCap * most
    BY <1>4, <2>4, <2>5 DEF KeepsCap
  <2>7. DailyCap * most \in Nat /\ DailyCap * longest \in Nat /\ DailyCap * most <= DailyCap * longest
    BY <1>8, <2>4, ProductGrows
  <2> QED
    BY <1>8, <2>6, <2>7
<1>12. S = {} => SumOf(s, S) = 0
  BY <1>6, SumOfNothing
<1>13. DailyCap * longest \in Nat
  BY <1>8, <1>10, ProductGrows
<1>14. SumOf(s, S) <= DailyCap * longest
  BY <1>11, <1>12, <1>13
<1>15. CASE n + 1 \in T /\ row.computed # 0
  <2>1. row.completed /\ row.limited /\ MoscowDay(row.at) = d /\ row.days <= longest
    BY <1>3, <1>6, <1>10, <1>15
  <2>2. SumOf(s, S) + row.computed <= DailyCap * row.days
    BY <1>4, <1>15, <2>1
  <2>3. DailyCap * row.days \in Nat /\ DailyCap * row.days <= DailyCap * longest
    BY <1>8, <2>1, ProductGrows
  <2>4. SumOf(t, T) = SumOf(s, S) + row.computed
    BY <1>7, <1>15
  <2> QED
    BY <1>8, <1>10, <1>13, <2>2, <2>3, <2>4
<1>16. CASE ~(n + 1 \in T /\ row.computed # 0)
  <2>1. SumOf(t, T) = SumOf(s, S)
    BY <1>7, <1>8, <1>16
  <2> QED
    BY <1>10, <1>14, <2>1
<1> QED
  BY <1>15, <1>16

\* A decision on a hold changes nothing the cap is about.
LEMMA CapOutlastsDecisions ==
    ASSUME NEW s \in Seq(SettledRow), NEW t \in Seq(SettledRow), Len(s) = Len(t), NEW d,
           KeepsCap(s, d),
           \A i \in 1..Len(s) : /\ s[i].completed = t[i].completed /\ s[i].at = t[i].at
                                /\ s[i].computed = t[i].computed /\ s[i].days = t[i].days
                                /\ s[i].limited = t[i].limited
    PROVE  KeepsCap(t, d)
<1>1. PICK S : S = OnDay(s, d) /\ S \in SUBSET (1..Len(s))
  BY OnDayIs
<1>2. S = OnDay(t, d)
  BY <1>1 DEF OnDay
<1>3. SumOf(s, S) = SumOf(t, S)
  BY SameSum
<1>4. DaysOf(s, S) = DaysOf(t, S)
  BY <1>1 DEF DaysOf
<1>5. (\A i \in S : s[i].limited) <=> \A i \in S : t[i].limited
  BY <1>1
<1> QED
  BY <1>1, <1>2, <1>3, <1>4, <1>5 DEF KeepsCap

\* A new run of a route for points comes after the cooldown of the others.
LEMMA ApartIsKept ==
    ASSUME NEW s \in Seq(SettledRow), NEW row \in SettledRow, AllApart(s),
           row.completed /\ row.limited /\ row.computed # 0 =>
              \A i \in 1..Len(s) :
                 s[i].completed /\ s[i].route = row.route /\ s[i].status \in {"awarded", "held"}
                 /\ s[i].computed > 0 => row.at - s[i].at >= Cooldown
    PROVE  AllApart(Append(s, row))
<1>1. PICK n \in Nat : n = Len(s)
  OBVIOUS
<1>2. PICK t : t = Append(s, row)
  OBVIOUS
<1>3. Len(t) = n + 1 /\ t[n + 1] = row /\ \A i \in 1..n : t[i] = s[i]
  BY <1>1, <1>2, AppendProperties
<1>4. row.computed \in Nat
  BY DEF SettledRow
<1>5. ASSUME NEW i \in 1..(n + 1), NEW j \in 1..(n + 1), i < j,
             t[i].completed, t[j].completed, t[j].limited, t[i].route = t[j].route,
             t[i].status \in {"awarded", "held"}, t[i].computed > 0, t[j].computed > 0
      PROVE  t[j].at - t[i].at >= Cooldown
  <2>1. i \in 1..n /\ t[i] = s[i]
    BY <1>3, <1>5
  <2>2. CASE j = n + 1
    BY <1>1, <1>3, <1>4, <1>5, <2>1, <2>2
  <2>3. CASE j # n + 1
    <3>1. j \in 1..n /\ t[j] = s[j]
      BY <1>3, <2>3
    <3> QED
      BY <1>1, <1>5, <2>1, <3>1 DEF AllApart
  <2> QED
    BY <2>2, <2>3
<1> QED
  BY <1>2, <1>3, <1>5 DEF AllApart

LEMMA ApartOutlastsDecisions ==
    ASSUME NEW s, NEW t, Len(s) = Len(t), AllApart(s),
           \A i \in 1..Len(s) : /\ s[i].completed = t[i].completed /\ s[i].at = t[i].at
                                /\ s[i].computed = t[i].computed /\ s[i].route = t[i].route
                                /\ s[i].limited = t[i].limited
                                /\ t[i].status \in {"awarded", "held"} => s[i].status \in {"awarded", "held"}
    PROVE  AllApart(t)
BY DEF AllApart

\* The latest of the route's runs for points is at least as late as each.
LEMMA CooldownIsOver ==
    ASSUME settlement \in Seq(SettledRow), NEW at \in 0..LastTick, ~CoolingDown(at),
           NEW i \in 1..Len(settlement), settlement[i].completed, settlement[i].route = hike.route,
           settlement[i].status \in {"awarded", "held"}, settlement[i].computed > 0
    PROVE  at - settlement[i].at >= Cooldown
<1>1. i \in PaidRuns(hike.route)
  BY DEF PaidRuns, CompletedRuns, SettledRuns
<1>2. \A j \in SettledRuns : settlement[j].at \in 0..LastTick
  <2> TAKE j \in SettledRuns
  <2>1. settlement[j] \in SettledRow
    BY DEF SettledRuns
  <2> QED
    BY <2>1 DEF SettledRow
<1>3. PICK times : times = {settlement[j].at : j \in PaidRuns(hike.route)}
  OBVIOUS
<1>4. times \in SUBSET (0..LastTick) /\ settlement[i].at \in times
  <2>1. \A j \in PaidRuns(hike.route) : settlement[j].at \in 0..LastTick
    BY <1>2 DEF PaidRuns, CompletedRuns
  <2> QED
    BY <1>1, <1>3, <2>1
<1>5. PICK newest \in 0..LastTick : newest = Max(times) /\ settlement[i].at <= newest
  <2>1. Max(times) \in times /\ settlement[i].at <= Max(times)
    BY <1>4, LatestExists, LimitsAssumption
  <2> QED
    BY <1>4, <2>1
<1>6. ~(at - newest < Cooldown)
  BY <1>1, <1>3, <1>5 DEF CoolingDown, NewestPaid
<1>7. settlement[i].at \in 0..LastTick
  BY <1>4
<1> QED
  BY <1>5, <1>6, <1>7, LimitsAssumption

LEMMA LimitBegins == LimitInit => LimitsInv
<1> SUFFICES ASSUME LimitInit PROVE LimitsInv
  OBVIOUS
<1>1. Len(settlement) = 0 /\ settlement \in Seq(SettledRow)
  BY DEF LimitInit
<1>2. LimitTypes
  BY <1>1, LimitsAssumption DEF LimitInit, LimitTypes
<1>3. \A d : OnDay(settlement, d) = {}
  BY <1>1 DEF OnDay
<1>4. \A d \in 0..MoscowDay(LastTick) : KeepsCap(settlement, d)
  BY <1>3 DEF KeepsCap
<1>5. AllApart(settlement)
  BY <1>1 DEF AllApart
<1> QED
  BY <1>2, <1>4, <1>5 DEF LimitsInv

LEMMA SettleKeeps ==
    ASSUME LimitsInv, Underway, NEW completed \in BOOLEAN, NEW at \in 0..LastTick,
           NEW points \in Worth, Settle(completed, at, points)
    PROVE  LimitsInv'
<1>1. /\ hike \in HikeRow /\ settlement \in Seq(SettledRow) /\ limiting \in BOOLEAN /\ points \in Nat
  BY WorthAssumption DEF LimitsInv, LimitTypes, Underway
<1>2. PICK final \in Nat : final = Allowed(points, at)
  BY <1>1, AllowedIs
<1>3. PICK flagged \in BOOLEAN :
         /\ settlement' = Append(settlement,
               [route |-> hike.route, completed |-> completed, at |-> at, computed |-> final,
                status |-> IF final = 0 THEN "none"
                           ELSE IF flagged /\ limiting THEN "held" ELSE "awarded",
                days |-> CalendarDays(at), limited |-> limiting])
         /\ hike' = NoHike /\ UNCHANGED <<tick, limiting>>
  BY <1>2 DEF Settle
<1>4. PICK row : row = [route |-> hike.route, completed |-> completed, at |-> at, computed |-> final,
                status |-> IF final = 0 THEN "none"
                           ELSE IF flagged /\ limiting THEN "held" ELSE "awarded",
                days |-> CalendarDays(at), limited |-> limiting]
  OBVIOUS
<1>5. /\ row \in SettledRow /\ row.route = hike.route /\ row.completed = completed /\ row.at = at
      /\ row.computed = final /\ row.days = CalendarDays(at) /\ row.limited = limiting
  <2>1. CalendarDays(at) \in 1..(MoscowDay(LastTick) + 1) /\ hike.route \in Hikes
    BY <1>1, CalendarDaysAre DEF HikeRow
  <2>2. (IF final = 0 THEN "none" ELSE IF flagged /\ limiting THEN "held" ELSE "awarded")
        \in {"none", "awarded", "held", "rejected"}
    OBVIOUS
  <2> QED
    BY <1>1, <1>4, <2>1, <2>2 DEF SettledRow
<1>6. settlement' = Append(settlement, row)
  BY <1>3, <1>4
<1>7. limiting /\ final # 0 =>
         /\ ~CoolingDown(at)
         /\ ComputedToday(at) + final <= DailyCap * CalendarDays(at)
  BY <1>1, <1>2, AllowedIs
<1>8. LimitTypes'
  BY <1>1, <1>3, <1>5, <1>6, AppendProperties DEF LimitsInv, LimitTypes
<1>9. ASSUME NEW d \in 0..MoscowDay(LastTick) PROVE KeepsCap(settlement, d)'
  <2>1. row.completed /\ row.limited /\ row.computed # 0 /\ MoscowDay(row.at) = d =>
           SumOf(settlement, OnDay(settlement, d)) + row.computed <= DailyCap * row.days
    BY <1>1, <1>5, <1>7, ComputedTodayIs
  <2>2. KeepsCap(settlement, d)
    BY DEF LimitsInv
  <2>3. KeepsCap(Append(settlement, row), d)
    BY <1>1, <1>5, <2>1, <2>2, CapIsKept
  <2> QED
    BY <1>6, <2>3
<1>10. AllApart(settlement)'
  <2>1. row.completed /\ row.limited /\ row.computed # 0 =>
           \A i \in 1..Len(settlement) :
              settlement[i].completed /\ settlement[i].route = row.route
              /\ settlement[i].status \in {"awarded", "held"} /\ settlement[i].computed > 0
                 => row.at - settlement[i].at >= Cooldown
    BY <1>1, <1>5, <1>7, CooldownIsOver
  <2>2. AllApart(Append(settlement, row))
    BY <1>1, <1>5, <2>1, ApartIsKept DEF LimitsInv
  <2> QED
    BY <1>6, <2>2
<1> QED
  BY <1>8, <1>9, <1>10 DEF LimitsInv

LEMMA DecideKeeps ==
    ASSUME LimitsInv, NEW i \in SettledRuns, NEW status \in {"awarded", "rejected"},
           DecideHike(i, status)
    PROVE  LimitsInv'
<1>1. settlement \in Seq(SettledRow) /\ i \in 1..Len(settlement) /\ settlement[i].status = "held"
  BY DEF LimitsInv, LimitTypes, SettledRuns, DecideHike
<1>2. PICK row : row = [settlement[i] EXCEPT !.status = status]
  OBVIOUS
<1>3. /\ row \in SettledRow /\ row.status = status
      /\ row.route = settlement[i].route /\ row.completed = settlement[i].completed
      /\ row.at = settlement[i].at /\ row.computed = settlement[i].computed
      /\ row.days = settlement[i].days /\ row.limited = settlement[i].limited
  <2>1. PICK old \in SettledRow : old = settlement[i]
    BY <1>1
  <2> QED
    BY <1>2, <2>1 DEF SettledRow
<1>4. PICK t : t = [settlement EXCEPT ![i] = row]
  OBVIOUS
<1>5. /\ t \in Seq(SettledRow) /\ Len(t) = Len(settlement) /\ t[i] = row
      /\ \A j \in 1..Len(settlement) : j # i => t[j] = settlement[j]
  BY <1>1, <1>3, <1>4
<1>6. settlement' = t /\ UNCHANGED <<tick, limiting, hike>>
  BY <1>2, <1>4 DEF DecideHike
<1>7. LimitTypes'
  BY <1>5, <1>6 DEF LimitsInv, LimitTypes
<1>8. \A j \in 1..Len(settlement) :
         /\ settlement[j].completed = t[j].completed /\ settlement[j].at = t[j].at
         /\ settlement[j].computed = t[j].computed /\ settlement[j].days = t[j].days
         /\ settlement[j].limited = t[j].limited /\ settlement[j].route = t[j].route
         /\ t[j].status \in {"awarded", "held"} => settlement[j].status \in {"awarded", "held"}
  BY <1>1, <1>3, <1>5
<1>9. ASSUME NEW d \in 0..MoscowDay(LastTick) PROVE KeepsCap(settlement, d)'
  <2>1. KeepsCap(settlement, d)
    BY DEF LimitsInv
  <2>2. KeepsCap(t, d)
    BY <1>1, <1>5, <1>8, <2>1, CapOutlastsDecisions
  <2> QED
    BY <1>6, <2>2
<1>10. AllApart(settlement)'
  <2>1. AllApart(t)
    BY <1>1, <1>5, <1>8, ApartOutlastsDecisions DEF LimitsInv
  <2> QED
    BY <1>6, <2>1
<1> QED
  BY <1>7, <1>9, <1>10 DEF LimitsInv

LEMMA SettledAsBefore ==
    ASSUME LimitsInv, LimitTypes', UNCHANGED settlement
    PROVE  LimitsInv'
BY DEF LimitsInv, KeepsCap, AllApart

LEMMA LimitStep == LimitsInv /\ [LimitNext]_limitVars => LimitsInv'
<1> SUFFICES ASSUME LimitsInv, [LimitNext]_limitVars PROVE LimitsInv'
  OBVIOUS
<1>0. LimitTypes
  BY DEF LimitsInv
<1>1. CASE TimePasses
  <2>1. LimitTypes'
    <3>1. tick' \in 0..LastTick
      BY <1>0, <1>1, LimitsAssumption DEF LimitTypes, TimePasses
    <3> QED
      BY <1>0, <1>1, <3>1 DEF LimitTypes, TimePasses
  <2> QED
    BY <1>1, <2>1, SettledAsBefore DEF TimePasses
<1>2. CASE SetLimiting
  <2>1. LimitTypes'
    BY <1>0, <1>2 DEF LimitTypes, SetLimiting
  <2> QED
    BY <1>2, <2>1, SettledAsBefore DEF SetLimiting
<1>3. CASE SleepOver
  <2>1. hike \in HikeRow /\ hike.nights < MoscowDay(LastTick) /\ hike' = [hike EXCEPT !.nights = @ + 1]
    BY <1>0, <1>3 DEF LimitTypes, SleepOver, Underway
  <2>2. PICK last \in Nat : last = MoscowDay(LastTick)
    BY MoscowDayIs, LimitsAssumption
  <2>3. PICK slept : slept = hike.nights + 1
    OBVIOUS
  <2>4. slept \in 0..last
    BY <2>1, <2>2, <2>3 DEF HikeRow
  <2>5. hike' = [hike EXCEPT !.nights = slept]
    BY <2>1, <2>3
  <2>6. hike' \in HikeRow
    BY <2>1, <2>2, <2>4, <2>5 DEF HikeRow
  <2>7. LimitTypes'
    BY <1>0, <1>3, <2>6 DEF LimitTypes, SleepOver
  <2> QED
    BY <1>3, <2>7, SettledAsBefore DEF SleepOver
<1>4. ASSUME NEW r \in Hikes, SetOut(r) PROVE LimitsInv'
  <2>1. hike' \in HikeRow
    <3>1. 0 \in 0..MoscowDay(LastTick)
      <4>1. PICK last \in Nat : last = MoscowDay(LastTick)
        BY MoscowDayIs, LimitsAssumption
      <4>2. 0 \in 0..last
        OBVIOUS
      <4> QED
        BY <4>1, <4>2
    <3> QED
      BY <1>0, <1>4, <3>1 DEF LimitTypes, SetOut, HikeRow
  <2>2. LimitTypes'
    BY <1>0, <1>4, <2>1 DEF LimitTypes, SetOut
  <2> QED
    BY <1>4, <2>2, SettledAsBefore DEF SetOut
<1>5. ASSUME NEW points \in Worth, EndHikeEarly(points) PROVE LimitsInv'
  BY <1>0, <1>5, SettleKeeps DEF EndHikeEarly, LimitTypes
<1>6. ASSUME NEW points \in Worth, NEW at \in 0..LastTick, CompleteHike(at, points)
      PROVE  LimitsInv'
  BY <1>6, SettleKeeps DEF CompleteHike
<1>7. ASSUME NEW i \in SettledRuns, NEW status \in {"awarded", "rejected"}, DecideHike(i, status)
      PROVE  LimitsInv'
  BY <1>7, DecideKeeps
<1>8. CASE UNCHANGED limitVars
  <2>1. LimitTypes'
    BY <1>0, <1>8 DEF LimitTypes, limitVars
  <2> QED
    BY <1>8, <2>1, SettledAsBefore DEF limitVars
<1> QED
  BY <1>1, <1>2, <1>3, <1>4, <1>5, <1>6, <1>7, <1>8 DEF LimitNext

LEMMA LimitsInvHolds == LimitSpec => []LimitsInv
BY LimitBegins, LimitStep, PTL DEF LimitSpec

\* What holds sequences of some rows holds them as sequences of more rows.
LEMMA SeqWidens ==
    ASSUME NEW S, NEW R, S \subseteq R, NEW rows \in Seq(S)
    PROVE  rows \in Seq(R)
OBVIOUS

\* The types of RewardLimits.
LEMMA LimitTypesHold == LimitSpec => []LimitTypeOK
<1>1. LimitsInv => LimitTypeOK
  <2> SUFFICES ASSUME LimitsInv PROVE LimitTypeOK
    OBVIOUS
  <2>1. PICK last \in Nat : last = MoscowDay(LastTick)
    BY MoscowDayIs, LimitsAssumption
  <2>2. hike \in [route: Hikes, began: 0..LastTick, nights: 0..last] \cup {NoHike}
    BY <2>1 DEF LimitsInv, LimitTypes, HikeRow
  <2>3. hike \in [route: Hikes, began: 0..LastTick, nights: Nat] \cup {NoHike}
    BY <2>2
  <2>4. settlement \in Seq([route: Hikes, completed: BOOLEAN, at: 0..LastTick, computed: Nat,
                            status: {"none", "awarded", "held", "rejected"}, days: 1..(last + 1),
                            limited: BOOLEAN])
    BY <2>1 DEF LimitsInv, LimitTypes, SettledRow
  <2>5. 1..(last + 1) \subseteq Nat \ {0}
    OBVIOUS
  <2>6. ASSUME NEW spans, NEW statuses, spans \subseteq Nat \ {0},
               NEW rows, rows \in Seq([route: Hikes, completed: BOOLEAN, at: 0..LastTick, computed: Nat,
                                        status: statuses, days: spans, limited: BOOLEAN])
        PROVE  rows \in Seq([route: Hikes, completed: BOOLEAN, at: 0..LastTick, computed: Nat,
                              status: statuses, days: Nat \ {0}, limited: BOOLEAN])
    <3>1. PICK positive : positive = Nat \ {0}
      OBVIOUS
    <3>2. [route: Hikes, completed: BOOLEAN, at: 0..LastTick, computed: Nat,
           status: statuses, days: spans, limited: BOOLEAN]
            \subseteq [route: Hikes, completed: BOOLEAN, at: 0..LastTick, computed: Nat,
                       status: statuses, days: positive, limited: BOOLEAN]
      BY <2>6, <3>1
    <3>3. rows \in Seq([route: Hikes, completed: BOOLEAN, at: 0..LastTick, computed: Nat,
                        status: statuses, days: positive, limited: BOOLEAN])
      BY <2>6, <3>2, SeqWidens
    <3> QED
      BY <3>1, <3>3
  <2>7. settlement \in Seq([route: Hikes, completed: BOOLEAN, at: 0..LastTick, computed: Nat,
                            status: {"none", "awarded", "held", "rejected"}, days: Nat \ {0},
                            limited: BOOLEAN])
    BY <2>4, <2>5, <2>6
  <2> QED
    BY <2>3, <2>7 DEF LimitsInv, LimitTypes, LimitTypeOK
<1> QED
  BY <1>1, LimitsInvHolds, PTL

\* While the limits are enforced, the completed runs of a Moscow day bring at
\* most the cap of the days their longest was walked on, and two completions
\* of a route that bring points are a cooldown apart, unless the first was
\* rejected: settle_completion_points, for any routes, points, cap, cooldown
\* and length of a day.
THEOREM LimitsStayKept == LimitSpec => []LimitsKept
<1>1. LimitsInv => LimitsKept
  <2> SUFFICES ASSUME LimitsInv PROVE LimitsKept
    OBVIOUS
  <2>1. settlement \in Seq(SettledRow)
    BY DEF LimitsInv, LimitTypes
  <2>2. SettledRuns = 1..Len(settlement)
    BY <2>1 DEF SettledRuns
  <2>3. CompletedWithinCap
    <3>1. \A d : {i \in CompletedRuns : MoscowDay(settlement[i].at) = d} = OnDay(settlement, d)
      BY <2>2 DEF CompletedRuns, OnDay
    <3>2. \A S : PointsOf(S) = SumOf(settlement, S)
      BY DEF PointsOf, SumOf
    <3>3. \A d \in 0..MoscowDay(LastTick) :
             OnDay(settlement, d) # {} /\ (\A i \in OnDay(settlement, d) : settlement[i].limited)
             => PointsOf(OnDay(settlement, d))
                  <= DailyCap * Max({settlement[i].days : i \in OnDay(settlement, d)})
      BY <3>2 DEF LimitsInv, KeepsCap, DaysOf
    <3> QED
      BY <3>1, <3>3 DEF CompletedWithinCap
  <2>4. CompletedApart
    BY <2>2 DEF LimitsInv, AllApart, CompletedApart, CompletedRuns
  <2> QED
    BY <2>3, <2>4 DEF LimitsKept
<1> QED
  BY <1>1, LimitsInvHolds, PTL

-----------------------------------------------------------------------------
(* MCCommunity.  Whichever part moves, the others rest, so that each keeps   *)
(* its own specification all along, and what is proved of the part alone     *)
(* holds in the run of them all.                                             *)

CommunityParts == {"groups", "publication", "reviews", "chat", "articles", "days", "turns",
                   "limits", "balance", "provider"}

\* A step of the run is a step, or none, of every part.
CommunityStep ==
    /\ part' = part
    /\ [GroupsNext]_groupsVars /\ [PubNext]_pubVars /\ [ReviewsNext]_reviewVars
    /\ [ChatNext]_chatVars /\ [ArticlesNext]_articleVars /\ [DaysNext]_daysVars
    /\ [TurnsNext]_turnVars /\ [LimitNext]_limitVars /\ [PointsNext]_pointsVars
    /\ [ProviderNext]_providerVars

LEMMA CommunityMoves == [Next]_vars => CommunityStep
<1> SUFFICES ASSUME [Next]_vars PROVE CommunityStep
  OBVIOUS
<1>1. CASE UNCHANGED part /\ WalkNext /\ UNCHANGED <<turnVars, paidVars, providerVars>>
  BY <1>1 DEF WalkNext, NotGroups, NotPub, NotReviews, NotChat, NotArticles, NotDays, paidVars, CommunityStep
<1>2. CASE UNCHANGED part /\ PaidNext /\ UNCHANGED <<walkVars, turnVars, providerVars>>
  BY <1>2 DEF PaidNext, walkVars, CommunityStep
<1>3. CASE UNCHANGED part /\ TurnsNext /\ UNCHANGED <<walkVars, paidVars, providerVars>>
  BY <1>3 DEF walkVars, paidVars, CommunityStep
<1>4. CASE UNCHANGED part /\ ProviderNext /\ UNCHANGED <<walkVars, turnVars, paidVars>>
  BY <1>4 DEF walkVars, paidVars, CommunityStep
<1>5. CASE UNCHANGED vars
  BY <1>5 DEF vars, walkVars, paidVars, CommunityStep
<1> QED
  BY <1>1, <1>2, <1>3, <1>4, <1>5 DEF Next

\* So each part keeps its specification, whichever of them moves.
THEOREM CommunityKeepsItsSpecs ==
    Spec => /\ GroupsSpec /\ PubSpec /\ ReviewsSpec /\ ChatSpec /\ ArticlesSpec
            /\ DaysSpec /\ TurnsSpec /\ LimitSpec /\ PointsSpec /\ ProviderSpec
<1>1. Init => /\ GroupsInit /\ PubInit /\ ReviewsInit /\ ChatInit /\ ArticlesInit
              /\ DaysInit /\ TurnsInit /\ LimitInit /\ PointsInit /\ ProviderInit
  BY DEF Init
<1>2. CommunityStep => /\ [GroupsNext]_groupsVars /\ [PubNext]_pubVars /\ [ReviewsNext]_reviewVars
                       /\ [ChatNext]_chatVars /\ [ArticlesNext]_articleVars /\ [DaysNext]_daysVars
                       /\ [TurnsNext]_turnVars /\ [LimitNext]_limitVars /\ [PointsNext]_pointsVars
                       /\ [ProviderNext]_providerVars
  BY DEF CommunityStep
<1> QED
  BY <1>1, <1>2, CommunityMoves, PTL
     DEF Spec, GroupsSpec, PubSpec, ReviewsSpec, ChatSpec, ArticlesSpec,
         DaysSpec, TurnsSpec, LimitSpec, PointsSpec, ProviderSpec

\* Whatever people make, walk, say and are paid for, what is kept of it has
\* the form the code gives it: for any people, routes, stops, requests, words,
\* points and limits, and any bounds.
THEOREM CommunityTypesHold == Spec => []CommunityTypeOK
<1>1. Spec => [](part \in CommunityParts)
  <2>1. Init => part \in CommunityParts
    BY DEF Init, CommunityParts
  <2>2. part \in CommunityParts /\ [Next]_vars => (part \in CommunityParts)'
    BY CommunityMoves DEF CommunityStep
  <2> QED
    BY <2>1, <2>2, PTL DEF Spec
<1>2. /\ part \in CommunityParts
      /\ GroupsTypeOK /\ PubInv /\ ReviewsTypeOK /\ ChatTypeOK /\ ArticlesTypeOK /\ DaysTypeOK
      /\ TurnsTypeOK /\ LimitTypeOK /\ PointsTypeOK /\ ProviderTypeOK
      => CommunityTypeOK
  BY DEF CommunityParts, CommunityTypeOK, PubInv
<1> QED
  BY <1>1, <1>2, CommunityKeepsItsSpecs, GroupTypesHold, PubInvariant, ReviewTypesHold, ChatTypesHold,
     ArticleTypesHold, DayTypesHold, TurnTypesHold, LimitTypesHold, PointsTypesHold, ProviderTypesHold, PTL

\* And so what is proved of the parts holds in their run, under its own
\* specification: the invariants of community.cfg, ...
THEOREM CommunityStaysSafe ==
    Spec => [](/\ SeatsAreSound /\ ReviewsAreModerated /\ QuotasKept /\ ArticlesShowTheTruth
               /\ DaysFollowTheNorms /\ ConfirmedAsHeard /\ ShownForTheWishesKept
               /\ LimitsKept /\ BreakerHoldsBack /\ CachedRoutesAreFresh)
BY CommunityKeepsItsSpecs, SeatsStaySound, ReviewsStayModerated, QuotasStayKept, ArticlesStayTrue,
   DaysStayAsTheNormsAsk, ConfirmedStaysAsHeard, ShownStaysForTheWishesKept, LimitsStayKept,
   ProviderLeftAlone, CacheStaysFresh, PTL

\* ... and what no step of theirs does.
THEOREM CommunityStepsSafely ==
    Spec => /\ StartsOnTheGroupsVersion /\ NeverEditedInPlace
            /\ SentAfterTheLastSave /\ WithdrawnPaysNothing
BY CommunityKeepsItsSpecs, GroupsStartOnTheirVersion, EditedInCopies, SentWithConsents,
   NothingForTheWithdrawn, PTL
=============================================================================
