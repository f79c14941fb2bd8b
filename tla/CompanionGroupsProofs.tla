----------------------- MODULE CompanionGroupsProofs -----------------------
(* Proofs about companion groups, for any people, groups, seats and any     *)
(* number of requests that overlap, or one after the other.                 *)
EXTENDS CompanionGroups, FiniteSetTheorems, TLAPS

-----------------------------------------------------------------------------
(* Types.                                                                   *)

States == {"none", "invited", "requested", "joined", "declined", "revoked",
           "rejected", "removed", "left"}
GroupStatuses == {"none", "gathering", "started", "settled", "cancelled"}
GroupRow == [status: GroupStatuses, version: Nat]
OutingRow == [status: {"none", "going", "completed", "cancelled"}, version: Nat]
FlightRow == [op: Ops, by: Members, group: Groups, on: Members, was: States, version: Nat,
              going: GroupStatuses, together: SUBSET Members]
StartRow == [by: Members, group: Groups, run: {0} \cup Walks, version: Nat, row: MemberRow]

GroupsTypes ==
    /\ path \in [open: BOOLEAN, version: Nat]
    /\ group \in [Groups -> GroupRow]
    /\ member \in [Groups -> [Members -> MemberRow]]
    /\ walk \in [Members -> [Walks -> OutingRow]]
    /\ atOnce \in Nat \ {0}
    /\ inFlight \in SUBSET FlightRow /\ IsFiniteSet(inFlight)
    /\ starting \in SUBSET StartRow

\* One row of a group changes.
LEMMA OneRow ==
    ASSUME member \in [Groups -> [Members -> MemberRow]],
           NEW g \in Groups, NEW u \in Members, NEW row \in MemberRow,
           member' = [member EXCEPT ![g][u] = row]
    PROVE  /\ member' \in [Groups -> [Members -> MemberRow]]
           /\ member'[g][u] = row
           /\ \A h \in Groups, v \in Members : h # g \/ v # u => member'[h][v] = member[h][v]
OBVIOUS

\* One group changes.
LEMMA OneGroup ==
    ASSUME group \in [Groups -> GroupRow], NEW g \in Groups, NEW row \in GroupRow,
           group' = [group EXCEPT ![g] = row]
    PROVE  /\ group' \in [Groups -> GroupRow]
           /\ group'[g] = row
           /\ \A h \in Groups \ {g} : group'[h] = group[h]
OBVIOUS

\* One run changes.
LEMMA OneWalk ==
    ASSUME walk \in [Members -> [Walks -> OutingRow]],
           NEW u \in Members, NEW n \in Walks, NEW row \in OutingRow,
           walk' = [walk EXCEPT ![u][n] = row]
    PROVE  walk' \in [Members -> [Walks -> OutingRow]] /\ walk'[u][n] = row
OBVIOUS

-----------------------------------------------------------------------------
(* The invariant.                                                           *)

\* Who sits in a group has asked for it, and so has whom a request in flight
\* is about to let in.
AskedThem == \A g \in Groups, u \in Members : State(g, u) \in {"joined", "requested"} => <<g, u>> \in willing
ForThemselves(r) ==
    /\ r.op \in {"create", "accept", "request"} => r.on = r.by
    /\ r.op = "approve" => <<r.group, r.on>> \in willing
Willingly == AskedThem /\ \A r \in inFlight : ForThemselves(r)

\* While requests follow each other, what the one in flight has checked holds
\* until its commit, and nobody has a row in a group that is not there yet.
NobodyBefore == \A g \in Groups, u \in Members : group[g].status = "none" => State(g, u) = "none"
InTurn ==
    /\ \A r, s \in inFlight : r = s
    /\ \A r \in inFlight : May(r)
    /\ NobodyBefore
    /\ OneLiveGroup /\ SeatsWithinPlan

GroupsInv == GroupsTypes /\ Willingly /\ (atOnce = 1 => InTurn)

\* Nobody sits anywhere at first.
LEMMA GroupsBegin == GroupsInit => GroupsInv
<1> SUFFICES ASSUME GroupsInit PROVE GroupsInv
  OBVIOUS
<1>1. NoMember \in MemberRow /\ NoGroup \in GroupRow /\ NoWalk \in OutingRow
  BY DEF NoMember, NoGroup, NoWalk, MemberRow, GroupRow, OutingRow, States, GroupStatuses
<1>2. atOnce \in Nat \ {0}
  BY GroupBoundsAssumption DEF GroupsInit
<1>3. GroupsTypes
  BY <1>1, <1>2, FS_EmptySet DEF GroupsInit, GroupsTypes
<1>4. \A g \in Groups, u \in Members : State(g, u) = "none" /\ group[g].status = "none"
  BY DEF GroupsInit, State, NoMember, NoGroup
<1>5. Willingly
  BY <1>4 DEF Willingly, AskedThem, GroupsInit
<1>6. \A g \in Groups : Seated(g) = {} /\ Joined(g) = {}
  BY <1>4 DEF Seated, HoldsSeat, InviteLive, Joined
<1>7. SeatsWithinPlan /\ OneLiveGroup
  BY <1>6, FS_EmptySet, GroupBoundsAssumption DEF SeatsWithinPlan, OneLiveGroup
<1>8. InTurn
  BY <1>4, <1>7 DEF InTurn, NobodyBefore, GroupsInit
<1> QED BY <1>3, <1>5, <1>8 DEF GroupsInv

-----------------------------------------------------------------------------
(* Steps that change nobody's place.                                        *)

\* Fewer seats held than before is still within the plan.
LEMMA FewerSeats ==
    ASSUME SeatsWithinPlan, \A g \in Groups : Seated(g)' \subseteq Seated(g)
    PROVE  SeatsWithinPlan'
<1> SUFFICES ASSUME NEW g \in Groups PROVE Cardinality(Seated(g)') <= MaxMembers
  BY DEF SeatsWithinPlan
<1>1. IsFiniteSet(Seated(g))
  BY OrganizerAssumption, FS_Subset DEF Seated
<1>2. /\ IsFiniteSet(Seated(g)') /\ Cardinality(Seated(g)') <= Cardinality(Seated(g))
      /\ Cardinality(Seated(g)) \in Nat /\ Cardinality(Seated(g)') \in Nat
  BY <1>1, FS_Subset, FS_CardinalityType
<1>3. Cardinality(Seated(g)) <= MaxMembers
  BY DEF SeatsWithinPlan
<1> QED BY <1>2, <1>3, GroupBoundsAssumption

\* The same people in the same groups, of which some may be over; and nobody
\* new in flight while requests follow each other.
SamePeople ==
    /\ \A g \in Groups, u \in Members :
          member'[g][u].state = member[g][u].state /\ (member'[g][u].fresh => member[g][u].fresh)
    /\ \A g \in Groups : group'[g].status = group[g].status \/ group'[g].status \in {"settled", "cancelled"}
    /\ UNCHANGED <<inFlight, willing, atOnce>>
    /\ Quiet

\* Then every part of the invariant stays.
LEMMA SamePeopleKeeps ==
    ASSUME GroupsInv, GroupsTypes', SamePeople
    PROVE  GroupsInv'
<1>1. \A g \in Groups, u \in Members : State(g, u)' = State(g, u)
  BY DEF SamePeople, State
<1>2. Willingly'
  BY <1>1 DEF SamePeople, GroupsInv, Willingly, AskedThem, ForThemselves
<1>3. ASSUME atOnce' = 1 PROVE InTurn'
  <2>1. InTurn /\ inFlight' = {}
    BY <1>3 DEF SamePeople, GroupsInv, Quiet
  <2>2. \A g \in Groups : Joined(g)' = Joined(g) /\ (Live(g)' => Live(g))
                          /\ Seated(g)' \subseteq Seated(g)
    BY <1>1 DEF SamePeople, Joined, Live, LiveStatuses, Seated, HoldsSeat, InviteLive
  <2>3. NobodyBefore'
    BY <1>1, <2>1 DEF SamePeople, InTurn, NobodyBefore
  <2>4. OneLiveGroup'
    BY <2>1, <2>2 DEF InTurn, OneLiveGroup
  <2>5. SeatsWithinPlan'
    BY <2>1, <2>2, FewerSeats DEF InTurn
  <2> QED BY <2>1, <2>3, <2>4, <2>5 DEF InTurn
<1> QED BY <1>2, <1>3 DEF GroupsInv

\* A row changes by something other than its place.
LEMMA RowKeeps ==
    ASSUME GroupsInv, NEW g \in Groups, NEW u \in Members, NEW row \in MemberRow,
           member' = [member EXCEPT ![g][u] = row],
           row.state = member[g][u].state, row.fresh => member[g][u].fresh,
           walk' \in [Members -> [Walks -> OutingRow]],
           starting' \in SUBSET StartRow,
           UNCHANGED <<path, group, inFlight, willing, atOnce>>, Quiet
    PROVE  GroupsInv'
<1>1. /\ member' \in [Groups -> [Members -> MemberRow]] /\ member'[g][u] = row
      /\ \A h \in Groups, v \in Members : h # g \/ v # u => member'[h][v] = member[h][v]
  BY OneRow DEF GroupsInv, GroupsTypes
<1>2. SamePeople
  BY <1>1 DEF SamePeople
<1>3. GroupsTypes'
  BY <1>1 DEF GroupsInv, GroupsTypes
<1> QED BY <1>2, <1>3, SamePeopleKeeps

\* A group that is over; and a run that ends meanwhile.
LEMMA OverKeeps ==
    ASSUME GroupsInv, NEW g \in Groups, NEW status \in {"settled", "cancelled"},
           group' = [group EXCEPT ![g] = [group[g] EXCEPT !.status = status]],
           walk' \in [Members -> [Walks -> OutingRow]],
           UNCHANGED <<path, member, starting, inFlight, willing, atOnce>>, Quiet
    PROVE  GroupsInv'
<1> DEFINE row == [group[g] EXCEPT !.status = status]
<1>1. row \in GroupRow /\ row.status = status
  BY DEF GroupsInv, GroupsTypes, GroupRow, GroupStatuses
<1> HIDE DEF row
<1>2. /\ group' \in [Groups -> GroupRow] /\ group'[g] = row
      /\ \A h \in Groups \ {g} : group'[h] = group[h]
  BY <1>1, OneGroup DEF GroupsInv, GroupsTypes, row
<1>3. SamePeople
  BY <1>1, <1>2 DEF SamePeople
<1>4. GroupsTypes'
  BY <1>2 DEF GroupsInv, GroupsTypes
<1> QED BY <1>3, <1>4, SamePeopleKeeps

\* Time that runs out, and words of being ready.
LEMMA RowsKeep ==
    ASSUME GroupsInv, NEW g \in Groups, NEW u \in Members,
           Expire(g, u) \/ \E ready \in BOOLEAN : SetReady(g, u, ready)
    PROVE  GroupsInv'
<1> DEFINE row == member[g][u]
<1>1. row \in MemberRow /\ walk \in [Members -> [Walks -> OutingRow]] /\ starting \in SUBSET StartRow
  BY DEF GroupsInv, GroupsTypes
<1>2. CASE Expire(g, u)
  <2>1. [row EXCEPT !.fresh = FALSE] \in MemberRow
    BY <1>1 DEF MemberRow
  <2>2. member' = [member EXCEPT ![g][u] = [row EXCEPT !.fresh = FALSE]]
    BY <1>2 DEF Expire
  <2>3. [row EXCEPT !.fresh = FALSE].state = row.state /\ [row EXCEPT !.fresh = FALSE].fresh = FALSE
    BY <1>1 DEF MemberRow
  <2>4. UNCHANGED <<path, group, walk, starting, inFlight, willing, atOnce>> /\ Quiet
    BY <1>2 DEF Expire, requestVars
  <2> QED BY <1>1, <2>1, <2>2, <2>3, <2>4, RowKeeps
<1>3. CASE \E ready \in BOOLEAN : SetReady(g, u, ready)
  <2>1. PICK ready \in BOOLEAN : SetReady(g, u, ready)
    BY <1>3
  <2>2. [row EXCEPT !.ready = ready] \in MemberRow
    BY <1>1 DEF MemberRow
  <2>3. member' = [member EXCEPT ![g][u] = [row EXCEPT !.ready = ready]]
    BY <2>1 DEF SetReady
  <2>4. [row EXCEPT !.ready = ready].state = row.state /\ [row EXCEPT !.ready = ready].fresh = row.fresh
    BY <1>1 DEF MemberRow
  <2>5. UNCHANGED <<path, group, walk, starting, inFlight, willing, atOnce>> /\ Quiet
    BY <2>1 DEF SetReady, requestVars
  <2> QED BY <1>1, <2>2, <2>3, <2>4, <2>5, RowKeeps
<1> QED BY <1>2, <1>3

\* What the check of a start has read.
LEMMA CheckReads ==
    ASSUME GroupsTypes, NEW g \in Groups, NEW u \in Members, CheckStart(g, u) \/ CheckRetry(g, u)
    PROVE  \E s \in StartRow :
              /\ s.by = u /\ s.group = g /\ s.version = path.version
              /\ starting' = starting \cup {s}
              /\ GroupForRun(g, u) /\ Quiet
              /\ UNCHANGED <<path, group, member, walk, blocked, requestVars>>
<1>1. PICK run \in {0} \cup Walks : Check(g, u, run)
  BY DEF CheckStart, CheckRetry, Going
<1>2. PICK s : s = [by |-> u, group |-> g, run |-> run, version |-> path.version, row |-> member[g][u]]
  OBVIOUS
<1>3. s \in StartRow /\ s.by = u /\ s.group = g /\ s.version = path.version
  BY <1>2 DEF GroupsTypes, StartRow
<1> QED BY <1>1, <1>2, <1>3 DEF Check

\* The row a start names its run in, and the run.
LEMMA StartWrites ==
    ASSUME GroupsTypes, NEW s \in starting, StartInGroup(s) \/ RetryInGroup(s)
    PROVE  /\ s.group \in Groups /\ s.by \in Members
           /\ \E row \in MemberRow : /\ member' = [member EXCEPT ![s.group][s.by] = row]
                                     /\ row.state = member[s.group][s.by].state
                                     /\ row.fresh = member[s.group][s.by].fresh
           /\ walk' # walk => \E n \in Walks :
                 /\ walk' = [walk EXCEPT ![s.by][n] = [status |-> "going", version |-> path.version]]
                 /\ member'[s.group][s.by].run = n
           /\ walk' \in [Members -> [Walks -> OutingRow]]
           /\ starting' = starting \ {s}
           /\ UNCHANGED <<path, group, blocked, made, requestVars>> /\ Quiet
<1> DEFINE old == member[s.group][s.by]
<1>1. s \in StartRow /\ s.group \in Groups /\ s.by \in Members /\ s.run \in {0} \cup Walks
      /\ old \in MemberRow /\ s.row \in MemberRow
  BY DEF GroupsTypes, StartRow
<1>2. ASSUME NEW n \in Walks, NEW slow \in BOOLEAN, Attach(s, n, slow)
      PROVE  /\ \E row \in MemberRow : /\ member' = [member EXCEPT ![s.group][s.by] = row]
                                       /\ row.state = old.state /\ row.fresh = old.fresh
             /\ member'[s.group][s.by].run = n
  <2>1. PICK late \in BOOLEAN : late = (old.late \/ (~s.row.late /\ (~s.row.ready \/ slow)))
    OBVIOUS
  <2>2. PICK row : row = [old EXCEPT !.run = n, !.late = late]
    OBVIOUS
  <2>3. row \in MemberRow /\ row.state = old.state /\ row.fresh = old.fresh /\ row.run = n
    BY <1>1, <2>2 DEF MemberRow
  <2>4. member' = [member EXCEPT ![s.group][s.by] = row]
    BY <1>2, <2>1, <2>2 DEF Attach
  <2>5. member'[s.group][s.by] = row
    BY <1>1, <2>3, <2>4, OneRow DEF GroupsTypes
  <2> QED BY <2>3, <2>4, <2>5
<1>3. CASE StartInGroup(s)
  <2>1. PICK n \in NewWalk(s.by), slow \in BOOLEAN :
            /\ walk' = [walk EXCEPT ![s.by][n] = [status |-> "going", version |-> path.version]]
            /\ Attach(s, n, slow)
    BY <1>3 DEF StartInGroup
  <2>2. n \in Walks /\ [status |-> "going", version |-> path.version] \in OutingRow
    BY DEF NewWalk, OutingRow, GroupsTypes
  <2>3. walk' \in [Members -> [Walks -> OutingRow]]
    BY <1>1, <2>1, <2>2, OneWalk DEF GroupsTypes
  <2>4. starting' = starting \ {s} /\ UNCHANGED <<path, group, blocked, made, requestVars>> /\ Quiet
    BY <1>3 DEF StartInGroup
  <2> QED BY <1>1, <1>2, <2>1, <2>2, <2>3, <2>4
<1>4. CASE RetryInGroup(s)
  <2>1. PICK slow \in BOOLEAN : Attach(s, s.run, slow)
    BY <1>4 DEF RetryInGroup
  <2>2. s.run \in Walks /\ walk' = walk /\ walk' \in [Members -> [Walks -> OutingRow]]
    BY <1>1, <1>4 DEF RetryInGroup, GroupsTypes
  <2>3. starting' = starting \ {s} /\ UNCHANGED <<path, group, blocked, made, requestVars>> /\ Quiet
    BY <1>4 DEF RetryInGroup
  <2> QED BY <1>1, <1>2, <2>1, <2>2, <2>3
<1> QED BY <1>3, <1>4

\* Starts in a group, from the check to the run.
LEMMA StartsKeep ==
    ASSUME GroupsInv,
           \/ \E g \in Groups, u \in Members : CheckStart(g, u) \/ CheckRetry(g, u)
           \/ \E s \in starting : StartInGroup(s) \/ RetryInGroup(s) \/ RefuseStart(s)
    PROVE  GroupsInv'
<1>1. ASSUME starting' \in SUBSET StartRow, Quiet,
             UNCHANGED <<path, group, member, walk, requestVars>>
      PROVE  GroupsInv'
  <2>1. GroupsTypes' /\ SamePeople
    BY <1>1 DEF GroupsInv, GroupsTypes, SamePeople, requestVars
  <2> QED BY <2>1, SamePeopleKeeps
<1>2. ASSUME NEW g \in Groups, NEW u \in Members, CheckStart(g, u) \/ CheckRetry(g, u) PROVE GroupsInv'
  <2>1. PICK s \in StartRow : /\ starting' = starting \cup {s} /\ Quiet
                              /\ UNCHANGED <<path, group, member, walk, requestVars>>
    BY <1>2, CheckReads DEF GroupsInv
  <2> QED BY <1>1, <2>1 DEF GroupsInv, GroupsTypes
<1>3. ASSUME NEW s \in starting, RefuseStart(s) PROVE GroupsInv'
  BY <1>1, <1>3 DEF RefuseStart, GroupsInv, GroupsTypes
<1>4. ASSUME NEW s \in starting, StartInGroup(s) \/ RetryInGroup(s) PROVE GroupsInv'
  <2>1. /\ s.group \in Groups /\ s.by \in Members /\ walk' \in [Members -> [Walks -> OutingRow]]
        /\ UNCHANGED <<path, group, inFlight, willing, atOnce>> /\ Quiet
        /\ starting' \in SUBSET StartRow
    BY <1>4, StartWrites DEF GroupsInv, GroupsTypes, requestVars
  <2>2. PICK row \in MemberRow : /\ member' = [member EXCEPT ![s.group][s.by] = row]
                                 /\ row.state = member[s.group][s.by].state
                                 /\ row.fresh = member[s.group][s.by].fresh
    BY <1>4, StartWrites DEF GroupsInv
  <2> QED BY <2>1, <2>2, RowKeeps
<1> QED BY <1>2, <1>3, <1>4

\* Blocks, the route, and runs outside a group.
LEMMA AroundKeeps ==
    ASSUME GroupsInv,
           \/ \E u, v \in Members : Block(u, v)
           \/ \E pair \in blocked : Unblock(pair)
           \/ Revise \/ Withdraw \/ Republish
           \/ \E u \in Members : StartAlone(u) \/ CloseIdle(u)
    PROVE  GroupsInv'
<1>1. /\ path \in [open: BOOLEAN, version: Nat] /\ group \in [Groups -> GroupRow]
      /\ walk \in [Members -> [Walks -> OutingRow]]
  BY DEF GroupsInv, GroupsTypes
<1>2. UNCHANGED <<member, starting, inFlight, willing, atOnce>> /\ Quiet
  BY DEF Block, Unblock, Revise, Withdraw, Republish, StartAlone, CloseIdle, requestVars
<1>3. path' \in [open: BOOLEAN, version: Nat]
  <2>1. path' \in {path, [path EXCEPT !.version = path.version + 1], [path EXCEPT !.open = FALSE],
                   [path EXCEPT !.open = TRUE]}
    BY DEF Block, Unblock, Revise, Withdraw, Republish, StartAlone, CloseIdle
  <2>2. path.version + 1 \in Nat
    BY <1>1
  <2> QED BY <1>1, <2>1, <2>2
<1>4. group' \in [Groups -> GroupRow]
      /\ \A g \in Groups : group'[g].status = group[g].status \/ group'[g].status = "cancelled"
  <2>1. CASE group' = group
    BY <1>1, <2>1
  <2>2. CASE Withdraw
    <3>1. group' = CancelGathering
      BY <2>2 DEF Withdraw
    <3>2. \A g \in Groups : Cancelled(g) \in GroupRow /\ Cancelled(g).status = "cancelled"
      BY <1>1 DEF Cancelled, GroupRow, GroupStatuses
    <3> QED BY <1>1, <3>1, <3>2 DEF CancelGathering
  <2> QED BY <2>1, <2>2 DEF Block, Unblock, Revise, Republish, StartAlone, CloseIdle
<1>5. walk' \in [Members -> [Walks -> OutingRow]]
  <2>1. CASE walk' = walk
    BY <1>1, <2>1
  <2>2. ASSUME NEW u \in Members, StartAlone(u) \/ CloseIdle(u) PROVE walk' \in [Members -> [Walks -> OutingRow]]
    <3>1. PICK n \in Walks, row \in OutingRow : walk' = [walk EXCEPT ![u][n] = row]
      <4>1. CASE StartAlone(u)
        <5>1. [status |-> "going", version |-> path.version] \in OutingRow
          BY <1>1 DEF OutingRow
        <5> QED BY <4>1, <5>1 DEF StartAlone, NewWalk
      <4>2. CASE CloseIdle(u)
        <5>1. PICK n \in Walks : walk' = [walk EXCEPT ![u][n] = [walk[u][n] EXCEPT !.status = "cancelled"]]
          BY <4>2 DEF CloseIdle, Going
        <5>2. [walk[u][n] EXCEPT !.status = "cancelled"] \in OutingRow
          BY <1>1 DEF OutingRow
        <5> QED BY <5>1, <5>2
      <4> QED BY <2>2, <4>1, <4>2
    <3> QED BY <1>1, <3>1, OneWalk
  <2> QED BY <2>1, <2>2 DEF Block, Unblock, Revise, Withdraw, Republish
<1>6. GroupsTypes'
  BY <1>2, <1>3, <1>4, <1>5 DEF GroupsInv, GroupsTypes
<1>7. SamePeople
  BY <1>2, <1>4 DEF SamePeople
<1> QED BY <1>6, <1>7, SamePeopleKeeps

\* A run that ends, and the group that its end settles.
LEMMA EndsKeep ==
    ASSUME GroupsInv,
           \/ \E u \in Members, status \in {"completed", "cancelled"} : EndRun(u, status)
           \/ \E g \in Groups : CloseGone(g) \/ SettleIfDue(g)
    PROVE  GroupsInv'
<1>1. walk \in [Members -> [Walks -> OutingRow]]
  BY DEF GroupsInv, GroupsTypes
<1>2. ASSUME NEW g \in Groups, CloseGone(g) \/ SettleIfDue(g) PROVE GroupsInv'
  <2>1. \E status \in {"settled", "cancelled"} : group' = [group EXCEPT ![g] = [group[g] EXCEPT !.status = status]]
    BY <1>2 DEF CloseGone, SettleIfDue, Cancelled, Settled
  <2>2. UNCHANGED <<path, member, walk, starting, inFlight, willing, atOnce>> /\ Quiet
    BY <1>2 DEF CloseGone, SettleIfDue, requestVars
  <2> QED BY <1>1, <2>1, <2>2, OverKeeps
<1>3. ASSUME NEW u \in Members, NEW status \in {"completed", "cancelled"}, EndRun(u, status)
      PROVE  GroupsInv'
  <2>1. PICK n \in Walks : walk' = [walk EXCEPT ![u][n] = [walk[u][n] EXCEPT !.status = status]]
    BY <1>3 DEF EndRun, Going
  <2>2. [walk[u][n] EXCEPT !.status = status] \in OutingRow
    BY <1>1 DEF OutingRow
  <2>3. walk' \in [Members -> [Walks -> OutingRow]]
    BY <1>1, <2>1, <2>2, OneWalk
  <2>4. UNCHANGED <<path, member, starting, inFlight, willing, atOnce>> /\ Quiet
    BY <1>3 DEF EndRun, requestVars
  <2>5. group' = group \/ \E g \in Groups : group' = [group EXCEPT ![g] = [group[g] EXCEPT !.status = "settled"]]
    BY <1>3 DEF EndRun, Settled
  <2>6. CASE group' = group
    <3>1. GroupsTypes' /\ SamePeople
      BY <2>3, <2>4, <2>6 DEF GroupsInv, GroupsTypes, SamePeople
    <3> QED BY <3>1, SamePeopleKeeps
  <2>7. CASE \E g \in Groups : group' = [group EXCEPT ![g] = [group[g] EXCEPT !.status = "settled"]]
    BY <2>3, <2>4, <2>7, OverKeeps
  <2> QED BY <2>5, <2>6, <2>7
<1> QED BY <1>2, <1>3

-----------------------------------------------------------------------------
(* Requests.                                                                *)

\* What a request has read is what it checked.
LEMMA ReadRow ==
    ASSUME GroupsTypes, NEW r \in Requests
    PROVE  /\ Read(r) \in FlightRow
           /\ Read(r).op = r.op /\ Read(r).by = r.by /\ Read(r).group = r.group /\ Read(r).on = r.on
           /\ May(Read(r)) <=> May(r)
<1>1. /\ Read(r).op = r.op /\ Read(r).by = r.by /\ Read(r).group = r.group /\ Read(r).on = r.on
      /\ Read(r).was = State(r.group, r.on) /\ Read(r).version = path.version
      /\ Read(r).going = group[r.group].status /\ Read(r).together = Joined(r.group)
  BY DEF Read
<1>2. State(r.group, r.on) \in States /\ path.version \in Nat /\ group[r.group].status \in GroupStatuses
      /\ Joined(r.group) \in SUBSET Members
  BY DEF GroupsTypes, Requests, State, States, MemberRow, GroupRow, Joined
<1>3. Read(r) \in FlightRow
  BY <1>2 DEF Read, FlightRow, Requests
<1>4. May(Read(r)) <=> May(r)
  BY <1>1 DEF May, MayCreate, MayInvite, MayAccept, MayDecline, MayRequest, MayAnswer, MayApprove,
              MayLeave, MayRemove, MayCancel, MayStart, MayReport
<1> QED BY <1>1, <1>3, <1>4

\* A request that is received has checked what it will write.
LEMMA ReceiveKeeps ==
    ASSUME GroupsInv, NEW r \in Requests, Receive(r)
    PROVE  GroupsInv'
<1>0. Read(r) \in FlightRow /\ May(Read(r)) /\ inFlight' = inFlight \cup {Read(r)}
  BY ReadRow DEF GroupsInv, Receive
<1>1. PICK row \in FlightRow : May(row) /\ inFlight' = inFlight \cup {row}
  BY <1>0
<1>2. UNCHANGED <<path, group, member, walk, blocked, atOnce, starting, willing>>
  BY DEF Receive
<1>3. GroupsTypes'
  <2>1. IsFiniteSet(inFlight')
    BY <1>1, FS_AddElement DEF GroupsInv, GroupsTypes
  <2> QED BY <1>1, <1>2, <2>1 DEF GroupsInv, GroupsTypes
<1>4. ForThemselves(row)
  <2>1. row.op \in {"create", "accept", "request"} => row.on = row.by
    BY <1>1 DEF May, MayCreate, MayAccept, MayRequest
  <2>2. row.op = "approve" => State(row.group, row.on) = "requested"
    BY <1>1 DEF May, MayApprove, MayAnswer
  <2>3. row.group \in Groups /\ row.on \in Members
    BY <1>1 DEF FlightRow
  <2> QED BY <2>1, <2>2, <2>3 DEF ForThemselves, GroupsInv, Willingly, AskedThem
<1>5. Willingly'
  <2>1. \A q \in inFlight' : ForThemselves(q)
    BY <1>1, <1>4 DEF GroupsInv, Willingly
  <2>2. \A q \in inFlight' : ForThemselves(q)'
    BY <1>1, <1>2, <2>1 DEF ForThemselves
  <2>3. AskedThem'
    BY <1>2 DEF GroupsInv, Willingly, AskedThem, State
  <2> QED BY <2>2, <2>3 DEF Willingly
<1>6. ASSUME atOnce' = 1 PROVE InTurn'
  <2>1. InTurn /\ Cardinality(inFlight) < 1
    BY <1>2, <1>6 DEF GroupsInv, Receive
  <2>2. Cardinality(inFlight) \in Nat
    BY FS_CardinalityType DEF GroupsInv, GroupsTypes
  <2>3. Cardinality(inFlight) = 0
    BY <2>1, <2>2
  <2>4. inFlight' = {row}
    BY <1>1, <2>3, FS_EmptySet DEF GroupsInv, GroupsTypes
  <2>5. May(row)'
    <3>1. /\ \A g, u : State(g, u)' = State(g, u) /\ InviteLive(g, u)' = InviteLive(g, u)
                         /\ HoldsSeat(g, u)' = HoldsSeat(g, u) /\ NoBlock(g, u)' = NoBlock(g, u)
          /\ \A g : Live(g)' = Live(g) /\ StillOpen(g)' = StillOpen(g)
      BY <1>2 DEF State, InviteLive, HoldsSeat, NoBlock, Live, StillOpen
    <3>2. \A g : Joined(g)' = Joined(g) /\ Seated(g)' = Seated(g)
      BY <3>1 DEF Joined, Seated
    <3>3. /\ \A u, g : Free(u, g)' = Free(u, g)
          /\ \A g : SeatFree(g)' = SeatFree(g)
      BY <3>1, <3>2 DEF Free, InOtherLive, SeatFree
    <3> QED BY <1>1, <1>2, <3>1, <3>2, <3>3
            DEF May, MayCreate, MayInvite, MayAccept, MayDecline, MayRequest, MayAnswer, MayApprove,
                MayLeave, MayRemove, MayCancel, MayStart, MayReport
  <2>6. NobodyBefore' /\ OneLiveGroup' /\ SeatsWithinPlan'
    BY <1>2, <2>1 DEF InTurn, NobodyBefore, OneLiveGroup, SeatsWithinPlan, State, Live, Joined,
                      InviteLive, HoldsSeat, Seated
  <2> QED BY <2>4, <2>5, <2>6 DEF InTurn
<1> QED BY <1>3, <1>5, <1>6 DEF GroupsInv

\* The row a request writes.
LEMMA AnswerRow ==
    ASSUME NEW r \in FlightRow, NEW row \in MemberRow, r.op \notin {"cancel", "start"}
    PROVE  /\ MemberAfter(r, row) \in MemberRow
           /\ MemberAfter(r, row).state = Answer(r)
           /\ Answer(r) \in {"joined", "requested", "invited"} =>
                 /\ Answer(r) = "joined" => r.op \in {"create", "accept", "approve"}
                 /\ Answer(r) = "requested" => r.op = "request"
                 /\ Answer(r) = "invited" => r.op = "invite"
<1>1. r.op \in {"create", "accept", "approve", "invite", "decline", "report", "request", "reject",
                "leave", "remove"}
  BY DEF FlightRow, Ops
<1>2. Dismissed(r.was) \in {"revoked", "rejected", "removed"}
  BY DEF Dismissed
<1>3. /\ Answer(r) \in States
      /\ Answer(r) = "joined" => r.op \in {"create", "accept", "approve"}
      /\ Answer(r) = "requested" => r.op = "request"
      /\ Answer(r) = "invited" => r.op = "invite"
  BY <1>1, <1>2 DEF Answer, States
<1> DEFINE fresh == IF r.op = "invite" THEN TRUE ELSE IF r.op = "request" THEN FALSE ELSE row.fresh
           ready == IF r.op \in {"invite", "leave", "remove"} THEN FALSE ELSE row.ready
           late == IF r.op = "approve" THEN r.going = "started" ELSE row.late
<1>4. fresh \in BOOLEAN /\ ready \in BOOLEAN /\ late \in BOOLEAN
  BY DEF MemberRow
<1>5. MemberAfter(r, row) = [row EXCEPT !.state = Answer(r), !.fresh = fresh, !.ready = ready, !.late = late]
  BY DEF MemberAfter
<1> HIDE DEF fresh, ready, late
<1>6. MemberAfter(r, row) \in MemberRow /\ MemberAfter(r, row).state = Answer(r)
  BY <1>3, <1>4, <1>5 DEF MemberRow, States
<1> QED BY <1>3, <1>6

\* The word of being ready is not the place.
LEMMA ReadyRow ==
    ASSUME NEW row \in MemberRow, NEW ready \in BOOLEAN
    PROVE  /\ [row EXCEPT !.ready = ready] \in MemberRow
           /\ [row EXCEPT !.ready = ready].state = row.state
           /\ [row EXCEPT !.ready = ready].fresh = row.fresh
BY DEF MemberRow

\* Types after a commit, and what it changes: of a member's row, of a group.
LEMMA CommitTypes ==
    ASSUME GroupsInv, NEW r \in inFlight, Commit(r)
    PROVE  /\ GroupsTypes'
           /\ \A g \in Groups, u \in Members : g # r.group \/ u # r.on => State(g, u)' = State(g, u)
                                                /\ (HoldsSeat(g, u)' <=> HoldsSeat(g, u))
           /\ \/ /\ r.op \notin {"cancel", "start"} /\ State(r.group, r.on)' = Answer(r)
              \/ /\ r.op \in {"cancel", "start"} /\ \A g \in Groups, u \in Members :
                       State(g, u)' = State(g, u) /\ (HoldsSeat(g, u)' <=> HoldsSeat(g, u))
           /\ \A g \in Groups : g # r.group => group'[g] = group[g]
           /\ group'[r.group].status =
                 CASE r.op = "create" -> "gathering" [] r.op = "cancel" -> "cancelled"
                   [] r.op = "start" -> "started" [] OTHER -> group[r.group].status
<1>1. r \in FlightRow /\ r.group \in Groups /\ r.on \in Members /\ r.by \in Members /\ r.version \in Nat
  BY DEF GroupsInv, GroupsTypes, FlightRow
<1>2. /\ inFlight' = inFlight \ {r} /\ UNCHANGED <<path, walk, atOnce, starting>>
      /\ member \in [Groups -> [Members -> MemberRow]] /\ group \in [Groups -> GroupRow]
  BY DEF Commit, GroupsInv, GroupsTypes
<1>3. IsFiniteSet(inFlight') /\ inFlight' \in SUBSET FlightRow
  BY <1>2, FS_RemoveElement DEF GroupsInv, GroupsTypes
<1>4. CASE CommitMember(r)
  <2>1. r.op \notin {"cancel", "start"} /\ member' = [member EXCEPT ![r.group][r.on] = MemberAfter(r, member[r.group][r.on])]
    BY <1>4 DEF CommitMember
  <2>2. MemberAfter(r, member[r.group][r.on]) \in MemberRow
        /\ MemberAfter(r, member[r.group][r.on]).state = Answer(r)
    BY <1>1, <1>2, <2>1, AnswerRow
  <2>3. /\ member' \in [Groups -> [Members -> MemberRow]]
        /\ member'[r.group][r.on] = MemberAfter(r, member[r.group][r.on])
        /\ \A h \in Groups, v \in Members : h # r.group \/ v # r.on => member'[h][v] = member[h][v]
    BY <1>1, <1>2, <2>1, <2>2, OneRow
  <2>4. CASE r.op = "create"
    <3> DEFINE row == [status |-> "gathering", version |-> r.version]
    <3>1. row \in GroupRow /\ row.status = "gathering"
      BY <1>1 DEF GroupRow, GroupStatuses
    <3>2. group' = [group EXCEPT ![r.group] = row]
      BY <1>4, <2>4 DEF CommitMember
    <3> HIDE DEF row
    <3>3. /\ group' \in [Groups -> GroupRow] /\ group'[r.group] = row
          /\ \A h \in Groups \ {r.group} : group'[h] = group[h]
      BY <1>1, <1>2, <3>1, <3>2, OneGroup
    <3> QED BY <1>2, <1>3, <2>1, <2>2, <2>3, <2>4, <3>1, <3>3
            DEF GroupsInv, GroupsTypes, State, HoldsSeat, InviteLive
  <2>5. CASE r.op # "create"
    <3>1. group' = group
      BY <1>4, <2>5 DEF CommitMember
    <3> QED BY <1>2, <1>3, <2>1, <2>2, <2>3, <2>5, <3>1
            DEF GroupsInv, GroupsTypes, State, HoldsSeat, InviteLive
  <2> QED BY <2>4, <2>5
<1>5. CASE CommitCancel(r)
  <2> DEFINE row == [group[r.group] EXCEPT !.status = "cancelled"]
  <2>1. row \in GroupRow /\ row.status = "cancelled"
    BY <1>1, <1>2 DEF GroupRow, GroupStatuses
  <2>2. group' = [group EXCEPT ![r.group] = row] /\ member' = member /\ r.op = "cancel"
    BY <1>5 DEF CommitCancel
  <2> HIDE DEF row
  <2>3. /\ group' \in [Groups -> GroupRow] /\ group'[r.group] = row
        /\ \A h \in Groups \ {r.group} : group'[h] = group[h]
    BY <1>1, <1>2, <2>1, <2>2, OneGroup
  <2> QED BY <1>2, <1>3, <2>1, <2>2, <2>3 DEF GroupsInv, GroupsTypes, State, HoldsSeat, InviteLive
<1>6. CASE CommitStart(r)
  <2> DEFINE row == [status |-> "started", version |-> r.version]
             ready == member[r.group][r.by].ready \/ r.by \in r.together
             after == [member[r.group][r.by] EXCEPT !.ready = ready]
  <2>1. row \in GroupRow /\ row.status = "started"
    BY <1>1 DEF GroupRow, GroupStatuses
  <2>2. group' = [group EXCEPT ![r.group] = row] /\ r.op = "start"
    BY <1>6 DEF CommitStart, VersionAtStart
  <2>3. member' = [member EXCEPT ![r.group][r.by] = after]
    BY <1>6 DEF CommitStart
  <2>4. ready \in BOOLEAN
    OBVIOUS
  <2> HIDE DEF row, ready
  <2>5. after \in MemberRow /\ after.state = member[r.group][r.by].state /\ after.fresh = member[r.group][r.by].fresh
    <3>1. member[r.group][r.by] \in MemberRow
      BY <1>1, <1>2
    <3> QED BY <2>4, <3>1, ReadyRow
  <2> HIDE DEF after
  <2>6. /\ group' \in [Groups -> GroupRow] /\ group'[r.group] = row
        /\ \A h \in Groups \ {r.group} : group'[h] = group[h]
    BY <1>1, <1>2, <2>1, <2>2, OneGroup
  <2>7. /\ member' \in [Groups -> [Members -> MemberRow]] /\ member'[r.group][r.by] = after
        /\ \A h \in Groups, v \in Members : h # r.group \/ v # r.by => member'[h][v] = member[h][v]
    BY <1>1, <1>2, <2>3, <2>5, OneRow
  <2>8. \A g \in Groups, u \in Members : State(g, u)' = State(g, u) /\ (HoldsSeat(g, u)' <=> HoldsSeat(g, u))
    BY <2>5, <2>7 DEF State, HoldsSeat, InviteLive
  <2>9. GroupsTypes'
    BY <1>2, <1>3, <2>6, <2>7 DEF GroupsInv, GroupsTypes
  <2> QED BY <2>1, <2>2, <2>6, <2>8, <2>9
<1> QED BY <1>4, <1>5, <1>6 DEF Commit

\* One person more, or fewer, in one group.
LEMMA OneSeat ==
    ASSUME SeatsWithinPlan, NEW g \in Groups, NEW u \in Members,
           \A h \in Groups, v \in Members : h # g \/ v # u => (HoldsSeat(h, v)' <=> HoldsSeat(h, v)),
           HoldsSeat(g, u)' => HoldsSeat(g, u) \/ SeatFree(g)
    PROVE  SeatsWithinPlan'
<1> SUFFICES ASSUME NEW h \in Groups PROVE Cardinality(Seated(h)') <= MaxMembers
  BY DEF SeatsWithinPlan
<1>1. /\ IsFiniteSet(Seated(h)) /\ Cardinality(Seated(h)) \in Nat /\ Cardinality(Seated(h)) <= MaxMembers
      /\ IsFiniteSet(Seated(h) \cup {u})
      /\ Cardinality(Seated(h) \cup {u}) = IF u \in Seated(h) THEN Cardinality(Seated(h)) ELSE Cardinality(Seated(h)) + 1
  <2>1. IsFiniteSet(Seated(h))
    BY OrganizerAssumption, FS_Subset DEF Seated
  <2> QED BY <2>1, FS_CardinalityType, FS_AddElement DEF SeatsWithinPlan
<1>2. CASE h # g \/ ~HoldsSeat(g, u)' \/ HoldsSeat(g, u)
  <2>1. Seated(h)' \subseteq Seated(h)
    BY <1>2 DEF Seated
  <2>2. Cardinality(Seated(h)') <= Cardinality(Seated(h)) /\ Cardinality(Seated(h)') \in Nat
    BY <1>1, <2>1, FS_Subset, FS_CardinalityType
  <2> QED BY <1>1, <2>2, GroupBoundsAssumption
<1>3. CASE h = g /\ HoldsSeat(g, u)' /\ ~HoldsSeat(g, u)
  <2>1. Seated(h)' \subseteq Seated(h) \cup {u}
    BY <1>3 DEF Seated
  <2>2. Cardinality(Seated(h)) < MaxMembers
    BY <1>3 DEF SeatFree
  <2>3. Cardinality(Seated(h) \cup {u}) <= MaxMembers /\ Cardinality(Seated(h) \cup {u}) \in Nat
    BY <1>1, <2>2, GroupBoundsAssumption
  <2>4. Cardinality(Seated(h)') <= Cardinality(Seated(h) \cup {u}) /\ Cardinality(Seated(h)') \in Nat
    BY <1>1, <2>1, FS_Subset, FS_CardinalityType
  <2> QED BY <2>3, <2>4, GroupBoundsAssumption
<1> QED BY <1>2, <1>3

\* Requests that overlap or not, nobody is let in who did not ask.
LEMMA CommitWillingly ==
    ASSUME GroupsInv, NEW r \in inFlight, Commit(r)
    PROVE  Willingly'
<1>1. r \in FlightRow /\ r.group \in Groups /\ r.on \in Members /\ r.by \in Members
  BY DEF GroupsInv, GroupsTypes, FlightRow
<1>2. /\ inFlight' = inFlight \ {r}
      /\ willing' = IF r.op \in {"create", "accept", "request"}
                    THEN willing \cup {<<r.group, r.by>>} ELSE willing
  BY DEF Commit
<1>3. AskedThem /\ ForThemselves(r)
  BY DEF GroupsInv, Willingly
<1>4. ASSUME NEW g \in Groups, NEW u \in Members, State(g, u)' \in {"joined", "requested"}
      PROVE  <<g, u>> \in willing'
  <2>1. CASE State(g, u)' = State(g, u)
    BY <1>2, <1>3, <1>4, <2>1 DEF AskedThem
  <2>2. CASE State(g, u)' # State(g, u)
    <3>1. g = r.group /\ u = r.on /\ r.op \notin {"cancel", "start"} /\ State(g, u)' = Answer(r)
      BY <2>2, CommitTypes
    <3>2. r.op \in {"create", "accept", "approve", "request"}
      <4>1. NoMember \in MemberRow
        BY DEF NoMember, MemberRow, States
      <4> QED BY <1>1, <1>4, <3>1, <4>1, AnswerRow
    <3> QED BY <1>2, <1>3, <3>1, <3>2 DEF ForThemselves
  <2> QED BY <2>1, <2>2
<1>5. \A q \in inFlight' : ForThemselves(q)'
  BY <1>2 DEF GroupsInv, Willingly, ForThemselves
<1> QED BY <1>4, <1>5 DEF Willingly, AskedThem

\* The request in flight finds everything as it has checked it.
LEMMA CommitInTurn ==
    ASSUME GroupsInv, NEW r \in inFlight, Commit(r), atOnce = 1
    PROVE  InTurn'
<1>1. r \in FlightRow /\ r.group \in Groups /\ r.on \in Members /\ r.by \in Members
  BY DEF GroupsInv, GroupsTypes, FlightRow
<1>2. InTurn /\ May(r) /\ inFlight' = {}
  BY DEF GroupsInv, InTurn, Commit
<1> DEFINE status == CASE r.op = "create" -> "gathering" [] r.op = "cancel" -> "cancelled"
                       [] r.op = "start" -> "started" [] OTHER -> group[r.group].status
           comes == r.op \notin {"cancel", "start"}
<1>3. /\ \A g \in Groups, u \in Members : g # r.group \/ u # r.on \/ ~comes =>
               State(g, u)' = State(g, u) /\ (HoldsSeat(g, u)' <=> HoldsSeat(g, u))
      /\ comes => State(r.group, r.on)' = Answer(r)
      /\ \A g \in Groups \ {r.group} : group'[g] = group[g]
      /\ group'[r.group].status = status
  BY CommitTypes
<1>4. /\ comes /\ Answer(r) = "joined" => r.op \in {"create", "accept", "approve"}
      /\ comes /\ Answer(r) = "requested" => r.op = "request"
      /\ comes /\ Answer(r) = "invited" => r.op = "invite"
  <2>1. NoMember \in MemberRow
    BY DEF NoMember, MemberRow, States
  <2> QED BY <1>1, <2>1, AnswerRow
<1>5. /\ r.op = "create" => group[r.group].status = "none" /\ Free(r.on, r.group)
      /\ r.op = "accept" => Live(r.group) /\ Free(r.on, r.group) /\ HoldsSeat(r.group, r.on)
      /\ r.op = "approve" => Live(r.group) /\ Free(r.on, r.group) /\ HoldsSeat(r.group, r.on)
      /\ r.op \in {"invite", "request"} => SeatFree(r.group)
      /\ r.op \in {"cancel", "start"} => Live(r.group)
      /\ r.op \in {"invite", "accept", "decline", "request", "approve", "reject", "cancel", "start"} =>
            Live(r.group)
      /\ r.op \in {"leave", "remove", "report"} => State(r.group, r.on) # "none"
  BY <1>2 DEF May, MayCreate, MayInvite, MayAccept, MayDecline, MayRequest, MayAnswer, MayApprove,
              MayLeave, MayRemove, MayCancel, MayStart, MayReport, Live, LiveStatuses, HoldsSeat
<1>6. r.op # "create" => group[r.group].status # "none"
  <2>1. r.op \in Ops
    BY <1>1 DEF FlightRow
  <2> QED BY <1>1, <1>2, <1>5, <2>1 DEF Ops, Live, LiveStatuses, InTurn, NobodyBefore
<1>7. r.op = "create" => \A u \in Members : State(r.group, u) = "none"
  BY <1>1, <1>2, <1>5 DEF InTurn, NobodyBefore
<1>8. NobodyBefore'
  <2>1. group'[r.group].status # "none"
    BY <1>3, <1>6
  <2> QED BY <1>2, <1>3, <2>1 DEF InTurn, NobodyBefore
<1>9. SeatsWithinPlan'
  <2>1. r.op = "create" => SeatFree(r.group)
    <3>1. r.op = "create" => Seated(r.group) = {}
      BY <1>7 DEF Seated, HoldsSeat, InviteLive
    <3> QED BY <3>1, FS_EmptySet, GroupBoundsAssumption DEF SeatFree
  <2>2. HoldsSeat(r.group, r.on)' => HoldsSeat(r.group, r.on) \/ SeatFree(r.group)
    <3>1. CASE ~comes
      BY <1>1, <1>3, <3>1
    <3>2. CASE comes
      <4>1. HoldsSeat(r.group, r.on)' => Answer(r) \in {"joined", "requested", "invited"}
        BY <1>3, <3>2 DEF HoldsSeat, InviteLive
      <4> QED BY <1>4, <1>5, <2>1, <3>2, <4>1
    <3> QED BY <3>1, <3>2
  <2> QED BY <1>1, <1>2, <1>3, <2>2, OneSeat DEF InTurn
<1>10. OneLiveGroup'
  <2> SUFFICES ASSUME NEW u \in Members, NEW g \in Groups, NEW h \in Groups, g # h,
                      Live(g)', Live(h)', u \in Joined(g)', u \in Joined(h)'
               PROVE  FALSE
    BY DEF OneLiveGroup
  <2>1. ASSUME NEW i \in Groups, Live(i)', u \in Joined(i)'
        PROVE  \/ Live(i) /\ u \in Joined(i)
               \/ i = r.group /\ u = r.on /\ Free(u, i)
    <3>1. CASE i # r.group
      BY <1>3, <2>1, <3>1 DEF Live, Joined
    <3>2. CASE i = r.group
      <4>1. CASE u = r.on /\ comes
        BY <1>3, <1>4, <1>5, <2>1, <3>2, <4>1 DEF Joined
      <4>2. CASE u # r.on \/ ~comes
        <5>1. State(i, u) = "joined"
          BY <1>3, <2>1, <3>2, <4>2 DEF Joined
        <5>2. r.op # "create"
          BY <1>7, <3>2, <5>1
        <5>3. Live(i)
          <6>1. CASE r.op \in {"cancel", "start"}
            BY <1>5, <3>2, <6>1
          <6>2. CASE r.op \notin {"cancel", "start"}
            BY <1>3, <2>1, <3>2, <5>2, <6>2 DEF Live
          <6> QED BY <6>1, <6>2
        <5> QED BY <5>1, <5>3 DEF Joined
      <4> QED BY <4>1, <4>2
    <3> QED BY <3>1, <3>2
  <2>2. \/ Live(g) /\ u \in Joined(g) /\ Live(h) /\ u \in Joined(h)
        \/ Live(h) /\ u \in Joined(h) /\ Free(u, g)
        \/ Live(g) /\ u \in Joined(g) /\ Free(u, h)
    BY <2>1
  <2> QED BY <1>2, <2>2 DEF InTurn, OneLiveGroup, Free, InOtherLive
<1> QED BY <1>2, <1>8, <1>9, <1>10 DEF InTurn

-----------------------------------------------------------------------------
(* Theorems.                                                                *)

\* Every step of the groups.
LEMMA GroupsStep == GroupsInv /\ [GroupsNext]_groupsVars => GroupsInv'
<1> SUFFICES ASSUME GroupsInv, [GroupsNext]_groupsVars PROVE GroupsInv'
  OBVIOUS
<1>1. CASE UNCHANGED groupsVars
  <2>1. GroupsTypes'
    BY <1>1 DEF groupsVars, GroupsInv, GroupsTypes
  <2>2. Willingly'
    BY <1>1 DEF groupsVars, GroupsInv, Willingly, AskedThem, State, ForThemselves
  <2>3. InTurn' <=> InTurn
    BY <1>1 DEF groupsVars, InTurn, May, MayCreate, MayInvite, MayAccept, MayDecline, MayRequest,
                MayAnswer, MayApprove, MayLeave, MayRemove, MayCancel, MayStart, MayReport, State,
                Live, Joined, InviteLive, HoldsSeat, Seated, SeatFree, InOtherLive, Free, NoBlock,
                StillOpen, NobodyBefore, OneLiveGroup, SeatsWithinPlan
  <2> QED BY <1>1, <2>1, <2>2, <2>3 DEF groupsVars, GroupsInv
<1>2. ASSUME NEW r \in Requests, Receive(r) PROVE GroupsInv'
  BY <1>2, ReceiveKeeps
<1>3. ASSUME NEW r \in inFlight, Commit(r) PROVE GroupsInv'
  BY <1>3, CommitTypes, CommitWillingly, CommitInTurn DEF GroupsInv, Commit
<1>4. ASSUME NEW g \in Groups, NEW u \in Members,
             Expire(g, u) \/ \E ready \in BOOLEAN : SetReady(g, u, ready)
      PROVE  GroupsInv'
  BY <1>4, RowsKeep
<1>5. ASSUME \/ \E u, v \in Members : Block(u, v)
             \/ \E pair \in blocked : Unblock(pair)
             \/ Revise \/ Withdraw \/ Republish
             \/ \E u \in Members : StartAlone(u) \/ CloseIdle(u)
      PROVE  GroupsInv'
  BY <1>5, AroundKeeps
<1>6. ASSUME \/ \E u \in Members : EndRun(u, "completed") \/ EndRun(u, "cancelled")
             \/ \E g \in Groups : CloseGone(g) \/ SettleIfDue(g)
      PROVE  GroupsInv'
  BY <1>6, EndsKeep
<1>7. ASSUME \/ \E g \in Groups, u \in Members : CheckStart(g, u) \/ CheckRetry(g, u)
             \/ \E s \in starting : StartInGroup(s) \/ RetryInGroup(s) \/ RefuseStart(s)
      PROVE  GroupsInv'
  BY <1>7, StartsKeep
<1> QED BY <1>1, <1>2, <1>3, <1>4, <1>5, <1>6, <1>7 DEF GroupsNext

\* The invariant the theorems rest on.
LEMMA GroupsInvariant == GroupsSpec => []GroupsInv
<1> QED BY GroupsBegin, GroupsStep, PTL DEF GroupsSpec

\* For any people, groups, plans and requests: nobody is in a group without
\* having created it, accepted or asked to join; and requests that follow each
\* other keep everyone in one live group and groups within their seats
\* (groups.py, _live_membership and _ensure_seat).
THEOREM SeatsStaySound == GroupsSpec => []SeatsAreSound
<1>1. GroupsInv => SeatsAreSound
  BY DEF GroupsInv, Willingly, AskedThem, InTurn, SeatsAreSound, JoinedWillingly, InTurnSeatedRightly, Joined
<1> QED BY <1>1, GroupsInvariant, PTL

-----------------------------------------------------------------------------
(* Versions of a group that is under way.                                   *)

\* Who creates, starts or cancels a group is its organizer, of whose requests
\* one is in flight; and so nothing of the kind is in flight once the group
\* has started, and its version stays.
UnderWay(g) == group[g].status \in {"started", "settled"}
Organizing(r) == r.op \in {"create", "start", "cancel"}
OneRequestEach == \A r, q \in inFlight : r.by = q.by => r = q
OrganizersDecide == \A r \in inFlight : Organizing(r) => r.by = Organizer[r.group] /\ ~UnderWay(r.group)

\* What a start has checked holds but for the route's version.
CheckedRight == \A s \in starting : UnderWay(s.group) /\ group[s.group].version = s.version

StartsInv == OneRequestEach /\ OrganizersDecide /\ CheckedRight

\* A step beside the requests leaves groups under way as they are.
LEMMA UnderWayStays ==
    ASSUME GroupsTypes, StartsInv, UNCHANGED inFlight,
           \A g \in Groups : /\ UnderWay(g) => UnderWay(g)' /\ group'[g].version = group[g].version
                             /\ UnderWay(g)' => UnderWay(g)
           , starting' \subseteq starting
    PROVE  StartsInv'
<1>1. \A r \in inFlight : r.group \in Groups
  BY DEF GroupsTypes, FlightRow
<1>2. \A s \in starting : s.group \in Groups
  BY DEF GroupsTypes, StartRow
<1>3. OneRequestEach' /\ OrganizersDecide'
  BY <1>1 DEF StartsInv, OneRequestEach, OrganizersDecide, Organizing
<1>4. CheckedRight'
  BY <1>2 DEF StartsInv, CheckedRight
<1> QED BY <1>3, <1>4 DEF StartsInv

\* A request is received.
LEMMA ReceivedOnce ==
    ASSUME GroupsTypes, StartsInv, NEW r \in Requests, Receive(r)
    PROVE  StartsInv'
<1>1. PICK row : row = Read(r)
  OBVIOUS
<1>2. /\ row.op = r.op /\ row.by = r.by /\ row.group = r.group
      /\ inFlight' = inFlight \cup {row} /\ UNCHANGED <<group, starting>>
      /\ \A other \in inFlight : other.by # row.by
  BY <1>1, ReadRow DEF Receive
<1>3. Organizing(row) => row.by = Organizer[row.group] /\ ~UnderWay(row.group)
  BY <1>2 DEF Receive, Organizing, May, MayCreate, MayStart, MayCancel, UnderWay
<1>4. OneRequestEach'
  BY <1>2 DEF StartsInv, OneRequestEach
<1>5. OrganizersDecide'
  BY <1>2, <1>3 DEF StartsInv, OrganizersDecide, Organizing, UnderWay
<1>6. CheckedRight'
  BY <1>2 DEF StartsInv, CheckedRight, UnderWay
<1> QED BY <1>4, <1>5, <1>6 DEF StartsInv

\* A request writes, and no other of its organizer is left.
LEMMA CommittedAlone ==
    ASSUME GroupsInv, StartsInv, NEW r \in inFlight, Commit(r)
    PROVE  StartsInv'
<1>1. /\ r.group \in Groups /\ inFlight' = inFlight \ {r} /\ UNCHANGED starting
      /\ \A g \in Groups : g # r.group => group'[g] = group[g]
  BY CommitTypes DEF GroupsInv, GroupsTypes, FlightRow, Commit
<1>2. \A q \in inFlight : q.group \in Groups
  BY DEF GroupsInv, GroupsTypes, FlightRow
<1>3. \A s \in starting : s.group \in Groups
  BY DEF GroupsInv, GroupsTypes, StartRow
<1>4. OneRequestEach'
  BY <1>1 DEF StartsInv, OneRequestEach
<1>5. CASE ~Organizing(r)
  <2>1. group' = group
    BY <1>5 DEF Organizing, Commit, CommitMember, CommitCancel, CommitStart
  <2> QED BY <1>1, <1>4, <2>1 DEF StartsInv, OrganizersDecide, CheckedRight, Organizing, UnderWay
<1>6. CASE Organizing(r)
  <2>1. r.by = Organizer[r.group] /\ ~UnderWay(r.group)
    BY <1>6 DEF StartsInv, OrganizersDecide
  <2>2. \A q \in inFlight' : Organizing(q) => q.group # r.group
    BY <1>1, <2>1 DEF StartsInv, OrganizersDecide, OneRequestEach
  <2>3. OrganizersDecide'
    BY <1>1, <1>2, <2>2 DEF StartsInv, OrganizersDecide, Organizing, UnderWay
  <2>4. \A s \in starting : s.group # r.group
    BY <2>1 DEF StartsInv, CheckedRight
  <2>5. CheckedRight'
    BY <1>1, <1>3, <2>4 DEF StartsInv, CheckedRight, UnderWay
  <2> QED BY <1>4, <2>3, <2>5 DEF StartsInv
<1> QED BY <1>5, <1>6

LEMMA StartsInvStays == GroupsInv /\ StartsInv /\ [GroupsNext]_groupsVars => StartsInv'
<1> SUFFICES ASSUME GroupsInv, StartsInv, [GroupsNext]_groupsVars PROVE StartsInv'
  OBVIOUS
<1>0. GroupsTypes
  BY DEF GroupsInv
<1>1. ASSUME NEW r \in Requests, Receive(r) PROVE StartsInv'
  BY <1>0, <1>1, ReceivedOnce
<1>2. ASSUME NEW r \in inFlight, Commit(r) PROVE StartsInv'
  BY <1>2, CommittedAlone
<1>3. ASSUME NEW g \in Groups, NEW u \in Members, CheckStart(g, u) \/ CheckRetry(g, u) PROVE StartsInv'
  <2>1. PICK s : /\ s.group = g /\ s.version = path.version /\ starting' = starting \cup {s}
                 /\ GroupForRun(g, u) /\ UNCHANGED <<group, inFlight>>
    BY <1>0, <1>3, CheckReads DEF requestVars
  <2>2. UnderWay(s.group) /\ group[s.group].version = s.version
    BY <2>1 DEF GroupForRun, SameVersion, UnderWay
  <2> QED BY <2>1, <2>2 DEF StartsInv, OneRequestEach, OrganizersDecide, CheckedRight, Organizing, UnderWay
<1>4. ASSUME UNCHANGED <<group, inFlight>>, starting' \subseteq starting PROVE StartsInv'
  BY <1>0, <1>4, UnderWayStays DEF UnderWay
<1>5. ASSUME NEW s \in starting, StartInGroup(s) \/ RetryInGroup(s) \/ RefuseStart(s) PROVE StartsInv'
  BY <1>4, <1>5 DEF StartInGroup, RetryInGroup, RefuseStart, requestVars
<1>6. ASSUME NEW g \in Groups, NEW u \in Members,
             Expire(g, u) \/ \E ready \in BOOLEAN : SetReady(g, u, ready)
      PROVE  StartsInv'
  BY <1>4, <1>6 DEF Expire, SetReady, requestVars
<1>7. ASSUME \/ \E u, v \in Members : Block(u, v)
             \/ \E pair \in blocked : Unblock(pair)
             \/ Revise \/ Republish
             \/ \E u \in Members : StartAlone(u) \/ CloseIdle(u)
      PROVE  StartsInv'
  BY <1>4, <1>7 DEF Block, Unblock, Revise, Republish, StartAlone, CloseIdle, requestVars
<1>8. ASSUME NEW gone \in SUBSET Groups, NEW status \in {"settled", "cancelled"},
             group' = [g \in Groups |-> IF g \in gone THEN [group[g] EXCEPT !.status = status] ELSE group[g]],
             UNCHANGED <<inFlight, starting>>,
             \A g \in gone : IF status = "settled" THEN UnderWay(g) ELSE ~UnderWay(g)
      PROVE  StartsInv'
  <2>1. \A g \in Groups : /\ UnderWay(g) => UnderWay(g)' /\ group'[g].version = group[g].version
                          /\ UnderWay(g)' => UnderWay(g)
    BY <1>0, <1>8 DEF UnderWay, GroupsTypes, GroupRow
  <2> QED BY <1>0, <1>8, <2>1, UnderWayStays
<1>9. CASE Withdraw
  <2>1. group' = [g \in Groups |-> IF g \in {h \in Groups : group[h].status = "gathering"}
                                   THEN [group[g] EXCEPT !.status = "cancelled"] ELSE group[g]]
    BY <1>9 DEF Withdraw, CancelGathering, Cancelled
  <2>2. UNCHANGED <<inFlight, starting>>
    BY <1>9 DEF Withdraw, requestVars
  <2> QED BY <1>8, <2>1, <2>2 DEF UnderWay
<1>10. ASSUME NEW g \in Groups, NEW status \in {"settled", "cancelled"},
              group' = [group EXCEPT ![g] = [group[g] EXCEPT !.status = status]],
              UNCHANGED <<inFlight, starting>>,
              IF status = "settled" THEN UnderWay(g) ELSE ~UnderWay(g)
       PROVE  StartsInv'
  <2>1. group' = [h \in Groups |-> IF h \in {g} THEN [group[h] EXCEPT !.status = status] ELSE group[h]]
    BY <1>0, <1>10 DEF GroupsTypes
  <2> QED BY <1>8, <1>10, <2>1
<1>11. ASSUME NEW g \in Groups, CloseGone(g) \/ SettleIfDue(g) PROVE StartsInv'
  <2>1. UNCHANGED <<inFlight, starting>>
    BY <1>11 DEF CloseGone, SettleIfDue, requestVars
  <2>2. CASE CloseGone(g)
    BY <1>10, <2>1, <2>2 DEF CloseGone, StillOpen, Cancelled, UnderWay
  <2>3. CASE SettleIfDue(g)
    BY <1>10, <2>1, <2>3 DEF SettleIfDue, Due, Settled, UnderWay
  <2> QED BY <1>11, <2>2, <2>3
<1>12. ASSUME NEW u \in Members, NEW status \in {"completed", "cancelled"}, EndRun(u, status) PROVE StartsInv'
  <2>1. UNCHANGED <<inFlight, starting>>
    BY <1>12 DEF EndRun, requestVars
  <2>2. \/ UNCHANGED group
        \/ \E g \in Groups : group' = [group EXCEPT ![g] = Settled(g)] /\ group[g].status = "started"
    BY <1>12 DEF EndRun, Due
  <2> QED BY <1>4, <1>10, <2>1, <2>2 DEF Settled, UnderWay
<1>13. CASE UNCHANGED groupsVars
  BY <1>4, <1>13 DEF groupsVars
<1> QED BY <1>1, <1>2, <1>3, <1>5, <1>6, <1>7, <1>9, <1>11, <1>12, <1>13 DEF GroupsNext

\* One step: the row that names another run, while a run begins, is that run's.
LEMMA StartsOnVersion ==
    ASSUME GroupsTypes, StartsInv, GroupsNext,
           NEW g \in Groups, NEW u \in Members,
           member'[g][u].run # member[g][u].run, walk' # walk
    PROVE  \/ RunOf(walk', u, member'[g][u].run).version = group[g].version
           \/ Overtaken(g, u)
<1>1. PICK s \in starting : StartInGroup(s)
  BY DEF GroupsNext, Receive, Commit, Expire, SetReady, CheckStart, CheckRetry, Check, RetryInGroup, RefuseStart,
         Block, Unblock, CloseGone, SettleIfDue, StartAlone, EndRun, CloseIdle, Revise, Withdraw, Republish
<1>2. s.group \in Groups /\ s.by \in Members
  BY <1>1, StartWrites
<1>3. PICK n \in Walks : /\ walk' = [walk EXCEPT ![s.by][n] = [status |-> "going", version |-> path.version]]
                         /\ member'[s.group][s.by].run = n
  BY <1>1, StartWrites
<1>4. PICK row \in MemberRow : member' = [member EXCEPT ![s.group][s.by] = row]
  BY <1>1, StartWrites
<1>5. g = s.group /\ u = s.by
  BY <1>2, <1>4, OneRow DEF GroupsTypes
<1>6. n # 0 /\ walk'[u][n].version = path.version /\ member'[g][u].run = n
  BY <1>3, <1>5, GroupBoundsAssumption DEF Walks, GroupsTypes
<1>7. RunOf(walk', u, member'[g][u].run).version = path.version
  BY <1>6 DEF RunOf
<1>8. s.version = group[g].version
  BY <1>5 DEF StartsInv, CheckedRight
<1> QED BY <1>5, <1>7, <1>8 DEF Overtaken

\* Starts and requests stay as they were checked.
LEMMA StartsInvariant == GroupsSpec => [](GroupsInv /\ StartsInv)
<1>1. GroupsInit => StartsInv
  BY DEF GroupsInit, StartsInv, OneRequestEach, OrganizersDecide, CheckedRight
<1> QED BY <1>1, GroupsBegin, GroupsStep, StartsInvStays, PTL DEF GroupsSpec

\* For any history of edits, groups and starts: a run that begins in a group is
\* of the version the group set out on, unless a revision was applied between
\* the check of the group and the lock of the route (group_for_run,
\* start_execution, attach_run).
THEOREM GroupsStartOnTheirVersion == GroupsSpec => StartsOnTheGroupsVersion
<1>1. GroupsInv /\ StartsInv /\ [GroupsNext]_groupsVars =>
        [\A g \in Groups, u \in Members :
            /\ member'[g][u].run # member[g][u].run
            /\ walk' # walk
            => \/ RunOf(walk', u, member'[g][u].run).version = group[g].version
               \/ Overtaken(g, u)]_groupsVars
  BY StartsOnVersion DEF GroupsInv
<1> QED BY <1>1, StartsInvariant, PTL DEF GroupsSpec, StartsOnTheGroupsVersion

-----------------------------------------------------------------------------
(* Bounds: what the invariant leaves open of the types.                      *)

\* No row holds a version of the route beyond the last.
VersionsFit ==
    /\ path.version <= MaxVersion
    /\ \A g \in Groups : group[g].version <= MaxVersion
    /\ \A u \in Members, n \in Walks : walk[u][n].version <= MaxVersion
    /\ \A r \in inFlight : r.version <= MaxVersion
    /\ \A s \in starting : s.version <= MaxVersion

\* No more is under way, or was done, than the bounds allow.
RequestsFit ==
    /\ blocked \subseteq SUBSET Members
    /\ atOnce \in AtOnce
    /\ Cardinality(inFlight) <= atOnce
    /\ made \in [requests: 0..MaxRequests, acts: 0..MaxActs]
    /\ willing \subseteq Groups \X Members

\* A version a row takes over is one that was there.
LEMMA VersionsStay ==
    ASSUME GroupsTypes, VersionsFit, [GroupsNext]_groupsVars
    PROVE  VersionsFit'
<1> USE DEF GroupsTypes, VersionsFit
<1>1. CASE UNCHANGED groupsVars
  BY <1>1 DEF groupsVars
<1>2. CASE \E r \in Requests : Receive(r)
  <2>1. PICK r \in Requests : Receive(r)
    BY <1>2
  <2>2. inFlight' = inFlight \cup {Read(r)} /\ Read(r).version = path.version
    BY <2>1 DEF Receive, Read
  <2>3. UNCHANGED <<path, group, walk, starting>>
    BY <2>1 DEF Receive
  <2> QED
    BY <2>2, <2>3
<1>3. CASE \E r \in inFlight : Commit(r)
  <2>1. PICK r \in inFlight : Commit(r)
    BY <1>3
  <2>2. UNCHANGED <<path, walk, starting>> /\ inFlight' = inFlight \ {r}
    BY <2>1 DEF Commit
  <2>3. r \in FlightRow /\ r.group \in Groups /\ r.version <= MaxVersion
    BY DEF FlightRow
  <2>4. \A g \in Groups : group'[g].version <= MaxVersion
    <3> SUFFICES ASSUME NEW g \in Groups PROVE group'[g].version <= MaxVersion
      OBVIOUS
    <3> USE DEF GroupRow
    <3>1. CASE CommitMember(r)
      BY <2>3, <3>1 DEF CommitMember
    <3>2. CASE CommitCancel(r)
      BY <2>3, <3>2 DEF CommitCancel
    <3>3. CASE CommitStart(r)
      BY <2>3, <3>3 DEF CommitStart, VersionAtStart
    <3> QED
      BY <2>1, <3>1, <3>2, <3>3 DEF Commit
  <2> QED
    BY <2>2, <2>4
<1>4. CASE Revise
  <2>1. path'.version = path.version + 1 /\ path.version \in Nat /\ path.version < MaxVersion
    BY <1>4 DEF Revise
  <2>2. UNCHANGED <<group, walk, inFlight, starting>>
    BY <1>4 DEF Revise, requestVars
  <2> QED
    BY <2>1, <2>2, GroupBoundsAssumption
<1>5. CASE Withdraw \/ Republish
  <2>1. path'.version = path.version /\ UNCHANGED <<walk, inFlight, starting>>
    BY <1>5 DEF Withdraw, Republish, requestVars
  <2>2. \A g \in Groups : group'[g].version = group[g].version
    BY <1>5 DEF Withdraw, Republish, CancelGathering, Cancelled, GroupRow
  <2> QED
    BY <2>1, <2>2
<1>6. CASE \E g \in Groups : CloseGone(g) \/ SettleIfDue(g)
  <2>1. UNCHANGED <<path, walk, inFlight, starting>>
    BY <1>6 DEF CloseGone, SettleIfDue, requestVars
  <2>2. \A g \in Groups : group'[g].version = group[g].version
    <3>1. PICK g \in Groups, status \in {"cancelled", "settled"} :
              group' = [group EXCEPT ![g] = [group[g] EXCEPT !.status = status]]
      BY <1>6 DEF CloseGone, SettleIfDue, Settled, Cancelled
    <3> QED
      BY <3>1 DEF GroupRow
  <2> QED
    BY <2>1, <2>2
<1>7. ASSUME NEW u \in Members, NEW n \in Walks,
             walk' = [walk EXCEPT ![u][n] = [status |-> "going", version |-> path.version]],
             UNCHANGED <<path, group, inFlight>>, starting' \subseteq starting
      PROVE  VersionsFit'
  <2>1. \A v \in Members, m \in Walks : walk'[v][m].version \in {path.version, walk[v][m].version}
    BY <1>7
  <2> QED
    BY <1>7, <2>1
<1>10. CASE \E u \in Members : StartAlone(u)
  BY <1>7, <1>10 DEF StartAlone, NewWalk, requestVars
<1>11. CASE \E s \in starting : StartInGroup(s) \/ RetryInGroup(s) \/ RefuseStart(s)
  <2>1. PICK s \in starting : StartInGroup(s) \/ RetryInGroup(s) \/ RefuseStart(s)
    BY <1>11
  <2>2. UNCHANGED <<path, group, inFlight>> /\ starting' \subseteq starting
    BY <2>1 DEF StartInGroup, RetryInGroup, RefuseStart, requestVars
  <2>3. CASE UNCHANGED walk
    BY <2>2, <2>3
  <2>4. CASE walk' # walk
    <3>1. StartInGroup(s)
      BY <2>1, <2>4 DEF RetryInGroup, RefuseStart
    <3> QED BY <1>7, <2>2, <2>4, <3>1, StartWrites
  <2> QED BY <2>3, <2>4
<1>12. CASE \E g \in Groups, u \in Members : CheckStart(g, u) \/ CheckRetry(g, u)
  <2>1. PICK s : /\ s.version = path.version /\ starting' = starting \cup {s}
                 /\ UNCHANGED <<path, group, walk, inFlight>>
    BY <1>12, CheckReads DEF requestVars
  <2> QED BY <2>1
<1>8. CASE \E u \in Members : EndRun(u, "completed") \/ EndRun(u, "cancelled") \/ CloseIdle(u)
  <2>0. PICK u \in Members : EndRun(u, "completed") \/ EndRun(u, "cancelled") \/ CloseIdle(u)
    BY <1>8
  <2>1. PICK status \in {"completed", "cancelled"} : EndRun(u, status) \/ CloseIdle(u)
    BY <2>0
  <2>2. PICK n \in Going(u), ended \in {"completed", "cancelled"} : walk' = [walk EXCEPT ![u][n].status = ended]
    BY <2>1 DEF EndRun, CloseIdle
  <2>3. \A v \in Members, m \in Walks : walk'[v][m].version = walk[v][m].version
    BY <2>2 DEF Going, OutingRow
  <2>4. UNCHANGED <<path, inFlight, starting>>
    BY <2>1 DEF EndRun, CloseIdle, requestVars
  <2>5. \A h \in Groups : group'[h].version = group[h].version
    <3>1. CASE UNCHANGED group
      BY <3>1
    <3>2. CASE \E g \in Groups : group' = [group EXCEPT ![g] = Settled(g)]
      BY <3>2 DEF Settled, GroupRow
    <3> QED
      BY <2>1, <3>1, <3>2 DEF EndRun, CloseIdle
  <2> QED
    BY <2>3, <2>4, <2>5
<1>9. CASE UNCHANGED <<path, group, walk, inFlight, starting>>
  BY <1>9
<1> QED
  <2>1. (\E g \in Groups, u \in Members :
            \/ Expire(g, u)
            \/ \E ready \in BOOLEAN : SetReady(g, u, ready))
        => UNCHANGED <<path, group, walk, inFlight, starting>>
    BY DEF Expire, SetReady, requestVars
  <2>2. (\E u, v \in Members : Block(u, v)) \/ (\E pair \in blocked : Unblock(pair))
        => UNCHANGED <<path, group, walk, inFlight, starting>>
    BY DEF Block, Unblock, requestVars
  <2> QED
    BY <1>1, <1>2, <1>3, <1>4, <1>5, <1>6, <1>8, <1>9, <1>10, <1>11, <1>12, <2>1, <2>2 DEF GroupsNext

\* Requests and acts stop at their bounds.
LEMMA RequestsStay ==
    ASSUME GroupsTypes, RequestsFit, [GroupsNext]_groupsVars
    PROVE  RequestsFit'
<1> USE DEF GroupsTypes, RequestsFit
<1>1. CASE UNCHANGED groupsVars
  BY <1>1 DEF groupsVars
<1>2. CASE \E r \in Requests : Receive(r)
  <2>1. PICK r \in Requests : Receive(r)
    BY <1>2
  <2>2. UNCHANGED <<blocked, atOnce, willing>>
    BY <2>1 DEF Receive
  <2>3. made' = [made EXCEPT !.requests = @ + 1] /\ made.requests + atOnce <= MaxRequests
    BY <2>1 DEF Receive, Request
  <2>4. made' \in [requests: 0..MaxRequests, acts: 0..MaxActs]
    <3>1. made.requests \in Nat /\ atOnce \in Nat /\ atOnce >= 1
      OBVIOUS
    <3>2. made.requests + 1 \in 0..MaxRequests
      BY <2>3, <3>1, GroupBoundsAssumption
    <3> QED
      BY <2>3, <3>2
  <2>5. Cardinality(inFlight) < atOnce /\ inFlight' = inFlight \cup {Read(r)}
    BY <2>1 DEF Receive
  <2>6. Cardinality(inFlight') <= atOnce
    <3>1. PICK new : inFlight' = inFlight \cup {new}
      BY <2>5
    <3>2. Cardinality(inFlight) \in Nat
      BY FS_CardinalityType
    <3>3. \/ Cardinality(inFlight') = Cardinality(inFlight)
          \/ Cardinality(inFlight') = Cardinality(inFlight) + 1
      BY <3>1, FS_AddElement
    <3> QED
      BY <2>5, <3>2, <3>3
  <2> QED
    BY <2>2, <2>4, <2>6
<1>3. CASE \E r \in inFlight : Commit(r)
  <2>1. PICK r \in inFlight : Commit(r)
    BY <1>3
  <2>2. UNCHANGED <<blocked, atOnce, made>> /\ inFlight' = inFlight \ {r}
    BY <2>1 DEF Commit
  <2>3. willing' \subseteq Groups \X Members
    BY <2>1 DEF Commit, FlightRow
  <2>4. Cardinality(inFlight') <= atOnce
    <3>1. inFlight' \subseteq inFlight
      BY <2>2
    <3>2. /\ Cardinality(inFlight) \in Nat /\ Cardinality(inFlight') \in Nat
          /\ Cardinality(inFlight') <= Cardinality(inFlight)
      BY <3>1, FS_Subset, FS_CardinalityType
    <3> QED
      BY <3>2
  <2> QED
    BY <2>2, <2>3, <2>4
<1>4. CASE Act /\ blocked' \subseteq SUBSET Members /\ UNCHANGED requestVars
  <2>1. made' = [made EXCEPT !.acts = @ + 1] /\ made.acts < MaxActs
    BY <1>4 DEF Act
  <2>2. made.acts + 1 \in 0..MaxActs
    BY <2>1, GroupBoundsAssumption
  <2>3. made' \in [requests: 0..MaxRequests, acts: 0..MaxActs]
    BY <2>1, <2>2
  <2> QED
    BY <1>4, <2>3 DEF requestVars
<1>5. CASE UNCHANGED <<blocked, made, requestVars>>
  BY <1>5 DEF requestVars
<1>6. (\E u, v \in Members : Block(u, v)) \/ (\E pair \in blocked : Unblock(pair))
      => Act /\ blocked' \subseteq SUBSET Members /\ UNCHANGED requestVars
  BY DEF Block, Unblock
<1>7. (\E g \in Groups, u \in Members : CheckStart(g, u) \/ \E ready \in BOOLEAN : SetReady(g, u, ready))
        \/ (\E u \in Members : StartAlone(u)) \/ Withdraw \/ Republish
      => Act /\ blocked' \subseteq SUBSET Members /\ UNCHANGED requestVars
  BY DEF CheckStart, Check, SetReady, StartAlone, Withdraw, Republish
<1>8. (\E g \in Groups, u \in Members : Expire(g, u) \/ CheckRetry(g, u)) \/ Revise
        \/ (\E s \in starting : StartInGroup(s) \/ RetryInGroup(s) \/ RefuseStart(s))
      => UNCHANGED <<blocked, made, requestVars>>
  BY DEF Expire, CheckRetry, Check, Revise, StartInGroup, RetryInGroup, RefuseStart
<1>9. (\E g \in Groups : CloseGone(g) \/ SettleIfDue(g))
        \/ (\E u \in Members : EndRun(u, "completed") \/ EndRun(u, "cancelled") \/ CloseIdle(u))
      => UNCHANGED <<blocked, made, requestVars>>
  BY DEF CloseGone, SettleIfDue, EndRun, CloseIdle
<1> QED
  BY <1>1, <1>2, <1>3, <1>4, <1>5, <1>6, <1>7, <1>8, <1>9 DEF GroupsNext

\* Types of companion groups, for any people, groups and bounds.
LEMMA GroupTypesHold == GroupsSpec => []GroupsTypeOK
<1>1. GroupsInit => VersionsFit /\ RequestsFit
  <2> SUFFICES ASSUME GroupsInit PROVE VersionsFit /\ RequestsFit
    OBVIOUS
  <2>1. VersionsFit
    BY GroupBoundsAssumption DEF GroupsInit, VersionsFit, NoGroup, NoWalk
  <2>2. Cardinality(inFlight) <= atOnce
    BY GroupBoundsAssumption, FS_EmptySet DEF GroupsInit
  <2>3. made \in [requests: 0..MaxRequests, acts: 0..MaxActs]
    BY GroupBoundsAssumption DEF GroupsInit
  <2> QED
    BY <2>1, <2>2, <2>3 DEF GroupsInit, RequestsFit
<1>2. GroupsInv /\ VersionsFit /\ RequestsFit /\ [GroupsNext]_groupsVars => (VersionsFit /\ RequestsFit)'
  BY VersionsStay, RequestsStay DEF GroupsInv
<1>3. GroupsInv /\ VersionsFit /\ RequestsFit => GroupsTypeOK
  <2> SUFFICES ASSUME GroupsInv, VersionsFit, RequestsFit PROVE GroupsTypeOK
    OBVIOUS
  <2> USE DEF GroupsInv, GroupsTypes
  <2>1. path \in [open: BOOLEAN, version: 0..MaxVersion]
    BY GroupBoundsAssumption DEF VersionsFit
  <2>2. group \in [Groups -> [status: LiveStatuses \cup {"none", "settled", "cancelled"},
                              version: 0..MaxVersion]]
    <3>1. \A g \in Groups : group[g].version \in 0..MaxVersion
      BY GroupBoundsAssumption DEF VersionsFit, GroupRow
    <3> QED
      BY <3>1 DEF GroupRow, GroupStatuses, LiveStatuses
  <2>3. walk \in [Members -> [Walks -> [status: {"none", "going", "completed", "cancelled"},
                                        version: 0..MaxVersion]]]
    <3>1. \A u \in Members, n \in Walks : walk[u][n].version \in 0..MaxVersion
      BY GroupBoundsAssumption DEF VersionsFit, OutingRow
    <3> QED
      BY <3>1 DEF OutingRow
  <2>4. starting \subseteq [by: Members, group: Groups, run: {0} \union Walks,
                            version: 0..MaxVersion, row: MemberRow]
    <3>1. \A s \in starting : s \in StartRow /\ s.version \in 0..MaxVersion
      BY GroupBoundsAssumption DEF VersionsFit, StartRow
    <3> QED
      BY <3>1 DEF StartRow
  <2> QED
    BY <2>1, <2>2, <2>3, <2>4 DEF RequestsFit, GroupsTypeOK
<1> QED
  BY <1>1, <1>2, <1>3, GroupsInvariant, PTL DEF GroupsSpec
============================================================================
