--------------------------- MODULE CompanionGroups ---------------------------
(***************************************************************************)
(* Groups of companions who walk one route together: invitations, codes,   *)
(* the organizer's start, the members' own runs and the group's result.    *)
(*                                                                         *)
(* A request that changes who is in a group reads its rows, checks, and    *)
(* writes at its commit.  No row is locked: where atOnce is more than 1,   *)
(* other requests come in between, and it writes what it decided on        *)
(* whatever the rows have become.  One person's requests follow each other.*)
(* A start of a run in a group checks the group, and locks the route later:*)
(* anything may come in between, but for another start of the same person. *)
(*                                                                         *)
(* Data: one route, whose content is a version; a refusal changes nothing, *)
(* and so is no step; whether an invitation is refused for another reason  *)
(* than a block (not mutual, closed, the daily limit) is left open.        *)
(***************************************************************************)
EXTENDS Naturals, FiniteSetsExt

CONSTANTS
    Members,       \* the people
    Groups,        \* rows of companion_groups, each created at most once
    Organizer,     \* who creates which
    MaxMembers,    \* max_members, the organizer's plan limit
    AtOnce,        \* how many requests may be between read and commit
    MaxRequests,   \* bound: requests that change who is in a group, the
                   \* fewer the more overlap
    MaxActs,       \* bound: runs, words of being ready, blocks, withdrawals
    MaxWalks,      \* bound: runs of a person
    MaxVersion     \* bound: times the route's content changes

Walks == 1..MaxWalks

ASSUME OrganizerAssumption == IsFiniteSet(Members) /\ Organizer \in [Groups -> Members]
ASSUME GroupBoundsAssumption ==
    /\ MaxMembers \in Nat \ {0}
    /\ AtOnce \subseteq Nat \ {0}
    /\ MaxRequests \in Nat
    /\ MaxActs \in Nat
    /\ MaxWalks \in Nat
    /\ MaxVersion \in Nat

VARIABLES
    path,       \* the route: in the catalogue or not, and its content
    group,      \* group[g]: status, and route_version_at
    member,     \* member[g][u]: a row of companion_members, or "none"
    walk,       \* walk[u][n]: the n-th run of u
    blocked,    \* pairs of people with a block between them
    atOnce,     \* how many requests overlap in this behaviour
    inFlight,   \* requests that have checked and not committed
    starting,   \* starts in a group that have checked it and not locked the route
    made,       \* how much was done so far
    willing     \* history: who created, accepted or asked to join which group

groupsVars == <<path, group, member, walk, blocked, atOnce, inFlight, starting, made, willing>>
requestVars == <<atOnce, inFlight, willing>>

NoGroup == [status |-> "none", version |-> 0]
NoMember == [state |-> "none", fresh |-> FALSE, ready |-> FALSE, late |-> FALSE, run |-> 0]
NoWalk == [status |-> "none", version |-> 0]

GroupsInit ==
    /\ path = [open |-> TRUE, version |-> 0]
    /\ group = [g \in Groups |-> NoGroup]
    /\ member = [g \in Groups |-> [u \in Members |-> NoMember]]
    /\ walk = [u \in Members |-> [n \in Walks |-> NoWalk]]
    /\ blocked = {}
    /\ atOnce \in AtOnce
    /\ inFlight = {} /\ starting = {}
    /\ made = [requests |-> 0, acts |-> 0]
    /\ willing = {}

----------------------------------------------------------------------------
(* What the handlers ask of the rows.                                      *)

LiveStatuses == {"gathering", "started"}
Live(g) == group[g].status \in LiveStatuses

State(g, u) == member[g][u].state
Joined(g) == {u \in Members : State(g, u) = "joined"}

\* _invite_live, _holds_seat: an invitation keeps its seat for 48 hours.
InviteLive(g, u) == State(g, u) = "invited" /\ member[g][u].fresh
HoldsSeat(g, u) == InviteLive(g, u) \/ State(g, u) \in {"joined", "requested"}
Seated(g) == {u \in Members : HoldsSeat(g, u)}

SeatFree(g) == Cardinality(Seated(g)) < MaxMembers

\* _live_membership: joined in another group that is not over.
InOtherLive(u, g) == \E h \in Groups \ {g} : Live(h) /\ u \in Joined(h)

JoinedElsewhere(u, g) ==  \* fault: the group one organizes does not count
    \A h \in Groups \ {g} : ~(Live(h) /\ u \in Joined(h) /\ Organizer[h] # u)
Free(u, g) == ~InOtherLive(u, g)

NoBlock(u, v) == {u, v} \notin blocked

\* _check_route_still_open cancels a group of a route that has left the
\* catalogue before anything else: the rest is for groups it leaves alone.
StillOpen(g) == group[g].status = "gathering" => path.open

----------------------------------------------------------------------------
(* Requests that change who is in a group: what each checks ...            *)

MayCreate(r) ==
    /\ r.by = Organizer[r.group] /\ r.on = r.by
    /\ group[r.group].status = "none"
    /\ path.open
    /\ Free(r.by, r.group)

MayInvite(r) ==
    /\ r.by = Organizer[r.group] /\ r.on # r.by
    /\ group[r.group].status = "gathering" /\ path.open
    /\ NoBlock(r.by, r.on)
    /\ State(r.group, r.on) \notin {"joined", "declined"}
    /\ ~InviteLive(r.group, r.on)
    /\ SeatFree(r.group)

MayAccept(r) ==
    /\ r.on = r.by
    /\ InviteLive(r.group, r.by)
    /\ group[r.group].status = "gathering" /\ path.open
    /\ NoBlock(r.by, Organizer[r.group])
    /\ Free(r.by, r.group)

MayDecline(r) ==
    /\ r.on = r.by
    /\ InviteLive(r.group, r.by)
    /\ group[r.group].status = "gathering" /\ path.open
    /\ NoBlock(r.by, Organizer[r.group])

MayRequest(r) ==
    /\ r.on = r.by
    /\ Live(r.group) /\ StillOpen(r.group)
    /\ NoBlock(r.by, Organizer[r.group])
    /\ State(r.group, r.by) \notin {"joined", "requested"}
    /\ Free(r.by, r.group)
    /\ SeatFree(r.group)

MayAnswer(r) ==
    /\ r.by = Organizer[r.group]
    /\ Live(r.group)
    /\ State(r.group, r.on) = "requested"

MayApprove(r) == MayAnswer(r) /\ Free(r.on, r.group)

MayLeave(r) ==
    /\ r.on = r.by
    /\ r.by = Organizer[r.group] => group[r.group].status = "started"
    /\ State(r.group, r.by) \in {"joined", "requested"}

MayRemove(r) ==
    /\ r.by = Organizer[r.group] /\ r.on # r.by
    /\ State(r.group, r.on) # "none"

MayCancel(r) ==
    /\ r.by = Organizer[r.group] /\ r.on = r.by
    /\ group[r.group].status = "gathering"

MayStart(r) ==
    /\ r.by = Organizer[r.group] /\ r.on = r.by
    /\ group[r.group].status = "gathering" /\ path.open
    /\ Cardinality(Joined(r.group)) >= 2

\* A complaint about an invitation declines it.
MayReport(r) ==
    /\ r.on = r.by /\ r.by # Organizer[r.group]
    /\ State(r.group, r.by) = "invited"

May(r) ==
    \/ r.op = "create" /\ MayCreate(r)
    \/ r.op = "invite" /\ MayInvite(r)
    \/ r.op = "accept" /\ MayAccept(r)
    \/ r.op = "decline" /\ MayDecline(r)
    \/ r.op = "request" /\ MayRequest(r)
    \/ r.op = "approve" /\ MayApprove(r)
    \/ r.op = "reject" /\ MayAnswer(r)
    \/ r.op = "leave" /\ MayLeave(r)
    \/ r.op = "remove" /\ MayRemove(r)
    \/ r.op = "cancel" /\ MayCancel(r)
    \/ r.op = "start" /\ MayStart(r)
    \/ r.op = "report" /\ MayReport(r)

Ops == {"create", "invite", "accept", "decline", "request", "approve", "reject",
        "leave", "remove", "cancel", "start", "report"}

Requests == [op: Ops, by: Members, group: Groups, on: Members]

\* What the request has read and goes by at its commit.
Read(r) == [op |-> r.op, by |-> r.by, group |-> r.group, on |-> r.on,
            was |-> State(r.group, r.on), version |-> path.version,
            going |-> group[r.group].status, together |-> Joined(r.group)]

Request == made.requests + atOnce <= MaxRequests /\ made' = [made EXCEPT !.requests = @ + 1]
Act == made.acts < MaxActs /\ made' = [made EXCEPT !.acts = @ + 1]

Receive(r) ==
    /\ Request
    /\ Cardinality(inFlight) < atOnce
    /\ \A other \in inFlight : other.by # r.by
    /\ May(r)
    /\ inFlight' = inFlight \union {Read(r)}
    /\ UNCHANGED <<path, group, member, walk, blocked, atOnce, starting, willing>>

(* ... and what it writes.                                                 *)

\* remove_member by the organizer.
Dismissed(was) ==
    CASE was = "invited" -> "revoked"
      [] was = "requested" -> "rejected"
      [] OTHER -> "removed"

Answer(r) ==
    CASE r.op \in {"create", "accept", "approve"} -> "joined"
      [] r.op = "invite" -> "invited"
      [] r.op \in {"decline", "report"} -> "declined"
      [] r.op = "request" -> "requested"
      [] r.op = "reject" -> "rejected"
      [] r.op = "leave" -> "left"
      [] r.op = "remove" -> Dismissed(r.was)

\* Only what a request sets is written: an invitation starts its 48 hours
\* and takes back the word of being ready, as does going.
MemberAfter(r, row) ==
    [row EXCEPT !.state = Answer(r),
                !.fresh = IF r.op = "invite" THEN TRUE
                          ELSE IF r.op = "request" THEN FALSE ELSE @,
                !.ready = IF r.op \in {"invite", "leave", "remove"} THEN FALSE ELSE @,
                !.late = IF r.op = "approve" THEN r.going = "started" ELSE @]

CommitMember(r) ==
    /\ r.op \notin {"cancel", "start"}
    /\ member' = [member EXCEPT ![r.group][r.on] = MemberAfter(r, @)]
    /\ group' = IF r.op = "create"
                THEN [group EXCEPT ![r.group] = [status |-> "gathering", version |-> r.version]]
                ELSE group

CommitCancel(r) ==
    /\ r.op = "cancel"
    /\ group' = [group EXCEPT ![r.group].status = "cancelled"]
    /\ UNCHANGED member

VersionAtStart(r) == r.version

\* Everyone starts now, so everyone walks the route as it is now.
CommitStart(r) ==
    /\ r.op = "start"
    /\ group' = [group EXCEPT ![r.group] = [status |-> "started", version |-> VersionAtStart(r)]]
    /\ member' = [member EXCEPT ![r.group][r.by].ready = @ \/ r.by \in r.together]

Commit(r) ==
    /\ CommitMember(r) \/ CommitCancel(r) \/ CommitStart(r)
    /\ inFlight' = inFlight \ {r}
    /\ willing' = IF r.op \in {"create", "accept", "request"}
                  THEN willing \union {<<r.group, r.by>>} ELSE willing
    /\ UNCHANGED <<path, walk, blocked, atOnce, starting, made>>

----------------------------------------------------------------------------
(* Time, blocks and the route.                                             *)

\* Outside a lone request, or beside it when requests overlap.
Quiet == inFlight = {} \/ atOnce > 1

Expire(g, u) ==
    /\ Quiet
    /\ InviteLive(g, u)
    /\ member' = [member EXCEPT ![g][u].fresh = FALSE]
    /\ UNCHANGED <<path, group, walk, blocked, made, starting, requestVars>>

Block(u, v) ==
    /\ Quiet /\ Act
    /\ u # v /\ NoBlock(u, v)
    /\ blocked' = blocked \union {{u, v}}
    /\ UNCHANGED <<path, group, member, walk, starting, requestVars>>

Unblock(pair) ==
    /\ Quiet /\ Act
    /\ pair \in blocked
    /\ blocked' = blocked \ {pair}
    /\ UNCHANGED <<path, group, member, walk, starting, requestVars>>

\* apply_revision: the route's content is replaced by an approved edit.
Revise ==
    /\ Quiet
    /\ path.open /\ path.version < MaxVersion
    /\ path' = [path EXCEPT !.version = @ + 1]
    /\ UNCHANGED <<group, member, walk, blocked, starting, requestVars, made>>

Cancelled(g) == [group[g] EXCEPT !.status = "cancelled"]

CancelGathering ==  \* cancel_groups_for_route, in the same transaction
    [g \in Groups |-> IF group[g].status = "gathering" THEN Cancelled(g) ELSE group[g]]

\* The route leaves the catalogue: withdrawn, discarded or taken down.
Withdraw ==
    /\ Quiet /\ Act
    /\ path.open
    /\ path' = [path EXCEPT !.open = FALSE]
    /\ group' = CancelGathering
    /\ UNCHANGED <<member, walk, blocked, starting, requestVars>>

\* Approved as a whole after being withdrawn.
Republish ==
    /\ Quiet /\ Act
    /\ ~path.open
    /\ path' = [path EXCEPT !.open = TRUE]
    /\ UNCHANGED <<group, member, walk, blocked, starting, requestVars>>

----------------------------------------------------------------------------
(* The members' own runs.                                                  *)

Going(u) == {n \in Walks : walk[u][n].status = "going"}
NewWalk(u) == {n \in Walks : walk[u][n].status = "none"
                            /\ \A m \in 1..(n - 1) : walk[u][m].status # "none"}

SetReady(g, u, ready) ==
    /\ Quiet /\ Act
    /\ State(g, u) = "joined" /\ group[g].status = "gathering"
    /\ ready => Going(u) = {}
    /\ member[g][u].ready # ready
    /\ member' = [member EXCEPT ![g][u].ready = ready]
    /\ UNCHANGED <<path, group, walk, blocked, starting, requestVars>>

AnyVersion(g) == TRUE  \* fault: a member may start whatever the route has become
SameVersion(g) == path.version = group[g].version

\* group_for_run: the group a run may be started in.
GroupForRun(g, u) ==
    /\ State(g, u) = "joined"
    /\ group[g].status = "started"
    /\ SameVersion(g)

\* attach_run; a start long after the group's is late.  What the check read of
\* the member's row decides, and what it finds changed is written.
Attach(s, n, slow) ==
    member' = [member EXCEPT ![s.group][s.by].run = n,
                             ![s.group][s.by].late = @ \/ (~s.row.late /\ (~s.row.ready \/ slow))]

\* The user's row is locked: a person's starts follow each other.
Starting(u) == \E s \in starting : s.by = u

StartAlone(u) ==
    /\ Quiet /\ Act
    /\ path.open /\ Going(u) = {} /\ ~Starting(u)
    /\ \E n \in NewWalk(u) :
          walk' = [walk EXCEPT ![u][n] = [status |-> "going", version |-> path.version]]
    /\ UNCHANGED <<path, group, member, blocked, starting, requestVars>>

\* start_execution in a group, up to the limits it awaits; `run` is what the
\* person has going already, and a retried start will attach.
Check(g, u, run) ==
    /\ Quiet /\ ~Starting(u)
    /\ GroupForRun(g, u)
    /\ starting' = starting \union {[by |-> u, group |-> g, run |-> run,
                                     version |-> path.version, row |-> member[g][u]]}
    /\ UNCHANGED <<path, group, member, walk, blocked, requestVars>>

CheckStart(g, u) == Act /\ Going(u) = {} /\ Check(g, u, 0)

CheckRetry(g, u) ==
    /\ \E n \in Going(u) : member[g][u].run # n /\ Check(g, u, n)
    /\ UNCHANGED made

\* The route is locked and its stops are read as they are by then.
StartInGroup(s) ==
    /\ Quiet
    /\ s.run = 0
    /\ path.open /\ Going(s.by) = {}
    /\ \E n \in NewWalk(s.by), slow \in BOOLEAN :
          /\ walk' = [walk EXCEPT ![s.by][n] = [status |-> "going", version |-> path.version]]
          /\ Attach(s, n, slow)
    /\ starting' = starting \ {s}
    /\ UNCHANGED <<path, group, blocked, made, requestVars>>

\* A retried start: the run it already has joins the group.
RetryInGroup(s) ==
    /\ Quiet
    /\ s.run # 0
    /\ \E slow \in BOOLEAN : Attach(s, s.run, slow)
    /\ starting' = starting \ {s}
    /\ UNCHANGED <<path, group, walk, blocked, made, requestVars>>

\* The limits, the route or the roads do not let the person start.
RefuseStart(s) ==
    /\ Quiet
    /\ starting' = starting \ {s}
    /\ UNCHANGED <<path, group, member, walk, blocked, made, requestVars>>

----------------------------------------------------------------------------
(* The group's result.                                                     *)

RunOf(w, u, n) == IF n = 0 THEN NoWalk ELSE w[u][n]

\* _due, in the runs as w has them: everyone has ended, or everyone who
\* started has and a day has gone by, or the week is over.
Due(w, g, day, week) ==
    LET started == {u \in Joined(g) : member[g][u].run # 0}
    IN /\ group[g].status = "started"
       /\ \/ week
          \/ /\ started # {}
             /\ \A u \in started : RunOf(w, u, member[g][u].run).status \in {"completed", "cancelled"}
             /\ started = Joined(g) \/ day

Settled(g) == [group[g] EXCEPT !.status = "settled"]

\* after_run_ended: a run ends, and the group of the row that names it (any,
\* if several do) is settled if that was the last one.
EndRun(u, status) ==
    /\ Quiet
    /\ \E n \in Going(u) :
          /\ walk' = [walk EXCEPT ![u][n].status = status]
          /\ LET naming == {g \in Groups : member[g][u].run = n}
             IN IF naming = {} THEN UNCHANGED group
                ELSE \E g \in naming, day, week \in BOOLEAN :
                        group' = IF Due(walk', g, day, week)
                                 THEN [group EXCEPT ![g] = Settled(g)] ELSE group
    /\ UNCHANGED <<path, member, blocked, made, starting, requestVars>>

\* _close_if_idle: a run left lying is closed, and no group hears of it.
CloseIdle(u) ==
    /\ Quiet
    /\ \E n \in Going(u) : walk' = [walk EXCEPT ![u][n].status = "cancelled"]
    /\ UNCHANGED <<path, group, member, blocked, made, starting, requestVars>>

\* _check_route_still_open, of any request about the group.
CloseGone(g) ==
    /\ Quiet
    /\ ~StillOpen(g)
    /\ group' = [group EXCEPT ![g] = Cancelled(g)]
    /\ UNCHANGED <<path, member, walk, blocked, made, starting, requestVars>>

\* group_progress: a look at the group settles it when that is due.
SettleIfDue(g) ==
    /\ Quiet
    /\ Joined(g) # {}
    /\ \E day, week \in BOOLEAN : Due(walk, g, day, week)
    /\ group' = [group EXCEPT ![g] = Settled(g)]
    /\ UNCHANGED <<path, member, walk, blocked, made, starting, requestVars>>

GroupsNext ==
    \/ \E r \in Requests : Receive(r)
    \/ \E r \in inFlight : Commit(r)
    \/ \E g \in Groups, u \in Members :
          \/ Expire(g, u)
          \/ CheckStart(g, u) \/ CheckRetry(g, u)
          \/ \E ready \in BOOLEAN : SetReady(g, u, ready)
    \/ \E s \in starting : StartInGroup(s) \/ RetryInGroup(s) \/ RefuseStart(s)
    \/ \E u, v \in Members : Block(u, v)
    \/ \E pair \in blocked : Unblock(pair)
    \/ \E g \in Groups : CloseGone(g) \/ SettleIfDue(g)
    \/ \E u \in Members : StartAlone(u) \/ EndRun(u, "completed") \/ EndRun(u, "cancelled")
                           \/ CloseIdle(u)
    \/ Revise \/ Withdraw \/ Republish

GroupsSpec == GroupsInit /\ [][GroupsNext]_groupsVars
----------------------------------------------------------------------------
(* What holds.                                                             *)

MemberRow ==
    [state: {"none", "invited", "requested", "joined", "declined", "revoked", "rejected",
             "removed", "left"},
     fresh: BOOLEAN, ready: BOOLEAN, late: BOOLEAN, run: {0} \union Walks]

GroupsTypeOK ==
    /\ path \in [open: BOOLEAN, version: 0..MaxVersion]
    /\ group \in [Groups -> [status: LiveStatuses \union {"none", "settled", "cancelled"},
                             version: 0..MaxVersion]]
    /\ member \in [Groups -> [Members -> MemberRow]]
    /\ walk \in [Members -> [Walks -> [status: {"none", "going", "completed", "cancelled"},
                                       version: 0..MaxVersion]]]
    /\ blocked \subseteq SUBSET Members
    /\ atOnce \in AtOnce
    /\ Cardinality(inFlight) <= atOnce
    /\ starting \subseteq [by: Members, group: Groups, run: {0} \union Walks,
                           version: 0..MaxVersion, row: MemberRow]
    /\ made \in [requests: 0..MaxRequests, acts: 0..MaxActs]
    /\ willing \subseteq Groups \X Members

OneLiveGroup ==
    \A u \in Members : \A g, h \in Groups :
        Live(g) /\ Live(h) /\ u \in Joined(g) /\ u \in Joined(h) => g = h

SeatsWithinPlan == \A g \in Groups : Cardinality(Seated(g)) <= MaxMembers

InTurnSeatedRightly == atOnce = 1 => OneLiveGroup /\ SeatsWithinPlan
JoinedWillingly == \A g \in Groups : \A u \in Joined(g) : <<g, u>> \in willing

\* Nobody is put into a group: its members created it, accepted or asked to
\* join themselves, also when requests overlap and overwrite each other.
\* Requests that follow each other keep a person in one live group, by
\* whichever of the three ways in (create_group, respond, answer_request) and
\* whatever became of the groups before; and invitations that run out and are
\* renewed, codes and approvals never seat more people than the organizer's
\* plan has (_ensure_seat).
SeatsAreSound == JoinedWillingly /\ InTurnSeatedRightly

\* A start in the group that a revision of the route has overtaken.
Overtaken(g, u) ==
    \E s \in starting : /\ s.by = u /\ s.group = g
                        /\ s.version = group[g].version /\ path.version # s.version

\* A run that is started in a group is a run of the version the group set out
\* on, whatever became of the route and of the group since; but when a revision
\* is applied between the check and the route's lock, of the new one
\* (group_for_run, start_execution).
StartsOnTheGroupsVersion ==
    [][\A g \in Groups, u \in Members :
          /\ member'[g][u].run # member[g][u].run
          /\ walk' # walk
          => \/ RunOf(walk', u, member'[g][u].run).version = group[g].version
             \/ Overtaken(g, u)]_groupsVars
============================================================================
