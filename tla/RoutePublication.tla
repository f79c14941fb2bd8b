-------------------------- MODULE RoutePublication --------------------------
(***************************************************************************)
(* How a user's route gets into the catalogue: drafts, the edit kept beside*)
(* a published route, co-authors and their consents, the moderation queue. *)
(*                                                                         *)
(* One route and the row of its edit.  Nothing is locked while a handler   *)
(* reads, checks and waits for the router: it decides by the copy it has   *)
(* read and writes, when it commits, the columns it makes differ from that *)
(* copy.  A request in turn commits before anything else moves; a slow one *)
(* commits what it decided by a copy of an earlier state, after any number *)
(* of requests in turn, of any person.                                     *)
(*                                                                         *)
(* Data: what people see of a route is a content: the number of its last   *)
(* change, the number of the last change saved in the editor, and whether  *)
(* it has photos.  Whether the submission checks pass is left open where   *)
(* they run, and so is whom identity lets the owner invite.                *)
(***************************************************************************)
EXTENDS Naturals

CONSTANTS
    Owner,
    Coauthors,     \* people the owner may invite
    SlowRequests,  \* bound: requests that others may overtake, each once
    MaxChanges     \* bound: changes of content or of the co-authors

ASSUME AuthorsAssumption == Owner \notin Coauthors
ASSUME MaxChangesAssumption == MaxChanges \in Nat \ {0}

Authors == Coauthors \union {Owner}

VARIABLES
    public,      \* the route: publication_status and content
    edit,        \* its edit: the same of the row with revision_of_route_id
    coauthor,    \* coauthor[u]: state of the row, or "none"
    consented,   \* who has owner_consented_at or consented_at set
    stage,       \* stage[s]: "waiting", "reading" or "over"
    copies,      \* copies[s]: what a slow request has read
    changes,     \* how many changes so far: the last version given out
    cleared,     \* history: consents are to be given after this change
    agreedAt     \* history: agreedAt[u]: changes made when u last agreed

team == <<coauthor, consented>>
history == <<changes, cleared, agreedAt>>
slowVars == <<stage, copies>>
pubVars == <<public, edit, team, slowVars, history>>

NoContent == [version |-> 0, saved |-> 0, photos |-> FALSE]
NoRouteRow == [status |-> "none", content |-> NoContent]

\* What a request reads of the rows at one moment.
Now == [public |-> public, edit |-> edit, coauthor |-> coauthor, consented |-> consented,
        changes |-> changes, cleared |-> cleared]
NothingRead == [public |-> NoRouteRow, edit |-> NoRouteRow, coauthor |-> [u \in Coauthors |-> "none"],
                consented |-> {}, changes |-> 0, cleared |-> 0]

PubInit ==
    /\ public = NoRouteRow
    /\ edit = NoRouteRow
    /\ coauthor = [u \in Coauthors |-> "none"]
    /\ consented = {}
    /\ stage = [s \in SlowRequests |-> "waiting"]
    /\ copies = [s \in SlowRequests |-> NothingRead]
    /\ changes = 0
    /\ cleared = 0
    /\ agreedAt = [u \in Authors |-> 0]

----------------------------------------------------------------------------
(* Who may do what, and to which row, by the copy c.                       *)

\* ACTIVE: invited and not answered yet, or joined.
ActiveIn(c) == {u \in Coauthors : c.coauthor[u] \in {"invited", "joined"}}
MayEdit(c, u) ==  \* role_on
    /\ c.public.status \in {"draft", "rejected", "pending_review", "published"}
    /\ u = Owner \/ u \in ActiveIn(c)
There(row) == row.status \notin {"none", "deleted"}

\* _edit_target: a published route is edited in a copy beside it.
InPlace(c) == c.public.status # "published"
NewEdit(c) == [status |-> "draft", content |-> c.public.content]
ToEdit(c) == IF InPlace(c) THEN c.public ELSE IF There(c.edit) THEN c.edit ELSE NewEdit(c)

\* That row as it is by now.
ToWrite(c) == IF InPlace(c) THEN public ELSE IF There(c.edit) THEN edit ELSE NewEdit(c)

\* An attribute set to the value it was read with is no write.
Written(read, new, now) == IF new = read THEN now ELSE new

\* uq_routes_one_revision refuses a second edit.  A bound: none is begun while
\* a slow request still holds the one before it.
MayBeginEdit == ~There(edit) /\ \A s \in SlowRequests : ~There(copies[s].edit)

WriteInPlace(c, row) ==  \* fault: a published route is edited itself
    /\ public' = IF InPlace(c) THEN row ELSE [row EXCEPT !.status = "published"]
    /\ UNCHANGED edit

WriteRow(c, row) ==
    IF InPlace(c)
    THEN public' = row /\ UNCHANGED edit
    ELSE (There(c.edit) \/ MayBeginEdit) /\ edit' = row /\ UNCHANGED public

NewChange == changes < MaxChanges /\ changes' = changes + 1

\* What was agreed to since the request has read stays agreed.
KeepConsents(c) == UNCHANGED consented /\ cleared' = changes'  \* fault
ResetConsents(c) ==
    /\ consented' = consented \ c.consented
    /\ cleared' = IF c = Now THEN changes' ELSE IF cleared > c.changes THEN cleared ELSE c.changes

----------------------------------------------------------------------------
(* The authors' requests.                                                  *)

NewDraft ==
    /\ public.status = "none"
    /\ NewChange
    /\ public' = [status |-> "draft",
                  content |-> [version |-> changes', saved |-> changes', photos |-> FALSE]]
    /\ UNCHANGED <<edit, team, slowVars, cleared, agreedAt>>

\* A save takes an edit out of the queue; a route that is not published stays
\* in it if it passes the checks.
SavedStatus(c, passes) ==
    IF c.public.status = "pending_review" /\ passes THEN "pending_review" ELSE "draft"

SaveDraft(c, u, passes) ==
    /\ MayEdit(c, u)
    /\ NewChange
    /\ WriteRow(c, [status |-> Written(ToEdit(c).status, SavedStatus(c, passes), ToWrite(c).status),
                    content |-> [ToWrite(c).content EXCEPT !.version = changes', !.saved = changes']])
    /\ ResetConsents(c)
    /\ UNCHANGED <<coauthor, agreedAt>>

\* set_user_route_days, reset_user_route_days.  The consents are left alone,
\* and what waits in the queue stays there unchecked.
SetDays(c, u) ==
    /\ MayEdit(c, u)
    /\ NewChange
    /\ WriteRow(c, [ToWrite(c) EXCEPT !.content.version = changes'])
    /\ UNCHANGED <<team, cleared, agreedAt>>

\* Photos are added, reordered and archived in the edited row, also while it
\* waits for the moderator.
ChangePhotos(c, u, photos) ==
    /\ MayEdit(c, u)
    /\ NewChange
    /\ WriteRow(c, [ToWrite(c) EXCEPT !.content.version = changes', !.content.photos = photos])
    /\ UNCHANGED <<team, cleared, agreedAt>>

\* For a published route it is the edit that is sent.
ToSend(c) == IF InPlace(c) THEN c.public ELSE c.edit

\* The owner's consent is a column of the route that was read with it; the
\* co-authors' rows r are read at the end.
EveryoneConsented(c, r, u) ==
    /\ u = Owner \/ Owner \in c.consented
    /\ \A v \in ActiveIn(r) : v = u \/ (r.coauthor[v] = "joined" /\ v \in r.consented)

\* submit_user_route, of a version that passes the checks: a consent, and the
\* last one sends the route.
SubmitRoute(c, r, u) ==
    /\ MayEdit(c, u)
    /\ ToSend(c).status \in {"draft", "rejected"}
    /\ ToSend(c).content.photos
    /\ u = Owner \/ u \in ActiveIn(r)
    /\ coauthor' = IF u = Owner THEN coauthor
                   ELSE [coauthor EXCEPT ![u] = Written(r.coauthor[u], "joined", @)]
    /\ consented' = consented \union {u}
    /\ WriteRow(c, IF EveryoneConsented(c, r, u) THEN [ToWrite(c) EXCEPT !.status = "pending_review"]
                   ELSE ToWrite(c))
    /\ agreedAt' = [agreedAt EXCEPT ![u] = changes]
    /\ UNCHANGED <<changes, cleared>>

\* The list replaces the old one; no status of the route forbids it.  A row
\* that another request has added meanwhile is not added again.
SetCoauthors(c, wanted) ==
    LET removed == ActiveIn(c) \ wanted
        newcomers == wanted \ ActiveIn(c)
    IN /\ There(c.public)
       /\ removed \union newcomers # {}
       /\ \A u \in newcomers : c.coauthor[u] = "none" => coauthor[u] = "none"
       /\ NewChange
       /\ coauthor' = [u \in Coauthors |-> IF u \in removed THEN "removed"
                                           ELSE IF u \in newcomers THEN "invited"
                                           ELSE coauthor[u]]
       /\ ResetConsents(c)
       /\ UNCHANGED <<public, edit, agreedAt>>

LeaveCoauthors(c, u) ==
    /\ u \in ActiveIn(c)
    /\ coauthor' = [coauthor EXCEPT ![u] = IF c.coauthor[u] = "invited" THEN "declined" ELSE "left"]
    /\ consented' = consented \ ({u} \intersect c.consented)
    /\ UNCHANGED <<public, edit, history>>

\* retire_revision
Retired(row) == [status |-> "deleted", content |-> [row.content EXCEPT !.photos = FALSE]]
RetireEdit(c) == edit' = IF There(c.edit) THEN Retired(edit) ELSE edit

DiscardEdit(c) ==
    /\ c.public.status = "published" /\ There(c.edit)
    /\ RetireEdit(c)
    /\ UNCHANGED <<public, team, history>>

DiscardDraft(c) ==
    /\ MayEdit(c, Owner)
    /\ RetireEdit(c)
    /\ public' = Retired(public)
    /\ UNCHANGED <<team, history>>

\* apply_revision: the edit's stops and photos become the route's, and nothing
\* is left of it, to be moved a second time.
Revised == edit.content
Moved == [status |-> "deleted", content |-> NoContent]

WithdrawRoute(c) ==
    /\ c.public.status \in {"pending_review", "published"}
    /\ public' = [status |-> "draft", content |-> IF There(c.edit) THEN Revised ELSE public.content]
    /\ edit' = IF There(c.edit) THEN Moved ELSE edit
    /\ UNCHANGED <<team, history>>

----------------------------------------------------------------------------
(* The moderators.  Both rows are in their list, each under its own id.    *)

ApproveRoute(c) ==
    /\ c.public.status = "pending_review"
    /\ public' = [public EXCEPT !.status = "published"]
    /\ UNCHANGED <<edit, team, history>>

PublishEditRow(c) ==  \* fault: the edit is published as a route of its own
    /\ c.edit.status = "pending_review"
    /\ edit' = [edit EXCEPT !.status = "published"]
    /\ UNCHANGED <<public, team, history>>

ApproveEdit(c) ==
    /\ c.edit.status = "pending_review"
    /\ public' = [public EXCEPT !.content = Revised]
    /\ edit' = Moved
    /\ UNCHANGED <<team, history>>

RejectRoute(c) ==
    /\ c.public.status = "pending_review"
    /\ public' = [public EXCEPT !.status = "rejected"]
    /\ UNCHANGED <<edit, team, history>>

RejectEdit(c) ==
    /\ c.edit.status = "pending_review"
    /\ edit' = [edit EXCEPT !.status = "rejected"]
    /\ UNCHANGED <<public, team, history>>

\* Neither looks for the other row.
DeleteRoute(c) ==
    /\ There(c.public)
    /\ public' = [public EXCEPT !.status = "deleted"]
    /\ UNCHANGED <<edit, team, history>>

DeleteEdit(c) ==
    /\ There(c.edit)
    /\ edit' = [edit EXCEPT !.status = "deleted"]
    /\ UNCHANGED <<public, team, history>>

----------------------------------------------------------------------------
(* Requests in turn and slow ones.                                         *)

RouteRequest(c) ==
    \/ \E u \in Authors :
          \/ SetDays(c, u)
          \/ \E r \in {c, Now} : SubmitRoute(c, r, u)
          \/ \E passes \in BOOLEAN : SaveDraft(c, u, passes)
          \/ \E photos \in BOOLEAN : ChangePhotos(c, u, photos)
    \/ \E wanted \in SUBSET Coauthors : SetCoauthors(c, wanted)
    \/ \E u \in Coauthors : LeaveCoauthors(c, u)
    \/ DiscardEdit(c) \/ DiscardDraft(c) \/ WithdrawRoute(c)
    \/ ApproveRoute(c) \/ ApproveEdit(c) \/ RejectRoute(c) \/ RejectEdit(c)
    \/ DeleteRoute(c) \/ DeleteEdit(c)

BeginSlow(s) ==
    /\ stage[s] = "waiting" /\ public.status # "none"
    /\ stage' = [stage EXCEPT ![s] = "reading"]
    /\ copies' = [copies EXCEPT ![s] = Now]
    /\ UNCHANGED <<public, edit, team, history>>

EndSlow(s) ==
    /\ stage[s] = "reading"
    /\ stage' = [stage EXCEPT ![s] = "over"]
    /\ copies' = [copies EXCEPT ![s] = NothingRead]

CommitSlow(s) == EndSlow(s) /\ RouteRequest(copies[s])

\* A check of its own, the router or the database refuses it.
GiveUp(s) == EndSlow(s) /\ UNCHANGED <<public, edit, team, history>>

PubNext ==
    \/ NewDraft
    \/ RouteRequest(Now) /\ UNCHANGED slowVars
    \/ \E s \in SlowRequests : BeginSlow(s) \/ CommitSlow(s) \/ GiveUp(s)

PubSpec == PubInit /\ [][PubNext]_pubVars
----------------------------------------------------------------------------
(* What holds.                                                             *)

RouteContents == [version: 0..MaxChanges, saved: 0..MaxChanges, photos: BOOLEAN]
PubRows == [status: {"none", "draft", "rejected", "pending_review", "published", "deleted"},
            content: RouteContents]
EditRows == [status: {"none", "draft", "rejected", "pending_review", "deleted"},
             content: RouteContents]
CoauthorStates == [Coauthors -> {"none", "invited", "joined", "declined", "removed", "left"}]
Copies == [public: PubRows, edit: EditRows, coauthor: CoauthorStates, consented: SUBSET Authors,
           changes: 0..MaxChanges, cleared: 0..MaxChanges]

PubTypeOK ==
    /\ public \in PubRows /\ edit \in EditRows
    /\ coauthor \in CoauthorStates /\ consented \subseteq Authors
    /\ stage \in [SlowRequests -> {"waiting", "reading", "over"}]
    /\ copies \in [SlowRequests -> Copies]
    /\ changes \in 0..MaxChanges
    /\ cleared \in 0..MaxChanges
    /\ agreedAt \in [Authors -> 0..MaxChanges]

\* The copy a step goes by: what is there now, but for a slow request.
GoneBy == IF stage' = stage THEN {Now}
          ELSE {copies[s] : s \in {t \in SlowRequests : stage'[t] # stage[t]}}

GivesWayToTheQueue ==
    public.status = "published" /\ public'.status = "published" /\ public'.content # public.content
        => \E c \in GoneBy :
              \/ c.public.status # "published"
              \/ c.edit.status = "pending_review" /\ public'.content = edit.content
SameText(row, rowAfter) == row.content.saved = rowAfter.content.saved
KeepsItsText ==
    edit.status = "pending_review" /\ edit'.status = "pending_review" /\ ~SameText(edit, edit')
        => \E c \in GoneBy : c.edit.status # "pending_review"

\* What people see is never edited in place by a request that finds the route
\* published: its content gives way to that of an edit that waits in the
\* queue, and to nothing else (_edit_target, ensure_revision; "an edit of it
\* is kept as a version").  And what an author saves who finds the edit in the
\* queue is not what the moderator approves: the save takes the edit back out
\* (D17).  A save that has read the route before it was published, or the edit
\* before it was sent, still writes into it: nothing is read again.
NeverEditedInPlace == [][GivesWayToTheQueue /\ KeepsItsText]_pubVars

Enters(row, rowAfter) == row.status # "pending_review" /\ rowAfter.status = "pending_review"
SentAsAgreed ==
    Enters(public, public') \/ Enters(edit, edit')
        => \E c \in GoneBy : \A u \in (ActiveIn(c) \intersect ActiveIn(Now)) \union {Owner} :
               agreedAt'[u] >= c.cleared

\* A version is sent when its owner and all its co-authors of that moment have
\* agreed after the last save and the last change of co-authors, whoever
\* joined, declined or left meanwhile and in whichever order (reset_consents,
\* everyone_consented).  A slow submit sends what was agreed to by its copy,
\* and a slow save leaves the consents given since it has read.
SentAfterTheLastSave == [][SentAsAgreed]_pubVars
============================================================================
