-------------------------- MODULE PublishingProofs --------------------------
(* Proofs about what authors bring before others and moderators let through: *)
(* versions of a route with their co-authors' consent, its days, reviews, and *)
(* articles with their comments; for any people, changes and requests.       *)
EXTENDS RoutePublication, RouteDays, RouteReviews, Articles, FiniteSetTheorems,
        SequenceTheorems, WellFoundedInduction, TLAPS

-----------------------------------------------------------------------------
(* RoutePublication.  That a version is sent with everyone's consent rests   *)
(* on an invariant: whoever counts as having consented agreed after the last *)
(* change that is to clear the consents; and so did, by the copy a slow      *)
(* request goes by, whom it has read as consenting and who consented since.  *)

ConsentsAreFresh ==
    /\ cleared <= changes
    /\ \A u \in Authors : agreedAt[u] <= changes
    /\ \A u \in consented : agreedAt[u] >= cleared

CopyIsOld(c) ==
    /\ c.changes <= changes
    /\ c.cleared <= cleared
    /\ \A u \in c.consented : agreedAt[u] >= c.cleared
    /\ \A u \in consented \ c.consented : agreedAt[u] >= c.changes

CopiesAreOld == \A s \in SlowRequests : CopyIsOld(copies[s])

PubInv == PubTypeOK /\ ConsentsAreFresh /\ CopiesAreOld

----------------------------------------------------------------------------
(* Copies and rows.                                                        *)

LEMMA RowTypes ==
    /\ NoContent \in RouteContents
    /\ NoRouteRow \in PubRows /\ NoRouteRow \in EditRows /\ Moved \in EditRows
    /\ NothingRead \in Copies
<1>1. NoContent \in RouteContents
  BY MaxChangesAssumption DEF NoContent, RouteContents
<1>2. NoRouteRow \in PubRows /\ NoRouteRow \in EditRows /\ Moved \in EditRows
  BY <1>1 DEF NoRouteRow, Moved, PubRows, EditRows
<1> QED
  BY <1>1, <1>2, MaxChangesAssumption DEF NothingRead, Copies, CoauthorStates

\* What a request in turn goes by is a copy as good as any.
LEMMA NowIsACopy ==
    ASSUME PubTypeOK, ConsentsAreFresh
    PROVE  Now \in Copies /\ CopyIsOld(Now)
<1>1. Now \in Copies
  BY DEF PubTypeOK, Now, Copies
<1>2. changes \in Nat /\ cleared \in Nat
  BY DEF PubTypeOK
<1> QED
  BY <1>1, <1>2 DEF Now, CopyIsOld, ConsentsAreFresh

\* A row's status and content, when some of its content is written.
LEMMA ContentWritten ==
    ASSUME NEW content \in RouteContents, NEW n \in 0..MaxChanges, NEW photos \in BOOLEAN
    PROVE  /\ [content EXCEPT !.version = n] \in RouteContents
           /\ [content EXCEPT !.version = n, !.saved = n] \in RouteContents
           /\ [content EXCEPT !.version = n, !.photos = photos] \in RouteContents
           /\ [content EXCEPT !.photos = FALSE] \in RouteContents
           /\ [content EXCEPT !.version = n].saved = content.saved
           /\ [content EXCEPT !.version = n, !.photos = photos].saved = content.saved
BY DEF RouteContents

\* What is edited is a row of the route or of its edit (_edit_target).
LEMMA EditedRow ==
    ASSUME PubTypeOK, NEW c \in Copies
    PROVE  /\ InPlace(c) => ToWrite(c) \in PubRows /\ ToWrite(c) = public
           /\ ~InPlace(c) => ToWrite(c) \in EditRows
           /\ ~InPlace(c) /\ There(c.edit) => ToWrite(c) = edit
           /\ ~InPlace(c) /\ ~There(c.edit) => ToWrite(c).status = "draft"
           /\ ToWrite(c).content \in RouteContents
<1>1. /\ c.public \in PubRows /\ c.public.content \in RouteContents
      /\ public \in PubRows /\ edit \in EditRows
  BY DEF PubTypeOK, Copies, PubRows
<1>2. NewEdit(c) \in EditRows /\ NewEdit(c).status = "draft"
  BY <1>1 DEF NewEdit, EditRows
<1>3. /\ InPlace(c) => ToWrite(c) \in PubRows /\ ToWrite(c) = public
      /\ ~InPlace(c) => ToWrite(c) \in EditRows
      /\ ~InPlace(c) /\ There(c.edit) => ToWrite(c) = edit
      /\ ~InPlace(c) /\ ~There(c.edit) => ToWrite(c).status = "draft"
  BY <1>1, <1>2 DEF ToWrite
<1> QED
  BY <1>3 DEF PubRows, EditRows

\* WriteRow keeps the types when the row it writes fits.
LEMMA WrittenRow ==
    ASSUME PubTypeOK, NEW c \in Copies, NEW row, WriteRow(c, row),
           InPlace(c) => row \in PubRows,
           ~InPlace(c) => row \in EditRows
    PROVE  public' \in PubRows /\ edit' \in EditRows
BY DEF PubTypeOK, WriteRow

LEMMA NextChange ==
    ASSUME PubTypeOK, NewChange
    PROVE  changes' \in 0..MaxChanges /\ changes' = changes + 1 /\ changes \in Nat
BY MaxChangesAssumption DEF PubTypeOK, NewChange
----------------------------------------------------------------------------
(* What a step does to the consents and the history, however it goes by its  *)
(* copy, leaves every other copy old.                                        *)

HistoryGoesOn ==
    /\ changes' \in changes..MaxChanges /\ cleared' \in cleared..changes'
    /\ consented' \subseteq Authors
    /\ agreedAt' \in [Authors -> 0..changes']
    /\ \A u \in Authors : agreedAt'[u] >= agreedAt[u]
    /\ \A u \in consented' : agreedAt'[u] >= cleared'
    /\ \A u \in consented' \ consented : agreedAt'[u] >= changes

LEMMA HistoryFits ==
    ASSUME PubInv, HistoryGoesOn
    PROVE  /\ changes' \in 0..MaxChanges /\ cleared' \in 0..MaxChanges
           /\ consented' \subseteq Authors /\ agreedAt' \in [Authors -> 0..MaxChanges]
           /\ ConsentsAreFresh'
<1>1. changes \in Nat /\ cleared \in Nat /\ MaxChanges \in Nat
  BY MaxChangesAssumption DEF PubInv, PubTypeOK
<1>2. changes' \in 0..MaxChanges /\ cleared' \in 0..MaxChanges /\ cleared' <= changes'
  BY <1>1 DEF HistoryGoesOn
<1>3. agreedAt' \in [Authors -> 0..changes']
  BY DEF HistoryGoesOn
<1>4. ASSUME NEW u \in Authors
      PROVE  agreedAt'[u] \in 0..MaxChanges /\ agreedAt'[u] <= changes'
  <2>1. agreedAt'[u] \in 0..changes'
    BY <1>3
  <2> QED
    BY <1>1, <1>2, <2>1
<1>5. agreedAt' \in [Authors -> 0..MaxChanges]
  BY <1>3, <1>4
<1> QED
  BY <1>2, <1>4, <1>5 DEF HistoryGoesOn, ConsentsAreFresh

LEMMA CopyStaysOld ==
    ASSUME PubInv, HistoryGoesOn, NEW c \in Copies, CopyIsOld(c)
    PROVE  /\ c.changes <= changes'
           /\ c.cleared <= cleared'
           /\ \A u \in c.consented : agreedAt'[u] >= c.cleared
           /\ \A u \in consented' \ c.consented : agreedAt'[u] >= c.changes
<1>1. /\ changes \in Nat /\ cleared \in Nat /\ agreedAt \in [Authors -> Nat] /\ MaxChanges \in Nat
      /\ c.changes \in Nat /\ c.cleared \in Nat /\ c.consented \subseteq Authors
  BY MaxChangesAssumption DEF PubInv, PubTypeOK, Copies
<1>2. /\ changes' \in Nat /\ cleared' \in Nat /\ changes' >= changes /\ cleared' >= cleared
  BY <1>1 DEF HistoryGoesOn
<1>3. ASSUME NEW u \in Authors
      PROVE  agreedAt[u] \in Nat /\ agreedAt'[u] \in Nat /\ agreedAt'[u] >= agreedAt[u]
  BY <1>1, <1>2, <1>3 DEF HistoryGoesOn
<1>4. ASSUME NEW u \in c.consented
      PROVE  agreedAt'[u] >= c.cleared
  <2>1. agreedAt[u] >= c.cleared /\ u \in Authors
    BY <1>1 DEF CopyIsOld
  <2> QED
    BY <1>1, <1>3, <2>1
<1>5. ASSUME NEW u \in consented' \ c.consented
      PROVE  agreedAt'[u] >= c.changes
  <2>1. u \in Authors
    BY DEF HistoryGoesOn
  <2>2. CASE u \in consented
    <3>1. agreedAt[u] >= c.changes
      BY <2>2 DEF CopyIsOld
    <3> QED
      BY <1>1, <1>3, <2>1, <3>1
  <2>3. CASE u \notin consented
    <3>1. agreedAt'[u] >= changes /\ changes >= c.changes
      BY <2>3 DEF CopyIsOld, HistoryGoesOn
    <3> QED
      BY <1>1, <1>3, <2>1, <3>1
  <2> QED
    BY <2>2, <2>3
<1>6. c.changes <= changes' /\ c.cleared <= cleared'
  BY <1>1, <1>2 DEF CopyIsOld
<1> QED
  BY <1>4, <1>5, <1>6

\* Steps that record no consent.
LEMMA NothingAgreed ==
    ASSUME PubInv, changes' \in changes..MaxChanges, consented' \subseteq consented,
           UNCHANGED <<cleared, agreedAt>>
    PROVE  HistoryGoesOn
<1>1. /\ changes \in Nat /\ cleared \in Nat /\ agreedAt \in [Authors -> Nat] /\ MaxChanges \in Nat
      /\ cleared <= changes /\ consented \subseteq Authors
  BY MaxChangesAssumption DEF PubInv, PubTypeOK, ConsentsAreFresh
<1>2. ASSUME NEW u \in Authors
      PROVE  agreedAt'[u] \in 0..changes' /\ agreedAt'[u] >= agreedAt[u]
  BY <1>1 DEF PubInv, ConsentsAreFresh
<1>3. agreedAt' \in [Authors -> 0..changes']
  BY <1>1, <1>2
<1> QED
  BY <1>1, <1>2, <1>3 DEF HistoryGoesOn, PubInv, ConsentsAreFresh

\* Saves and changes of the co-authors: reset_consents, by an old copy.
LEMMA ConsentsReset ==
    ASSUME PubInv, NEW c \in Copies, CopyIsOld(c), NewChange, ResetConsents(c), UNCHANGED agreedAt
    PROVE  HistoryGoesOn
<1>1. /\ changes \in Nat /\ cleared \in Nat /\ agreedAt \in [Authors -> Nat] /\ MaxChanges \in Nat
      /\ cleared <= changes /\ consented \subseteq Authors /\ c.changes \in Nat /\ c.changes <= changes
  BY MaxChangesAssumption DEF PubInv, PubTypeOK, ConsentsAreFresh, Copies, CopyIsOld
<1>2. changes' \in 0..MaxChanges /\ changes' = changes + 1
  BY NextChange DEF PubInv
<1>3. cleared' \in cleared..changes'
  BY <1>1, <1>2 DEF ResetConsents
<1>4. ASSUME NEW u \in Authors
      PROVE  agreedAt'[u] \in 0..changes' /\ agreedAt'[u] >= agreedAt[u]
  BY <1>1, <1>2 DEF PubInv, ConsentsAreFresh
<1>5. agreedAt' \in [Authors -> 0..changes']
  BY <1>1, <1>4
<1>6. ASSUME NEW u \in consented'
      PROVE  u \in consented /\ agreedAt'[u] >= cleared'
  <2>1. u \in consented \ c.consented
    BY DEF ResetConsents
  <2>2. c # Now
    BY <2>1 DEF Now
  <2>3. agreedAt[u] >= c.changes /\ agreedAt[u] >= cleared
    BY <2>1 DEF CopyIsOld, PubInv, ConsentsAreFresh
  <2>4. cleared' = cleared \/ cleared' = c.changes
    BY <2>2 DEF ResetConsents
  <2> QED
    BY <2>1, <2>3, <2>4
<1> QED
  BY <1>1, <1>2, <1>3, <1>4, <1>5, <1>6 DEF HistoryGoesOn

\* A consent recorded by submit_user_route.
LEMMA ConsentRecorded ==
    ASSUME PubInv, NEW u \in Authors, consented' = consented \union {u},
           agreedAt' = [agreedAt EXCEPT ![u] = changes], UNCHANGED <<changes, cleared>>
    PROVE  HistoryGoesOn
<1>1. /\ changes \in 0..MaxChanges /\ cleared \in Nat /\ agreedAt \in [Authors -> Nat]
      /\ MaxChanges \in Nat /\ cleared <= changes /\ consented \subseteq Authors
  BY MaxChangesAssumption DEF PubInv, PubTypeOK, ConsentsAreFresh
<1>2. ASSUME NEW v \in Authors
      PROVE  /\ agreedAt'[v] \in 0..changes' /\ agreedAt'[v] >= agreedAt[v]
             /\ v = u => agreedAt'[v] = changes
             /\ v # u => agreedAt'[v] = agreedAt[v]
  BY <1>1 DEF PubInv, ConsentsAreFresh
<1>3. agreedAt' \in [Authors -> 0..changes']
  BY <1>1, <1>2
<1>4. ASSUME NEW v \in consented'
      PROVE  agreedAt'[v] >= cleared' /\ (v \notin consented => agreedAt'[v] >= changes)
  BY <1>1, <1>2 DEF PubInv, ConsentsAreFresh
<1> QED
  BY <1>1, <1>2, <1>3, <1>4 DEF HistoryGoesOn
----------------------------------------------------------------------------
(* The requests, each by an old copy.                                        *)

Fits ==
    /\ public' \in PubRows /\ edit' \in EditRows /\ coauthor' \in CoauthorStates
    /\ HistoryGoesOn

LEMMA SaveFits ==
    ASSUME PubInv, NEW c \in Copies, CopyIsOld(c), NEW u \in Authors, NEW passes \in BOOLEAN,
           SaveDraft(c, u, passes)
    PROVE  Fits
<1> DEFINE row == [status |-> Written(ToEdit(c).status, SavedStatus(c, passes), ToWrite(c).status),
                   content |-> [ToWrite(c).content EXCEPT !.version = changes', !.saved = changes']]
<1>1. PubTypeOK
  BY DEF PubInv
<1>2. NewChange /\ WriteRow(c, row) /\ ResetConsents(c) /\ UNCHANGED <<coauthor, agreedAt>>
  BY DEF SaveDraft
<1>3. row.content \in RouteContents
  BY <1>1, <1>2, EditedRow, NextChange, ContentWritten
<1>4. row.status \in {"draft", "pending_review", ToWrite(c).status}
  BY DEF Written, SavedStatus
<1>5. (InPlace(c) => row \in PubRows) /\ (~InPlace(c) => row \in EditRows)
  <2>1. row = [status |-> row.status, content |-> row.content]
    OBVIOUS
  <2> HIDE DEF row
  <2> QED
    BY <1>1, <1>3, <1>4, <2>1, EditedRow DEF PubRows, EditRows
<1> HIDE DEF row
<1>6. public' \in PubRows /\ edit' \in EditRows
  BY <1>1, <1>2, <1>5, WrittenRow
<1>7. HistoryGoesOn
  BY <1>2, ConsentsReset
<1> QED
  BY <1>1, <1>2, <1>6, <1>7 DEF Fits, PubTypeOK

LEMMA DaysAndPhotosFit ==
    ASSUME PubInv, NEW c \in Copies, NEW u \in Authors, NEW photos \in BOOLEAN,
           SetDays(c, u) \/ ChangePhotos(c, u, photos)
    PROVE  Fits
<1> DEFINE split == [ToWrite(c) EXCEPT !.content.version = changes']
           shots == [ToWrite(c) EXCEPT !.content.version = changes', !.content.photos = photos]
<1>1. PubTypeOK
  BY DEF PubInv
<1>2. NewChange /\ UNCHANGED <<team, cleared, agreedAt>>
  BY DEF SetDays, ChangePhotos
<1>3. changes' \in 0..MaxChanges /\ changes' = changes + 1 /\ changes \in Nat
  BY <1>1, <1>2, NextChange
<1>4. /\ InPlace(c) => split \in PubRows /\ shots \in PubRows
      /\ ~InPlace(c) => split \in EditRows /\ shots \in EditRows
  BY <1>1, <1>3, EditedRow DEF PubRows, EditRows, RouteContents
<1>5. WriteRow(c, split) \/ WriteRow(c, shots)
  BY DEF SetDays, ChangePhotos
<1> HIDE DEF split, shots
<1>6. public' \in PubRows /\ edit' \in EditRows
  <2>1. CASE WriteRow(c, split)
    BY <1>1, <1>4, <2>1, WrittenRow
  <2>2. CASE WriteRow(c, shots)
    BY <1>1, <1>4, <2>2, WrittenRow
  <2> QED BY <1>5, <2>1, <2>2
<1>7. HistoryGoesOn
  <2>1. changes' \in changes..MaxChanges /\ consented' \subseteq consented
    BY <1>2, <1>3 DEF team
  <2> QED BY <1>2, <2>1, NothingAgreed
<1> QED
  BY <1>1, <1>2, <1>6, <1>7 DEF Fits, PubTypeOK, team

LEMMA SubmitFits ==
    ASSUME PubInv, NEW c \in Copies, NEW r, NEW u \in Authors, SubmitRoute(c, r, u)
    PROVE  Fits
<1> DEFINE row == IF EveryoneConsented(c, r, u) THEN [ToWrite(c) EXCEPT !.status = "pending_review"]
                  ELSE ToWrite(c)
<1>1. PubTypeOK
  BY DEF PubInv
<1>2. (InPlace(c) => row \in PubRows) /\ (~InPlace(c) => row \in EditRows)
  BY <1>1, EditedRow DEF PubRows, EditRows
<1>3. WriteRow(c, row)
  BY DEF SubmitRoute
<1> HIDE DEF row
<1>4. public' \in PubRows /\ edit' \in EditRows
  BY <1>1, <1>2, <1>3, WrittenRow
<1>5. coauthor' \in CoauthorStates
  BY <1>1 DEF SubmitRoute, Written, PubTypeOK, CoauthorStates
<1>6. HistoryGoesOn
  BY ConsentRecorded DEF SubmitRoute
<1> QED
  BY <1>4, <1>5, <1>6 DEF Fits

LEMMA CoauthorsFit ==
    ASSUME PubInv, NEW c \in Copies, CopyIsOld(c),
           \/ \E wanted \in SUBSET Coauthors : SetCoauthors(c, wanted)
           \/ \E u \in Coauthors : LeaveCoauthors(c, u)
    PROVE  Fits
<1>1. PubTypeOK
  BY DEF PubInv
<1>2. ASSUME NEW wanted \in SUBSET Coauthors, SetCoauthors(c, wanted)
      PROVE  Fits
  <2>1. NewChange /\ ResetConsents(c) /\ UNCHANGED <<public, edit, agreedAt>>
    BY <1>2 DEF SetCoauthors
  <2>2. coauthor' \in CoauthorStates
    BY <1>1, <1>2 DEF SetCoauthors, PubTypeOK, CoauthorStates
  <2>3. HistoryGoesOn
    BY <2>1, ConsentsReset
  <2> QED BY <1>1, <2>1, <2>2, <2>3 DEF Fits, PubTypeOK
<1>3. ASSUME NEW u \in Coauthors, LeaveCoauthors(c, u)
      PROVE  Fits
  <2>1. UNCHANGED <<public, edit, changes, cleared, agreedAt>> /\ consented' \subseteq consented
    BY <1>3 DEF LeaveCoauthors, history
  <2>2. coauthor' \in CoauthorStates
    BY <1>1, <1>3 DEF LeaveCoauthors, PubTypeOK, CoauthorStates
  <2>3. changes' \in changes..MaxChanges
    BY <1>1, <2>1 DEF PubTypeOK
  <2>4. HistoryGoesOn
    BY <2>1, <2>3, NothingAgreed
  <2> QED BY <1>1, <2>1, <2>2, <2>4 DEF Fits, PubTypeOK
<1> QED BY <1>2, <1>3

\* Withdrawals, discards and what moderators do move rows and leave the
\* consents alone.
RowsOnly(c) ==
    \/ DiscardEdit(c) \/ DiscardDraft(c) \/ WithdrawRoute(c)
    \/ ApproveRoute(c) \/ ApproveEdit(c) \/ RejectRoute(c) \/ RejectEdit(c)
    \/ DeleteRoute(c) \/ DeleteEdit(c)

LEMMA RowsMove ==
    ASSUME PubInv, NEW c \in Copies, RowsOnly(c)
    PROVE  Fits
<1>1. PubTypeOK
  BY DEF PubInv
<1>2. UNCHANGED <<coauthor, consented, changes, cleared, agreedAt>>
  BY DEF RowsOnly, DiscardEdit, DiscardDraft, WithdrawRoute, ApproveRoute, ApproveEdit, RejectRoute,
         RejectEdit, DeleteRoute, DeleteEdit, team, history
<1>3. /\ public \in PubRows /\ edit \in EditRows
      /\ public.content \in RouteContents /\ edit.content \in RouteContents
  BY <1>1 DEF PubTypeOK, PubRows, EditRows
<1>4. Retired(public) \in PubRows /\ Retired(edit) \in EditRows
  BY <1>3 DEF Retired, PubRows, EditRows, RouteContents
<1>5. public' \in PubRows /\ edit' \in EditRows
  <2>1. CASE DiscardEdit(c) \/ DiscardDraft(c)
    BY <1>3, <1>4, <2>1 DEF DiscardEdit, DiscardDraft, RetireEdit
  <2>2. CASE WithdrawRoute(c)
    BY <1>3, <2>2, RowTypes DEF WithdrawRoute, Revised, PubRows
  <2>3. CASE ApproveEdit(c)
    BY <1>3, <2>3, RowTypes DEF ApproveEdit, Revised, PubRows
  <2>4. CASE ApproveRoute(c) \/ RejectRoute(c) \/ RejectEdit(c) \/ DeleteRoute(c) \/ DeleteEdit(c)
    BY <1>3, <2>4 DEF ApproveRoute, RejectRoute, RejectEdit, DeleteRoute, DeleteEdit, PubRows, EditRows
  <2> QED BY <2>1, <2>2, <2>3, <2>4 DEF RowsOnly
<1>6. HistoryGoesOn
  <2>1. changes' \in changes..MaxChanges
    BY <1>1, <1>2 DEF PubTypeOK
  <2> QED BY <1>2, <2>1, NothingAgreed
<1> QED BY <1>1, <1>2, <1>5, <1>6 DEF Fits, PubTypeOK

LEMMA RequestFits ==
    ASSUME PubInv, NEW c \in Copies, CopyIsOld(c), RouteRequest(c)
    PROVE  Fits
<1>1. ASSUME NEW u \in Authors, SetDays(c, u)
      PROVE  Fits
  BY <1>1, DaysAndPhotosFit
<1>2. ASSUME NEW u \in Authors, NEW photos \in BOOLEAN, ChangePhotos(c, u, photos)
      PROVE  Fits
  BY <1>2, DaysAndPhotosFit
<1>3. ASSUME NEW u \in Authors, NEW r \in {c, Now}, SubmitRoute(c, r, u)
      PROVE  Fits
  BY <1>3, SubmitFits
<1>4. ASSUME NEW u \in Authors, NEW passes \in BOOLEAN, SaveDraft(c, u, passes)
      PROVE  Fits
  BY <1>4, SaveFits
<1>5. CASE \/ \E wanted \in SUBSET Coauthors : SetCoauthors(c, wanted)
           \/ \E u \in Coauthors : LeaveCoauthors(c, u)
  BY <1>5, CoauthorsFit
<1>6. CASE RowsOnly(c)
  BY <1>6, RowsMove
<1> QED BY <1>1, <1>2, <1>3, <1>4, <1>5, <1>6 DEF RouteRequest, RowsOnly

----------------------------------------------------------------------------
(* The invariant.                                                            *)

LEMMA PubBegins == PubInit => PubInv
<1> SUFFICES ASSUME PubInit PROVE PubInv
  OBVIOUS
<1>1. PubTypeOK
  BY MaxChangesAssumption, RowTypes DEF PubInit, PubTypeOK, CoauthorStates
<1>2. ConsentsAreFresh /\ CopiesAreOld
  BY DEF PubInit, ConsentsAreFresh, CopiesAreOld, CopyIsOld, NothingRead
<1> QED
  BY <1>1, <1>2 DEF PubInv

LEMMA NewDraftFits ==
    ASSUME PubInv, NewDraft
    PROVE  Fits
<1>1. PubTypeOK
  BY DEF PubInv
<1>2. changes' \in 0..MaxChanges /\ changes' = changes + 1 /\ changes \in Nat
  BY <1>1, NextChange DEF NewDraft
<1>3. public' \in PubRows
  BY <1>2 DEF NewDraft, PubRows, RouteContents
<1>4. HistoryGoesOn
  <2>1. changes' \in changes..MaxChanges /\ consented' \subseteq consented
    BY <1>2 DEF NewDraft, team
  <2> QED BY <2>1, NothingAgreed DEF NewDraft
<1> QED
  BY <1>1, <1>3, <1>4 DEF Fits, PubTypeOK, NewDraft, team

\* A step in turn, or the end of a slow request.
LEMMA FittingStep ==
    ASSUME PubInv, Fits, UNCHANGED slowVars \/ \E s \in SlowRequests : EndSlow(s)
    PROVE  PubInv'
<1>1. PubTypeOK
  BY DEF PubInv
<1>2. /\ stage' \in [SlowRequests -> {"waiting", "reading", "over"}]
      /\ copies' \in [SlowRequests -> Copies]
      /\ \A s \in SlowRequests : copies'[s] = copies[s] \/ copies'[s] = NothingRead
  <2>1. CASE UNCHANGED slowVars
    BY <1>1, <2>1 DEF slowVars, PubTypeOK
  <2>2. ASSUME NEW s \in SlowRequests, EndSlow(s)
        PROVE  <1>2!:
    BY <1>1, <2>2, RowTypes DEF EndSlow, PubTypeOK
  <2> QED BY <2>1, <2>2
<1>3. PubTypeOK'
  BY <1>2, HistoryFits DEF Fits, PubTypeOK
<1>4. ConsentsAreFresh'
  BY HistoryFits DEF Fits
<1>5. ASSUME NEW s \in SlowRequests
      PROVE  CopyIsOld(copies[s])'
  <2>1. CASE copies'[s] = copies[s]
    <3>1. CopyIsOld(copies[s]) /\ copies[s] \in Copies
      BY <1>1 DEF PubInv, CopiesAreOld, PubTypeOK
    <3> QED BY <2>1, <3>1, CopyStaysOld DEF Fits, CopyIsOld
  <2>2. CASE copies'[s] = NothingRead
    BY <1>3, <2>2 DEF NothingRead, CopyIsOld, PubTypeOK
  <2> QED BY <1>2, <2>1, <2>2
<1> QED
  BY <1>3, <1>4, <1>5 DEF PubInv, CopiesAreOld

LEMMA BeginningKeepsPub ==
    ASSUME PubInv, NEW s \in SlowRequests, BeginSlow(s)
    PROVE  PubInv'
<1>1. PubTypeOK /\ ConsentsAreFresh
  BY DEF PubInv
<1>2. Now \in Copies /\ CopyIsOld(Now)
  BY <1>1, NowIsACopy
<1>3. UNCHANGED <<public, edit, coauthor, consented, changes, cleared, agreedAt>>
  BY DEF BeginSlow, team, history
<1>4. PubTypeOK'
  BY <1>1, <1>2, <1>3 DEF BeginSlow, PubTypeOK
<1>5. ASSUME NEW t \in SlowRequests
      PROVE  CopyIsOld(copies[t])'
  <2>1. copies'[t] = copies[t] \/ copies'[t] = Now
    BY <1>1 DEF BeginSlow, PubTypeOK
  <2>2. CopyIsOld(copies[t])
    BY DEF PubInv, CopiesAreOld
  <2> QED BY <1>2, <1>3, <2>1, <2>2 DEF CopyIsOld
<1> QED
  BY <1>1, <1>3, <1>4, <1>5 DEF PubInv, ConsentsAreFresh, CopiesAreOld

LEMMA PubStep == PubInv /\ [PubNext]_pubVars => PubInv'
<1> SUFFICES ASSUME PubInv, [PubNext]_pubVars
             PROVE  PubInv'
    OBVIOUS
<1>1. PubTypeOK /\ ConsentsAreFresh
  BY DEF PubInv
<1>2. CASE NewDraft
  BY <1>2, NewDraftFits, FittingStep DEF NewDraft
<1>3. CASE RouteRequest(Now) /\ UNCHANGED slowVars
  BY <1>1, <1>3, NowIsACopy, RequestFits, FittingStep
<1>4. ASSUME NEW s \in SlowRequests, CommitSlow(s)
      PROVE  PubInv'
  <2>1. copies[s] \in Copies /\ CopyIsOld(copies[s])
    BY <1>1 DEF PubTypeOK, PubInv, CopiesAreOld
  <2> QED BY <1>4, <2>1, RequestFits, FittingStep DEF CommitSlow
<1>5. ASSUME NEW s \in SlowRequests, GiveUp(s)
      PROVE  PubInv'
  <2>1. Fits
    <3>1. UNCHANGED <<public, edit, coauthor, consented, changes, cleared, agreedAt>>
      BY <1>5 DEF GiveUp, team, history
    <3>2. changes' \in changes..MaxChanges
      BY <1>1, <3>1 DEF PubTypeOK
    <3> QED BY <1>1, <3>1, <3>2, NothingAgreed DEF Fits, PubTypeOK
  <2> QED BY <1>5, <2>1, FittingStep DEF GiveUp
<1>6. ASSUME NEW s \in SlowRequests, BeginSlow(s)
      PROVE  PubInv'
  BY <1>6, BeginningKeepsPub
<1>7. CASE UNCHANGED pubVars
  BY <1>1, <1>7
     DEF pubVars, team, slowVars, history, PubInv, PubTypeOK, ConsentsAreFresh, CopiesAreOld, CopyIsOld
<1> QED BY <1>2, <1>3, <1>4, <1>5, <1>6, <1>7 DEF PubNext
----------------------------------------------------------------------------
(* What steps may do.                                                        *)

\* Whatever moves the rows goes by a copy: of what is there, or of what was.
LEMMA StepGoesBy ==
    ASSUME PubInv, [PubNext]_pubVars
    PROVE  \/ NewDraft
           \/ UNCHANGED <<public, edit>>
           \/ \E c \in GoneBy : c \in Copies /\ CopyIsOld(c) /\ RouteRequest(c)
<1>1. PubTypeOK /\ ConsentsAreFresh
  BY DEF PubInv
<1>2. CASE RouteRequest(Now) /\ UNCHANGED slowVars
  <2>1. Now \in GoneBy
    BY <1>2 DEF GoneBy, slowVars
  <2> QED BY <1>1, <1>2, <2>1, NowIsACopy
<1>3. ASSUME NEW s \in SlowRequests, CommitSlow(s)
      PROVE  \E c \in GoneBy : c \in Copies /\ CopyIsOld(c) /\ RouteRequest(c)
  <2>1. stage'[s] # stage[s]
    BY <1>1, <1>3 DEF CommitSlow, EndSlow, PubTypeOK
  <2>2. copies[s] \in GoneBy
    BY <2>1 DEF GoneBy
  <2>3. copies[s] \in Copies /\ CopyIsOld(copies[s])
    BY <1>1 DEF PubTypeOK, PubInv, CopiesAreOld
  <2> QED BY <1>3, <2>2, <2>3 DEF CommitSlow
<1>4. CASE UNCHANGED pubVars \/ \E s \in SlowRequests : BeginSlow(s) \/ GiveUp(s)
  BY <1>4 DEF pubVars, BeginSlow, GiveUp
<1> QED BY <1>2, <1>3, <1>4 DEF PubNext

\* The content of a published route gives way to its edit only.
LEMMA PublishedStays ==
    ASSUME PubInv, [PubNext]_pubVars
    PROVE  GivesWayToTheQueue
<1> SUFFICES ASSUME public.status = "published", public'.status = "published",
                    public'.content # public.content
             PROVE  \E c \in GoneBy :
                        \/ c.public.status # "published"
                        \/ c.edit.status = "pending_review" /\ public'.content = edit.content
    BY DEF GivesWayToTheQueue
<1>1. PICK c \in GoneBy : c \in Copies /\ RouteRequest(c)
  BY StepGoesBy DEF NewDraft
<1> SUFFICES ASSUME c.public.status = "published"
             PROVE  c.edit.status = "pending_review" /\ public'.content = edit.content
    OBVIOUS
<1>2. ASSUME NEW row, WriteRow(c, row)
      PROVE  FALSE
  BY <1>2 DEF WriteRow, InPlace
<1>3. CASE \E u \in Authors :
              \/ SetDays(c, u) \/ \E r \in {c, Now} : SubmitRoute(c, r, u)
              \/ \E passes \in BOOLEAN : SaveDraft(c, u, passes)
              \/ \E photos \in BOOLEAN : ChangePhotos(c, u, photos)
  BY <1>2, <1>3 DEF SetDays, SubmitRoute, SaveDraft, ChangePhotos
<1>4. CASE \/ \E wanted \in SUBSET Coauthors : SetCoauthors(c, wanted)
           \/ \E u \in Coauthors : LeaveCoauthors(c, u)
  BY <1>4 DEF SetCoauthors, LeaveCoauthors
<1>5. public \in PubRows
  BY DEF PubInv, PubTypeOK
<1>6. CASE RowsOnly(c)
  <2>1. CASE DiscardEdit(c) \/ RejectEdit(c) \/ DeleteEdit(c)
    BY <2>1 DEF DiscardEdit, RejectEdit, DeleteEdit
  <2>2. CASE DiscardDraft(c) \/ WithdrawRoute(c) \/ ApproveRoute(c) \/ RejectRoute(c) \/ DeleteRoute(c)
    BY <1>5, <2>2 DEF DiscardDraft, Retired, WithdrawRoute, ApproveRoute, RejectRoute, DeleteRoute, PubRows
  <2>3. CASE ApproveEdit(c)
    BY <1>5, <2>3 DEF ApproveEdit, Revised, PubRows
  <2> QED BY <1>6, <2>1, <2>2, <2>3 DEF RowsOnly
<1> QED BY <1>1, <1>3, <1>4, <1>6 DEF RouteRequest, RowsOnly

\* A save takes an edit out of the queue, everything else keeps what was saved.
LEMMA QueuedStays ==
    ASSUME PubInv, [PubNext]_pubVars
    PROVE  KeepsItsText
<1> SUFFICES ASSUME edit.status = "pending_review", edit'.status = "pending_review",
                    edit.content.saved # edit'.content.saved
             PROVE  \E c \in GoneBy : c.edit.status # "pending_review"
    BY DEF KeepsItsText, SameText
<1>1. PICK c \in GoneBy : c \in Copies /\ RouteRequest(c)
  BY StepGoesBy DEF NewDraft
<1> SUFFICES ASSUME c.edit.status = "pending_review"
             PROVE  FALSE
    OBVIOUS
<1>2. PubTypeOK /\ edit \in EditRows /\ edit.content \in RouteContents
  BY DEF PubInv, PubTypeOK, EditRows
<1>3. There(c.edit) /\ (~InPlace(c) => ToEdit(c) = c.edit /\ ToWrite(c) = edit)
  BY DEF There, ToEdit, ToWrite
<1>4. ASSUME NEW u \in Authors, NEW passes \in BOOLEAN, SaveDraft(c, u, passes)
      PROVE  FALSE
  <2>1. CASE InPlace(c)
    BY <1>4, <2>1 DEF SaveDraft, WriteRow
  <2>2. CASE ~InPlace(c)
    BY <1>3, <1>4, <2>2 DEF SaveDraft, WriteRow, Written, SavedStatus, InPlace
  <2> QED BY <2>1, <2>2
<1>5. ASSUME NEW u \in Authors, NEW photos \in BOOLEAN, SetDays(c, u) \/ ChangePhotos(c, u, photos)
      PROVE  FALSE
  <2> DEFINE split == [edit EXCEPT !.content.version = changes']
             shots == [edit EXCEPT !.content.version = changes', !.content.photos = photos]
  <2>1. split.content.saved = edit.content.saved /\ shots.content.saved = edit.content.saved
    BY <1>2 DEF EditRows, RouteContents
  <2>2. edit' = edit \/ edit' = split \/ edit' = shots
    BY <1>3, <1>5 DEF SetDays, ChangePhotos, WriteRow
  <2> HIDE DEF split, shots
  <2> QED BY <2>1, <2>2
<1>6. ASSUME NEW u \in Authors, NEW r \in {c, Now}, SubmitRoute(c, r, u)
      PROVE  FALSE
  BY <1>6 DEF SubmitRoute, WriteRow, ToSend
<1>7. CASE \/ \E wanted \in SUBSET Coauthors : SetCoauthors(c, wanted)
           \/ \E u \in Coauthors : LeaveCoauthors(c, u)
  BY <1>7 DEF SetCoauthors, LeaveCoauthors
<1>8. CASE RowsOnly(c)
  BY <1>2, <1>8
  DEF RowsOnly, DiscardEdit, DiscardDraft, RetireEdit, Retired, WithdrawRoute, Moved, ApproveRoute,
      ApproveEdit, RejectRoute, RejectEdit, DeleteRoute, DeleteEdit, EditRows
<1> QED BY <1>1, <1>4, <1>5, <1>6, <1>7, <1>8 DEF RouteRequest, RowsOnly

\* Only submit_user_route puts a version into the queue, and only when
\* everyone has consented by what it has read.
LEMMA SentWithConsent ==
    ASSUME PubInv, [PubNext]_pubVars
    PROVE  SentAsAgreed
<1> SUFFICES ASSUME Enters(public, public') \/ Enters(edit, edit')
             PROVE  \E c \in GoneBy : \A u \in (ActiveIn(c) \intersect ActiveIn(Now)) \union {Owner} :
                        agreedAt'[u] >= c.cleared
    BY DEF SentAsAgreed
<1> USE DEF Enters
<1>1. PICK c \in GoneBy : c \in Copies /\ CopyIsOld(c) /\ RouteRequest(c)
  BY StepGoesBy DEF NewDraft
<1>2. PubTypeOK /\ ConsentsAreFresh
  BY DEF PubInv
<1>3. /\ agreedAt \in [Authors -> Nat] /\ changes \in Nat /\ cleared \in Nat /\ cleared <= changes
      /\ c.cleared \in Nat /\ c.cleared <= cleared
  BY <1>1, <1>2 DEF PubTypeOK, ConsentsAreFresh, Copies, CopyIsOld
<1>4. ASSUME NEW u \in Authors, NEW r \in {c, Now}, SubmitRoute(c, r, u),
             NEW v \in (ActiveIn(c) \intersect ActiveIn(Now)) \union {Owner}
      PROVE  agreedAt'[v] >= c.cleared
  <2>1. EveryoneConsented(c, r, u)
    BY <1>1, <1>2, <1>4, EditedRow DEF SubmitRoute, WriteRow
  <2>2. agreedAt' = [agreedAt EXCEPT ![u] = changes] /\ v \in Authors
    BY <1>4 DEF SubmitRoute, ActiveIn, Authors
  <2>3. CASE v = u
    BY <1>3, <2>2, <2>3
  <2>4. CASE v # u
    <3>1. agreedAt'[v] = agreedAt[v] /\ agreedAt[v] \in Nat
      BY <1>3, <2>2, <2>4
    <3>2. v \in c.consented \/ v \in consented
      <4>1. CASE v = Owner
        BY <2>1, <2>4, <4>1 DEF EveryoneConsented
      <4>2. CASE v # Owner
        <5>1. v \in ActiveIn(r) /\ v \in r.consented
          BY <1>4, <2>1, <2>4, <4>2 DEF EveryoneConsented
        <5> QED BY <1>4, <5>1 DEF Now
      <4> QED BY <4>1, <4>2
    <3>3. agreedAt[v] >= c.cleared
      BY <1>1, <1>2, <1>3, <3>1, <3>2 DEF ConsentsAreFresh, CopyIsOld
    <3> QED BY <3>1, <3>3
  <2> QED BY <2>3, <2>4
<1>5. ASSUME NEW u \in Authors, NEW passes \in BOOLEAN, SaveDraft(c, u, passes)
      PROVE  FALSE
  <2> DEFINE row == [status |-> Written(ToEdit(c).status, SavedStatus(c, passes), ToWrite(c).status),
                     content |-> [ToWrite(c).content EXCEPT !.version = changes', !.saved = changes']]
  <2>1. WriteRow(c, row)
    BY <1>5 DEF SaveDraft
  <2>2. CASE InPlace(c)
    <3>1. ToEdit(c) = c.public /\ ToWrite(c) = public
      BY <2>2 DEF ToEdit, ToWrite
    <3>2. row.status = "pending_review" => public.status = "pending_review"
      BY <3>1 DEF Written, SavedStatus
    <3> HIDE DEF row
    <3> QED BY <2>1, <2>2, <3>2 DEF WriteRow
  <2>3. CASE ~InPlace(c)
    <3>1. SavedStatus(c, passes) = "draft"
      BY <2>3 DEF SavedStatus, InPlace
    <3>2. row.status = "pending_review" => There(c.edit) /\ edit.status = "pending_review"
      BY <2>3, <3>1 DEF Written, ToEdit, ToWrite, NewEdit
    <3> HIDE DEF row
    <3> QED BY <2>1, <2>3, <3>2 DEF WriteRow
  <2> QED BY <2>2, <2>3
<1>6. ASSUME NEW u \in Authors, NEW photos \in BOOLEAN, SetDays(c, u) \/ ChangePhotos(c, u, photos)
      PROVE  FALSE
  <2> DEFINE split == [ToWrite(c) EXCEPT !.content.version = changes']
             shots == [ToWrite(c) EXCEPT !.content.version = changes', !.content.photos = photos]
  <2>1. split.status = ToWrite(c).status /\ shots.status = ToWrite(c).status
    BY <1>1, <1>2, EditedRow DEF PubRows, EditRows
  <2>2. WriteRow(c, split) \/ WriteRow(c, shots)
    BY <1>6 DEF SetDays, ChangePhotos
  <2>3. /\ InPlace(c) => ToWrite(c) = public
        /\ ~InPlace(c) => ToWrite(c) = edit \/ ToWrite(c).status = "draft"
    BY <1>1, <1>2, EditedRow
  <2> HIDE DEF split, shots
  <2> QED BY <2>1, <2>2, <2>3 DEF WriteRow
<1>7. CASE \/ \E wanted \in SUBSET Coauthors : SetCoauthors(c, wanted)
           \/ \E u \in Coauthors : LeaveCoauthors(c, u)
  BY <1>7 DEF SetCoauthors, LeaveCoauthors
<1>8. CASE RowsOnly(c)
  BY <1>2, <1>8
  DEF RowsOnly, DiscardEdit, DiscardDraft, RetireEdit, Retired, WithdrawRoute, Moved, ApproveRoute,
      ApproveEdit, RejectRoute, RejectEdit, DeleteRoute, DeleteEdit, PubTypeOK, PubRows, EditRows
<1> QED BY <1>1, <1>4, <1>5, <1>6, <1>7, <1>8 DEF RouteRequest, RowsOnly

----------------------------------------------------------------------------
(* The theorems.                                                             *)

\* The invariant, and with it the types of the rows and of the copies that
\* slow requests go by, hold for any co-authors and any number of such
\* requests.
THEOREM PubInvariant == PubSpec => []PubInv
BY PubBegins, PubStep, PTL DEF PubSpec

\* What people see gives way to what a moderator found in the queue, and what
\* is in the queue keeps the text it was sent with (_edit_target,
\* apply_revision), whoever edits at the same time; what a request overtaken
\* by the approval, or by the sending, writes is named in the property.
THEOREM EditedInCopies == PubSpec => NeverEditedInPlace
<1>1. PubInv /\ [PubNext]_pubVars => [GivesWayToTheQueue /\ KeepsItsText]_pubVars
  BY PublishedStays, QueuedStays
<1> QED BY <1>1, PubInvariant, PTL DEF PubSpec, NeverEditedInPlace

\* A version is sent only with consents given after the last save and the last
\* change of its co-authors that the request which sends it could read
\* (everyone_consented, reset_consents): for a request in turn, the last ones.
THEOREM SentWithConsents == PubSpec => SentAfterTheLastSave
<1>1. PubInv /\ [PubNext]_pubVars => [SentAsAgreed]_pubVars
  BY SentWithConsent
<1> QED BY <1>1, PubInvariant, PTL DEF PubSpec, SentAfterTheLastSave
-----------------------------------------------------------------------------
(* RouteReviews.  What carries it: a review without words never waits for a *)
(* moderator, so what a request reads as waiting has words from then on,    *)
(* and a request that finds stars alone finds them shown.                   *)

ReviewStatuses == {"none", "pending_review", "published", "rejected", "deleted"}
RequestKinds == {"none", "write", "rate", "photos", "delete", "approve", "reject"}
ReviewRow == [by: Reviewers \cup {"none"}, to: 0..MaxReviews, says: 0..MaxSayings, status: ReviewStatuses]
RequestRow == [by: Reviewers \cup {"none", "moderator"}, kind: RequestKinds, row: 0..MaxReviews,
               status: ReviewStatuses, to: 0..MaxReviews]

ReviewTypes ==
    /\ inTurn \in BOOLEAN /\ reviewable \in BOOLEAN /\ walked \in SUBSET Reviewers
    /\ review \in [Reviews -> ReviewRow]
    /\ request \in [ReviewRequests -> RequestRow]
    /\ says \in 0..MaxSayings
    /\ approved \in [Reviews -> 0..MaxSayings]

\* Rows are given out from the first on.
RowsInOrder == \E c \in 0..MaxReviews : ReviewsThere = 1..c

StarsAreNotModerated ==
    \A n \in Reviews : review[n].says = 0 => review[n].status \in {"none", "published", "deleted"}

ReadsThere(r) == r.row # 0 => review[r.row].status # "none"
ReadsBy(r) == r.kind \in {"write", "rate"} => r.by \in Reviewers
ReadsRow(r) == r.kind \in {"photos", "delete", "approve", "reject"} => r.row # 0
ReadsWaiting(r) == r.kind \in {"photos", "approve", "reject"} => r.status = "pending_review"
ReadsStars(r) == r.kind = "rate" /\ r.row # 0 => r.status = "published"
ReadsWords(r) == r.status = "pending_review" => r.row # 0 /\ review[r.row].says # 0
RequestsSound ==
    \A q \in ReviewRequests :
        LET r == request[q]
        IN /\ ReadsThere(r) /\ ReadsBy(r) /\ ReadsRow(r) /\ ReadsWaiting(r)
           /\ ReadsStars(r) /\ ReadsWords(r)

Begun(q) == request[q] # NoRequest
InTurnReadsRight ==
    inTurn => \A q \in ReviewRequests : Begun(q) =>
        /\ \A p \in ReviewRequests : Begun(p) => p = q
        /\ request[q].row # 0 => review[request[q].row].status = request[q].status

ReviewsInv ==
    /\ ReviewTypes /\ RowsInOrder /\ StarsAreNotModerated /\ RequestsSound /\ InTurnReadsRight
    /\ ReviewsAreModerated

LEMMA ReviewsBegin == ReviewsInit => ReviewsInv
<1> SUFFICES ASSUME ReviewsInit PROVE ReviewsInv
  OBVIOUS
<1>1. NoReviewRow \in ReviewRow /\ NoReviewRow.says = 0 /\ NoReviewRow.status = "none"
  BY ReviewBoundsAssumption DEF NoReviewRow, ReviewRow, ReviewStatuses
<1>2. /\ NoRequest \in RequestRow /\ NoRequest.kind = "none" /\ NoRequest.status = "none"
      /\ NoRequest.row = 0
  BY ReviewBoundsAssumption DEF NoRequest, RequestRow, ReviewStatuses, RequestKinds
<1>3. ReviewTypes
  BY <1>1, <1>2, ReviewBoundsAssumption DEF ReviewsInit, ReviewTypes
<1>4. \A n \in Reviews : review[n] = NoReviewRow
  BY DEF ReviewsInit
<1>5. ReviewsThere = 1..0
  BY <1>1, <1>4 DEF ReviewsThere
<1>6. RowsInOrder
  BY <1>5, ReviewBoundsAssumption DEF RowsInOrder
<1>7. \A q \in ReviewRequests : request[q] = NoRequest
  BY DEF ReviewsInit
<1> QED
  BY <1>1, <1>2, <1>3, <1>4, <1>6, <1>7
     DEF ReviewsInv, StarsAreNotModerated, RequestsSound, ReadsThere, ReadsBy, ReadsRow, ReadsWaiting, ReadsStars, ReadsWords,
         InTurnReadsRight, Begun, ReviewsAreModerated, WordsAreModerated, InTurnShownAsApproved, ReviewsShown

\* What a request reads as waiting has words.
LEMMA BeginningKeeps ==
    ASSUME ReviewsInv, NEW q \in ReviewRequests, NEW who \in Reviewers \cup {"moderator"},
           NEW kind \in RequestKinds, NEW row \in 0..MaxReviews, NEW to \in 0..MaxReviews,
           BeginReview(q, who, kind, row, to), MayBegin(q),
           kind \in {"write", "rate"} => who \in Reviewers,
           row # 0 => review[row].status # "none",
           kind \in {"photos", "delete", "approve", "reject"} => row # 0,
           kind \in {"photos", "approve", "reject"} => review[row].status = "pending_review",
           kind = "rate" /\ row # 0 => review[row].status = "published"
    PROVE  ReviewsInv'
<1>1. PICK r : r = [by |-> who, kind |-> kind, row |-> row, to |-> to,
                    status |-> IF row = 0 THEN "none" ELSE review[row].status]
  OBVIOUS
<1>2. row # 0 => row \in Reviews
  BY ReviewBoundsAssumption DEF Reviews
<1>3. row # 0 => review[row].status \in ReviewStatuses /\ review[row].says \in Nat
  BY <1>2 DEF ReviewsInv, ReviewTypes, ReviewRow
<1>4. r \in RequestRow /\ r.kind = kind /\ r.row = row /\ r.by = who
      /\ r.status = IF row = 0 THEN "none" ELSE review[row].status
  BY <1>1, <1>3 DEF RequestRow, ReviewStatuses
<1>5. /\ request' = [request EXCEPT ![q] = r] /\ request \in [ReviewRequests -> RequestRow]
      /\ UNCHANGED <<inTurn, reviewable, walked, review, says, approved>>
  BY <1>1 DEF BeginReview, reviewAround, ReviewsInv, ReviewTypes
<1>6. request' \in [ReviewRequests -> RequestRow] /\ request'[q] = r
      /\ \A p \in ReviewRequests \ {q} : request'[p] = request[p]
  BY <1>4, <1>5
<1>7. ReviewTypes' /\ RowsInOrder' /\ StarsAreNotModerated'
  BY <1>5, <1>6 DEF ReviewsInv, ReviewTypes, RowsInOrder, ReviewsThere, StarsAreNotModerated
<1>8. ReviewsAreModerated'
  BY <1>5 DEF ReviewsInv, ReviewsAreModerated, WordsAreModerated, InTurnShownAsApproved, ReviewsShown
<1>9. row # 0 /\ review[row].status = "pending_review" => review[row].says # 0
  BY <1>2 DEF ReviewsInv, StarsAreNotModerated
<1>10. /\ ReadsThere(r) /\ ReadsBy(r) /\ ReadsRow(r) /\ ReadsWaiting(r)
       /\ ReadsStars(r) /\ ReadsWords(r)
  BY <1>4, <1>9 DEF ReadsThere, ReadsBy, ReadsRow, ReadsWaiting, ReadsStars, ReadsWords
<1>11. RequestsSound'
  BY <1>5, <1>6, <1>10 DEF ReviewsInv, RequestsSound, ReadsThere, ReadsBy, ReadsRow, ReadsWaiting, ReadsStars, ReadsWords
<1>12. InTurnReadsRight'
  <2>1. inTurn => \A p \in ReviewRequests : ~Begun(p)
    BY DEF MayBegin, Begun
  <2>2. inTurn' => \A p \in ReviewRequests : Begun(p)' => p = q
    BY <1>5, <1>6, <2>1 DEF Begun
  <2> QED
    BY <1>4, <1>5, <1>6, <2>2 DEF InTurnReadsRight
<1> QED
  BY <1>7, <1>8, <1>11, <1>12 DEF ReviewsInv

LEMMA RequestsBegin ==
    ASSUME ReviewsInv, NEW q \in ReviewRequests,
           \/ \E u \in Reviewers :
                 \/ Rate(q, u)
                 \/ \E to \in Reviews \cup {0} : WriteReview(q, u, to)
                 \/ \E n \in Reviews : ChangeReviewPhotos(q, u, n) \/ DeleteOwnReview(q, u, n)
           \/ \E n \in Reviews, kind \in DOMAIN JudgedAs : Moderate(q, n, kind)
    PROVE  ReviewsInv'
<1>0. Reviews \subseteq 0..MaxReviews /\ 0 \notin Reviews /\ 0 \in 0..MaxReviews
  BY ReviewBoundsAssumption DEF Reviews
<1>1. ASSUME NEW u \in Reviewers, Rate(q, u) PROVE ReviewsInv'
  <2>1. PICK n \in IF Rated(u) = {} THEN {0} ELSE Rated(u) : BeginReview(q, u, "rate", n, 0)
    BY <1>1 DEF Rate
  <2>2. n \in 0..MaxReviews /\ (n # 0 => review[n].status = "published")
    <3>1. CASE n = 0
      BY <1>0, <3>1
    <3>2. CASE n # 0
      <4>1. n \in Starred(u)
        BY <2>1, <3>2 DEF Rated
      <4>2. n \in Reviews /\ review[n].says = 0 /\ review[n].status \notin {"none", "deleted"}
        BY <4>1 DEF Starred, OwnReviews, ReviewsThere
      <4> QED
        BY <1>0, <4>2 DEF ReviewsInv, StarsAreNotModerated
    <3> QED
      BY <3>1, <3>2
  <2>3. MayBegin(q)
    BY <2>1 DEF BeginReview
  <2> QED
    BY <1>0, <2>1, <2>2, <2>3, BeginningKeeps DEF RequestKinds
<1>2. ASSUME NEW u \in Reviewers, NEW to \in Reviews \cup {0}, WriteReview(q, u, to) PROVE ReviewsInv'
  <2>1. PICK n \in WaitingReview(u, to) \cup Starred(u) \cup {0} : BeginReview(q, u, "write", n, to)
    BY <1>2 DEF WriteReview
  <2>2. n \in 0..MaxReviews /\ to \in 0..MaxReviews
    BY <1>0, <2>1 DEF WaitingReview, Starred, OwnReviews, ReviewsThere
  <2>4. n # 0 => review[n].status # "none"
    BY <2>1 DEF WaitingReview, Starred, OwnReviews, ReviewsThere
  <2>3. MayBegin(q)
    BY <2>1 DEF BeginReview
  <2> QED
    BY <2>1, <2>2, <2>3, <2>4, BeginningKeeps DEF RequestKinds
<1>3. ASSUME NEW u \in Reviewers, NEW n \in Reviews, ChangeReviewPhotos(q, u, n) \/ DeleteOwnReview(q, u, n)
      PROVE  ReviewsInv'
  <2>1. CASE ChangeReviewPhotos(q, u, n)
    <3>1. /\ BeginReview(q, u, "photos", n, 0) /\ review[n].status = "pending_review"
          /\ review[n].status # "none"
      BY <2>1 DEF ChangeReviewPhotos, PhotosWait
    <3>2. MayBegin(q)
      BY <3>1 DEF BeginReview
    <3> QED
      BY <1>0, <3>1, <3>2, BeginningKeeps DEF RequestKinds
  <2>2. CASE DeleteOwnReview(q, u, n)
    <3>1. BeginReview(q, u, "delete", n, 0) /\ MayBegin(q) /\ review[n].status # "none"
      BY <2>2 DEF DeleteOwnReview, BeginReview, OwnReviews, ReviewsThere
    <3> QED
      BY <1>0, <3>1, BeginningKeeps DEF RequestKinds
  <2> QED
    BY <1>3, <2>1, <2>2
<1>4. ASSUME NEW n \in Reviews, NEW kind \in DOMAIN JudgedAs, Moderate(q, n, kind) PROVE ReviewsInv'
  <2>1. kind \in {"approve", "reject", "delete"}
    BY DEF JudgedAs
  <2>2. /\ BeginReview(q, "moderator", kind, n, 0) /\ MayBegin(q) /\ review[n].status # "none"
        /\ kind \in {"approve", "reject"} => review[n].status = "pending_review"
    BY <1>4 DEF Moderate, BeginReview, ReviewsThere
  <2> QED
    BY <1>0, <2>1, <2>2, BeginningKeeps DEF RequestKinds
<1> QED
  BY <1>1, <1>2, <1>3, <1>4

LEMMA FreeRowIsNext ==
    ASSUME NEW c \in Nat, ReviewsThere = 1..c
    PROVE  FreeRow = c + 1
<1>1. Cardinality(1..c) = c
  BY FS_Interval
<1> QED
  BY <1>1 DEF FreeRow

\* What a commit must respect of the one row it writes.
LEMMA RowWritten ==
    ASSUME ReviewsInv, NEW q \in ReviewRequests, Begun(q), NEW n \in Reviews, NEW row \in ReviewRow,
           n \in ReviewsThere \/ n = FreeRow, row.status # "none",
           review' = [review EXCEPT ![n] = row], request' = [request EXCEPT ![q] = NoRequest],
           says' \in 0..MaxSayings, approved' \in [Reviews -> 0..MaxSayings], UNCHANGED reviewAround,
           \A m \in Reviews \ {n} : approved'[m] = approved[m],
           row.says = 0 => row.status \in {"published", "deleted"},
           review[n].status # "none" /\ review[n].says # 0 => row.says # 0,
           row.says # 0 /\ row.status = "published" =>
               approved'[n] # 0 /\ (inTurn => approved'[n] = row.says)
    PROVE  ReviewsInv'
<1>0. /\ review \in [Reviews -> ReviewRow] /\ request \in [ReviewRequests -> RequestRow]
      /\ inTurn' = inTurn
  BY DEF ReviewsInv, ReviewTypes, reviewAround
<1>1. NoRequest \in RequestRow /\ NoRequest.kind = "none" /\ NoRequest.status = "none"
      /\ NoRequest.row = 0
  BY ReviewBoundsAssumption DEF NoRequest, RequestRow, ReviewStatuses, RequestKinds
<1>2. /\ review' \in [Reviews -> ReviewRow] /\ review'[n] = row
      /\ \A m \in Reviews \ {n} : review'[m] = review[m]
  BY <1>0
<1>3. /\ request' \in [ReviewRequests -> RequestRow] /\ request'[q] = NoRequest
      /\ \A p \in ReviewRequests \ {q} : request'[p] = request[p]
  BY <1>0, <1>1
<1>4. ReviewTypes'
  BY <1>2, <1>3 DEF ReviewsInv, ReviewTypes, reviewAround
<1>5. RowsInOrder'
  <2>1. PICK c \in 0..MaxReviews : ReviewsThere = 1..c
    BY DEF ReviewsInv, RowsInOrder
  <2>2. ReviewsThere' = ReviewsThere \cup {n}
    BY <1>2 DEF ReviewsThere
  <2>3. c \in Nat /\ FreeRow = c + 1
    BY <2>1, FreeRowIsNext, ReviewBoundsAssumption
  <2>4. CASE n \in ReviewsThere
    BY <2>1, <2>2, <2>4 DEF RowsInOrder
  <2>5. CASE n = c + 1
    <3>1. c + 1 \in 0..MaxReviews
      BY <2>1, <2>5, ReviewBoundsAssumption DEF Reviews
    <3>2. ReviewsThere' = 1..(c + 1)
      BY <2>1, <2>2, <2>3, <2>5
    <3> QED
      BY <3>1, <3>2 DEF RowsInOrder
  <2> QED
    BY <2>3, <2>4, <2>5
<1>6. StarsAreNotModerated'
  BY <1>2 DEF ReviewsInv, StarsAreNotModerated
<1>7. RequestsSound'
  <2>1. \A m \in Reviews : review[m].status # "none" =>
            /\ review'[m].status # "none"
            /\ review[m].says # 0 => review'[m].says # 0
    BY <1>2
  <2>2. ASSUME NEW p \in ReviewRequests, NEW r, r = request[p], p # q
        PROVE  /\ ReadsThere(r)' /\ ReadsBy(r)' /\ ReadsRow(r)' /\ ReadsWaiting(r)'
               /\ ReadsStars(r)' /\ ReadsWords(r)'
    <3>1. ReadsThere(r) /\ ReadsBy(r) /\ ReadsRow(r) /\ ReadsWaiting(r) /\ ReadsStars(r) /\ ReadsWords(r)
      BY <2>2 DEF ReviewsInv, RequestsSound
    <3>2. r.row \in 0..MaxReviews
      BY <1>0, <2>2 DEF RequestRow
    <3>3. r.row # 0 => r.row \in Reviews
      BY <3>2, ReviewBoundsAssumption DEF Reviews
    <3> QED
      BY <2>1, <3>1, <3>3 DEF ReadsThere, ReadsBy, ReadsRow, ReadsWaiting, ReadsStars, ReadsWords
  <2>3. ASSUME NEW p \in ReviewRequests, NEW r, r = request'[p]
        PROVE  /\ ReadsThere(r)' /\ ReadsBy(r)' /\ ReadsRow(r)' /\ ReadsWaiting(r)'
               /\ ReadsStars(r)' /\ ReadsWords(r)'
    <3>1. CASE p = q
      BY <1>1, <1>3, <2>3, <3>1 DEF ReadsThere, ReadsBy, ReadsRow, ReadsWaiting, ReadsStars, ReadsWords
    <3>2. CASE p # q
      <4>1. r = request[p]
        BY <1>3, <2>3, <3>2
      <4> QED
        BY <2>2, <3>2, <4>1
    <3> QED
      BY <3>1, <3>2
  <2> QED
    BY <2>3 DEF RequestsSound, ReadsThere, ReadsBy, ReadsRow, ReadsWaiting, ReadsStars, ReadsWords
<1>8. InTurnReadsRight'
  <2>1. inTurn => \A p \in ReviewRequests : Begun(p) => p = q
    BY DEF ReviewsInv, InTurnReadsRight
  <2>2. inTurn => \A p \in ReviewRequests : ~Begun(p)'
    BY <1>3, <2>1 DEF Begun
  <2> QED
    BY <1>0, <2>2 DEF InTurnReadsRight
<1>9. ReviewsAreModerated'
  <2>1. ASSUME NEW m \in Reviews, review'[m].status = "published", review'[m].says # 0
        PROVE  approved'[m] # 0 /\ (inTurn' => review'[m].says = approved'[m])
    <3>1. CASE m = n
      BY <1>0, <1>2, <2>1, <3>1
    <3>2. CASE m # n
      BY <1>0, <1>2, <2>1, <3>2
         DEF ReviewsInv, ReviewsAreModerated, WordsAreModerated, InTurnShownAsApproved, ReviewsShown
    <3> QED
      BY <3>1, <3>2
  <2> QED
    BY <2>1 DEF ReviewsAreModerated, WordsAreModerated, InTurnShownAsApproved, ReviewsShown
<1> QED
  BY <1>4, <1>5, <1>6, <1>7, <1>8, <1>9 DEF ReviewsInv

\* A row a request has read stays in the table.
LEMMA RowsAreThere ==
    ASSUME ReviewsInv, NEW q \in ReviewRequests, request[q].row # 0
    PROVE  request[q].row \in ReviewsThere /\ request[q].row \in Reviews
<1>1. request[q].row \in 0..MaxReviews /\ review[request[q].row].status # "none"
  BY DEF ReviewsInv, ReviewTypes, RequestRow, RequestsSound, ReadsThere
<1>2. request[q].row \in Reviews
  BY <1>1, ReviewBoundsAssumption DEF Reviews
<1> QED
  BY <1>1, <1>2 DEF ReviewsThere

LEMMA CommitsKeep == ASSUME ReviewsInv, NEW q \in ReviewRequests, CommitRequest(q) PROVE ReviewsInv'
<1>0. /\ request' = [request EXCEPT ![q] = NoRequest] /\ UNCHANGED reviewAround
      /\ review \in [Reviews -> ReviewRow] /\ request[q] \in RequestRow /\ says \in 0..MaxSayings
      /\ approved \in [Reviews -> 0..MaxSayings] /\ MaxSayings \in Nat
      /\ CommitText(q) \/ CommitRating(q) \/ CommitPhotos(q) \/ CommitStatus(q)
  BY ReviewBoundsAssumption DEF CommitRequest, ReviewsInv, ReviewTypes
<1>1. PICK r : r = request[q]
  OBVIOUS
<1>2. /\ ReadsThere(r) /\ ReadsBy(r) /\ ReadsRow(r) /\ ReadsWaiting(r) /\ ReadsStars(r) /\ ReadsWords(r)
      /\ r \in RequestRow
  BY <1>0, <1>1 DEF ReviewsInv, RequestsSound
<1>3. r.kind # "none" => Begun(q)
  BY <1>1 DEF Begun, NoRequest
<1>4. r.row # 0 => r.row \in ReviewsThere /\ r.row \in Reviews
  BY <1>1, RowsAreThere
<1>5. ASSUME NEW n \in ReviewsThere PROVE n \in Reviews /\ review[n] \in ReviewRow /\ review[n].status # "none"
  BY <1>0 DEF ReviewsThere
<1>6. ASSUME NEW n \in Reviews
      PROVE  /\ review[n].says = 0 => review[n].status \in {"none", "published", "deleted"}
             /\ review[n].says # 0 /\ review[n].status = "published" =>
                    approved[n] # 0 /\ (inTurn => approved[n] = review[n].says)
  BY DEF ReviewsInv, StarsAreNotModerated, ReviewsAreModerated, WordsAreModerated, InTurnShownAsApproved,
         ReviewsShown
<1>7. inTurn /\ Begun(q) /\ r.row # 0 => review[r.row].status = r.status
  BY <1>1 DEF ReviewsInv, InTurnReadsRight
\* New words, and changed photos.
<1>8. ASSUME CommitText(q) \/ CommitPhotos(q) PROVE says + 1 \in 0..MaxSayings /\ says + 1 # 0 /\ says' = says + 1
  BY <1>0, <1>8 DEF CommitText, CommitPhotos
<1>9. CASE CommitText(q)
  <2>0. /\ r.kind = "write" /\ approved' = approved /\ says' = says + 1
        /\ r.row = 0 => FreeRow \in Reviews
        /\ review' = [review EXCEPT ![IF r.row = 0 THEN FreeRow ELSE r.row] =
                 IF r.row = 0
                 THEN [by |-> r.by, to |-> r.to, says |-> says', status |-> "pending_review"]
                 ELSE [@ EXCEPT !.says = says', !.status = WrittenStatus(r, "pending_review")]]
    BY <1>1, <1>9 DEF CommitText
  <2>1. CASE r.row = 0
    <3>1. PICK row : row = [by |-> r.by, to |-> r.to, says |-> says + 1, status |-> "pending_review"]
      OBVIOUS
    <3>2. row \in ReviewRow /\ row.says = says + 1 /\ row.status = "pending_review"
      BY <1>2, <1>8, <1>9, <2>0, <3>1 DEF RequestRow, ReviewRow, ReviewStatuses, ReadsBy
    <3>3. review' = [review EXCEPT ![FreeRow] = row] /\ FreeRow \in Reviews
      BY <2>0, <2>1, <3>1
    <3> QED
      BY <1>0, <1>3, <1>8, <1>9, <2>0, <3>2, <3>3, RowWritten
  <2>2. CASE r.row # 0
    <3>0. r.row \in Reviews /\ r.row \in ReviewsThere
      BY <1>4, <2>2
    <3>1. PICK st : st = WrittenStatus(r, "pending_review")
      OBVIOUS
    <3>2. st = IF r.status = "pending_review" THEN review[r.row].status ELSE "pending_review"
      BY <3>1 DEF WrittenStatus
    <3>3. st \in ReviewStatuses /\ st # "none"
      BY <1>5, <3>0, <3>2 DEF ReviewStatuses, ReviewRow
    <3>4. PICK row : row = [review[r.row] EXCEPT !.says = says + 1, !.status = st]
      OBVIOUS
    <3>5. row \in ReviewRow /\ row.says = says + 1 /\ row.status = st
      BY <1>5, <1>8, <1>9, <3>0, <3>3, <3>4 DEF ReviewRow
    <3>6. review' = [review EXCEPT ![r.row] = row]
      BY <2>0, <2>2, <3>1, <3>4
    <3>7. st = "published" => r.status = "pending_review" /\ review[r.row].status = "published"
      BY <3>2
    <3>8. st = "published" => ~inTurn /\ approved[r.row] # 0
      BY <1>2, <1>3, <1>6, <1>7, <2>0, <2>2, <3>0, <3>7 DEF ReadsWords
    <3> QED
      BY <1>0, <1>3, <1>8, <1>9, <2>0, <3>0, <3>3, <3>5, <3>6, <3>8, RowWritten
  <2> QED
    BY <2>1, <2>2
<1>10. CASE CommitRating(q)
  <2>0. /\ r.kind = "rate" /\ approved' = approved /\ says' = says
        /\ r.row = 0 => FreeRow \in Reviews
        /\ review' = [review EXCEPT ![IF r.row = 0 THEN FreeRow ELSE r.row] =
                 IF r.row = 0 THEN [NoReviewRow EXCEPT !.by = r.by, !.status = "published"]
                 ELSE [@ EXCEPT !.status = WrittenStatus(r, "published")]]
    BY <1>1, <1>10 DEF CommitRating
  <2>1. CASE r.row = 0
    <3>1. PICK row : row = [NoReviewRow EXCEPT !.by = r.by, !.status = "published"]
      OBVIOUS
    <3>2. row \in ReviewRow /\ row.says = 0 /\ row.status = "published"
      <4>1. row = [by |-> r.by, to |-> 0, says |-> 0, status |-> "published"]
        BY <3>1 DEF NoReviewRow
      <4>2. r.by \in Reviewers /\ 0 \in 0..MaxReviews /\ 0 \in 0..MaxSayings
        BY <1>2, <2>0, ReviewBoundsAssumption DEF ReadsBy
      <4> QED
        BY <4>1, <4>2 DEF ReviewRow, ReviewStatuses
    <3>3. review' = [review EXCEPT ![FreeRow] = row] /\ FreeRow \in Reviews
      BY <2>0, <2>1, <3>1
    <3>4. review[FreeRow].status = "none"
      <4>1. PICK c \in 0..MaxReviews : ReviewsThere = 1..c
        BY DEF ReviewsInv, RowsInOrder
      <4>2. FreeRow = c + 1 /\ c \in Nat
        BY <4>1, FreeRowIsNext, ReviewBoundsAssumption
      <4> QED
        BY <3>3, <4>1, <4>2 DEF ReviewsThere
    <3> QED
      BY <1>0, <1>3, <2>0, <3>2, <3>3, <3>4, RowWritten
  <2>2. CASE r.row # 0
    <3>0. r.row \in Reviews /\ r.row \in ReviewsThere /\ r.status = "published"
      BY <1>2, <1>4, <2>0, <2>2 DEF ReadsStars
    <3>1. PICK row : row = review[r.row]
      OBVIOUS
    <3>2. row \in ReviewRow /\ row.status # "none"
      BY <1>5, <3>0, <3>1
    <3>3. [row EXCEPT !.status = row.status] = row
      BY <3>2 DEF ReviewRow
    <3>4. review' = [review EXCEPT ![r.row] = row]
      BY <2>0, <2>2, <3>0, <3>1, <3>3 DEF WrittenStatus
    <3> QED
      <4>1. row.says = 0 => row.status \in {"published", "deleted"}
        BY <1>6, <3>0, <3>1, <3>2
      <4>2. row.says # 0 /\ row.status = "published" =>
                approved'[r.row] # 0 /\ (inTurn => approved'[r.row] = row.says)
        BY <1>6, <2>0, <3>0, <3>1
      <4>3. review[r.row].says # 0 => row.says # 0
        BY <3>1
      <4> QED
        BY <1>0, <1>3, <2>0, <3>0, <3>2, <3>4, <4>1, <4>2, <4>3, RowWritten
  <2> QED
    BY <2>1, <2>2
<1>11. CASE CommitPhotos(q)
  <2>0. /\ r.kind = "photos" /\ approved' = approved /\ r.row # 0 /\ r.status = "pending_review"
        /\ review' = [review EXCEPT ![r.row].says = says + 1]
    BY <1>1, <1>2, <1>8, <1>11 DEF CommitPhotos, ReadsRow, ReadsWaiting
  <2>1. r.row \in Reviews /\ r.row \in ReviewsThere
    BY <1>4, <2>0
  <2>2. PICK row : row = [review[r.row] EXCEPT !.says = says + 1]
    OBVIOUS
  <2>3. row \in ReviewRow /\ row.says = says + 1 /\ row.status = review[r.row].status
    BY <1>5, <1>8, <1>11, <2>1, <2>2 DEF ReviewRow
  <2>4. review' = [review EXCEPT ![r.row] = row]
    BY <2>0, <2>2
  <2>5. row.status = "published" => ~inTurn /\ approved[r.row] # 0
    BY <1>2, <1>3, <1>6, <1>7, <2>0, <2>1, <2>3 DEF ReadsWords
  <2> QED
    BY <1>0, <1>3, <1>5, <1>8, <1>11, <2>0, <2>1, <2>3, <2>4, <2>5, RowWritten
<1>12. CASE CommitStatus(q)
  <2>1. r.kind \in {"approve", "reject", "delete"}
    BY <1>1, <1>12 DEF CommitStatus, JudgedAs
  <2>2. r.row # 0 /\ r.row \in Reviews /\ r.row \in ReviewsThere
    BY <1>2, <1>4, <2>1 DEF ReadsRow
  <2>3. PICK st : st = WrittenStatus(r, JudgedAs[r.kind])
    OBVIOUS
  <2>4. /\ review' = [review EXCEPT ![r.row].status = st] /\ says' = says
        /\ approved' = IF r.kind = "approve"
                       THEN [approved EXCEPT ![r.row] = review[r.row].says] ELSE approved
    BY <1>1, <1>12, <2>3 DEF CommitStatus
  <2>5. /\ JudgedAs.approve = "published" /\ JudgedAs.reject = "rejected" /\ JudgedAs.delete = "deleted"
    BY DEF JudgedAs
  <2>6. PICK row : row = [review[r.row] EXCEPT !.status = st]
    OBVIOUS
  <2>7. review[r.row] \in ReviewRow /\ review[r.row].status # "none" /\ review[r.row].says \in 0..MaxSayings
    BY <1>5, <2>2 DEF ReviewRow
  <2>8. /\ r.kind = "approve" => st = "published" /\ review[r.row].says # 0
        /\ r.kind = "reject" => st = "rejected" /\ review[r.row].says # 0
        /\ r.kind = "delete" => st \in {"deleted", review[r.row].status}
    BY <1>2, <2>1, <2>3, <2>5 DEF WrittenStatus, ReadsWaiting, ReadsWords
  <2>9. st \in ReviewStatuses /\ st # "none"
    BY <2>1, <2>7, <2>8 DEF ReviewStatuses, ReviewRow
  <2>10. row \in ReviewRow /\ row.says = review[r.row].says /\ row.status = st
    BY <2>6, <2>7, <2>9 DEF ReviewRow
  <2>11. review' = [review EXCEPT ![r.row] = row]
    BY <2>4, <2>6
  <2>12. /\ approved' \in [Reviews -> 0..MaxSayings]
         /\ \A m \in Reviews \ {r.row} : approved'[m] = approved[m]
         /\ r.kind = "approve" => approved'[r.row] = review[r.row].says
         /\ r.kind # "approve" => approved' = approved
    BY <1>0, <2>2, <2>4, <2>7
  <2>13. row.says = 0 => row.status \in {"published", "deleted"}
    BY <1>6, <2>1, <2>2, <2>7, <2>8, <2>10
  <2>14. row.says # 0 /\ row.status = "published" =>
             approved'[r.row] # 0 /\ (inTurn => approved'[r.row] = row.says)
    BY <1>6, <2>1, <2>2, <2>8, <2>10, <2>12
  <2>15. Begun(q)
    BY <1>3, <2>1
  <2> QED
    BY <1>0, <2>2, <2>4, <2>9, <2>10, <2>11, <2>12, <2>13, <2>14, <2>15, RowWritten
<1> QED
  BY <1>0, <1>9, <1>10, <1>11, <1>12

LEMMA ReviewsInvHolds == ReviewsSpec => []ReviewsInv
<1>1. ReviewsInv /\ [ReviewsNext]_reviewVars => ReviewsInv'
  <2> SUFFICES ASSUME ReviewsInv, [ReviewsNext]_reviewVars PROVE ReviewsInv'
    OBVIOUS
  <2>1. ASSUME UNCHANGED <<inTurn, review, request, says, approved>>, reviewable' \in BOOLEAN,
               walked' \in SUBSET Reviewers
        PROVE  ReviewsInv'
    BY <2>1 DEF ReviewsInv, ReviewTypes, RowsInOrder, ReviewsThere, StarsAreNotModerated, RequestsSound,
                ReadsThere, ReadsBy, ReadsRow, ReadsWaiting, ReadsStars, ReadsWords, InTurnReadsRight,
                Begun, ReviewsAreModerated, WordsAreModerated, InTurnShownAsApproved, ReviewsShown
  <2>2. reviewable \in BOOLEAN /\ walked \in SUBSET Reviewers
    BY DEF ReviewsInv, ReviewTypes
  <2>3. CASE UNCHANGED reviewVars
    BY <2>1, <2>2, <2>3 DEF reviewVars
  <2>4. ASSUME NEW u \in Reviewers, WalkRoute(u) PROVE ReviewsInv'
    BY <2>1, <2>2, <2>4 DEF WalkRoute
  <2>5. CASE RouteComesAndGoes
    BY <2>1, <2>2, <2>5 DEF RouteComesAndGoes
  <2>6. ASSUME NEW q \in ReviewRequests, CommitRequest(q) PROVE ReviewsInv'
    BY <2>6, CommitsKeep
  <2>7. ASSUME NEW q \in ReviewRequests, NEW n \in Reviews, NEW kind \in DOMAIN JudgedAs, Moderate(q, n, kind)
        PROVE  ReviewsInv'
    BY <2>7, RequestsBegin
  <2>8. ASSUME NEW q \in ReviewRequests, NEW u \in Reviewers,
               \/ Rate(q, u)
               \/ \E to \in Reviews \cup {0} : WriteReview(q, u, to)
               \/ \E n \in Reviews : ChangeReviewPhotos(q, u, n) \/ DeleteOwnReview(q, u, n)
        PROVE  ReviewsInv'
    BY <2>8, RequestsBegin
  <2> QED
    BY <2>3, <2>4, <2>5, <2>6, <2>7, <2>8 DEF ReviewsNext
<1> QED
  BY <1>1, ReviewsBegin, PTL DEF ReviewsSpec

\* The rows and requests of reviews are of their kinds, for any people,
\* requests and bounds.
THEOREM ReviewTypesHold == ReviewsSpec => []ReviewsTypeOK
<1>1. ReviewsInv => ReviewsTypeOK
  BY DEF ReviewsInv, ReviewTypes, ReviewsTypeOK, ReviewRow, RequestRow, ReviewStatuses, RequestKinds
<1> QED
  BY <1>1, ReviewsInvHolds, PTL

\* No word is read by others that a moderator has not let through, however
\* writing, rating again and moderating run into each other; and while
\* requests follow one another a review is shown as it was approved
\* (upsert_review, set_review_status).
THEOREM ReviewsStayModerated == ReviewsSpec => []ReviewsAreModerated
<1>1. ReviewsInv => ReviewsAreModerated
  BY DEF ReviewsInv
<1> QED
  BY <1>1, ReviewsInvHolds, PTL
-----------------------------------------------------------------------------
(* Articles.  What carries it: views are counted in place with the row that *)
(* proves them, and an errand that runs alone still finds at its commit what *)
(* it read.                                                                 *)

ArticleRow == [status: Statuses, words: 0..MaxEdits, images: 0..MaxEdits, likes: Nat, views: Nat]
CommentRow == [to: 0..MaxComments, status: Statuses \cup {"none"}, late: BOOLEAN]
ErrandKinds == {"none", "edit", "images", "submit", "delete", "publish", "reject", "remove", "open",
                "like", "unlike", "comment", "deleteComment", "publishComment", "rejectComment",
                "removeComment"}
ErrandRow == [kind: ErrandKinds, by: Readers \cup {"none"}, row: 0..MaxComments,
              status: Statuses \cup {"none"}, count: Nat]

OfTheArticle == {"edit", "submit", "delete", "publish", "reject", "remove"}
OfAComment == {"deleteComment", "publishComment", "rejectComment", "removeComment"}
ErrandRight(r) ==
    /\ r.kind \in {"open", "like", "unlike"} => r.by \in Readers
    /\ r.kind \in OfAComment => r.row \in Comments
    /\ r.kind = "publish" => r.status = "pending_review"

ArticleTypes ==
    /\ oneAtATime \in BOOLEAN
    /\ article \in ArticleRow
    /\ liked \in SUBSET Readers /\ viewed \in SUBSET Readers
    /\ IsFiniteSet(liked) /\ IsFiniteSet(viewed)
    /\ comment \in [Comments -> CommentRow]
    /\ errand \in [Errands -> ErrandRow]
    /\ \A e \in Errands : ErrandRight(errand[e])
    /\ edits \in 0..MaxEdits /\ passed \in 0..MaxEdits

OnItsWay(e) == errand[e] # NoErrand
StillAsRead(r) ==
    /\ r.kind \in OfTheArticle => r.status = article.status
    /\ r.kind = "like" => r.by \notin liked /\ r.count = article.likes
    /\ r.kind = "unlike" => r.by \in liked /\ r.count = article.likes
InTurnFindsWhatItRead ==
    oneAtATime => \A e \in Errands : OnItsWay(e) =>
        /\ \A other \in Errands : OnItsWay(other) => other = e
        /\ StillAsRead(errand[e])

ArticlesInv == ArticleTypes /\ InTurnFindsWhatItRead /\ ArticlesShowTheTruth

LEMMA NoErrandFits ==
    /\ NoErrand \in ErrandRow /\ ErrandRight(NoErrand) /\ NoErrand.kind = "none"
BY ArticleBoundsAssumption DEF NoErrand, ErrandRow, ErrandRight, ErrandKinds, OfAComment

LEMMA ArticlesBegin == ArticlesInit => ArticlesInv
<1> SUFFICES ASSUME ArticlesInit PROVE ArticlesInv
  OBVIOUS
<1>1. /\ NewArticle \in ArticleRow /\ NewArticle.views = 0 /\ NewArticle.likes = 0
      /\ NewArticle.status = "draft"
  BY ArticleBoundsAssumption DEF NewArticle, ArticleRow, Statuses
<1>2. NoComment \in CommentRow
  BY ArticleBoundsAssumption DEF NoComment, CommentRow
<1>3. \A e \in Errands : errand[e] = NoErrand
  BY DEF ArticlesInit
<1>4. IsFiniteSet({}) /\ Cardinality({}) = 0
  BY FS_EmptySet
<1>5. ArticleTypes
  BY <1>1, <1>2, <1>3, <1>4, NoErrandFits, ArticleBoundsAssumption DEF ArticlesInit, ArticleTypes
<1> QED
  BY <1>1, <1>3, <1>4, <1>5
     DEF ArticlesInit, ArticlesInv, InTurnFindsWhatItRead, OnItsWay, ArticlesShowTheTruth, ReadersCounted,
         InTurnWordsAsApproved

\* An errand sets off with what it has just read.
LEMMA SettingOffKeeps ==
    ASSUME ArticlesInv, NEW e \in Errands, NEW row \in ErrandRow, SetOff(e, row), ErrandRight(row),
           StillAsRead(row)
    PROVE  ArticlesInv'
<1>1. /\ errand \in [Errands -> ErrandRow] /\ errand' = [errand EXCEPT ![e] = row]
      /\ UNCHANGED <<oneAtATime, article, liked, viewed, comment, edits, passed>>
  BY DEF ArticlesInv, ArticleTypes, SetOff, readers
<1>2. /\ errand' \in [Errands -> ErrandRow] /\ errand'[e] = row
      /\ \A d \in Errands \ {e} : errand'[d] = errand[d]
  BY <1>1
<1>3. ArticleTypes'
  BY <1>1, <1>2 DEF ArticlesInv, ArticleTypes, ErrandRight
<1>4. oneAtATime => \A d \in Errands : ~OnItsWay(d)
  BY DEF SetOff, OnItsWay
<1>5. oneAtATime => \A d \in Errands : OnItsWay(d)' => d = e
  BY <1>2, <1>4 DEF OnItsWay
<1>6. InTurnFindsWhatItRead'
  BY <1>1, <1>2, <1>5 DEF InTurnFindsWhatItRead, StillAsRead
<1>7. ArticlesShowTheTruth'
  BY <1>1 DEF ArticlesInv, ArticlesShowTheTruth, ReadersCounted, InTurnWordsAsApproved
<1> QED
  BY <1>3, <1>6, <1>7 DEF ArticlesInv

LEMMA ErrandsSetOff ==
    ASSUME ArticlesInv, NEW e \in Errands,
           \/ \E kind \in {"edit", "images", "submit", "delete"} : AuthorComes(e, kind)
           \/ \E kind \in {"publish", "reject", "remove"} : ModeratorComes(e, kind)
           \/ \E u \in Readers, kind \in {"open", "like", "unlike"} : ReaderComes(e, u, kind)
           \/ \E to \in Comments \cup {0} : CommentComes(e, to)
           \/ \E k \in Comments : CommentGoes(e, k)
           \/ \E k \in Comments, kind \in {"publishComment", "rejectComment", "removeComment"} :
                 CommentJudged(e, k, kind)
    PROVE  ArticlesInv'
<1>0. /\ article.status \in Statuses /\ article.likes \in Nat /\ 0 \in 0..MaxComments
      /\ Comments \subseteq 0..MaxComments
      /\ \A k \in Comments : comment[k].status \in Statuses \cup {"none"}
  BY ArticleBoundsAssumption DEF ArticlesInv, ArticleTypes, ArticleRow, CommentRow, Comments
<1>1. ASSUME NEW kind \in {"edit", "images", "submit", "delete", "publish", "reject", "remove"},
             SetOff(e, OfArticle(kind)), kind = "publish" => article.status = "pending_review"
      PROVE  ArticlesInv'
  <2>1. PICK row : row = OfArticle(kind)
    OBVIOUS
  <2>2. row = [kind |-> kind, by |-> "none", row |-> 0, status |-> article.status, count |-> 0]
    BY <2>1 DEF OfArticle, NoErrand
  <2>3. row \in ErrandRow /\ ErrandRight(row) /\ StillAsRead(row)
    BY <1>0, <1>1, <2>2 DEF ErrandRow, ErrandKinds, ErrandRight, OfAComment, StillAsRead
  <2> QED
    BY <1>1, <2>1, <2>3, SettingOffKeeps
<1>2. ASSUME NEW kind \in {"edit", "images", "submit", "delete"}, AuthorComes(e, kind) PROVE ArticlesInv'
  BY <1>1, <1>2 DEF AuthorComes
<1>3. ASSUME NEW kind \in {"publish", "reject", "remove"}, ModeratorComes(e, kind) PROVE ArticlesInv'
  BY <1>1, <1>3 DEF ModeratorComes, InQueue
<1>4. ASSUME NEW u \in Readers, NEW kind \in {"open", "like", "unlike"}, ReaderComes(e, u, kind)
      PROVE  ArticlesInv'
  <2>1. PICK row : row = [NoErrand EXCEPT !.kind = kind, !.by = u,
                                          !.count = IF kind = "open" THEN 0 ELSE article.likes]
    OBVIOUS
  <2>2. row = [kind |-> kind, by |-> u, row |-> 0, status |-> "none",
               count |-> IF kind = "open" THEN 0 ELSE article.likes]
    BY <2>1 DEF NoErrand
  <2>3. row \in ErrandRow /\ ErrandRight(row)
    BY <1>0, <2>2 DEF ErrandRow, ErrandKinds, ErrandRight, OfAComment
  <2>4. StillAsRead(row) /\ SetOff(e, row)
    BY <1>4, <2>1, <2>2 DEF ReaderComes, StillAsRead, OfTheArticle
  <2> QED
    BY <2>3, <2>4, SettingOffKeeps
<1>5. ASSUME NEW kind \in OfAComment \cup {"comment"}, NEW k \in 0..MaxComments,
             NEW st \in Statuses \cup {"none"}, NEW row, kind # "comment" => k \in Comments,
             row = [kind |-> kind, by |-> "none", row |-> k, status |-> st, count |-> 0],
             SetOff(e, row)
      PROVE  ArticlesInv'
  <2>1. row \in ErrandRow /\ ErrandRight(row) /\ StillAsRead(row)
    BY <1>5 DEF ErrandRow, ErrandKinds, ErrandRight, OfAComment, StillAsRead, OfTheArticle
  <2> QED
    BY <1>5, <2>1, SettingOffKeeps
<1>6. ASSUME NEW to \in Comments \cup {0}, CommentComes(e, to) PROVE ArticlesInv'
  <2>1. PICK row : row = [NoErrand EXCEPT !.kind = "comment", !.row = to]
    OBVIOUS
  <2>2. row = [kind |-> "comment", by |-> "none", row |-> to, status |-> "none", count |-> 0]
    BY <2>1 DEF NoErrand
  <2>3. SetOff(e, row) /\ to \in 0..MaxComments
    BY <1>0, <1>6, <2>1 DEF CommentComes
  <2> QED
    BY <1>5, <2>2, <2>3
<1>7. ASSUME NEW k \in Comments, NEW kind \in OfAComment, SetOff(e, OfComment(k, kind)) PROVE ArticlesInv'
  <2>1. PICK row : row = [NoErrand EXCEPT !.kind = kind, !.row = k, !.status = comment[k].status]
    OBVIOUS
  <2>2. /\ OfComment(k, kind) = row
        /\ row = [kind |-> kind, by |-> "none", row |-> k, status |-> comment[k].status, count |-> 0]
    BY <2>1 DEF OfComment, NoErrand
  <2>3. SetOff(e, row) /\ k \in 0..MaxComments /\ comment[k].status \in Statuses \cup {"none"}
    BY <1>0, <1>7, <2>2
  <2> QED
    BY <1>5, <2>2, <2>3
<1>8. ASSUME NEW k \in Comments, CommentGoes(e, k) PROVE ArticlesInv'
  BY <1>7, <1>8 DEF CommentGoes, OfAComment
<1>9. ASSUME NEW k \in Comments, NEW kind \in {"publishComment", "rejectComment", "removeComment"},
             CommentJudged(e, k, kind)
      PROVE  ArticlesInv'
  BY <1>7, <1>9 DEF CommentJudged, OfAComment
<1> QED
  BY <1>2, <1>3, <1>4, <1>6, <1>8, <1>9

\* What the commit of an errand must leave right.
LEMMA ErrandDone ==
    ASSUME ArticlesInv, NEW e \in Errands, OnItsWay(e), errand' = [errand EXCEPT ![e] = NoErrand],
           UNCHANGED oneAtATime, article' \in ArticleRow,
           liked' \in SUBSET Readers, viewed' \in SUBSET Readers, IsFiniteSet(liked'), IsFiniteSet(viewed'),
           comment' \in [Comments -> CommentRow], edits' \in 0..MaxEdits, passed' \in 0..MaxEdits,
           article'.views = Cardinality(viewed'),
           oneAtATime => article'.likes = Cardinality(liked'),
           oneAtATime /\ article'.status = "published" => article'.words = passed'
    PROVE  ArticlesInv'
<1>1. errand \in [Errands -> ErrandRow]
  BY DEF ArticlesInv, ArticleTypes
<1>2. /\ errand' \in [Errands -> ErrandRow] /\ errand'[e] = NoErrand
      /\ \A d \in Errands \ {e} : errand'[d] = errand[d]
  BY <1>1, NoErrandFits
<1>3. ArticleTypes'
  BY <1>2, NoErrandFits DEF ArticlesInv, ArticleTypes, ErrandRight
<1>4. oneAtATime => \A d \in Errands : OnItsWay(d) => d = e
  BY DEF ArticlesInv, InTurnFindsWhatItRead
<1>5. InTurnFindsWhatItRead'
  BY <1>2, <1>4 DEF InTurnFindsWhatItRead, OnItsWay
<1>6. ArticlesShowTheTruth'
  BY DEF ArticlesShowTheTruth, ReadersCounted, InTurnWordsAsApproved
<1> QED
  BY <1>3, <1>5, <1>6 DEF ArticlesInv

LEMMA ErrandsCommit == ASSUME ArticlesInv, NEW e \in Errands, CommitErrand(e) PROVE ArticlesInv'
<1>0. /\ errand' = [errand EXCEPT ![e] = NoErrand] /\ UNCHANGED oneAtATime
      /\ article \in ArticleRow /\ liked \in SUBSET Readers /\ viewed \in SUBSET Readers
      /\ IsFiniteSet(liked) /\ IsFiniteSet(viewed) /\ comment \in [Comments -> CommentRow]
      /\ edits \in 0..MaxEdits /\ passed \in 0..MaxEdits /\ MaxEdits \in Nat /\ MaxComments \in Nat
      /\ article.views = Cardinality(viewed)
      /\ oneAtATime => article.likes = Cardinality(liked)
      /\ oneAtATime /\ article.status = "published" => article.words = passed
  BY ArticleBoundsAssumption
     DEF CommitErrand, ArticlesInv, ArticleTypes, ArticlesShowTheTruth, ReadersCounted, InTurnWordsAsApproved
<1>1. PICK r : r = errand[e]
  OBVIOUS
<1>2. r \in ErrandRow /\ ErrandRight(r)
  BY <1>1 DEF ArticlesInv, ArticleTypes
<1>3. r.kind # "none" => OnItsWay(e)
  BY <1>1, NoErrandFits DEF OnItsWay
<1>4. r.kind # "none" /\ oneAtATime => StillAsRead(r)
  BY <1>1, <1>3 DEF ArticlesInv, InTurnFindsWhatItRead
<1>5. article = [status |-> article.status, words |-> article.words, images |-> article.images,
                 likes |-> article.likes, views |-> article.views]
      /\ article.status \in Statuses /\ article.words \in 0..MaxEdits /\ article.likes \in Nat
      /\ article.views \in Nat
  BY <1>0 DEF ArticleRow
<1>6. CASE CommitEdit(e)
  <2>1. PICK st : st = IF r.status = AfterEdit(r.status) THEN article.status ELSE AfterEdit(r.status)
    OBVIOUS
  <2>2. /\ st \in Statuses
        /\ oneAtATime /\ r.kind = "edit" => st # "published"
    BY <1>4, <1>5, <2>1 DEF AfterEdit, Statuses, StillAsRead, OfTheArticle
  <2>3. /\ r.kind = "edit" /\ edits < MaxEdits /\ edits' = edits + 1
        /\ article' = [Put(article, r.status, AfterEdit(r.status)) EXCEPT !.words = edits']
        /\ UNCHANGED <<liked, viewed, comment, passed>>
    BY <1>1, <1>6 DEF CommitEdit, readers
  <2>4. PICK new : new = edits + 1
    OBVIOUS
  <2>5. edits' = new /\ new \in 0..MaxEdits
    BY <1>0, <2>3, <2>4
  <2>6. article' = [status |-> st, words |-> new, images |-> article.images,
                    likes |-> article.likes, views |-> article.views]
    BY <1>5, <2>1, <2>3, <2>5 DEF Put
  <2>7. /\ article' \in ArticleRow /\ article'.status = st /\ article'.likes = article.likes
        /\ article'.views = article.views
    BY <1>0, <2>2, <2>5, <2>6 DEF ArticleRow
  <2> QED
    BY <1>0, <1>3, <2>2, <2>3, <2>5, <2>7, ErrandDone
<1>7. CASE CommitImages(e)
  <2>1. /\ r.kind = "images" /\ edits < MaxEdits /\ edits' = edits + 1
        /\ article' = [article EXCEPT !.images = edits']
        /\ UNCHANGED <<liked, viewed, comment, passed>>
    BY <1>1, <1>7 DEF CommitImages, readers
  <2>2. PICK new : new = edits + 1
    OBVIOUS
  <2>3. edits' = new /\ new \in 0..MaxEdits
    BY <1>0, <2>1, <2>2
  <2>4. /\ article' \in ArticleRow /\ article'.status = article.status /\ article'.likes = article.likes
        /\ article'.views = article.views /\ article'.words = article.words
    BY <1>0, <2>1, <2>3 DEF ArticleRow
  <2> QED
    BY <1>0, <1>3, <2>1, <2>3, <2>4, ErrandDone
<1>8. CASE CommitStatusOf(e)
  <2>1. PICK st : st = IF r.status = StatusAfter[r.kind] THEN article.status ELSE StatusAfter[r.kind]
    OBVIOUS
  <2>2. /\ r.kind \in DOMAIN StatusAfter
        /\ article' = Put(article, r.status, StatusAfter[r.kind])
        /\ passed' = IF r.kind = "publish" THEN article.words ELSE passed
        /\ UNCHANGED <<liked, viewed, comment, edits>>
    BY <1>1, <1>8 DEF CommitStatusOf, readers
  <2>3. /\ r.kind \in {"submit", "delete", "remove", "publish", "reject"}
        /\ r.kind = "submit" => StatusAfter[r.kind] = "pending_review"
        /\ r.kind \in {"delete", "remove"} => StatusAfter[r.kind] = "deleted"
        /\ r.kind = "publish" => StatusAfter[r.kind] = "published"
        /\ r.kind = "reject" => StatusAfter[r.kind] = "rejected"
    BY <2>2 DEF StatusAfter
  <2>4. article' = [status |-> st, words |-> article.words, images |-> article.images,
                    likes |-> article.likes, views |-> article.views]
    BY <1>5, <2>1, <2>2 DEF Put
  <2>5. st \in Statuses /\ (oneAtATime /\ st = "published" => r.kind = "publish")
    BY <1>4, <1>5, <2>1, <2>3 DEF Statuses, StillAsRead, OfTheArticle
  <2>6. /\ article' \in ArticleRow /\ article'.status = st /\ article'.likes = article.likes
        /\ article'.views = article.views /\ article'.words = article.words
    BY <1>0, <2>4, <2>5 DEF ArticleRow
  <2>7. passed' \in 0..MaxEdits /\ (r.kind = "publish" => passed' = article.words)
    BY <1>0, <1>5, <2>2
  <2> QED
    BY <1>0, <1>3, <2>2, <2>3, <2>5, <2>6, <2>7, ErrandDone
<1>9. CASE CommitView(e)
  <2>1. /\ r.kind = "open" /\ viewed' = viewed \cup {r.by}
        /\ article' = IF r.by \in viewed THEN article ELSE [article EXCEPT !.views = @ + 1]
        /\ UNCHANGED <<liked, comment, edits, passed>>
    BY <1>1, <1>9 DEF CommitView, Seen
  <2>2. r.by \in Readers
    BY <1>2, <2>1 DEF ErrandRight
  <2>3. /\ IsFiniteSet(viewed')
        /\ Cardinality(viewed') = IF r.by \in viewed THEN Cardinality(viewed) ELSE Cardinality(viewed) + 1
    BY <1>0, <2>1, FS_AddElement
  <2>4. /\ article' \in ArticleRow /\ article'.status = article.status /\ article'.likes = article.likes
        /\ article'.words = article.words
        /\ article'.views = IF r.by \in viewed THEN article.views ELSE article.views + 1
    BY <1>0, <1>5, <2>1 DEF ArticleRow
  <2>5. article'.views = Cardinality(viewed') /\ viewed' \in SUBSET Readers
    BY <1>0, <2>1, <2>2, <2>3, <2>4
  <2> QED
    BY <1>0, <1>3, <2>1, <2>3, <2>4, <2>5, ErrandDone
<1>10. CASE CommitLike(e)
  <2>1. CASE r.kind = "like" /\ r.by \notin liked
    <3>1. /\ liked' = liked \cup {r.by} /\ article' = [article EXCEPT !.likes = r.count + 1]
          /\ UNCHANGED <<viewed, comment, edits, passed>>
      BY <1>1, <1>10, <2>1 DEF CommitLike
    <3>2. r.by \in Readers /\ r.count + 1 \in Nat
      BY <1>2, <2>1 DEF ErrandRight, ErrandRow
    <3>3. IsFiniteSet(liked') /\ Cardinality(liked') = Cardinality(liked) + 1
      BY <1>0, <2>1, <3>1, FS_AddElement
    <3>4. /\ article' \in ArticleRow /\ article'.status = article.status /\ article'.likes = r.count + 1
          /\ article'.words = article.words /\ article'.views = article.views
      BY <1>0, <3>1, <3>2 DEF ArticleRow
    <3>5. oneAtATime => article'.likes = Cardinality(liked')
      BY <1>0, <1>4, <2>1, <3>3, <3>4 DEF StillAsRead
    <3>6. liked' \in SUBSET Readers
      BY <1>0, <3>1, <3>2
    <3> QED
      BY <1>0, <1>3, <2>1, <3>1, <3>3, <3>4, <3>5, <3>6, ErrandDone
  <2>2. CASE r.kind = "like" /\ r.by \in liked
    <3>1. UNCHANGED <<article, liked, viewed, comment, edits, passed>>
      BY <1>1, <1>10, <2>2 DEF CommitLike
    <3> QED
      BY <1>0, <1>3, <2>2, <3>1, ErrandDone
  <2>3. CASE r.kind = "unlike"
    <3>1. PICK less : less = IF r.count = 0 THEN 0 ELSE r.count - 1
      OBVIOUS
    <3>2. /\ liked' = liked \ {r.by}
          /\ article' = IF less = r.count THEN article ELSE [article EXCEPT !.likes = less]
          /\ UNCHANGED <<viewed, comment, edits, passed>>
      BY <1>1, <1>10, <2>3, <3>1 DEF CommitLike, OneLess
    <3>3. r.count \in Nat /\ less \in Nat
      BY <1>2, <3>1 DEF ErrandRow
    <3>4. /\ IsFiniteSet(liked')
          /\ Cardinality(liked') = IF r.by \in liked THEN Cardinality(liked) - 1 ELSE Cardinality(liked)
      BY <1>0, <3>2, FS_RemoveElement
    <3>5. /\ article' \in ArticleRow /\ article'.status = article.status
          /\ article'.words = article.words /\ article'.views = article.views
          /\ article'.likes = IF less = r.count THEN article.likes ELSE less
      BY <1>0, <3>2, <3>3 DEF ArticleRow
    <3>6. Cardinality(liked) \in Nat /\ (r.by \in liked => Cardinality(liked) # 0)
      BY <1>0, FS_CardinalityType, FS_EmptySet
    <3>7. oneAtATime => r.by \in liked /\ r.count = Cardinality(liked)
      BY <1>0, <1>4, <2>3 DEF StillAsRead
    <3>8. oneAtATime => article'.likes = Cardinality(liked')
      BY <3>1, <3>3, <3>4, <3>5, <3>6, <3>7
    <3>9. liked' \in SUBSET Readers
      BY <1>0, <3>2
    <3> QED
      BY <1>0, <1>3, <2>3, <3>2, <3>4, <3>5, <3>8, <3>9, ErrandDone
  <2> QED
    BY <1>1, <1>10, <2>1, <2>2, <2>3 DEF CommitLike
\* Comments.
<1>11. ASSUME NEW k \in Comments, NEW row \in CommentRow, comment' = [comment EXCEPT ![k] = row],
              UNCHANGED <<article, liked, viewed, edits, passed>>, r.kind # "none"
       PROVE  ArticlesInv'
  <2>1. comment' \in [Comments -> CommentRow]
    BY <1>0, <1>11
  <2> QED
    BY <1>0, <1>3, <1>11, <2>1, ErrandDone
<1>12. CASE CommitComment(e)
  <2>1. PICK k \in Comments :
            comment' = [comment EXCEPT ![k] = [to |-> r.row, status |-> "pending_review", late |-> FALSE]]
    BY <1>1, <1>12 DEF CommitComment
  <2>2. PICK row : row = [to |-> r.row, status |-> "pending_review", late |-> FALSE]
    OBVIOUS
  <2>3. row \in CommentRow
    BY <1>2, <2>2 DEF ErrandRow, CommentRow, Statuses
  <2> QED
    BY <1>1, <1>11, <1>12, <2>1, <2>2, <2>3 DEF CommitComment, readers
<1>13. CASE CommitCommentStatus(e)
  <2>1. /\ r.kind \in DOMAIN CommentAfter /\ UNCHANGED <<article, liked, viewed, edits, passed>>
        /\ comment' = [comment EXCEPT ![r.row] = Put(comment[r.row], r.status, CommentAfter[r.kind])]
    BY <1>1, <1>13 DEF CommitCommentStatus, readers
  <2>2. r.kind \in OfAComment /\ CommentAfter[r.kind] \in Statuses
    BY <2>1 DEF CommentAfter, OfAComment, Statuses
  <2>3. r.row \in Comments /\ comment[r.row] \in CommentRow
    BY <1>0, <1>2, <2>2 DEF ErrandRight
  <2>4. PICK row : row = Put(comment[r.row], r.status, CommentAfter[r.kind])
    OBVIOUS
  <2>5. row \in CommentRow
    BY <2>2, <2>3, <2>4 DEF Put, CommentRow
  <2> QED
    BY <1>11, <2>1, <2>2, <2>3, <2>4, <2>5 DEF OfAComment
<1> QED
  BY <1>6, <1>7, <1>8, <1>9, <1>10, <1>12, <1>13 DEF CommitErrand

LEMMA ArticlesInvHolds == ArticlesSpec => []ArticlesInv
<1>1. ArticlesInv /\ [ArticlesNext]_articleVars => ArticlesInv'
  <2> SUFFICES ASSUME ArticlesInv, [ArticlesNext]_articleVars PROVE ArticlesInv'
    OBVIOUS
  <2>1. ASSUME UNCHANGED <<oneAtATime, article, liked, viewed, errand, edits, passed>>,
               comment' \in [Comments -> CommentRow]
        PROVE  ArticlesInv'
    BY <2>1 DEF ArticlesInv, ArticleTypes, ErrandRight, InTurnFindsWhatItRead, OnItsWay, StillAsRead,
                ArticlesShowTheTruth, ReadersCounted, InTurnWordsAsApproved
  <2>2. comment \in [Comments -> CommentRow]
    BY DEF ArticlesInv, ArticleTypes
  <2>3. CASE UNCHANGED articleVars
    BY <2>1, <2>2, <2>3 DEF articleVars, readers
  <2>4. ASSUME NEW k \in Comments, CommentGetsOld(k) PROVE ArticlesInv'
    <3>1. /\ comment' = [comment EXCEPT ![k].late = TRUE]
          /\ UNCHANGED <<oneAtATime, article, liked, viewed, errand, edits, passed>>
      BY <2>4 DEF CommentGetsOld, readers
    <3>2. PICK row : row = [comment[k] EXCEPT !.late = TRUE]
      OBVIOUS
    <3>3. comment' = [comment EXCEPT ![k] = row] /\ row \in CommentRow
      BY <2>2, <3>1, <3>2 DEF CommentRow
    <3> QED
      BY <2>1, <2>2, <3>1, <3>3
  <2>5. ASSUME NEW e \in Errands, CommitErrand(e) PROVE ArticlesInv'
    BY <2>5, ErrandsCommit
  <2> QED
    BY <2>3, <2>4, <2>5, ErrandsSetOff DEF ArticlesNext
<1> QED
  BY <1>1, ArticlesBegin, PTL DEF ArticlesSpec

\* The types of Articles.
LEMMA ArticleTypesHold == ArticlesSpec => []ArticlesTypeOK
<1>1. ArticlesInv => ArticlesTypeOK
  BY DEF ArticlesInv, ArticleTypes, ArticleRow, CommentRow, ErrandRow, ArticlesTypeOK
<1> QED
  BY <1>1, ArticlesInvHolds, PTL

\* What readers see of an article is true: its views are its readers, and, as
\* long as requests come one at a time, its likes are theirs and its words
\* the ones a moderator passed, for any readers, comments and edits
\* (get_article, set_article_like, set_article_status, update_article_draft).
THEOREM ArticlesStayTrue == ArticlesSpec => []ArticlesShowTheTruth
<1>1. ArticlesInv => ArticlesShowTheTruth
  BY DEF ArticlesInv
<1> QED
  BY <1>1, ArticlesInvHolds, PTL
-----------------------------------------------------------------------------
(* RouteDays.  What carries it: at every stop the day under way is as long   *)
(* as its stops ask, and the days closed before it are right for good.       *)

\* The natural numbers, in their order.
Below == {pair \in Nat \X Nat : pair[1] < pair[2]}

LEMMA BelowWellFounded == IsWellFoundedOn(Below, Nat)
BY NatLessThanWellFounded DEF OpToRel, Below

\* f goes through the values from 1 to n as next says of each.
Steps(f, n, start, next) ==
    \A i \in 1..n : f[i] = IF i = 1 THEN start ELSE next[<<i, f[i - 1]>>]

\* What is computed stop by stop can be computed for every number of stops.
LEMMA StepsExist ==
    ASSUME NEW n \in Nat, NEW V, NEW start \in V, NEW next \in [(2..n) \X V -> V]
    PROVE  \E f \in [1..n -> V] : Steps(f, n, start, next)
<1> DEFINE Reached(m) == \E f \in [1..m -> V] : Steps(f, m, start, next)
           Bad == {m \in 0..n : ~Reached(m)}
<1>1. ASSUME Bad # {} PROVE FALSE
  <2>1. PICK m \in Bad : \A other \in Bad : ~(<<other, m>> \in Below)
    <3>1. Bad \in SUBSET Nat
      OBVIOUS
    <3> HIDE DEF Bad
    <3> QED
      BY <1>1, <3>1, WFMin, BelowWellFounded
  <2>2. m \in 0..n /\ ~Reached(m)
    BY <2>1
  <2>3. m # 0
    <3>1. PICK f : f = [i \in 1..0 |-> start]
      OBVIOUS
    <3>2. f \in [1..0 -> V] /\ Steps(f, 0, start, next)
      BY <3>1 DEF Steps
    <3> QED
      BY <2>2, <3>2
  <2>4. m - 1 \in 0..n /\ m - 1 < m /\ m \in Nat /\ m - 1 \in Nat /\ m \in 1..n
    BY <2>2, <2>3
  <2>5. m - 1 \notin Bad
    BY <2>1, <2>4 DEF Below
  <2>6. PICK g \in [1..(m - 1) -> V] : Steps(g, m - 1, start, next)
    BY <2>4, <2>5
  <2>7. PICK new : new = IF m = 1 THEN start ELSE next[<<m, g[m - 1]>>]
    OBVIOUS
  <2>8. new \in V
    <3>1. CASE m = 1
      BY <2>7, <3>1
    <3>2. CASE m # 1
      <4>1. m - 1 \in 1..(m - 1) /\ m \in 2..n
        BY <2>4, <3>2
      <4>2. <<m, g[m - 1]>> \in (2..n) \X V
        BY <4>1
      <4> QED
        BY <2>7, <3>2, <4>2
    <3> QED
      BY <3>1, <3>2
  <2>9. PICK f : f = [i \in 1..m |-> IF i = m THEN new ELSE g[i]]
    OBVIOUS
  <2>10. /\ f \in [1..m -> V] /\ f[m] = new
         /\ \A i \in 1..(m - 1) : i # m /\ i \in 1..m /\ f[i] = g[i]
    <3>1. \A i \in 1..m : i # m => i \in 1..(m - 1)
      BY <2>4
    <3> QED
      BY <2>4, <2>8, <2>9, <3>1
  <2>11. Steps(f, m, start, next)
    <3> SUFFICES ASSUME NEW i \in 1..m
                 PROVE  f[i] = IF i = 1 THEN start ELSE next[<<i, f[i - 1]>>]
      BY DEF Steps
    <3>1. i # 1 => i - 1 \in 1..(m - 1)
      BY <2>4
    <3>2. CASE i = m
      BY <2>7, <2>10, <3>1, <3>2
    <3>3. CASE i # m
      <4>1. i \in 1..(m - 1)
        BY <2>4, <3>3
      <4>2. g[i] = IF i = 1 THEN start ELSE next[<<i, g[i - 1]>>]
        BY <2>6, <4>1 DEF Steps
      <4> QED
        BY <2>10, <3>1, <4>1, <4>2
    <3> QED
      BY <3>2, <3>3
  <2> QED
    BY <2>2, <2>10, <2>11
<1>2. n \in 0..n /\ n \notin Bad
  BY <1>1
<1> QED
  BY <1>2

-----------------------------------------------------------------------------
(* RouteDays: minutes.                                                       *)

SpotRow == [place: Spots, visit: Nat, mark: {"any", "dark", "dawn"}]
RouteTypes ==
    /\ stops \in Seq(SpotRow) /\ Len(stops) > 0
    /\ road \in [Pairs -> RoadMinutes]
    /\ norm \in Nat

LEMMA LargerOfInts ==
    ASSUME NEW a \in Int, NEW b \in Int
    PROVE  Max({a, b}) \in {a, b} /\ a <= Max({a, b}) /\ b <= Max({a, b})
<1>1. \E x \in {a, b} : \A y \in {a, b} : x >= y
  OBVIOUS
<1> QED
  BY <1>1 DEF Max

LEMMA SmallerOfInts ==
    ASSUME NEW a \in Int, NEW b \in Int
    PROVE  Min({a, b}) \in {a, b} /\ Min({a, b}) <= a /\ Min({a, b}) <= b
<1>1. \E x \in {a, b} : \A y \in {a, b} : x <= y
  OBVIOUS
<1> QED
  BY <1>1 DEF Min

LEMMA VisitTimeIs == ASSUME NEW s \in SpotRow PROVE VisitTime(s) \in Nat
<1>1. PICK visit \in Int : visit = (IF s.visit = 0 THEN 45 ELSE s.visit) /\ visit >= 0
  BY DEF SpotRow
<1>2. PICK five \in Int : five = 5
  OBVIOUS
<1>3. Max({five, visit}) \in {five, visit} /\ five <= Max({five, visit})
  BY LargerOfInts
<1>4. Max({five, visit}) \in Nat
  BY <1>1, <1>2, <1>3
<1> QED
  BY <1>1, <1>2, <1>4 DEF VisitTime

LEMMA PairIs ==
    ASSUME NEW a \in Spots, NEW b \in Spots, a # b
    PROVE  {a, b} \in Pairs
<1>1. IsFiniteSet({a}) /\ Cardinality({a}) = 1
  BY FS_Singleton
<1>2. b \notin {a} /\ {a} \cup {b} = {a, b}
  OBVIOUS
<1>3. Cardinality({a} \cup {b}) = Cardinality({a}) + 1
  BY <1>1, <1>2, FS_AddElement
<1>4. Cardinality({a, b}) = 2
  BY <1>1, <1>2, <1>3
<1> QED
  BY <1>4 DEF Pairs, kSubset

LEMMA LegIs ==
    ASSUME RouteTypes, NEW i \in 2..Len(stops)
    PROVE  LegTo(i, stops, road) \in Nat
<1>1. Len(stops) \in Nat /\ i - 1 \in 1..Len(stops) /\ i \in 1..Len(stops)
  BY DEF RouteTypes
<1>2. PICK a \in Spots : a = stops[i - 1].place
  <2>1. PICK row \in SpotRow : row = stops[i - 1]
    BY <1>1 DEF RouteTypes
  <2> QED
    BY <2>1 DEF SpotRow
<1>3. PICK b \in Spots : b = stops[i].place
  <2>1. PICK row \in SpotRow : row = stops[i]
    BY <1>1 DEF RouteTypes
  <2> QED
    BY <2>1 DEF SpotRow
<1>4. PICK way \in Nat : way = Apart(a, b, road)
  <2>1. CASE a = b
    BY <2>1 DEF Apart
  <2>2. CASE a # b
    <3>1. {a, b} \in Pairs
      BY <2>2, PairIs
    <3>2. road[{a, b}] \in Nat
      BY <3>1, DaysAssumption DEF RouteTypes
    <3> QED
      BY <2>2, <3>2 DEF Apart
  <2> QED
    BY <2>1, <2>2
<1>5. (way * 115 + 99) \div 100 \in Nat
  OBVIOUS
<1> QED
  BY <1>2, <1>3, <1>4, <1>5 DEF LegTo

LEMMA StepIs ==
    ASSUME RouteTypes, NEW i \in 2..Len(stops)
    PROVE  StepMinutes(i, stops, road) \in Nat /\ Minutes(i) = StepMinutes(i, stops, road)
<1>1. i \in 1..Len(stops) /\ i # 1
  BY DEF RouteTypes
<1>2. stops[i] \in SpotRow
  BY <1>1 DEF RouteTypes
<1>3. VisitTime(stops[i]) \in Nat /\ LegTo(i, stops, road) \in Nat
  BY <1>2, VisitTimeIs, LegIs
<1> QED
  BY <1>1, <1>3 DEF StepMinutes, Minutes

LEMMA MinutesAre ==
    ASSUME RouteTypes, NEW i \in 1..Len(stops)
    PROVE  Minutes(i) \in Nat
<1>1. CASE i = 1
  <2>1. stops[1] \in SpotRow
    BY <1>1 DEF RouteTypes
  <2> QED
    BY <1>1, <2>1, VisitTimeIs DEF Minutes
<1>2. CASE i # 1
  <2>1. i \in 2..Len(stops)
    BY <1>2 DEF RouteTypes
  <2> QED
    BY <2>1, StepIs
<1> QED
  BY <1>1, <1>2

\* The load of a day, stop by stop.
LEMMA WithoutMealIs ==
    ASSUME RouteTypes, NEW first \in 1..Len(stops)
    PROVE  /\ WithoutMeal(first, first) = Minutes(first)
           /\ \A i \in first..Len(stops) : WithoutMeal(first, i) \in Nat
           /\ \A i \in (first + 1)..Len(stops) :
                 WithoutMeal(first, i) = WithoutMeal(first, i - 1) + Minutes(i)
<1> DEFINE Right(f) == f = [i \in DOMAIN stops |->
                               IF i <= first THEN Minutes(first) ELSE f[i - 1] + Minutes(i)]
           sum == CHOOSE f : Right(f)
<1>1. PICK n \in Nat : n = Len(stops) /\ DOMAIN stops = 1..n
  BY DEF RouteTypes
<1>2. PICK load \in [1..n -> Nat] : \A i \in 1..n : load[i] = Minutes(i)
  <2>1. [i \in 1..n |-> Minutes(i)] \in [1..n -> Nat]
    BY <1>1, MinutesAre
  <2> QED
    BY <2>1
<1>3. \E f : Right(f)
  <2>1. PICK next : next = [p \in (2..n) \X Nat |->
                              IF p[1] <= first THEN load[first] ELSE p[2] + load[p[1]]]
    OBVIOUS
  <2>2. next \in [(2..n) \X Nat -> Nat]
    <3>1. \A p \in (2..n) \X Nat : p[1] \in 1..n /\ p[2] \in Nat /\ load[p[1]] \in Nat
      BY <1>2
    <3>2. load[first] \in Nat
      BY <1>1, <1>2
    <3> QED
      BY <2>1, <3>1, <3>2
  <2>3. load[first] \in Nat /\ first \in 1..n
    BY <1>1, <1>2
  <2>4. PICK f \in [1..n -> Nat] : Steps(f, n, load[first], next)
    BY <2>2, <2>3, StepsExist
  <2>5. \A i \in 1..n : f[i] = IF i <= first THEN Minutes(first) ELSE f[i - 1] + Minutes(i)
    <3> TAKE i \in 1..n
    <3>1. CASE i = 1
      <4>1. f[i] = load[first]
        BY <2>4, <3>1 DEF Steps
      <4>2. i <= first /\ load[first] = Minutes(first)
        BY <1>2, <2>3, <3>1
      <4> QED
        BY <4>1, <4>2
    <3>2. CASE i # 1
      <4>1. i \in 2..n /\ i - 1 \in 1..n /\ f[i - 1] \in Nat
        BY <3>2
      <4>2. next[<<i, f[i - 1]>>] = IF i <= first THEN load[first] ELSE f[i - 1] + load[i]
        BY <2>1, <4>1
      <4>3. f[i] = next[<<i, f[i - 1]>>]
        BY <2>4, <3>2 DEF Steps
      <4> QED
        BY <1>2, <2>3, <4>2, <4>3
    <3> QED
      BY <3>1, <3>2
  <2>6. f = [i \in DOMAIN stops |-> IF i <= first THEN Minutes(first) ELSE f[i - 1] + Minutes(i)]
    BY <1>1, <2>5
  <2> QED
    BY <2>6
<1>4. Right(sum)
  <2> HIDE DEF Right
  <2> QED
    BY <1>3
<1>5. \A i : WithoutMeal(first, i) = sum[i]
  BY DEF WithoutMeal
<1>6. \A i \in 1..n : sum[i] = IF i <= first THEN Minutes(first) ELSE sum[i - 1] + Minutes(i)
  <2> HIDE DEF sum
  <2> QED
    BY <1>1, <1>4
<1> HIDE DEF Right, sum
<1>7. sum[first] = Minutes(first) /\ Minutes(first) \in Nat
  BY <1>1, <1>6, MinutesAre
<1>8. \A i \in (first + 1)..n : sum[i] = sum[i - 1] + Minutes(i)
  BY <1>1, <1>6
<1>9. \A i \in first..n : sum[i] \in Nat
  <2> DEFINE Bad == {i \in first..n : sum[i] \notin Nat}
  <2>1. ASSUME Bad # {} PROVE FALSE
    <3>1. PICK i \in Bad : \A other \in Bad : ~(<<other, i>> \in Below)
      <4>1. Bad \in SUBSET Nat
        BY <1>1
      <4> HIDE DEF Bad
      <4> QED
        BY <2>1, <4>1, WFMin, BelowWellFounded
    <3>2. i \in first..n /\ sum[i] \notin Nat
      BY <3>1
    <3>3. i # first
      BY <1>7, <3>2
    <3>4. i \in (first + 1)..n /\ i - 1 \in first..n /\ i - 1 < i /\ i \in Nat /\ i - 1 \in Nat /\ i \in 1..n
      BY <1>1, <3>2, <3>3
    <3>5. sum[i - 1] \in Nat
      BY <3>1, <3>4 DEF Below
    <3>6. Minutes(i) \in Nat
      BY <1>1, <3>4, MinutesAre
    <3> QED
      BY <1>8, <3>2, <3>4, <3>5, <3>6
  <2> QED
    BY <2>1
<1> QED
  BY <1>1, <1>5, <1>7, <1>8, <1>9

\* The meal that a step brings into a day.
MealFor(was, step) == IF was <= FourHours /\ was + step > FourHours THEN MealMinutes ELSE 0

LEMMA DayMinutesAre ==
    ASSUME RouteTypes, NEW first \in 1..Len(stops)
    PROVE  /\ DayMinutes(first, first) = Minutes(first)
           /\ \A i \in first..Len(stops) : DayMinutes(first, i) \in Nat
           /\ \A i \in (first + 1)..Len(stops) :
                 DayMinutes(first, i) = DayMinutes(first, i - 1) + Minutes(i)
                                          + MealFor(DayMinutes(first, i - 1), Minutes(i))
<1> DEFINE Bare(i) == WithoutMeal(first, i)
<1>1. /\ Bare(first) = Minutes(first)
      /\ \A i \in first..Len(stops) : Bare(i) \in Nat
      /\ \A i \in (first + 1)..Len(stops) : Bare(i) = Bare(i - 1) + Minutes(i)
  BY WithoutMealIs
<1>2. \A i \in 1..Len(stops) : Minutes(i) \in Nat
  BY MinutesAre
<1>3. first \in Nat /\ Len(stops) \in Nat /\ first \in first..Len(stops)
  BY DEF RouteTypes
<1>4. \A i : DayMinutes(first, i) =
                Bare(i) + IF Minutes(first) <= FourHours /\ Bare(i) > FourHours THEN MealMinutes ELSE 0
  BY DEF DayMinutes
<1>5. \A i \in first..Len(stops) : Bare(i) >= Minutes(first)
  <2> DEFINE Bad == {i \in first..Len(stops) : ~(Bare(i) >= Minutes(first))}
  <2> HIDE DEF Bare
  <2>1. ASSUME Bad # {} PROVE FALSE
    <3>1. PICK i \in Bad : \A other \in Bad : ~(<<other, i>> \in Below)
      <4>1. Bad \in SUBSET Nat
        BY <1>3
      <4> HIDE DEF Bad
      <4> QED
        BY <2>1, <4>1, WFMin, BelowWellFounded
    <3>2. i \in first..Len(stops) /\ ~(Bare(i) >= Minutes(first))
      BY <3>1
    <3>3. i # first
      BY <1>1, <1>2, <3>2
    <3>4. /\ i \in (first + 1)..Len(stops) /\ i - 1 \in first..Len(stops) /\ i \in 1..Len(stops)
          /\ i - 1 < i /\ i \in Nat /\ i - 1 \in Nat
      BY <1>3, <3>2, <3>3
    <3>5. Bare(i - 1) >= Minutes(first)
      BY <3>1, <3>4 DEF Below
    <3>6. Bare(i) = Bare(i - 1) + Minutes(i) /\ Minutes(i) \in Nat /\ Bare(i - 1) \in Nat
          /\ Minutes(first) \in Nat
      BY <1>1, <1>2, <3>4
    <3> QED
      BY <3>2, <3>5, <3>6
  <2> QED
    BY <2>1
<1> HIDE DEF Bare
<1>6. DayMinutes(first, first) = Minutes(first)
  <2>1. PICK one \in Nat : one = Minutes(first)
    BY <1>2
  <2>2. ~(one <= FourHours /\ one > FourHours)
    BY DEF FourHours
  <2>3. DayMinutes(first, first)
        = one + IF one <= FourHours /\ one > FourHours THEN MealMinutes ELSE 0
    BY <1>1, <1>4, <2>1
  <2> QED
    BY <2>1, <2>2, <2>3
<1>7. \A i \in first..Len(stops) : DayMinutes(first, i) \in Nat
  BY <1>1, <1>4 DEF MealMinutes
<1>8. ASSUME NEW i \in (first + 1)..Len(stops), NEW was, was = DayMinutes(first, i - 1)
      PROVE  DayMinutes(first, i) = was + Minutes(i) + MealFor(was, Minutes(i))
  <2>1. i - 1 \in first..Len(stops) /\ i \in 1..Len(stops)
    BY <1>3
  <2>2. PICK bare \in Nat : bare = Bare(i - 1)
    BY <1>1, <2>1
  <2>3. PICK more \in Nat : more = Minutes(i)
    BY <1>2, <2>1
  <2>4. PICK one \in Nat : one = Minutes(first) /\ bare >= one
    BY <1>2, <1>5, <2>1, <2>2
  <2>5. Bare(i) = bare + more
    BY <1>1, <2>2, <2>3
  <2>6. was = bare + IF one <= FourHours /\ bare > FourHours THEN MealMinutes ELSE 0
    BY <1>4, <1>8, <2>2, <2>4
  <2>7. DayMinutes(first, i)
        = bare + more + IF one <= FourHours /\ bare + more > FourHours THEN MealMinutes ELSE 0
    BY <1>4, <2>4, <2>5
  <2> QED
    BY <2>3, <2>4, <2>6, <2>7 DEF FourHours, MealMinutes, MealFor
<1>9. \A i \in (first + 1)..Len(stops) :
         DayMinutes(first, i) = DayMinutes(first, i - 1) + Minutes(i)
                                  + MealFor(DayMinutes(first, i - 1), Minutes(i))
  BY <1>8
<1> QED
  BY <1>6, <1>7, <1>9

-----------------------------------------------------------------------------
(* RouteDays: the days.                                                      *)

DayRow == [first: Nat, last: Nat, overloaded: BOOLEAN]
WalkRow == [days: Seq(DayRow), first: Nat, used: Nat, overloaded: BOOLEAN]

\* What DaysFollowTheNorms says of one day.
LongLegIn(first, last) == \E i \in first..last : i > 1 /\ LegTo(i, stops, road) > norm
FullDay(first, last, overloaded) ==
    /\ first \in 1..last
    /\ \A i \in first..last - 1 : ~NightAfter(i)
    /\ RoomFor(first, last) \/ first = last \/ (first = 1 /\ last = 2)
    /\ overloaded <=> LongLegIn(first, last)
Closed(last, first) == NightAfter(last) \/ (~RoomFor(first, last + 1) /\ last > 1)

\* What it says of days that end before a stop.
DaysBefore(list, next) ==
    /\ list = <<>> => next = 1
    /\ list # <<>> => list[1].first = 1 /\ list[Len(list)].last + 1 = next
    /\ \A d \in 1..Len(list) :
          /\ FullDay(list[d].first, list[d].last, list[d].overloaded)
          /\ Closed(list[d].last, list[d].first)
          /\ d > 1 => list[d].first = list[d - 1].last + 1

WalkRight(w, i) ==
    /\ w \in WalkRow
    /\ DaysBefore(w.days, w.first)
    /\ w.days # <<>> => w.first > 1
    /\ FullDay(w.first, i, w.overloaded)
    /\ w.used = DayMinutes(w.first, i)

\* The next stop keeps the walk right.
LEMMA WalkRows ==
    ASSUME RouteTypes, NEW w \in WalkRow, NEW i \in 2..Len(stops)
    PROVE  NextStop(w, i, stops, road, norm) \in WalkRow
<1>1. PICK list \in Seq(DayRow), first \in Nat, used \in Nat, overloaded \in BOOLEAN :
         w = [days |-> list, first |-> first, used |-> used, overloaded |-> overloaded]
  <2>1. /\ w = [days |-> w.days, first |-> w.first, used |-> w.used, overloaded |-> w.overloaded]
        /\ w.days \in Seq(DayRow) /\ w.first \in Nat /\ w.used \in Nat /\ w.overloaded \in BOOLEAN
    BY DEF WalkRow
  <2> QED
    BY <2>1
<1>2. PICK step \in Nat : step = StepMinutes(i, stops, road)
  BY StepIs
<1>3. PICK meal \in Nat : meal = MealFor(used, step)
  BY DEF MealFor, MealMinutes
<1>4. PICK tooLong \in BOOLEAN : tooLong = (LegTo(i, stops, road) > norm)
  <2>1. (LegTo(i, stops, road) > norm) \in BOOLEAN
    BY LegIs DEF RouteTypes
  <2> QED
    BY <2>1
<1>5. PICK closed \in Seq(DayRow) : closed = Append(list, PlannedDay(first, i - 1, overloaded))
  <2>1. PlannedDay(first, i - 1, overloaded) \in DayRow
    BY DEF PlannedDay, DayRow
  <2> QED
    BY <2>1, AppendProperties
<1>6. \/ NextStop(w, i, stops, road, norm)
         = [days |-> closed, first |-> i, used |-> step, overloaded |-> tooLong]
      \/ NextStop(w, i, stops, road, norm)
         = [days |-> list, first |-> first, used |-> used + step + meal,
            overloaded |-> overloaded \/ tooLong]
  BY <1>1, <1>2, <1>3, <1>4, <1>5 DEF NextStop, MealFor
<1>7. i \in Nat /\ used + step + meal \in Nat /\ (overloaded \/ tooLong) \in BOOLEAN
  OBVIOUS
<1> QED
  BY <1>6, <1>7 DEF WalkRow

\* A day that is closed joins the days before it.
LEMMA DayIsClosed ==
    ASSUME NEW list \in Seq(DayRow), NEW first \in Nat, NEW last \in Nat, NEW overloaded \in BOOLEAN,
           DaysBefore(list, first), FullDay(first, last, overloaded), Closed(last, first),
           NEW next, next = last + 1
    PROVE  /\ Append(list, PlannedDay(first, last, overloaded)) \in Seq(DayRow)
           /\ DaysBefore(Append(list, PlannedDay(first, last, overloaded)), next)
<1>1. PICK day \in DayRow : day = PlannedDay(first, last, overloaded)
                            /\ day.first = first /\ day.last = last /\ day.overloaded = overloaded
  <2>1. PlannedDay(first, last, overloaded) \in DayRow
    BY DEF PlannedDay, DayRow
  <2> QED
    BY <2>1 DEF PlannedDay
<1>2. PICK longer : longer = Append(list, day)
  OBVIOUS
<1>3. PICK n \in Nat : n = Len(list)
  OBVIOUS
<1>4. /\ longer \in Seq(DayRow) /\ Len(longer) = n + 1 /\ longer # <<>>
      /\ longer[n + 1] = day /\ \A d \in 1..n : longer[d] = list[d]
  BY <1>2, <1>3, AppendProperties
<1>5. list = <<>> <=> n = 0
  BY <1>3, EmptySeq
<1>6. longer[1].first = 1
  <2>1. CASE n = 0
    BY <1>1, <1>4, <1>5, <2>1 DEF DaysBefore
  <2>2. CASE n # 0
    <3>1. 1 \in 1..n
      BY <2>2
    <3> QED
      BY <1>4, <1>5, <2>2, <3>1 DEF DaysBefore
  <2> QED
    BY <2>1, <2>2
<1>7. longer[Len(longer)].last + 1 = next
  BY <1>1, <1>4
<1>8. ASSUME NEW d \in 1..Len(longer)
      PROVE  /\ FullDay(longer[d].first, longer[d].last, longer[d].overloaded)
             /\ Closed(longer[d].last, longer[d].first)
             /\ d > 1 => longer[d].first = longer[d - 1].last + 1
  <2>1. CASE d = n + 1
    <3>1. longer[d].first = first /\ longer[d].last = last /\ longer[d].overloaded = overloaded
      BY <1>1, <1>4, <2>1
    <3>2. d > 1 => longer[d - 1] = list[n] /\ n # 0
      BY <1>4, <2>1
    <3>3. n # 0 => first = list[n].last + 1
      BY <1>3, <1>5 DEF DaysBefore
    <3> QED
      BY <3>1, <3>2, <3>3
  <2>2. CASE d # n + 1
    <3>1. d \in 1..n /\ longer[d] = list[d] /\ (d > 1 => longer[d - 1] = list[d - 1])
      BY <1>4, <2>2
    <3> QED
      BY <1>3, <3>1 DEF DaysBefore
  <2> QED
    BY <2>1, <2>2
<1>9. DaysBefore(longer, next)
  BY <1>4, <1>6, <1>7, <1>8 DEF DaysBefore
<1> QED
  BY <1>1, <1>2, <1>4, <1>9

LEMMA WalkStep ==
    ASSUME RouteTypes, NEW i \in 2..Len(stops), NEW w, WalkRight(w, i - 1)
    PROVE  WalkRight(NextStop(w, i, stops, road, norm), i)
<1>1. PICK list \in Seq(DayRow), first \in Nat, used \in Nat, overloaded \in BOOLEAN :
         w = [days |-> list, first |-> first, used |-> used, overloaded |-> overloaded]
  <2>1. /\ w = [days |-> w.days, first |-> w.first, used |-> w.used, overloaded |-> w.overloaded]
        /\ w.days \in Seq(DayRow) /\ w.first \in Nat /\ w.used \in Nat /\ w.overloaded \in BOOLEAN
    BY DEF WalkRight, WalkRow
  <2> QED
    BY <2>1
<1>2. /\ DaysBefore(list, first) /\ (list # <<>> => first > 1)
      /\ FullDay(first, i - 1, overloaded) /\ used = DayMinutes(first, i - 1)
  BY <1>1 DEF WalkRight
<1>3. /\ i \in Nat /\ i - 1 \in Nat /\ i \in 1..Len(stops) /\ i - 1 \in 1..Len(stops) /\ i > 1
      /\ first \in 1..(i - 1) /\ first \in 1..Len(stops) /\ i \in (first + 1)..Len(stops)
  <2>1. first \in 1..(i - 1)
    BY <1>2 DEF FullDay
  <2> QED
    BY <2>1 DEF RouteTypes
<1>4. PICK step \in Nat : step = StepMinutes(i, stops, road) /\ step = Minutes(i)
  BY StepIs
<1>5. PICK meal \in Nat : meal = MealFor(used, step)
  BY DEF MealFor, MealMinutes
<1>6. PICK tooLong \in BOOLEAN : tooLong = (LegTo(i, stops, road) > norm)
  <2>1. (LegTo(i, stops, road) > norm) \in BOOLEAN
    BY LegIs DEF RouteTypes
  <2> QED
    BY <2>1
<1>7. used + step + meal = DayMinutes(first, i) /\ step = DayMinutes(i, i)
  BY <1>2, <1>3, <1>4, <1>5, DayMinutesAre
<1>8. RoomFor(first, i) <=> ~(10 * (used + step + meal) > 13 * norm)
  BY <1>7 DEF RoomFor, RouteTypes
<1>9. NightAfter(i - 1) <=> stops[i].mark = "dawn" \/ stops[i - 1].mark = "dark"
  <2>1. i - 1 + 1 = i
    BY <1>3
  <2> QED
    BY <2>1 DEF NightAfter
<1>10. LoneStart(w, i) <=> first = 1 /\ i = 2
  <2>1. LoneStart(w, i) <=> list = <<>> /\ first = i - 1
    BY <1>1 DEF LoneStart
  <2>2. list = <<>> => first = 1
    BY <1>2 DEF DaysBefore
  <2> QED
    BY <1>2, <1>3, <2>1, <2>2
<1>11. PICK must : must <=> NightAfter(i - 1) \/ (~RoomFor(first, i) /\ ~(first = 1 /\ i = 2))
  OBVIOUS
<1>12. NextStop(w, i, stops, road, norm)
       = IF must THEN [days |-> Append(list, PlannedDay(first, i - 1, overloaded)),
                       first |-> i, used |-> step, overloaded |-> tooLong]
         ELSE [days |-> list, first |-> first, used |-> used + step + meal,
               overloaded |-> overloaded \/ tooLong]
  <2>1. must <=> \/ stops[i].mark = "dawn" \/ stops[i - 1].mark = "dark"
                 \/ 10 * (used + step + meal) > 13 * norm /\ ~LoneStart(w, i)
    BY <1>8, <1>9, <1>10, <1>11
  <2>2. w.days = list /\ w.first = first /\ w.used = used /\ w.overloaded = overloaded
    BY <1>1
  <2>3. [w EXCEPT !.used = used + step + meal, !.overloaded = overloaded \/ tooLong]
        = [days |-> list, first |-> first, used |-> used + step + meal,
           overloaded |-> overloaded \/ tooLong]
    <3>1. PICK longer \in Nat : longer = used + step + meal
      OBVIOUS
    <3>2. PICK over \in BOOLEAN : over = (overloaded \/ tooLong)
      OBVIOUS
    <3>3. PICK next : next = [w EXCEPT !.used = longer, !.overloaded = over]
      OBVIOUS
    <3>4. w \in [days: {list}, first: {first}, used: Nat, overloaded: BOOLEAN]
      BY <1>1
    <3>5. next \in [days: {list}, first: {first}, used: {longer}, overloaded: {over}]
      BY <3>3, <3>4
    <3>6. next = [days |-> list, first |-> first, used |-> longer, overloaded |-> over]
      BY <3>5
    <3> QED
      BY <3>1, <3>2, <3>3, <3>6
  <2>4. NextStop(w, i, stops, road, norm)
        = IF must THEN [days |-> Append(list, PlannedDay(first, i - 1, overloaded)),
                        first |-> i, used |-> step, overloaded |-> tooLong]
          ELSE [w EXCEPT !.used = used + step + meal, !.overloaded = overloaded \/ tooLong]
    <3>1. PICK eaten : eaten = IF used <= FourHours /\ used + step > FourHours THEN MealMinutes ELSE 0
      OBVIOUS
    <3>2. eaten = meal
      BY <1>5, <3>1 DEF MealFor
    <3>3. NextStop(w, i, stops, road, norm)
          = IF \/ stops[i].mark = "dawn" \/ stops[i - 1].mark = "dark"
               \/ 10 * (used + step + eaten) > 13 * norm /\ ~LoneStart(w, i)
            THEN [days |-> Append(list, PlannedDay(first, i - 1, overloaded)),
                  first |-> i, used |-> step, overloaded |-> LegTo(i, stops, road) > norm]
            ELSE [w EXCEPT !.used = used + step + eaten,
                           !.overloaded = overloaded \/ LegTo(i, stops, road) > norm]
      BY <1>4, <2>2, <3>1 DEF NextStop
    <3> QED
      BY <1>6, <2>1, <3>2, <3>3
  <2> QED
    BY <2>3, <2>4
<1>13. NextStop(w, i, stops, road, norm) \in WalkRow
  BY WalkRows DEF WalkRight
<1>14. CASE must
  <2>1. PICK longer : longer = Append(list, PlannedDay(first, i - 1, overloaded))
    OBVIOUS
  <2>2. Closed(i - 1, first)
    <3>1. i - 1 + 1 = i /\ (~(first = 1 /\ i = 2) => i - 1 > 1)
      BY <1>3
    <3> QED
      BY <1>11, <1>14, <3>1 DEF Closed
  <2>3. DaysBefore(longer, i)
    <3>1. i = i - 1 + 1
      BY <1>3
    <3> QED
      BY <1>2, <1>3, <2>1, <2>2, <3>1, DayIsClosed
  <2>4. FullDay(i, i, tooLong)
    <3>1. i \in 1..i /\ i..(i - 1) = {} /\ i..i = {i}
      BY <1>3
    <3>2. LongLegIn(i, i) <=> LegTo(i, stops, road) > norm
      BY <1>3, <3>1 DEF LongLegIn
    <3> QED
      BY <1>6, <3>1, <3>2 DEF FullDay
  <2>5. NextStop(w, i, stops, road, norm)
        = [days |-> longer, first |-> i, used |-> step, overloaded |-> tooLong]
    BY <1>12, <1>14, <2>1
  <2> QED
    BY <1>3, <1>7, <1>13, <2>3, <2>4, <2>5 DEF WalkRight
<1>15. CASE ~must
  <2>1. ~NightAfter(i - 1) /\ (RoomFor(first, i) \/ (first = 1 /\ i = 2))
    BY <1>11, <1>15
  <2>2. first \in 1..i /\ \A j \in first..(i - 1) : ~NightAfter(j)
    <3>1. \A j \in first..(i - 1) : j = i - 1 \/ j \in first..(i - 1 - 1)
      BY <1>3
    <3> QED
      BY <1>2, <1>3, <2>1, <3>1 DEF FullDay
  <2>3. LongLegIn(first, i) <=> overloaded \/ tooLong
    <3>1. \A j \in first..i : j = i \/ j \in first..(i - 1)
      BY <1>3
    <3>2. i \in first..i /\ \A j \in first..(i - 1) : j \in first..i
      BY <1>3
    <3>3. overloaded <=> LongLegIn(first, i - 1)
      BY <1>2 DEF FullDay
    <3> QED
      BY <1>3, <1>6, <3>1, <3>2, <3>3 DEF LongLegIn
  <2>4. FullDay(first, i, overloaded \/ tooLong)
    BY <2>1, <2>2, <2>3 DEF FullDay
  <2>5. NextStop(w, i, stops, road, norm)
        = [days |-> list, first |-> first, used |-> used + step + meal,
           overloaded |-> overloaded \/ tooLong]
    BY <1>12, <1>15
  <2> QED
    BY <1>2, <1>7, <1>13, <2>4, <2>5 DEF WalkRight
<1> QED
  BY <1>14, <1>15

LEMMA WalkBegins == ASSUME RouteTypes PROVE WalkRight(FirstStop(stops), 1)
<1>1. 1 \in 1..Len(stops) /\ 1..1 = {1} /\ 1..(1 - 1) = {} /\ 1 \in 1..1
  BY DEF RouteTypes
<1>2. PICK used \in Nat : used = VisitTime(stops[1]) /\ used = Minutes(1)
  BY <1>1, MinutesAre DEF Minutes
<1>3. used = DayMinutes(1, 1)
  BY <1>1, <1>2, DayMinutesAre
<1>4. FirstStop(stops) = [days |-> <<>>, first |-> 1, used |-> used, overloaded |-> FALSE]
  BY <1>2 DEF FirstStop
<1>5. FirstStop(stops) \in WalkRow
  BY <1>4, EmptySeq DEF WalkRow
<1>6. FullDay(1, 1, FALSE)
  BY <1>1 DEF FullDay, LongLegIn
<1>7. DaysBefore(<<>>, 1)
  BY DEF DaysBefore
<1>8. PICK w : w = FirstStop(stops)
  OBVIOUS
<1>9. w \in WalkRow /\ w.days = <<>> /\ w.first = 1 /\ w.used = used /\ w.overloaded = FALSE
  BY <1>4, <1>5, <1>8
<1>10. WalkRight(w, 1)
  BY <1>3, <1>6, <1>7, <1>9 DEF WalkRight
<1> QED
  BY <1>8, <1>10

\* At the last stop the walk is right, whatever the stops, roads and norm.
LEMMA WalkEnds ==
    ASSUME RouteTypes
    PROVE  \E w : /\ WalkRight(w, Len(stops))
                  /\ SplitDays(stops, road, norm)
                     = Append(w.days, PlannedDay(w.first, Len(stops), w.overloaded))
<1> DEFINE Right(f) == f = [i \in 1..Len(stops) |->
                               IF i = 1 THEN FirstStop(stops)
                               ELSE NextStop(f[i - 1], i, stops, road, norm)]
           walk == CHOOSE f : Right(f)
<1>1. PICK n \in Nat : n = Len(stops) /\ n > 0
  BY DEF RouteTypes
<1>2. FirstStop(stops) \in WalkRow
  BY WalkBegins DEF WalkRight
<1>3. \E f : Right(f)
  <2>1. PICK next : next = [p \in (2..n) \X WalkRow |-> NextStop(p[2], p[1], stops, road, norm)]
    OBVIOUS
  <2>2. next \in [(2..n) \X WalkRow -> WalkRow]
    <3>1. \A p \in (2..n) \X WalkRow : p[1] \in 2..Len(stops) /\ p[2] \in WalkRow
      BY <1>1
    <3>2. \A p \in (2..n) \X WalkRow : NextStop(p[2], p[1], stops, road, norm) \in WalkRow
      BY <3>1, WalkRows
    <3> QED
      BY <2>1, <3>2
  <2>3. PICK f \in [1..n -> WalkRow] : Steps(f, n, FirstStop(stops), next)
    BY <1>2, <2>2, StepsExist
  <2>4. ASSUME NEW i \in 1..n
        PROVE  f[i] = IF i = 1 THEN FirstStop(stops) ELSE NextStop(f[i - 1], i, stops, road, norm)
    <3>1. i # 1 => i \in 2..n /\ i - 1 \in 1..n
      OBVIOUS
    <3>2. i # 1 => <<i, f[i - 1]>> \in (2..n) \X WalkRow
      BY <3>1
    <3>3. i # 1 => next[<<i, f[i - 1]>>] = NextStop(f[i - 1], i, stops, road, norm)
      BY <2>1, <3>2
    <3> QED
      BY <2>3, <3>3 DEF Steps
  <2>5. Right(f)
    BY <1>1, <2>3, <2>4
  <2> QED
    BY <2>5
<1>4. Right(walk)
  <2> HIDE DEF Right
  <2> QED
    BY <1>3
<1>5. SplitDays(stops, road, norm)
      = Append(walk[Len(stops)].days, PlannedDay(walk[Len(stops)].first, Len(stops), walk[Len(stops)].overloaded))
  BY DEF SplitDays
<1>6. \A i \in 1..n : walk[i] = IF i = 1 THEN FirstStop(stops)
                                ELSE NextStop(walk[i - 1], i, stops, road, norm)
  <2> HIDE DEF walk
  <2> QED
    BY <1>1, <1>4
<1> HIDE DEF Right, walk
<1>7. WalkRight(walk[n], n)
  <2> DEFINE Bad == {i \in 1..n : ~WalkRight(walk[i], i)}
  <2>1. ASSUME Bad # {} PROVE FALSE
    <3>1. PICK i \in Bad : \A other \in Bad : ~(<<other, i>> \in Below)
      <4>1. Bad \in SUBSET Nat
        OBVIOUS
      <4> HIDE DEF Bad
      <4> QED
        BY <2>1, <4>1, WFMin, BelowWellFounded
    <3>2. i \in 1..n /\ ~WalkRight(walk[i], i)
      BY <3>1
    <3>3. i # 1
      BY <1>6, <3>2, WalkBegins
    <3>4. i \in 2..n /\ i - 1 \in 1..n /\ i - 1 < i /\ i \in Nat /\ i - 1 \in Nat
      BY <3>2, <3>3
    <3>5. i - 1 \notin Bad
      BY <3>1, <3>4 DEF Below
    <3>6. WalkRight(walk[i - 1], i - 1)
      BY <3>4, <3>5
    <3>7. walk[i] = NextStop(walk[i - 1], i, stops, road, norm)
      BY <1>6, <3>2, <3>3
    <3>8. WalkRight(walk[i], i)
      <4>1. i \in 2..Len(stops)
        BY <1>1, <3>4
      <4> QED
        BY <3>6, <3>7, <4>1, WalkStep
    <3> QED
      BY <3>2, <3>8
  <2>2. n \in 1..n /\ n \notin Bad
    BY <1>1, <2>1
  <2> QED
    BY <2>2
<1> QED
  BY <1>1, <1>5, <1>7

\* What the norms say of days, in one piece.
LEMMA SplitDaysAreRight ==
    ASSUME RouteTypes, days = SplitDays(stops, road, norm)
    PROVE  DaysFollowTheNorms
<1>1. PICK w : /\ WalkRight(w, Len(stops))
               /\ days = Append(w.days, PlannedDay(w.first, Len(stops), w.overloaded))
  BY WalkEnds
<1>2. PICK list \in Seq(DayRow) : list = w.days
  BY <1>1 DEF WalkRight, WalkRow
<1>3. PICK day \in DayRow : /\ day = PlannedDay(w.first, Len(stops), w.overloaded)
                            /\ day.first = w.first /\ day.last = Len(stops)
                            /\ day.overloaded = w.overloaded
  <2>1. Len(stops) \in Nat /\ w.first \in Nat /\ w.overloaded \in BOOLEAN
    BY <1>1 DEF WalkRight, WalkRow, RouteTypes
  <2>2. PlannedDay(w.first, Len(stops), w.overloaded) \in DayRow
    BY <2>1 DEF PlannedDay, DayRow
  <2> QED
    BY <2>2 DEF PlannedDay
<1>4. PICK n \in Nat : n = Len(list)
  OBVIOUS
<1>5. /\ Len(days) = n + 1 /\ DOMAIN days = 1..(n + 1) /\ days[n + 1] = day
      /\ \A d \in 1..n : days[d] = list[d]
  BY <1>1, <1>2, <1>3, <1>4, AppendProperties
<1>6. list = <<>> <=> n = 0
  BY <1>4, EmptySeq
<1>7. DaysBefore(list, day.first) /\ FullDay(day.first, day.last, day.overloaded)
  BY <1>1, <1>2, <1>3 DEF WalkRight
<1>8. days[1].first = 1
  <2>1. CASE n = 0
    BY <1>5, <1>6, <1>7, <2>1 DEF DaysBefore
  <2>2. CASE n # 0
    <3>1. 1 \in 1..n
      BY <2>2
    <3> QED
      BY <1>5, <1>6, <1>7, <2>2, <3>1 DEF DaysBefore
  <2> QED
    BY <2>1, <2>2
<1>9. days[Len(days)].last = Len(stops)
  BY <1>3, <1>5
<1>10. ASSUME NEW d \in 1..(n + 1)
       PROVE  /\ FullDay(days[d].first, days[d].last, days[d].overloaded)
              /\ d > 1 => days[d].first = days[d - 1].last + 1
              /\ d < n + 1 => Closed(days[d].last, days[d].first)
  <2>1. CASE d = n + 1
    <3>1. d > 1 => days[d - 1] = list[n] /\ n # 0
      BY <1>5, <2>1
    <3>2. n # 0 => day.first = list[n].last + 1
      BY <1>4, <1>6, <1>7 DEF DaysBefore
    <3> QED
      BY <1>5, <1>7, <2>1, <3>1, <3>2
  <2>2. CASE d # n + 1
    <3>1. d \in 1..n /\ days[d] = list[d] /\ (d > 1 => days[d - 1] = list[d - 1])
      BY <1>5, <2>2
    <3> QED
      BY <1>4, <1>7, <3>1 DEF DaysBefore
  <2> QED
    BY <2>1, <2>2
<1>11. ASSUME NEW d \in DOMAIN days, NEW first, first = days[d].first, NEW last, last = days[d].last
       PROVE  /\ first <= last
              /\ d > 1 => first = days[d - 1].last + 1
              /\ d < Len(days) => \/ NightAfter(last)
                                  \/ ~RoomFor(first, last + 1) /\ last > 1
              /\ \A i \in first..last - 1 : ~NightAfter(i)
              /\ RoomFor(first, last) \/ first = last \/ (first = 1 /\ last = 2)
              /\ days[d].overloaded <=> \E i \in first..last : i > 1 /\ LegTo(i, stops, road) > norm
  <2>1. d \in 1..(n + 1) /\ Len(days) = n + 1
    BY <1>5
  <2>2. FullDay(first, last, days[d].overloaded) /\ (d < n + 1 => Closed(last, first))
        /\ (d > 1 => first = days[d - 1].last + 1)
    BY <1>10, <1>11, <2>1
  <2>3. first <= last
    BY <2>2 DEF FullDay
  <2> QED
    BY <2>1, <2>2, <2>3 DEF FullDay, Closed, LongLegIn
<1> QED
  BY <1>8, <1>9, <1>11 DEF DaysFollowTheNorms

-----------------------------------------------------------------------------
(* RouteDays: every request that changes the route derives its days anew.    *)

RouteDaysInv ==
    /\ RouteTypes
    /\ byHand \in BOOLEAN
    /\ ~byHand => days = SplitDays(stops, road, norm)

LEMMA DayNormIs == ASSUME NEW trip \in Trips PROVE DayNorm(trip) \in Nat
<1>1. trip.daylight \in Nat /\ trip.driven \in BOOLEAN /\ trip.children \in BOOLEAN
  BY DaysAssumption
<1>2. PICK paced \in Nat :
         paced = CASE trip.driven -> 480 [] trip.pace = "calm" -> 300
                   [] trip.pace = "active" -> 480 [] OTHER -> 360
  OBVIOUS
<1>3. PICK usual \in Nat : usual = IF trip.children THEN (paced * 8) \div 10 ELSE paced
  <2>1. (paced * 8) \div 10 \in Nat
    OBVIOUS
  <2> QED
    BY <2>1
<1>4. PICK light \in Int : light = trip.daylight - 120
  BY <1>1
<1>5. PICK least \in Int : least = 6 * 60
  OBVIOUS
<1>6. PICK most \in Int : most = 14 * 60
  OBVIOUS
<1>7. PICK bright \in Nat : bright = Max({least, light})
  <2>1. Max({least, light}) \in {least, light} /\ least <= Max({least, light})
    BY LargerOfInts
  <2>2. Max({least, light}) \in Nat
    BY <1>5, <2>1
  <2> QED
    BY <2>2
<1>8. PICK window \in Nat : window = Min({most, bright})
  <2>1. bright \in Int
    OBVIOUS
  <2>2. Min({most, bright}) \in {most, bright}
    BY <2>1, SmallerOfInts
  <2>3. Min({most, bright}) \in Nat
    BY <1>6, <2>2
  <2> QED
    BY <2>3
<1>9. Min({usual, window}) \in Nat
  <2>1. usual \in Int /\ window \in Int
    OBVIOUS
  <2>2. Min({usual, window}) \in {usual, window}
    BY <2>1, SmallerOfInts
  <2> QED
    BY <2>2
<1>10. DayNorm(trip) = Min({usual, window})
  BY <1>2, <1>3, <1>4, <1>5, <1>6, <1>7, <1>8 DEF DayNorm
<1> QED
  BY <1>9, <1>10

\* The stops that a request brings are rows.
LEMMA ItinerariesAre ==
    ASSUME NEW places \in Itineraries
    PROVE  /\ Plain(places) \in Seq(SpotRow) /\ Len(Plain(places)) > 0
           /\ Generated(places) \in Seq(SpotRow) /\ Len(Generated(places)) > 0
<1>1. PICK n \in 2..MaxStops : places \in [1..n -> Spots]
  BY DEF Itineraries
<1>2. n \in Nat /\ n > 0
  BY <1>1, DaysAssumption
<1>3. Plain(places) \in [1..n -> SpotRow]
  BY <1>1 DEF Plain, SpotRow
<1>4. Generated(places) \in [1..n -> SpotRow]
  <2>1. ASSUME NEW i \in 1..n
        PROVE  [Plain(places)[i] EXCEPT !.visit = VisitMinutes[places[i]]] \in SpotRow
    <3>1. PICK row \in SpotRow : row = Plain(places)[i]
      BY <1>3
    <3>2. PICK minutes \in Nat : minutes = VisitMinutes[places[i]]
      BY <1>1, DaysAssumption
    <3>3. [row EXCEPT !.visit = minutes] \in SpotRow
      BY DEF SpotRow
    <3> QED
      BY <3>1, <3>2, <3>3
  <2> QED
    BY <1>1, <2>1 DEF Generated
<1>5. \A f \in [1..n -> SpotRow] : f \in Seq(SpotRow) /\ Len(f) = n
  BY <1>2
<1> QED
  BY <1>2, <1>3, <1>4, <1>5

LEMMA DaysBegin == DaysInit => RouteDaysInv
<1> SUFFICES ASSUME DaysInit PROVE RouteDaysInv
  OBVIOUS
<1>1. PICK places \in Itineraries : stops \in {Plain(places), Generated(places)}
  BY DEF DaysInit
<1>2. stops \in Seq(SpotRow) /\ Len(stops) > 0
  BY <1>1, ItinerariesAre
<1>3. norm \in Nat
  BY DayNormIs DEF DaysInit
<1> QED
  BY <1>2, <1>3 DEF DaysInit, RouteDaysInv, RouteTypes

LEMMA RouteIsSaved ==
    ASSUME RouteDaysInv, NEW places \in Itineraries, NEW trip \in Trips,
           NEW hand \in BOOLEAN, NEW ends, SaveRoute(places, trip, hand, ends)
    PROVE  RouteDaysInv'
<1>1. stops' \in Seq(SpotRow) /\ Len(stops') > 0
  BY ItinerariesAre DEF SaveRoute
<1>2. norm' \in Nat /\ road' = road /\ byHand' = hand
  BY DayNormIs DEF SaveRoute
<1>3. ~hand => days' = SplitDays(stops', road', norm')
  BY DEF SaveRoute, Derived
<1> QED
  BY <1>1, <1>2, <1>3 DEF RouteDaysInv, RouteTypes

LEMMA DaysStep == RouteDaysInv /\ [DaysNext]_daysVars => RouteDaysInv'
<1> SUFFICES ASSUME RouteDaysInv, [DaysNext]_daysVars PROVE RouteDaysInv'
  OBVIOUS
<1>1. ASSUME NEW places \in Itineraries, NEW trip \in Trips, SaveStops(places, trip)
      PROVE  RouteDaysInv'
  BY <1>1, RouteIsSaved DEF SaveStops, RouteDaysInv
<1>2. ASSUME NEW places \in Itineraries, NEW trip \in Trips, NEW ends, SaveWithBreaks(places, trip, ends)
      PROVE  RouteDaysInv'
  <2>1. PICK hand \in BOOLEAN : hand = (ends # <<>>)
    OBVIOUS
  <2> QED
    BY <1>2, <2>1, RouteIsSaved DEF SaveWithBreaks
<1>3. ASSUME NEW chosen, EndDaysAfter(chosen) PROVE RouteDaysInv'
  BY <1>3 DEF EndDaysAfter, RouteDaysInv, RouteTypes
<1>4. ASSUME NEW ticked, EditorEndsDays(ticked) PROVE RouteDaysInv'
  <2>1. byHand' \in BOOLEAN /\ UNCHANGED <<stops, road, norm>>
    BY <1>4 DEF EditorEndsDays
  <2>2. ~byHand' => days' = SplitDays(stops, road, norm)
    BY <1>4 DEF EditorEndsDays, Derived
  <2> QED
    BY <2>1, <2>2 DEF RouteDaysInv, RouteTypes
<1>5. ASSUME NEW i \in DOMAIN stops, NEW mark \in {"any", "dark", "dawn"}, MarkTime(i, mark)
      PROVE  RouteDaysInv'
  <2>1. stops \in Seq(SpotRow) /\ i \in 1..Len(stops) /\ Len(stops) > 0
    BY DEF RouteDaysInv, RouteTypes
  <2>2. PICK row : row = [stops[i] EXCEPT !.mark = mark]
    OBVIOUS
  <2>3. row \in SpotRow
    <3>1. PICK old \in SpotRow : old = stops[i]
      BY <2>1
    <3> QED
      BY <2>2, <3>1 DEF SpotRow
  <2>4. stops' = [stops EXCEPT ![i] = row]
    BY <1>5, <2>2 DEF MarkTime
  <2>5. stops' \in Seq(SpotRow) /\ Len(stops') > 0
    BY <2>1, <2>3, <2>4
  <2>6. UNCHANGED <<road, norm, byHand>> /\ (~byHand => days' = SplitDays(stops', road, norm))
    BY <1>5 DEF MarkTime, Derived
  <2> QED
    BY <2>5, <2>6 DEF RouteDaysInv, RouteTypes
<1>6. ASSUME NEW pair \in Pairs, NEW minutes \in RoadMinutes, Reroute(pair, minutes)
      PROVE  RouteDaysInv'
  <2>1. road' \in [Pairs -> RoadMinutes]
    BY <1>6 DEF Reroute, RouteDaysInv, RouteTypes
  <2>2. UNCHANGED <<stops, norm, byHand>> /\ (~byHand => days' = SplitDays(stops, road', norm))
    BY <1>6 DEF Reroute, Derived
  <2> QED
    BY <2>1, <2>2 DEF RouteDaysInv, RouteTypes
<1>7. CASE SplitAgain
  BY <1>7 DEF SplitAgain, RouteDaysInv, RouteTypes
<1>8. CASE UNCHANGED daysVars
  BY <1>8 DEF daysVars, RouteDaysInv, RouteTypes
<1> QED
  BY <1>1, <1>2, <1>3, <1>4, <1>5, <1>6, <1>7, <1>8 DEF DaysNext

LEMMA RouteDaysInvHolds == DaysSpec => []RouteDaysInv
BY DaysBegin, DaysStep, PTL DEF DaysSpec

\* After every request that changes it, a route whose days nobody ended by
\* hand has the days its norms ask for (split_days): each stop once and in
\* order, a night only where one is asked for or there is no room left, no
\* day too long and every long leg marked; for any stops, roads and norms.
THEOREM DaysStayAsTheNormsAsk == DaysSpec => []DaysFollowTheNorms
<1>1. RouteDaysInv => DaysFollowTheNorms
  <2>1. ASSUME RouteDaysInv, byHand PROVE DaysFollowTheNorms
    BY <2>1 DEF DaysFollowTheNorms
  <2>2. ASSUME RouteDaysInv, ~byHand PROVE DaysFollowTheNorms
    BY <2>2, SplitDaysAreRight DEF RouteDaysInv
  <2> QED
    BY <2>1, <2>2
<1> QED
  BY <1>1, RouteDaysInvHolds, PTL

-----------------------------------------------------------------------------
(* RouteDays: types of what is computed stop by stop.                        *)

\* So with what begins before the first stop.
StepsFrom0(f, n, start, next) ==
    \A i \in 0..n : f[i] = IF i = 0 THEN start ELSE next[<<i, f[i - 1]>>]

LEMMA StepsFromZero ==
    ASSUME NEW n \in Nat, NEW V, NEW start \in V, NEW next \in [(1..n) \X V -> V]
    PROVE  \E f \in [0..n -> V] : StepsFrom0(f, n, start, next)
<1>0. PICK m \in Nat : m = n + 1
  OBVIOUS
<1>1. PICK later : later = [p \in (2..m) \X V |-> next[<<p[1] - 1, p[2]>>]]
  OBVIOUS
<1>2. later \in [(2..m) \X V -> V]
  <2>1. \A p \in (2..m) \X V : <<p[1] - 1, p[2]>> \in (1..n) \X V
    BY <1>0
  <2> QED
    BY <1>1, <2>1
<1>3. PICK g \in [1..m -> V] : Steps(g, m, start, later)
  BY <1>2, StepsExist
<1>4. PICK f : f = [i \in 0..n |-> g[i + 1]]
  OBVIOUS
<1>5. f \in [0..n -> V]
  BY <1>0, <1>3, <1>4
<1>6. ASSUME NEW i \in 0..n PROVE f[i] = IF i = 0 THEN start ELSE next[<<i, f[i - 1]>>]
  <2>1. i + 1 \in 1..m /\ i + 1 - 1 = i /\ f[i] = g[i + 1]
    BY <1>0, <1>4
  <2>2. g[i + 1] = IF i + 1 = 1 THEN start ELSE later[<<i + 1, g[i]>>]
    BY <1>3, <2>1 DEF Steps
  <2>3. CASE i = 0
    BY <2>1, <2>2, <2>3
  <2>4. CASE i # 0
    <3>1. i - 1 \in 0..n /\ i \in 1..m /\ i + 1 \in 2..m /\ i + 1 # 1
      BY <1>0, <2>4
    <3>2. f[i - 1] = g[i] /\ g[i] \in V
      BY <1>3, <1>4, <3>1
    <3>3. PICK p : p = <<i + 1, g[i]>>
      OBVIOUS
    <3>4. p \in (2..m) \X V /\ p[1] - 1 = i /\ p[2] = g[i]
      BY <3>1, <3>2, <3>3
    <3>5. later[p] = next[<<i, g[i]>>]
      BY <1>1, <3>4
    <3> QED
      BY <2>1, <2>2, <2>4, <3>1, <3>2, <3>3, <3>5
  <2> QED
    BY <2>3, <2>4
<1> QED
  BY <1>5, <1>6 DEF StepsFrom0

\* A stop has a place.
LEMMA PlaceIs ==
    ASSUME RouteTypes, NEW i \in 1..Len(stops)
    PROVE  stops[i].place \in Spots
<1>1. stops[i] \in SpotRow
  BY DEF RouteTypes
<1> QED
  BY <1>1 DEF SpotRow

\* The places of some stops are places.
LEMMA PlacesAtArePlaces ==
    ASSUME RouteTypes, NEW chosen
    PROVE  PlacesAt(chosen) \in Seq(Spots)
<1> DEFINE Right(f) == f = [i \in 0..Len(stops) - 1 |->
                               IF i = 0 THEN <<>>
                               ELSE IF i \in chosen THEN Append(f[i - 1], stops[i].place) ELSE f[i - 1]]
           upTo == CHOOSE f : Right(f)
<1>1. PICK n \in Nat : n = Len(stops) - 1
  BY DEF RouteTypes
<1>2. PICK next : next = [p \in (1..n) \X Seq(Spots) |->
                             IF p[1] \in chosen THEN Append(p[2], stops[p[1]].place) ELSE p[2]]
  OBVIOUS
<1>3. next \in [(1..n) \X Seq(Spots) -> Seq(Spots)]
  <2>1. ASSUME NEW p \in (1..n) \X Seq(Spots)
        PROVE  (IF p[1] \in chosen THEN Append(p[2], stops[p[1]].place) ELSE p[2]) \in Seq(Spots)
    <3>1. p[1] \in 1..Len(stops) /\ p[2] \in Seq(Spots)
      BY <1>1
    <3>2. stops[p[1]].place \in Spots
      BY <3>1, PlaceIs
    <3>3. Append(p[2], stops[p[1]].place) \in Seq(Spots)
      BY <3>1, <3>2, AppendProperties
    <3> QED
      BY <3>1, <3>3
  <2> QED
    BY <1>2, <2>1
<1>4. PICK f \in [0..n -> Seq(Spots)] :
          \A i \in 0..n : f[i] = IF i = 0 THEN <<>> ELSE next[<<i, f[i - 1]>>]
  <2>1. <<>> \in Seq(Spots)
    OBVIOUS
  <2>2. PICK V : V = Seq(Spots)
    OBVIOUS
  <2>3. PICK none : none = <<>>
    OBVIOUS
  <2>4. none \in V /\ next \in [(1..n) \X V -> V]
    BY <1>3, <2>1, <2>2, <2>3
  <2>5. \E f \in [0..n -> V] : StepsFrom0(f, n, none, next)
    BY <2>4, StepsFromZero
  <2> QED
    BY <2>2, <2>3, <2>5 DEF StepsFrom0
<1>5. Right(f)
  <2>1. ASSUME NEW i \in 0..n
        PROVE  f[i] = IF i = 0 THEN <<>>
                      ELSE IF i \in chosen THEN Append(f[i - 1], stops[i].place) ELSE f[i - 1]
    <3>1. CASE i = 0
      BY <1>4, <3>1
    <3>2. CASE i # 0
      <4>1. i \in 1..n /\ i - 1 \in 0..n
        BY <3>2
      <4>2. PICK p : p = <<i, f[i - 1]>>
        OBVIOUS
      <4>3. p \in (1..n) \X Seq(Spots) /\ p[1] = i /\ p[2] = f[i - 1]
        BY <4>1, <4>2
      <4>4. next[p] = IF i \in chosen THEN Append(f[i - 1], stops[i].place) ELSE f[i - 1]
        BY <1>2, <4>3
      <4> QED
        BY <1>4, <3>2, <4>2, <4>4
    <3> QED
      BY <3>1, <3>2
  <2> QED
    BY <1>1, <1>4, <2>1
<1>6. Right(upTo)
  <2> HIDE DEF Right
  <2> QED
    BY <1>5
<1>7. PlacesAt(chosen) = upTo[n]
  BY <1>1 DEF PlacesAt
<1>8. \A i \in 0..n : upTo[i] = IF i = 0 THEN <<>>
                                ELSE IF i \in chosen THEN Append(upTo[i - 1], stops[i].place) ELSE upTo[i - 1]
  <2> HIDE DEF upTo
  <2> QED
    BY <1>1, <1>6
<1> HIDE DEF Right, upTo
<1>9. upTo[n] \in Seq(Spots)
  <2> DEFINE Bad == {i \in 0..n : upTo[i] \notin Seq(Spots)}
  <2>1. ASSUME Bad # {} PROVE FALSE
    <3>1. PICK i \in Bad : \A other \in Bad : ~(<<other, i>> \in Below)
      <4>1. Bad \in SUBSET Nat
        OBVIOUS
      <4> HIDE DEF Bad
      <4> QED
        BY <2>1, <4>1, WFMin, BelowWellFounded
    <3>2. i \in 0..n /\ upTo[i] \notin Seq(Spots)
      BY <3>1
    <3>3. i # 0
      <4>1. <<>> \in Seq(Spots)
        OBVIOUS
      <4> QED
        BY <1>8, <3>2, <4>1
    <3>4. i \in 1..n /\ i - 1 \in 0..n /\ i - 1 < i /\ i \in Nat /\ i - 1 \in Nat
      BY <3>2, <3>3
    <3>5. upTo[i - 1] \in Seq(Spots)
      BY <3>1, <3>4 DEF Below
    <3>6. stops[i].place \in Spots
      BY <1>1, <3>4, PlaceIs
    <3>7. upTo[i] \in {upTo[i - 1], Append(upTo[i - 1], stops[i].place)}
      BY <1>8, <3>2, <3>3
    <3>8. Append(upTo[i - 1], stops[i].place) \in Seq(Spots)
      BY <3>5, <3>6, AppendProperties
    <3> QED
      BY <3>2, <3>5, <3>7, <3>8
  <2> QED
    BY <2>1
<1> QED
  BY <1>7, <1>9

\* The days that boundaries make are days, whatever the boundaries.
BreakRow == [days: Seq(DayRow), first: Nat, pending: Seq(Spots)]
BreakStep(was, i, way) ==
    IF was.pending # <<>> /\ Head(was.pending) = way[i].place
    THEN [days |-> Append(was.days, PlannedDay(was.first, i, FALSE)),
          first |-> i + 1, pending |-> Tail(was.pending)]
    ELSE was

LEMMA BreakRows ==
    ASSUME NEW was \in BreakRow, NEW i \in Nat, NEW way
    PROVE  BreakStep(was, i, way) \in BreakRow
<1>1. PICK list \in Seq(DayRow), first \in Nat, pending \in Seq(Spots) :
         was = [days |-> list, first |-> first, pending |-> pending]
  <2>1. /\ was = [days |-> was.days, first |-> was.first, pending |-> was.pending]
        /\ was.days \in Seq(DayRow) /\ was.first \in Nat /\ was.pending \in Seq(Spots)
    BY DEF BreakRow
  <2> QED
    BY <2>1
<1>2. PICK closed \in Seq(DayRow) : closed = Append(list, PlannedDay(first, i, FALSE))
  <2>1. PlannedDay(first, i, FALSE) \in DayRow
    BY DEF PlannedDay, DayRow
  <2> QED
    BY <2>1, AppendProperties
<1>3. CASE pending # <<>> /\ Head(pending) = way[i].place
  <2>1. PICK rest \in Seq(Spots) : rest = Tail(pending)
    BY <1>3, HeadTailProperties
  <2>2. BreakStep(was, i, way) = [days |-> closed, first |-> i + 1, pending |-> rest]
    BY <1>1, <1>2, <1>3, <2>1 DEF BreakStep
  <2>3. i + 1 \in Nat
    OBVIOUS
  <2> QED
    BY <2>2, <2>3 DEF BreakRow
<1>4. CASE ~(pending # <<>> /\ Head(pending) = way[i].place)
  BY <1>1, <1>4 DEF BreakStep
<1> QED
  BY <1>3, <1>4

LEMMA StopsAreCounted == ASSUME RouteTypes PROVE Len(stops) \in Nat /\ Len(stops) - 1 \in Nat
BY DEF RouteTypes

LEMMA BrokenDaysAreDays ==
    ASSUME RouteTypes, NEW places \in Seq(Spots)
    PROVE  DaysFromBreaks(stops, places) \in Seq(DayRow)
<1>1. PICK n \in Nat : n = Len(stops) - 1
  BY StopsAreCounted
<1> DEFINE Start == [days |-> <<>>, first |-> 1, pending |-> places]
           Right(f) == f = [i \in 0..Len(stops) - 1 |->
                               IF i = 0 THEN [days |-> <<>>, first |-> 1, pending |-> places]
                               ELSE LET was == f[i - 1]
                                    IN IF was.pending # <<>> /\ Head(was.pending) = stops[i].place
                                       THEN [days |-> Append(was.days, PlannedDay(was.first, i, FALSE)),
                                             first |-> i + 1, pending |-> Tail(was.pending)]
                                       ELSE was]
           walk == CHOOSE f : Right(f)
<1>2. Start \in BreakRow
  <2>1. <<>> \in Seq(DayRow) /\ 1 \in Nat
    OBVIOUS
  <2> QED
    BY <2>1 DEF BreakRow
<1>3. PICK next : next = [p \in (1..n) \X BreakRow |-> BreakStep(p[2], p[1], stops)]
  OBVIOUS
<1>4. next \in [(1..n) \X BreakRow -> BreakRow]
  <2>1. \A p \in (1..n) \X BreakRow : p[1] \in Nat /\ p[2] \in BreakRow
    OBVIOUS
  <2>2. \A p \in (1..n) \X BreakRow : BreakStep(p[2], p[1], stops) \in BreakRow
    BY <2>1, BreakRows
  <2> QED
    BY <1>3, <2>2
<1>5. PICK f \in [0..n -> BreakRow] :
          \A i \in 0..n : f[i] = IF i = 0 THEN Start ELSE next[<<i, f[i - 1]>>]
  <2> HIDE DEF Start
  <2> QED
    <3>1. \E f \in [0..n -> BreakRow] : StepsFrom0(f, n, Start, next)
      BY <1>2, <1>4, StepsFromZero
    <3> QED
      BY <3>1 DEF StepsFrom0
<1>6. Right(f)
  <2>1. ASSUME NEW i \in 0..n
        PROVE  f[i] = IF i = 0 THEN Start ELSE BreakStep(f[i - 1], i, stops)
    <3> HIDE DEF Start
    <3>1. CASE i = 0
      BY <1>5, <3>1
    <3>2. CASE i # 0
      <4>1. i \in 1..n /\ i - 1 \in 0..n
        BY <3>2
      <4>2. PICK p : p = <<i, f[i - 1]>>
        OBVIOUS
      <4>3. p \in (1..n) \X BreakRow /\ p[1] = i /\ p[2] = f[i - 1]
        BY <1>5, <4>1, <4>2
      <4>4. next[p] = BreakStep(f[i - 1], i, stops)
        BY <1>3, <4>3
      <4> QED
        BY <1>5, <3>2, <4>2, <4>4
    <3> QED
      BY <3>1, <3>2
  <2>2. f = [i \in 0..n |-> IF i = 0 THEN Start ELSE BreakStep(f[i - 1], i, stops)]
    <3> HIDE DEF Start
    <3> QED
      BY <1>5, <2>1
  <2> QED
    BY <1>1, <2>2 DEF BreakStep
<1>7. Right(walk)
  <2> HIDE DEF Right
  <2> QED
    BY <1>6
<1>8. DaysFromBreaks(stops, places)
      = Append(walk[n].days, PlannedDay(walk[n].first, Len(stops), FALSE))
  BY <1>1 DEF DaysFromBreaks
<1>9. \A i \in 0..n : walk[i] = IF i = 0 THEN Start ELSE BreakStep(walk[i - 1], i, stops)
  <2> HIDE DEF walk
  <2> QED
    BY <1>1, <1>7 DEF BreakStep
<1> HIDE DEF Right, walk, Start
<1>10. walk[n] \in BreakRow
  <2> DEFINE Bad == {i \in 0..n : walk[i] \notin BreakRow}
  <2>1. ASSUME Bad # {} PROVE FALSE
    <3>1. PICK i \in Bad : \A other \in Bad : ~(<<other, i>> \in Below)
      <4>1. Bad \in SUBSET Nat
        OBVIOUS
      <4> HIDE DEF Bad
      <4> QED
        BY <2>1, <4>1, WFMin, BelowWellFounded
    <3>2. i \in 0..n /\ walk[i] \notin BreakRow
      BY <3>1
    <3>3. i # 0
      BY <1>2, <1>9, <3>2
    <3>4. i - 1 \in 0..n /\ i - 1 < i /\ i \in Nat /\ i - 1 \in Nat
      BY <3>2, <3>3
    <3>5. walk[i - 1] \in BreakRow
      BY <3>1, <3>4 DEF Below
    <3>6. BreakStep(walk[i - 1], i, stops) \in BreakRow
      BY <3>4, <3>5, BreakRows
    <3> QED
      BY <1>9, <3>2, <3>3, <3>6
  <2> QED
    BY <2>1
<1>11. PICK list \in Seq(DayRow), first \in Nat : list = walk[n].days /\ first = walk[n].first
  BY <1>10 DEF BreakRow
<1>12. PICK day \in DayRow : day = PlannedDay(first, Len(stops), FALSE)
  <2>1. Len(stops) \in Nat
    BY StopsAreCounted
  <2> QED
    BY <2>1 DEF PlannedDay, DayRow
<1>13. DaysFromBreaks(stops, places) = Append(list, day)
  BY <1>8, <1>11, <1>12
<1> QED
  BY <1>13, AppendProperties

LEMMA SplitDaysAreDays ==
    ASSUME RouteTypes
    PROVE  SplitDays(stops, road, norm) \in Seq(DayRow)
<1>1. PICK w : /\ WalkRight(w, Len(stops))
               /\ SplitDays(stops, road, norm)
                  = Append(w.days, PlannedDay(w.first, Len(stops), w.overloaded))
  BY WalkEnds
<1>2. PICK list \in Seq(DayRow), first \in Nat, overloaded \in BOOLEAN :
         list = w.days /\ first = w.first /\ overloaded = w.overloaded
  BY <1>1 DEF WalkRight, WalkRow
<1>3. PlannedDay(first, Len(stops), overloaded) \in DayRow
  BY DEF PlannedDay, DayRow, RouteTypes
<1> QED
  BY <1>1, <1>2, <1>3, AppendProperties

\* The days are at all times what the stops, roads and boundaries make them.
DaysAreDerived == breaks \in Seq(Spots) /\ days = Derived(stops, road, norm, byHand, breaks)

LEMMA DaysStayDerived == RouteDaysInv /\ DaysAreDerived /\ [DaysNext]_daysVars => DaysAreDerived'
<1> SUFFICES ASSUME RouteDaysInv, DaysAreDerived, [DaysNext]_daysVars PROVE DaysAreDerived'
  OBVIOUS
<1>0. RouteTypes
  BY DEF RouteDaysInv
<1>1. ASSUME NEW places, NEW trip, NEW hand, NEW ends \in Seq(Spots), SaveRoute(places, trip, hand, ends)
      PROVE  DaysAreDerived'
  BY <1>1 DEF SaveRoute, DaysAreDerived
<1>2. ASSUME NEW places \in Itineraries, NEW trip \in Trips, SaveStops(places, trip)
      PROVE  DaysAreDerived'
  BY <1>1, <1>2 DEF SaveStops, DaysAreDerived
<1>3. ASSUME NEW places \in Itineraries, NEW trip \in Trips,
             NEW ends \in UNION {[1..n -> Spots] : n \in 0..2}, SaveWithBreaks(places, trip, ends)
      PROVE  DaysAreDerived'
  <2>1. ends \in Seq(Spots)
    <3>1. PICK n \in 0..2 : ends \in [1..n -> Spots]
      OBVIOUS
    <3> QED
      BY <3>1
  <2> QED
    BY <1>1, <1>3, <2>1 DEF SaveWithBreaks
<1>4. ASSUME NEW chosen, EndDaysAfter(chosen) PROVE DaysAreDerived'
  <2>1. breaks' \in Seq(Spots)
    BY <1>0, <1>4, PlacesAtArePlaces DEF EndDaysAfter
  <2> QED
    BY <1>4, <2>1 DEF EndDaysAfter, DaysAreDerived, Derived
<1>5. ASSUME NEW ticked, EditorEndsDays(ticked) PROVE DaysAreDerived'
  <2>1. breaks' \in Seq(Spots)
    BY <1>0, <1>5, PlacesAtArePlaces DEF EditorEndsDays
  <2> QED
    BY <1>5, <2>1 DEF EditorEndsDays, DaysAreDerived
<1>6. ASSUME NEW i, NEW mark, MarkTime(i, mark) PROVE DaysAreDerived'
  BY <1>6 DEF MarkTime, DaysAreDerived
<1>7. ASSUME NEW pair, NEW minutes, Reroute(pair, minutes) PROVE DaysAreDerived'
  BY <1>7 DEF Reroute, DaysAreDerived
<1>8. CASE SplitAgain
  BY <1>8 DEF SplitAgain, DaysAreDerived, Derived
<1>9. CASE UNCHANGED daysVars
  BY <1>9 DEF daysVars, DaysAreDerived
<1> QED
  BY <1>2, <1>3, <1>4, <1>5, <1>6, <1>7, <1>8, <1>9 DEF DaysNext

\* Types of RouteDays, for any stops, roads, norms and boundaries.
LEMMA DayTypesHold == DaysSpec => []DaysTypeOK
<1>1. DaysInit => DaysAreDerived
  BY DEF DaysInit, DaysAreDerived, Derived
<1>2. RouteDaysInv /\ DaysAreDerived => DaysTypeOK
  <2> SUFFICES ASSUME RouteDaysInv, DaysAreDerived PROVE DaysTypeOK
    OBVIOUS
  <2>1. RouteTypes
    BY DEF RouteDaysInv
  <2>2. days \in Seq(DayRow)
    BY <2>1, BrokenDaysAreDays, SplitDaysAreDays DEF DaysAreDerived, Derived
  <2> QED
    BY <2>1, <2>2 DEF RouteDaysInv, RouteTypes, DaysAreDerived, DayRow, SpotRow, DaysTypeOK
<1> QED
  BY <1>1, <1>2, RouteDaysInvHolds, DaysStayDerived, PTL DEF DaysSpec
=============================================================================
