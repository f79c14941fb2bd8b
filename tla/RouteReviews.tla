---------------------------- MODULE RouteReviews ----------------------------
(***************************************************************************)
(* Reviews of one route: words wait for a moderator, stars alone are shown *)
(* at once, and answers are reviews of their own.                          *)
(*                                                                         *)
(* A request reads in one step and commits in another, with no lock in     *)
(* between: rows it has read are written as the session sees them, and     *)
(* only in the columns it changed.  In a behaviour that is in turn no      *)
(* request begins while another is on its way.                             *)
(*                                                                         *)
(* Data: what a review says and shows (body, photos) is the number of its  *)
(* last change; 0 are stars without words.  Whether the six hours are over *)
(* in which an author may change photos and delete is left open: after     *)
(* them such a request is only refused.                                    *)
(***************************************************************************)
EXTENDS Naturals, FiniteSetsExt

CONSTANTS
    Reviewers,
    ReviewRequests, \* requests on their way at once, also of one person
    MaxReviews,    \* bound: rows
    MaxSayings     \* bound: changes of what reviews say

ASSUME ReviewBoundsAssumption == MaxReviews \in Nat /\ MaxSayings \in Nat

Reviews == 1..MaxReviews

VARIABLES
    inTurn,
    reviewable,    \* the route is published, public and active
    walked,        \* who has walked the route, whole or in part
    review,        \* review[n]: a row of route_reviews
    request,       \* request[q]: whose it is, what for, and what it has read
    says,          \* how many changes so far
    approved       \* history: approved[n]: what row n said when it was approved

reviewVars == <<inTurn, reviewable, walked, review, request, says, approved>>
reviewAround == <<inTurn, reviewable, walked>>

NoReviewRow == [by |-> "none", to |-> 0, says |-> 0, status |-> "none"]
NoRequest == [by |-> "none", kind |-> "none", row |-> 0, status |-> "none", to |-> 0]

ReviewsInit ==
    /\ inTurn \in BOOLEAN
    /\ reviewable = TRUE
    /\ walked = {}
    /\ review = [n \in Reviews |-> NoReviewRow]
    /\ request = [q \in ReviewRequests |-> NoRequest]
    /\ says = 0
    /\ approved = [n \in Reviews |-> 0]

ReviewsThere == {n \in Reviews : review[n].status # "none"}
FreeRow == Cardinality(ReviewsThere) + 1
OwnReviews(u) == {n \in ReviewsThere : review[n].by = u /\ review[n].status # "deleted"}
Starred(u) == {n \in OwnReviews(u) : review[n].to = 0 /\ review[n].says = 0}

----------------------------------------------------------------------------
(* What a request reads.                                                   *)

MayBegin(q) ==
    /\ request[q] = NoRequest
    /\ inTurn => \A p \in ReviewRequests : request[p] = NoRequest

BeginReview(q, who, kind, row, to) ==
    /\ MayBegin(q)
    /\ request' = [request EXCEPT ![q] = [by |-> who, kind |-> kind, row |-> row, to |-> to,
                                          status |-> IF row = 0 THEN "none" ELSE review[row].status]]
    /\ UNCHANGED <<reviewAround, review, says, approved>>

WaitingReview(u, to) == {n \in OwnReviews(u) : review[n].status = "pending_review" /\ review[n].to = to}

\* upsert_review: the author's pending row, else the one with stars alone, else a new one.
WriteReview(q, u, to) ==
    LET reused == IF WaitingReview(u, to) # {} THEN WaitingReview(u, to)
                  ELSE IF to = 0 THEN Starred(u) ELSE {}
    IN /\ reviewable
       /\ to # 0 => review[to].status = "published"
       /\ \E n \in IF reused = {} THEN {0} ELSE reused : BeginReview(q, u, "write", n, to)

Rated(u) == Starred(u)

\* _upsert_rating
Rate(q, u) ==
    /\ reviewable /\ u \in walked
    /\ \E n \in IF Rated(u) = {} THEN {0} ELSE Rated(u) : BeginReview(q, u, "rate", n, 0)

PhotosWait(n) == review[n].status = "pending_review"

\* add_review_image, delete_review_image_attachment
ChangeReviewPhotos(q, u, n) ==
    /\ n \in OwnReviews(u)
    /\ PhotosWait(n)
    /\ BeginReview(q, u, "photos", n, 0)

DeleteOwnReview(q, u, n) ==
    /\ n \in OwnReviews(u)
    /\ BeginReview(q, u, "delete", n, 0)

\* set_review_status; a moderator deletes whatever the status.
Moderate(q, n, kind) ==
    /\ n \in ReviewsThere
    /\ kind \in {"approve", "reject"} => review[n].status = "pending_review"
    /\ BeginReview(q, "moderator", kind, n, 0)

----------------------------------------------------------------------------
(* What its commit writes.                                                 *)

AlwaysWritten(r, status) == status  \* fault: the status is written even if it is the one read
\* A column is written if its value differs from the one that was read.
WrittenStatus(r, status) == IF r.status = status THEN review[r.row].status ELSE status

CommitText(q) ==
    LET r == request[q]
        n == IF r.row = 0 THEN FreeRow ELSE r.row
    IN /\ r.kind = "write" /\ n \in Reviews /\ says < MaxSayings
       /\ says' = says + 1
       /\ review' = [review EXCEPT ![n] =
             IF r.row = 0
             THEN [by |-> r.by, to |-> r.to, says |-> says', status |-> "pending_review"]
             ELSE [@ EXCEPT !.says = says', !.status = WrittenStatus(r, "pending_review")]]
       /\ UNCHANGED approved

CommitRating(q) ==
    LET r == request[q]
        n == IF r.row = 0 THEN FreeRow ELSE r.row
    IN /\ r.kind = "rate" /\ n \in Reviews
       /\ review' = [review EXCEPT ![n] =
             IF r.row = 0 THEN [NoReviewRow EXCEPT !.by = r.by, !.status = "published"]
             ELSE [@ EXCEPT !.status = WrittenStatus(r, "published")]]
       /\ UNCHANGED <<says, approved>>

CommitPhotos(q) ==
    /\ request[q].kind = "photos" /\ says < MaxSayings
    /\ says' = says + 1
    /\ review' = [review EXCEPT ![request[q].row].says = says']
    /\ UNCHANGED approved

JudgedAs == [approve |-> "published", reject |-> "rejected", delete |-> "deleted"]

CommitStatus(q) ==
    LET r == request[q]
    IN /\ r.kind \in DOMAIN JudgedAs
       /\ review' = [review EXCEPT ![r.row].status = WrittenStatus(r, JudgedAs[r.kind])]
       /\ approved' = IF r.kind = "approve"
                      THEN [approved EXCEPT ![r.row] = review[r.row].says] ELSE approved
       /\ UNCHANGED says

CommitRequest(q) ==
    /\ CommitText(q) \/ CommitRating(q) \/ CommitPhotos(q) \/ CommitStatus(q)
    /\ request' = [request EXCEPT ![q] = NoRequest]
    /\ UNCHANGED reviewAround

----------------------------------------------------------------------------
(* Around the reviews.                                                     *)

WalkRoute(u) ==
    /\ walked' = walked \union {u}
    /\ UNCHANGED <<inTurn, reviewable, review, request, says, approved>>

RouteComesAndGoes ==
    /\ reviewable' = ~reviewable
    /\ UNCHANGED <<inTurn, walked, review, request, says, approved>>

ReviewsNext ==
    \/ \E q \in ReviewRequests, u \in Reviewers :
          \/ Rate(q, u)
          \/ \E to \in Reviews \union {0} : WriteReview(q, u, to)
          \/ \E n \in Reviews : ChangeReviewPhotos(q, u, n) \/ DeleteOwnReview(q, u, n)
    \/ \E q \in ReviewRequests, n \in Reviews, kind \in DOMAIN JudgedAs : Moderate(q, n, kind)
    \/ \E q \in ReviewRequests : CommitRequest(q)
    \/ \E u \in Reviewers : WalkRoute(u)
    \/ RouteComesAndGoes

ReviewsSpec == ReviewsInit /\ [][ReviewsNext]_reviewVars
----------------------------------------------------------------------------
(* What holds.                                                             *)

ReviewsTypeOK ==
    /\ inTurn \in BOOLEAN /\ reviewable \in BOOLEAN
    /\ walked \subseteq Reviewers
    /\ review \in [Reviews -> [by: Reviewers \union {"none"}, to: 0..MaxReviews, says: 0..MaxSayings,
                               status: {"none", "pending_review", "published", "rejected", "deleted"}]]
    /\ request \in [ReviewRequests ->
                       [by: Reviewers \union {"none", "moderator"},
                        kind: {"none", "write", "rate", "photos", "delete", "approve", "reject"},
                        row: 0..MaxReviews,
                        status: {"none", "pending_review", "published", "rejected", "deleted"},
                        to: 0..MaxReviews]]
    /\ says \in 0..MaxSayings
    /\ approved \in [Reviews -> 0..MaxSayings]

ReviewsShown == {n \in Reviews : review[n].status = "published"}

\* Words are not shown before a moderator has approved the row once, however
\* writing, rating again and moderating run into each other: a rating that
\* found the stars alone leaves the status to whoever changed it meanwhile.
WordsAreModerated == \A n \in ReviewsShown : review[n].says # 0 => approved[n] # 0

\* As long as requests come one after another, a review is shown as it was
\* approved, words and photos ("Published / rejected reviews are never
\* overwritten", upsert_review; review_media_locked).
InTurnShownAsApproved == inTurn => \A n \in ReviewsShown : review[n].says # 0 => review[n].says = approved[n]

\* Both: no word is read by others that a moderator has not let through.
ReviewsAreModerated == WordsAreModerated /\ InTurnShownAsApproved
=============================================================================
