------------------------------- MODULE Articles -------------------------------
(***************************************************************************)
(* One article: its author's edits, the moderators, its readers' views and *)
(* likes, and the comments under it.                                       *)
(*                                                                         *)
(* A request reads in one step and commits in another, with no lock in     *)
(* between; of a row it has read it writes the columns it changed, as      *)
(* values.  In a behaviour that is one at a time no request begins while   *)
(* another is on its way.                                                  *)
(*                                                                         *)
(* Data: the words of the article and its images are each the number of    *)
(* their last change.  Whether a submission is within the daily limit is   *)
(* left open; bookmarks, which change nothing of the article, are left out,*)
(* and so is who wrote which comment.                                      *)
(***************************************************************************)
EXTENDS Naturals, FiniteSetsExt

CONSTANTS
    Readers,       \* not the author
    Errands,       \* requests on their way at once
    MaxComments,   \* bound: comments
    MaxEdits       \* bound: changes of words and images

ASSUME ArticleBoundsAssumption == MaxComments \in Nat /\ MaxEdits \in Nat

Comments == 1..MaxComments

VARIABLES
    oneAtATime,
    article,       \* status, words, images, like_count, view_count
    liked, viewed, \* readers with a row in article_likes, article_views
    comment,       \* comment[k]: the comment it answers, status, late
    errand,        \* errand[e]: what the request is for and what it has read
    edits,         \* how many changes so far
    passed         \* history: the words that were last approved

articleVars == <<oneAtATime, article, liked, viewed, comment, errand, edits, passed>>
readers == <<liked, viewed>>

NoComment == [to |-> 0, status |-> "none", late |-> FALSE]
NoErrand == [kind |-> "none", by |-> "none", row |-> 0, status |-> "none", count |-> 0]
NewArticle == [status |-> "draft", words |-> 0, images |-> 0, likes |-> 0, views |-> 0]

ArticlesInit ==
    /\ oneAtATime \in BOOLEAN
    /\ article = NewArticle
    /\ liked = {} /\ viewed = {}
    /\ comment = [k \in Comments |-> NoComment]
    /\ errand = [e \in Errands |-> NoErrand]
    /\ edits = 0
    /\ passed = 0

----------------------------------------------------------------------------
(* What a request reads and checks.                                        *)

SetOff(e, row) ==
    /\ errand[e] = NoErrand
    /\ oneAtATime => \A other \in Errands : errand[other] = NoErrand
    /\ errand' = [errand EXCEPT ![e] = row]
    /\ UNCHANGED <<oneAtATime, article, readers, comment, edits, passed>>

OfArticle(kind) == [NoErrand EXCEPT !.kind = kind, !.status = article.status]

\* update_article_draft, add_article_block_image and its deletion, submit_article_for_review
EditableStatuses == {"draft", "rejected", "pending_review", "published"}

AuthorComes(e, kind) ==
    /\ article.status \in EditableStatuses
    /\ kind = "submit" => article.status \in {"draft", "rejected"} /\ article.words # 0
    /\ kind = "images" => article.words # 0
    /\ SetOff(e, OfArticle(kind))

InQueue == {"pending_review"}

\* set_article_status
ModeratorComes(e, kind) ==
    /\ kind \in {"publish", "reject"} => article.status \in InQueue
    /\ SetOff(e, OfArticle(kind))

\* get_article, set_article_like
ReaderComes(e, u, kind) ==
    /\ article.status = "published"
    /\ kind = "like" => u \notin liked
    /\ kind = "unlike" => u \in liked
    /\ SetOff(e, [NoErrand EXCEPT !.kind = kind, !.by = u, !.count = IF kind = "open" THEN 0 ELSE article.likes])

\* create_article_comment
CommentComes(e, to) ==
    /\ article.status = "published"
    /\ to # 0 => comment[to].status = "published"
    /\ SetOff(e, [NoErrand EXCEPT !.kind = "comment", !.row = to])

OfComment(k, kind) == [NoErrand EXCEPT !.kind = kind, !.row = k, !.status = comment[k].status]

\* delete_own_comment
CommentGoes(e, k) ==
    /\ comment[k].status \notin {"none", "deleted"} /\ ~comment[k].late
    /\ SetOff(e, OfComment(k, "deleteComment"))

\* set_comment_status
CommentJudged(e, k, kind) ==
    /\ comment[k].status # "none"
    /\ kind \in {"publishComment", "rejectComment"} => comment[k].status \in InQueue
    /\ SetOff(e, OfComment(k, kind))

----------------------------------------------------------------------------
(* What its commit writes.                                                 *)

\* A status that is the one that was read is not written.
Put(row, read, status) == IF read = status THEN row ELSE [row EXCEPT !.status = status]

AfterEdit(read) == IF read = "published" THEN "pending_review" ELSE read

CommitEdit(e) ==
    /\ errand[e].kind = "edit" /\ edits < MaxEdits
    /\ edits' = edits + 1
    /\ article' = [Put(article, errand[e].status, AfterEdit(errand[e].status)) EXCEPT !.words = edits']
    /\ UNCHANGED <<readers, comment, passed>>

\* An image is put into a live article or taken from it, and it stays live.
CommitImages(e) ==
    /\ errand[e].kind = "images" /\ edits < MaxEdits
    /\ edits' = edits + 1
    /\ article' = [article EXCEPT !.images = edits']
    /\ UNCHANGED <<readers, comment, passed>>

StatusAfter == [submit |-> "pending_review", delete |-> "deleted", remove |-> "deleted",
                publish |-> "published", reject |-> "rejected"]

CommitStatusOf(e) ==
    LET r == errand[e]
        row == Put(article, r.status, StatusAfter[r.kind])
    IN /\ r.kind \in DOMAIN StatusAfter
       /\ article' = row
       /\ passed' = IF r.kind = "publish" THEN article.words ELSE passed
       /\ UNCHANGED <<readers, comment, edits>>

NeverSeen(e) == FALSE  \* fault: every opening counts
Seen(e) == errand[e].by \in viewed

\* INSERT ... ON CONFLICT DO NOTHING, and the UPDATE that counts in place.
CommitView(e) ==
    /\ errand[e].kind = "open"
    /\ viewed' = viewed \union {errand[e].by}
    /\ article' = IF Seen(e) THEN article ELSE [article EXCEPT !.views = @ + 1]
    /\ UNCHANGED <<liked, comment, edits, passed>>

OneLess(e) == IF errand[e].count = 0 THEN 0 ELSE errand[e].count - 1

\* The counter is the one that was read, and one more or less.  A second like
\* of the same reader fails at the primary key.
CommitLike(e) ==
    LET r == errand[e]
    IN /\ \/ /\ r.kind = "like"
             /\ IF r.by \in liked THEN UNCHANGED <<article, liked>>
                ELSE /\ liked' = liked \union {r.by}
                     /\ article' = [article EXCEPT !.likes = r.count + 1]
          \/ /\ r.kind = "unlike"
             /\ liked' = liked \ {r.by}
             /\ article' = IF OneLess(e) = r.count THEN article
                           ELSE [article EXCEPT !.likes = OneLess(e)]
       /\ UNCHANGED <<viewed, comment, edits, passed>>

CommitComment(e) ==
    /\ errand[e].kind = "comment"
    /\ \E k \in Comments :
          /\ comment[k] = NoComment /\ \A j \in 1..(k - 1) : comment[j] # NoComment
          /\ comment' = [comment EXCEPT ![k] = [to |-> errand[e].row, status |-> "pending_review", late |-> FALSE]]
    /\ UNCHANGED <<article, readers, edits, passed>>

CommentAfter == [deleteComment |-> "deleted", removeComment |-> "deleted",
                 publishComment |-> "published", rejectComment |-> "rejected"]

CommitCommentStatus(e) ==
    /\ errand[e].kind \in DOMAIN CommentAfter
    /\ comment' = [comment EXCEPT ![errand[e].row] =
                     Put(@, errand[e].status, CommentAfter[errand[e].kind])]
    /\ UNCHANGED <<article, readers, edits, passed>>

CommitErrand(e) ==
    /\ \/ CommitEdit(e) \/ CommitImages(e) \/ CommitStatusOf(e)
       \/ CommitView(e) \/ CommitLike(e)
       \/ CommitComment(e) \/ CommitCommentStatus(e)
    /\ errand' = [errand EXCEPT ![e] = NoErrand]
    /\ UNCHANGED oneAtATime

\* Six hours go by.
CommentGetsOld(k) ==
    /\ comment[k] # NoComment /\ ~comment[k].late
    /\ comment' = [comment EXCEPT ![k].late = TRUE]
    /\ UNCHANGED <<oneAtATime, article, readers, errand, edits, passed>>

ArticlesNext ==
    \/ \E e \in Errands :
          \/ \E kind \in {"edit", "images", "submit", "delete"} : AuthorComes(e, kind)
          \/ \E kind \in {"publish", "reject", "remove"} : ModeratorComes(e, kind)
          \/ \E u \in Readers, kind \in {"open", "like", "unlike"} : ReaderComes(e, u, kind)
          \/ \E to \in Comments \union {0} : CommentComes(e, to)
          \/ \E k \in Comments : CommentGoes(e, k)
          \/ \E k \in Comments, kind \in {"publishComment", "rejectComment", "removeComment"} :
                CommentJudged(e, k, kind)
          \/ CommitErrand(e)
    \/ \E k \in Comments : CommentGetsOld(k)

ArticlesSpec == ArticlesInit /\ [][ArticlesNext]_articleVars
----------------------------------------------------------------------------
(* What holds.                                                             *)

Statuses == {"draft", "pending_review", "published", "rejected", "deleted"}

ArticlesTypeOK ==
    /\ oneAtATime \in BOOLEAN
    /\ article \in [status: Statuses, words: 0..MaxEdits, images: 0..MaxEdits,
                    likes: Nat, views: Nat]
    /\ liked \subseteq Readers /\ viewed \subseteq Readers
    /\ comment \in [Comments -> [to: 0..MaxComments, status: Statuses \union {"none"},
                                 late: BOOLEAN]]
    /\ \A e \in Errands : errand[e].status \in Statuses \union {"none"}
    /\ edits \in 0..MaxEdits
    /\ passed \in 0..MaxEdits

\* The views are the readers who opened the article, however their requests,
\* likes and the author's edits overlap ("cannot inflate it", get_article);
\* as long as requests come one at a time, the same holds for the likes.
ReadersCounted ==
    /\ article.views = Cardinality(viewed)
    /\ oneAtATime => article.likes = Cardinality(liked)

\* As long as requests come one at a time, a live article has the words the
\* moderator saw; its images may be others (_REMODERATE_ON_EDIT).
InTurnWordsAsApproved == oneAtATime /\ article.status = "published" => article.words = passed

\* Both: what readers see of an article, its counts and its words, is true.
ArticlesShowTheTruth == ReadersCounted /\ InTurnWordsAsApproved
===============================================================================
