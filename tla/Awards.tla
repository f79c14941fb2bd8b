-------------------------------- MODULE Awards --------------------------------
(***************************************************************************)
(* The achievements of one person.  What a person did is judged after the  *)
(* request that did it has committed, in a transaction of its own that may *)
(* fail or never come about; an hourly job goes over everyone whose rows   *)
(* changed in the last hours, and a silent one over the history, which an  *)
(* operator may let begin with a reset: all notifications go, then all     *)
(* grants, in two statements of one transaction, each of which sees what   *)
(* others have committed by then.                                          *)
(***************************************************************************)
EXTENDS Integers, FiniteSets

CONSTANTS
    Badges,       \* achievements with a rule
    Occasions,    \* requests in the person's favour
    Upkeep,       \* scripts/recalculate_achievements.py
    JobsBack,     \* --recent-hours, by the hour
    MaxFailures,  \* bound: failures of the hourly job
    MaxRevoked    \* bound: badges an operator takes back

ASSUME AwardsAssumption ==
    /\ Upkeep \notin Occasions
    /\ JobsBack \in Nat \ {0} /\ MaxFailures \in Nat /\ MaxRevoked \in Nat

VARIABLES
    personal,  \* badges whose rule looks at the person's own rows only
    proof,     \* badges whose rule the database now meets
    suspect,   \* user_fraud_states.is_flagged
    since,     \* hourly jobs since the newest change of the person's own rows
    medal,     \* user_achievements: none, silent (backfill) or loud (rule, operator)
    told,      \* notifications of a badge
    judging,   \* evaluations in progress
    revoking,  \* an operator's revocation in progress
    wiped,     \* what a reset in progress has deleted and not yet committed
    revoked,   \* history: badges an operator took back
    outlived,  \* history: badges of which a reset deleted the row and left the notification
    failures   \* of the hourly job so far

personVars == <<personal, proof, suspect, since>>
medalVars == <<medal, told, outlived>>
awardVars == <<personVars, medalVars, judging, revoking, wiped, revoked, failures>>

Judges == Occasions \union {Upkeep}
NotJudging == [at |-> "idle", badges |-> {}, silent |-> FALSE]
NoRevocation == [at |-> "none", of |-> {}, had |-> FALSE]
NothingWiped == [told |-> [b \in Badges |-> 0], medals |-> {}]

AwardsInit ==
    /\ personal \in SUBSET Badges
    /\ proof = {} /\ suspect = FALSE /\ since = JobsBack
    /\ medal = [b \in Badges |-> "none"]
    /\ told = [b \in Badges |-> 0]
    /\ judging = [j \in Judges |-> NotJudging]
    /\ revoking = NoRevocation /\ wiped = NothingWiped
    /\ revoked = {} /\ outlived = {} /\ failures = 0

Judging(j, badges, silent) ==
    /\ judging[j] = NotJudging
    /\ judging' = [judging EXCEPT ![j] = [at |-> "due", badges |-> badges, silent |-> silent]]

----------------------------------------------------------------------------
(* What is judged, and when.                                               *)

\* The person's own action commits, and after_commit looks at its triggers.
Earn(r, b) ==
    /\ b \in personal
    /\ Judging(r, {b}, FALSE)
    /\ proof' = proof \union {b} /\ since' = 0
    /\ UNCHANGED <<personal, suspect, medalVars, revoking, wiped, revoked, failures>>

\* A companion finishes: "may now be true for those who finished earlier".
\* Of the rows of these nothing changes (run_ended).
EarnByMate(r, b) ==
    /\ b \notin personal
    /\ Judging(r, {b}, FALSE)
    /\ proof' = proof \union {b}
    /\ UNCHANGED <<personal, suspect, since, medalVars, revoking, wiped, revoked, failures>>

\* A like is taken back, a review or a run rejected: grants stay.
Withdraw(b) ==
    /\ proof' = proof \ {b}
    /\ UNCHANGED <<personal, suspect, since, medalVars, judging, revoking, wiped, revoked, failures>>

FlagPerson ==
    /\ suspect' = TRUE /\ since' = 0
    /\ UNCHANGED <<personal, proof, medalVars, judging, revoking, wiped, revoked, failures>>

\* reset_flag: all the rules are looked at again.
ClearPerson(r) ==
    /\ suspect /\ suspect' = FALSE /\ since' = 0
    /\ Judging(r, Badges, FALSE)
    /\ UNCHANGED <<personal, proof, medalVars, revoking, wiped, revoked, failures>>

\* The hourly job takes whoever is in active_user_ids; the advisory lock
\* keeps a second one away.
InRecentHour(hours) == since + 1 < hours  \* fault: looks back an hour less
InRecent(hours) == since < hours
HourlyJob ==
    /\ IF InRecent(JobsBack) THEN Judging(Upkeep, Badges, FALSE)
                           ELSE judging[Upkeep] = NotJudging /\ UNCHANGED judging
    /\ since' = IF since < JobsBack THEN since + 1 ELSE since
    /\ UNCHANGED <<personal, proof, suspect, medalVars, revoking, wiped, revoked, failures>>

\* --backfill: the history of everyone, without a word.
Backfill ==
    /\ Judging(Upkeep, Badges, TRUE)
    /\ UNCHANGED <<personVars, medalVars, revoking, wiped, revoked, failures>>

\* --backfill --reset: first the notifications that are there ...
ResetNotices ==
    /\ judging[Upkeep] = NotJudging
    /\ judging' = [judging EXCEPT ![Upkeep] =
                      [at |-> "wiping", badges |-> Badges, silent |-> TRUE]]
    /\ wiped' = [wiped EXCEPT !.told = told]
    /\ UNCHANGED <<personVars, medalVars, revoking, revoked, failures>>

\* ... then the grants that are there by then, once no revocation holds one.
ResetGrants ==
    /\ judging[Upkeep].at = "wiping" /\ ~revoking.had
    /\ wiped' = [wiped EXCEPT !.medals = {b \in Badges : medal[b] # "none"}]
    /\ judging' = [judging EXCEPT ![Upkeep].at = "due"]
    /\ UNCHANGED <<personVars, medalVars, revoking, revoked, failures>>

----------------------------------------------------------------------------
(* evaluate.                                                               *)

\* collect and progress.
Judge(j) ==
    /\ judging[j].at = "due"
    /\ judging' = [judging EXCEPT ![j].at = "granting",
                                  ![j].badges = IF suspect THEN {} ELSE @ \intersect proof]
    /\ UNCHANGED <<personVars, medalVars, revoking, wiped, revoked, failures>>

\* The row as this transaction sees it.
MedalSeen(j, b) == IF j = Upkeep /\ b \in wiped.medals THEN "none" ELSE medal[b]

AnyMedals(j, badges) == badges  \* fault: a badge there already is told again
\* on_conflict_do_nothing: the rows that are new.
NewMedals(j, badges) == {b \in badges : MedalSeen(j, b) = "none"}

\* A new row needs the person's, which a revocation has locked; an insert over
\* a row waits for a transaction that deletes it.
MustWait(j, badges) ==
    \/ revoking # NoRevocation /\ NewMedals(j, badges) # {}
    \/ revoking.had /\ revoking.of \intersect badges # {}
    \/ j # Upkeep /\ wiped.medals \intersect badges # {}

\* The new rows are there and, unless silent, told; what a reset deleted goes.
Grant(j) ==
    LET new == NewMedals(j, judging[j].badges)
        silent == judging[j].silent
        gone == IF j = Upkeep THEN wiped ELSE NothingWiped
    IN /\ judging[j].at = "granting" /\ ~MustWait(j, judging[j].badges)
       /\ medal' = [b \in Badges |-> IF b \notin new THEN MedalSeen(j, b)
                                     ELSE IF silent THEN "silent" ELSE "loud"]
       /\ told' = [b \in Badges |-> told[b] - gone.told[b] + (IF b \in new /\ ~silent THEN 1 ELSE 0)]
       /\ outlived' = {b \in outlived : gone.told[b] = 0}
                         \union {b \in gone.medals : told[b] > gone.told[b]}
       /\ judging' = [judging EXCEPT ![j] = NotJudging]
       /\ wiped' = IF j = Upkeep THEN NothingWiped ELSE wiped
       /\ UNCHANGED <<personVars, revoking, revoked, failures>>

\* The evaluation of a request fails, or its process ends.
Fail(r) ==
    /\ judging[r] # NotJudging
    /\ judging' = [judging EXCEPT ![r] = NotJudging]
    /\ UNCHANGED <<personVars, medalVars, revoking, wiped, revoked, failures>>

UpkeepRollsBack ==
    /\ judging' = [judging EXCEPT ![Upkeep] = NotJudging]
    /\ wiped' = NothingWiped

FailUpkeep ==
    /\ judging[Upkeep] # NotJudging /\ failures < MaxFailures
    /\ UpkeepRollsBack
    /\ failures' = failures + 1
    /\ UNCHANGED <<personVars, medalVars, revoking, revoked>>

----------------------------------------------------------------------------
(* Operators (admin_actions.apply), who lock the person's row.             *)

GrantByHand(b) ==
    /\ medal[b] = "none" /\ revoking = NoRevocation
    /\ medal' = [medal EXCEPT ![b] = "loud"]
    /\ told' = [told EXCEPT ![b] = @ + 1]
    /\ UNCHANGED <<personVars, outlived, judging, revoking, wiped, revoked, failures>>

RevokeBadge(b) ==
    /\ revoking = NoRevocation /\ b \notin revoked /\ Cardinality(revoked) < MaxRevoked
    /\ revoking' = [at |-> "grant", of |-> {b}, had |-> FALSE]
    /\ UNCHANGED <<personVars, medalVars, judging, wiped, revoked, failures>>

\* The grant goes first; one that a reset has deleted is waited for.
DeleteGrant ==
    /\ revoking.at = "grant" /\ revoking.of \intersect wiped.medals = {}
    /\ revoking' = [revoking EXCEPT !.at = "notices",
                                    !.had = \E b \in revoking.of : medal[b] # "none"]
    /\ UNCHANGED <<personVars, medalVars, judging, wiped, revoked, failures>>

\* Then its notifications go, with the same waiting, and all is committed.
NoticesHeld == \E b \in revoking.of : wiped.told[b] > 0

FinishRevocation ==
    /\ revoking.at = "notices" /\ ~NoticesHeld
    /\ medal' = [b \in Badges |-> IF b \in revoking.of /\ revoking.had THEN "none" ELSE medal[b]]
    /\ told' = [b \in Badges |-> IF b \in revoking.of THEN 0 ELSE told[b]]
    /\ revoked' = revoked \union revoking.of
    /\ outlived' = outlived \ revoking.of
    /\ revoking' = NoRevocation
    /\ UNCHANGED <<personVars, judging, wiped, failures>>

\* A reset and a revocation delete in opposite orders: when each waits for the
\* other, the database rolls one of them back.
EachWaits ==
    /\ \/ judging[Upkeep].at = "wiping" /\ revoking.had
       \/ judging[Upkeep].at = "granting" /\ MustWait(Upkeep, judging[Upkeep].badges)
    /\ \/ revoking.at = "grant" /\ revoking.of \intersect wiped.medals # {}
       \/ revoking.at = "notices" /\ NoticesHeld

BreakDeadlock ==
    /\ EachWaits
    /\ \/ revoking' = NoRevocation /\ UNCHANGED <<judging, wiped>>
       \/ UpkeepRollsBack /\ UNCHANGED revoking
    /\ UNCHANGED <<personVars, medalVars, revoked, failures>>

AwardsNext ==
    \/ \E r \in Occasions, b \in Badges : Earn(r, b) \/ EarnByMate(r, b)
    \/ \E r \in Occasions : ClearPerson(r) \/ Fail(r)
    \/ \E b \in Badges : Withdraw(b) \/ GrantByHand(b) \/ RevokeBadge(b)
    \/ FlagPerson \/ HourlyJob \/ Backfill \/ ResetNotices \/ ResetGrants \/ FailUpkeep
    \/ DeleteGrant \/ FinishRevocation \/ BreakDeadlock
    \/ \E j \in Judges : Judge(j) \/ Grant(j)

\* The timer starts the job every hour and the job comes to its end, but for
\* MaxFailures failures; a request is not sure to be judged at all.
AwardsFairness ==
    /\ WF_awardVars(HourlyJob) /\ WF_awardVars(ResetGrants)
    /\ WF_awardVars(DeleteGrant) /\ WF_awardVars(FinishRevocation) /\ WF_awardVars(BreakDeadlock)
    /\ WF_awardVars(Judge(Upkeep)) /\ WF_awardVars(Grant(Upkeep))

AwardsSpec == AwardsInit /\ [][AwardsNext]_awardVars /\ AwardsFairness
----------------------------------------------------------------------------
(* What holds.                                                             *)

AwardsTypeOK ==
    /\ personal \subseteq Badges /\ proof \subseteq Badges /\ suspect \in BOOLEAN /\ since \in 0..JobsBack
    /\ medal \in [Badges -> {"none", "silent", "loud"}]
    /\ told \in [Badges -> Nat]
    /\ judging \in [Judges -> [at: {"idle", "wiping", "due", "granting"}, badges: SUBSET Badges,
                               silent: BOOLEAN]]
    /\ revoking \in [at: {"none", "grant", "notices"}, of: SUBSET Badges, had: BOOLEAN]
    /\ wiped \in [told: [Badges -> Nat], medals: SUBSET Badges]
    /\ revoked \subseteq Badges /\ outlived \subseteq Badges /\ failures \in 0..MaxFailures

\* A badge a rule or an operator granted is announced once, whichever requests,
\* jobs and operators judge it at the same time; one from the history, or
\* taken back, not at all.  Only a badge granted between the two statements of
\* a reset keeps an announcement of a grant that is gone, and no second one
\* (evaluate, apply, backfill).
ToldOnce ==
    \A b \in Badges :
        told[b] = (IF medal[b] = "loud" THEN 1 ELSE 0) + (IF b \in outlived THEN 1 ELSE 0)

\* What a person has earned by own actions, and keeps, is granted even when
\* the evaluation after the action is lost and the next hourly job fails.
EarnedIsGranted ==
    \A b \in Badges :
        <>[](b \in personal \intersect proof /\ ~suspect /\ b \notin revoked) => <>(medal[b] # "none")
=============================================================================
