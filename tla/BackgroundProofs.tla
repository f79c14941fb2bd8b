-------------------------- MODULE BackgroundProofs --------------------------
(* Proofs about what works beside and behind the requests: badges, the      *)
(* encoder of the help search, the nightly reindexing, and the routing      *)
(* snapshots with their purge; for any people, rows and bounds.             *)
EXTENDS Awards, HelpEncoder, HelpEditions, KnowledgeIndex, RoutingSnapshots, RunTimelineProofs,
        FiniteSetTheorems, SequenceTheorems, TLAPS

-----------------------------------------------------------------------------
(* Awards.                                                                  *)

JudgeRow == [at: {"idle", "wiping", "due", "granting"}, badges: SUBSET Badges, silent: BOOLEAN]
RevocationRow == [at: {"none", "grant", "notices"}, of: SUBSET Badges, had: BOOLEAN]
WipedRow == [told: [Badges -> Nat], medals: SUBSET Badges]
Medals == {"none", "silent", "loud"}

\* What a reset in progress has deleted was there, and a notification that
\* has outlived its grant is among it; once the grants have gone too, a badge
\* not among them that had a notification had outlived an earlier reset.
Pending(b) ==
    /\ wiped.told[b] <= told[b]
    /\ b \in outlived /\ (judging[Upkeep].at = "wiping" \/ b \in wiped.medals) => wiped.told[b] > 0
    /\ judging[Upkeep].at # "wiping" /\ b \notin wiped.medals /\ wiped.told[b] > 0 =>
          wiped.told[b] = 1 /\ b \in outlived

\* Only the silent job resets; what has no grant when a revocation looks has
\* none until it is over.
Quiet == judging[Upkeep].silent \/ (wiped = NothingWiped /\ judging[Upkeep].at # "wiping")
Untaken == revoking.at = "notices" /\ ~revoking.had => \A b \in revoking.of : medal[b] = "none"

\* ToldOnce is inductive together with what a reset has in hand.
AwardsInv ==
    /\ AwardsTypeOK /\ ToldOnce
    /\ Quiet /\ Untaken /\ \A b \in Badges : Pending(b)

\* The types, as the steps below use them.
LEMMA AwardsRows ==
    AwardsTypeOK <=>
        /\ personal \subseteq Badges /\ proof \subseteq Badges /\ suspect \in BOOLEAN
        /\ since \in 0..JobsBack /\ failures \in 0..MaxFailures
        /\ medal \in [Badges -> Medals] /\ told \in [Badges -> Nat]
        /\ judging \in [Judges -> JudgeRow] /\ revoking \in RevocationRow /\ wiped \in WipedRow
        /\ revoked \subseteq Badges /\ outlived \subseteq Badges
BY DEF AwardsTypeOK, JudgeRow, RevocationRow, WipedRow, Medals

LEMMA AwardsParts ==
    /\ JobsBack \in Nat /\ MaxFailures \in Nat /\ Upkeep \in Judges /\ 0 \in 0..JobsBack
    /\ \A r \in Occasions : r \in Judges /\ r # Upkeep
    /\ NotJudging \in JudgeRow /\ NoRevocation \in RevocationRow /\ NothingWiped \in WipedRow
    /\ NothingWiped.medals = {} /\ \A b \in Badges : NothingWiped.told[b] = 0
BY AwardsAssumption
   DEF Judges, NotJudging, NoRevocation, NothingWiped, JudgeRow, RevocationRow, WipedRow

\* At first nothing is granted and nothing told.
LEMMA AwardsBegin == AwardsInit => AwardsInv
<1> SUFFICES ASSUME AwardsInit PROVE AwardsInv
  OBVIOUS
<1>1. judging \in [Judges -> JudgeRow] /\ revoking \in RevocationRow /\ wiped \in WipedRow
  BY AwardsParts DEF AwardsInit
<1>2. since \in 0..JobsBack /\ failures \in 0..MaxFailures
  BY AwardsParts DEF AwardsInit
<1>3. /\ personal \subseteq Badges /\ proof \subseteq Badges /\ suspect \in BOOLEAN
      /\ medal = [b \in Badges |-> "none"] /\ told = [b \in Badges |-> 0]
      /\ revoked = {} /\ outlived = {} /\ wiped = NothingWiped
  BY DEF AwardsInit
<1>4. AwardsTypeOK
  BY <1>1, <1>2, <1>3, AwardsRows DEF Medals
<1>5. ToldOnce
  BY <1>3 DEF ToldOnce
<1>6. \A b \in Badges : Pending(b)
  BY <1>3, AwardsParts DEF Pending
<1>7. Quiet /\ Untaken
  BY AwardsParts DEF AwardsInit, Quiet, Untaken, NotJudging, NoRevocation
<1> QED
  BY <1>4, <1>5, <1>6, <1>7 DEF AwardsInv

\* A step of the judging, or of what it is about, that leaves the grants and
\* a reset as they are.
LEMMA AwardsKeep ==
    ASSUME AwardsInv, UNCHANGED <<medal, told, outlived, wiped, personal>>,
           proof' \subseteq Badges, suspect' \in BOOLEAN, since' \in 0..JobsBack,
           failures' \in 0..MaxFailures, revoked' \subseteq Badges, revoking' \in RevocationRow,
           judging' \in [Judges -> JudgeRow],
           judging'[Upkeep].at = "wiping" <=> judging[Upkeep].at = "wiping",
           Quiet', Untaken'
    PROVE  AwardsInv'
<1>1. AwardsTypeOK'
  BY AwardsRows DEF AwardsInv, AwardsTypeOK, JudgeRow, RevocationRow, WipedRow, Medals
<1>2. ToldOnce' /\ \A b \in Badges : Pending(b)'
  BY DEF AwardsInv, ToldOnce, Pending
<1> QED
  BY <1>1, <1>2 DEF AwardsInv

\* A request's evaluation begins or ends.
LEMMA RequestJudges ==
    ASSUME AwardsInv, NEW r \in Occasions, NEW row \in JudgeRow, judging' = [judging EXCEPT ![r] = row]
    PROVE  judging' \in [Judges -> JudgeRow] /\ judging'[Upkeep] = judging[Upkeep]
<1>1. judging \in [Judges -> JudgeRow]
  BY AwardsRows DEF AwardsInv
<1> QED
  BY <1>1, AwardsParts

LEMMA EvaluationBegins ==
    ASSUME AwardsInv, NEW r \in Occasions, NEW badges \in SUBSET Badges, Judging(r, badges, FALSE)
    PROVE  judging' \in [Judges -> JudgeRow] /\ judging'[Upkeep] = judging[Upkeep]
<1>1. PICK row : row = [at |-> "due", badges |-> badges, silent |-> FALSE]
  OBVIOUS
<1>2. row \in JudgeRow /\ judging' = [judging EXCEPT ![r] = row]
  BY <1>1 DEF Judging, JudgeRow
<1> QED BY <1>2, RequestJudges

\* The job's evaluation begins, with nothing in hand.
LEMMA UpkeepBegins ==
    ASSUME AwardsInv, NEW silent \in BOOLEAN, Judging(Upkeep, Badges, silent)
    PROVE  /\ judging' \in [Judges -> JudgeRow] /\ wiped = NothingWiped
           /\ judging'[Upkeep].at # "wiping" /\ judging[Upkeep].at # "wiping"
<1>1. PICK row : row = [at |-> "due", badges |-> Badges, silent |-> silent]
  OBVIOUS
<1>2. row \in JudgeRow /\ judging' = [judging EXCEPT ![Upkeep] = row]
      /\ judging[Upkeep] = NotJudging
  BY <1>1 DEF Judging, JudgeRow
<1>3. judging \in [Judges -> JudgeRow]
  BY AwardsRows DEF AwardsInv
<1>4. judging' \in [Judges -> JudgeRow] /\ judging'[Upkeep] = row
  BY <1>2, <1>3, AwardsParts
<1> QED
  BY <1>1, <1>2, <1>4 DEF AwardsInv, Quiet, NotJudging

\* The person acts, is flagged or cleared.
LEMMA PersonKeeps ==
    ASSUME AwardsInv,
           \/ \E r \in Occasions, b \in Badges : Earn(r, b) \/ EarnByMate(r, b)
           \/ \E r \in Occasions : ClearPerson(r)
           \/ \E b \in Badges : Withdraw(b)
           \/ FlagPerson
    PROVE  AwardsInv'
<1>0. /\ proof \subseteq Badges /\ suspect \in BOOLEAN /\ since \in 0..JobsBack
      /\ failures \in 0..MaxFailures /\ revoked \subseteq Badges /\ revoking \in RevocationRow
      /\ judging \in [Judges -> JudgeRow]
  BY AwardsRows DEF AwardsInv
<1>1. ASSUME NEW r \in Occasions, NEW b \in Badges, Earn(r, b) \/ EarnByMate(r, b) PROVE AwardsInv'
  <2>1. Judging(r, {b}, FALSE) /\ {b} \in SUBSET Badges
    BY <1>1 DEF Earn, EarnByMate
  <2>2. judging' \in [Judges -> JudgeRow] /\ judging'[Upkeep] = judging[Upkeep]
    BY <2>1, EvaluationBegins
  <2>3. /\ UNCHANGED <<medal, told, outlived, wiped, personal, suspect, failures, revoked, revoking>>
        /\ proof' \subseteq Badges /\ since' \in 0..JobsBack
    BY <1>0, <1>1, AwardsParts DEF Earn, EarnByMate, medalVars
  <2> QED BY <1>0, <2>2, <2>3, AwardsKeep DEF AwardsInv, Quiet, Untaken
<1>2. ASSUME NEW r \in Occasions, ClearPerson(r) PROVE AwardsInv'
  <2>1. Judging(r, Badges, FALSE)
    BY <1>2 DEF ClearPerson
  <2>2. judging' \in [Judges -> JudgeRow] /\ judging'[Upkeep] = judging[Upkeep]
    BY <2>1, EvaluationBegins
  <2>3. /\ UNCHANGED <<medal, told, outlived, wiped, personal, proof, failures, revoked, revoking>>
        /\ suspect' \in BOOLEAN /\ since' \in 0..JobsBack
    BY <1>2, AwardsParts DEF ClearPerson, medalVars
  <2> QED BY <1>0, <2>2, <2>3, AwardsKeep DEF AwardsInv, Quiet, Untaken
<1>3. ASSUME NEW b \in Badges, Withdraw(b) PROVE AwardsInv'
  <2>1. /\ UNCHANGED <<medal, told, outlived, wiped, personal, suspect, since, failures, revoked, revoking, judging>>
        /\ proof' \subseteq Badges
    BY <1>0, <1>3 DEF Withdraw, medalVars
  <2> QED BY <1>0, <2>1, AwardsKeep DEF AwardsInv, Quiet, Untaken
<1>4. CASE FlagPerson
  <2>1. /\ UNCHANGED <<medal, told, outlived, wiped, personal, proof, failures, revoked, revoking, judging>>
        /\ suspect' \in BOOLEAN /\ since' \in 0..JobsBack
    BY <1>4, AwardsParts DEF FlagPerson, medalVars
  <2> QED BY <1>0, <2>1, AwardsKeep DEF AwardsInv, Quiet, Untaken
<1> QED BY <1>1, <1>2, <1>3, <1>4

\* The hourly job and the silent one begin, and any evaluation goes on.
LEMMA JudgesKeep ==
    ASSUME AwardsInv,
           \/ HourlyJob \/ Backfill
           \/ \E j \in Judges : Judge(j)
           \/ \E r \in Occasions : Fail(r)
    PROVE  AwardsInv'
<1>0. /\ proof \subseteq Badges /\ suspect \in BOOLEAN /\ since \in 0..JobsBack
      /\ failures \in 0..MaxFailures /\ revoked \subseteq Badges /\ revoking \in RevocationRow
      /\ judging \in [Judges -> JudgeRow]
  BY AwardsRows DEF AwardsInv
<1>1. CASE HourlyJob
  <2>1. UNCHANGED <<medal, told, outlived, wiped, personal, proof, suspect, failures, revoked, revoking>>
    BY <1>1 DEF HourlyJob, medalVars
  <2>2. since' \in 0..JobsBack
    <3>1. PICK n \in Nat : n = since /\ n <= JobsBack
      BY <1>0, AwardsParts
    <3>2. since' = IF n < JobsBack THEN n + 1 ELSE n
      BY <1>1, <3>1 DEF HourlyJob
    <3> QED BY AwardsParts, <3>1, <3>2
  <2>3. CASE InRecent(JobsBack)
    <3>1. Judging(Upkeep, Badges, FALSE)
      BY <1>1, <2>3 DEF HourlyJob
    <3> QED BY <1>0, <2>1, <2>2, <3>1, UpkeepBegins, AwardsKeep DEF AwardsInv, Quiet, Untaken
  <2>4. CASE ~InRecent(JobsBack)
    <3>1. UNCHANGED judging
      BY <1>1, <2>4 DEF HourlyJob
    <3> QED BY <1>0, <2>1, <2>2, <3>1, AwardsKeep DEF AwardsInv, Quiet, Untaken
  <2> QED BY <2>3, <2>4
<1>2. CASE Backfill
  <2>1. UNCHANGED <<medal, told, outlived, wiped, personal, proof, suspect, since, failures, revoked, revoking>>
    BY <1>2 DEF Backfill, personVars, medalVars
  <2>2. Judging(Upkeep, Badges, TRUE)
    BY <1>2 DEF Backfill
  <2> QED BY <1>0, <2>1, <2>2, UpkeepBegins, AwardsKeep DEF AwardsInv, Quiet, Untaken
<1>3. ASSUME NEW j \in Judges, Judge(j) PROVE AwardsInv'
  <2>1. UNCHANGED <<medal, told, outlived, wiped, personal, proof, suspect, since, failures, revoked, revoking>>
    BY <1>3 DEF Judge, personVars, medalVars
  <2>2. PICK badges \in SUBSET Badges : badges = IF suspect THEN {} ELSE judging[j].badges \intersect proof
    BY <1>0 DEF JudgeRow
  <2>3. PICK row : row = [judging[j] EXCEPT !.at = "granting", !.badges = badges]
    OBVIOUS
  <2>4. row \in JudgeRow /\ row.at = "granting" /\ row.silent = judging[j].silent /\ judging[j].at = "due"
    BY <1>0, <1>3, <2>3 DEF JudgeRow, Judge
  <2>5. judging' = [judging EXCEPT ![j] = row]
    BY <1>0, <1>3, <2>2, <2>3 DEF Judge
  <2>6. /\ judging' \in [Judges -> JudgeRow]
        /\ judging'[Upkeep].at = "wiping" <=> judging[Upkeep].at = "wiping"
        /\ judging'[Upkeep].silent = judging[Upkeep].silent
    BY <1>0, <2>4, <2>5, AwardsParts
  <2> QED BY <1>0, <2>1, <2>6, AwardsKeep DEF AwardsInv, Quiet, Untaken
<1>4. ASSUME NEW r \in Occasions, Fail(r) PROVE AwardsInv'
  <2>1. UNCHANGED <<medal, told, outlived, wiped, personal, proof, suspect, since, failures, revoked, revoking>>
    BY <1>4 DEF Fail, personVars, medalVars
  <2>2. judging' = [judging EXCEPT ![r] = NotJudging]
    BY <1>4 DEF Fail
  <2>3. judging' \in [Judges -> JudgeRow] /\ judging'[Upkeep] = judging[Upkeep]
    BY <2>2, AwardsParts, RequestJudges
  <2> QED BY <1>0, <2>1, <2>3, AwardsKeep DEF AwardsInv, Quiet, Untaken
<1> QED BY <1>1, <1>2, <1>3, <1>4

\* Nothing is left in hand when the job rolls back.
LEMMA UpkeepFails ==
    ASSUME AwardsInv, UpkeepRollsBack, failures' \in 0..MaxFailures,
           UNCHANGED <<personVars, medalVars, revoking, revoked>>
    PROVE  AwardsInv'
<1>1. judging \in [Judges -> JudgeRow] /\ AwardsTypeOK
  BY AwardsRows DEF AwardsInv
<1>2. judging' = [judging EXCEPT ![Upkeep] = NotJudging] /\ wiped' = NothingWiped
  BY DEF UpkeepRollsBack
<1>3. judging' \in [Judges -> JudgeRow] /\ judging'[Upkeep].at # "wiping"
  BY <1>1, <1>2, AwardsParts DEF NotJudging
<1>4. wiped' \in WipedRow
  BY <1>2, AwardsParts
<1>5. AwardsTypeOK'
  BY <1>1, <1>3, <1>4, AwardsRows DEF AwardsTypeOK, JudgeRow, RevocationRow, WipedRow, personVars, medalVars
<1>6. ToldOnce'
  BY DEF AwardsInv, ToldOnce, medalVars
<1>7. ASSUME NEW b \in Badges PROVE Pending(b)'
  <2>1. wiped'.medals = {} /\ wiped'.told[b] = 0 /\ told'[b] \in Nat
    BY <1>2, <1>5, AwardsParts DEF AwardsTypeOK
  <2> QED BY <1>3, <2>1 DEF Pending
<1>8. Quiet' /\ Untaken'
  BY <1>2, <1>3 DEF AwardsInv, Quiet, Untaken, medalVars
<1> QED BY <1>5, <1>6, <1>7, <1>8 DEF AwardsInv

\* A reset begins, and takes the grants.
LEMMA ResetKeeps == AwardsInv /\ (ResetNotices \/ ResetGrants) => AwardsInv'
<1> SUFFICES ASSUME AwardsInv, ResetNotices \/ ResetGrants PROVE AwardsInv'
  OBVIOUS
<1>0. /\ AwardsTypeOK /\ judging \in [Judges -> JudgeRow] /\ wiped \in WipedRow
      /\ told \in [Badges -> Nat] /\ medal \in [Badges -> Medals]
  BY AwardsRows DEF AwardsInv
<1>1. UNCHANGED <<personal, proof, suspect, since, failures, medal, told, outlived, revoking, revoked>>
  BY DEF ResetNotices, ResetGrants, personVars, medalVars
<1>2. ASSUME judging' \in [Judges -> JudgeRow], wiped' \in WipedRow PROVE AwardsTypeOK' /\ ToldOnce' /\ Untaken'
  BY <1>0, <1>1, <1>2 DEF AwardsInv, AwardsTypeOK, JudgeRow, WipedRow, ToldOnce, Untaken
<1>3. CASE ResetNotices
  <2>1. PICK row : row = [at |-> "wiping", badges |-> Badges, silent |-> TRUE]
    OBVIOUS
  <2>2. row \in JudgeRow /\ judging' = [judging EXCEPT ![Upkeep] = row] /\ judging[Upkeep] = NotJudging
    BY <1>3, <2>1 DEF ResetNotices, JudgeRow
  <2>3. judging' \in [Judges -> JudgeRow] /\ judging'[Upkeep] = row
    BY <1>0, <2>2, AwardsParts
  <2>4. wiped = NothingWiped
    BY <2>2 DEF AwardsInv, Quiet, NotJudging
  <2>5. wiped' \in WipedRow /\ wiped'.told = told /\ wiped'.medals = {}
    BY <1>0, <1>3, <2>4, AwardsParts DEF ResetNotices, WipedRow
  <2>6. ASSUME NEW b \in Badges PROVE Pending(b)'
    <3>1. told[b] \in Nat /\ (b \in outlived => told[b] > 0)
      BY <1>0 DEF AwardsInv, ToldOnce
    <3> QED BY <1>1, <2>1, <2>3, <2>5, <3>1 DEF Pending
  <2>7. Quiet'
    BY <2>1, <2>3 DEF Quiet
  <2> QED BY <1>2, <2>3, <2>5, <2>6, <2>7 DEF AwardsInv
<1>4. CASE ResetGrants
  <2>1. PICK row : row = [judging[Upkeep] EXCEPT !.at = "due"]
    OBVIOUS
  <2>2. judging[Upkeep].at = "wiping" /\ judging[Upkeep].silent
    BY <1>4 DEF ResetGrants, AwardsInv, Quiet
  <2>3. row \in JudgeRow /\ row.at = "due" /\ row.silent
    BY <1>0, <2>1, <2>2, AwardsParts DEF JudgeRow
  <2>4. judging' \in [Judges -> JudgeRow] /\ judging'[Upkeep] = row
    BY <1>0, <1>4, <2>1, <2>3, AwardsParts DEF ResetGrants
  <2>5. wiped' \in WipedRow /\ wiped'.told = wiped.told /\ wiped'.medals = {b \in Badges : medal[b] # "none"}
    BY <1>0, <1>4 DEF ResetGrants, WipedRow
  <2>6. ASSUME NEW b \in Badges PROVE Pending(b)'
    <3>1. /\ wiped.told[b] \in Nat /\ told[b] \in Nat /\ wiped.told[b] <= told[b]
          /\ b \in outlived => wiped.told[b] > 0
      BY <1>0, <2>2 DEF AwardsInv, Pending, WipedRow
    <3>2. medal[b] = "none" => told[b] = IF b \in outlived THEN 1 ELSE 0
      BY DEF AwardsInv, ToldOnce
    <3> QED BY <1>1, <2>3, <2>4, <2>5, <3>1, <3>2 DEF Pending
  <2>7. Quiet'
    BY <2>3, <2>4 DEF Quiet
  <2> QED BY <1>2, <2>4, <2>5, <2>6, <2>7 DEF AwardsInv
<1> QED BY <1>3, <1>4

\* Who grants new rows does so while no revocation is in progress.
LEMMA NothingNewWhileRevoking ==
    ASSUME NEW j \in Judges, Grant(j), revoking # NoRevocation
    PROVE  NewMedals(j, judging[j].badges) = {}
BY DEF Grant, MustWait

\* evaluate with its insert ... on conflict do nothing, for a request ...
LEMMA RequestGrants ==
    ASSUME AwardsInv, NEW j \in Judges, j # Upkeep, Grant(j)
    PROVE  AwardsInv'
<1> DEFINE new == NewMedals(j, judging[j].badges)
           silent == judging[j].silent
<1>0. /\ AwardsTypeOK /\ judging \in [Judges -> JudgeRow] /\ revoking \in RevocationRow
      /\ told \in [Badges -> Nat] /\ medal \in [Badges -> Medals] /\ outlived \subseteq Badges
      /\ wiped \in WipedRow
  BY AwardsRows DEF AwardsInv
<1>1. /\ UNCHANGED <<personal, proof, suspect, since, failures, revoking, revoked, wiped>>
      /\ judging' = [judging EXCEPT ![j] = NotJudging]
      /\ medal' = [b \in Badges |-> IF b \notin new THEN medal[b]
                                    ELSE IF silent THEN "silent" ELSE "loud"]
  BY DEF Grant, MedalSeen, personVars
<1>2. told' = [b \in Badges |-> told[b] + (IF b \in new /\ ~silent THEN 1 ELSE 0)]
  <2>1. told' = [b \in Badges |-> told[b] - NothingWiped.told[b] + (IF b \in new /\ ~silent THEN 1 ELSE 0)]
    BY DEF Grant
  <2>2. \A b \in Badges : told[b] - NothingWiped.told[b] + (IF b \in new /\ ~silent THEN 1 ELSE 0)
                            = told[b] + (IF b \in new /\ ~silent THEN 1 ELSE 0)
    BY <1>0, AwardsParts
  <2> QED BY <2>1, <2>2
<1>3. outlived' = outlived
  <2>1. outlived' = {b \in outlived : NothingWiped.told[b] = 0}
                      \cup {b \in NothingWiped.medals : told[b] > NothingWiped.told[b]}
    BY DEF Grant
  <2> QED BY <1>0, <2>1, AwardsParts
<1>4. judging' \in [Judges -> JudgeRow] /\ judging'[Upkeep] = judging[Upkeep]
  BY <1>0, <1>1, AwardsParts
<1>5. told' \in [Badges -> Nat] /\ medal' \in [Badges -> Medals]
  BY <1>0, <1>1, <1>2 DEF Medals
<1>6. AwardsTypeOK'
  BY <1>0, <1>1, <1>3, <1>4, <1>5 DEF AwardsTypeOK, JudgeRow, Medals
<1>7. ASSUME NEW b \in Badges
      PROVE  told'[b] = (IF medal'[b] = "loud" THEN 1 ELSE 0) + (IF b \in outlived' THEN 1 ELSE 0)
  <2>1. told[b] \in Nat /\ told[b] = (IF medal[b] = "loud" THEN 1 ELSE 0) + (IF b \in outlived THEN 1 ELSE 0)
    BY <1>0 DEF AwardsInv, ToldOnce
  <2>2. b \in new => medal[b] = "none"
    BY DEF NewMedals, MedalSeen
  <2> QED BY <1>1, <1>2, <1>3, <2>1, <2>2
<1>8. ASSUME NEW b \in Badges PROVE Pending(b)'
  <2>1. /\ told[b] \in Nat /\ told'[b] \in Nat /\ told[b] <= told'[b] /\ wiped.told[b] \in Nat
    BY <1>0, <1>2, <1>5 DEF WipedRow
  <2> QED BY <1>1, <1>3, <1>4, <2>1 DEF AwardsInv, Pending
<1>9. Untaken'
  <2> SUFFICES ASSUME revoking.at = "notices", ~revoking.had, NEW b \in revoking.of PROVE medal'[b] = "none"
    BY <1>1 DEF Untaken
  <2>1. new = {} /\ medal[b] = "none" /\ b \in Badges
    BY <1>0, NothingNewWhileRevoking DEF AwardsInv, Untaken, NoRevocation, RevocationRow
  <2> QED BY <1>1, <2>1
<1>10. Quiet'
  BY <1>1, <1>4 DEF AwardsInv, Quiet
<1> QED BY <1>6, <1>7, <1>8, <1>9, <1>10 DEF AwardsInv, ToldOnce

\* ... and for the job, with what a reset has deleted.
LEMMA UpkeepGrants ==
    ASSUME AwardsInv, Grant(Upkeep)
    PROVE  AwardsInv'
<1> DEFINE new == NewMedals(Upkeep, judging[Upkeep].badges)
           silent == judging[Upkeep].silent
<1>0. /\ AwardsTypeOK /\ judging \in [Judges -> JudgeRow] /\ revoking \in RevocationRow
      /\ told \in [Badges -> Nat] /\ medal \in [Badges -> Medals] /\ outlived \subseteq Badges
      /\ wiped \in WipedRow /\ Upkeep \in Judges
  BY AwardsRows, AwardsParts DEF AwardsInv
<1>1. /\ UNCHANGED <<personal, proof, suspect, since, failures, revoking, revoked>>
      /\ judging' = [judging EXCEPT ![Upkeep] = NotJudging] /\ wiped' = NothingWiped
      /\ medal' = [b \in Badges |-> IF b \notin new THEN MedalSeen(Upkeep, b)
                                    ELSE IF silent THEN "silent" ELSE "loud"]
      /\ told' = [b \in Badges |-> told[b] - wiped.told[b] + (IF b \in new /\ ~silent THEN 1 ELSE 0)]
      /\ outlived' = {b \in outlived : wiped.told[b] = 0} \cup {b \in wiped.medals : told[b] > wiped.told[b]}
      /\ judging[Upkeep].at = "granting"
  BY DEF Grant, personVars
<1>2. judging' \in [Judges -> JudgeRow] /\ judging'[Upkeep] = NotJudging
  BY <1>0, <1>1, AwardsParts
<1>3. wiped' \in WipedRow /\ outlived' \subseteq Badges
  BY <1>0, <1>1, AwardsParts DEF WipedRow
<1>4. medal' \in [Badges -> Medals]
  BY <1>0, <1>1 DEF Medals, MedalSeen
<1>5. ASSUME NEW b \in Badges
      PROVE  /\ told'[b] = (IF medal'[b] = "loud" THEN 1 ELSE 0) + (IF b \in outlived' THEN 1 ELSE 0)
             /\ told'[b] \in Nat
  <2>1. /\ told[b] \in Nat /\ wiped.told[b] \in Nat /\ wiped.told[b] <= told[b]
        /\ told[b] = (IF medal[b] = "loud" THEN 1 ELSE 0) + (IF b \in outlived THEN 1 ELSE 0)
    BY <1>0 DEF AwardsInv, ToldOnce, Pending, WipedRow
  <2>2. silent \/ (wiped.told[b] = 0 /\ b \notin wiped.medals)
    BY AwardsParts DEF AwardsInv, Quiet
  <2>3. told'[b] = told[b] - wiped.told[b] + (IF b \in new /\ ~silent THEN 1 ELSE 0)
    BY <1>1
  <2>4. medal'[b] = IF b \notin new THEN MedalSeen(Upkeep, b) ELSE IF silent THEN "silent" ELSE "loud"
    BY <1>1
  <2>5. b \in outlived' <=> \/ b \in outlived /\ wiped.told[b] = 0
                            \/ b \in wiped.medals /\ told[b] > wiped.told[b]
    BY <1>1
  <2>6. CASE b \in wiped.medals
    <3>1. silent /\ MedalSeen(Upkeep, b) = "none" /\ (b \in outlived => wiped.told[b] > 0)
      BY <2>2, <2>6 DEF AwardsInv, Pending, MedalSeen
    <3>2. medal'[b] # "loud" /\ told'[b] = told[b] - wiped.told[b]
      BY <2>1, <2>3, <2>4, <3>1
    <3>3. b \in outlived' <=> told[b] > wiped.told[b]
      BY <2>5, <2>6, <3>1
    <3>4. told[b] - wiped.told[b] \in {0, 1}
      BY <2>1, <3>1
    <3> QED BY <2>1, <3>2, <3>3, <3>4
  <2>7. CASE b \notin wiped.medals
    <3>1. /\ MedalSeen(Upkeep, b) = medal[b] /\ (b \in new => medal[b] = "none")
          /\ b \in outlived' <=> b \in outlived /\ wiped.told[b] = 0
      BY <2>5, <2>7 DEF MedalSeen, NewMedals
    <3>2. wiped.told[b] > 0 => wiped.told[b] = 1 /\ b \in outlived /\ silent
      BY <1>1, <2>1, <2>2, <2>7 DEF AwardsInv, Pending
    <3> QED BY <2>1, <2>3, <2>4, <3>1, <3>2
  <2> QED BY <2>6, <2>7
<1>6. told' \in [Badges -> Nat]
  BY <1>1, <1>5
<1>7. AwardsTypeOK'
  BY <1>0, <1>1, <1>2, <1>3, <1>4, <1>6 DEF AwardsTypeOK, JudgeRow, WipedRow, Medals
<1>8. ASSUME NEW b \in Badges PROVE Pending(b)'
  <2>1. wiped'.told[b] = 0 /\ wiped'.medals = {} /\ told'[b] \in Nat /\ judging'[Upkeep].at # "wiping"
    BY <1>1, <1>2, <1>6, AwardsParts DEF NotJudging
  <2> QED BY <2>1 DEF Pending
<1>9. Untaken'
  <2> SUFFICES ASSUME revoking.at = "notices", ~revoking.had, NEW b \in revoking.of PROVE medal'[b] = "none"
    BY <1>1 DEF Untaken
  <2>1. new = {} /\ medal[b] = "none" /\ b \in Badges
    BY <1>0, NothingNewWhileRevoking DEF AwardsInv, Untaken, NoRevocation, RevocationRow
  <2> QED BY <1>1, <2>1 DEF MedalSeen
<1>10. Quiet'
  BY <1>1, <1>2 DEF Quiet, NotJudging
<1> QED BY <1>5, <1>7, <1>8, <1>9, <1>10 DEF AwardsInv, ToldOnce

\* An operator's grant and revocation.
LEMMA OperatorsKeep ==
    ASSUME AwardsInv,
           (\E b \in Badges : GrantByHand(b)) \/ FinishRevocation
    PROVE  AwardsInv'
<1>0. /\ AwardsTypeOK /\ judging \in [Judges -> JudgeRow] /\ revoking \in RevocationRow
      /\ told \in [Badges -> Nat] /\ medal \in [Badges -> Medals] /\ outlived \subseteq Badges
      /\ wiped \in WipedRow
  BY AwardsRows DEF AwardsInv
<1>1. ASSUME NEW b \in Badges, GrantByHand(b) PROVE AwardsInv'
  <2>1. /\ UNCHANGED <<personal, proof, suspect, since, failures, outlived, judging, revoking, wiped, revoked>>
        /\ medal' = [medal EXCEPT ![b] = "loud"] /\ told' = [told EXCEPT ![b] = told[b] + 1]
        /\ medal[b] = "none" /\ revoking = NoRevocation
    BY <1>1 DEF GrantByHand, personVars
  <2>2. told' \in [Badges -> Nat] /\ medal' \in [Badges -> Medals]
    BY <1>0, <2>1 DEF Medals
  <2>3. AwardsTypeOK'
    BY <1>0, <2>1, <2>2 DEF AwardsTypeOK, Medals
  <2>4. ToldOnce'
    BY <1>0, <2>1 DEF AwardsInv, ToldOnce
  <2>5. ASSUME NEW c \in Badges PROVE Pending(c)'
    <3>1. told[c] \in Nat /\ wiped.told[c] \in Nat /\ told'[c] \in {told[c], told[c] + 1}
      BY <1>0, <2>1 DEF WipedRow
    <3> QED BY <2>1, <3>1 DEF AwardsInv, Pending
  <2>6. Untaken' /\ Quiet'
    BY <2>1 DEF AwardsInv, Untaken, Quiet, NoRevocation
  <2> QED BY <2>3, <2>4, <2>5, <2>6 DEF AwardsInv
<1>2. CASE FinishRevocation
  <2>1. /\ UNCHANGED <<personal, proof, suspect, since, failures, judging, wiped>>
        /\ medal' = [b \in Badges |-> IF b \in revoking.of /\ revoking.had THEN "none" ELSE medal[b]]
        /\ told' = [b \in Badges |-> IF b \in revoking.of THEN 0 ELSE told[b]]
        /\ revoked' = revoked \cup revoking.of /\ outlived' = outlived \ revoking.of
        /\ revoking' = NoRevocation
        /\ revoking.at = "notices" /\ \A b \in revoking.of : ~(wiped.told[b] > 0)
    BY <1>2 DEF FinishRevocation, NoticesHeld, personVars
  <2>2. /\ told' \in [Badges -> Nat] /\ medal' \in [Badges -> Medals]
        /\ revoked' \subseteq Badges /\ revoking' \in RevocationRow
    BY <1>0, <2>1, AwardsParts DEF Medals, RevocationRow, AwardsTypeOK
  <2>3. AwardsTypeOK'
    BY <1>0, <2>1, <2>2 DEF AwardsTypeOK, Medals, RevocationRow
  <2>4. ASSUME NEW b \in Badges
        PROVE  /\ told'[b] = (IF medal'[b] = "loud" THEN 1 ELSE 0) + (IF b \in outlived' THEN 1 ELSE 0)
               /\ Pending(b)'
    <3>1. CASE b \in revoking.of
      <4>1. medal'[b] = "none" /\ told'[b] = 0 /\ b \notin outlived'
        BY <2>1, <3>1 DEF AwardsInv, Untaken
      <4>2. wiped'.told[b] = 0
        BY <1>0, <2>1, <3>1 DEF WipedRow
      <4> QED BY <4>1, <4>2 DEF Pending
    <3>2. CASE b \notin revoking.of
      <4>1. medal'[b] = medal[b] /\ told'[b] = told[b] /\ (b \in outlived' <=> b \in outlived)
        BY <2>1, <3>2
      <4> QED BY <2>1, <4>1 DEF AwardsInv, ToldOnce, Pending
    <3> QED BY <3>1, <3>2
  <2>5. Untaken' /\ Quiet'
    BY <2>1 DEF AwardsInv, Untaken, Quiet, NoRevocation
  <2> QED BY <2>3, <2>4, <2>5 DEF AwardsInv, ToldOnce
<1> QED BY <1>1, <1>2

\* A revocation begins, takes the grant, or is rolled back.
LEMMA RevocationKeeps ==
    ASSUME AwardsInv,
           \/ \E b \in Badges : RevokeBadge(b)
           \/ DeleteGrant
           \/ BreakDeadlock /\ UNCHANGED <<judging, wiped>>
    PROVE  AwardsInv'
<1>0. /\ proof \subseteq Badges /\ suspect \in BOOLEAN /\ since \in 0..JobsBack
      /\ failures \in 0..MaxFailures /\ revoked \subseteq Badges /\ revoking \in RevocationRow
      /\ judging \in [Judges -> JudgeRow]
  BY AwardsRows DEF AwardsInv
<1>1. UNCHANGED <<medal, told, outlived, wiped, personal, proof, suspect, since, failures, revoked, judging>>
  BY DEF RevokeBadge, DeleteGrant, BreakDeadlock, UpkeepRollsBack, personVars, medalVars
<1>2. revoking' \in RevocationRow /\ Untaken'
  <2>1. ASSUME NEW b \in Badges, RevokeBadge(b) PROVE revoking' \in RevocationRow /\ Untaken'
    BY <2>1 DEF RevokeBadge, RevocationRow, Untaken
  <2>2. CASE DeleteGrant
    <3>1. revoking' = [revoking EXCEPT !.at = "notices", !.had = \E b \in revoking.of : medal[b] # "none"]
      BY <2>2 DEF DeleteGrant
    <3>2. PICK had \in BOOLEAN : had <=> \E b \in revoking.of : medal[b] # "none"
      OBVIOUS
    <3>3. revoking'.of = revoking.of /\ revoking' \in RevocationRow
          /\ (~revoking'.had => \A b \in revoking.of : medal[b] = "none")
      BY <1>0, <3>1, <3>2 DEF RevocationRow
    <3> QED BY <1>1, <3>3 DEF Untaken
  <2>3. CASE BreakDeadlock /\ UNCHANGED <<judging, wiped>>
    <3>1. CASE revoking' = NoRevocation
      BY <3>1, AwardsParts DEF Untaken, NoRevocation
    <3>2. CASE UNCHANGED revoking
      BY <1>0, <1>1, <3>2 DEF AwardsInv, Untaken
    <3> QED BY <2>3, <3>1, <3>2 DEF BreakDeadlock
  <2> QED BY <2>1, <2>2, <2>3
<1> QED BY <1>0, <1>1, <1>2, AwardsKeep DEF AwardsInv, Quiet

LEMMA AwardsStep == AwardsInv /\ [AwardsNext]_awardVars => AwardsInv'
<1> SUFFICES ASSUME AwardsInv, [AwardsNext]_awardVars
             PROVE  AwardsInv'
    OBVIOUS
<1>0. failures \in 0..MaxFailures
  BY AwardsRows DEF AwardsInv
<1>1. CASE \/ \E r \in Occasions, b \in Badges : Earn(r, b) \/ EarnByMate(r, b)
           \/ \E r \in Occasions : ClearPerson(r)
           \/ \E b \in Badges : Withdraw(b)
           \/ FlagPerson
  BY <1>1, PersonKeeps
<1>2. CASE \/ HourlyJob \/ Backfill
           \/ \E j \in Judges : Judge(j)
           \/ \E r \in Occasions : Fail(r)
  BY <1>2, JudgesKeep
<1>3. CASE FailUpkeep
  <2>1. failures' \in 0..MaxFailures
    BY <1>0, <1>3, AwardsParts DEF FailUpkeep
  <2> QED BY <1>3, <2>1, UpkeepFails DEF FailUpkeep
<1>4. CASE ResetNotices \/ ResetGrants
  BY <1>4, ResetKeeps
<1>5. ASSUME NEW j \in Judges, Grant(j) PROVE AwardsInv'
  BY <1>5, RequestGrants, UpkeepGrants
<1>6. CASE (\E b \in Badges : GrantByHand(b)) \/ FinishRevocation
  BY <1>6, OperatorsKeep
<1>7. CASE (\E b \in Badges : RevokeBadge(b)) \/ DeleteGrant
  BY <1>7, RevocationKeeps
<1>8. CASE BreakDeadlock
  <2>1. CASE UNCHANGED <<judging, wiped>>
    BY <1>8, <2>1, RevocationKeeps
  <2>2. CASE UpkeepRollsBack /\ UNCHANGED revoking
    BY <1>0, <1>8, <2>2, UpkeepFails DEF BreakDeadlock, personVars, medalVars
  <2> QED BY <1>8, <2>1, <2>2 DEF BreakDeadlock
<1>9. CASE UNCHANGED awardVars
  <2>1. UNCHANGED <<personal, proof, suspect, since, medal, told, outlived, judging, revoking, wiped,
                    revoked, failures>>
    BY <1>9 DEF awardVars, personVars, medalVars
  <2> QED BY <2>1 DEF AwardsInv, AwardsTypeOK, ToldOnce, Untaken, Quiet, Pending
<1> QED BY <1>1, <1>2, <1>3, <1>4, <1>5, <1>6, <1>7, <1>8, <1>9 DEF AwardsNext

\* A badge granted by a rule or an operator is announced once, and one from
\* the history, or taken back, not at all, for any number of requests, jobs
\* and operators; a reset leaves the one announcement of what was granted
\* between its two statements (evaluate, admin_actions.apply, backfill).
THEOREM BadgesToldOnce == AwardsSpec => []ToldOnce
<1>1. AwardsInv => ToldOnce
  BY DEF AwardsInv
<1> QED BY <1>1, AwardsBegin, AwardsStep, PTL DEF AwardsSpec

\* The rows of the achievements and of those who judge them are what they
\* should be.
LEMMA AwardsTypesHold == AwardsInit /\ [][AwardsNext]_awardVars => []AwardsTypeOK
<1>1. AwardsInv => AwardsTypeOK
  BY DEF AwardsInv
<1> QED BY <1>1, AwardsBegin, AwardsStep, PTL

-----------------------------------------------------------------------------
(* HelpEncoder: what carries it is that the one slot is somewhere, spare, on *)
(* its way to one caller or in one encode, and that the line holds just who *)
(* stands in it, each once.                                                 *)

CallerStates == {"away"} \cup Standing \cup Answers

EncoderTypes ==
    /\ caller \in [Questions -> CallerStates]
    /\ line \in Seq(Questions)
    /\ encodes \subseteq Questions

SlotSomewhere ==
    \/ spare = 1 /\ HandedTo = {} /\ encodes = {}
    \/ spare = 0 /\ encodes = {} /\ \E q \in Questions : HandedTo = {q}
    \/ spare = 0 /\ HandedTo = {} /\ \E q \in Questions : encodes = {q}

\* Whose encode runs is past the line.
PastTheLine == \A q \in encodes : caller[q] \notin {"away", "line", "handed"}

\* `seq` lines up those who stand in line in `callers`.
LinesUp(seq, callers) ==
    /\ \A i \in DOMAIN seq : callers[seq[i]] = "line"
    /\ \A q \in Questions : callers[q] = "line" => \E i \in DOMAIN seq : seq[i] = q
    /\ \A i, j \in DOMAIN seq : seq[i] = seq[j] => i = j

Admitted(callers) == {q \in Questions : callers[q] \in Standing}
CountIsTheirs ==
    /\ IsFiniteSet(Admitted(caller))
    /\ waiting = Cardinality(Admitted(caller)) /\ waiting <= MaxWaiting

EncoderInv ==
    /\ EncoderTypes /\ SlotSomewhere /\ PastTheLine
    /\ LinesUp(line, caller) /\ (line # <<>> => spare = 0)
    /\ CountIsTheirs

\* One more, or one fewer, stands there.
LEMMA OneMore ==
    ASSUME CountIsTheirs, NEW q \in Questions, NEW callers, callers \in [Questions -> CallerStates],
           caller[q] \notin Standing, callers[q] \in Standing,
           \A p \in Questions \ {q} : callers[p] \in Standing <=> caller[p] \in Standing
    PROVE  /\ IsFiniteSet(Admitted(callers)) /\ waiting \in Nat
           /\ Cardinality(Admitted(callers)) = waiting + 1
<1>1. Admitted(callers) = Admitted(caller) \cup {q} /\ q \notin Admitted(caller)
  BY DEF Admitted
<1>2. Cardinality(Admitted(caller)) \in Nat
  BY FS_CardinalityType DEF CountIsTheirs
<1> QED
  BY <1>1, <1>2, FS_AddElement DEF CountIsTheirs

LEMMA OneFewer ==
    ASSUME CountIsTheirs, NEW q \in Questions, NEW callers, callers \in [Questions -> CallerStates],
           caller[q] \in Standing, callers[q] \notin Standing, waiting' = waiting - 1,
           \A p \in Questions \ {q} : callers[p] \in Standing <=> caller[p] \in Standing
    PROVE  /\ IsFiniteSet(Admitted(callers))
           /\ waiting' = Cardinality(Admitted(callers)) /\ waiting' <= MaxWaiting
<1>1. Admitted(callers) = Admitted(caller) \ {q} /\ q \in Admitted(caller)
  BY DEF Admitted
<1>2. Cardinality(Admitted(caller)) \in Nat /\ MaxWaiting \in Nat
  BY FS_CardinalityType, EncoderAssumption DEF CountIsTheirs
<1>3. IsFiniteSet(Admitted(callers)) /\ Cardinality(Admitted(callers)) = Cardinality(Admitted(caller)) - 1
  BY <1>1, FS_RemoveElement DEF CountIsTheirs
<1> QED
  BY <1>2, <1>3 DEF CountIsTheirs

LEMMA SameCount ==
    ASSUME CountIsTheirs, UNCHANGED waiting, caller' \in [Questions -> CallerStates],
           \A p \in Questions : caller'[p] \in Standing <=> caller[p] \in Standing
    PROVE  CountIsTheirs'
<1>1. Admitted(caller') = Admitted(caller)
  BY DEF Admitted
<1> QED
  BY <1>1 DEF CountIsTheirs

\* One caller moves.
LEMMA CallerMoves ==
    ASSUME NEW callers \in [Questions -> CallerStates], NEW q \in Questions, NEW to \in CallerStates,
           NEW moved, moved = [callers EXCEPT ![q] = to]
    PROVE  /\ moved \in [Questions -> CallerStates] /\ moved[q] = to
           /\ \A p \in Questions \ {q} : moved[p] = callers[p]
OBVIOUS

\* The line without one of those in it.
LEMMA OneStepsOut ==
    ASSUME NEW seq \in Seq(Questions), NEW callers \in [Questions -> CallerStates], LinesUp(seq, callers),
           NEW k \in DOMAIN seq, NEW to \in CallerStates \ {"line"},
           NEW moved, moved = [callers EXCEPT ![seq[k]] = to]
    PROVE  /\ RemoveAt(seq, k) \in Seq(Questions) /\ LinesUp(RemoveAt(seq, k), moved)
           /\ RemoveAt(seq, k) # <<>> => seq # <<>>
<1>1. PICK n \in Nat : n = Len(seq)
  OBVIOUS
<1>2. DOMAIN seq = 1..n /\ k \in 1..n /\ seq[k] \in Questions
  BY <1>1
<1>3. PICK rest : rest = RemoveAt(seq, k)
  OBVIOUS
<1>4. /\ rest \in Seq(Questions) /\ Len(rest) = n - 1
      /\ \A j \in 1..(n - 1) : rest[j] = IF j < k THEN seq[j] ELSE seq[j + 1]
  <2>0. PICK a \in Nat : a = k - 1
    BY <1>2
  <2>1. PICK front \in Seq(Questions) : /\ front = SubSeq(seq, 1, a) /\ Len(front) = a
                                       /\ \A j \in 1..a : front[j] = seq[j]
    <3>1. a \in Int /\ 1 \in Int /\ \A j \in 1..a : seq[j] \in Questions
      BY <1>1, <1>2, <2>0
    <3>2. /\ SubSeq(seq, 1, a) \in Seq(Questions)
          /\ Len(SubSeq(seq, 1, a)) = IF 1 <= a THEN a - 1 + 1 ELSE 0
          /\ \A j \in 1..(a - 1 + 1) : SubSeq(seq, 1, a)[j] = seq[1 + j - 1]
      BY ONLY <3>1, SubSeqProperties
    <3>3. a - 1 + 1 = a /\ (~(1 <= a) => a = 0) /\ \A j \in 1..a : 1 + j - 1 = j
      OBVIOUS
    <3> QED
      BY <3>2, <3>3
  <2>2. PICK back \in Seq(Questions) : /\ back = SubSeq(seq, k + 1, n) /\ Len(back) = n - k
                                      /\ \A j \in 1..(n - k) : back[j] = seq[j + k]
    <3>1. k + 1 \in Int /\ n \in Int /\ \A j \in (k + 1)..n : seq[j] \in Questions
      BY <1>1, <1>2
    <3>2. /\ SubSeq(seq, k + 1, n) \in Seq(Questions)
          /\ Len(SubSeq(seq, k + 1, n)) = IF k + 1 <= n THEN n - (k + 1) + 1 ELSE 0
          /\ \A j \in 1..(n - (k + 1) + 1) : SubSeq(seq, k + 1, n)[j] = seq[(k + 1) + j - 1]
      BY <3>1, SubSeqProperties
    <3>3. /\ n - (k + 1) + 1 = n - k /\ (~(k + 1 <= n) => n - k = 0)
          /\ \A j \in 1..(n - k) : (k + 1) + j - 1 = j + k
      BY <1>1, <1>2
    <3> QED
      BY <3>2, <3>3
  <2>3. rest = front \o back
    BY <1>1, <1>3, <2>0, <2>1, <2>2 DEF RemoveAt
  <2>4. /\ rest \in Seq(Questions) /\ Len(rest) = (k - 1) + (n - k)
        /\ \A j \in 1..((k - 1) + (n - k)) : rest[j] = IF j <= k - 1 THEN front[j] ELSE back[j - (k - 1)]
    <3>1. PICK b \in Nat : b = n - k
      BY <1>1, <1>2
    <3>2. Len(front) = a /\ Len(back) = b
      BY <2>1, <2>2, <3>1
    <3>3. /\ front \o back \in Seq(Questions) /\ Len(front \o back) = Len(front) + Len(back)
          /\ \A j \in 1..(Len(front) + Len(back)) :
                (front \o back)[j] = IF j <= Len(front) THEN front[j] ELSE back[j - Len(front)]
      BY ONLY <2>1, <2>2, ConcatProperties
    <3> QED
      BY <2>0, <2>3, <3>1, <3>2, <3>3
  <2>5. /\ (k - 1) + (n - k) = n - 1
        /\ \A j \in 1..(n - 1) : /\ (j <= k - 1) <=> (j < k)
                                 /\ j < k => j \in 1..(k - 1)
                                 /\ ~(j < k) => j - (k - 1) \in 1..(n - k) /\ (j - (k - 1)) + k = j + 1
    BY <1>1, <1>2
  <2>6. ASSUME NEW j \in 1..(n - 1) PROVE rest[j] = IF j < k THEN seq[j] ELSE seq[j + 1]
    <3>1. CASE j < k
      BY <2>0, <2>1, <2>4, <2>5, <3>1
    <3>2. CASE ~(j < k)
      <4>1. rest[j] = back[j - (k - 1)]
        BY <2>4, <2>5, <3>2
      <4>2. back[j - (k - 1)] = seq[(j - (k - 1)) + k]
        BY <2>2, <2>5, <3>2
      <4> QED
        BY <2>5, <3>2, <4>1, <4>2
    <3> QED
      BY <3>1, <3>2
  <2> QED
    BY <2>4, <2>5, <2>6
<1>5. DOMAIN rest = 1..(n - 1)
  BY <1>4
<1>6. /\ moved[seq[k]] = to /\ to # "line"
      /\ \A p \in Questions : p # seq[k] => moved[p] = callers[p]
  BY <1>2
<1>7. \A j \in DOMAIN rest : \E i \in 1..n : i # k /\ rest[j] = seq[i] /\ (i = IF j < k THEN j ELSE j + 1)
  BY <1>2, <1>4, <1>5
<1>8. \A i \in 1..n : i # k => \E j \in DOMAIN rest : rest[j] = seq[i]
  <2> SUFFICES ASSUME NEW i \in 1..n, i # k PROVE \E j \in DOMAIN rest : rest[j] = seq[i]
    OBVIOUS
  <2>1. CASE i < k
    BY <1>2, <1>4, <1>5, <2>1
  <2>2. CASE i > k
    <3>1. i - 1 \in 1..(n - 1) /\ ~(i - 1 < k) /\ (i - 1) + 1 = i
      BY <1>2, <2>2
    <3>2. rest[i - 1] = seq[i]
      BY <1>4, <3>1
    <3> QED
      BY <1>5, <3>1, <3>2
  <2> QED
    BY <1>2, <2>1, <2>2
<1>9. LinesUp(rest, moved)
  <2>1. \A j \in DOMAIN rest : moved[rest[j]] = "line"
    <3> SUFFICES ASSUME NEW j \in DOMAIN rest PROVE moved[rest[j]] = "line"
      OBVIOUS
    <3>1. PICK i \in 1..n : i # k /\ rest[j] = seq[i]
      BY <1>7
    <3>2. seq[i] # seq[k] /\ callers[seq[i]] = "line" /\ seq[i] \in Questions
      BY <1>2, <3>1 DEF LinesUp
    <3> QED
      BY <1>6, <3>1, <3>2
  <2>2. ASSUME NEW p \in Questions, moved[p] = "line" PROVE \E j \in DOMAIN rest : rest[j] = p
    <3>1. p # seq[k] /\ callers[p] = "line"
      BY <1>6, <2>2
    <3>2. PICK i \in 1..n : seq[i] = p
      BY <1>2, <3>1 DEF LinesUp
    <3> QED
      BY <1>8, <3>1, <3>2
  <2>3. ASSUME NEW a \in DOMAIN rest, NEW b \in DOMAIN rest, rest[a] = rest[b] PROVE a = b
    <3>1. PICK i \in 1..n : rest[a] = seq[i] /\ (i = IF a < k THEN a ELSE a + 1)
      BY <1>7
    <3>2. PICK j \in 1..n : rest[b] = seq[j] /\ (j = IF b < k THEN b ELSE b + 1)
      BY <1>7
    <3>3. i = j
      BY <1>2, <2>3, <3>1, <3>2 DEF LinesUp
    <3>4. a \in Nat /\ b \in Nat /\ k \in Nat
      BY <1>2, <1>5
    <3> QED
      BY <3>1, <3>2, <3>3, <3>4
  <2> QED
    BY <2>1, <2>2, <2>3 DEF LinesUp
<1>10. seq # <<>>
  BY <1>1, <1>2
<1> QED
  BY <1>3, <1>4, <1>9, <1>10
\* The first in line leaves it.
LEMMA FirstStepsOut ==
    ASSUME NEW seq \in Seq(Questions), seq # <<>>, NEW callers \in [Questions -> CallerStates],
           LinesUp(seq, callers), NEW to \in CallerStates \ {"line"},
           NEW moved, moved = [callers EXCEPT ![Head(seq)] = to]
    PROVE  /\ Tail(seq) \in Seq(Questions) /\ LinesUp(Tail(seq), moved)
           /\ Head(seq) \in Questions /\ callers[Head(seq)] = "line"
<1>1. PICK n \in Nat : n = Len(seq) /\ n > 0 /\ DOMAIN seq = 1..n
  OBVIOUS
<1>2. PICK first \in Questions : first = Head(seq) /\ first = seq[1] /\ callers[first] = "line"
  BY <1>1 DEF LinesUp
<1>3. PICK rest \in Seq(Questions) : /\ rest = Tail(seq) /\ DOMAIN rest = 1..(n - 1)
                                    /\ \A i \in 1..(n - 1) : rest[i] = seq[i + 1]
  <2>1. /\ Tail(seq) \in Seq(Questions) /\ Len(Tail(seq)) = Len(seq) - 1
        /\ \A i \in 1..Len(Tail(seq)) : Tail(seq)[i] = seq[i + 1]
    BY HeadTailProperties
  <2>2. PICK rest \in Seq(Questions) : rest = Tail(seq)
    BY <2>1
  <2>3. Len(rest) = n - 1 /\ DOMAIN rest = 1..Len(rest)
    BY <1>1, <2>1, <2>2
  <2> QED
    BY <2>1, <2>2, <2>3
<1>4. moved[first] = to /\ to # "line" /\ \A p \in Questions : p # first => moved[p] = callers[p]
  BY <1>2
<1>5. \A i \in 1..(n - 1) : i + 1 \in 1..n /\ i + 1 # 1 /\ seq[i + 1] \in Questions
  BY <1>1
<1>6. \A i \in DOMAIN rest : moved[rest[i]] = "line"
  BY <1>1, <1>2, <1>3, <1>4, <1>5 DEF LinesUp
<1>7. ASSUME NEW p \in Questions, moved[p] = "line" PROVE \E i \in DOMAIN rest : rest[i] = p
  <2>1. p # first /\ callers[p] = "line"
    BY <1>4, <1>7
  <2>2. PICK k \in 1..n : seq[k] = p /\ k # 1
    BY <1>1, <1>2, <2>1 DEF LinesUp
  <2>3. k - 1 \in 1..(n - 1) /\ (k - 1) + 1 = k
    BY <1>1, <2>2
  <2>4. rest[k - 1] = p
    BY <1>3, <2>2, <2>3
  <2> QED
    BY <1>3, <2>3, <2>4
<1>8. ASSUME NEW i \in DOMAIN rest, NEW j \in DOMAIN rest, rest[i] = rest[j] PROVE i = j
  <2>1. i + 1 \in 1..n /\ j + 1 \in 1..n /\ seq[i + 1] = seq[j + 1] /\ i \in Nat /\ j \in Nat
    BY <1>3, <1>5, <1>8
  <2>2. i + 1 = j + 1
    BY <1>1, <2>1 DEF LinesUp
  <2> QED
    BY <2>1, <2>2
<1>9. LinesUp(rest, moved)
  BY <1>6, <1>7, <1>8 DEF LinesUp
<1> QED
  BY <1>2, <1>3, <1>9

\* A slot that comes back goes to the first in line, or is spare.
LEMMA SlotComesBack ==
    ASSUME NEW callers \in [Questions -> CallerStates], line \in Seq(Questions), LinesUp(line, callers),
           spare = 0, \A p \in Questions : callers[p] # "handed", encodes' = {}, HandOn(callers, line)
    PROVE  /\ caller' \in [Questions -> CallerStates] /\ line' \in Seq(Questions)
           /\ SlotSomewhere' /\ LinesUp(line', caller') /\ (line' # <<>> => spare' = 0)
           /\ \A p \in Questions : caller'[p] \in Standing <=> callers[p] \in Standing
<1>1. CASE line = <<>>
  <2>1. caller' = callers /\ line' = line /\ spare' = 1
    BY <1>1 DEF HandOn
  <2>2. HandedTo' = {}
    BY <2>1 DEF HandedTo
  <2> QED
    BY <1>1, <2>1, <2>2 DEF SlotSomewhere
<1>2. CASE line # <<>>
  <2>1. caller' = [callers EXCEPT ![Head(line)] = "handed"] /\ line' = Tail(line) /\ spare' = 0
    BY <1>2 DEF HandOn
  <2>2. "handed" \in CallerStates \ {"line"}
    BY DEF CallerStates, Standing
  <2>3. /\ line' \in Seq(Questions) /\ LinesUp(line', caller')
        /\ Head(line) \in Questions /\ callers[Head(line)] = "line"
    BY <1>2, <2>1, <2>2, FirstStepsOut
  <2>4. /\ caller' \in [Questions -> CallerStates] /\ caller'[Head(line)] = "handed"
        /\ \A p \in Questions \ {Head(line)} : caller'[p] = callers[p]
    BY <2>1, <2>2, <2>3
  <2>5. HandedTo' = {Head(line)}
    BY <2>3, <2>4 DEF HandedTo
  <2>6. \A p \in Questions : caller'[p] \in Standing <=> callers[p] \in Standing
    BY <2>3, <2>4 DEF Standing
  <2> QED
    BY <2>1, <2>3, <2>4, <2>5, <2>6 DEF SlotSomewhere
<1> QED
  BY <1>1, <1>2

LEMMA EncoderBegins == EncoderInit => EncoderInv
<1> SUFFICES ASSUME EncoderInit PROVE EncoderInv
  OBVIOUS
<1>1. /\ caller = [q \in Questions |-> "away"] /\ line = <<>> /\ encodes = {}
      /\ spare = 1 /\ waiting = 0
  BY DEF EncoderInit
<1>2. Admitted(caller) = {} /\ HandedTo = {}
  BY <1>1 DEF Admitted, Standing, HandedTo
<1>3. EncoderTypes
  BY <1>1 DEF EncoderTypes, CallerStates
<1>4. CountIsTheirs
  <2>1. IsFiniteSet(Admitted(caller)) /\ Cardinality(Admitted(caller)) = 0
    BY <1>2, FS_EmptySet
  <2>2. 0 <= MaxWaiting
    BY EncoderAssumption
  <2> QED
    BY <1>1, <2>1, <2>2 DEF CountIsTheirs
<1> QED
  BY <1>1, <1>2, <1>3, <1>4 DEF EncoderInv, SlotSomewhere, PastTheLine, LinesUp

\* A caller leaves the line, or hands its slot on, and is answered.
LEMMA LeavingKeeps ==
    ASSUME EncoderInv, NEW q \in Questions, NEW answer \in Answers, LeaveLine(q, answer),
           waiting' = waiting - 1, UNCHANGED encodes
    PROVE  EncoderInv'
<1>0. /\ caller \in [Questions -> CallerStates] /\ line \in Seq(Questions) /\ LinesUp(line, caller)
      /\ answer \in CallerStates \ {"line"} /\ answer \notin Standing /\ answer # "handed" /\ answer # "away"
      /\ encodes \subseteq Questions /\ CountIsTheirs
  BY DEF EncoderInv, EncoderTypes, CallerStates, Answers, Standing
<1>1. PICK moved \in [Questions -> CallerStates] :
         /\ moved = [caller EXCEPT ![q] = answer] /\ moved[q] = answer
         /\ \A p \in Questions \ {q} : moved[p] = caller[p]
  <2>1. PICK moved : moved = [caller EXCEPT ![q] = answer]
    OBVIOUS
  <2>2. /\ moved \in [Questions -> CallerStates] /\ moved[q] = answer
        /\ \A p \in Questions \ {q} : moved[p] = caller[p]
    BY <1>0, <2>1, CallerMoves
  <2> QED
    BY <2>1, <2>2
<1>2. CASE caller[q] = "line" /\ caller' = [caller EXCEPT ![q] = answer] /\ StepOut(q) /\ UNCHANGED spare
  <2>1. PICK k \in DOMAIN line : line[k] = q /\ line' = RemoveAt(line, k)
    BY <1>2 DEF StepOut
  <2>2. line' \in Seq(Questions) /\ LinesUp(line', caller') /\ (line' # <<>> => line # <<>>)
    BY <1>0, <1>2, <2>1, OneStepsOut
  <2>3. caller' = moved
    BY <1>1, <1>2
  <2>4. HandedTo' = HandedTo
    <3>1. \A p \in Questions : moved[p] = "handed" <=> caller[p] = "handed"
      BY <1>0, <1>1, <1>2
    <3> QED
      BY <2>3, <3>1 DEF HandedTo
  <2>5. SlotSomewhere'
    BY <1>2, <2>4 DEF EncoderInv, SlotSomewhere
  <2>6. PastTheLine'
    BY <1>0, <1>1, <1>2, <2>3 DEF EncoderInv, PastTheLine
  <2>7. caller[q] \in Standing /\ moved[q] \notin Standing
    BY <1>0, <1>1, <1>2 DEF Standing
  <2>8. CountIsTheirs'
    BY <1>0, <1>1, <2>3, <2>7, OneFewer DEF CountIsTheirs
  <2> QED
    BY <1>0, <1>1, <1>2, <2>2, <2>3, <2>5, <2>6, <2>8 DEF EncoderInv, EncoderTypes
<1>3. CASE caller[q] = "handed" /\ HandOn([caller EXCEPT ![q] = answer], line)
  <2>1. q \in HandedTo
    BY <1>3 DEF HandedTo
  <2>2. spare = 0 /\ encodes = {} /\ HandedTo = {q}
    BY <2>1 DEF EncoderInv, SlotSomewhere
  <2>3. \A p \in Questions : moved[p] # "handed"
    BY <1>0, <1>1, <2>2 DEF HandedTo
  <2>4. LinesUp(line, moved)
    BY <1>0, <1>1, <1>3 DEF LinesUp
  <2>5. /\ caller' \in [Questions -> CallerStates] /\ line' \in Seq(Questions)
        /\ SlotSomewhere' /\ LinesUp(line', caller') /\ (line' # <<>> => spare' = 0)
        /\ \A p \in Questions : caller'[p] \in Standing <=> moved[p] \in Standing
    BY <1>0, <1>1, <1>3, <2>2, <2>3, <2>4, SlotComesBack
  <2>6. caller[q] \in Standing /\ caller'[q] \notin Standing
    BY <1>0, <1>1, <1>3, <2>5 DEF Standing
  <2>7. \A p \in Questions \ {q} : caller'[p] \in Standing <=> caller[p] \in Standing
    BY <1>1, <2>5
  <2>8. CountIsTheirs'
    BY <1>0, <2>5, <2>6, <2>7, OneFewer DEF CountIsTheirs
  <2>9. PastTheLine'
    BY <2>2 DEF PastTheLine
  <2> QED
    BY <1>0, <2>2, <2>5, <2>8, <2>9 DEF EncoderInv, EncoderTypes
<1> QED
  BY <1>2, <1>3 DEF LeaveLine
\* A question that is turned away, gets the slot or joins the line.
LEMMA AskingKeeps ==
    ASSUME EncoderInv, NEW q \in Questions, AskForVector(q)
    PROVE  EncoderInv'
<1>0. /\ caller \in [Questions -> CallerStates] /\ line \in Seq(Questions) /\ LinesUp(line, caller)
      /\ encodes \subseteq Questions /\ CountIsTheirs /\ PastTheLine /\ SlotSomewhere
      /\ (line # <<>> => spare = 0) /\ caller[q] = "away" /\ q \notin encodes
      /\ waiting \in Nat /\ MaxWaiting \in Nat /\ waiting <= MaxWaiting
  BY FS_CardinalityType, EncoderAssumption
     DEF EncoderInv, EncoderTypes, PastTheLine, CountIsTheirs, AskForVector
<1>1. ASSUME NEW to \in CallerStates \ {"away", "handed"}, caller' = [caller EXCEPT ![q] = to]
      PROVE  /\ caller' \in [Questions -> CallerStates] /\ caller'[q] = to
             /\ \A p \in Questions \ {q} : caller'[p] = caller[p]
             /\ HandedTo' = HandedTo
  <2>1. /\ caller' \in [Questions -> CallerStates] /\ caller'[q] = to
        /\ \A p \in Questions \ {q} : caller'[p] = caller[p]
    BY <1>0, <1>1, CallerMoves
  <2>2. \A p \in Questions : caller'[p] = "handed" <=> caller[p] = "handed"
    BY <1>0, <2>1
  <2> QED
    BY <2>1, <2>2 DEF HandedTo
<1>2. CASE caller' = [caller EXCEPT ![q] = "words"] /\ UNCHANGED <<line, encodes, spare, waiting>>
  <2>1. "words" \in CallerStates \ {"away", "handed"} /\ "words" \notin Standing /\ "away" \notin Standing
    BY DEF CallerStates, Standing, Answers
  <2>2. /\ caller' \in [Questions -> CallerStates] /\ caller'[q] = "words"
        /\ \A p \in Questions \ {q} : caller'[p] = caller[p]
        /\ HandedTo' = HandedTo
    BY <1>1, <1>2, <2>1
  <2>3. \A p \in Questions : caller'[p] \in Standing <=> caller[p] \in Standing
    BY <1>0, <2>1, <2>2
  <2>4. CountIsTheirs'
    BY <1>0, <1>2, <2>2, <2>3, SameCount
  <2>5. LinesUp(line', caller')
    <3>1. \A i \in DOMAIN line : line[i] \in Questions /\ line[i] # q
      BY <1>0 DEF LinesUp
    <3> QED
      BY <1>0, <1>2, <2>2, <3>1 DEF LinesUp
  <2>6. SlotSomewhere' /\ PastTheLine'
    BY <1>0, <1>2, <2>2 DEF SlotSomewhere, PastTheLine
  <2> QED
    BY <1>0, <1>2, <2>2, <2>4, <2>5, <2>6 DEF EncoderInv, EncoderTypes
<1>3. ASSUME NEW to \in {"coding", "line"}, caller' = [caller EXCEPT ![q] = to], waiting < MaxWaiting,
             waiting' = waiting + 1
      PROVE  /\ CountIsTheirs' /\ caller' \in [Questions -> CallerStates] /\ caller'[q] = to
             /\ \A p \in Questions \ {q} : caller'[p] = caller[p]
             /\ HandedTo' = HandedTo
  <2>1. to \in CallerStates \ {"away", "handed"} /\ to \in Standing /\ "away" \notin Standing
    BY DEF CallerStates, Standing, Answers
  <2>2. /\ caller' \in [Questions -> CallerStates] /\ caller'[q] = to
        /\ \A p \in Questions \ {q} : caller'[p] = caller[p]
        /\ HandedTo' = HandedTo
    BY <1>1, <1>3, <2>1
  <2>3. IsFiniteSet(Admitted(caller')) /\ Cardinality(Admitted(caller')) = waiting + 1
    BY <1>0, <2>1, <2>2, OneMore
  <2>4. waiting + 1 <= MaxWaiting
    BY <1>0, <1>3
  <2> QED
    BY <1>3, <2>2, <2>3, <2>4 DEF CountIsTheirs
<1>4. CASE /\ waiting < MaxWaiting /\ waiting' = waiting + 1 /\ spare > 0 /\ spare' = spare - 1
           /\ encodes' = encodes \cup {q} /\ caller' = [caller EXCEPT ![q] = "coding"] /\ UNCHANGED line
  <2>1. /\ CountIsTheirs' /\ caller' \in [Questions -> CallerStates] /\ caller'[q] = "coding"
        /\ \A p \in Questions \ {q} : caller'[p] = caller[p]
        /\ HandedTo' = HandedTo
    BY <1>3, <1>4
  <2>2. spare = 1 /\ HandedTo = {} /\ encodes = {} /\ line = <<>>
    BY <1>0, <1>4 DEF SlotSomewhere
  <2>3. SlotSomewhere' /\ PastTheLine'
    BY <1>4, <2>1, <2>2 DEF SlotSomewhere, PastTheLine
  <2>4. LinesUp(line', caller')
    <3>1. \A p \in Questions : caller'[p] = "line" => caller[p] = "line"
      BY <2>1
    <3> QED
      BY <1>0, <1>4, <2>2, <3>1 DEF LinesUp
  <2>5. line' = <<>> /\ encodes' \subseteq Questions /\ line' \in Seq(Questions)
    BY <1>0, <1>4, <2>2
  <2> QED
    BY <2>1, <2>3, <2>4, <2>5 DEF EncoderInv, EncoderTypes
<1>5. CASE /\ waiting < MaxWaiting /\ waiting' = waiting + 1 /\ ~(spare > 0)
           /\ caller' = [caller EXCEPT ![q] = "line"] /\ line' = Append(line, q) /\ UNCHANGED <<encodes, spare>>
  <2>1. /\ CountIsTheirs' /\ caller' \in [Questions -> CallerStates] /\ caller'[q] = "line"
        /\ \A p \in Questions \ {q} : caller'[p] = caller[p]
        /\ HandedTo' = HandedTo
    BY <1>3, <1>5
  <2>2. spare' = 0
    BY <1>0, <1>5 DEF SlotSomewhere
  <2>3. SlotSomewhere' /\ PastTheLine'
    BY <1>0, <1>5, <2>1 DEF SlotSomewhere, PastTheLine
  <2>4. line' \in Seq(Questions) /\ LinesUp(line', caller')
    <3>1. PICK n \in Nat : n = Len(line) /\ DOMAIN line = 1..n
      BY <1>0
    <3>2. PICK longer \in Seq(Questions) : /\ longer = Append(line, q) /\ DOMAIN longer = 1..(n + 1)
                                          /\ longer[n + 1] = q /\ \A i \in 1..n : longer[i] = line[i]
      <4>1. /\ Append(line, q) \in Seq(Questions) /\ Len(Append(line, q)) = Len(line) + 1
            /\ \A i \in 1..Len(line) : Append(line, q)[i] = line[i]
            /\ Append(line, q)[Len(line) + 1] = q
        BY <1>0, AppendProperties
      <4>2. PICK longer \in Seq(Questions) : longer = Append(line, q)
        BY <4>1
      <4>3. Len(longer) = n + 1 /\ DOMAIN longer = 1..Len(longer)
        BY <3>1, <4>1, <4>2
      <4> QED
        BY <3>1, <4>1, <4>2, <4>3
    <3>3. \A i \in 1..n : line[i] \in Questions /\ line[i] # q /\ caller[line[i]] = "line"
      BY <1>0, <3>1 DEF LinesUp
    <3>4. longer[n + 1] = q /\ \A i \in 1..(n + 1) : i \in 1..n \/ i = n + 1
      BY <1>0, <3>1, <3>2
    <3>5. \A i \in DOMAIN longer : caller'[longer[i]] = "line"
      BY <2>1, <3>2, <3>3, <3>4
    <3>6. \A p \in Questions : caller'[p] = "line" => \E i \in DOMAIN longer : longer[i] = p
      <4> SUFFICES ASSUME NEW p \in Questions, caller'[p] = "line" PROVE \E i \in DOMAIN longer : longer[i] = p
        OBVIOUS
      <4>1. CASE p = q
        BY <3>2, <3>4, <4>1
      <4>2. CASE p # q
        <5>1. PICK i \in 1..n : line[i] = p
          BY <1>0, <2>1, <3>1, <4>2 DEF LinesUp
        <5> QED
          BY <3>2, <5>1
      <4> QED
        BY <4>1, <4>2
    <3>7. \A i, j \in DOMAIN longer : longer[i] = longer[j] => i = j
      BY <1>0, <3>1, <3>2, <3>3, <3>4 DEF LinesUp
    <3> QED
      BY <1>5, <3>2, <3>5, <3>6, <3>7 DEF LinesUp
  <2> QED
    BY <1>0, <1>5, <2>1, <2>2, <2>3, <2>4 DEF EncoderInv, EncoderTypes
<1> QED
  BY <1>2, <1>4, <1>5 DEF AskForVector
\* The caller who was handed the slot uses it.
LEMMA StartingKeeps ==
    ASSUME EncoderInv, NEW q \in Questions, StartEncode(q)
    PROVE  EncoderInv'
<1>0. /\ caller \in [Questions -> CallerStates] /\ line \in Seq(Questions) /\ LinesUp(line, caller)
      /\ encodes \subseteq Questions /\ CountIsTheirs /\ caller[q] = "handed"
      /\ caller' = [caller EXCEPT ![q] = "coding"] /\ encodes' = encodes \cup {q}
      /\ UNCHANGED <<line, spare, waiting>>
  BY DEF EncoderInv, EncoderTypes, StartEncode
<1>1. spare = 0 /\ encodes = {} /\ HandedTo = {q}
  <2>1. q \in HandedTo
    BY <1>0 DEF HandedTo
  <2> QED
    BY <2>1 DEF EncoderInv, SlotSomewhere
<1>2. "coding" \in CallerStates /\ "coding" \in Standing /\ "handed" \in Standing
  BY DEF CallerStates, Standing
<1>3. /\ caller' \in [Questions -> CallerStates] /\ caller'[q] = "coding"
      /\ \A p \in Questions \ {q} : caller'[p] = caller[p]
  BY <1>0, <1>2, CallerMoves
<1>4. HandedTo' = {}
  BY <1>1, <1>3 DEF HandedTo
<1>5. encodes' = {q} /\ SlotSomewhere' /\ PastTheLine'
  BY <1>0, <1>1, <1>3, <1>4 DEF SlotSomewhere, PastTheLine
<1>6. \A p \in Questions : caller'[p] \in Standing <=> caller[p] \in Standing
  BY <1>0, <1>2, <1>3
<1>7. CountIsTheirs'
  BY <1>0, <1>3, <1>6, SameCount
<1>8. LinesUp(line', caller')
  BY <1>0, <1>3 DEF LinesUp
<1> QED
  BY <1>0, <1>1, <1>3, <1>5, <1>7, <1>8 DEF EncoderInv, EncoderTypes

\* A caller who waits for its encode, or has it, is gone.
LEMMA OnesGone ==
    ASSUME EncoderInv, NEW q \in Questions, caller[q] \in {"coding", "coded", "failed"},
           NEW answer \in Answers, caller' = [caller EXCEPT ![q] = answer],
           waiting' = waiting - 1, UNCHANGED <<line, encodes, spare>>
    PROVE  EncoderInv'
<1>0. /\ caller \in [Questions -> CallerStates] /\ line \in Seq(Questions) /\ LinesUp(line, caller)
      /\ encodes \subseteq Questions /\ CountIsTheirs
  BY DEF EncoderInv, EncoderTypes
<1>1. /\ answer \in CallerStates /\ answer \notin Standing /\ answer \notin {"away", "line", "handed"}
      /\ caller[q] \in Standing /\ caller[q] \notin {"away", "line", "handed"}
  BY DEF CallerStates, Standing, Answers
<1>2. /\ caller' \in [Questions -> CallerStates] /\ caller'[q] = answer
      /\ \A p \in Questions \ {q} : caller'[p] = caller[p]
  BY <1>0, <1>1, CallerMoves
<1>3. HandedTo' = HandedTo
  <2>1. \A p \in Questions : caller'[p] = "handed" <=> caller[p] = "handed"
    BY <1>1, <1>2
  <2> QED
    BY <2>1 DEF HandedTo
<1>4. SlotSomewhere' /\ PastTheLine'
  BY <1>0, <1>1, <1>2, <1>3 DEF EncoderInv, SlotSomewhere, PastTheLine
<1>5. LinesUp(line', caller')
  BY <1>0, <1>1, <1>2 DEF LinesUp
<1>6. CountIsTheirs'
  BY <1>0, <1>1, <1>2, OneFewer DEF CountIsTheirs
<1> QED
  BY <1>0, <1>2, <1>4, <1>5, <1>6 DEF EncoderInv, EncoderTypes

\* The encode ends and the slot comes back.
LEMMA EndingKeeps ==
    ASSUME EncoderInv, NEW q \in Questions, EndEncode(q)
    PROVE  EncoderInv'
<1>0. /\ caller \in [Questions -> CallerStates] /\ line \in Seq(Questions) /\ LinesUp(line, caller)
      /\ encodes \subseteq Questions /\ CountIsTheirs /\ PastTheLine
      /\ q \in encodes /\ encodes' = encodes \ {q} /\ UNCHANGED waiting
  BY DEF EncoderInv, EncoderTypes, EndEncode
<1>1. PICK outcome \in {"coded", "failed"} :
         HandOn([caller EXCEPT ![q] = IF @ = "coding" THEN outcome ELSE @], line)
  BY DEF EndEncode
<1>2. spare = 0 /\ HandedTo = {} /\ encodes' = {}
  BY <1>0 DEF EncoderInv, SlotSomewhere
<1>3. PICK to : to = IF caller[q] = "coding" THEN outcome ELSE caller[q]
  OBVIOUS
<1>4. /\ to \in CallerStates /\ to \notin {"line", "handed"} /\ caller[q] \notin {"line", "handed"}
      /\ (to \in Standing <=> caller[q] \in Standing)
  BY <1>0, <1>3 DEF CallerStates, Standing, PastTheLine
<1>5. PICK moved : moved = [caller EXCEPT ![q] = to]
  OBVIOUS
<1>6. /\ moved \in [Questions -> CallerStates] /\ moved[q] = to
      /\ \A p \in Questions \ {q} : moved[p] = caller[p]
  BY <1>0, <1>4, <1>5, CallerMoves
<1>7. HandOn(moved, line)
  BY <1>1, <1>3, <1>5
<1>8. LinesUp(line, moved)
  BY <1>0, <1>4, <1>6 DEF LinesUp
<1>9. \A p \in Questions : moved[p] # "handed"
  BY <1>2, <1>4, <1>6 DEF HandedTo
<1>10. /\ caller' \in [Questions -> CallerStates] /\ line' \in Seq(Questions)
       /\ SlotSomewhere' /\ LinesUp(line', caller') /\ (line' # <<>> => spare' = 0)
       /\ \A p \in Questions : caller'[p] \in Standing <=> moved[p] \in Standing
  BY <1>0, <1>2, <1>6, <1>7, <1>8, <1>9, SlotComesBack
<1>11. \A p \in Questions : caller'[p] \in Standing <=> caller[p] \in Standing
  BY <1>4, <1>6, <1>10
<1>12. CountIsTheirs'
  BY <1>0, <1>10, <1>11, SameCount
<1> QED
  BY <1>2, <1>10, <1>12 DEF EncoderInv, EncoderTypes, PastTheLine

LEMMA EncoderStep == EncoderInv /\ [EncoderNext]_encoderVars => EncoderInv'
<1> SUFFICES ASSUME EncoderInv, [EncoderNext]_encoderVars PROVE EncoderInv'
  OBVIOUS
<1>1. ASSUME NEW q \in Questions, AskForVector(q) PROVE EncoderInv'
  BY <1>1, AskingKeeps
<1>2. ASSUME NEW q \in Questions, StartEncode(q) PROVE EncoderInv'
  BY <1>2, StartingKeeps
<1>3. ASSUME NEW q \in Questions, QueueTimeout(q) PROVE EncoderInv'
  BY <1>3, LeavingKeeps DEF QueueTimeout, Answers
<1>4. ASSUME NEW q \in Questions, AnswerStep(q) PROVE EncoderInv'
  <2>1. PICK answer \in {"vector", "words"} : AnswerWith(q, answer)
    BY <1>4 DEF AnswerStep
  <2>2. caller[q] \in {"coding", "coded", "failed"}
    <3>1. CASE answer = "vector"
      BY <2>1, <3>1 DEF AnswerWith
    <3>2. CASE answer = "words"
      BY <2>1, <3>2 DEF AnswerWith
    <3> QED
      BY <2>1, <3>1, <3>2
  <2> QED
    BY <2>1, <2>2, OnesGone DEF AnswerWith, Answers
<1>5. ASSUME NEW q \in Questions, HangUp(q) PROVE EncoderInv'
  <2>1. CASE LeaveLine(q, "cancelled")
    BY <1>5, <2>1, LeavingKeeps DEF HangUp, Answers
  <2>2. CASE /\ caller[q] \in {"coding", "coded", "failed"}
             /\ caller' = [caller EXCEPT ![q] = "cancelled"]
             /\ UNCHANGED <<line, spare>>
    BY <1>5, <2>2, OnesGone DEF HangUp, Answers
  <2> QED
    BY <1>5, <2>1, <2>2 DEF HangUp
<1>6. ASSUME NEW q \in Questions, EndEncode(q) PROVE EncoderInv'
  BY <1>6, EndingKeeps
<1>7. ASSUME UNCHANGED encoderVars PROVE EncoderInv'
  <2>1. UNCHANGED <<caller, line, encodes, spare, waiting>>
    BY <1>7 DEF encoderVars
  <2> QED
    BY <2>1 DEF EncoderInv, EncoderTypes, SlotSomewhere, HandedTo, PastTheLine, LinesUp, CountIsTheirs, Admitted
<1> QED
  BY <1>1, <1>2, <1>3, <1>4, <1>5, <1>6, <1>7 DEF EncoderNext

LEMMA EncoderInvHolds == EncoderSpec => []EncoderInv
<1>1. EncoderInit => EncoderInv
  BY EncoderBegins
<1>2. EncoderInv /\ [EncoderNext]_encoderVars => EncoderInv'
  BY EncoderStep
<1> QED
  BY <1>1, <1>2, PTL DEF EncoderSpec

\* The types of HelpEncoder.
LEMMA EncoderTypesHold == EncoderInit /\ [][EncoderNext]_encoderVars => []EncoderTypeOK
<1>1. EncoderInv => EncoderTypeOK
  <2> SUFFICES ASSUME EncoderInv PROVE EncoderTypeOK
    OBVIOUS
  <2>1. spare \in Nat
    BY DEF EncoderInv, SlotSomewhere
  <2>2. waiting \in Nat
    BY FS_CardinalityType DEF EncoderInv, CountIsTheirs
  <2> QED
    BY <2>1, <2>2 DEF EncoderInv, EncoderTypes, EncoderTypeOK, CallerStates
<1> QED
  BY <1>1, EncoderBegins, EncoderStep, PTL

\* The process never runs two encodes at once and never loses its slot, in
\* whatever order questions, time-outs, cancelled requests and ends come.
THEOREM EncodesTakeTurns == EncoderSpec => []OneEncodeAtATime
<1>1. EncoderInv => OneEncodeAtATime
  <2> SUFFICES ASSUME EncoderInv PROVE OneEncodeAtATime
    OBVIOUS
  <2>1. spare + Cardinality(HandedTo) + Cardinality(encodes) = 1
    <3>1. Cardinality({}) = 0 /\ \A q : Cardinality({q}) = 1
      BY FS_EmptySet, FS_Singleton
    <3>2. CASE spare = 1 /\ HandedTo = {} /\ encodes = {}
      BY <3>1, <3>2
    <3>3. CASE spare = 0 /\ encodes = {} /\ \E q \in Questions : HandedTo = {q}
      <4>1. Cardinality(HandedTo) = 1 /\ Cardinality(encodes) = 0
        BY <3>1, <3>3
      <4> QED
        BY <3>3, <4>1
    <3>4. CASE spare = 0 /\ HandedTo = {} /\ \E q \in Questions : encodes = {q}
      <4>1. Cardinality(HandedTo) = 0 /\ Cardinality(encodes) = 1
        BY <3>1, <3>4
      <4> QED
        BY <3>4, <4>1
    <3> QED
      BY <3>2, <3>3, <3>4 DEF EncoderInv, SlotSomewhere
  <2>2. ToSet(line) = {q \in Questions : caller[q] = "line"}
    <3>1. \A i \in DOMAIN line : line[i] \in Questions
      BY DEF EncoderInv, EncoderTypes
    <3> QED
      BY <3>1 DEF EncoderInv, LinesUp, ToSet
  <2> QED
    BY <2>1, <2>2 DEF EncoderInv, CountIsTheirs, Admitted, OneEncodeAtATime
<1> QED
  BY <1>1, EncoderInvHolds, PTL

-----------------------------------------------------------------------------
(* The callers and the slot, seen from the help desk.                        *)

Called(callers) == {q \in Questions : callers[q] # "away"}

\* The desk counts, and takes out of its line, as the encoder does.
LEMMA DeskCounts == \A S : Desk!Cardinality(S) = Cardinality(S)
BY DEF Cardinality, Desk!Cardinality

LEMMA DeskTakesOut == \A seq, i : Desk!RemoveAt(seq, i) = RemoveAt(seq, i)
BY DEF RemoveAt, Desk!RemoveAt

\* The slot that comes back goes to the first in line.
LEMMA DeskPassesOn ==
    ASSUME NEW callers \in [Questions -> CallerStates], line \in Seq(Questions), LinesUp(line, callers),
           \A p \in Questions : callers[p] # "handed", encodes' = {}, HandOn(callers, line),
           HandedTo \cup encodes # {}
    PROVE  /\ Desk!PassOn
           /\ \A p \in Questions : caller'[p] # "away" <=> callers[p] # "away"
           /\ \A p \in Questions : caller'[p] \in Standing <=> callers[p] \in Standing
<1>1. CASE line = <<>>
  <2>1. caller' = callers /\ line' = line /\ HandedTo' = {}
    BY <1>1 DEF HandOn, HandedTo
  <2> QED
    BY <1>1, <2>1 DEF Desk!PassOn
<1>2. CASE line # <<>>
  <2>1. caller' = [callers EXCEPT ![Head(line)] = "handed"] /\ line' = Tail(line)
    BY <1>2 DEF HandOn
  <2>2. PICK first \in Questions : first = Head(line) /\ callers[first] = "line"
    <3>1. "handed" \in CallerStates \ {"line"}
      BY DEF CallerStates, Standing
    <3>2. Head(line) \in Questions /\ callers[Head(line)] = "line"
      BY <1>2, <2>1, <3>1, FirstStepsOut
    <3> QED
      BY <3>2
  <2>3. caller'[first] = "handed" /\ \A p \in Questions \ {first} : caller'[p] = callers[p]
    BY <2>1, <2>2
  <2>4. HandedTo' = {first}
    BY <2>2, <2>3 DEF HandedTo
  <2>5. /\ \A p \in Questions : caller'[p] # "away" <=> callers[p] # "away"
        /\ \A p \in Questions : caller'[p] \in Standing <=> callers[p] \in Standing
    BY <2>2, <2>3 DEF Standing
  <2>6. Desk!PassOn
    BY <1>2, <2>1, <2>2, <2>4 DEF Desk!PassOn
  <2> QED
    BY <2>5, <2>6
<1> QED
  BY <1>1, <1>2

LEMMA AskedAtDesk ==
    ASSUME EncoderInv, NEW q \in Questions, AskForVector(q)
    PROVE  Desk!Enter(q) \/ Desk!TurnAway(q)
<1>0. /\ caller \in [Questions -> CallerStates] /\ SlotSomewhere /\ caller[q] = "away"
      /\ waiting = Cardinality(Admitted(caller)) /\ waiting \in Nat /\ MaxWaiting \in Nat
      /\ waiting <= MaxWaiting
  BY FS_CardinalityType, EncoderAssumption DEF EncoderInv, EncoderTypes, CountIsTheirs, AskForVector
<1>1. ASSUME NEW to \in {"words", "line", "coding"}, caller' = [caller EXCEPT ![q] = to]
      PROVE  /\ Called(caller)' = Called(caller) \cup {q} /\ q \notin Called(caller)
             /\ Admitted(caller)' = Admitted(caller) \cup (IF to = "words" THEN {} ELSE {q})
             /\ HandedTo' = HandedTo
  <2>1. caller'[q] = to /\ \A p \in Questions \ {q} : caller'[p] = caller[p]
    BY <1>0, <1>1
  <2>2. "away" \notin Standing /\ "words" \notin Standing /\ "line" \in Standing /\ "coding" \in Standing
    BY DEF Standing
  <2>3. Called(caller)' = Called(caller) \cup {q} /\ q \notin Called(caller)
    BY <1>0, <2>1 DEF Called
  <2>4. HandedTo' = HandedTo
    BY <1>0, <2>1 DEF HandedTo
  <2>5. Admitted(caller)' = Admitted(caller) \cup (IF to = "words" THEN {} ELSE {q})
    BY <1>0, <2>1, <2>2 DEF Admitted
  <2> QED
    BY <2>3, <2>4, <2>5
<1>2. CASE /\ waiting >= MaxWaiting /\ caller' = [caller EXCEPT ![q] = "words"]
           /\ UNCHANGED <<line, encodes, spare, waiting>>
  <2>1. Desk!Cardinality(Admitted(caller)) = MaxWaiting
    BY <1>0, <1>2, DeskCounts
  <2>2. /\ Called(caller)' = Called(caller) \cup {q} /\ q \notin Called(caller)
        /\ Admitted(caller)' = Admitted(caller) /\ HandedTo' = HandedTo
    BY <1>1, <1>2
  <2> QED
    BY <1>2, <2>1, <2>2 DEF Desk!TurnAway, Called, Admitted
<1>3. CASE /\ waiting < MaxWaiting /\ spare > 0
           /\ encodes' = encodes \cup {q} /\ caller' = [caller EXCEPT ![q] = "coding"] /\ UNCHANGED line
  <2>1. HandedTo = {} /\ encodes = {}
    BY <1>0, <1>3 DEF SlotSomewhere
  <2>2. Desk!Cardinality(Admitted(caller)) < MaxWaiting
    BY <1>0, <1>3, DeskCounts
  <2>3. /\ Called(caller)' = Called(caller) \cup {q} /\ q \notin Called(caller)
        /\ Admitted(caller)' = Admitted(caller) \cup {q} /\ HandedTo' = HandedTo
    BY <1>1, <1>3
  <2> QED
    BY <1>3, <2>1, <2>2, <2>3 DEF Desk!Enter, Called, Admitted
<1>4. CASE /\ waiting < MaxWaiting /\ ~(spare > 0)
           /\ caller' = [caller EXCEPT ![q] = "line"] /\ line' = Append(line, q) /\ UNCHANGED <<encodes, spare>>
  <2>1. HandedTo \cup encodes # {}
    <3>1. spare # 1
      BY <1>4
    <3>2. (\E p \in Questions : HandedTo = {p}) \/ (\E p \in Questions : encodes = {p})
      BY <1>0, <3>1 DEF SlotSomewhere
    <3> QED
      BY <3>2
  <2>2. Desk!Cardinality(Admitted(caller)) < MaxWaiting
    BY <1>0, <1>4, DeskCounts
  <2>3. /\ Called(caller)' = Called(caller) \cup {q} /\ q \notin Called(caller)
        /\ Admitted(caller)' = Admitted(caller) \cup {q} /\ HandedTo' = HandedTo
    BY <1>1, <1>4
  <2> QED
    BY <1>4, <2>1, <2>2, <2>3 DEF Desk!Enter, Called, Admitted
<1> QED
  BY <1>2, <1>3, <1>4 DEF AskForVector

\* One who is answered, or hangs up.
LEMMA LeavesDesk ==
    ASSUME EncoderInv, NEW q \in Questions, NEW answer \in Answers, UNCHANGED encodes,
           \/ LeaveLine(q, answer)
           \/ /\ caller[q] \in {"coding", "coded", "failed"} /\ caller' = [caller EXCEPT ![q] = answer]
              /\ UNCHANGED line
    PROVE  Desk!Leave(q)
<1>0. /\ caller \in [Questions -> CallerStates] /\ line \in Seq(Questions) /\ LinesUp(line, caller)
      /\ answer \in CallerStates \ {"line"} /\ answer \notin Standing /\ answer # "handed" /\ answer # "away"
  BY DEF EncoderInv, EncoderTypes, CallerStates, Answers, Standing
<1>1. PICK moved \in [Questions -> CallerStates] :
         /\ moved = [caller EXCEPT ![q] = answer] /\ moved[q] = answer
         /\ \A p \in Questions \ {q} : moved[p] = caller[p]
  <2>1. PICK moved : moved = [caller EXCEPT ![q] = answer]
    OBVIOUS
  <2> QED
    BY <1>0, <2>1
<1>2. ASSUME caller[q] \in Standing,
             \A p \in Questions : caller'[p] # "away" <=> moved[p] # "away",
             \A p \in Questions : caller'[p] \in Standing <=> moved[p] \in Standing
      PROVE  /\ Called(caller)' = Called(caller) /\ Admitted(caller)' = Admitted(caller) \ {q}
             /\ q \in Admitted(caller)
  <2>1. caller[q] # "away" /\ moved[q] # "away" /\ moved[q] \notin Standing
    BY <1>0, <1>1, <1>2 DEF Standing
  <2>2. \A p \in Questions : caller'[p] # "away" <=> caller[p] # "away"
    BY <1>1, <1>2, <2>1
  <2>3. \A p \in Questions : caller'[p] \in Standing <=> caller[p] \in Standing /\ p # q
    BY <1>1, <1>2, <2>1
  <2> QED
    BY <1>2, <2>2, <2>3 DEF Called, Admitted
<1>3. CASE caller[q] = "line" /\ caller' = [caller EXCEPT ![q] = answer] /\ StepOut(q)
  <2>1. /\ Called(caller)' = Called(caller) /\ Admitted(caller)' = Admitted(caller) \ {q}
        /\ q \in Admitted(caller)
    BY <1>1, <1>2, <1>3 DEF Standing
  <2>2. HandedTo' = HandedTo
    BY <1>0, <1>1, <1>3 DEF HandedTo
  <2>3. \E i \in DOMAIN line : line[i] = q /\ line' = Desk!RemoveAt(line, i)
    BY <1>3, DeskTakesOut DEF StepOut
  <2> QED
    BY <2>1, <2>2, <2>3 DEF Desk!Leave, Called, Admitted
<1>4. CASE caller[q] = "handed" /\ HandOn([caller EXCEPT ![q] = answer], line)
  <2>1. encodes = {} /\ HandedTo = {q}
    <3>1. q \in HandedTo
      BY <1>4 DEF HandedTo
    <3> QED
      BY <3>1 DEF EncoderInv, SlotSomewhere
  <2>2. \A p \in Questions : moved[p] # "handed"
    BY <1>0, <1>1, <2>1 DEF HandedTo
  <2>3. LinesUp(line, moved)
    BY <1>0, <1>1, <1>4 DEF LinesUp
  <2>4. /\ Desk!PassOn
        /\ \A p \in Questions : caller'[p] # "away" <=> moved[p] # "away"
        /\ \A p \in Questions : caller'[p] \in Standing <=> moved[p] \in Standing
    BY <1>0, <1>1, <1>4, <2>1, <2>2, <2>3, DeskPassesOn
  <2>5. /\ Called(caller)' = Called(caller) /\ Admitted(caller)' = Admitted(caller) \ {q}
        /\ q \in Admitted(caller)
    BY <1>2, <1>4, <2>4 DEF Standing
  <2> QED
    BY <2>1, <2>4, <2>5 DEF Desk!Leave, Called, Admitted
<1>5. CASE /\ caller[q] \in {"coding", "coded", "failed"} /\ caller' = [caller EXCEPT ![q] = answer]
           /\ UNCHANGED line
  <2>1. /\ Called(caller)' = Called(caller) /\ Admitted(caller)' = Admitted(caller) \ {q}
        /\ q \in Admitted(caller)
    BY <1>1, <1>2, <1>5 DEF Standing
  <2>2. HandedTo' = HandedTo
    BY <1>0, <1>1, <1>5 DEF HandedTo
  <2>3. \A i \in DOMAIN line : line[i] # q
    BY <1>0, <1>5 DEF LinesUp
  <2> QED
    BY <1>5, <2>1, <2>2, <2>3 DEF Desk!Leave, Called, Admitted
<1> QED
  BY <1>3, <1>4, <1>5 DEF LeaveLine

\* The encode ends.
LEMMA DeskIsReleased ==
    ASSUME EncoderInv, NEW q \in Questions, EndEncode(q)
    PROVE  Desk!Release
<1>0. /\ caller \in [Questions -> CallerStates] /\ line \in Seq(Questions) /\ LinesUp(line, caller)
      /\ PastTheLine /\ q \in encodes /\ encodes' = encodes \ {q}
  BY DEF EncoderInv, EncoderTypes, EndEncode
<1>1. PICK outcome \in {"coded", "failed"} :
         HandOn([caller EXCEPT ![q] = IF @ = "coding" THEN outcome ELSE @], line)
  BY DEF EndEncode
<1>2. HandedTo = {} /\ encodes' = {}
  BY <1>0 DEF EncoderInv, SlotSomewhere
<1>3. PICK to : to = IF caller[q] = "coding" THEN outcome ELSE caller[q]
  OBVIOUS
<1>4. /\ to \in CallerStates /\ to \notin {"away", "line", "handed"} /\ caller[q] \notin {"away", "line", "handed"}
      /\ (to \in Standing <=> caller[q] \in Standing)
  BY <1>0, <1>3 DEF CallerStates, Standing, PastTheLine
<1>5. PICK moved : moved = [caller EXCEPT ![q] = to]
  OBVIOUS
<1>6. /\ moved \in [Questions -> CallerStates] /\ moved[q] = to
      /\ \A p \in Questions \ {q} : moved[p] = caller[p]
  BY <1>0, <1>4, <1>5, CallerMoves
<1>7. HandOn(moved, line)
  BY <1>1, <1>3, <1>5
<1>8. LinesUp(line, moved) /\ \A p \in Questions : moved[p] # "handed"
  BY <1>0, <1>2, <1>4, <1>6 DEF LinesUp, HandedTo
<1>9. /\ Desk!PassOn
      /\ \A p \in Questions : caller'[p] # "away" <=> moved[p] # "away"
      /\ \A p \in Questions : caller'[p] \in Standing <=> moved[p] \in Standing
  BY <1>0, <1>2, <1>6, <1>7, <1>8, DeskPassesOn
<1>10. Called(caller)' = Called(caller) /\ Admitted(caller)' = Admitted(caller)
  <2>1. \A p \in Questions : caller'[p] # "away" <=> caller[p] # "away"
    BY <1>4, <1>6, <1>9
  <2>2. \A p \in Questions : caller'[p] \in Standing <=> caller[p] \in Standing
    BY <1>4, <1>6, <1>9
  <2> QED
    BY <2>1, <2>2 DEF Called, Admitted
<1> QED
  BY <1>9, <1>10 DEF Desk!Release, Called, Admitted

\* Every step of the encoder is one at the desk, or none there, whether or not
\* the loop is fair.
LEMMA StepsAtDesk == EncoderInit /\ [][EncoderNext]_encoderVars => SlotGoesRound
<1>1. EncoderInit => Desk!Init
  BY DEF EncoderInit, HandedTo, Standing, Desk!Init
<1>2. EncoderInv /\ [EncoderNext]_encoderVars => [Desk!Next]_Desk!vars
  <2> SUFFICES ASSUME EncoderInv, [EncoderNext]_encoderVars PROVE [Desk!Next]_Desk!vars
    OBVIOUS
  <2>1. ASSUME NEW q \in Questions, AskForVector(q) PROVE Desk!Next
    BY <2>1, AskedAtDesk DEF Desk!Next
  <2>2. ASSUME NEW q \in Questions, StartEncode(q) PROVE UNCHANGED Desk!vars
    <3>1. /\ caller[q] = "handed" /\ caller \in [Questions -> CallerStates]
          /\ caller' = [caller EXCEPT ![q] = "coding"] /\ encodes' = encodes \cup {q} /\ UNCHANGED line
      BY <2>2 DEF StartEncode, EncoderInv, EncoderTypes
    <3>2. HandedTo = {q} /\ encodes = {}
      <4>1. q \in HandedTo
        BY <3>1 DEF HandedTo
      <4> QED
        BY <4>1 DEF EncoderInv, SlotSomewhere
    <3>3. caller'[q] = "coding" /\ \A p \in Questions \ {q} : caller'[p] = caller[p]
      BY <3>1
    <3>4. Called(caller)' = Called(caller) /\ Admitted(caller)' = Admitted(caller) /\ HandedTo' = {}
      BY <3>1, <3>2, <3>3 DEF Called, Admitted, HandedTo, Standing
    <3> QED
      BY <3>1, <3>2, <3>4 DEF Desk!vars, Called, Admitted
  <2>3. ASSUME NEW q \in Questions, QueueTimeout(q) \/ AnswerStep(q) \/ HangUp(q) PROVE Desk!Next
    <3>1. PICK answer \in Answers :
             /\ UNCHANGED encodes
             /\ \/ LeaveLine(q, answer)
                \/ /\ caller[q] \in {"coding", "coded", "failed"} /\ caller' = [caller EXCEPT ![q] = answer]
                   /\ UNCHANGED line
      <4>1. CASE QueueTimeout(q)
        BY <4>1 DEF QueueTimeout, Answers
      <4>2. CASE HangUp(q)
        BY <4>2 DEF HangUp, Answers
      <4>3. CASE AnswerWith(q, "vector")
        BY <4>3 DEF AnswerWith, Answers
      <4>4. CASE AnswerWith(q, "words")
        BY <4>4 DEF AnswerWith, Answers
      <4> QED
        BY <2>3, <4>1, <4>2, <4>3, <4>4 DEF AnswerStep
    <3> QED
      BY <3>1, LeavesDesk DEF Desk!Next
  <2>4. ASSUME NEW q \in Questions, EndEncode(q) PROVE Desk!Next
    BY <2>4, DeskIsReleased DEF Desk!Next
  <2>5. ASSUME UNCHANGED encoderVars PROVE UNCHANGED Desk!vars
    BY <2>5 DEF encoderVars, Desk!vars, HandedTo
  <2> QED
    BY <2>1, <2>2, <2>3, <2>4, <2>5 DEF EncoderNext
<1> QED
  BY <1>1, <1>2, EncoderBegins, EncoderStep, PTL DEF SlotGoesRound, Desk!Spec

\* In whatever order questions, time-outs, cancelled requests and ends come,
\* the slot goes round as the help desk promises: nobody is turned away while
\* there is room, nobody overtakes, and whoever leaves hands on what it had
\* (HelpQueryEncoder.encode, _release).
THEOREM EncoderKeepsDesk == EncoderSpec => SlotGoesRound
BY StepsAtDesk, PTL DEF EncoderSpec

-----------------------------------------------------------------------------
(* KnowledgeIndex: what carries it is that nights do not overlap, and that  *)
(* what a night planned is in the index, still before it, or waits for the  *)
(* next commit.                                                             *)

Plans == [Papers -> Wordings \cup {Unpublished}]
IndexVectors == [of: Wordings \cup {Unpublished}, model: EmbedModels]
IndexRows == [text: Wordings \cup {Unpublished}, vector: IndexVectors \cup {NoVector}]
NightRows == [todo: Seq(Papers), unsaved: Seq(Papers), number: Nat, failed: BOOLEAN,
              plan: Plans \cup {NothingCovered}]

IndexTypes ==
    /\ shown \in Plans
    /\ index \in [Papers -> IndexRows]
    /\ embedWith \in EmbedModels
    /\ night \in [Indexers -> NightRows]

Searchable(p) == index[p].vector # NoVector /\ index[p].vector.model = embedWith
InHand(w, p) ==
    \/ night[w].failed
    \/ \E i \in DOMAIN night[w].todo : night[w].todo[i] = p
    \/ \E i \in DOMAIN night[w].unsaved : night[w].unsaved[i] = p
OnItsWay(w, p) ==
    IF night[w].plan[p] = Unpublished THEN index[p] = NoRow
    ELSE index[p].text = night[w].plan[p] /\ (InHand(w, p) \/ Searchable(p))

NightGoes(w) ==
    AtIt(w) => /\ advisory.by = w /\ covers = NothingCovered
               /\ night[w].plan \in Plans /\ \A p \in Papers : OnItsWay(w, p)

IndexInv == IndexTypes /\ (\A w \in Indexers : NightGoes(w)) /\ GoodNightCoversAll

\* One night at a time.
LEMMA OneNight ==
    ASSUME IndexInv, NEW w \in Indexers, NEW x \in Indexers, AtIt(w), AtIt(x)
    PROVE  w = x
BY DEF IndexInv, NightGoes

\* An order of finitely many things has all of them.
LEMMA EachIsThere ==
    ASSUME NEW S, IsFiniteSet(S), NEW order \in SetToSeqs(S)
    PROVE  order \in Seq(S) /\ \A x \in S : \E i \in DOMAIN order : order[i] = x
<1>1. PICK n \in Nat : n = Cardinality(S)
  BY FS_CardinalityType
<1>2. /\ order \in [1..n -> S] /\ \A i, j \in 1..n : i # j => order[i] # order[j]
      /\ DOMAIN order = 1..n
  BY <1>1 DEF SetToSeqs
<1>3. ASSUME NEW x \in S, \A i \in 1..n : order[i] # x PROVE FALSE
  <2>1. order \in [1..n -> S \ {x}]
    BY <1>2, <1>3
  <2>2. IsFiniteSet(S \ {x}) /\ Cardinality(S \ {x}) = n - 1
    BY <1>1, FS_RemoveElement
  <2>3. IsFiniteSet(1..n) /\ Cardinality(1..n) = n
    <3>1. 1 \in Int /\ n \in Int
      OBVIOUS
    <3>2. IsFiniteSet(1..n) /\ Cardinality(1..n) = IF 1 > n THEN 0 ELSE n - 1 + 1
      BY <3>1, FS_Interval
    <3> QED
      BY <3>2
  <2>4. Cardinality(S \ {x}) < Cardinality(1..n)
    BY <2>2, <2>3
  <2>5. \E i, j \in 1..n : i # j /\ order[i] = order[j]
    BY ONLY <2>1, <2>2, <2>3, <2>4, FS_PigeonHole
  <2> QED
    BY <1>2, <2>5
<1>4. order \in Seq(S)
  BY <1>2
<1> QED
  BY <1>2, <1>3, <1>4

\* A commit writes vectors of the model in use and leaves the texts.
LEMMA SavingKeeps ==
    ASSUME IndexTypes, NEW chunks \in Seq(Papers), index' = Saved(chunks), UNCHANGED embedWith
    PROVE  /\ index' \in [Papers -> IndexRows]
           /\ \A p \in Papers : /\ index'[p].text = index[p].text
                                /\ index[p] = NoRow => index'[p] = NoRow
                                /\ Searchable(p) => Searchable(p)'
                                /\ index[p] # NoRow /\ (\E i \in DOMAIN chunks : chunks[i] = p)
                                     => Searchable(p)'
<1> DEFINE vectorOf(p) == [of |-> index[p].text, model |-> embedWith]
<1>1. /\ index \in [Papers -> IndexRows] /\ embedWith \in EmbedModels
      /\ index' = [p \in Papers |-> IF p \in Range(chunks) /\ index[p] # NoRow
                                    THEN [index[p] EXCEPT !.vector = vectorOf(p)] ELSE index[p]]
  BY DEF IndexTypes, Saved
<1>2. ASSUME NEW p \in Papers
      PROVE  /\ index'[p] \in IndexRows /\ index'[p].text = index[p].text
             /\ index[p] = NoRow => index'[p] = NoRow
             /\ Searchable(p) => Searchable(p)'
             /\ index[p] # NoRow /\ (\E i \in DOMAIN chunks : chunks[i] = p) => Searchable(p)'
  <2>1. CASE p \in Range(chunks) /\ index[p] # NoRow
    <3>1. PICK vector \in IndexVectors : /\ vector = vectorOf(p) /\ vector.model = embedWith
                                         /\ vector # NoVector
      <4>1. vectorOf(p) \in IndexVectors
        BY <1>1 DEF IndexVectors, IndexRows
      <4>2. vectorOf(p) # NoVector
        BY <4>1, IndexNullsAssumption DEF IndexVectors
      <4> QED
        BY <4>1, <4>2
    <3>2. index'[p] = [index[p] EXCEPT !.vector = vector]
      BY <1>1, <2>1, <3>1
    <3>3. index'[p] \in IndexRows /\ index'[p].text = index[p].text /\ index'[p].vector = vector
      BY <1>1, <3>2 DEF IndexRows
    <3>4. Searchable(p)'
      BY <3>1, <3>3 DEF Searchable
    <3> QED
      BY <2>1, <3>3, <3>4
  <2>2. CASE ~(p \in Range(chunks) /\ index[p] # NoRow)
    <3>1. index'[p] = index[p]
      BY <1>1, <2>2
    <3>2. Searchable(p) => Searchable(p)'
      BY <3>1 DEF Searchable
    <3>3. ~(index[p] # NoRow /\ \E i \in DOMAIN chunks : chunks[i] = p)
      BY <2>2 DEF Range
    <3> QED
      BY <1>1, <3>1, <3>2, <3>3
  <2> QED
    BY <2>1, <2>2
<1>3. DOMAIN index' = Papers
  BY <1>1
<1>4. index' \in [Papers -> IndexRows]
  <2>1. index' = [p \in Papers |-> index'[p]]
    BY <1>1
  <2> QED
    BY <1>2, <2>1
<1> QED
  BY <1>2, <1>4

LEMMA IndexBegins == IndexInit => IndexInv
<1> SUFFICES ASSUME IndexInit PROVE IndexInv
  OBVIOUS
<1>1. NoRow \in IndexRows
  BY DEF NoRow, IndexRows
<1>2. NoNight \in NightRows
  <2>1. <<>> \in Seq(Papers) /\ 0 \in Nat /\ FALSE \in BOOLEAN /\ NothingCovered \in Plans \cup {NothingCovered}
    OBVIOUS
  <2> QED
    BY <2>1 DEF NightRows, NoNight, NothingCovered
<1>3. IndexTypes
  BY <1>1, <1>2 DEF IndexInit, IndexTypes, Plans
<1>4. \A w \in Indexers : ~AtIt(w)
  BY DEF IndexInit, AtIt
<1>5. GoodNightCoversAll
  BY DEF IndexInit, GoodNightCoversAll
<1> QED
  BY <1>3, <1>4, <1>5 DEF IndexInv, NightGoes

\* The night that begins: nobody else is at it, and what it does not plan is
\* as the night would leave it.
LEMMA PlanningKeeps ==
    ASSUME IndexInv, NEW w \in Indexers, NEW wire, PlanNight(w, wire)
    PROVE  IndexInv'
<1>0. /\ shown \in Plans /\ index \in [Papers -> IndexRows] /\ night \in [Indexers -> NightRows]
      /\ embedWith \in EmbedModels /\ UNCHANGED <<shown, embedWith>> /\ covers' = NothingCovered
      /\ advisory'.by = w
  BY DEF IndexInv, IndexTypes, PlanNight
<1>1. ~AtIt(w) /\ \A x \in Indexers \ {w} : ~AtIt(x)
  <2>1. advisory = FreeLock \/ advisory.by = w
    BY DEF PlanNight, Obtainable
  <2>2. advisory = FreeLock => advisory.by \notin Indexers
    BY IndexNullsAssumption DEF FreeLock
  <2> QED
    BY <2>1, <2>2 DEF IndexInv, NightGoes, PlanNight
<1>2. PICK S, order :
                   /\ S = {p \in Papers : Planned(p)} /\ order \in SetToSeqs(S)
                   /\ night' = [night EXCEPT ![w] = [todo |-> order, unsaved |-> <<>>, number |-> 0,
                                                      failed |-> FALSE, plan |-> shown]]
  BY DEF PlanNight
<1>3. order \in Seq(Papers) /\ \A p \in Papers : Planned(p) => \E i \in DOMAIN order : order[i] = p
  <2>1. S \in SUBSET Papers /\ \A p \in Papers : Planned(p) => p \in S
    BY <1>2
  <2>2. IsFiniteSet(S)
    BY <2>1, FS_Subset, PapersAssumption
  <2>3. order \in Seq(S) /\ \A p \in S : \E i \in DOMAIN order : order[i] = p
    <3>1. order \in SetToSeqs(S)
      BY <1>2
    <3> QED
      BY ONLY <2>2, <3>1, EachIsThere
  <2>4. \A i \in DOMAIN order : order[i] \in Papers
    BY <2>1, <2>3
  <2> QED
    BY <2>1, <2>3, <2>4
<1>4. PICK row \in NightRows : /\ row = [todo |-> order, unsaved |-> <<>>, number |-> 0,
                                         failed |-> FALSE, plan |-> shown]
                               /\ row.todo = order /\ row.plan = shown
  <2>1. PICK row : row = [todo |-> order, unsaved |-> <<>>, number |-> 0, failed |-> FALSE, plan |-> shown]
    OBVIOUS
  <2>2. <<>> \in Seq(Papers) /\ order \in Seq(Papers) /\ shown \in Plans
    BY <1>0, <1>3
  <2>3. row \in NightRows /\ row.todo = order /\ row.plan = shown
    BY <2>1, <2>2 DEF NightRows
  <2> QED
    BY <2>1, <2>3
<1>5. /\ night' \in [Indexers -> NightRows] /\ night'[w] = row
      /\ \A x \in Indexers \ {w} : night'[x] = night[x]
  BY <1>0, <1>2, <1>4
<1>6. ASSUME NEW p \in Papers PROVE index'[p] \in IndexRows /\ OnItsWay(w, p)'
  <2>1. index'[p] = IF shown[p] = Unpublished THEN NoRow ELSE [index[p] EXCEPT !.text = shown[p]]
    BY DEF PlanNight
  <2>2. CASE shown[p] = Unpublished
    <3>1. index'[p] = NoRow
      BY <2>1, <2>2
    <3> QED
      BY <1>0, <1>4, <1>5, <2>2, <3>1 DEF NoRow, IndexRows, OnItsWay
  <2>3. CASE shown[p] # Unpublished
    <3>1. /\ index[p] \in IndexRows /\ shown[p] \in Wordings \cup {Unpublished}
          /\ index'[p] = [index[p] EXCEPT !.text = shown[p]]
      BY <1>0, <2>1, <2>3 DEF Plans
    <3>2. index'[p] \in IndexRows /\ index'[p].text = shown[p] /\ index'[p].vector = index[p].vector
      BY <3>1 DEF IndexRows
    <3>3. CASE Planned(p)
      <4>1. InHand(w, p)'
        BY <1>3, <1>4, <1>5, <3>3 DEF InHand
      <4> QED
        BY <1>4, <1>5, <2>3, <3>2, <4>1 DEF OnItsWay
    <3>4. CASE ~Planned(p)
      <4>1. index[p].vector # NoVector /\ index[p].vector.model = embedWith
        BY <2>3, <3>4 DEF Planned, ToEmbed
      <4>2. Searchable(p)'
        BY <1>0, <3>2, <4>1 DEF Searchable
      <4> QED
        BY <1>4, <1>5, <2>3, <3>2, <4>2 DEF OnItsWay
    <3> QED
      BY <3>2, <3>3, <3>4
  <2> QED
    BY <2>2, <2>3
<1>7. index' \in [Papers -> IndexRows]
  <2>1. index' = [p \in Papers |-> index'[p]]
    BY DEF PlanNight
  <2> QED
    BY <1>6, <2>1
<1>8. ASSUME NEW x \in Indexers PROVE NightGoes(x)'
  <2>1. CASE x = w
    BY <1>0, <1>4, <1>5, <1>6, <2>1 DEF NightGoes
  <2>2. CASE x # w
    BY <1>1, <1>5, <2>2 DEF NightGoes, AtIt
  <2> QED
    BY <2>1, <2>2
<1>9. IndexTypes'
  BY <1>0, <1>5, <1>7 DEF IndexTypes
<1> QED
  BY <1>0, <1>8, <1>9 DEF IndexInv, GoodNightCoversAll

\* A chunk is embedded, or fails.
LEMMA EmbeddingKeeps ==
    ASSUME IndexInv, NEW w \in Indexers, EmbedNext(w)
    PROVE  IndexInv'
<1>0. /\ shown \in Plans /\ index \in [Papers -> IndexRows] /\ night \in [Indexers -> NightRows]
      /\ embedWith \in EmbedModels /\ UNCHANGED <<shown, embedWith, advisory, covers>>
      /\ AtIt(w) /\ night[w].todo # <<>>
  BY DEF IndexInv, IndexTypes, EmbedNext
<1>1. PICK work \in NightRows : work = night[w]
  BY <1>0
<1>2. PICK works \in BOOLEAN : \E written :
         /\ written = (IF works THEN Append(work.unsaved, Head(work.todo)) ELSE <<>>)
         /\ index' = IF CommitDue(work.number + 1) THEN Saved(written) ELSE index
         /\ night' = [night EXCEPT ![w] =
               [work EXCEPT !.todo = Tail(@), !.number = work.number + 1,
                            !.unsaved = IF CommitDue(work.number + 1) THEN <<>> ELSE written,
                            !.failed = @ \/ ~works]]
  BY <1>1 DEF EmbedNext
<1>3. PICK written :
         /\ written = (IF works THEN Append(work.unsaved, Head(work.todo)) ELSE <<>>)
         /\ index' = IF CommitDue(work.number + 1) THEN Saved(written) ELSE index
         /\ night' = [night EXCEPT ![w] =
               [work EXCEPT !.todo = Tail(@), !.number = work.number + 1,
                            !.unsaved = IF CommitDue(work.number + 1) THEN <<>> ELSE written,
                            !.failed = @ \/ ~works]]
  BY <1>2
<1>4. /\ work.todo \in Seq(Papers) /\ work.unsaved \in Seq(Papers) /\ work.todo # <<>>
      /\ work.number \in Nat /\ work.failed \in BOOLEAN
  BY <1>0, <1>1 DEF NightRows
<1>5. PICK head \in Papers, rest \in Seq(Papers) :
         /\ head = Head(work.todo) /\ rest = Tail(work.todo)
         /\ \A p \in Papers : (\E i \in DOMAIN work.todo : work.todo[i] = p)
                              => p = head \/ \E i \in DOMAIN rest : rest[i] = p
  <2>1. /\ Head(work.todo) \in Papers /\ Tail(work.todo) \in Seq(Papers)
        /\ Len(Tail(work.todo)) = Len(work.todo) - 1 /\ Head(work.todo) = work.todo[1]
        /\ \A i \in 1..Len(Tail(work.todo)) : Tail(work.todo)[i] = work.todo[i + 1]
    BY <1>4, HeadTailProperties
  <2>2. PICK rest \in Seq(Papers) : rest = Tail(work.todo)
    BY <2>1
  <2>3. PICK n \in Nat : n = Len(work.todo) /\ DOMAIN work.todo = 1..n
    BY <1>4
  <2>4. DOMAIN rest = 1..(n - 1)
    BY <2>1, <2>2, <2>3
  <2>5. ASSUME NEW i \in 1..n PROVE work.todo[i] = Head(work.todo) \/ \E j \in DOMAIN rest : rest[j] = work.todo[i]
    <3>1. CASE i = 1
      BY <2>1, <3>1
    <3>2. CASE i # 1
      <4>1. i - 1 \in 1..(n - 1) /\ (i - 1) + 1 = i
        BY <2>3, <3>2
      <4> QED
        BY <2>1, <2>2, <2>3, <2>4, <4>1
    <3> QED
      BY <3>1, <3>2
  <2>6. PICK head \in Papers : head = Head(work.todo)
    BY <2>1
  <2>7. \A p \in Papers : (\E i \in DOMAIN work.todo : work.todo[i] = p)
                          => p = head \/ \E i \in DOMAIN rest : rest[i] = p
    BY <2>3, <2>5, <2>6
  <2> QED
    BY <2>2, <2>6, <2>7
<1>6. /\ written \in Seq(Papers)
      /\ works => \A p \in Papers : (p = head \/ \E i \in DOMAIN work.unsaved : work.unsaved[i] = p)
                                    => \E i \in DOMAIN written : written[i] = p
  <2>1. CASE works
    <3>1. written = Append(work.unsaved, head)
      BY <1>3, <1>5, <2>1
    <3>2. PICK n \in Nat : n = Len(work.unsaved) /\ DOMAIN work.unsaved = 1..n
      BY <1>4
    <3>3. /\ written \in Seq(Papers) /\ Len(written) = n + 1 /\ written[n + 1] = head
          /\ \A i \in 1..n : written[i] = work.unsaved[i]
      BY <1>4, <3>1, <3>2, AppendProperties
    <3>4. DOMAIN written = 1..(n + 1) /\ n + 1 \in 1..(n + 1) /\ \A i \in 1..n : i \in 1..(n + 1)
      BY <3>2, <3>3
    <3> QED
      BY <3>2, <3>3, <3>4
  <2>2. CASE ~works
    BY <1>3, <2>2
  <2> QED
    BY <2>1, <2>2
<1>7. PICK chunks \in Seq(Papers) : chunks = IF CommitDue(work.number + 1) THEN <<>> ELSE written
  <2>1. <<>> \in Seq(Papers)
    OBVIOUS
  <2> QED
    BY <1>6, <2>1
<1>8. PICK fails \in BOOLEAN : fails = (work.failed \/ ~works)
  BY <1>2, <1>4
<1>9. PICK k \in Nat : k = work.number + 1
  BY <1>4
<1>10. PICK row \in NightRows : /\ night' = [night EXCEPT ![w] = row]
                                /\ row.todo = rest /\ row.unsaved = chunks /\ row.failed = fails
                                /\ row.plan = work.plan
  <2>1. PICK row : row = [work EXCEPT !.todo = rest, !.number = k, !.unsaved = chunks, !.failed = fails]
    OBVIOUS
  <2>2. /\ row \in NightRows /\ row.todo = rest /\ row.unsaved = chunks /\ row.failed = fails
        /\ row.plan = work.plan
    BY <1>1, <1>5, <1>7, <1>8, <1>9, <2>1 DEF NightRows
  <2>3. night' = [night EXCEPT ![w] = row]
    BY <1>3, <1>5, <1>7, <1>8, <1>9, <2>1
  <2> QED
    BY <2>2, <2>3
<1>11. /\ night' \in [Indexers -> NightRows] /\ night'[w] = row
       /\ \A x \in Indexers \ {w} : night'[x] = night[x]
  BY <1>0, <1>10
<1>12. /\ index' \in [Papers -> IndexRows]
       /\ \A p \in Papers : /\ index'[p].text = index[p].text
                            /\ index[p] = NoRow => index'[p] = NoRow
                            /\ Searchable(p) => Searchable(p)'
                            /\ CommitDue(k) /\ index[p] # NoRow /\ (\E i \in DOMAIN written : written[i] = p)
                                  => Searchable(p)'
  <2>1. IndexTypes
    BY DEF IndexInv
  <2>2. CASE CommitDue(k)
    <3>1. index' = Saved(written)
      BY <1>3, <1>9, <2>2
    <3> QED
      BY <1>0, <1>6, <2>1, <3>1, SavingKeeps
  <2>3. CASE ~CommitDue(k)
    <3>1. index' = index
      BY <1>3, <1>9, <2>3
    <3> QED
      BY <1>0, <2>3, <3>1 DEF Searchable
  <2> QED
    BY <2>2, <2>3
<1>13. work.plan \in Plans /\ covers = NothingCovered /\ advisory.by = w /\ \A p \in Papers : OnItsWay(w, p)
  BY <1>0, <1>1 DEF IndexInv, NightGoes
<1>14. ASSUME NEW p \in Papers PROVE OnItsWay(w, p)'
  <2>1. CASE work.plan[p] = Unpublished
    BY <1>1, <1>10, <1>11, <1>12, <1>13, <2>1 DEF OnItsWay
  <2>2. CASE work.plan[p] # Unpublished
    <3>1. index'[p].text = work.plan[p] /\ index[p] # NoRow
      BY <1>1, <1>12, <1>13, <2>2 DEF OnItsWay, NoRow
    <3>2. CASE fails
      BY <1>10, <1>11, <2>2, <3>1, <3>2 DEF OnItsWay, InHand
    <3>3. CASE Searchable(p)
      BY <1>10, <1>11, <1>12, <2>2, <3>1, <3>3 DEF OnItsWay
    <3>4. CASE ~fails /\ ~Searchable(p)
      <4>1. works /\ ~work.failed /\ InHand(w, p)
        BY <1>1, <1>8, <1>13, <2>2, <3>4 DEF OnItsWay
      <4>2. (\E i \in DOMAIN rest : rest[i] = p) \/ (\E i \in DOMAIN written : written[i] = p)
        BY <1>1, <1>5, <1>6, <4>1 DEF InHand
      <4>3. CASE CommitDue(k)
        <5>1. CASE \E i \in DOMAIN rest : rest[i] = p
          BY <1>10, <1>11, <2>2, <3>1, <5>1 DEF OnItsWay, InHand
        <5>2. CASE \E i \in DOMAIN written : written[i] = p
          BY <1>10, <1>11, <1>12, <2>2, <3>1, <4>3, <5>2 DEF OnItsWay
        <5> QED
          BY <4>2, <5>1, <5>2
      <4>4. CASE ~CommitDue(k)
        <5>1. chunks = written
          BY <1>7, <1>9, <4>4
        <5> QED
          BY <1>10, <1>11, <2>2, <3>1, <4>2, <5>1 DEF OnItsWay, InHand
      <4> QED
        BY <4>3, <4>4
    <3> QED
      BY <3>2, <3>3, <3>4
  <2> QED
    BY <2>1, <2>2
<1>15. ASSUME NEW x \in Indexers PROVE NightGoes(x)'
  <2>1. CASE x = w
    BY <1>0, <1>10, <1>11, <1>13, <1>14, <2>1 DEF NightGoes
  <2>2. CASE x # w
    <3>1. ~AtIt(x)
      BY <1>0, <2>2, OneNight
    <3> QED
      BY <1>11, <2>2, <3>1 DEF NightGoes, AtIt
  <2> QED
    BY <2>1, <2>2
<1>16. IndexTypes'
  BY <1>0, <1>11, <1>12 DEF IndexTypes
<1> QED
  BY <1>0, <1>13, <1>15, <1>16 DEF IndexInv, GoodNightCoversAll

\* The night ends with a commit of the rest.
LEMMA EndOfNightKeeps ==
    ASSUME IndexInv, NEW w \in Indexers, NEW wire, EndNight(w, wire)
    PROVE  IndexInv'
<1>0. /\ shown \in Plans /\ index \in [Papers -> IndexRows] /\ night \in [Indexers -> NightRows]
      /\ embedWith \in EmbedModels /\ UNCHANGED <<shown, embedWith>>
      /\ AtIt(w) /\ night[w].todo = <<>> /\ index' = Saved(night[w].unsaved)
      /\ covers' = (IF night[w].failed THEN NothingCovered ELSE night[w].plan)
      /\ night' = [night EXCEPT ![w] = NoNight]
  BY DEF IndexInv, IndexTypes, EndNight
<1>1. night[w].unsaved \in Seq(Papers)
  BY <1>0 DEF NightRows
<1>2. /\ index' \in [Papers -> IndexRows]
      /\ \A p \in Papers : /\ index'[p].text = index[p].text
                           /\ index[p] = NoRow => index'[p] = NoRow
                           /\ Searchable(p) => Searchable(p)'
                           /\ index[p] # NoRow /\ (\E i \in DOMAIN night[w].unsaved : night[w].unsaved[i] = p)
                                => Searchable(p)'
  BY <1>0, <1>1, SavingKeeps DEF IndexInv
<1>3. NoNight \in NightRows
  <2>1. <<>> \in Seq(Papers) /\ 0 \in Nat /\ FALSE \in BOOLEAN /\ NothingCovered \in Plans \cup {NothingCovered}
    OBVIOUS
  <2> QED
    BY <2>1 DEF NightRows, NoNight, NothingCovered
<1>4. night' \in [Indexers -> NightRows] /\ \A x \in Indexers : ~AtIt(x)'
  <2>1. \A x \in Indexers \ {w} : ~AtIt(x)
    BY <1>0, OneNight
  <2> QED
    BY <1>0, <1>3, <2>1 DEF AtIt
<1>5. ASSUME ~night[w].failed, NEW p \in Papers
      PROVE  IF night[w].plan[p] = Unpublished THEN index'[p] = NoRow
             ELSE index'[p].text = night[w].plan[p] /\ Searchable(p)'
  <2>1. OnItsWay(w, p)
    BY <1>0 DEF IndexInv, NightGoes
  <2>2. CASE night[w].plan[p] = Unpublished
    BY <1>2, <2>1, <2>2 DEF OnItsWay
  <2>3. CASE night[w].plan[p] # Unpublished
    <3>1. index[p].text = night[w].plan[p] /\ index[p] # NoRow /\ (InHand(w, p) \/ Searchable(p))
      BY <2>1, <2>3 DEF OnItsWay, NoRow
    <3>2. Searchable(p) \/ \E i \in DOMAIN night[w].unsaved : night[w].unsaved[i] = p
      BY <1>0, <1>5, <3>1 DEF InHand
    <3> QED
      BY <1>2, <2>3, <3>1, <3>2
  <2> QED
    BY <2>2, <2>3
<1>6. GoodNightCoversAll'
  BY <1>0, <1>5 DEF GoodNightCoversAll, Searchable
<1>7. IndexTypes'
  BY <1>0, <1>2, <1>4 DEF IndexTypes
<1> QED
  BY <1>4, <1>6, <1>7 DEF IndexInv, NightGoes

\* Steps that leave index and nights, or end nights.
LEMMA OthersKeepIndex ==
    ASSUME IndexInv, UNCHANGED index, shown' \in Plans, embedWith' \in EmbedModels,
           night' \in [Indexers -> NightRows],
           \A x \in Indexers : \/ ~AtIt(x)'
                               \/ night'[x] = night[x] /\ UNCHANGED <<advisory, covers, embedWith>>,
           UNCHANGED <<covers, embedWith>> \/ covers' = NothingCovered
    PROVE  IndexInv'
<1>1. IndexTypes'
  BY DEF IndexInv, IndexTypes
<1>2. GoodNightCoversAll'
  BY DEF IndexInv, GoodNightCoversAll
<1>3. ASSUME NEW x \in Indexers PROVE NightGoes(x)'
  <2>1. CASE ~AtIt(x)'
    BY <2>1 DEF NightGoes
  <2>2. CASE night'[x] = night[x] /\ UNCHANGED <<advisory, covers, embedWith>>
    BY <2>2 DEF IndexInv, NightGoes, AtIt, OnItsWay, InHand, Searchable
  <2> QED
    BY <2>1, <2>2
<1> QED
  BY <1>1, <1>2, <1>3 DEF IndexInv

LEMMA IndexStep == IndexInv /\ [IndexNext]_indexVars => IndexInv'
<1> SUFFICES ASSUME IndexInv, [IndexNext]_indexVars PROVE IndexInv'
  OBVIOUS
<1>0. /\ shown \in Plans /\ night \in [Indexers -> NightRows] /\ embedWith \in EmbedModels
  BY DEF IndexInv, IndexTypes
<1>00. NoNight \in NightRows
  <2>1. <<>> \in Seq(Papers) /\ 0 \in Nat /\ FALSE \in BOOLEAN /\ NothingCovered \in Plans \cup {NothingCovered}
    OBVIOUS
  <2> QED
    BY <2>1 DEF NightRows, NoNight, NothingCovered
<1>1. ASSUME NEW p \in Papers, NEW text \in Wordings \union {Unpublished}, Publish(p, text) PROVE IndexInv'
  <2>1. /\ shown' = [shown EXCEPT ![p] = text] /\ UNCHANGED <<index, embedWith, advisory, night, covers>>
    BY <1>1 DEF Publish
  <2>2. shown' \in Plans
    BY <1>0, <2>1 DEF Plans
  <2> QED
    BY <1>0, <2>1, <2>2, OthersKeepIndex
<1>2. ASSUME NEW w \in Indexers, EmbedNext(w) PROVE IndexInv'
  BY <1>2, EmbeddingKeeps
<1>3. ASSUME NEW w \in Indexers, Perish(w) PROVE IndexInv'
  <2>1. /\ night' = [night EXCEPT ![w] = NoNight] /\ UNCHANGED <<shown, index, embedWith, covers>>
        /\ advisory' = IF advisory.by = w THEN FreeLock ELSE advisory
    BY <1>3 DEF Perish
  <2>2. night' \in [Indexers -> NightRows] /\ ~AtIt(w)'
    BY <1>0, <1>00, <2>1 DEF AtIt
  <2>3. ASSUME NEW x \in Indexers, AtIt(x)' PROVE night'[x] = night[x] /\ UNCHANGED advisory
    <3>1. x # w /\ night'[x] = night[x] /\ AtIt(x)
      BY <1>0, <2>1, <2>2, <2>3 DEF AtIt
    <3>2. advisory.by = x
      BY <3>1 DEF IndexInv, NightGoes
    <3> QED
      BY <2>1, <3>1, <3>2
  <2> QED
    BY <1>0, <2>1, <2>2, <2>3, OthersKeepIndex
<1>4. ASSUME NEW w \in Indexers, NEW wire \in Wires, PlanNight(w, wire) PROVE IndexInv'
  BY <1>4, PlanningKeeps
<1>5. ASSUME NEW w \in Indexers, NEW wire \in Wires, SkipNight(w, wire) PROVE IndexInv'
  BY <1>0, <1>5, OthersKeepIndex DEF SkipNight
<1>6. ASSUME NEW w \in Indexers, NEW wire \in Wires, EndNight(w, wire) PROVE IndexInv'
  BY <1>6, EndOfNightKeeps
<1>7. ASSUME NEW model \in EmbedModels, Redeploy(model) PROVE IndexInv'
  <2>1. /\ embedWith' = model /\ night' = [w \in Indexers |-> NoNight] /\ UNCHANGED <<shown, index>>
        /\ covers' = IF model = embedWith THEN covers ELSE NothingCovered
    BY <1>7 DEF Redeploy
  <2>2. night' \in [Indexers -> NightRows] /\ \A x \in Indexers : ~AtIt(x)'
    BY <1>00, <2>1 DEF AtIt
  <2> QED
    BY <1>0, <2>1, <2>2, OthersKeepIndex
<1>8. ASSUME UNCHANGED indexVars PROVE IndexInv'
  BY <1>0, <1>8, OthersKeepIndex DEF indexVars
<1> QED
  BY <1>1, <1>2, <1>3, <1>4, <1>5, <1>6, <1>7, <1>8 DEF IndexNext

LEMMA IndexInvHolds == IndexSpec => []IndexInv
<1>1. IndexInit => IndexInv
  BY IndexBegins
<1>2. IndexInv /\ [IndexNext]_indexVars => IndexInv'
  BY IndexStep
<1> QED
  BY <1>1, <1>2, PTL DEF IndexSpec

\* Rows of the index hold texts that were published once, with their vectors,
\* and who has the lock took it on a connection.
IndexedRows == [text: Wordings, vector: [of: Wordings, model: EmbedModels] \union {NoVector}]
LockRows == [by: Indexers, wire: Wires, times: Nat \ {0}]
IndexFits ==
    /\ index \in [Papers -> IndexedRows \union {NoRow}]
    /\ advisory \in LockRows \union {FreeLock}
    /\ covers \in Plans \union {NothingCovered}

\* A commit writes vectors of the texts that are there.
LEMMA SavedFits ==
    ASSUME index \in [Papers -> IndexedRows \union {NoRow}], embedWith \in EmbedModels, NEW chunks
    PROVE  Saved(chunks) \in [Papers -> IndexedRows \union {NoRow}]
<1>1. ASSUME NEW p \in Papers, index[p] # NoRow
      PROVE  [index[p] EXCEPT !.vector = [of |-> index[p].text, model |-> embedWith]] \in IndexedRows
  <2>1. PICK vector : vector = [of |-> index[p].text, model |-> embedWith]
    OBVIOUS
  <2>2. index[p] \in IndexedRows
    BY <1>1
  <2>3. vector \in [of: Wordings, model: EmbedModels] \union {NoVector}
    BY <2>1, <2>2 DEF IndexedRows
  <2> QED
    BY <2>1, <2>2, <2>3 DEF IndexedRows
<1> QED
  BY <1>1 DEF Saved

LEMMA IndexKeepsFitting == IndexInv /\ IndexFits /\ [IndexNext]_indexVars => IndexFits'
<1> SUFFICES ASSUME IndexInv, IndexFits, [IndexNext]_indexVars PROVE IndexFits'
  OBVIOUS
<1>0. /\ shown \in Plans /\ embedWith \in EmbedModels
      /\ index \in [Papers -> IndexedRows \union {NoRow}] /\ advisory \in LockRows \union {FreeLock}
      /\ covers \in Plans \union {NothingCovered}
  BY DEF IndexInv, IndexTypes, IndexFits
<1>1. ASSUME NEW w \in Indexers, EmbedNext(w) PROVE IndexFits'
  <2>1. UNCHANGED <<advisory, covers>> /\ \E written : index' = IF CommitDue(night[w].number + 1)
                                                               THEN Saved(written) ELSE index
    BY <1>1 DEF EmbedNext
  <2> QED
    BY <1>0, <2>1, SavedFits DEF IndexFits
<1>2. ASSUME NEW w \in Indexers, Perish(w) PROVE IndexFits'
  BY <1>0, <1>2 DEF Perish, IndexFits
<1>3. ASSUME NEW w \in Indexers, NEW wire \in Wires, PlanNight(w, wire) PROVE IndexFits'
  <2>1. /\ advisory' = [by |-> w, wire |-> wire, times |-> advisory.times + 1] /\ covers' = NothingCovered
        /\ index' = [p \in Papers |->
                        IF shown[p] = Unpublished THEN NoRow ELSE [index[p] EXCEPT !.text = shown[p]]]
    BY <1>3 DEF PlanNight
  <2>2. advisory.times \in Nat
    BY <1>0 DEF LockRows, FreeLock
  <2>3. advisory' \in LockRows
    BY <2>1, <2>2 DEF LockRows
  <2>4. ASSUME NEW p \in Papers, shown[p] # Unpublished
        PROVE  [index[p] EXCEPT !.text = shown[p]] \in IndexedRows
    <3>1. shown[p] \in Wordings
      BY <1>0, <2>4 DEF Plans
    <3>2. index[p] \in [text: Wordings \union {Unpublished},
                        vector: [of: Wordings, model: EmbedModels] \union {NoVector}]
      BY <1>0 DEF IndexedRows, NoRow
    <3> QED
      BY <3>1, <3>2 DEF IndexedRows
  <2> QED
    BY <2>1, <2>3, <2>4 DEF IndexFits
<1>4. ASSUME NEW w \in Indexers, NEW wire \in Wires, EndNight(w, wire) PROVE IndexFits'
  <2>1. /\ index' = Saved(night[w].unsaved) /\ advisory' = Unlocked(w, wire)
        /\ covers' = IF night[w].failed THEN NothingCovered ELSE night[w].plan
        /\ AtIt(w)
    BY <1>4 DEF EndNight
  <2>2. night[w].plan \in Plans
    BY <2>1 DEF IndexInv, NightGoes
  <2>3. advisory' \in LockRows \union {FreeLock}
    <3>1. CASE ~(advisory.by = w /\ advisory.wire = wire) \/ advisory.times = 1
      BY <1>0, <2>1, <3>1 DEF Unlocked
    <3>2. CASE advisory.by = w /\ advisory.wire = wire /\ advisory.times # 1
      <4>1. advisory \in LockRows
        BY <1>0, <3>2, IndexNullsAssumption DEF FreeLock
      <4>2. advisory.times - 1 \in Nat \ {0}
        BY <3>2, <4>1 DEF LockRows
      <4>3. advisory' = [advisory EXCEPT !.times = advisory.times - 1]
        BY <2>1, <3>2 DEF Unlocked
      <4> QED
        BY <4>1, <4>2, <4>3 DEF LockRows
    <3> QED
      BY <3>1, <3>2
  <2> QED
    BY <1>0, <2>1, <2>2, <2>3, SavedFits DEF IndexFits
<1>5. ASSUME NEW model \in EmbedModels, Redeploy(model) PROVE IndexFits'
  BY <1>0, <1>5 DEF Redeploy, IndexFits
<1>6. CASE UNCHANGED <<index, advisory, covers>>
  BY <1>0, <1>6 DEF IndexFits
<1> QED
  BY <1>1, <1>2, <1>3, <1>4, <1>5, <1>6 DEF IndexNext, Publish, SkipNight, indexVars

\* The types of KnowledgeIndex.
LEMMA IndexTypesHold == IndexSpec => []IndexTypeOK
<1>1. IndexInit => IndexFits
  <2>1. NoRow \in IndexedRows \union {NoRow}
    OBVIOUS
  <2> QED
    BY <2>1 DEF IndexInit, IndexFits
<1>2. IndexInv /\ IndexFits => IndexTypeOK
  BY DEF IndexInv, IndexTypes, NightGoes, Plans, IndexFits, IndexedRows, LockRows, IndexTypeOK
<1> QED
  BY <1>1, <1>2, IndexInvHolds, IndexKeepsFitting, PTL DEF IndexSpec

\* A night without a failure leaves in the index just what was published when
\* it was planned, all of it with vectors of the model in use, whatever the
\* nights before it left, for any chunks, processes and size of a commit.
THEOREM GoodNightsCoverAll == IndexSpec => []GoodNightCoversAll
<1>1. IndexInv => GoodNightCoversAll
  BY DEF IndexInv
<1> QED
  BY <1>1, IndexInvHolds, PTL

-----------------------------------------------------------------------------
(* RoutingSnapshots: what carries it is that one start at a time holds the  *)
(* route's row, so that nobody else appends between what it reads and what  *)
(* it inserts.                                                              *)

SnapshotRow == [revision: Nat, content: Looks]
StartRow == [stage: {"new", "locked", "ensured", "running", "failed", "deleted"},
             row: Rows \cup {NoSnapshot}, saw: Looks \cup {NoSnapshot}]
PurgeRow == [stage: {"none", "selected", "deleted"}, batch: SUBSET Rows, deleted: SUBSET Rows,
             batches: Nat]

SnapTypes ==
    /\ content \in Looks
    /\ inserted \in 0..MaxRows
    /\ snapshot \in [Rows -> SnapshotRow]
    /\ here \in SUBSET (1..inserted)
    /\ start \in [Starts -> StartRow]
    /\ purge \in PurgeRow /\ purge.batch \subseteq 1..inserted /\ purge.deleted \subseteq 1..inserted

AtTheRoute(s) == start[s].stage \in {"locked", "ensured"}
OneAtTheRoute == \A s \in Starts : AtTheRoute(s) => routeLock = s /\ start[s].saw \in Looks
HasItsRow == \A s \in Starts : start[s].stage = "ensured" => start[s].row \in 1..inserted

SnapInv == SnapTypes /\ OneAtTheRoute /\ HasItsRow /\ SnapshotsServeStarts

\* The row of the one start that has its snapshot.
LEMMA OneLockedRow ==
    ASSUME SnapInv
    PROVE  /\ LockedRows \subseteq 1..inserted
           /\ \A s \in Starts : start[s].stage = "ensured" => LockedRows = {start[s].row}
           /\ \A s \in Starts : start[s].stage = "locked" => LockedRows = {}
           /\ routeLock = NoStart => LockedRows = {}
<1>1. \A s, t \in Starts : AtTheRoute(s) /\ AtTheRoute(t) => s = t
  BY DEF SnapInv, OneAtTheRoute
<1>2. \A s \in Starts : AtTheRoute(s) => routeLock # NoStart
  BY SnapNullsAssumption DEF SnapInv, OneAtTheRoute
<1>3. \A s \in Starts : start[s].stage = "ensured" => AtTheRoute(s)
  BY DEF AtTheRoute
<1>4. \A s \in Starts : start[s].stage = "ensured" => start[s].row \in 1..inserted
  BY DEF SnapInv, HasItsRow
<1>5. LockedRows \subseteq 1..inserted
  BY <1>4 DEF LockedRows
<1>6. \A s \in Starts : start[s].stage = "ensured" => LockedRows = {start[s].row}
  BY <1>1, <1>3 DEF LockedRows
<1>7. ASSUME NEW s \in Starts, start[s].stage = "locked" PROVE LockedRows = {}
  <2>1. AtTheRoute(s)
    BY <1>7 DEF AtTheRoute
  <2>2. \A t \in Starts : start[t].stage # "ensured"
    BY <1>1, <1>3, <1>7, <2>1
  <2> QED
    BY <2>2 DEF LockedRows
<1>8. routeLock = NoStart => LockedRows = {}
  BY <1>2, <1>3 DEF LockedRows
<1> QED
  BY <1>5, <1>6, <1>7, <1>8

\* The newest of the rows is the last one inserted of them.
LEMMA NewestIsLast ==
    ASSUME SnapInv, here # {}
    PROVE  /\ Newest(here) \in here /\ Newest(here) \in Rows /\ snapshot[Newest(here)].revision \in Nat
           /\ \A m \in here : snapshot[m].revision \in Nat
                              /\ snapshot[m].revision <= snapshot[Newest(here)].revision
<1>1. here \in SUBSET (0..MaxRows) /\ MaxRows \in Nat /\ here \subseteq Rows
  BY SnapBoundsAssumption DEF SnapInv, SnapTypes, Rows
<1>2. PICK last \in here : \A m \in here : m <= last
  BY <1>1, LatestExists
<1>3. \A m \in here : snapshot[m].revision \in Nat /\ m \in Nat
  BY <1>1 DEF SnapInv, SnapTypes, SnapshotRow
<1>4. \A m \in here : snapshot[m].revision <= snapshot[last].revision
  <2> SUFFICES ASSUME NEW m \in here PROVE snapshot[m].revision <= snapshot[last].revision
    OBVIOUS
  <2>1. CASE m = last
    BY <1>3, <2>1
  <2>2. CASE m # last
    <3>1. m < last
      BY <1>2, <1>3, <2>2
    <3>2. snapshot[m].revision < snapshot[last].revision
      BY <3>1 DEF SnapInv, SnapshotsServeStarts, RevisionsOrdered, Appended
    <3> QED
      BY <1>3, <3>2
  <2> QED
    BY <2>1, <2>2
<1>5. Newest(here) \in here /\ \A m \in here : snapshot[m].revision <= snapshot[Newest(here)].revision
  BY <1>4 DEF Newest
<1> QED
  BY <1>1, <1>3, <1>5

\* A step that inserts no row and lets no start have a row it had not.
LEMMA NoRowComes ==
    ASSUME SnapInv, content' \in Looks, UNCHANGED <<inserted, snapshot>>, here' \subseteq Appended,
           start' \in [Starts -> StartRow], purge' \in PurgeRow,
           purge'.batch \subseteq 1..inserted, purge'.deleted \subseteq 1..inserted,
           \A s \in Starts : AtTheRoute(s)' => routeLock' = s /\ start'[s].saw \in Looks,
           \A s \in Starts : start'[s].stage = "ensured" =>
               /\ start[s].stage = "ensured" /\ start'[s] = start[s]
               /\ start[s].row \notin purge'.deleted
    PROVE  SnapInv'
<1>1. here \subseteq 1..inserted /\ LockedRows \subseteq 1..inserted
  BY OneLockedRow DEF SnapInv, SnapTypes
<1>2. SnapTypes'
  BY <1>1 DEF SnapInv, SnapTypes, Appended
<1>3. OneAtTheRoute' /\ HasItsRow'
  BY DEF SnapInv, OneAtTheRoute, HasItsRow
<1>4. LockedRows' \subseteq LockedRows
  BY DEF LockedRows
<1>5. Appended' \subseteq Appended
  BY <1>4 DEF Appended
<1>6. RevisionsOrdered'
  BY <1>5 DEF SnapInv, SnapshotsServeStarts, RevisionsOrdered
<1>7. StartSeesItsRoute'
  BY DEF SnapInv, SnapshotsServeStarts, StartSeesItsRoute
<1> QED
  BY <1>2, <1>3, <1>6, <1>7 DEF SnapInv, SnapshotsServeStarts

LEMMA SnapBegins == SnapInit => SnapInv
<1> SUFFICES ASSUME SnapInit PROVE SnapInv
  OBVIOUS
<1>1. FreshStart \in StartRow /\ FreshStart.stage = "new"
  BY DEF FreshStart, StartRow
<1>2. NoPurge \in PurgeRow /\ NoPurge.batch = {} /\ NoPurge.deleted = {}
  BY DEF NoPurge, PurgeRow
<1>3. start \in [Starts -> StartRow] /\ \A s \in Starts : start[s].stage = "new"
  BY <1>1 DEF SnapInit
<1>4. SnapTypes
  BY <1>2, <1>3, SnapBoundsAssumption DEF SnapInit, SnapTypes, SnapshotRow
<1>5. LockedRows = {} /\ Appended = {}
  BY <1>3 DEF LockedRows, Appended, SnapInit
<1> QED
  BY <1>3, <1>4, <1>5
     DEF SnapInv, OneAtTheRoute, AtTheRoute, HasItsRow, SnapshotsServeStarts, RevisionsOrdered, StartSeesItsRoute

\* One start moves on.
LEMMA OneStart ==
    ASSUME start \in [Starts -> StartRow], NEW s \in Starts, NEW row \in StartRow,
           start' = [start EXCEPT ![s] = row]
    PROVE  /\ start' \in [Starts -> StartRow] /\ start'[s] = row
           /\ \A t \in Starts \ {s} : start'[t] = start[t]
OBVIOUS

\* Starts that lock, reuse, commit, fail, or lose their run.
LEMMA StartsKeep ==
    ASSUME SnapInv, NEW s \in Starts,
           LockRoute(s) \/ StartCommits(s) \/ StartFails(s) \/ RunDeleted(s)
    PROVE  SnapInv'
<1>0. /\ content \in Looks /\ start \in [Starts -> StartRow] /\ purge \in PurgeRow
      /\ purge.batch \subseteq 1..inserted /\ purge.deleted \subseteq 1..inserted
      /\ UNCHANGED <<content, inserted, snapshot, purge>> /\ start[s] \in StartRow
  BY DEF SnapInv, SnapTypes, LockRoute, StartCommits, StartFails, RunDeleted, table
<1>1. \A t \in Starts : AtTheRoute(t) => routeLock = t /\ start[t].saw \in Looks
  BY DEF SnapInv, OneAtTheRoute
<1>2. \A t \in Starts : start[t].stage = "ensured" => start[t].row \notin purge.deleted
  BY DEF SnapInv, SnapshotsServeStarts, StartSeesItsRoute
<1>3. CASE LockRoute(s)
  <2>1. PICK row : row = [start[s] EXCEPT !.stage = "locked", !.saw = content]
    OBVIOUS
  <2>2. row \in StartRow /\ row.stage = "locked" /\ row.saw = content
    BY <1>0, <2>1 DEF StartRow
  <2>3. /\ start' = [start EXCEPT ![s] = row] /\ routeLock' = s /\ routeLock = NoStart /\ here' = here
    BY <1>3, <2>1 DEF LockRoute, RouteFree, table
  <2>4. /\ start' \in [Starts -> StartRow] /\ start'[s] = row
        /\ \A t \in Starts \ {s} : start'[t] = start[t]
    BY <1>0, <2>2, <2>3, OneStart
  <2>5. \A t \in Starts : ~AtTheRoute(t)
    BY <1>1, <2>3, SnapNullsAssumption
  <2>6. \A t \in Starts : AtTheRoute(t)' => t = s
    BY <2>4, <2>5 DEF AtTheRoute
  <2>7. \A t \in Starts : start'[t].stage # "ensured"
    BY <2>2, <2>4, <2>5 DEF AtTheRoute
  <2> QED
    BY <1>0, <2>2, <2>3, <2>4, <2>6, <2>7, NoRowComes DEF Appended
<1>4. ASSUME NEW row \in StartRow, start' = [start EXCEPT ![s] = row], row.stage \notin {"locked", "ensured"},
             here' \subseteq Appended, routeLock' = routeLock \/ (routeLock = s /\ AtTheRoute(s))
      PROVE  SnapInv'
  <2>1. /\ start' \in [Starts -> StartRow] /\ start'[s] = row
        /\ \A t \in Starts \ {s} : start'[t] = start[t]
    BY <1>0, <1>4, OneStart
  <2>2. \A t \in Starts : AtTheRoute(t)' => t # s /\ AtTheRoute(t) /\ start'[t] = start[t]
    BY <1>4, <2>1 DEF AtTheRoute
  <2>3. \A t \in Starts : AtTheRoute(t)' => routeLock' = t /\ start'[t].saw \in Looks
    BY <1>1, <1>4, <2>2
  <2>4. \A t \in Starts : start'[t].stage = "ensured" => AtTheRoute(t)'
    BY DEF AtTheRoute
  <2>5. \A t \in Starts : start'[t].stage = "ensured" =>
            /\ start[t].stage = "ensured" /\ start'[t] = start[t]
            /\ start[t].row \notin purge'.deleted
    BY <1>0, <1>2, <2>2, <2>4
  <2> QED
    BY <1>0, <1>4, <2>1, <2>3, <2>5, NoRowComes
<1>5. CASE StartCommits(s)
  <2>1. PICK row : row = [start[s] EXCEPT !.stage = "running"]
    OBVIOUS
  <2>2. row \in StartRow /\ row.stage = "running"
    BY <1>0, <2>1 DEF StartRow
  <2>3. /\ start' = [start EXCEPT ![s] = row] /\ here' = here \cup {start[s].row} /\ AtTheRoute(s)
        /\ start[s].stage = "ensured" /\ routeLock' = IF routeLock = s THEN NoStart ELSE routeLock
    BY <1>5, <2>1 DEF StartCommits, AtTheRoute
  <2>4. here' \subseteq Appended
    BY <2>3 DEF Appended, LockedRows
  <2> QED
    BY <1>4, <2>2, <2>3, <2>4
<1>6. CASE StartFails(s)
  <2>1. PICK row : row = [FreshStart EXCEPT !.stage = "failed"]
    OBVIOUS
  <2>2. row \in StartRow /\ row.stage = "failed"
    BY <2>1 DEF FreshStart, StartRow
  <2>3. /\ start' = [start EXCEPT ![s] = row] /\ here' = here /\ AtTheRoute(s)
        /\ routeLock' = IF routeLock = s THEN NoStart ELSE routeLock
    BY <1>6, <2>1 DEF StartFails, AtTheRoute, table
  <2> QED
    BY <1>4, <2>2, <2>3 DEF Appended
<1>7. CASE RunDeleted(s)
  <2>1. PICK row : row = [start[s] EXCEPT !.stage = "deleted", !.row = NoSnapshot]
    OBVIOUS
  <2>2. row \in StartRow /\ row.stage = "deleted"
    BY <1>0, <2>1 DEF StartRow
  <2>3. start' = [start EXCEPT ![s] = row] /\ here' = here /\ routeLock' = routeLock
    BY <1>7, <2>1 DEF RunDeleted, table
  <2> QED
    BY <1>4, <2>2, <2>3 DEF Appended
<1> QED
  BY <1>3, <1>5, <1>6, <1>7

\* A start that gets its snapshot, reused or appended: the one locked row.
LEMMA StartGets ==
    ASSUME SnapInv, NEW s \in Starts, start[s].stage = "locked", NEW k \in Rows,
           k \in 1..inserted', inserted' \in inserted..MaxRows, k \notin purge.deleted,
           start' = [start EXCEPT ![s].stage = "ensured", ![s].row = k],
           snapshot' \in [Rows -> SnapshotRow], snapshot'[k].content = start[s].saw,
           UNCHANGED <<content, here, routeLock, purge>>,
           \A n, m \in here \cup {k} : n < m => snapshot'[n].revision < snapshot'[m].revision
    PROVE  SnapInv'
<1>0. start \in [Starts -> StartRow] /\ start[s] \in StartRow /\ inserted \in 0..MaxRows /\ MaxRows \in Nat
  BY SnapBoundsAssumption DEF SnapInv, SnapTypes
<1>1. PICK row : row = [start[s] EXCEPT !.stage = "ensured", !.row = k]
  OBVIOUS
<1>2. row \in StartRow /\ row.stage = "ensured" /\ row.row = k /\ row.saw = start[s].saw
  BY <1>0, <1>1 DEF StartRow
<1>3. start' = [start EXCEPT ![s] = row]
  BY <1>1
<1>4. start' \in [Starts -> StartRow] /\ start'[s] = row /\ \A t \in Starts \ {s} : start'[t] = start[t]
  BY <1>0, <1>2, <1>3, OneStart
<1>5. \A t \in Starts : AtTheRoute(t) => t = s
  BY DEF SnapInv, OneAtTheRoute, AtTheRoute
<1>6. AtTheRoute(s) /\ routeLock = s /\ start[s].saw \in Looks
  BY DEF SnapInv, OneAtTheRoute, AtTheRoute
<1>7. \A t \in Starts : start'[t].stage = "ensured" <=> t = s
  BY <1>2, <1>4, <1>5 DEF AtTheRoute
<1>8. \A t \in Starts : AtTheRoute(t)' => t = s
  BY <1>4, <1>5 DEF AtTheRoute
<1>9. 1..inserted \subseteq 1..inserted' /\ inserted' \in 0..MaxRows
  BY <1>0
<1>10. SnapTypes'
  BY <1>4, <1>9 DEF SnapInv, SnapTypes
<1>11. OneAtTheRoute' /\ HasItsRow'
  BY <1>2, <1>4, <1>6, <1>7, <1>8 DEF OneAtTheRoute, HasItsRow
<1>12. LockedRows' = {k}
  BY <1>2, <1>4, <1>7 DEF LockedRows
<1>13. Appended' = here \cup {k}
  BY <1>12 DEF Appended
<1>14. RevisionsOrdered'
  BY <1>13 DEF RevisionsOrdered
<1>15. StartSeesItsRoute'
  BY <1>2, <1>4, <1>7 DEF StartSeesItsRoute
<1> QED
  BY <1>10, <1>11, <1>14, <1>15 DEF SnapInv, SnapshotsServeStarts

LEMMA ReuseKeeps == ASSUME SnapInv, NEW s \in Starts, ReuseSnapshot(s) PROVE SnapInv'
<1>1. PICK k : k = Newest(here)
  OBVIOUS
<1>2. /\ start[s].stage = "locked" /\ here # {} /\ k \notin purge.deleted
      /\ snapshot[k].content = start[s].saw
      /\ start' = [start EXCEPT ![s].stage = "ensured", ![s].row = k]
      /\ UNCHANGED <<content, inserted, snapshot, here, routeLock, purge>>
  BY <1>1 DEF ReuseSnapshot, SameFingerprint, table
<1>3. k \in here /\ k \in Rows
  BY <1>1, <1>2, NewestIsLast
<1>4. /\ inserted \in 0..MaxRows /\ MaxRows \in Nat /\ here \subseteq 1..inserted
      /\ snapshot \in [Rows -> SnapshotRow]
  BY SnapBoundsAssumption DEF SnapInv, SnapTypes
<1>5. k \in 1..inserted' /\ inserted' \in inserted..MaxRows
  BY <1>2, <1>3, <1>4
<1>6. \A n, m \in here \cup {k} : n < m => snapshot'[n].revision < snapshot'[m].revision
  BY <1>2, <1>3 DEF SnapInv, SnapshotsServeStarts, RevisionsOrdered, Appended
<1> QED
  BY <1>2, <1>3, <1>4, <1>5, <1>6, StartGets

LEMMA AppendKeeps == ASSUME SnapInv, NEW s \in Starts, AppendSnapshot(s) PROVE SnapInv'
<1>1. PICK k : k = inserted + 1
  OBVIOUS
<1>2. PICK rev : rev = NextRevision
  OBVIOUS
<1>3. /\ start[s].stage = "locked" /\ inserted < MaxRows /\ inserted' = k
      /\ snapshot' = [snapshot EXCEPT ![k] = [revision |-> rev, content |-> start[s].saw]]
      /\ start' = [start EXCEPT ![s].stage = "ensured", ![s].row = k]
      /\ UNCHANGED <<content, here, routeLock, purge>>
  BY <1>1, <1>2 DEF AppendSnapshot
<1>4. /\ inserted \in 0..MaxRows /\ MaxRows \in Nat /\ here \subseteq 1..inserted
      /\ snapshot \in [Rows -> SnapshotRow] /\ purge.deleted \subseteq 1..inserted
  BY SnapBoundsAssumption DEF SnapInv, SnapTypes
<1>5. /\ k \in Rows /\ k \in 1..inserted' /\ inserted' \in inserted..MaxRows
      /\ k \notin 1..inserted /\ \A m \in 1..inserted : m \in Nat /\ m < k
  BY <1>1, <1>3, <1>4 DEF Rows
<1>6. start[s].saw \in Looks
  BY <1>3 DEF SnapInv, OneAtTheRoute, AtTheRoute
<1>7. rev \in Nat /\ \A m \in here : snapshot[m].revision < rev
  <2>1. CASE here = {}
    BY <1>2, <2>1 DEF NextRevision
  <2>2. CASE here # {}
    <3>1. rev = snapshot[Newest(here)].revision + 1
      BY <1>2, <2>2 DEF NextRevision
    <3>2. /\ snapshot[Newest(here)].revision \in Nat
          /\ \A m \in here : snapshot[m].revision \in Nat
                             /\ snapshot[m].revision <= snapshot[Newest(here)].revision
      BY <2>2, NewestIsLast
    <3> QED
      BY <3>1, <3>2
  <2> QED
    BY <2>1, <2>2
<1>8. PICK new : new = [revision |-> rev, content |-> start[s].saw]
  OBVIOUS
<1>9. new \in SnapshotRow /\ new.revision = rev /\ new.content = start[s].saw
  BY <1>6, <1>7, <1>8 DEF SnapshotRow
<1>10. /\ snapshot' \in [Rows -> SnapshotRow] /\ snapshot'[k] = new
       /\ \A m \in here : snapshot'[m] = snapshot[m]
  BY <1>3, <1>4, <1>5, <1>8, <1>9 DEF Rows
<1>11. k \notin purge.deleted
  BY <1>4, <1>5
<1>12. ASSUME NEW n \in here \cup {k}, NEW m \in here \cup {k}, n < m
       PROVE  snapshot'[n].revision < snapshot'[m].revision
  <2>1. n # k
    <3>1. n \in Nat /\ m \in Nat /\ m <= k
      BY <1>4, <1>5
    <3> QED
      BY <1>12, <3>1
  <2>2. CASE m = k
    BY <1>7, <1>9, <1>10, <2>1, <2>2
  <2>3. CASE m # k
    <3>1. snapshot[n].revision < snapshot[m].revision
      BY <1>12, <2>1, <2>3 DEF SnapInv, SnapshotsServeStarts, RevisionsOrdered, Appended
    <3> QED
      BY <1>10, <2>1, <2>3, <3>1
  <2> QED
    BY <2>2, <2>3
<1>13. snapshot'[k].content = start[s].saw
  BY <1>9, <1>10
<1> QED
  BY <1>3, <1>5, <1>10, <1>11, <1>12, <1>13, StartGets

\* Edits, age and the purge insert nothing; a purge never has a locked row.
LEMMA PurgeKeeps ==
    ASSUME SnapInv,
           Edit \/ (\E n \in Rows : Age(n)) \/ SelectBatch \/ DeleteBatch \/ PurgeCommits \/ PurgeRollsBack
    PROVE  SnapInv'
<1>0. /\ content \in Looks /\ start \in [Starts -> StartRow] /\ purge \in PurgeRow
      /\ purge.batch \subseteq 1..inserted /\ purge.deleted \subseteq 1..inserted
      /\ here \subseteq 1..inserted /\ 1..inserted \subseteq Rows
      /\ \A t \in Starts : AtTheRoute(t) => routeLock = t /\ start[t].saw \in Looks
      /\ \A t \in Starts : start[t].stage = "ensured" => start[t].row \notin purge.deleted
  BY SnapBoundsAssumption
     DEF SnapInv, SnapTypes, OneAtTheRoute, SnapshotsServeStarts, StartSeesItsRoute, Rows
<1>1. NoPurge \in PurgeRow /\ NoPurge.batch = {} /\ NoPurge.deleted = {}
  BY DEF NoPurge, PurgeRow
<1>2. CASE Edit \/ (\E n \in Rows : Age(n))
  <2>1. content' \in Looks /\ UNCHANGED <<inserted, snapshot, here, routeLock, start, purge>>
    BY <1>0, <1>2 DEF Edit, Age, table
  <2>2. here' \subseteq Appended /\ \A t \in Starts : AtTheRoute(t)' = AtTheRoute(t)
    BY <2>1 DEF Appended, AtTheRoute
  <2> QED
    BY <1>0, <2>1, <2>2, NoRowComes
\* The purge's own steps: the starts stay, and so does what they use.
<1>3. ASSUME UNCHANGED <<content, inserted, snapshot, routeLock, start, here>>,
             purge' \in PurgeRow, purge'.batch \subseteq 1..inserted, purge'.deleted \subseteq 1..inserted,
             \A t \in Starts : start[t].stage = "ensured" => start[t].row \notin purge'.deleted
      PROVE  SnapInv'
  <2>1. here' \subseteq Appended /\ \A t \in Starts : AtTheRoute(t)' = AtTheRoute(t)
    BY <1>3 DEF Appended, AtTheRoute
  <2> QED
    BY <1>0, <1>3, <2>1, NoRowComes
<1>4. CASE SelectBatch
  <2>1. PICK n \in Eligible :
            purge' = [purge EXCEPT !.stage = "selected", !.batch = {n}, !.batches = @ + 1]
    BY <1>4 DEF SelectBatch
  <2>2. n \in here
    BY DEF Eligible
  <2>3. n \in 1..inserted /\ n \in Rows
    BY <1>0, <2>2
  <2>4. PICK b : b = {n}
    OBVIOUS
  <2>5. PICK done : done = purge.batches + 1
    OBVIOUS
  <2>6. b \in SUBSET Rows /\ b \subseteq 1..inserted /\ done \in Nat
    BY <1>0, <2>3, <2>4, <2>5 DEF PurgeRow
  <2>7. purge' = [purge EXCEPT !.stage = "selected", !.batch = b, !.batches = done]
    BY <2>1, <2>4, <2>5
  <2>8. purge' \in PurgeRow /\ purge'.batch = b /\ purge'.deleted = purge.deleted
    BY <1>0, <2>6, <2>7 DEF PurgeRow
  <2> QED
    BY <1>0, <1>3, <1>4, <2>6, <2>8 DEF SelectBatch, table
<1>5. CASE DeleteBatch
  <2>1. /\ purge' = [purge EXCEPT !.stage = "deleted", !.batch = {}, !.deleted = @ \cup purge.batch]
        /\ purge.batch \cap LockedRows = {}
    BY <1>5 DEF DeleteBatch
  <2>2. /\ purge' \in PurgeRow /\ purge'.batch = {}
        /\ purge'.deleted = purge.deleted \cup purge.batch
    BY <1>0, <2>1 DEF PurgeRow
  <2>3. \A t \in Starts : start[t].stage = "ensured" => start[t].row \notin purge'.deleted
    BY <1>0, <2>1, <2>2 DEF LockedRows
  <2> QED
    BY <1>0, <1>3, <1>5, <2>2, <2>3 DEF DeleteBatch, table
<1>6. CASE PurgeRollsBack
  BY <1>1, <1>3, <1>6 DEF PurgeRollsBack, table
<1>7. CASE PurgeCommits
  <2>1. /\ here' = here \ purge.deleted /\ purge' = NoPurge
        /\ start' = [t \in Starts |-> IF t \in Running /\ start[t].row \in purge.deleted
                                      THEN [start[t] EXCEPT !.row = NoSnapshot] ELSE start[t]]
        /\ UNCHANGED <<content, inserted, snapshot, routeLock>>
    BY <1>7 DEF PurgeCommits
  <2>2. ASSUME NEW t \in Starts
        PROVE  /\ start'[t] \in StartRow
               /\ start'[t].stage \in {"locked", "ensured"} => start'[t] = start[t]
    <3>0. start[t] \in StartRow
      BY <1>0
    <3>1. CASE t \in Running /\ start[t].row \in purge.deleted
      <4>1. PICK row : row = [start[t] EXCEPT !.row = NoSnapshot]
        OBVIOUS
      <4>2. row \in StartRow /\ row.stage = "running"
        BY <3>0, <3>1, <4>1 DEF StartRow, Running
      <4> QED
        BY <2>1, <3>1, <4>1, <4>2
    <3>2. CASE ~(t \in Running /\ start[t].row \in purge.deleted)
      BY <2>1, <3>0, <3>2
    <3> QED
      BY <3>1, <3>2
  <2>3. start' \in [Starts -> StartRow]
    BY <2>1, <2>2
  <2>4. \A t \in Starts : AtTheRoute(t)' => AtTheRoute(t) /\ start'[t] = start[t]
    BY <2>2 DEF AtTheRoute
  <2>5. \A t \in Starts : AtTheRoute(t)' => routeLock' = t /\ start'[t].saw \in Looks
    BY <1>0, <2>1, <2>4
  <2>6. \A t \in Starts : start'[t].stage = "ensured" =>
            /\ start[t].stage = "ensured" /\ start'[t] = start[t] /\ start[t].row \notin purge'.deleted
    BY <1>1, <2>1, <2>2
  <2>7. here' \subseteq Appended
    BY <2>1 DEF Appended
  <2> QED
    BY <1>0, <1>1, <2>1, <2>3, <2>5, <2>6, <2>7, NoRowComes
<1> QED
  BY <1>2, <1>4, <1>5, <1>6, <1>7

LEMMA SnapInvHolds == SnapSpec => []SnapInv
<1>1. SnapInv /\ [SnapNext]_snapVars => SnapInv'
  <2> SUFFICES ASSUME SnapInv, [SnapNext]_snapVars PROVE SnapInv'
    OBVIOUS
  <2>1. CASE UNCHANGED snapVars
    <3>1. UNCHANGED <<content, inserted, snapshot, here, routeLock, start, purge>>
      BY <2>1 DEF snapVars
    <3> QED
      BY <3>1 DEF SnapInv, SnapTypes, OneAtTheRoute, AtTheRoute, HasItsRow, SnapshotsServeStarts,
                  RevisionsOrdered, Appended, LockedRows, StartSeesItsRoute
  <2>2. ASSUME NEW s \in Starts,
               \/ LockRoute(s) \/ ReuseSnapshot(s) \/ AppendSnapshot(s)
               \/ StartCommits(s) \/ StartFails(s) \/ RunDeleted(s)
        PROVE  SnapInv'
    BY <2>2, StartsKeep, ReuseKeeps, AppendKeeps
  <2>3. CASE Edit \/ (\E n \in Rows : Age(n)) \/ SelectBatch \/ DeleteBatch \/ PurgeCommits \/ PurgeRollsBack
    BY <2>3, PurgeKeeps
  <2> QED
    BY <2>1, <2>2, <2>3 DEF SnapNext
<1> QED
  BY <1>1, SnapBegins, PTL DEF SnapSpec

\* The snapshots of a route are a line of versions, no revision given twice,
\* and each start keeps the version it saw until its run is there, however many
\* start at once and whatever a purge takes away between (ensure_routing_snapshot).
THEOREM StartsAreServed == SnapSpec => []SnapshotsServeStarts
<1>1. SnapInv => SnapshotsServeStarts
  BY DEF SnapInv
<1> QED
  BY <1>1, SnapInvHolds, PTL

\* A revision is no larger than the number of rows it was given to the last of.
SnapNumbered ==
    /\ \A n \in Rows : snapshot[n].revision <= n /\ (n <= inserted => snapshot[n].revision >= 1)
    /\ old \subseteq 1..inserted /\ routeLock \in Starts \cup {NoStart}
    /\ purge.batches <= MaxBatches

LEMMA AppendNumbers ==
    ASSUME SnapInv, SnapNumbered, NEW s \in Starts, AppendSnapshot(s)
    PROVE  SnapNumbered'
<1>1. PICK n \in Rows : /\ n = inserted + 1 /\ inserted' = n /\ inserted \in Nat /\ n \in Nat
                        /\ UNCHANGED <<old, routeLock, purge>>
  BY SnapBoundsAssumption DEF AppendSnapshot, SnapInv, SnapTypes, Rows
<1>2. PICK next : next = NextRevision
  OBVIOUS
<1>3. next \in Nat /\ 1 <= next /\ next <= n
  <2>1. CASE here = {}
    BY <1>1, <1>2, <2>1 DEF NextRevision
  <2>2. CASE here # {}
    <3>1. PICK m \in here : m = Newest(here) /\ m \in Rows /\ snapshot[m].revision \in Nat
      BY <2>2, NewestIsLast
    <3>2. m <= inserted /\ m \in Nat /\ snapshot[m].revision <= m
      BY <1>1, <3>1 DEF SnapInv, SnapTypes, SnapNumbered
    <3>3. next = snapshot[m].revision + 1
      BY <1>2, <2>2, <3>1 DEF NextRevision
    <3> QED
      BY <1>1, <3>1, <3>2, <3>3
  <2> QED
    BY <2>1, <2>2
<1>4. /\ snapshot'[n].revision = next
      /\ \A m \in Rows \ {n} : snapshot'[m] = snapshot[m]
  BY <1>1, <1>2 DEF AppendSnapshot, SnapInv, SnapTypes
<1>5. \A m \in Rows : m \in Nat /\ (m <= n => m <= inserted \/ m = n)
  BY <1>1 DEF Rows
<1>6. \A m \in Rows : snapshot'[m].revision <= m /\ (m <= n => snapshot'[m].revision >= 1)
  <2> TAKE m \in Rows
  <2>1. CASE m = n
    BY <1>3, <1>4, <2>1
  <2>2. CASE m # n
    BY <1>4, <1>5, <2>2 DEF SnapNumbered
  <2> QED
    BY <2>1, <2>2
<1>7. 1..inserted \subseteq 1..n
  BY <1>1
<1> QED
  BY <1>1, <1>6, <1>7 DEF SnapNumbered

LEMMA SnapNumbersHold == SnapSpec => []SnapNumbered
<1>1. SnapInit => SnapNumbered
  <2> SUFFICES ASSUME SnapInit PROVE SnapNumbered
    OBVIOUS
  <2>1. \A n \in Rows : n \in Nat /\ n >= 1 /\ snapshot[n].revision = 0
    BY DEF SnapInit, Rows
  <2>2. inserted = 0 /\ old = {} /\ routeLock = NoStart /\ purge.batches = 0
    BY DEF SnapInit, NoPurge
  <2> QED
    BY <2>1, <2>2, SnapBoundsAssumption DEF SnapNumbered
<1>2. SnapInv /\ SnapNumbered /\ [SnapNext]_snapVars => SnapNumbered'
  <2> SUFFICES ASSUME SnapInv, SnapNumbered, [SnapNext]_snapVars PROVE SnapNumbered'
    OBVIOUS
  <2>1. ASSUME NEW s \in Starts, AppendSnapshot(s) PROVE SnapNumbered'
    BY <2>1, AppendNumbers
  <2>2. ASSUME NEW s \in Starts,
               \/ LockRoute(s) \/ ReuseSnapshot(s) \/ StartCommits(s) \/ StartFails(s) \/ RunDeleted(s)
        PROVE  SnapNumbered'
    <3>1. UNCHANGED <<inserted, snapshot, old, purge>> /\ routeLock' \in {routeLock, s, NoStart}
      BY <2>2 DEF LockRoute, ReuseSnapshot, StartCommits, StartFails, RunDeleted, table
    <3> QED
      BY <3>1 DEF SnapNumbered
  <2>3. ASSUME Edit \/ \E n \in Rows : Age(n) PROVE SnapNumbered'
    <3>1. UNCHANGED <<inserted, snapshot, routeLock, purge>> /\ old' \subseteq old \cup here
      BY <2>3 DEF Edit, Age, table
    <3> QED
      BY <3>1 DEF SnapNumbered, SnapInv, SnapTypes
  <2>4. ASSUME SelectBatch \/ DeleteBatch \/ PurgeCommits \/ PurgeRollsBack PROVE SnapNumbered'
    <3>1. UNCHANGED <<inserted, snapshot, old, routeLock>>
      BY <2>4 DEF SelectBatch, DeleteBatch, PurgeCommits, PurgeRollsBack, table
    <3>2. purge'.batches <= MaxBatches
      <4>1. purge \in PurgeRow
        BY DEF SnapInv, SnapTypes
      <4>2. CASE SelectBatch
        <5>1. PICK n : purge' = [purge EXCEPT !.stage = "selected", !.batch = {n}, !.batches = @ + 1]
          BY <4>2 DEF SelectBatch
        <5>2. purge'.batches = purge.batches + 1 /\ purge.batches \in Nat /\ purge.batches < MaxBatches
          BY <4>1, <4>2, <5>1 DEF PurgeRow, SelectBatch
        <5> QED
          BY <5>2, SnapBoundsAssumption
      <4>3. CASE DeleteBatch
        BY <4>1, <4>3 DEF DeleteBatch, PurgeRow, SnapNumbered
      <4>4. CASE PurgeCommits \/ PurgeRollsBack
        BY <4>4, SnapBoundsAssumption DEF PurgeCommits, PurgeRollsBack, NoPurge
      <4> QED
        BY <2>4, <4>2, <4>3, <4>4
    <3> QED
      BY <3>1, <3>2 DEF SnapNumbered
  <2>5. CASE UNCHANGED snapVars
    BY <2>5 DEF snapVars, SnapNumbered
  <2> QED
    BY <2>1, <2>2, <2>3, <2>4, <2>5 DEF SnapNext
<1> QED
  BY <1>1, <1>2, SnapInvHolds, PTL DEF SnapSpec

\* The rows of the tables and of the requests are what they should be.
LEMMA SnapTypesHold == SnapSpec => []SnapTypeOK
<1>1. SnapInv /\ SnapNumbered => SnapTypeOK
  <2> SUFFICES ASSUME SnapInv, SnapNumbered PROVE SnapTypeOK
    OBVIOUS
  <2>0. /\ SnapTypes /\ MaxRows \in Nat /\ MaxBatches \in Nat /\ inserted \in 0..MaxRows
        /\ \A n \in Rows : n \in Nat /\ n <= MaxRows
    BY SnapBoundsAssumption DEF SnapInv, SnapTypes, Rows
  <2>1. snapshot \in [Rows -> [revision: 0..MaxRows, content: Looks]]
    <3>1. \A n \in Rows : snapshot[n] \in SnapshotRow /\ snapshot[n].revision \in Nat
      BY <2>0 DEF SnapTypes, SnapshotRow
    <3>2. \A n \in Rows : snapshot[n].revision \in 0..MaxRows
      BY <2>0, <3>1 DEF SnapNumbered
    <3>3. \A n \in Rows : snapshot[n] \in [revision: 0..MaxRows, content: Looks]
      BY <3>1, <3>2 DEF SnapshotRow
    <3>4. snapshot = [n \in Rows |-> snapshot[n]]
      BY <2>0 DEF SnapTypes
    <3> QED
      BY <3>3, <3>4
  <2>2. here \subseteq {n \in 1..inserted : snapshot[n].revision >= 1}
    <3>1. \A n \in here : n \in 1..inserted /\ n \in Rows /\ n <= inserted
      BY <2>0 DEF SnapTypes, Rows
    <3> QED
      BY <3>1 DEF SnapNumbered
  <2>3. purge \in [stage: {"none", "selected", "deleted"}, batch: SUBSET Rows,
                   deleted: SUBSET Rows, batches: 0..MaxBatches]
    <3>1. purge \in PurgeRow /\ purge.batches \in Nat
      BY <2>0 DEF SnapTypes, PurgeRow
    <3>2. purge.batches \in 0..MaxBatches
      BY <2>0, <3>1 DEF SnapNumbered
    <3> QED
      BY <3>1, <3>2 DEF PurgeRow
  <2> QED
    BY <2>0, <2>1, <2>2, <2>3 DEF SnapTypes, SnapTypeOK, SnapNumbered, StartRow
<1> QED
  BY <1>1, SnapInvHolds, SnapNumbersHold, PTL
-----------------------------------------------------------------------------
(* HelpEditions.  What carries it: an edition that is there never becomes    *)
(* absent, only an import brings one there, and imports take turns; so what  *)
(* an import found absent is absent until it writes.                        *)

EditionRow == [status : Statuses, until : Days]
Present(r) == edition[r].status # "absent"
Asked(o) == errand[o] # NoErrand

EditionTypes ==
    /\ edition \in [Revisions -> EditionRow]
    /\ today \in 0..LastDay
    /\ errand \in [Operators -> Errands \cup {NoErrand}]
    /\ begun \in 0 .. MaxEditorial

\* There is a highest number.
NumbersEnd == \E k \in Nat : \A r \in Revisions : Present(r) => r <= k

RequestRight(request) ==
    /\ \A r \in Revisions : request.seen[r] # "absent" => Present(r)
    /\ IF request.kind \in {"import draft", "import published"}
       THEN \E r \in Revisions : /\ request.of = {r} /\ request.seen[r] \in {"absent", "draft"}
                                 /\ request.seen[r] = "absent" => ~Present(r)
       ELSE \A r \in request.of : request.seen[r] # "absent"
ImportsTakeTurns ==
    \A o, p \in Operators : Asked(o) /\ Asked(p) /\ Importing(o) /\ Importing(p) => o = p

EditionsInv ==
    /\ EditionTypes /\ NumbersEnd /\ ImportsTakeTurns
    /\ \A o \in Operators : Asked(o) => RequestRight(errand[o])

LEMMA DaysFit ==
    /\ 0..LastDay \subseteq Days /\ \A t \in 0..LastDay : t + 1 \in Days /\ t + ReviewDays \in Days
    /\ Days \subseteq Nat /\ LastDay \in Nat
BY EditionsAssumption DEF Days

LEMMA EditionsBegin == EditionsInit => EditionsInv
<1> SUFFICES ASSUME EditionsInit PROVE EditionsInv
  OBVIOUS
<1>1. PICK row : row = [status |-> "absent", until |-> 0]
  OBVIOUS
<1>2. row \in EditionRow /\ row.status = "absent"
  BY <1>1, DaysFit DEF EditionRow, Statuses, Days
<1>3. edition \in [Revisions -> EditionRow] /\ \A r \in Revisions : ~Present(r)
  BY <1>1, <1>2 DEF EditionsInit, Present
<1>4. EditionTypes
  BY <1>3, EditionsAssumption DEF EditionsInit, EditionTypes
<1>5. NumbersEnd
  BY <1>3, EditionsAssumption DEF NumbersEnd
<1>6. \A o \in Operators : ~Asked(o)
  BY DEF EditionsInit, Asked
<1> QED
  BY <1>4, <1>5, <1>6 DEF EditionsInv, ImportsTakeTurns

LEMMA RoomForOne ==
    ASSUME NEW bound \in Nat, NEW n \in 0..bound, n < bound
    PROVE  n + 1 \in 0..bound
OBVIOUS

\* A request that begins has read the rows as they are.
LEMMA RequestBegins ==
    ASSUME EditionsInv, NEW o \in Operators,
           NEW kind \in {"publish", "withdraw", "extend", "import draft", "import published"},
           NEW revisions \in SUBSET Revisions, NEW until \in Days, Begin(o, kind, revisions, until),
           IF kind \in {"import draft", "import published"}
           THEN /\ \A other \in Underway : ~Importing(other)
                /\ \E r \in Revisions : revisions = {r} /\ edition[r].status \in {"absent", "draft"}
           ELSE \A r \in revisions : Present(r)
    PROVE  EditionsInv'
<1>1. PICK seen : seen = [r \in Revisions |-> edition[r].status]
  OBVIOUS
<1>2. PICK request : request = [kind |-> kind, of |-> revisions, until |-> until, seen |-> seen]
  OBVIOUS
<1>3. /\ edition \in [Revisions -> EditionRow] /\ errand \in [Operators -> Errands \cup {NoErrand}]
      /\ begun \in 0..MaxEditorial /\ MaxEditorial \in Nat
  BY EditionsAssumption DEF EditionsInv, EditionTypes
<1>4. seen \in [Revisions -> Statuses] /\ \A r \in Revisions : seen[r] = edition[r].status
  BY <1>1, <1>3 DEF EditionRow
<1>5. /\ request \in Errands /\ request.kind = kind /\ request.of = revisions /\ request.seen = seen
  BY <1>2, <1>4 DEF Errands
<1>6. /\ errand' = [errand EXCEPT ![o] = request] /\ UNCHANGED <<edition, today>>
      /\ begun < MaxEditorial /\ begun' = begun + 1
  BY <1>1, <1>2 DEF Begin
<1>7. /\ errand' \in [Operators -> Errands \cup {NoErrand}] /\ errand'[o] = request
      /\ \A p \in Operators \ {o} : errand'[p] = errand[p]
  BY <1>3, <1>5, <1>6
<1>8. EditionTypes' /\ NumbersEnd'
  <2>1. begun' \in 0..MaxEditorial
    <3>1. PICK count : count = begun + 1
      OBVIOUS
    <3>2. begun \in 0..MaxEditorial /\ MaxEditorial \in Nat /\ begun < MaxEditorial
      BY <1>3, <1>6
    <3>3. begun + 1 \in 0..MaxEditorial
      BY <3>2, RoomForOne
    <3>4. count \in 0..MaxEditorial
      BY <3>1, <3>3, Zenon
    <3>5. begun' = count
      BY <1>6, <3>1
    <3> QED
      BY <3>4, <3>5, Zenon
  <2> QED
    BY <1>6, <1>7, <2>1 DEF EditionsInv, EditionTypes, NumbersEnd, Present
<1>9. RequestRight(request)
  <2>1. \A r \in Revisions : request.seen[r] # "absent" <=> Present(r)
    BY <1>4, <1>5 DEF Present
  <2>2. CASE kind \in {"import draft", "import published"}
    <3>1. PICK r \in Revisions : revisions = {r} /\ edition[r].status \in {"absent", "draft"}
      BY <2>2
    <3>2. request.seen[r] \in {"absent", "draft"}
      BY <1>4, <1>5, <3>1
    <3> QED
      BY <1>5, <2>1, <2>2, <3>1, <3>2 DEF RequestRight
  <2>3. CASE kind \notin {"import draft", "import published"}
    BY <1>5, <2>1, <2>3 DEF RequestRight
  <2> QED
    BY <2>2, <2>3
<1>10. \A p \in Operators : Asked(p)' => RequestRight(errand[p])'
  BY <1>6, <1>7, <1>9 DEF EditionsInv, Asked, RequestRight, Present
<1>11. ImportsTakeTurns'
  <2>1. \A p \in Operators \ {o} : /\ Asked(p)' <=> Asked(p)
                                   /\ Importing(p)' <=> Importing(p)
    BY <1>7 DEF Asked, Importing
  <2>2. Importing(o)' => \A p \in Operators : Asked(p) => ~Importing(p)
    BY <1>5, <1>7 DEF Importing, Underway, Asked
  <2> QED
    BY <2>1, <2>2 DEF EditionsInv, ImportsTakeTurns
<1> QED
  BY <1>8, <1>10, <1>11 DEF EditionsInv

LEMMA RequestsAreMade ==
    ASSUME EditionsInv, NEW o \in Operators, PanelBegins(o) \/ ImportBegins(o)
    PROVE  EditionsInv'
<1>0. today + ReviewDays \in Days /\ today + 1 \in Days
  BY DaysFit DEF EditionsInv, EditionTypes
<1>1. CASE PanelBegins(o)
  <2>1. PICK kind \in {"publish", "withdraw", "extend"},
             revisions \in SUBSET {r \in Revisions : edition[r].status # "absent"} :
                 Begin(o, kind, revisions, today + ReviewDays)
    BY <1>1 DEF PanelBegins
  <2>2. revisions \in SUBSET Revisions /\ \A r \in revisions : Present(r)
    BY DEF Present
  <2> QED
    BY <1>0, <2>1, <2>2, RequestBegins
<1>2. CASE ImportBegins(o)
  <2>1. PICK r \in Revisions, status \in {"draft", "published"}, until \in {today + 1, today + ReviewDays} :
            /\ Imported(r, status)
            /\ Begin(o, IF status = "draft" THEN "import draft" ELSE "import published", {r}, until)
    BY <1>2 DEF ImportBegins
  <2>2. \A other \in Underway : ~Importing(other)
    BY <1>2 DEF ImportBegins
  <2>3. edition[r].status \in {"absent", "draft"}
    BY <2>1 DEF Imported, Refused, EditionsInv, EditionTypes, EditionRow, Statuses
  <2>4. PICK kind \in {"import draft", "import published"} :
            kind = IF status = "draft" THEN "import draft" ELSE "import published"
    OBVIOUS
  <2> QED
    BY <1>0, <2>1, <2>2, <2>3, <2>4, RequestBegins
<1> QED
  BY <1>1, <1>2

\* The rows after a commit: what is there stays there, and an import alone
\* brings what it found absent.
Becomes(editions, request) ==
    /\ editions \in [Revisions -> EditionRow]
    /\ \A r \in Revisions :
          /\ Present(r) => editions[r].status # "absent"
          /\ ~Present(r) /\ editions[r].status # "absent" =>
                 r \in request.of /\ request.kind \in {"import draft", "import published"}

LEMMA RequestEnds ==
    ASSUME EditionsInv, NEW o \in Operators, Asked(o), errand' = [errand EXCEPT ![o] = NoErrand],
           UNCHANGED <<today, begun>>, Becomes(edition', errand[o])
    PROVE  EditionsInv'
<1>0. /\ errand \in [Operators -> Errands \cup {NoErrand}] /\ RequestRight(errand[o])
      /\ edition' \in [Revisions -> EditionRow]
  BY DEF EditionsInv, EditionTypes, Becomes
<1>1. /\ errand' \in [Operators -> Errands \cup {NoErrand}] /\ errand'[o] = NoErrand
      /\ \A p \in Operators \ {o} : errand'[p] = errand[p]
  BY <1>0
<1>2. EditionTypes'
  BY <1>0, <1>1 DEF EditionsInv, EditionTypes
<1>3. ImportsTakeTurns'
  BY <1>1 DEF EditionsInv, ImportsTakeTurns, Asked, Importing
<1>4. \A r \in Revisions : Present(r) => Present(r)'
  BY DEF Becomes, Present
<1>5. \A r \in Revisions : Present(r)' /\ ~Present(r) =>
          r \in errand[o].of /\ errand[o].kind \in {"import draft", "import published"}
  BY DEF Becomes, Present
<1>6. NumbersEnd'
  <2>1. PICK k \in Nat : \A r \in Revisions : Present(r) => r <= k
    BY DEF EditionsInv, NumbersEnd
  <2>2. CASE errand[o].kind \in {"import draft", "import published"}
    <3>1. PICK new \in Revisions : errand[o].of = {new}
      BY <1>0, <2>2 DEF RequestRight
    <3>2. PICK m \in Nat : m = IF new <= k THEN k ELSE new
      BY EditionsAssumption
    <3>3. ASSUME NEW r \in Revisions, Present(r)' PROVE r <= m
      <4>1. r \in Nat /\ new \in Nat
        BY EditionsAssumption
      <4>2. r = new \/ r <= k
        BY <1>5, <2>1, <3>1, <3>3
      <4> QED
        BY <3>2, <4>1, <4>2
    <3> QED
      BY <3>3 DEF NumbersEnd
  <2>3. CASE errand[o].kind \notin {"import draft", "import published"}
    BY <1>5, <2>1, <2>3 DEF NumbersEnd
  <2> QED
    BY <2>2, <2>3
<1>7. ASSUME NEW p \in Operators, Asked(p)' PROVE RequestRight(errand[p])'
  <2>1. p # o /\ errand'[p] = errand[p] /\ Asked(p)
    BY <1>1, <1>7 DEF Asked
  <2>2. RequestRight(errand[p])
    BY <2>1 DEF EditionsInv
  <2>3. ~(Importing(p) /\ Importing(o))
    BY <2>1 DEF EditionsInv, ImportsTakeTurns
  <2> QED
    BY <1>4, <1>5, <2>1, <2>2, <2>3 DEF RequestRight, Importing
<1> QED
  BY <1>2, <1>3, <1>6, <1>7 DEF EditionsInv

\* The rows a publication leaves: the last of the fresh ones stays.
LeftBy(editions, fresh, retired) ==
    /\ editions \in [Revisions -> EditionRow]
    /\ \A r \in Revisions :
          /\ editions[r].status = "published" => r \in fresh \/ editions[r] = edition[r]
          /\ r \in fresh \cup retired => editions[r].status # "absent"
          /\ r \notin fresh \cup retired => editions[r] = edition[r]

LEMMA PublicationIs ==
    ASSUME EditionsInv, NEW fresh \in SUBSET Revisions, fresh # {}, NEW k \in Nat, \A r \in fresh : r <= k,
           NEW retired \in SUBSET Revisions, NEW until \in Days
    PROVE  LeftBy(Published(fresh, retired, until), fresh, retired)
<1> DEFINE editions == Published(fresh, retired, until)
<1>0. edition \in [Revisions -> EditionRow] /\ Revisions \subseteq Nat
  BY EditionsAssumption DEF EditionsInv, EditionTypes
<1>1. PICK last : last = Max(fresh)
  OBVIOUS
<1>2. fresh \in SUBSET (0..k)
  BY <1>0
<1>3. last \in fresh
  BY <1>1, <1>2, LatestExists
<1>4. editions = [r \in Revisions |->
        CASE r = last -> [status |-> "published", until |-> until]
          [] r \in fresh \ {last} -> [status |-> "withdrawn", until |-> until]
          [] r \in retired \ fresh -> [edition[r] EXCEPT !.status = "withdrawn"]
          [] OTHER -> edition[r]]
  BY <1>1 DEF Published
<1>5. ASSUME NEW r \in Revisions
      PROVE  /\ editions[r] \in EditionRow
             /\ editions[r].status = "published" => r \in fresh \/ editions[r] = edition[r]
             /\ r \in fresh \cup retired => editions[r].status # "absent"
             /\ r \notin fresh \cup retired => editions[r] = edition[r]
  <2>0. edition[r] \in EditionRow
    BY <1>0
  <2>1. CASE r = last
    <3>1. editions[r] = [status |-> "published", until |-> until]
      BY <1>3, <1>4, <2>1
    <3> QED
      BY <1>3, <2>1, <3>1 DEF EditionRow, Statuses
  <2>2. CASE r \in fresh \ {last}
    <3>1. editions[r] = [status |-> "withdrawn", until |-> until]
      BY <1>4, <2>2
    <3> QED
      BY <2>2, <3>1 DEF EditionRow, Statuses
  <2>3. CASE r \in retired \ fresh
    <3>1. editions[r] = [edition[r] EXCEPT !.status = "withdrawn"]
      BY <1>3, <1>4, <2>3
    <3> QED
      BY <2>0, <2>3, <3>1 DEF EditionRow, Statuses
  <2>4. CASE r \notin fresh \cup retired
    <3>1. editions[r] = edition[r]
      BY <1>3, <1>4, <2>4
    <3> QED
      BY <2>0, <2>4, <3>1
  <2> QED
    BY <2>1, <2>2, <2>3, <2>4
<1>6. editions \in [Revisions -> EditionRow]
  BY <1>4, <1>5
<1> QED
  BY <1>5, <1>6 DEF LeftBy

\* An edition is shown again because it was extended, or read as a draft.
ShownRight(editions, request) ==
    \A r \in Revisions :
        edition[r].status \in {"published", "withdrawn"} /\ editions[r].status = "published"
            => \/ editions[r] = edition[r]
               \/ edition[r].status = "published" /\ request.kind = "extend" /\ r \in request.of
               \/ request.seen[r] = "draft"

LEMMA SavedIs ==
    ASSUME EditionsInv, NEW request \in Errands, RequestRight(request),
           NEW fresh \in SUBSET Revisions, fresh # {}, NEW k \in Nat, \A r \in fresh : r <= k,
           NEW retired \in SUBSET Revisions, \A r \in retired : Present(r),
           Save(Published(fresh, retired, request.until)),
           \A r \in fresh : /\ Present(r) => request.seen[r] = "draft"
                            /\ ~Present(r) => r \in request.of
                                   /\ request.kind \in {"import draft", "import published"}
    PROVE  Becomes(edition', request) /\ ShownRight(edition', request)
<1>0. edition \in [Revisions -> EditionRow] /\ request.until \in Days
  BY DEF EditionsInv, EditionTypes, Errands
<1>1. PICK editions : editions = Published(fresh, retired, request.until)
  OBVIOUS
<1>2. LeftBy(editions, fresh, retired)
  BY <1>0, <1>1, PublicationIs
<1>3. edition' = edition \/ edition' = editions
  BY <1>1 DEF Save
<1>4. CASE edition' = edition
  BY <1>0, <1>4 DEF Becomes, ShownRight, Present
<1>5. CASE edition' = editions
  <2>1. Becomes(editions, request)
    BY <1>2 DEF LeftBy, Becomes, Present
  <2>2. ShownRight(editions, request)
    BY <1>2 DEF LeftBy, ShownRight, Present
  <2> QED
    BY <1>5, <2>1, <2>2
<1> QED
  BY <1>3, <1>4, <1>5

LEMMA CommitIs ==
    ASSUME EditionsInv, NEW o \in Operators, Commit(o)
    PROVE  Becomes(edition', errand[o]) /\ ShownRight(edition', errand[o])
<1>1. PICK request : request = errand[o]
  OBVIOUS
<1>2. request \in Errands /\ RequestRight(request) /\ edition \in [Revisions -> EditionRow]
  BY <1>1 DEF Commit, EditionsInv, EditionTypes, Asked
<1>3. /\ request.of \in SUBSET Revisions /\ request.seen \in [Revisions -> Statuses] /\ request.until \in Days
      /\ request.kind \in {"publish", "withdraw", "extend", "import draft", "import published"}
      /\ \A r \in Revisions : request.seen[r] # "absent" => Present(r)
  BY <1>2 DEF Errands, RequestRight
<1>4. /\ request.kind = "publish" => CommitPublish(request)
      /\ request.kind = "withdraw" => CommitWithdraw(request)
      /\ request.kind = "extend" => CommitExtend(request)
      /\ request.kind \in {"import draft", "import published"} => CommitImport(request)
  BY <1>1 DEF Commit
<1>5. CASE request.kind = "publish"
  <2>1. CASE Fresh(request) = {}
    <3>1. edition' = edition
      BY <1>4, <1>5, <2>1 DEF CommitPublish
    <3> QED
      BY <1>1, <1>2, <3>1 DEF Becomes, ShownRight, Present
  <2>2. CASE Fresh(request) # {}
    <3>1. PICK fresh : fresh = Fresh(request)
      OBVIOUS
    <3>2. fresh \in SUBSET Revisions /\ \A r \in fresh : request.seen[r] = "draft" /\ Present(r)
      BY <1>3, <3>1 DEF Fresh
    <3>3. PICK retired \in Retirable(request) : Save(Published(fresh, retired, request.until))
      BY <1>4, <1>5, <2>2, <3>1 DEF CommitPublish
    <3>4. retired \in SUBSET Revisions /\ \A r \in retired : Present(r)
      BY <1>3 DEF Retirable, Present
    <3>5. PICK k \in Nat : \A r \in fresh : r <= k
      BY <3>2 DEF EditionsInv, NumbersEnd
    <3> QED
      BY <1>1, <1>2, <2>2, <3>1, <3>2, <3>3, <3>4, <3>5, SavedIs
  <2> QED
    BY <2>1, <2>2
<1>6. CASE request.kind = "withdraw"
  <2>1. edition' = [r \in Revisions |->
                   IF r \in request.of /\ request.seen[r] # "withdrawn"
                   THEN [edition[r] EXCEPT !.status = "withdrawn"] ELSE edition[r]]
    BY <1>4, <1>6 DEF CommitWithdraw
  <2>2. \A r \in request.of : Present(r)
    BY <1>2, <1>3, <1>6 DEF RequestRight
  <2>3. ASSUME NEW r \in Revisions
        PROVE  /\ edition'[r] \in EditionRow
               /\ edition'[r] = edition[r] \/ (r \in request.of /\ edition'[r].status = "withdrawn")
    <3>1. edition[r] \in EditionRow
      BY <1>2
    <3>2. PICK row : row = [edition[r] EXCEPT !.status = "withdrawn"]
      OBVIOUS
    <3>3. row \in EditionRow /\ row.status = "withdrawn"
      BY <3>1, <3>2 DEF EditionRow, Statuses
    <3>4. edition'[r] = IF r \in request.of /\ request.seen[r] # "withdrawn" THEN row ELSE edition[r]
      BY <2>1, <3>2
    <3> QED
      BY <3>1, <3>3, <3>4
  <2>4. edition' \in [Revisions -> EditionRow]
    BY <2>1, <2>3
  <2> QED
    BY <1>1, <2>2, <2>3, <2>4 DEF Becomes, ShownRight, Present
<1>7. CASE request.kind = "extend"
  <2>1. edition' = [r \in Revisions |->
                   IF r \in request.of /\ request.seen[r] = "published"
                   THEN [edition[r] EXCEPT !.until = request.until] ELSE edition[r]]
    BY <1>4, <1>7 DEF CommitExtend
  <2>2. ASSUME NEW r \in Revisions
        PROVE  /\ edition'[r] \in EditionRow /\ edition'[r].status = edition[r].status
               /\ edition'[r] = edition[r] \/ r \in request.of
    <3>1. edition[r] \in EditionRow
      BY <1>2
    <3>2. PICK row : row = [edition[r] EXCEPT !.until = request.until]
      OBVIOUS
    <3>3. row \in EditionRow /\ row.status = edition[r].status
      BY <1>3, <3>1, <3>2 DEF EditionRow
    <3>4. edition'[r] = IF r \in request.of /\ request.seen[r] = "published" THEN row ELSE edition[r]
      BY <2>1, <3>2
    <3> QED
      BY <3>1, <3>3, <3>4
  <2>3. edition' \in [Revisions -> EditionRow]
    BY <2>1, <2>2
  <2> QED
    BY <1>1, <1>7, <2>2, <2>3 DEF Becomes, ShownRight, Present
<1>8. CASE request.kind \in {"import draft", "import published"}
  <2>1. PICK r \in Revisions : /\ request.of = {r} /\ request.seen[r] \in {"absent", "draft"}
                               /\ request.seen[r] = "absent" => ~Present(r)
    BY <1>2, <1>8 DEF RequestRight
  <2>2. (CHOOSE x \in request.of : TRUE) = r
    BY <2>1
  <2>3. CASE request.kind = "import draft"
    <3>1. edition' = [edition EXCEPT ![r].status = "draft"]
      BY <1>4, <1>8, <2>2, <2>3 DEF CommitImport
    <3>2. PICK row : row = [edition[r] EXCEPT !.status = "draft"]
      OBVIOUS
    <3>3. row \in EditionRow /\ row.status = "draft"
      BY <1>2, <3>2 DEF EditionRow, Statuses
    <3>4. /\ edition' \in [Revisions -> EditionRow] /\ edition'[r] = row
          /\ \A x \in Revisions \ {r} : edition'[x] = edition[x]
      BY <1>2, <3>1, <3>2, <3>3
    <3> QED
      BY <1>1, <2>1, <2>3, <3>3, <3>4 DEF Becomes, ShownRight, Present
  <2>4. CASE request.kind = "import published"
    <3>1. PICK retired : retired = {s \in Revisions : request.seen[s] = "published"}
      OBVIOUS
    <3>2. Save(Published({r}, retired, request.until))
      BY <1>4, <1>8, <2>2, <2>4, <3>1 DEF CommitImport
    <3>3. retired \in SUBSET Revisions /\ \A s \in retired : Present(s)
      BY <1>3, <3>1
    <3>4. r \in Nat /\ r <= r
      BY EditionsAssumption
    <3>5. PICK fresh : fresh = {r}
      OBVIOUS
    <3>6. \A x \in fresh : /\ Present(x) => request.seen[x] = "draft"
                           /\ ~Present(x) => x \in request.of
                                  /\ request.kind \in {"import draft", "import published"}
      BY <1>8, <2>1, <3>5
    <3>7. /\ fresh \in SUBSET Revisions /\ fresh # {} /\ \A x \in fresh : x <= r
          /\ Save(Published(fresh, retired, request.until))
      BY <3>2, <3>4, <3>5
    <3> QED
      BY <1>1, <1>2, <3>3, <3>4, <3>6, <3>7, SavedIs
  <2> QED
    BY <1>8, <2>3, <2>4
<1> QED
  BY <1>3, <1>5, <1>6, <1>7, <1>8

LEMMA EditionsInvHolds == EditionsSpec => []EditionsInv
<1>1. EditionsInv /\ [EditionsNext]_editionVars => EditionsInv'
  <2> SUFFICES ASSUME EditionsInv, [EditionsNext]_editionVars PROVE EditionsInv'
    OBVIOUS
  <2>1. ASSUME UNCHANGED <<edition, errand, begun>>, today' \in 0..LastDay PROVE EditionsInv'
    BY <2>1 DEF EditionsInv, EditionTypes, NumbersEnd, ImportsTakeTurns, Asked, Importing, RequestRight, Present
  <2>2. CASE UNCHANGED editionVars
    BY <2>1, <2>2 DEF editionVars, EditionsInv, EditionTypes
  <2>3. CASE NextDay
    <3>1. today \in 0..LastDay /\ LastDay \in Nat /\ today < LastDay /\ today' = today + 1
      BY <2>3, DaysFit DEF NextDay, EditionsInv, EditionTypes
    <3> QED
      BY <2>1, <2>3, <3>1 DEF NextDay
  <2>4. ASSUME NEW o \in Operators, Commit(o) PROVE EditionsInv'
    BY <2>4, CommitIs, RequestEnds DEF Commit, Asked
  <2> QED
    BY <2>2, <2>3, <2>4, RequestsAreMade DEF EditionsNext
<1> QED
  BY <1>1, EditionsBegin, PTL DEF EditionsSpec

\* The types of HelpEditions.
LEMMA EditionTypesHold == EditionsSpec => []EditionsTypeOK
<1>1. EditionsInv => EditionsTypeOK
  BY DaysFit DEF EditionsInv, EditionTypes, EditionRow, EditionsTypeOK
<1> QED
  BY <1>1, EditionsInvHolds, PTL

\* An edition that readers no longer see comes back only when an operator who
\* read it again extended it or a request had read it as a draft, and once
\* withdrawn not by an extension, for any editions, requests and deadlines
\* (help_publication.py, help_import.py, visible_help).
THEOREM NothingReappears == EditionsSpec => ShownAgainOnlyWhenReread
<1>1. ASSUME EditionsInv, [EditionsNext]_editionVars, NEW r \in Revisions,
             edition[r].status \in {"published", "withdrawn"}, ~Visible(r), Visible(r)'
      PROVE  Reread(r) \/ ReadBeforeShown(r)
  <2>0. /\ edition[r].until \in Nat /\ today \in Nat /\ errand \in [Operators -> Errands \cup {NoErrand}]
    BY <1>1, DaysFit DEF EditionsInv, EditionTypes, EditionRow
  <2>1. edition'[r] # edition[r]
    <3>1. today' = today \/ today' = today + 1
      BY <1>1 DEF EditionsNext, editionVars, PanelBegins, ImportBegins, Begin, Commit, NextDay
    <3> QED
      BY <1>1, <2>0, <3>1 DEF Visible
  <2>2. PICK o \in Operators : Commit(o)
    BY <1>1, <2>1 DEF EditionsNext, editionVars, PanelBegins, ImportBegins, Begin, NextDay
  <2>3. Closes(o)
    BY <2>0, <2>2 DEF Commit, Closes
  <2>4. ShownRight(edition', errand[o])
    BY <1>1, <2>2, CommitIs
  <2> QED
    BY <1>1, <2>1, <2>3, <2>4 DEF ShownRight, Reread, ReadBeforeShown, Visible
<1>2. EditionsInv /\ [EditionsNext]_editionVars =>
          [\A r \in Revisions :
              edition[r].status \in {"published", "withdrawn"} /\ ~Visible(r) /\ Visible(r)'
                  => Reread(r) \/ ReadBeforeShown(r)]_editionVars
  BY <1>1
<1> QED
  BY <1>2, EditionsInvHolds, PTL DEF EditionsSpec, ShownAgainOnlyWhenReread
=============================================================================
