--------------------------- MODULE AccountsProofs ---------------------------
(* Proofs about how one gets into an account and stays in it: codes, their   *)
(* delivery, the sessions, and the blocks of the pace check; for any         *)
(* requests, workers, codes, tokens and thresholds; and about the run that   *)
(* puts all that belongs to an account side by side.                         *)
EXTENDS MCAccounts, BackgroundProofs

-----------------------------------------------------------------------------
(* CodeIssue.                                                               *)

IssueTypes ==
    /\ sluggish \in BOOLEAN
    /\ issueLock \in Askers \cup {Nobody}
    /\ asker \in [Askers -> [at: {"new", "locked", "found", "closed", "issued", "done"},
                             found: 0..MaxCodes, over: SUBSET Codes]]
    /\ challenge \in [Codes -> {"none", "live", "consumed", "expired"}]

\* Codes are given out in order, and a request ends none that was not there.
Issued(k) == \A c \in Codes : challenge[c] # "none" <=> c <= k
InSequence ==
    /\ \E k \in Nat : k <= MaxCodes /\ Issued(k)
    /\ \A a \in Askers, c \in Codes : c \in asker[a].over => challenge[c] # "none"

\* While no request outlasts its lock, the one that holds it is alone, and the
\* code it found, if any, is all that lives.
Inside(a) == asker[a].at \in {"locked", "found", "closed", "issued"}
Alone == \A a \in Askers : Inside(a) => issueLock = a
FindsTheLiveOne ==
    \A a \in Askers : asker[a].at \in {"found", "closed"} => LiveCodes \subseteq {asker[a].found}
Single == \A c, d \in LiveCodes : c = d

IssueInv == IssueTypes /\ InSequence /\ (~sluggish => Alone /\ FindsTheLiveOne /\ Single)

\* The newest live code is one of them.
LEMMA NewestIsLive ==
    ASSUME LiveCodes # {} PROVE NewestLive \in LiveCodes
<1>1. LiveCodes \in SUBSET (0..MaxCodes) /\ MaxCodes \in Nat
  BY MaxCodesAssumption DEF LiveCodes, Codes
<1> QED
  BY <1>1, LatestExists DEF NewestLive

\* The code that is issued next was not there before.
LEMMA NewCodeIsNext ==
    ASSUME IssueInv, NEW k \in Nat, k <= MaxCodes, Issued(k)
    PROVE  NewCode = k + 1
<1>1. {c \in Codes : challenge[c] # "none"} = 1..k
  BY MaxCodesAssumption DEF Issued, Codes
<1>2. Cardinality(1..k) = k
  BY FS_Interval
<1> QED
  BY <1>1, <1>2 DEF NewCode

\* The same of the codes after a step.
LEMMA NewCodesAreNext ==
    ASSUME IssueInv', NEW k \in Nat, k <= MaxCodes, Issued(k)'
    PROVE  NewCode' = k + 1
<1>1. {c \in Codes : challenge'[c] # "none"} = 1..k
  BY MaxCodesAssumption DEF Issued, Codes
<1>2. Cardinality(1..k) = k
  BY FS_Interval
<1> QED
  BY <1>1, <1>2 DEF NewCode

LEMMA IssueBegins == IssueInit => IssueInv
<1> SUFFICES ASSUME IssueInit PROVE IssueInv
  OBVIOUS
<1>1. IssueTypes
  BY MaxCodesAssumption DEF IssueInit, IssueTypes
<1>2. Issued(0) /\ 0 \in Nat /\ 0 <= MaxCodes
  BY MaxCodesAssumption DEF IssueInit, Issued, Codes
<1>3. InSequence
  BY <1>2 DEF InSequence, IssueInit
<1>4. Alone /\ FindsTheLiveOne /\ Single
  BY DEF IssueInit, Alone, Inside, FindsTheLiveOne, Single, LiveCodes
<1> QED
  BY <1>1, <1>3, <1>4 DEF IssueInv

\* No code comes to life.
LEMMA NoCodeLives ==
    ASSUME IssueInv, UNCHANGED <<sluggish, issueLock, asker>>,
           NEW c \in Codes, challenge[c] # "none", NEW s \in {"consumed", "expired"},
           challenge' = [challenge EXCEPT ![c] = s]
    PROVE  IssueInv'
<1>1. /\ challenge' \in [Codes -> {"none", "live", "consumed", "expired"}]
      /\ challenge'[c] = s
      /\ \A d \in Codes \ {c} : challenge'[d] = challenge[d]
  BY DEF IssueInv, IssueTypes
<1>2. IssueTypes'
  BY <1>1 DEF IssueInv, IssueTypes
<1>3. LiveCodes' \subseteq LiveCodes
  BY <1>1 DEF LiveCodes
<1>4. \A d \in Codes : challenge'[d] # "none" <=> challenge[d] # "none"
  BY <1>1
<1>5. InSequence'
  BY <1>4 DEF IssueInv, InSequence, Issued
<1> QED
  BY <1>2, <1>3, <1>5 DEF IssueInv, Alone, Inside, FindsTheLiveOne, Single

\* What a request writes: the code it found stays, the others end, and if it
\* found none, the next one is born.
LEMMA IssueKeeps ==
    ASSUME IssueInv, NEW a \in Askers, Issue(a)
    PROVE  IssueInv'
<1> DEFINE over == asker[a].over
           found == asker[a].found
<1>1. /\ asker[a].at = "closed" /\ asker[a] \in [at: {"new", "locked", "found", "closed", "issued", "done"},
                                                  found: 0..MaxCodes, over: SUBSET Codes]
      /\ UNCHANGED <<sluggish, issueLock>>
      /\ asker' = [asker EXCEPT ![a].at = "issued"]
  BY DEF Issue, IssueInv, IssueTypes
<1>2. PICK k \in Nat : k <= MaxCodes /\ Issued(k) /\ NewCode = k + 1
  BY NewCodeIsNext DEF IssueInv, InSequence
<1>3. \A c \in Codes : c \in over => c <= k /\ challenge[c] # "none"
  BY <1>2 DEF IssueInv, InSequence, Issued
<1>4. \A c \in Codes : /\ c \in over => challenge'[c] = "consumed"
                       /\ c \notin over /\ found = 0 /\ c = NewCode => challenge'[c] = "live"
                       /\ c \notin over /\ ~(found = 0 /\ c = NewCode) => challenge'[c] = challenge[c]
  BY DEF Issue, AsItIs
<1>5. challenge' \in [Codes -> {"none", "live", "consumed", "expired"}]
  <2>1. \A c \in Codes : challenge'[c] \in {"none", "live", "consumed", "expired"}
    BY <1>4 DEF IssueInv, IssueTypes
  <2>2. challenge' = [c \in Codes |-> challenge'[c]]
    BY DEF Issue
  <2> QED
    BY <2>1, <2>2
<1>6. /\ asker' \in [Askers -> [at: {"new", "locked", "found", "closed", "issued", "done"},
                                found: 0..MaxCodes, over: SUBSET Codes]]
      /\ asker'[a].at = "issued" /\ asker'[a].over = over
      /\ \A b \in Askers \ {a} : asker'[b] = asker[b]
  BY <1>1 DEF IssueInv, IssueTypes
<1>7. IssueTypes'
  BY <1>1, <1>5, <1>6 DEF IssueInv, IssueTypes
<1>8. InSequence'
  <2>1. \A b \in Askers, c \in Codes : c \in asker'[b].over => challenge'[c] # "none"
    <3>1. \A c \in Codes : challenge[c] # "none" => challenge'[c] # "none"
      BY <1>4
    <3>2. \A b \in Askers : asker'[b].over = asker[b].over
      BY <1>6
    <3> QED
      BY <3>1, <3>2 DEF IssueInv, InSequence
  <2>2. CASE found = 0
    <3>1. k + 1 \in Codes /\ k + 1 \notin over
      BY <1>1, <1>2, <1>3, <2>2, MaxCodesAssumption DEF Issue, Codes
    <3>2. Issued(k + 1)'
      BY <1>2, <1>3, <1>4, <2>2, <3>1 DEF Issued, Codes
    <3> QED
      BY <1>2, <2>1, <3>1, <3>2, MaxCodesAssumption DEF InSequence, Codes
  <2>3. CASE found # 0
    <3>1. Issued(k)'
      BY <1>2, <1>3, <1>4, <2>3 DEF Issued
    <3> QED
      BY <1>2, <2>1, <3>1 DEF InSequence
  <2> QED
    BY <2>2, <2>3
<1>9. ASSUME ~sluggish PROVE (Alone /\ FindsTheLiveOne /\ Single)'
  <2>1. \A b \in Askers : Inside(b) => b = a
    BY <1>1, <1>9 DEF IssueInv, Alone, Inside
  <2>2. Alone'
    BY <1>1, <1>6, <1>9, <2>1 DEF IssueInv, Alone, Inside
  <2>3. FindsTheLiveOne'
    BY <1>6, <2>1 DEF FindsTheLiveOne, Inside
  <2>4. LiveCodes \subseteq {found}
    BY <1>1, <1>9 DEF IssueInv, FindsTheLiveOne
  <2>5. \A c \in LiveCodes' : IF found = 0 THEN c = NewCode ELSE c = found
    BY <1>1, <1>4, <2>4, MaxCodesAssumption DEF LiveCodes, Codes
  <2> QED
    BY <2>2, <2>3, <2>5 DEF Single
<1> QED
  BY <1>1, <1>7, <1>8, <1>9 DEF IssueInv

LEMMA IssueStep == IssueInv /\ [IssueNext]_issueVars => IssueInv'
<1> SUFFICES ASSUME IssueInv, [IssueNext]_issueVars PROVE IssueInv'
  OBVIOUS
<1> DEFINE Row == [at: {"new", "locked", "found", "closed", "issued", "done"},
                   found: 0..MaxCodes, over: SUBSET Codes]
<1>0. /\ asker \in [Askers -> Row] /\ challenge \in [Codes -> {"none", "live", "consumed", "expired"}]
      /\ issueLock \in Askers \cup {Nobody} /\ sluggish \in BOOLEAN
  BY DEF IssueInv, IssueTypes
<1>1. ASSUME NEW a \in Askers, Ask(a) PROVE IssueInv'
  <2>1. /\ UNCHANGED <<sluggish, challenge>> /\ issueLock = Nobody /\ issueLock' = a
        /\ asker'[a] = [asker[a] EXCEPT !.at = "locked"] /\ asker' \in [Askers -> Row]
        /\ \A b \in Askers \ {a} : asker'[b] = asker[b]
    BY <1>0, <1>1 DEF Ask, LockIsFree
  <2>2. asker'[a].over = asker[a].over /\ asker'[a].at = "locked"
    BY <1>0, <2>1
  <2>3. IssueTypes' /\ InSequence'
    BY <1>0, <2>1, <2>2 DEF IssueTypes, IssueInv, InSequence, Issued
  <2>4. ASSUME ~sluggish PROVE (Alone /\ FindsTheLiveOne /\ Single)'
    <3>1. \A b \in Askers : ~Inside(b)
      BY <2>1, <2>4, NobodyAssumption DEF IssueInv, Alone
    <3> QED
      BY <2>1, <2>2, <2>4, <3>1 DEF IssueInv, Alone, Inside, FindsTheLiveOne, Single, LiveCodes
  <2> QED
    BY <2>1, <2>3, <2>4 DEF IssueInv
<1>2. ASSUME NEW a \in Askers, FindLive(a) PROVE IssueInv'
  <2>1. NewestLive \in 0..MaxCodes
    <3>1. CASE LiveCodes = {}
      BY <3>1, MaxCodesAssumption DEF NewestLive
    <3>2. CASE LiveCodes # {}
      BY <3>2, NewestIsLive, MaxCodesAssumption DEF LiveCodes, Codes
    <3> QED
      BY <3>1, <3>2
  <2>2. PICK row : row = [asker[a] EXCEPT !.at = "found", !.found = NewestLive]
    OBVIOUS
  <2>3. row \in Row /\ row.over = asker[a].over /\ row.at = "found" /\ row.found = NewestLive
    BY <1>0, <2>1, <2>2
  <2>4. asker' = [asker EXCEPT ![a] = row]
    BY <1>0, <1>2, <2>2 DEF FindLive
  <2>5. /\ UNCHANGED <<sluggish, challenge, issueLock>> /\ asker[a].at = "locked"
        /\ asker'[a] = row /\ asker' \in [Askers -> Row]
        /\ \A b \in Askers \ {a} : asker'[b] = asker[b]
    BY <1>0, <1>2, <2>3, <2>4 DEF FindLive
  <2>6. asker'[a].over = asker[a].over /\ asker'[a].at = "found"
    BY <2>3, <2>5
  <2>7. IssueTypes' /\ InSequence'
    BY <1>0, <2>5, <2>6 DEF IssueTypes, IssueInv, InSequence, Issued
  <2>8. Single => LiveCodes \subseteq {asker'[a].found}
    BY <2>2, <2>3, <2>5, NewestIsLive DEF Single
  <2> QED
    BY <2>5, <2>6, <2>7, <2>8 DEF IssueInv, Alone, Inside, FindsTheLiveOne, Single, LiveCodes
<1>3. ASSUME NEW a \in Askers, CloseOthers(a) PROVE IssueInv'
  <2>1. PICK over \in SUBSET Codes :
          over = {c \in Codes \ {asker[a].found} : challenge[c] \in {"live", "expired"}}
    OBVIOUS
  <2>2. PICK row : row = [asker[a] EXCEPT !.at = "closed", !.over = over]
    OBVIOUS
  <2>3. row \in Row /\ row.over = over /\ row.at = "closed" /\ row.found = asker[a].found
    BY <1>0, <2>1, <2>2
  <2>4. asker' = [asker EXCEPT ![a] = row]
    BY <1>0, <1>3, <2>1, <2>2 DEF CloseOthers
  <2>5. /\ UNCHANGED <<sluggish, challenge, issueLock>> /\ asker[a].at = "found"
        /\ asker'[a] = row /\ asker' \in [Askers -> Row]
        /\ \A b \in Askers \ {a} : asker'[b] = asker[b]
    BY <1>0, <1>3, <2>3, <2>4 DEF CloseOthers
  <2>6. asker'[a].over = over /\ asker'[a].at = "closed" /\ asker'[a].found = asker[a].found
    BY <2>3, <2>5
  <2>7. \A c \in Codes : c \in over => challenge[c] # "none"
    BY <2>1
  <2>8. IssueTypes' /\ InSequence'
    BY <1>0, <2>5, <2>6, <2>7 DEF IssueTypes, IssueInv, InSequence, Issued
  <2> QED
    BY <2>5, <2>6, <2>8 DEF IssueInv, Alone, Inside, FindsTheLiveOne, Single, LiveCodes
<1>4. ASSUME NEW a \in Askers, Unlock(a) PROVE IssueInv'
  <2>1. /\ UNCHANGED <<sluggish, challenge>> /\ issueLock' = Nobody /\ asker[a].at = "issued"
        /\ asker'[a] = [asker[a] EXCEPT !.at = "done"] /\ asker' \in [Askers -> Row]
        /\ \A b \in Askers \ {a} : asker'[b] = asker[b]
    BY <1>0, <1>4 DEF Unlock
  <2>2. asker'[a].over = asker[a].over /\ asker'[a].at = "done"
    BY <1>0, <2>1
  <2>3. IssueTypes' /\ InSequence'
    BY <1>0, <2>1, <2>2 DEF IssueTypes, IssueInv, InSequence, Issued
  <2>4. ASSUME ~sluggish PROVE (Alone /\ FindsTheLiveOne /\ Single)'
    <3>1. \A b \in Askers : Inside(b) => b = a
      BY <2>1, <2>4 DEF IssueInv, Alone, Inside
    <3> QED
      BY <2>1, <2>2, <2>4, <3>1 DEF IssueInv, Alone, Inside, FindsTheLiveOne, Single, LiveCodes
  <2> QED
    BY <2>1, <2>3, <2>4 DEF IssueInv
<1>5. CASE IssueLockRunsOut
  BY <1>5 DEF IssueLockRunsOut, IssueInv, IssueTypes, InSequence, Issued
<1>6. CASE Verify
  BY <1>6, NewestIsLive, NoCodeLives DEF Verify, LiveCodes
<1>7. ASSUME NEW c \in Codes, ExpireCode(c) PROVE IssueInv'
  BY <1>7, NoCodeLives DEF ExpireCode
<1>8. CASE UNCHANGED issueVars
  BY <1>8 DEF issueVars, IssueInv, IssueTypes, InSequence, Issued, Alone, Inside, FindsTheLiveOne,
              Single, LiveCodes
<1> QED
  BY <1>1, <1>2, <1>3, <1>4, <1>5, <1>6, <1>7, <1>8, IssueKeeps DEF IssueNext

LEMMA IssueInvHolds == IssueSpec => []IssueInv
BY IssueBegins, IssueStep, PTL DEF IssueSpec

\* What a request writes, seen from the phone: a code is given when there is
\* none, or the one that is good stays or ends.
LEMMA IssueGives ==
    ASSUME IssueInv, ~sluggish, NEW a \in Askers, Issue(a)
    PROVE  [Phone!Next]_Phone!vars
<1>1. PICK k \in Nat : k <= MaxCodes /\ Issued(k) /\ NewCode = k + 1
  BY NewCodeIsNext DEF IssueInv, InSequence
<1>2. IssueInv' /\ UNCHANGED sluggish
  BY IssueKeeps DEF Issue
<1>3. PICK n \in Nat : n <= MaxCodes /\ Issued(n)' /\ NewCode' = n + 1
  BY <1>2, NewCodesAreNext DEF IssueInv, InSequence
<1>4. LiveCodes \subseteq {asker[a].found}
  BY DEF Issue, IssueInv, FindsTheLiveOne
<1>5. \A c \in Codes : /\ c \in asker[a].over => challenge'[c] = "consumed"
                       /\ c \notin asker[a].over /\ asker[a].found = 0 /\ c = NewCode => challenge'[c] = "live"
                       /\ c \notin asker[a].over /\ ~(asker[a].found = 0 /\ c = NewCode)
                             => challenge'[c] = challenge[c]
  BY DEF Issue, AsItIs
<1>6. \A c \in Codes : c \in asker[a].over => challenge[c] # "none"
  BY DEF IssueInv, InSequence
<1>7. CASE asker[a].found = 0
  <2>1. k + 1 \in Codes /\ LiveCodes = {}
    BY <1>1, <1>4, <1>7, MaxCodesAssumption DEF Issue, Codes, LiveCodes
  <2>2. challenge[k + 1] = "none"
    BY <1>1, <2>1 DEF Issued
  <2>3. LiveCodes' = {k + 1}
    BY <1>1, <1>5, <1>6, <1>7, <2>1, <2>2 DEF LiveCodes
  <2>4. \A c \in Codes : challenge'[c] # "none" <=> c <= k + 1
    BY <1>1, <1>5, <1>6, <1>7, <2>1, <2>2 DEF Issued, Codes
  <2>5. n = k + 1
    <3>1. n = 0 \/ n \in Codes
      BY <1>3 DEF Codes
    <3>2. k + 1 <= n
      BY <1>3, <2>1, <2>4 DEF Issued
    <3> QED BY <1>3, <2>4, <3>1, <3>2 DEF Issued, Codes
  <2> QED BY <1>1, <1>2, <1>3, <2>1, <2>3, <2>5 DEF Phone!Next, Phone!Give
<1>8. CASE asker[a].found # 0
  <2>1. \A c \in Codes : challenge'[c] # "none" <=> challenge[c] # "none"
    BY <1>5, <1>6, <1>8
  <2>2. NewCode' = NewCode
    BY <2>1 DEF NewCode
  <2>3. LiveCodes' \subseteq LiveCodes
    BY <1>5, <1>8 DEF LiveCodes
  <2>4. LiveCodes' = LiveCodes \/ (LiveCodes # {} /\ LiveCodes' = {})
    <3>1. CASE LiveCodes' = {}
      BY <3>1
    <3>2. ASSUME NEW c \in LiveCodes' PROVE LiveCodes' = LiveCodes
      BY <1>4, <2>3, <3>2
    <3> QED BY <3>1, <3>2
  <2> QED BY <1>2, <2>2, <2>4 DEF Phone!Next, Phone!End, Phone!vars
<1> QED BY <1>7, <1>8

\* A code that is entered or runs out, seen from the phone.
LEMMA CodeEnds ==
    ASSUME IssueInv, ~sluggish, UNCHANGED sluggish,
           NEW c \in LiveCodes, NEW s \in {"consumed", "expired"},
           challenge' = [challenge EXCEPT ![c] = s]
    PROVE  Phone!End
<1>1. challenge'[c] = s /\ \A d \in Codes \ {c} : challenge'[d] = challenge[d]
  BY DEF IssueInv, IssueTypes, LiveCodes
<1>2. LiveCodes = {c}
  BY DEF IssueInv, Single
<1>3. LiveCodes' = {}
  BY <1>1, <1>2 DEF LiveCodes
<1>4. \A d \in Codes : challenge'[d] # "none" <=> challenge[d] # "none"
  BY <1>1 DEF LiveCodes
<1>5. NewCode' = NewCode
  BY <1>4 DEF NewCode
<1> QED BY <1>2, <1>3, <1>5 DEF Phone!End

\* The requests for codes of a phone, the codes it enters and those that run
\* out keep to what it is promised: one good code at a time, and a new one only
\* when there is none, as long as no request outlasts its lock
\* (_acquire_otp_issue_lock, _upsert_auth_otp_challenge).
THEOREM PhonesHaveOneCodeAtATime == IssueSpec => OneCodeAtATime
<1>1. IssueInit => Phone!Init
  <2> SUFFICES ASSUME IssueInit PROVE Phone!Init
    OBVIOUS
  <2>1. LiveCodes = {} /\ {c \in Codes : challenge[c] # "none"} = {}
    BY DEF IssueInit, LiveCodes
  <2>2. NewCode = 1
    BY <2>1, FS_EmptySet DEF NewCode
  <2> QED BY <2>1, <2>2 DEF Phone!Init
<1>2. IssueInv /\ [IssueNext]_issueVars => [Phone!Next]_Phone!vars
  <2> SUFFICES ASSUME IssueInv, [IssueNext]_issueVars PROVE [Phone!Next]_Phone!vars
    OBVIOUS
  <2>1. UNCHANGED sluggish
    BY DEF IssueNext, Ask, FindLive, CloseOthers, Issue, Unlock, IssueLockRunsOut, Verify, ExpireCode,
           issueVars
  <2>2. CASE sluggish
    BY <2>1, <2>2 DEF Phone!vars
  <2>3. CASE UNCHANGED challenge
    BY <2>1, <2>3 DEF Phone!vars, LiveCodes, NewCode
  <2>4. ASSUME ~sluggish, NEW a \in Askers, Issue(a) PROVE [Phone!Next]_Phone!vars
    BY <2>4, IssueGives
  <2>5. CASE ~sluggish /\ Verify
    BY <2>1, <2>5, NewestIsLive, CodeEnds DEF Verify, Phone!Next
  <2>6. ASSUME ~sluggish, NEW c \in Codes, ExpireCode(c) PROVE [Phone!Next]_Phone!vars
    BY <2>1, <2>6, CodeEnds DEF ExpireCode, LiveCodes, Phone!Next
  <2> QED BY <2>2, <2>3, <2>4, <2>5, <2>6
             DEF IssueNext, Ask, FindLive, CloseOthers, Unlock, IssueLockRunsOut, issueVars
<1> QED BY <1>1, <1>2, IssueInvHolds, PTL DEF IssueSpec, OneCodeAtATime, Phone!Spec

\* A phone has a single live code, as long as no request outlasts its lock
\* (_upsert_auth_otp_challenge under auth:otp:issue).
THEOREM OneCodeLives == IssueSpec => []OneLiveCode
<1>1. IssueInv => OneLiveCode
  <2> SUFFICES ASSUME IssueInv, ~sluggish PROVE Cardinality(LiveCodes) <= 1
    BY DEF OneLiveCode
  <2>1. CASE LiveCodes = {}
    BY <2>1, FS_EmptySet
  <2>2. CASE LiveCodes # {}
    <3>1. PICK c : LiveCodes = {c}
      BY <2>2 DEF IssueInv, Single
    <3> QED
      BY <3>1, FS_Singleton
  <2> QED
    BY <2>1, <2>2
<1> QED
  BY <1>1, IssueInvHolds, PTL

\* The types of CodeIssue.
LEMMA IssueTypesHold == IssueSpec => []IssueTypeOK
<1>1. IssueInv => IssueTypeOK
  BY DEF IssueInv, IssueTypes, IssueTypeOK
<1> QED
  BY <1>1, IssueInvHolds, PTL

\* A code that is over is never good again, also when requests outlast their
\* locks and work at the same time.
THEOREM CodesAreOverForGood == IssueSpec => OverForGood
<1>1. ASSUME IssueInv, [IssueNext]_issueVars,
             NEW c \in Codes, challenge[c] \notin {"none", "live"}
      PROVE  challenge'[c] # "live"
  <2>1. ASSUME NEW a \in Askers, Issue(a) PROVE challenge'[c] # "live"
    <3>1. c # NewCode
      <4>1. PICK k \in Nat : k <= MaxCodes /\ Issued(k) /\ NewCode = k + 1
        BY <1>1, NewCodeIsNext DEF IssueInv, InSequence
      <4>2. c <= k
        BY <1>1, <4>1 DEF Issued
      <4> QED
        BY <4>1, <4>2 DEF Codes
    <3> QED
      BY <1>1, <2>1, <3>1 DEF Issue, AsItIs
  <2>2. CASE Verify
    <3>1. challenge' = [challenge EXCEPT ![NewestLive] = "consumed"]
      BY <2>2 DEF Verify
    <3> QED
      BY <1>1, <3>1 DEF IssueInv, IssueTypes
  <2>3. ASSUME NEW d \in Codes, ExpireCode(d) PROVE challenge'[c] # "live"
    BY <1>1, <2>3 DEF ExpireCode, IssueInv, IssueTypes
  <2>4. CASE UNCHANGED challenge
    BY <1>1, <2>4
  <2> QED
    BY <1>1, <2>1, <2>2, <2>3, <2>4
       DEF IssueNext, Ask, FindLive, CloseOthers, Unlock, IssueLockRunsOut, issueVars
<1>2. IssueInv /\ [IssueNext]_issueVars =>
          [\A c \in Codes : challenge[c] \notin {"none", "live"} => challenge'[c] # "live"]_issueVars
  BY <1>1
<1> QED
  BY <1>2, IssueInvHolds, PTL DEF IssueSpec, OverForGood

-----------------------------------------------------------------------------
(* CodeDelivery.                                                            *)

JobRow == [status: {"none", "pending", "sending", "sent", "failed"},
           attempts: 0..MaxAttempts, text: BOOLEAN, due: BOOLEAN, stale: BOOLEAN]
WorkerRow == [at: {"idle", "recover", "list", "next", "claimed", "loaded", "answered"},
              todo: SUBSET Jobs, job: 0..MaxJobs, attempts: 0..MaxAttempts,
              answer: {"none", "taken", "refused", "ambiguous"}]

DeliveryTypes ==
    /\ slow \in BOOLEAN /\ garbled \in BOOLEAN /\ pollLock \in Workers \cup {NoOne} /\ crashes \in 0..MaxCrashes
    /\ job \in [Jobs -> JobRow]
    /\ worker \in [Workers -> WorkerRow]
    /\ accepted \in [Jobs -> Nat]
    /\ scheduled \subseteq Jobs

\* A worker at work on a job is the only one, and the job is being sent or was
\* given up on under it.
Claims ==
    /\ \A w \in Workers : worker[w].at \in {"claimed", "loaded", "answered"} => worker[w].job \in Jobs
    /\ \A w, v \in Workers, j \in Jobs : On(w, j) /\ On(v, j) => w = v
    /\ \A w \in Workers, j \in Jobs : On(w, j) => job[j].status \in {"sending", "failed"}

\* Unless answers are garbled, a message the provider took is one nobody will
\* send again: its job is not pending, and whoever is at it knows an answer
\* that ends it.
Settled(w) == worker[w].at = "answered" /\ worker[w].answer \in {"taken", "ambiguous"}
TakenOnce ==
    ~garbled => \A j \in Jobs :
        /\ accepted[j] \in {0, 1}
        /\ accepted[j] = 1 => /\ job[j].status \in {"sending", "sent", "failed"}
                              /\ \A w \in Workers : On(w, j) => Settled(w)

DeliveryInv == DeliveryTypes /\ Claims /\ TakenOnce /\ OverKeepsNoText

\* One job changes.
LEMMA OneJob ==
    ASSUME job \in [Jobs -> JobRow], NEW j \in Jobs, NEW row \in JobRow,
           job' = [job EXCEPT ![j] = row]
    PROVE  /\ job' \in [Jobs -> JobRow] /\ job'[j] = row
           /\ \A i \in Jobs \ {j} : job'[i] = job[i]
OBVIOUS

\* One worker moves.
LEMMA OneWorker ==
    ASSUME worker \in [Workers -> WorkerRow], NEW w \in Workers, NEW row \in WorkerRow,
           worker' = [worker EXCEPT ![w] = row]
    PROVE  /\ worker' \in [Workers -> WorkerRow] /\ worker'[w] = row
           /\ \A v \in Workers \ {w} : worker'[v] = worker[v]
OBVIOUS

LEMMA DeliveryBegins == DeliveryInit => DeliveryInv
<1> SUFFICES ASSUME DeliveryInit PROVE DeliveryInv
  OBVIOUS
<1>1. NoJob \in JobRow /\ Idle \in WorkerRow /\ 0 \in 0..MaxCrashes
  BY DeliveryAssumption DEF NoJob, Idle, JobRow, WorkerRow
<1>2. DeliveryTypes
  BY <1>1 DEF DeliveryInit, DeliveryTypes
<1>3. \A w \in Workers : worker[w].at = "idle"
  BY DEF DeliveryInit, Idle
<1>4. \A j \in Jobs : job[j].status = "none" /\ accepted[j] = 0
  BY DEF DeliveryInit, NoJob
<1> QED
  BY <1>2, <1>3, <1>4 DEF DeliveryInv, Claims, On, TakenOnce, OverKeepsNoText

\* The job of nobody changes, and does not become pending once it was sent.
LEMMA JobMoves ==
    ASSUME DeliveryInv, UNCHANGED <<slow, garbled, worker, accepted>>,
           scheduled' \subseteq Jobs, pollLock' \in Workers \cup {NoOne}, crashes' \in 0..MaxCrashes,
           NEW j \in Jobs, NEW row \in JobRow, job' = [job EXCEPT ![j] = row],
           \/ row.status = job[j].status
           \/ job[j].status = "none" /\ row.status = "pending",
           row.text = job[j].text \/ row.status = "pending"
    PROVE  DeliveryInv'
<1>1. /\ job' \in [Jobs -> JobRow] /\ job'[j] = row
      /\ \A i \in Jobs \ {j} : job'[i] = job[i]
  BY OneJob DEF DeliveryInv, DeliveryTypes
<1>2. DeliveryTypes'
  BY <1>1 DEF DeliveryInv, DeliveryTypes
<1>3. Claims'
  BY <1>1 DEF DeliveryInv, Claims, On
<1>4. TakenOnce'
  BY <1>1 DEF DeliveryInv, TakenOnce, On, Settled
<1>5. OverKeepsNoText'
  BY <1>1 DEF DeliveryInv, OverKeepsNoText
<1> QED
  BY <1>2, <1>3, <1>4, <1>5 DEF DeliveryInv

\* A worker moves that is at no job then.
LEMMA WorkerMoves ==
    ASSUME DeliveryInv, UNCHANGED <<slow, garbled, job, accepted>>,
           scheduled' \subseteq Jobs, pollLock' \in Workers \cup {NoOne}, crashes' \in 0..MaxCrashes,
           NEW w \in Workers, NEW row \in WorkerRow, worker' = [worker EXCEPT ![w] = row],
           row.at \notin {"claimed", "loaded", "answered"}
    PROVE  DeliveryInv'
<1>1. /\ worker' \in [Workers -> WorkerRow] /\ worker'[w] = row
      /\ \A v \in Workers \ {w} : worker'[v] = worker[v]
  BY OneWorker DEF DeliveryInv, DeliveryTypes
<1>2. DeliveryTypes'
  BY <1>1 DEF DeliveryInv, DeliveryTypes
<1>3. Claims'
  BY <1>1 DEF DeliveryInv, Claims, On
<1>4. TakenOnce'
  BY <1>1 DEF DeliveryInv, TakenOnce, On, Settled
<1> QED
  BY <1>2, <1>3, <1>4 DEF DeliveryInv, OverKeepsNoText

\* A worker takes a job that is pending: nobody is at it, and no message of it
\* was taken.
LEMMA ClaimKeeps ==
    ASSUME DeliveryInv, NEW w \in Workers, NEW j \in Jobs, Claim(w, j)
    PROVE  DeliveryInv'
<1>1. worker[w] \in WorkerRow /\ job[j] \in JobRow /\ UNCHANGED <<slow, garbled, scheduled, pollLock, accepted, crashes>>
  BY DEF DeliveryInv, DeliveryTypes, Claim, startVars
<1>2. CASE Claimable(j)
  <2>1. PICK row : row = [job[j] EXCEPT !.status = "sending", !.attempts = job[j].attempts + 1, !.stale = FALSE]
    OBVIOUS
  <2>2. job[j].status = "pending" /\ job[j].attempts + 1 \in 0..MaxAttempts
    BY <1>1, <1>2, DeliveryAssumption DEF Claimable, JobRow
  <2>3. row \in JobRow /\ row.status = "sending" /\ row.text = job[j].text
    BY <1>1, <2>1, <2>2 DEF JobRow
  <2>4. PICK next : next = [at |-> "claimed", todo |-> worker[w].todo \ {j}, job |-> j,
                            attempts |-> job[j].attempts + 1, answer |-> "none"]
    OBVIOUS
  <2>5. next \in WorkerRow /\ next.at = "claimed" /\ next.job = j
    <3>1. j \in 0..MaxJobs /\ worker[w].todo \ {j} \in SUBSET Jobs
      BY <1>1, DeliveryAssumption DEF Jobs, WorkerRow
    <3> QED
      BY <2>2, <2>4, <3>1 DEF WorkerRow
  <2>6. job' = [job EXCEPT ![j] = row] /\ worker' = [worker EXCEPT ![w] = next]
    BY <1>2, <2>1, <2>4 DEF Claim, DeliveryInv, DeliveryTypes
  <2>7. /\ job' \in [Jobs -> JobRow] /\ job'[j] = row
        /\ \A i \in Jobs \ {j} : job'[i] = job[i]
    BY <2>3, <2>6, OneJob DEF DeliveryInv, DeliveryTypes
  <2>8. /\ worker' \in [Workers -> WorkerRow] /\ worker'[w] = next
        /\ \A v \in Workers \ {w} : worker'[v] = worker[v]
    BY <2>5, <2>6, OneWorker DEF DeliveryInv, DeliveryTypes
  <2>9. (\A v \in Workers : ~On(v, j)) /\ (~garbled => accepted[j] = 0)
    BY <2>2 DEF DeliveryInv, Claims, TakenOnce
  <2>10. DeliveryTypes'
    BY <1>1, <2>7, <2>8 DEF DeliveryInv, DeliveryTypes
  <2>11. Claims'
    BY <2>3, <2>5, <2>7, <2>8, <2>9 DEF DeliveryInv, Claims, On
  <2>12. TakenOnce'
    BY <1>1, <2>3, <2>5, <2>7, <2>8, <2>9 DEF DeliveryInv, TakenOnce, On, Settled
  <2>13. OverKeepsNoText'
    BY <2>3, <2>7 DEF DeliveryInv, OverKeepsNoText
  <2> QED
    BY <2>10, <2>11, <2>12, <2>13 DEF DeliveryInv
<1>3. CASE ~Claimable(j)
  <2>1. PICK next : next = [worker[w] EXCEPT !.todo = worker[w].todo \ {j}]
    OBVIOUS
  <2>2. next \in WorkerRow /\ next.at = "next"
    BY <1>1, <2>1 DEF WorkerRow, Claim
  <2>3. worker' = [worker EXCEPT ![w] = next] /\ UNCHANGED job
    BY <1>3, <2>1 DEF Claim, DeliveryInv, DeliveryTypes
  <2> QED
    BY <1>1, <2>2, <2>3, WorkerMoves DEF DeliveryInv, DeliveryTypes
<1> QED
  BY <1>2, <1>3

\* Who has a job reads its code.
LEMMA LoadKeeps ==
    ASSUME DeliveryInv, NEW w \in Workers, Load(w)
    PROVE  DeliveryInv'
<1>1. /\ UNCHANGED <<slow, garbled, job, scheduled, pollLock, accepted, crashes>>
      /\ worker[w] \in WorkerRow /\ worker[w].at = "claimed"
  BY DEF Load, startVars, DeliveryInv, DeliveryTypes
<1>2. PICK next : next = [worker[w] EXCEPT !.at = "loaded"]
  OBVIOUS
<1>3. next \in WorkerRow /\ next.at = "loaded" /\ next.job = worker[w].job
  BY <1>1, <1>2 DEF WorkerRow
<1>4. worker' = [worker EXCEPT ![w] = next]
  BY <1>2 DEF Load, DeliveryInv, DeliveryTypes
<1>5. /\ worker' \in [Workers -> WorkerRow] /\ worker'[w] = next
      /\ \A v \in Workers \ {w} : worker'[v] = worker[v]
  BY <1>3, <1>4, OneWorker DEF DeliveryInv, DeliveryTypes
<1>6. \A v \in Workers, j \in Jobs : On(v, j)' <=> On(v, j)
  BY <1>1, <1>3, <1>5 DEF On
<1>7. DeliveryTypes'
  BY <1>1, <1>5 DEF DeliveryInv, DeliveryTypes
<1>8. Claims'
  <2>1. \A v \in Workers : worker'[v].at \in {"claimed", "loaded", "answered"} => worker'[v].job \in Jobs
    BY <1>1, <1>3, <1>5 DEF DeliveryInv, Claims
  <2> QED
    BY <1>1, <1>6, <2>1 DEF DeliveryInv, Claims
<1>9. TakenOnce'
  <2>1. \A v \in Workers : Settled(v) => Settled(v)'
    BY <1>1, <1>5 DEF Settled
  <2> QED
    BY <1>1, <1>6, <2>1 DEF DeliveryInv, TakenOnce
<1> QED
  BY <1>1, <1>7, <1>8, <1>9 DEF DeliveryInv, OverKeepsNoText

\* The provider takes a message once at most: who sends has not sent before.
LEMMA SendKeeps ==
    ASSUME DeliveryInv, NEW w \in Workers, Send(w)
    PROVE  DeliveryInv'
<1>1. PICK j : j = worker[w].job
  OBVIOUS
<1>2. worker[w] \in WorkerRow /\ worker[w].at = "loaded" /\ j \in Jobs /\ On(w, j)
      /\ UNCHANGED <<slow, garbled, job, scheduled, pollLock, crashes>>
  BY <1>1 DEF DeliveryInv, DeliveryTypes, Claims, On, Send, startVars
<1>3. accepted \in [Jobs -> Nat] /\ accepted[j] \in Nat /\ (~garbled => accepted[j] = 0)
  BY <1>2 DEF DeliveryInv, DeliveryTypes, TakenOnce, Settled
<1>4. PICK answer \in {"taken", "refused", "ambiguous"}, t \in BOOLEAN :
          /\ answer = "refused" /\ ~garbled => ~t
          /\ worker' = [worker EXCEPT ![w].at = "answered", ![w].answer = answer]
          /\ accepted' = IF t THEN [accepted EXCEPT ![j] = @ + 1] ELSE accepted
  BY <1>1 DEF Send, Hears
<1>5. PICK took : took = IF t THEN 1 ELSE 0
  OBVIOUS
<1>6. took \in {0, 1} /\ (took = 1 /\ ~garbled => answer \in {"taken", "ambiguous"})
  BY <1>4, <1>5
<1>7. PICK next : next = [worker[w] EXCEPT !.at = "answered", !.answer = answer]
  OBVIOUS
<1>8. next \in WorkerRow /\ next.at = "answered" /\ next.answer = answer /\ next.job = j
  BY <1>1, <1>2, <1>7 DEF WorkerRow
<1>9. /\ worker' \in [Workers -> WorkerRow] /\ worker'[w] = next
      /\ \A v \in Workers \ {w} : worker'[v] = worker[v]
  <2>1. worker' = [worker EXCEPT ![w] = next]
    BY <1>4, <1>7 DEF DeliveryInv, DeliveryTypes
  <2> QED
    BY <1>8, <2>1, OneWorker DEF DeliveryInv, DeliveryTypes
<1>10. accepted' \in [Jobs -> Nat] /\ (~garbled => accepted'[j] = took)
      /\ \A i \in Jobs \ {j} : accepted'[i] = accepted[i]
  BY <1>2, <1>3, <1>4, <1>5
<1>11. DeliveryTypes'
  BY <1>2, <1>9, <1>10 DEF DeliveryInv, DeliveryTypes
<1>12. Claims'
  BY <1>2, <1>8, <1>9 DEF DeliveryInv, Claims, On
<1>13. ASSUME ~garbled, NEW i \in Jobs
       PROVE  /\ accepted'[i] \in {0, 1}
              /\ accepted'[i] = 1 => /\ job'[i].status \in {"sending", "sent", "failed"}
                                     /\ \A v \in Workers : On(v, i)' => Settled(v)'
  <2>1. CASE i = j
    <3>1. job'[j].status \in {"sending", "failed"} /\ \A v \in Workers : On(v, j)' => v = w
      BY <1>2, <1>8, <1>9, <1>12 DEF DeliveryInv, Claims, On
    <3>2. took = 1 => Settled(w)'
      BY <1>6, <1>8, <1>9, <1>13 DEF Settled
    <3> QED
      BY <1>6, <1>10, <1>13, <2>1, <3>1, <3>2
  <2>2. CASE i # j
    BY <1>13, <1>2, <1>8, <1>9, <1>10, <2>2 DEF DeliveryInv, TakenOnce, On, Settled
  <2> QED
    BY <2>1, <2>2
<1>14. TakenOnce'
  BY <1>2, <1>13 DEF TakenOnce
<1> QED
  BY <1>2, <1>11, <1>12, <1>14 DEF DeliveryInv, OverKeepsNoText

\* A worker that is done with its job writes the row.  The job is pending again
\* only when no message was taken.
LEMMA RowIsWritten ==
    ASSUME DeliveryInv, NEW w \in Workers, NEW j \in Jobs, On(w, j),
           UNCHANGED <<slow, garbled, scheduled, pollLock, accepted, crashes>>,
           worker' = [worker EXCEPT ![w] = Freed(worker[w])],
           NEW row \in JobRow, job' = [job EXCEPT ![j] = row],
           row.status \in {"sent", "failed", "pending"},
           row.status = "pending" => ~Settled(w),
           row.status # "pending" => ~row.text
    PROVE  DeliveryInv'
<1>1. Freed(worker[w]) \in WorkerRow /\ Freed(worker[w]).at = "next"
  <2>1. worker[w] \in WorkerRow /\ 0 \in 0..MaxJobs /\ 0 \in 0..MaxAttempts
    BY DeliveryAssumption DEF DeliveryInv, DeliveryTypes
  <2> QED
    BY <2>1 DEF WorkerRow, Freed
<1>2. PICK next \in WorkerRow : next = Freed(worker[w]) /\ next.at = "next"
  BY <1>1
<1>3. /\ worker' \in [Workers -> WorkerRow] /\ worker'[w] = next
      /\ \A v \in Workers \ {w} : worker'[v] = worker[v]
  BY <1>2, OneWorker DEF DeliveryInv, DeliveryTypes
<1>4. /\ job' \in [Jobs -> JobRow] /\ job'[j] = row
      /\ \A i \in Jobs \ {j} : job'[i] = job[i]
  BY OneJob DEF DeliveryInv, DeliveryTypes
<1>5. \A v \in Workers, i \in Jobs : On(v, i)' => On(v, i) /\ v # w /\ i # j
  BY <1>2, <1>3 DEF DeliveryInv, Claims, On
<1>6. DeliveryTypes'
  BY <1>3, <1>4 DEF DeliveryInv, DeliveryTypes
<1>7. Claims'
  <2>1. \A v \in Workers : worker'[v].at \in {"claimed", "loaded", "answered"} => worker'[v].job \in Jobs
    BY <1>2, <1>3 DEF DeliveryInv, Claims
  <2> QED
    BY <1>4, <1>5, <2>1 DEF DeliveryInv, Claims
<1>8. TakenOnce'
  <2>1. ASSUME ~garbled, NEW i \in Jobs
        PROVE  /\ accepted'[i] \in {0, 1}
               /\ accepted'[i] = 1 => /\ job'[i].status \in {"sending", "sent", "failed"}
                                      /\ \A v \in Workers : On(v, i)' => Settled(v)'
    <3>1. CASE i = j
      <4>1. /\ accepted'[j] \in {0, 1} /\ \A v \in Workers : ~On(v, j)'
            /\ accepted'[j] = 1 => row.status \in {"sent", "failed"}
        BY <1>5, <2>1 DEF DeliveryInv, TakenOnce
      <4> QED
        BY <1>4, <3>1, <4>1
    <3>2. CASE i # j
      BY <1>3, <1>4, <1>5, <2>1, <3>2 DEF DeliveryInv, TakenOnce, Settled
    <3> QED
      BY <3>1, <3>2
  <2> QED
    BY <2>1 DEF TakenOnce
<1>9. OverKeepsNoText'
  BY <1>4 DEF DeliveryInv, OverKeepsNoText
<1> QED
  BY <1>6, <1>7, <1>8, <1>9 DEF DeliveryInv

LEMMA WritersKeep ==
    ASSUME DeliveryInv, NEW w \in Workers, GiveUp(w) \/ Record(w)
    PROVE  DeliveryInv'
<1>1. PICK j : j = worker[w].job
  OBVIOUS
<1>2. j \in Jobs /\ On(w, j) /\ job[j] \in JobRow /\ worker[w] \in WorkerRow
      /\ UNCHANGED <<slow, garbled, scheduled, pollLock, accepted, crashes>>
      /\ worker' = [worker EXCEPT ![w] = Freed(worker[w])]
  BY <1>1 DEF DeliveryInv, DeliveryTypes, Claims, On, GiveUp, Record, startVars
<1>3. CASE GiveUp(w)
  <2>1. PICK row : row = [job[j] EXCEPT !.status = "failed", !.due = FALSE, !.stale = FALSE]
    OBVIOUS
  <2>2. row \in JobRow /\ row.status = "failed" /\ row.text = job[j].text /\ ~job[j].text
    BY <1>1, <1>2, <1>3, <2>1 DEF JobRow, GiveUp
  <2>3. job' = [job EXCEPT ![j] = row]
    BY <1>1, <1>3, <2>1 DEF GiveUp, DeliveryInv, DeliveryTypes
  <2> QED
    BY <1>2, <2>2, <2>3, RowIsWritten
<1>4. CASE Record(w) /\ worker[w].answer = "taken"
  <2>1. Sent(job[j]) \in JobRow /\ Sent(job[j]).status = "sent" /\ ~Sent(job[j]).text
    BY <1>2 DEF Sent, JobRow
  <2>2. job' = [job EXCEPT ![j] = Sent(job[j])]
    BY <1>1, <1>4 DEF Record, DeliveryInv, DeliveryTypes
  <2>3. PICK row \in JobRow : row = Sent(job[j]) /\ row.status = "sent" /\ ~row.text
    BY <2>1
  <2> QED
    BY <1>2, <2>2, <2>3, RowIsWritten
<1>5. CASE Record(w) /\ worker[w].answer # "taken" /\ Final(w)
  <2>1. Over(job[j]) \in JobRow /\ Over(job[j]).status = "failed" /\ ~Over(job[j]).text
    BY <1>2 DEF Over, JobRow
  <2>2. job' = [job EXCEPT ![j] = Over(job[j])]
    BY <1>1, <1>5 DEF Record, DeliveryInv, DeliveryTypes
  <2>3. PICK row \in JobRow : row = Over(job[j]) /\ row.status = "failed" /\ ~row.text
    BY <2>1
  <2> QED
    BY <1>2, <2>2, <2>3, RowIsWritten
<1>6. CASE Record(w) /\ worker[w].answer # "taken" /\ ~Final(w)
  <2>1. PICK row : row = [job[j] EXCEPT !.status = "pending", !.due = FALSE, !.stale = FALSE]
    OBVIOUS
  <2>2. row \in JobRow /\ row.status = "pending"
    BY <1>2, <2>1 DEF JobRow
  <2>3. job' = [job EXCEPT ![j] = row]
    BY <1>1, <1>6, <2>1 DEF Record, DeliveryInv, DeliveryTypes
  <2>4. ~Settled(w)
    BY <1>6 DEF Settled, Final
  <2> QED
    BY <1>2, <2>2, <2>3, <2>4, RowIsWritten
<1> QED
  BY <1>3, <1>4, <1>5, <1>6

\* A sweep ends the jobs whose claim is stale, under whoever may still be at
\* them.
LEMMA RecoverKeeps ==
    ASSUME DeliveryInv, NEW w \in Workers, Recover(w)
    PROVE  DeliveryInv'
<1>1. /\ UNCHANGED <<slow, garbled, scheduled, pollLock, accepted, crashes>>
      /\ worker[w].at = "recover" /\ worker[w] \in WorkerRow
  BY DEF Recover, startVars, DeliveryInv, DeliveryTypes
<1>2. PICK next : next = [worker[w] EXCEPT !.at = "list"]
  OBVIOUS
<1>3. next \in WorkerRow /\ next.at = "list" /\ worker' = [worker EXCEPT ![w] = next]
  BY <1>1, <1>2 DEF WorkerRow, Recover, DeliveryInv, DeliveryTypes
<1>4. /\ worker' \in [Workers -> WorkerRow] /\ worker'[w] = next
      /\ \A v \in Workers \ {w} : worker'[v] = worker[v]
  BY <1>3, OneWorker DEF DeliveryInv, DeliveryTypes
<1>5. ASSUME NEW j \in Jobs
      PROVE  /\ job'[j] \in JobRow
             /\ \/ job'[j] = job[j]
                \/ job[j].status = "sending" /\ job'[j].status = "failed" /\ ~job'[j].text
  <2>1. job[j] \in JobRow
    BY DEF DeliveryInv, DeliveryTypes
  <2>2. job'[j] = IF job[j].status = "sending" /\ job[j].stale THEN Over(job[j]) ELSE job[j]
    BY DEF Recover, Recovered
  <2>3. CASE job[j].status = "sending" /\ job[j].stale
    BY <2>1, <2>2, <2>3 DEF Over, JobRow
  <2>4. CASE ~(job[j].status = "sending" /\ job[j].stale)
    BY <2>1, <2>2, <2>4
  <2> QED
    BY <2>3, <2>4
<1>6. job' \in [Jobs -> JobRow]
  BY <1>5 DEF Recover
<1>7. \A v \in Workers, j \in Jobs : On(v, j)' <=> On(v, j) /\ v # w
  BY <1>1, <1>3, <1>4 DEF On
<1>8. DeliveryTypes'
  BY <1>1, <1>4, <1>6 DEF DeliveryInv, DeliveryTypes
<1>9. Claims'
  <2>1. \A v \in Workers : worker'[v].at \in {"claimed", "loaded", "answered"} => worker'[v].job \in Jobs
    BY <1>3, <1>4 DEF DeliveryInv, Claims
  <2> QED
    BY <1>5, <1>7, <2>1 DEF DeliveryInv, Claims
<1>10. TakenOnce'
  BY <1>1, <1>4, <1>5, <1>7 DEF DeliveryInv, TakenOnce, Settled
<1>11. OverKeepsNoText'
  BY <1>5 DEF DeliveryInv, OverKeepsNoText
<1> QED
  BY <1>8, <1>9, <1>10, <1>11 DEF DeliveryInv

\* The steps of a worker that is at no job.
LEMMA StrollersKeep ==
    ASSUME DeliveryInv, NEW w \in Workers,
           \/ \E j \in Jobs : StartTask(w, j)
           \/ StartSweep(w) \/ ListJobs(w) \/ Finish(w) \/ Crash(w)
    PROVE  DeliveryInv'
<1>1. /\ worker[w] \in WorkerRow /\ Idle \in WorkerRow /\ scheduled \subseteq Jobs
      /\ pollLock \in Workers \cup {NoOne} /\ crashes \in 0..MaxCrashes
  BY DeliveryAssumption DEF DeliveryInv, DeliveryTypes, Idle, WorkerRow
<1>2. ASSUME NEW j \in Jobs, StartTask(w, j) PROVE DeliveryInv'
  <2>1. PICK next : next = [Idle EXCEPT !.at = "next", !.todo = {j}]
    OBVIOUS
  <2>2. next \in WorkerRow /\ next.at = "next"
    BY <1>1, <2>1 DEF WorkerRow
  <2>3. /\ UNCHANGED <<slow, garbled, job, accepted, pollLock, crashes>>
        /\ scheduled' \subseteq Jobs /\ worker' = [worker EXCEPT ![w] = next]
    BY <1>1, <1>2, <2>1 DEF StartTask
  <2> QED
    BY <1>1, <2>2, <2>3, WorkerMoves
<1>3. CASE StartSweep(w)
  <2>1. PICK next : next = [Idle EXCEPT !.at = "recover"]
    OBVIOUS
  <2>2. next \in WorkerRow /\ next.at = "recover"
    BY <1>1, <2>1 DEF WorkerRow
  <2>3. /\ UNCHANGED <<slow, garbled, job, accepted, scheduled, crashes>>
        /\ pollLock' \in Workers \cup {NoOne} /\ worker' = [worker EXCEPT ![w] = next]
    BY <1>3, <2>1 DEF StartSweep, startVars
  <2> QED
    BY <1>1, <2>2, <2>3, WorkerMoves
<1>4. CASE ListJobs(w)
  <2>1. PICK todo \in SUBSET Jobs : todo = {j \in Jobs : Claimable(j)}
    OBVIOUS
  <2>2. PICK next : next = [worker[w] EXCEPT !.at = "next", !.todo = todo]
    OBVIOUS
  <2>3. next \in WorkerRow /\ next.at = "next"
    BY <1>1, <2>1, <2>2 DEF WorkerRow
  <2>4. /\ UNCHANGED <<slow, garbled, job, accepted, scheduled, pollLock, crashes>>
        /\ worker' = [worker EXCEPT ![w] = next]
    BY <1>4, <2>1, <2>2 DEF ListJobs, startVars, DeliveryInv, DeliveryTypes
  <2> QED
    BY <1>1, <2>3, <2>4, WorkerMoves
<1>5. CASE Finish(w)
  <2>1. /\ UNCHANGED <<slow, garbled, job, accepted, scheduled, crashes>>
        /\ pollLock' \in Workers \cup {NoOne} /\ worker' = [worker EXCEPT ![w] = Idle]
    BY <1>1, <1>5 DEF Finish, startVars
  <2>2. PICK next \in WorkerRow : next = Idle /\ next.at = "idle"
    BY <1>1 DEF Idle
  <2> QED
    BY <1>1, <2>1, <2>2, WorkerMoves
<1>6. CASE Crash(w)
  <2>1. /\ UNCHANGED <<slow, garbled, job, accepted, pollLock>>
        /\ scheduled' \subseteq Jobs /\ crashes' \in 0..MaxCrashes
        /\ worker' = [worker EXCEPT ![w] = Idle]
    BY <1>1, <1>6, DeliveryAssumption DEF Crash
  <2>2. PICK next \in WorkerRow : next = Idle /\ next.at = "idle"
    BY <1>1 DEF Idle
  <2> QED
    BY <1>1, <2>1, <2>2, WorkerMoves
<1> QED
  BY <1>2, <1>3, <1>4, <1>5, <1>6

\* What happens to a job while nobody writes its row.
LEMMA JobsAgeSoundly ==
    ASSUME DeliveryInv, NEW j \in Jobs, CreateJob(j) \/ ComesDue(j) \/ GoesStale(j)
    PROVE  DeliveryInv'
<1>1. /\ job[j] \in JobRow /\ scheduled \subseteq Jobs
      /\ pollLock \in Workers \cup {NoOne} /\ crashes \in 0..MaxCrashes
  BY DEF DeliveryInv, DeliveryTypes
<1>2. CASE CreateJob(j)
  <2>1. PICK row : row = [NoJob EXCEPT !.status = "pending", !.text = TRUE, !.due = TRUE]
    OBVIOUS
  <2>2. row \in JobRow /\ row.status = "pending"
    <3>1. NoJob \in JobRow
      BY DeliveryAssumption DEF NoJob, JobRow
    <3> QED
      BY <2>1, <3>1 DEF JobRow
  <2>3. /\ UNCHANGED <<slow, garbled, worker, accepted, pollLock, crashes>> /\ scheduled' \subseteq Jobs
        /\ job[j].status = "none" /\ job' = [job EXCEPT ![j] = row]
    BY <1>1, <1>2, <2>1 DEF CreateJob
  <2> QED
    BY <1>1, <2>2, <2>3, JobMoves
<1>3. CASE ComesDue(j) \/ GoesStale(j)
  <2>1. PICK row \in {[job[j] EXCEPT !.due = TRUE], [job[j] EXCEPT !.stale = TRUE]} :
            \/ ComesDue(j) /\ row = [job[j] EXCEPT !.due = TRUE]
            \/ GoesStale(j) /\ row = [job[j] EXCEPT !.stale = TRUE]
    BY <1>3, Zenon
  <2>2. row \in JobRow /\ row.status = job[j].status /\ row.text = job[j].text
    BY <1>1, <2>1 DEF JobRow
  <2>3. /\ UNCHANGED <<slow, garbled, worker, accepted, scheduled, pollLock, crashes>>
        /\ job' = [job EXCEPT ![j] = row]
    BY <2>1 DEF ComesDue, GoesStale, startVars, DeliveryInv, DeliveryTypes
  <2> QED
    BY <1>1, <2>2, <2>3, JobMoves
<1> QED
  BY <1>2, <1>3

LEMMA DeliveryStep == DeliveryInv /\ [DeliveryNext]_deliveryVars => DeliveryInv'
<1> SUFFICES ASSUME DeliveryInv, [DeliveryNext]_deliveryVars PROVE DeliveryInv'
  OBVIOUS
<1>1. CASE PollLockRunsOut
  BY <1>1 DEF PollLockRunsOut, startVars, DeliveryInv, DeliveryTypes, Claims, On, TakenOnce,
              Settled, OverKeepsNoText
<1>2. CASE UNCHANGED deliveryVars
  BY <1>2 DEF deliveryVars, DeliveryInv, DeliveryTypes, Claims, On, TakenOnce, Settled, OverKeepsNoText
<1> QED
  BY <1>1, <1>2, ClaimKeeps, LoadKeeps, SendKeeps, WritersKeep, RecoverKeeps, StrollersKeep, JobsAgeSoundly
     DEF DeliveryNext, WorkerStep

LEMMA DeliveryInvHolds == DeliverySpec => []DeliveryInv
BY DeliveryBegins, DeliveryStep, PTL DEF DeliverySpec

\* What answers hide is bounded by the tries that are counted when a job is
\* claimed: who has yet to send has one that took nothing.
Trying(w, j) == On(w, j) /\ worker[w].at # "answered"
TriesCount ==
    \A j \in Jobs :
        /\ accepted[j] <= job[j].attempts
        /\ job[j].status = "none" => accepted[j] = 0
        /\ \A w \in Workers : Trying(w, j) => accepted[j] < job[j].attempts

\* Where nothing is claimed or sent the count stands.
LEMMA CountStands ==
    ASSUME TriesCount, UNCHANGED accepted,
           \A j \in Jobs : /\ job'[j].attempts = job[j].attempts
                           /\ job'[j].status = "none" => job[j].status = "none",
           \A w \in Workers, j \in Jobs : Trying(w, j)' => Trying(w, j)
    PROVE  TriesCount'
BY DEF TriesCount

LEMMA ClaimCounts ==
    ASSUME DeliveryInv, TriesCount, NEW w \in Workers, NEW j \in Jobs, Claim(w, j)
    PROVE  TriesCount'
<1>1. /\ worker[w] \in WorkerRow /\ worker[w].at = "next" /\ UNCHANGED accepted
      /\ job \in [Jobs -> JobRow] /\ worker \in [Workers -> WorkerRow] /\ accepted \in [Jobs -> Nat]
  BY DEF DeliveryInv, DeliveryTypes, Claim
<1>2. CASE Claimable(j)
  <2>1. /\ job[j].status = "pending" /\ job'[j].status = "sending"
        /\ job[j].attempts \in Nat /\ job'[j].attempts = job[j].attempts + 1
        /\ \A i \in Jobs \ {j} : job'[i] = job[i]
        /\ worker'[w].job = j /\ \A v \in Workers \ {w} : worker'[v] = worker[v]
    BY <1>1, <1>2 DEF Claim, Claimable, JobRow
  <2>2. accepted[j] \in Nat /\ accepted[j] <= job[j].attempts /\ accepted[j] < job'[j].attempts
    BY <1>1, <2>1 DEF TriesCount
  <2>3. \A v \in Workers, i \in Jobs \ {j} : Trying(v, i)' => Trying(v, i)
    BY <2>1 DEF Trying, On
  <2> QED BY <1>1, <2>1, <2>2, <2>3 DEF TriesCount
<1>3. CASE ~Claimable(j)
  <2>1. /\ UNCHANGED job /\ worker'[w].at = "next"
        /\ \A v \in Workers \ {w} : worker'[v] = worker[v]
    BY <1>1, <1>3 DEF Claim, WorkerRow
  <2> QED BY <1>1, <2>1, CountStands DEF Trying, On
<1> QED BY <1>2, <1>3

LEMMA SendCounts ==
    ASSUME DeliveryInv, TriesCount, NEW w \in Workers, Send(w)
    PROVE  TriesCount'
<1>1. PICK j : j = worker[w].job
  OBVIOUS
<1>2. /\ j \in Jobs /\ Trying(w, j) /\ UNCHANGED job /\ accepted \in [Jobs -> Nat]
      /\ job \in [Jobs -> JobRow] /\ worker \in [Workers -> WorkerRow]
  BY <1>1 DEF DeliveryInv, DeliveryTypes, Claims, On, Trying, Send
<1>3. /\ worker'[w].at = "answered" /\ worker'[w].job = j
      /\ \A v \in Workers \ {w} : worker'[v] = worker[v]
      /\ accepted' = accepted \/ accepted' = [accepted EXCEPT ![j] = @ + 1]
  BY <1>1, <1>2 DEF Send, WorkerRow
<1>4. /\ accepted[j] \in Nat /\ job[j].attempts \in Nat /\ accepted[j] < job[j].attempts
      /\ job[j].status # "none"
  BY <1>2 DEF TriesCount, JobRow, DeliveryInv, Claims, Trying
<1>5. \A v \in Workers, i \in Jobs : Trying(v, i)' => Trying(v, i) /\ i # j
  BY <1>2, <1>3 DEF Trying, On, DeliveryInv, Claims
<1>6. accepted'[j] <= job[j].attempts /\ \A i \in Jobs \ {j} : accepted'[i] = accepted[i]
  BY <1>2, <1>3, <1>4
<1> QED BY <1>2, <1>4, <1>5, <1>6 DEF TriesCount

LEMMA WorkersCount ==
    ASSUME DeliveryInv, TriesCount, NEW w \in Workers,
           \/ \E j \in Jobs : StartTask(w, j)
           \/ StartSweep(w) \/ Recover(w) \/ ListJobs(w) \/ Load(w) \/ GiveUp(w) \/ Record(w)
           \/ Finish(w) \/ Crash(w)
    PROVE  TriesCount'
<1>1. /\ worker[w] \in WorkerRow /\ worker \in [Workers -> WorkerRow] /\ job \in [Jobs -> JobRow]
  BY DEF DeliveryInv, DeliveryTypes
<1>2. CASE (\E j \in Jobs : StartTask(w, j)) \/ StartSweep(w) \/ ListJobs(w) \/ Finish(w) \/ Crash(w)
  <2>1. /\ UNCHANGED <<job, accepted>> /\ worker'[w].at \in {"next", "recover", "idle"}
        /\ \A v \in Workers \ {w} : worker'[v] = worker[v]
    <3>1. CASE \E j \in Jobs : StartTask(w, j)
      BY <1>1, <3>1 DEF StartTask, Idle
    <3>2. CASE StartSweep(w)
      BY <1>1, <3>2 DEF StartSweep, Idle
    <3>3. CASE ListJobs(w)
      BY <1>1, <3>3 DEF ListJobs, WorkerRow
    <3>4. CASE Finish(w) \/ Crash(w)
      BY <1>1, <3>4 DEF Finish, Crash, Idle
    <3> QED BY <1>2, <3>1, <3>2, <3>3, <3>4
  <2> QED BY <2>1, CountStands DEF Trying, On
<1>3. CASE Load(w)
  <2>1. /\ UNCHANGED <<job, accepted>> /\ worker[w].at = "claimed" /\ worker'[w].at = "loaded"
        /\ worker'[w].job = worker[w].job /\ \A v \in Workers \ {w} : worker'[v] = worker[v]
    BY <1>1, <1>3 DEF Load, WorkerRow
  <2> QED BY <2>1, CountStands DEF Trying, On
<1>4. CASE Recover(w)
  <2>1. /\ UNCHANGED accepted /\ worker'[w].at = "list"
        /\ \A v \in Workers \ {w} : worker'[v] = worker[v]
    BY <1>1, <1>4 DEF Recover, WorkerRow
  <2>2. ASSUME NEW j \in Jobs
        PROVE  job'[j].attempts = job[j].attempts /\ (job'[j].status = "none" => job[j].status = "none")
    <3>1. job'[j] = (IF job[j].status = "sending" /\ job[j].stale THEN Over(job[j]) ELSE job[j])
      BY <1>4 DEF Recover, Recovered
    <3>2. Over(job[j]).attempts = job[j].attempts /\ Over(job[j]).status = "failed"
      BY <1>1 DEF Over, JobRow
    <3> QED BY <3>1, <3>2
  <2> QED BY <2>1, <2>2, CountStands DEF Trying, On
<1>5. CASE GiveUp(w) \/ Record(w)
  <2>1. PICK j : j = worker[w].job
    OBVIOUS
  <2>2. /\ j \in Jobs /\ UNCHANGED accepted /\ job[j] \in JobRow
        /\ worker' = [worker EXCEPT ![w] = Freed(worker[w])]
    BY <1>1, <1>5, <2>1 DEF DeliveryInv, Claims, GiveUp, Record
  <2>3. worker'[w].at = "next" /\ \A v \in Workers \ {w} : worker'[v] = worker[v]
    BY <1>1, <2>2 DEF Freed, WorkerRow
  <2>4. PICK row \in {Sent(job[j]), Over(job[j]),
                      [job[j] EXCEPT !.status = "pending", !.due = FALSE, !.stale = FALSE],
                      [job[j] EXCEPT !.status = "failed", !.due = FALSE, !.stale = FALSE]} :
            job' = [job EXCEPT ![j] = row]
    <3>1. CASE GiveUp(w)
      BY <1>1, <2>1, <2>2, <3>1 DEF GiveUp
    <3>2. CASE Record(w)
      BY <1>1, <2>1, <2>2, <3>2 DEF Record
    <3> QED BY <1>5, <3>1, <3>2
  <2>5. row.attempts = job[j].attempts /\ row.status # "none"
    BY <2>2, <2>4 DEF Sent, Over, JobRow
  <2>6. \A i \in Jobs : /\ job'[i].attempts = job[i].attempts
                        /\ job'[i].status = "none" => job[i].status = "none"
    BY <1>1, <2>2, <2>4, <2>5
  <2> QED BY <2>2, <2>3, <2>6, CountStands DEF Trying, On
<1> QED BY <1>2, <1>3, <1>4, <1>5

LEMMA JobsCount ==
    ASSUME DeliveryInv, TriesCount, NEW j \in Jobs, CreateJob(j) \/ ComesDue(j) \/ GoesStale(j)
    PROVE  TriesCount'
<1>1. job \in [Jobs -> JobRow] /\ accepted \in [Jobs -> Nat] /\ UNCHANGED <<worker, accepted>>
  BY DEF DeliveryInv, DeliveryTypes, CreateJob, ComesDue, GoesStale
<1>2. CASE CreateJob(j)
  <2>1. PICK row : row = [NoJob EXCEPT !.status = "pending", !.text = TRUE, !.due = TRUE]
    OBVIOUS
  <2>2. row.attempts = 0 /\ row.status = "pending"
    BY <2>1 DEF NoJob
  <2>3. /\ accepted[j] = 0 /\ \A w \in Workers : ~On(w, j)
        /\ job'[j] = row /\ \A i \in Jobs \ {j} : job'[i] = job[i]
    BY <1>1, <1>2, <2>1 DEF CreateJob, TriesCount, DeliveryInv, Claims
  <2>4. \A w \in Workers, i \in Jobs : Trying(w, i)' => Trying(w, i) /\ i # j
    BY <1>1, <2>3 DEF Trying, On
  <2> QED BY <1>1, <2>2, <2>3, <2>4 DEF TriesCount
<1>3. CASE ComesDue(j) \/ GoesStale(j)
  <2>1. \A i \in Jobs : job'[i].status = job[i].status /\ job'[i].attempts = job[i].attempts
    BY <1>1, <1>3 DEF ComesDue, GoesStale, JobRow
  <2> QED BY <1>1, <2>1, CountStands DEF Trying, On
<1> QED BY <1>2, <1>3

LEMMA DeliveryCounts == DeliveryInit /\ [][DeliveryNext]_deliveryVars => [](DeliveryInv /\ TriesCount)
<1>1. DeliveryInit => TriesCount
  BY DEF DeliveryInit, NoJob, Idle, TriesCount, Trying, On
<1>2. DeliveryInv /\ TriesCount /\ [DeliveryNext]_deliveryVars => TriesCount'
  <2> SUFFICES ASSUME DeliveryInv, TriesCount, [DeliveryNext]_deliveryVars PROVE TriesCount'
    OBVIOUS
  <2>1. CASE UNCHANGED <<job, worker, accepted>>
    BY <2>1, CountStands DEF Trying, On
  <2> QED
    BY <2>1, ClaimCounts, SendCounts, WorkersCount, JobsCount
       DEF DeliveryNext, WorkerStep, PollLockRunsOut, deliveryVars
<1> QED
  BY <1>1, <1>2, DeliveryBegins, DeliveryStep, PTL

\* The provider takes a code at most once, though workers are killed, taken for
\* dead while they live, or get no answer in time (_recover_stale_claims,
\* _claim_job, process_job); where an answer is garbled, no more often than the
\* code may be tried.
THEOREM CodesAreSentOnce == DeliverySpec => []SentAtMostOnce
<1>1. DeliveryInv /\ TriesCount => SentAtMostOnce
  <2> SUFFICES ASSUME DeliveryInv, TriesCount, NEW j \in Jobs
               PROVE  accepted[j] <= IF garbled THEN MaxAttempts ELSE 1
    BY DEF SentAtMostOnce
  <2>1. accepted[j] \in Nat /\ job[j].attempts \in 0..MaxAttempts /\ accepted[j] <= job[j].attempts
    BY DEF DeliveryInv, DeliveryTypes, JobRow, TriesCount
  <2> QED BY <2>1, DeliveryAssumption DEF DeliveryInv, TakenOnce
<1> QED
  BY <1>1, DeliveryCounts, PTL DEF DeliverySpec

\* A job that is over keeps no code.
THEOREM CodesAreForgotten == DeliverySpec => []OverKeepsNoText
<1>1. DeliveryInv => OverKeepsNoText
  BY DEF DeliveryInv
<1> QED
  BY <1>1, DeliveryInvHolds, PTL

\* What a worker may still do for the message of a job.
Holds(w, j) ==
    /\ On(w, j)
    /\ \/ worker[w].at = "claimed" /\ job[j].text
       \/ worker[w].at = "loaded"
       \/ worker[w].at = "answered" /\ worker[w].answer # "taken" /\ ~Final(w) /\ job[j].text

LEMMA Held ==
    ASSUME NEW j \in Jobs
    PROVE  MayBeSent(j) <=> \/ job[j].status = "pending" /\ job[j].text
                            \/ \E w \in Workers : Holds(w, j)
BY DEF MayBeSent, Holds

LEMMA HeldThen ==
    ASSUME NEW j \in Jobs
    PROVE  MayBeSent(j)' <=> \/ job'[j].status = "pending" /\ job'[j].text
                             \/ \E w \in Workers : Holds(w, j)'
BY DEF MayBeSent, Holds

\* Where no message comes up, is taken or opens, the outbox sees some dropped,
\* or nothing.
LEMMA OutboxDrops ==
    ASSUME UNCHANGED <<garbled, accepted>>,
           \A j \in Jobs : job'[j].status # "none" <=> job[j].status # "none",
           \A j \in Jobs : MayBeSent(j)' => MayBeSent(j)
    PROVE  Outbox!Next
<1>1. PICK dropped \in SUBSET {j \in Jobs : MayBeSent(j)} :
          dropped = {j \in Jobs : MayBeSent(j) /\ ~MayBeSent(j)'}
  <2>1. {j \in Jobs : MayBeSent(j) /\ ~MayBeSent(j)'} \subseteq {j \in Jobs : MayBeSent(j)}
    OBVIOUS
  <2> QED BY <2>1
<1>2. {j \in Jobs : MayBeSent(j)'} = {j \in Jobs : MayBeSent(j)} \ dropped
  BY <1>1
<1>3. {j \in Jobs : job'[j].status # "none"} = {j \in Jobs : job[j].status # "none"}
  OBVIOUS
<1>4. Outbox!Drop(dropped)
  BY <1>2, <1>3 DEF Outbox!Drop
<1> QED BY <1>4 DEF Outbox!Next

\* One worker steps and writes no more than the row it is at: nothing opens
\* that it did not hold.
LEMMA OthersHold ==
    ASSUME DeliveryInv, UNCHANGED <<garbled, accepted>>, NEW w \in Workers,
           \A v \in Workers \ {w} : worker'[v] = worker[v],
           \A j \in Jobs : job'[j].text => job[j].text,
           \A j \in Jobs : job'[j].status # "none" <=> job[j].status # "none",
           \A j \in Jobs : job'[j].status = "pending" /\ job'[j].text => MayBeSent(j),
           \A j \in Jobs : Holds(w, j)' => MayBeSent(j)
    PROVE  Outbox!Next
<1>1. ASSUME NEW j \in Jobs, NEW v \in Workers \ {w}, Holds(v, j)' PROVE Holds(v, j)
  BY <1>1 DEF Holds, On, Final
<1>2. \A j \in Jobs : MayBeSent(j)' => MayBeSent(j)
  BY <1>1, Held, HeldThen
<1> QED BY <1>2, OutboxDrops

\* Claims.
LEMMA ClaimUnseen ==
    ASSUME DeliveryInv, NEW w \in Workers, NEW j \in Jobs, Claim(w, j)
    PROVE  Outbox!Next
<1>1. /\ worker[w] \in WorkerRow /\ job[j] \in JobRow /\ worker[w].at = "next"
      /\ job \in [Jobs -> JobRow] /\ worker \in [Workers -> WorkerRow] /\ UNCHANGED <<garbled, accepted>>
  BY DEF DeliveryInv, DeliveryTypes, Claim, startVars
<1>2. CASE Claimable(j)
  <2>1. /\ job[j].status = "pending" /\ job'[j].status = "sending" /\ job'[j].text = job[j].text
        /\ \A i \in Jobs \ {j} : job'[i] = job[i]
        /\ worker'[w].at = "claimed" /\ worker'[w].job = j
        /\ \A v \in Workers \ {w} : worker'[v] = worker[v]
    BY <1>1, <1>2 DEF Claim, Claimable, JobRow
  <2>2. \A i \in Jobs : Holds(w, i)' => i = j /\ job[j].text
    BY <2>1 DEF Holds, On
  <2>3. \A i \in Jobs : job'[i].status = "pending" /\ job'[i].text => MayBeSent(i)
    BY <2>1, Held
  <2>4. \A i \in Jobs : Holds(w, i)' => MayBeSent(i)
    BY <2>1, <2>2, Held
  <2> QED BY <1>1, <2>1, <2>3, <2>4, OthersHold
<1>3. CASE ~Claimable(j)
  <2>1. /\ UNCHANGED job /\ worker'[w].at = "next"
        /\ \A v \in Workers \ {w} : worker'[v] = worker[v]
    BY <1>1, <1>3 DEF Claim, WorkerRow
  <2>2. \A i \in Jobs : ~Holds(w, i)'
    BY <2>1 DEF Holds, On
  <2> QED BY <1>1, <2>1, <2>2, Held, OthersHold
<1> QED BY <1>2, <1>3

\* A code is read by who may send it.
LEMMA LoadUnseen ==
    ASSUME DeliveryInv, NEW w \in Workers, Load(w)
    PROVE  Outbox!Next
<1>1. /\ worker[w] \in WorkerRow /\ worker[w].at = "claimed" /\ job[worker[w].job].text
      /\ UNCHANGED <<job, garbled, accepted>>
      /\ worker'[w].at = "loaded" /\ worker'[w].job = worker[w].job
      /\ \A v \in Workers \ {w} : worker'[v] = worker[v]
  BY DEF DeliveryInv, DeliveryTypes, Load, WorkerRow, startVars
<1>2. \A i \in Jobs : Holds(w, i)' => Holds(w, i)
  BY <1>1 DEF Holds, On
<1> QED BY <1>1, <1>2, Held, OthersHold

\* The provider takes a message that was open, and nobody will send it again
\* who knows that it did.
LEMMA SendTakes ==
    ASSUME DeliveryInv, TriesCount, NEW w \in Workers, Send(w)
    PROVE  Outbox!Next
<1>1. PICK j : j = worker[w].job
  OBVIOUS
<1>2. /\ worker[w] \in WorkerRow /\ worker[w].at = "loaded" /\ j \in Jobs /\ On(w, j)
      /\ UNCHANGED <<garbled, job>> /\ worker \in [Workers -> WorkerRow]
  BY <1>1 DEF DeliveryInv, DeliveryTypes, Claims, On, Send, startVars
<1>3. PICK answer \in {"taken", "refused", "ambiguous"}, took \in BOOLEAN :
          /\ answer = "refused" /\ ~garbled => ~took
          /\ worker' = [worker EXCEPT ![w].at = "answered", ![w].answer = answer]
          /\ accepted' = IF took THEN [accepted EXCEPT ![j] = @ + 1] ELSE accepted
  BY <1>1 DEF Send, Hears
<1>4. /\ worker'[w].at = "answered" /\ worker'[w].answer = answer /\ worker'[w].job = j
      /\ \A v \in Workers \ {w} : worker'[v] = worker[v]
  BY <1>1, <1>2, <1>3 DEF WorkerRow
<1>5. \A i \in Jobs : Holds(w, i)' => i = j
  BY <1>4 DEF Holds, On
<1>6. MayBeSent(j) /\ Holds(w, j)
  BY <1>2, Held DEF Holds
<1>7. CASE ~took
  BY <1>2, <1>3, <1>4, <1>5, <1>6, <1>7, Held, OthersHold
<1>8. CASE took
  <2>1. accepted[j] < MaxAttempts
    <3>1. accepted[j] \in Nat /\ job[j].attempts \in 0..MaxAttempts /\ accepted[j] < job[j].attempts
      BY <1>2 DEF DeliveryInv, DeliveryTypes, JobRow, TriesCount, Trying
    <3> QED BY <3>1, DeliveryAssumption
  <2>2. job[j].status # "pending" /\ \A v \in Workers \ {w} : ~On(v, j)
    BY <1>2 DEF DeliveryInv, Claims
  <2>3. \A v \in Workers \ {w} : ~Holds(v, j)'
    BY <1>4, <2>2 DEF Holds, On
  <2>4. garbled \/ ~MayBeSent(j)'
    <3>1. ~garbled => answer \in {"taken", "ambiguous"} /\ ~Holds(w, j)'
      BY <1>3, <1>4, <1>8 DEF Holds, Final
    <3> QED BY <1>2, <2>2, <2>3, <3>1, HeldThen
  <2>5. ASSUME NEW i \in Jobs \ {j} PROVE MayBeSent(i)' <=> MayBeSent(i)
    <3>1. ~Holds(w, i) /\ ~Holds(w, i)'
      BY <1>1, <1>5 DEF Holds, On
    <3>2. \A v \in Workers \ {w} : Holds(v, i)' <=> Holds(v, i)
      BY <1>2, <1>4 DEF Holds, On, Final
    <3> QED BY <1>2, <3>1, <3>2, Held, HeldThen
  <2>6. \/ {i \in Jobs : MayBeSent(i)'} = {i \in Jobs : MayBeSent(i)} \ {j}
        \/ garbled /\ {i \in Jobs : MayBeSent(i)'} = {i \in Jobs : MayBeSent(i)}
    BY <1>6, <2>4, <2>5
  <2>7. Outbox!Take(j)
    BY <1>2, <1>3, <1>6, <1>8, <2>1, <2>6 DEF Outbox!Take
  <2> QED BY <1>2, <2>7 DEF Outbox!Next
<1> QED BY <1>7, <1>8

\* Who is done with a job leaves its message open only if it may try again.
LEMMA WritersDrop ==
    ASSUME DeliveryInv, NEW w \in Workers, GiveUp(w) \/ Record(w)
    PROVE  Outbox!Next
<1>1. PICK j : j = worker[w].job
  OBVIOUS
<1>2. /\ j \in Jobs /\ On(w, j) /\ job[j] \in JobRow /\ worker[w] \in WorkerRow
      /\ UNCHANGED <<garbled, accepted>>
      /\ job \in [Jobs -> JobRow] /\ worker \in [Workers -> WorkerRow]
      /\ worker' = [worker EXCEPT ![w] = Freed(worker[w])]
  BY <1>1 DEF DeliveryInv, DeliveryTypes, Claims, On, GiveUp, Record, startVars
<1>3. worker'[w].at = "next" /\ \A v \in Workers \ {w} : worker'[v] = worker[v]
  BY <1>2 DEF Freed, WorkerRow
<1>4. \A i \in Jobs : ~Holds(w, i)'
  BY <1>3 DEF Holds, On
<1>5. /\ \A i \in Jobs \ {j} : job'[i] = job[i]
      /\ job'[j].text => job[j].text
      /\ job'[j].status # "none" /\ job[j].status # "none"
      /\ job'[j].status = "pending" /\ job'[j].text => Holds(w, j)
  <2>1. job[j].status # "none"
    BY <1>2 DEF DeliveryInv, Claims
  <2>2. CASE GiveUp(w)
    BY <1>1, <1>2, <2>1, <2>2 DEF GiveUp, JobRow
  <2>3. CASE Record(w)
    <3>1. PICK row : row = [job[j] EXCEPT !.status = "pending", !.due = FALSE, !.stale = FALSE]
      OBVIOUS
    <3>2. row.status = "pending" /\ row.text = job[j].text
      BY <1>2, <3>1 DEF JobRow
    <3>3. /\ Sent(job[j]).status = "sent" /\ ~Sent(job[j]).text
          /\ Over(job[j]).status = "failed" /\ ~Over(job[j]).text
      BY <1>2 DEF Sent, Over, JobRow
    <3>4. job' = [job EXCEPT ![j] = IF worker[w].answer = "taken" THEN Sent(job[j])
                                    ELSE IF Final(w) THEN Over(job[j]) ELSE row]
      BY <1>1, <1>2, <2>3, <3>1 DEF Record
    <3>5. /\ job'[j] = IF worker[w].answer = "taken" THEN Sent(job[j])
                       ELSE IF Final(w) THEN Over(job[j]) ELSE row
          /\ \A i \in Jobs \ {j} : job'[i] = job[i]
      BY <1>2, <3>4
    <3>6. worker[w].at = "answered"
      BY <2>3 DEF Record
    <3> QED BY <1>2, <2>1, <3>2, <3>3, <3>5, <3>6 DEF Holds
  <2> QED BY <2>2, <2>3
<1>6. \A i \in Jobs : job'[i].status = "pending" /\ job'[i].text => MayBeSent(i)
  BY <1>5, Held
<1> QED BY <1>2, <1>3, <1>4, <1>5, <1>6, OthersHold

\* A sweep drops what nobody has read yet of the stale claims.
LEMMA RecoverDrops ==
    ASSUME DeliveryInv, NEW w \in Workers, Recover(w)
    PROVE  Outbox!Next
<1>1. /\ UNCHANGED <<garbled, accepted>> /\ worker[w] \in WorkerRow /\ worker'[w].at = "list"
      /\ \A v \in Workers \ {w} : worker'[v] = worker[v]
  BY DEF Recover, DeliveryInv, DeliveryTypes, WorkerRow, startVars
<1>2. \A j \in Jobs : \/ job'[j] = job[j]
                      \/ job[j].status = "sending" /\ job'[j].status = "failed" /\ ~job'[j].text
  <2> SUFFICES ASSUME NEW j \in Jobs
               PROVE  \/ job'[j] = job[j]
                      \/ job[j].status = "sending" /\ job'[j].status = "failed" /\ ~job'[j].text
    OBVIOUS
  <2>1. job'[j] = IF job[j].status = "sending" /\ job[j].stale THEN Over(job[j]) ELSE job[j]
    BY DEF Recover, Recovered
  <2>2. job[j] \in JobRow
    BY DEF DeliveryInv, DeliveryTypes
  <2>3. Over(job[j]).status = "failed" /\ ~Over(job[j]).text
    BY <2>2 DEF Over, JobRow
  <2> QED BY <2>1, <2>3
<1>3. \A i \in Jobs : ~Holds(w, i)'
  BY <1>1 DEF Holds, On
<1>4. \A i \in Jobs : job'[i].status = "pending" /\ job'[i].text => MayBeSent(i)
  BY <1>2, Held
<1> QED BY <1>1, <1>2, <1>3, <1>4, OthersHold

\* Workers that begin, look, end or are killed.
LEMMA StrollersDrop ==
    ASSUME DeliveryInv, NEW w \in Workers,
           \/ \E j \in Jobs : StartTask(w, j)
           \/ StartSweep(w) \/ ListJobs(w) \/ Finish(w) \/ Crash(w)
    PROVE  Outbox!Next
<1>1. worker[w] \in WorkerRow /\ worker \in [Workers -> WorkerRow]
  BY DEF DeliveryInv, DeliveryTypes
<1>2. /\ UNCHANGED <<garbled, job, accepted>> /\ worker'[w].at \in {"next", "recover", "idle"}
      /\ \A v \in Workers \ {w} : worker'[v] = worker[v]
  <2>1. CASE \E j \in Jobs : StartTask(w, j)
    BY <1>1, <2>1 DEF StartTask, Idle
  <2>2. CASE StartSweep(w)
    BY <1>1, <2>2 DEF StartSweep, Idle, startVars
  <2>3. CASE ListJobs(w)
    BY <1>1, <2>3 DEF ListJobs, WorkerRow, startVars
  <2>4. CASE Finish(w) \/ Crash(w)
    BY <1>1, <2>4 DEF Finish, Crash, Idle, startVars
  <2> QED BY <2>1, <2>2, <2>3, <2>4
<1>3. \A i \in Jobs : ~Holds(w, i)'
  BY <1>2 DEF Holds, On
<1> QED BY <1>2, <1>3, Held, OthersHold

\* A job is made with its code, and waits.
LEMMA JobIsOffered ==
    ASSUME DeliveryInv, NEW j \in Jobs, CreateJob(j)
    PROVE  Outbox!Offer(j)
<1>1. PICK row : row = [NoJob EXCEPT !.status = "pending", !.text = TRUE, !.due = TRUE]
  OBVIOUS
<1>2. row.status = "pending" /\ row.text
  BY <1>1 DEF NoJob
<1>3. /\ job[j].status = "none" /\ UNCHANGED <<garbled, worker, accepted>>
      /\ job'[j] = row /\ \A i \in Jobs \ {j} : job'[i] = job[i]
  BY <1>1 DEF CreateJob, DeliveryInv, DeliveryTypes
<1>4. MayBeSent(j)'
  BY <1>2, <1>3, HeldThen
<1>5. \A i \in Jobs \ {j} : MayBeSent(i)' <=> MayBeSent(i)
  BY <1>3 DEF MayBeSent, On, Final
<1>6. {i \in Jobs : MayBeSent(i)'} = {i \in Jobs : MayBeSent(i)} \union {j}
  BY <1>4, <1>5
<1>7. {i \in Jobs : job'[i].status # "none"} = {i \in Jobs : job[i].status # "none"} \union {j}
  BY <1>2, <1>3
<1> QED BY <1>3, <1>6, <1>7 DEF Outbox!Offer

\* Every step of the delivery is one of the outbox, or none there, whether or
\* not the pollers are fair.
LEMMA StepsOfOutbox == DeliveryInit /\ [][DeliveryNext]_deliveryVars => OneMessageEach
<1>1. DeliveryInit => Outbox!Init
  <2> SUFFICES ASSUME DeliveryInit PROVE Outbox!Init
    OBVIOUS
  <2>1. \A j \in Jobs : job[j].status = "none"
    BY DEF DeliveryInit, NoJob
  <2>2. \A w \in Workers : worker[w].at = "idle"
    BY DEF DeliveryInit, Idle
  <2>3. \A j \in Jobs : ~MayBeSent(j)
    BY <2>1, <2>2 DEF MayBeSent, On
  <2> QED BY <2>1, <2>3 DEF DeliveryInit, Outbox!Init
<1>2. DeliveryInv /\ TriesCount /\ [DeliveryNext]_deliveryVars => [Outbox!Next]_Outbox!vars
  <2> SUFFICES ASSUME DeliveryInv, TriesCount, [DeliveryNext]_deliveryVars
               PROVE  [Outbox!Next]_Outbox!vars
    OBVIOUS
  <2>1. ASSUME NEW j \in Jobs, CreateJob(j) PROVE Outbox!Next
    BY <2>1, JobIsOffered DEF Outbox!Next
  <2>2. ASSUME NEW j \in Jobs, ComesDue(j) \/ GoesStale(j) PROVE Outbox!Next
    <3>1. /\ UNCHANGED <<garbled, worker, accepted>>
          /\ \A i \in Jobs : job'[i].status = job[i].status /\ job'[i].text = job[i].text
      BY <2>2 DEF ComesDue, GoesStale, DeliveryInv, DeliveryTypes, JobRow, startVars
    <3>2. \A i \in Jobs : MayBeSent(i)' <=> MayBeSent(i)
      BY <3>1 DEF MayBeSent, On, Final
    <3> QED BY <3>1, <3>2, OutboxDrops
  <2>3. CASE UNCHANGED <<garbled, job, worker, accepted>>
    <3>1. \A i \in Jobs : MayBeSent(i)' <=> MayBeSent(i)
      BY <2>3 DEF MayBeSent, On, Final
    <3> QED BY <2>3, <3>1, OutboxDrops
  <2> QED
    BY <2>1, <2>2, <2>3, ClaimUnseen, LoadUnseen, SendTakes, WritersDrop, RecoverDrops, StrollersDrop
       DEF DeliveryNext, WorkerStep, PollLockRunsOut, deliveryVars, startVars
<1> QED
  BY <1>1, <1>2, DeliveryCounts, PTL DEF OneMessageEach, Outbox!Spec

\* A code that the provider may have taken, or that was given up, is never
\* sent again, whichever worker is killed, slow or without an answer in time
\* (_claim_job, process_job, _recover_stale_claims); where an answer is garbled
\* it is sent no more often than it may be tried.
THEOREM CodesAreOneMessageEach == DeliverySpec => OneMessageEach
BY StepsOfOutbox, PTL DEF DeliverySpec

\* The types of CodeDelivery.
LEMMA DeliveryTypesHold == DeliveryInit /\ [][DeliveryNext]_deliveryVars => []DeliveryTypeOK
<1>1. DeliveryInv => DeliveryTypeOK
  BY DEF DeliveryInv, DeliveryTypes, JobRow, WorkerRow, DeliveryTypeOK
<1> QED
  BY <1>1, DeliveryBegins, DeliveryStep, PTL

-----------------------------------------------------------------------------
(* RefreshSessions.  A row an exchange has locked is still as the exchange   *)
(* read it: the others that want to revoke it wait.                          *)

TokenRows == [family: Nat \ {0}, revoked: BOOLEAN, expired: BOOLEAN, replacedBy: Nat]
ExchangeRecords == [phase: {"locked", "rotated", "closing"}, holds: Nat, read: TokenRows,
                    closing: SUBSET Nat]

RowsKnown ==
    /\ token \in Seq(TokenRows)
    /\ exchange \in [Exchanges -> ExchangeRecords \union {NoExchange}]
    /\ service \in BOOLEAN

\* The numbers of families run behind those of the tokens, and requests are
\* about tokens that were given out.
FamiliesGivenOut ==
    /\ \A i \in Tokens : token[i].family <= Len(token)
    /\ \A r \in Exchanges : Busy(r) =>
          /\ exchange[r].read.family <= Len(token)
          /\ exchange[r].holds \in 0..Len(token) /\ exchange[r].closing \subseteq 1..Len(token)

\* The row lock: one holder, and the row stays as it was read.
Exchanging(r) == At(r, "locked") \/ At(r, "rotated")
LocksHold ==
    /\ \A r \in Exchanges : Exchanging(r) =>
          /\ exchange[r].holds \in Tokens
          /\ token[exchange[r].holds].revoked = exchange[r].read.revoked
          /\ token[exchange[r].holds].family = exchange[r].read.family
    /\ \A r \in Exchanges : At(r, "rotated") => ~exchange[r].read.revoked
    /\ \A r, other \in Exchanges :
          Exchanging(r) /\ Busy(other) /\ r # other => exchange[other].holds # exchange[r].holds

SessionInv == RowsKnown /\ FamiliesGivenOut /\ LocksHold /\ OneLiveToken

----------------------------------------------------------------------------
LEMMA SessionBegins == SessionInit => SessionInv
<1> SUFFICES ASSUME SessionInit PROVE SessionInv
  OBVIOUS
<1>1. Tokens = {} /\ \A r \in Exchanges : ~Busy(r)
  BY DEF SessionInit, Tokens, Busy
<1>2. RowsKnown
  <2>1. exchange \in [Exchanges -> ExchangeRecords \union {NoExchange}]
    BY DEF SessionInit
  <2>2. token \in Seq(TokenRows)
    BY DEF SessionInit
  <2>3. service \in BOOLEAN
    BY DEF SessionInit
  <2> QED BY <2>1, <2>2, <2>3 DEF RowsKnown
<1> QED BY <1>1, <1>2 DEF SessionInv, FamiliesGivenOut, LocksHold, OneLiveToken, At, Exchanging

LEMMA RowFacts ==
    ASSUME SessionInv
    PROVE  /\ Len(token) \in Nat /\ Tokens = 1..Len(token)
           /\ \A i \in Tokens : token[i] \in TokenRows /\ token[i].family \in Nat
                               /\ token[i].family <= Len(token)
           /\ \A r \in Exchanges : Busy(r) => /\ exchange[r] \in ExchangeRecords
                                             /\ exchange[r].read.family \in Nat
                                             /\ exchange[r].read.family <= Len(token)
                                             /\ exchange[r].holds \in 0..Len(token)
                                             /\ exchange[r].closing \subseteq 1..Len(token)
<1>1. Len(token) \in Nat /\ Tokens = 1..Len(token) /\ \A i \in Tokens : token[i] \in TokenRows
  BY DEF SessionInv, RowsKnown, Tokens
<1>2. \A r \in Exchanges : Busy(r) => exchange[r] \in ExchangeRecords
  BY DEF SessionInv, RowsKnown, Busy
<1> QED BY <1>1, <1>2 DEF SessionInv, RowsKnown, FamiliesGivenOut, ExchangeRecords, TokenRows

LEMMA SpentRow ==
    ASSUME NEW row \in TokenRows, NEW n \in Nat
    PROVE  /\ [row EXCEPT !.revoked = TRUE, !.replacedBy = n] \in TokenRows
           /\ [row EXCEPT !.revoked = TRUE, !.replacedBy = n].revoked
           /\ [row EXCEPT !.revoked = TRUE, !.replacedBy = n].family = row.family
<1> DEFINE dead == [row EXCEPT !.revoked = TRUE]
<1>1. dead \in TokenRows /\ dead.revoked /\ dead.family = row.family
  BY DEF TokenRows
<1> HIDE DEF dead
<1>2. /\ [dead EXCEPT !.replacedBy = n] \in TokenRows
      /\ [dead EXCEPT !.replacedBy = n].revoked
      /\ [dead EXCEPT !.replacedBy = n].family = row.family
  BY <1>1 DEF TokenRows
<1> QED BY <1>2 DEF dead

LEMMA SignInKeeps ==
    ASSUME SessionInv, SignIn
    PROVE  SessionInv'
<1> DEFINE row == [family |-> Len(token) + 1, revoked |-> FALSE, expired |-> FALSE, replacedBy |-> 0]
<1>1. /\ Len(token) \in Nat /\ token' = Append(token, row) /\ row \in TokenRows
      /\ UNCHANGED <<exchange, service>>
  BY DEF SignIn, SessionInv, RowsKnown, TokenRows
<1>2. /\ token' \in Seq(TokenRows) /\ Len(token') = Len(token) + 1
      /\ Tokens = 1..Len(token) /\ Tokens' = 1..Len(token) + 1
      /\ \A i \in Tokens : token'[i] = token[i]
      /\ token'[Len(token) + 1] = row
  BY <1>1 DEF Tokens, SessionInv, RowsKnown
<1> HIDE DEF row
<1>3. row.family = Len(token) + 1
  BY DEF row
<1>4. RowsKnown' /\ FamiliesGivenOut'
  <2>1. RowsKnown'
    BY <1>1, <1>2 DEF SessionInv, RowsKnown
  <2> QED BY <1>1, <1>2, <1>3, <2>1, RowFacts DEF FamiliesGivenOut, Busy
<1>5. LocksHold'
  BY <1>1, <1>2 DEF SessionInv, LocksHold, Busy, At, Exchanging
<1>6. OneLiveToken'
  BY <1>1, <1>2, <1>3 DEF SessionInv, RowsKnown, FamiliesGivenOut, OneLiveToken, LiveToken
<1> QED BY <1>4, <1>5, <1>6 DEF SessionInv

LEMMA CommitRotationKeeps ==
    ASSUME SessionInv, NEW r \in Exchanges, CommitRotation(r)
    PROVE  SessionInv'
<1> DEFINE spent == exchange[r].holds
           row == [family |-> token[spent].family, revoked |-> FALSE, expired |-> FALSE, replacedBy |-> 0]
           replaced == [token[spent] EXCEPT !.revoked = TRUE, !.replacedBy = Len(token) + 1]
<1>1. /\ At(r, "rotated") /\ Exchanging(r) /\ spent \in Tokens /\ LiveToken(spent)
      /\ token[spent].family = exchange[r].read.family
  BY DEF CommitRotation, Exchanging, SessionInv, LocksHold, LiveToken
<1>2. /\ Len(token) \in Nat /\ Tokens = 1..Len(token) /\ token[spent] \in TokenRows
      /\ row \in TokenRows /\ replaced \in TokenRows
  <2>1. /\ Len(token) \in Nat /\ Tokens = 1..Len(token) /\ token[spent] \in TokenRows
    BY <1>1, RowFacts
  <2>2. row \in TokenRows
    BY <2>1 DEF TokenRows
  <2>3. replaced \in TokenRows
    <3>1. Len(token) + 1 \in Nat
      BY <2>1
    <3> QED BY <2>1, <3>1, SpentRow
  <2> HIDE DEF row, replaced
  <2> QED BY <2>1, <2>2, <2>3
<1>3. /\ token' \in Seq(TokenRows) /\ Len(token') = Len(token) + 1 /\ Tokens' = 1..Len(token) + 1
      /\ \A i \in Tokens : i # spent => token'[i] = token[i]
      /\ token'[spent] = replaced /\ token'[Len(token) + 1] = row
  <2> DEFINE rows == [token EXCEPT ![spent] = replaced]
  <2>1. rows \in Seq(TokenRows) /\ Len(rows) = Len(token) /\ rows[spent] = replaced
        /\ \A i \in Tokens : i # spent => rows[i] = token[i]
    <3> HIDE DEF replaced
    <3> QED BY <1>1, <1>2 DEF SessionInv, RowsKnown, Tokens
  <2>2. token' = Append(rows, row)
    BY <1>1, <1>2 DEF CommitRotation, SessionInv, RowsKnown, Tokens, TokenRows
  <2> HIDE DEF rows, row, replaced
  <2> QED BY <1>1, <1>2, <2>1, <2>2 DEF Tokens
<1>4. /\ exchange' = [exchange EXCEPT ![r] = NoExchange] /\ UNCHANGED service
      /\ replaced.revoked /\ replaced.family = token[spent].family
      /\ ~row.revoked /\ row.family = token[spent].family
  BY <1>2 DEF CommitRotation, Ends, TokenRows
<1> HIDE DEF row, replaced
<1>5. RowsKnown'
  BY <1>2, <1>3, <1>4 DEF SessionInv, RowsKnown
<1>6. FamiliesGivenOut'
  <2>1. \A q \in Exchanges : Busy(q)' => Busy(q) /\ exchange'[q] = exchange[q]
    BY <1>4 DEF SessionInv, RowsKnown, Busy
  <2>2. \A i \in Tokens' : token'[i].family <= Len(token')
    <3> TAKE i \in Tokens'
    <3>1. token[spent].family \in Nat /\ token[spent].family <= Len(token)
      BY <1>1, RowFacts
    <3>2. CASE i = spent \/ i = Len(token) + 1
      BY <1>2, <1>3, <1>4, <3>1, <3>2
    <3>3. CASE i # spent /\ i \in Tokens
      BY <1>2, <1>3, <3>3, RowFacts
    <3> QED BY <1>2, <1>3, <3>2, <3>3
  <2>3. \A q \in Exchanges : Busy(q)' => /\ exchange'[q].read.family <= Len(token')
                                         /\ exchange'[q].holds \in 0..Len(token')
                                         /\ exchange'[q].closing \subseteq 1..Len(token')
    BY <1>2, <1>3, <2>1, RowFacts
  <2> QED BY <2>2, <2>3 DEF FamiliesGivenOut
<1>7. LocksHold'
  <2>1. \A q \in Exchanges : Busy(q)' => q # r /\ Busy(q) /\ exchange'[q] = exchange[q]
    BY <1>4 DEF SessionInv, RowsKnown, Busy
  <2>2. \A q \in Exchanges : Exchanging(q)' => exchange[q].holds # spent
    BY <1>1, <2>1 DEF SessionInv, LocksHold, Exchanging, At, Busy
  <2> QED BY <1>2, <1>3, <2>1, <2>2 DEF SessionInv, LocksHold, Exchanging, At, Busy
<1>8. OneLiveToken'
  <2>1. \A i \in Tokens : LiveToken(i)' => i # spent /\ LiveToken(i) /\ token[i].family # token[spent].family
    BY <1>1, <1>2, <1>3, <1>4 DEF SessionInv, OneLiveToken, LiveToken
  <2>2. /\ \A i \in Tokens' : i # Len(token) + 1 => i \in Tokens
        /\ Len(token) + 1 \notin Tokens
        /\ \A i \in Tokens : i # spent => token'[i] = token[i]
    BY <1>2, <1>3
  <2>3. /\ token'[Len(token) + 1].family = token[spent].family
        /\ token'[spent].family = token[spent].family /\ token'[spent].revoked
    BY <1>3, <1>4
  <2> QED BY <2>1, <2>2, <2>3 DEF SessionInv, OneLiveToken, LiveToken
<1> QED BY <1>5, <1>6, <1>7, <1>8 DEF SessionInv

\* Rows are revoked in place: an expired one by its holder, those of a family
\* by whoever closes it, once nobody holds them.
LEMMA Revoking ==
    ASSUME SessionInv, NEW rows \in SUBSET Tokens, NEW r \in Exchanges,
           \A q \in Exchanges : q # r /\ Exchanging(q) => exchange[q].holds \notin rows,
           token' = [i \in Tokens |-> IF i \in rows THEN [token[i] EXCEPT !.revoked = TRUE] ELSE token[i]],
           exchange' = [exchange EXCEPT ![r] = NoExchange], UNCHANGED service
    PROVE  SessionInv'
<1>1. Tokens = 1..Len(token) /\ Len(token) \in Nat /\ \A i \in Tokens : token[i] \in TokenRows
  BY DEF SessionInv, RowsKnown, Tokens
<1>2. \A i \in Tokens : /\ token'[i] \in TokenRows
                        /\ token'[i].family = token[i].family
                        /\ token[i].revoked => token'[i].revoked
                        /\ i \notin rows => token'[i] = token[i]
  <2> TAKE i \in Tokens
  <2>1. CASE i \in rows
    <3>1. token'[i] = [token[i] EXCEPT !.revoked = TRUE] /\ token[i] \in TokenRows
      BY <1>1, <2>1
    <3> QED BY <2>1, <3>1 DEF TokenRows
  <2>2. CASE i \notin rows
    BY <1>1, <2>2
  <2> QED BY <2>1, <2>2
<1>3. token' \in Seq(TokenRows) /\ Len(token') = Len(token) /\ Tokens' = Tokens
  BY <1>1, <1>2 DEF Tokens
<1>4. \A q \in Exchanges : Busy(q)' => q # r /\ Busy(q) /\ exchange'[q] = exchange[q]
  BY DEF SessionInv, RowsKnown, Busy
<1>5. RowsKnown' /\ FamiliesGivenOut'
  BY <1>1, <1>2, <1>3, <1>4 DEF SessionInv, RowsKnown, FamiliesGivenOut, Busy
<1>6. LocksHold'
  <2>1. ASSUME NEW q \in Exchanges, Exchanging(q)'
        PROVE  /\ exchange'[q] = exchange[q] /\ Exchanging(q)
               /\ exchange[q].holds \in Tokens /\ exchange[q].holds \notin rows
    <3>1. q # r /\ Exchanging(q) /\ exchange'[q] = exchange[q]
      BY <1>4, <2>1 DEF Exchanging, At
    <3> QED BY <3>1 DEF SessionInv, LocksHold
  <2>2. ASSUME NEW q \in Exchanges, Exchanging(q)'
        PROVE  /\ exchange'[q].holds \in Tokens'
               /\ token'[exchange'[q].holds].revoked = exchange'[q].read.revoked
               /\ token'[exchange'[q].holds].family = exchange'[q].read.family
    <3>1. token'[exchange[q].holds] = token[exchange[q].holds]
      BY <1>2, <2>1, <2>2
    <3>2. /\ token[exchange[q].holds].revoked = exchange[q].read.revoked
          /\ token[exchange[q].holds].family = exchange[q].read.family
      BY <2>1, <2>2 DEF SessionInv, LocksHold
    <3>3. exchange'[q] = exchange[q] /\ exchange[q].holds \in Tokens'
      BY <1>3, <2>1, <2>2
    <3> QED BY <3>1, <3>2, <3>3
  <2>3. ASSUME NEW q \in Exchanges, At(q, "rotated")'
        PROVE  ~exchange'[q].read.revoked
    BY <1>4, <2>3 DEF SessionInv, LocksHold, At
  <2>4. ASSUME NEW q \in Exchanges, NEW other \in Exchanges,
               Exchanging(q)', Busy(other)', q # other
        PROVE  exchange'[other].holds # exchange'[q].holds
    BY <1>4, <2>1, <2>4 DEF SessionInv, LocksHold
  <2> QED BY <2>2, <2>3, <2>4 DEF LocksHold
<1>7. OneLiveToken'
  <2> SUFFICES ASSUME NEW i \in Tokens, NEW j \in Tokens,
                      ~token'[i].revoked, ~token'[j].revoked, token'[i].family = token'[j].family
               PROVE  i = j
      BY <1>3 DEF OneLiveToken, LiveToken
  <2>1. ~token[i].revoked /\ ~token[j].revoked /\ token[i].family = token[j].family
    BY <1>2
  <2> QED BY <2>1 DEF SessionInv, OneLiveToken, LiveToken
<1> QED BY <1>5, <1>6, <1>7 DEF SessionInv

LEMMA RevocationsKeep ==
    ASSUME SessionInv, NEW r \in Exchanges, RefuseExpired(r) \/ CommitClosing(r)
    PROVE  SessionInv'
<1>1. CASE RefuseExpired(r)
  <2>1. exchange[r].holds \in Tokens /\ Exchanging(r)
    BY <1>1 DEF RefuseExpired, SessionInv, LocksHold, Exchanging
  <2>2. token' = [i \in Tokens |-> IF i \in {exchange[r].holds} THEN [token[i] EXCEPT !.revoked = TRUE]
                                   ELSE token[i]]
    BY <1>1, <2>1 DEF RefuseExpired, SessionInv, RowsKnown, Tokens
  <2>3. \A q \in Exchanges : q # r /\ Exchanging(q) => exchange[q].holds # exchange[r].holds
    BY <2>1 DEF SessionInv, LocksHold, Exchanging, At
  <2>4. \A q \in Exchanges : q # r /\ Exchanging(q) => exchange[q].holds \notin {exchange[r].holds}
    BY <2>3
  <2>5. exchange' = [exchange EXCEPT ![r] = NoExchange] /\ UNCHANGED service
    BY <1>1 DEF RefuseExpired, Ends
  <2> DEFINE rows == {exchange[r].holds}
  <2>6. rows \in SUBSET Tokens
    BY <2>1
  <2> QED BY <2>2, <2>4, <2>5, <2>6, Revoking
<1>2. CASE CommitClosing(r)
  <2>1. \A q \in Exchanges : q # r /\ Exchanging(q) => exchange[q].holds \notin exchange[r].closing
    BY <1>2 DEF CommitClosing, TokenIsFree, Exchanging, At, SessionInv, RowsKnown
  <2>2. token' = [i \in Tokens |-> IF i \in exchange[r].closing \intersect Tokens
                                   THEN [token[i] EXCEPT !.revoked = TRUE] ELSE token[i]]
    BY <1>2 DEF CommitClosing
  <2>3. exchange' = [exchange EXCEPT ![r] = NoExchange] /\ UNCHANGED service
    BY <1>2 DEF CommitClosing, Ends
  <2> DEFINE rows == exchange[r].closing \intersect Tokens
  <2>4. rows \in SUBSET Tokens /\ \A q \in Exchanges : q # r /\ Exchanging(q) => exchange[q].holds \notin rows
    BY <2>1
  <2> HIDE DEF rows
  <2>5. token' = [i \in Tokens |-> IF i \in rows THEN [token[i] EXCEPT !.revoked = TRUE] ELSE token[i]]
    BY <2>2 DEF rows
  <2> QED BY <2>3, <2>4, <2>5, Revoking
<1> QED BY <1>1, <1>2

\* The other requests leave the rows alone.
LEMMA RequestsKeep ==
    ASSUME SessionInv, NEW r \in Exchanges,
           \/ ReuseDetected(r) \/ RefuseService(r) \/ Rotate(r) \/ Breaks(r)
           \/ \E i \in Tokens : LockToken(r, i) \/ LogOut(r, i)
    PROVE  SessionInv'
<1>1. UNCHANGED <<token, service>>
  BY DEF ReuseDetected, RefuseService, Rotate, Breaks, LockToken, LogOut, Revoke
<1>2. /\ Tokens = 1..Len(token) /\ Len(token) \in Nat
      /\ \A i \in Tokens : token[i] \in TokenRows /\ i \in Nat /\ token[i].family <= Len(token)
  BY DEF SessionInv, RowsKnown, FamiliesGivenOut, Tokens
<1>3. \A q \in Exchanges : q # r => exchange'[q] = exchange[q]
  BY DEF ReuseDetected, RefuseService, Rotate, Breaks, LockToken, LogOut, Revoke, Ends, SessionInv, RowsKnown
<1>4. OneLiveToken'
  BY <1>1 DEF SessionInv, OneLiveToken, LiveToken, Tokens
<1>5. CASE ReuseDetected(r) \/ RefuseService(r) \/ Rotate(r)
  <2>1. Exchanging(r) /\ exchange[r] \in ExchangeRecords
    BY <1>5 DEF ReuseDetected, RefuseService, Rotate, Exchanging, At, Busy, SessionInv, RowsKnown
  <2>2. \A f : LiveOf(f) \in SUBSET Tokens /\ {i \in Tokens : LiveToken(i)} \in SUBSET Tokens
    BY <1>2 DEF LiveOf
  <2>3. /\ exchange' \in [Exchanges -> ExchangeRecords \union {NoExchange}]
        /\ exchange'[r].holds = exchange[r].holds /\ exchange'[r].read = exchange[r].read
        /\ exchange'[r].closing \subseteq Tokens
        /\ \/ exchange'[r].phase = "closing"
           \/ exchange'[r].phase = "rotated" /\ ~exchange[r].read.revoked
    <3>1. ASSUME NEW rows \in SUBSET Tokens, Revoke(r, rows)
          PROVE  /\ exchange' \in [Exchanges -> ExchangeRecords \union {NoExchange}]
                 /\ exchange'[r].holds = exchange[r].holds /\ exchange'[r].read = exchange[r].read
                 /\ exchange'[r].phase = "closing" /\ exchange'[r].closing = rows
      <4> DEFINE record == [exchange[r] EXCEPT !.phase = "closing", !.closing = rows]
      <4>1. /\ record \in ExchangeRecords /\ record.holds = exchange[r].holds
            /\ record.read = exchange[r].read /\ record.phase = "closing" /\ record.closing = rows
        BY <1>2, <2>1 DEF ExchangeRecords
      <4>2. exchange' = [exchange EXCEPT ![r] = record]
        BY <3>1 DEF Revoke, SessionInv, RowsKnown
      <4> HIDE DEF record
      <4> QED BY <4>1, <4>2 DEF SessionInv, RowsKnown
    <3>2. CASE ReuseDetected(r) \/ RefuseService(r)
      <4>1. CASE ReuseDetected(r)
        <5> DEFINE ending == LiveOf(exchange[r].read.family)
        <5>1. ending \in SUBSET Tokens /\ Revoke(r, ending)
          BY <2>2, <4>1 DEF ReuseDetected
        <5> HIDE DEF ending
        <5> QED BY <3>1, <5>1
      <4>2. CASE RefuseService(r)
        BY <2>2, <3>1, <4>2 DEF RefuseService
      <4> QED BY <3>2, <4>1, <4>2
    <3>3. CASE Rotate(r)
      <4> DEFINE record == [exchange[r] EXCEPT !.phase = "rotated"]
      <4>1. /\ record \in ExchangeRecords /\ record.holds = exchange[r].holds
            /\ record.read = exchange[r].read /\ record.phase = "rotated"
            /\ record.closing = exchange[r].closing
        BY <2>1 DEF ExchangeRecords
      <4>2. exchange' = [exchange EXCEPT ![r] = record] /\ ~exchange[r].read.revoked
        BY <3>3 DEF Rotate
      <4> HIDE DEF record
      <4>3. exchange[r].closing \subseteq Tokens
        BY <1>2, <2>1 DEF SessionInv, FamiliesGivenOut, Exchanging, At
      <4> QED BY <4>1, <4>2, <4>3 DEF SessionInv, RowsKnown
    <3> QED BY <1>5, <3>2, <3>3
  <2>4. RowsKnown'
    BY <1>1, <2>3 DEF SessionInv, RowsKnown
  <2>5. FamiliesGivenOut'
    BY <1>1, <1>2, <1>3, <2>1, <2>3 DEF SessionInv, FamiliesGivenOut, Busy, At, Exchanging, Tokens
  <2>6. LocksHold'
    BY <1>1, <1>3, <2>1, <2>3 DEF SessionInv, LocksHold, Busy, At, Exchanging, Tokens
  <2> QED BY <1>4, <2>4, <2>5, <2>6 DEF SessionInv
<1>6. CASE Breaks(r)
  <2>1. exchange' = [exchange EXCEPT ![r] = NoExchange]
    BY <1>6 DEF Breaks, Ends
  <2>2. \A q \in Exchanges : Busy(q)' => Busy(q) /\ exchange'[q] = exchange[q]
    BY <2>1 DEF SessionInv, RowsKnown, Busy
  <2> QED BY <1>1, <1>4, <2>1, <2>2
          DEF SessionInv, RowsKnown, FamiliesGivenOut, LocksHold, Busy, At, Exchanging, Tokens
<1>7. ASSUME NEW i \in Tokens, LockToken(r, i) \/ LogOut(r, i)
      PROVE  SessionInv'
  <2>1. \A f : LiveOf(f) \in SUBSET Nat
    BY <1>2 DEF LiveOf
  <2>2. RowsKnown'
    BY <1>1, <1>2, <1>7, <2>1 DEF SessionInv, RowsKnown, LockToken, LogOut, ExchangeRecords
  <2>3. /\ exchange'[r].read = token[i]
        /\ exchange'[r].holds \in 0..Len(token) /\ exchange'[r].closing \subseteq 1..Len(token)
    BY <1>2, <1>7 DEF SessionInv, RowsKnown, LockToken, LogOut, LiveOf
  <2>4. FamiliesGivenOut'
    BY <1>1, <1>2, <1>3, <2>3 DEF SessionInv, FamiliesGivenOut, Busy, Tokens
  <2>5. CASE LockToken(r, i)
    <3>1. exchange'[r].phase = "locked" /\ exchange'[r].holds = i
      BY <2>5 DEF LockToken, SessionInv, RowsKnown
    <3>2. \A q \in Exchanges : q # r /\ Busy(q) => exchange[q].holds # i
      BY <2>5 DEF LockToken, TokenIsFree
    <3>3. LocksHold'
      BY <1>1, <1>3, <2>3, <3>1, <3>2 DEF SessionInv, LocksHold, Busy, At, Exchanging, Tokens
    <3> QED BY <1>4, <2>2, <2>4, <3>3 DEF SessionInv
  <2>6. CASE LogOut(r, i)
    <3>1. exchange'[r].phase = "closing" /\ exchange'[r].holds = 0
      BY <2>6 DEF LogOut, SessionInv, RowsKnown
    <3>2. LocksHold'
      BY <1>1, <1>2, <1>3, <3>1 DEF SessionInv, LocksHold, Busy, At, Exchanging, Tokens
    <3> QED BY <1>4, <2>2, <2>4, <3>2 DEF SessionInv
  <2> QED BY <1>7, <2>5, <2>6
<1> QED BY <1>5, <1>6, <1>7

LEMMA ExpiryKeeps ==
    ASSUME SessionInv, NEW i \in Tokens, TokenExpires(i)
    PROVE  SessionInv'
<1>1. Tokens = 1..Len(token) /\ Len(token) \in Nat /\ \A j \in Tokens : token[j] \in TokenRows
  BY DEF SessionInv, RowsKnown, Tokens
<1>2. /\ token' \in Seq(TokenRows) /\ Len(token') = Len(token) /\ Tokens' = Tokens
      /\ \A j \in Tokens : token'[j].family = token[j].family /\ token'[j].revoked = token[j].revoked
  <2> DEFINE row == [token[i] EXCEPT !.expired = TRUE]
  <2>1. row \in TokenRows /\ row.family = token[i].family /\ row.revoked = token[i].revoked
    BY <1>1 DEF TokenRows
  <2>2. token' = [token EXCEPT ![i] = row]
    BY DEF TokenExpires
  <2> HIDE DEF row
  <2> QED BY <1>1, <2>1, <2>2 DEF SessionInv, RowsKnown, Tokens
<1>3. UNCHANGED <<exchange, service>>
  BY DEF TokenExpires
<1> QED BY <1>2, <1>3 DEF SessionInv, RowsKnown, FamiliesGivenOut, LocksHold, OneLiveToken,
                          LiveToken, Busy, At, Exchanging

LEMMA SessionStep == SessionInv /\ [SessionNext]_sessionVars => SessionInv'
<1> SUFFICES ASSUME SessionInv, [SessionNext]_sessionVars
             PROVE  SessionInv'
    OBVIOUS
<1>1. CASE SignIn
  BY <1>1, SignInKeeps
<1>2. CASE BecomesService \/ UNCHANGED sessionVars
  <2>1. UNCHANGED <<token, exchange>> /\ service' \in BOOLEAN
    BY <1>2 DEF BecomesService, sessionVars, SessionInv, RowsKnown
  <2>2. RowsKnown' /\ FamiliesGivenOut' /\ OneLiveToken'
    BY <2>1 DEF SessionInv, RowsKnown, FamiliesGivenOut, OneLiveToken, LiveToken, Busy, Tokens
  <2>3. LocksHold'
    BY <2>1 DEF SessionInv, LocksHold, Busy, At, Exchanging, Tokens
  <2> QED BY <2>2, <2>3 DEF SessionInv
<1>3. ASSUME NEW i \in Tokens, TokenExpires(i)
      PROVE  SessionInv'
  BY <1>3, ExpiryKeeps
<1>4. ASSUME NEW r \in Exchanges, CommitRotation(r)
      PROVE  SessionInv'
  BY <1>4, CommitRotationKeeps
<1>5. ASSUME NEW r \in Exchanges, RefuseExpired(r) \/ CommitClosing(r)
      PROVE  SessionInv'
  BY <1>5, RevocationsKeep
<1>6. ASSUME NEW r \in Exchanges,
             \/ ReuseDetected(r) \/ RefuseService(r) \/ Rotate(r) \/ Breaks(r)
             \/ \E i \in Tokens : LockToken(r, i) \/ LogOut(r, i)
      PROVE  SessionInv'
  BY <1>6, RequestsKeep
<1> QED BY <1>1, <1>2, <1>3, <1>4, <1>5, <1>6 DEF SessionNext

----------------------------------------------------------------------------
LEMMA SessionInvHolds == SessionSpec => []SessionInv
BY SessionBegins, SessionStep, PTL DEF SessionSpec

\* The types of RefreshSessions.
LEMMA SessionTypesHold == SessionSpec => []SessionTypeOK
<1>1. SessionInv => SessionTypeOK
  <2> SUFFICES ASSUME SessionInv PROVE SessionTypeOK
    OBVIOUS
  <2>1. ASSUME NEW r \in Exchanges, Busy(r)
        PROVE  /\ exchange[r].phase \in {"locked", "rotated", "closing"}
               /\ exchange[r].holds \in Tokens \union {0} /\ exchange[r].closing \subseteq Tokens
    BY <2>1, RowFacts DEF ExchangeRecords
  <2> QED
    BY <2>1 DEF SessionInv, RowsKnown, TokenRows, SessionTypeOK
<1> QED
  BY <1>1, SessionInvHolds, PTL

\* A phone that repeats an exchange whose answer was lost, or sends it twice
\* at once, never ends up with two tokens that work (refresh_session_lock_stmt).
THEOREM OneTokenLives == SessionSpec => []OneLiveToken
<1>1. SessionInv => OneLiveToken
  BY DEF SessionInv
<1> QED BY <1>1, SessionInvHolds, PTL

----------------------------------------------------------------------------
\* A sign-in, seen from the user: a family of one token.
LEMMA SignInOpens ==
    ASSUME SessionInv, SignIn
    PROVE  Promised!Open
<1> DEFINE row == [family |-> Len(token) + 1, revoked |-> FALSE, expired |-> FALSE, replacedBy |-> 0]
<1>1. Len(token) \in Nat /\ Tokens = 1..Len(token)
      /\ \A i \in Tokens : token[i].family \in Nat /\ token[i].family <= Len(token)
  BY RowFacts
<1>2. token' = Append(token, row) /\ row \in TokenRows /\ ~row.revoked /\ row.family = Len(token) + 1
  BY <1>1 DEF SignIn, TokenRows
<1> HIDE DEF row
<1>3. /\ Len(token') = Len(token) + 1 /\ Tokens' = 1..Len(token) + 1
      /\ \A i \in Tokens : token'[i] = token[i]
      /\ token'[Len(token) + 1] = row
  BY <1>1, <1>2 DEF Tokens, SessionInv, RowsKnown
<1>4. {token'[i].family : i \in Tokens'} = {token[i].family : i \in Tokens} \union {Len(token) + 1}
  BY <1>1, <1>2, <1>3
<1>5. PICK n \in Nat : n = Len(token) + 1
  BY <1>1
<1>6. \A g : LiveOf(g)' = {i \in 1..n : ~token'[i].revoked /\ token'[i].family = g}
  BY <1>3, <1>5 DEF LiveOf, LiveToken
<1>7. \A g : LiveOf(g) = {i \in 1..Len(token) : ~token[i].revoked /\ token[i].family = g}
  BY <1>1 DEF LiveOf, LiveToken
<1>8. LiveOf(n)' = {n}
  <2>1. \A i \in 1..n : token'[i].family = n => i = n
    BY <1>1, <1>3, <1>5
  <2> QED BY <1>2, <1>3, <1>5, <1>6, <2>1
<1>9. \A g \in {token[i].family : i \in Tokens} : g # n /\ LiveOf(g)' = LiveOf(g)
  <2> TAKE g \in {token[i].family : i \in Tokens}
  <2>1. g \in Nat /\ g < n
    BY <1>1, <1>5
  <2>2. \A i \in 1..n : token'[i].family = g => i \in 1..Len(token)
    BY <1>1, <1>2, <1>3, <1>5, <2>1
  <2>3. \A i \in 1..Len(token) : i \in 1..n /\ token'[i] = token[i]
    BY <1>1, <1>3, <1>5
  <2>4. LiveOf(g)' = {i \in 1..n : ~token'[i].revoked /\ token'[i].family = g}
    BY <1>6
  <2>5. LiveOf(g) = {i \in 1..Len(token) : ~token[i].revoked /\ token[i].family = g}
    BY <1>7
  <2>6. LiveOf(g)' \subseteq LiveOf(g)
    BY <2>2, <2>3, <2>4, <2>5
  <2>7. LiveOf(g) \subseteq LiveOf(g)'
    BY <2>3, <2>4, <2>5
  <2> QED BY <1>5, <2>1, <2>6, <2>7
<1> QED BY <1>3, <1>4, <1>5, <1>8, <1>9 DEF Promised!Open

\* An exchange: the family still had its token, and has the new one now.
LEMMA RotationRenews ==
    ASSUME SessionInv, NEW r \in Exchanges, CommitRotation(r)
    PROVE  Promised!Next
<1> DEFINE spent == exchange[r].holds
           row == [family |-> token[spent].family, revoked |-> FALSE, expired |-> FALSE, replacedBy |-> 0]
           replaced == [token[spent] EXCEPT !.revoked = TRUE, !.replacedBy = Len(token) + 1]
<1>1. At(r, "rotated") /\ spent \in Tokens /\ LiveToken(spent)
  BY DEF CommitRotation, Exchanging, SessionInv, LocksHold, LiveToken
<1>2. Len(token) \in Nat /\ Tokens = 1..Len(token) /\ token[spent] \in TokenRows
  BY <1>1, RowFacts
<1>3. PICK f \in Nat \ {0} : token[spent].family = f
  BY <1>2 DEF TokenRows
<1>4. replaced \in TokenRows /\ replaced.revoked /\ replaced.family = f
  <2>1. Len(token) + 1 \in Nat
    BY <1>2
  <2> QED BY <1>2, <1>3, <2>1, SpentRow
<1>5. row \in TokenRows /\ ~row.revoked /\ row.family = f
  BY <1>3 DEF TokenRows
<1>6. /\ Len(token') = Len(token) + 1 /\ Tokens' = 1..Len(token) + 1
      /\ \A i \in Tokens : i # spent => token'[i] = token[i]
      /\ token'[spent] = replaced /\ token'[Len(token) + 1] = row
  <2> DEFINE rows == [token EXCEPT ![spent] = replaced]
  <2>1. rows \in Seq(TokenRows) /\ Len(rows) = Len(token) /\ rows[spent] = replaced
        /\ \A i \in Tokens : i # spent => rows[i] = token[i]
    <3> HIDE DEF replaced
    <3> QED BY <1>1, <1>2, <1>4 DEF SessionInv, RowsKnown, Tokens
  <2>2. token' = Append(rows, row)
    BY <1>1, <1>2 DEF CommitRotation, SessionInv, RowsKnown, Tokens, TokenRows
  <2> HIDE DEF rows, row, replaced
  <2> QED BY <1>1, <1>2, <1>5, <2>1, <2>2 DEF Tokens
<1> HIDE DEF row, replaced
<1>7. {token'[i].family : i \in Tokens'} = {token[i].family : i \in Tokens}
  <2>1. \A i \in Tokens : token'[i].family = token[i].family
    BY <1>3, <1>4, <1>6
  <2>2. token'[Len(token) + 1].family = f
    BY <1>5, <1>6
  <2> QED BY <1>3, <1>1, <1>2, <1>6, <2>1, <2>2
<1>8. spent \in LiveOf(f)
  BY <1>3, <1>1 DEF LiveOf
<1>9. \A g : LiveOf(g)' = {i \in 1..Len(token) + 1 : ~token'[i].revoked /\ token'[i].family = g}
  BY <1>6 DEF LiveOf, LiveToken
<1>10. \A g : LiveOf(g) = {i \in 1..Len(token) : ~token[i].revoked /\ token[i].family = g}
  BY <1>2 DEF LiveOf, LiveToken
<1>11. \A i \in 1..Len(token) + 1 : i \in 1..Len(token) \/ i = Len(token) + 1
  BY <1>2
<1>12. LiveOf(f)' = {Len(token) + 1}
  <2>1. \A i \in Tokens : i # spent => ~(LiveToken(i) /\ token[i].family = f)
    BY <1>3, <1>1 DEF SessionInv, OneLiveToken
  <2>2. \A i \in 1..Len(token) : ~(~token'[i].revoked /\ token'[i].family = f)
    BY <1>2, <1>4, <1>6, <2>1 DEF LiveToken
  <2> QED BY <1>2, <1>5, <1>6, <1>9, <1>11, <2>2
<1>13. \A g \in {token[i].family : i \in Tokens} : g # f => LiveOf(g)' = LiveOf(g)
  <2> SUFFICES ASSUME NEW g, g # f PROVE LiveOf(g)' = LiveOf(g)
    OBVIOUS
  <2>1. \A i \in 1..Len(token) : (~token'[i].revoked /\ token'[i].family = g)
                                 <=> (~token[i].revoked /\ token[i].family = g)
    BY <1>3, <1>2, <1>4, <1>6
  <2>2. ~(token'[Len(token) + 1].family = g)
    BY <1>5, <1>6
  <2>3. \A i \in 1..Len(token) : i \in 1..Len(token) + 1
    BY <1>2
  <2> QED BY <1>9, <1>10, <1>11, <2>1, <2>2, <2>3
<1>14. f \in {token[i].family : i \in Tokens}
  BY <1>3, <1>1
<1>15. Promised!Renew(f)
  BY <1>6, <1>7, <1>8, <1>12, <1>13, <1>14 DEF Promised!Renew
<1> QED BY <1>14, <1>15 DEF Promised!Next

\* Rows that are revoked in place, or run out: families end, or nothing is
\* seen.
LEMMA RevocationsEnd ==
    ASSUME SessionInv, Len(token') = Len(token), Tokens' = Tokens,
           \A i \in Tokens : token'[i].family = token[i].family /\ (LiveToken(i)' => LiveToken(i))
    PROVE  Promised!Next
<1> DEFINE given == {token[i].family : i \in Tokens}
           ended == {f \in given : LiveOf(f)' = {}}
<1>1. {token'[i].family : i \in Tokens'} = given
  OBVIOUS
<1>2. \A f \in given : LiveOf(f)' \subseteq LiveOf(f)
  BY DEF LiveOf
<1>3. \A f \in given : f \notin ended => LiveOf(f)' = LiveOf(f)
  <2> SUFFICES ASSUME NEW f \in given, NEW j \in LiveOf(f)' PROVE LiveOf(f)' = LiveOf(f)
    OBVIOUS
  <2>1. j \in LiveOf(f) /\ \A i \in LiveOf(f) : i = j
    BY <1>2 DEF LiveOf, SessionInv, OneLiveToken
  <2> QED BY <1>2, <2>1
<1>4. PICK families \in SUBSET given : families = ended
  OBVIOUS
<1>5. \A f \in given : LiveOf(f)' = IF f \in families THEN {} ELSE LiveOf(f)
  BY <1>3, <1>4
<1> HIDE DEF ended
<1>6. Promised!EndAll(families)
  BY <1>1, <1>5 DEF Promised!EndAll
<1> QED BY <1>6 DEF Promised!Next

\* Whatever its phones send again or at once, what the exchanges and log-outs
\* do to the tokens of a user keeps to the promise: a family has one token
\* that works, it may give way to a new one, and a family that has ended gives
\* out no token any more (_rotate_tokens, logout).
THEOREM SessionsKeepPromise == SessionSpec => FamiliesEndForGood
<1>1. SessionInit => Promised!Init
  BY DEF SessionInit, Tokens, Promised!Init
<1>2. SessionInv /\ [SessionNext]_sessionVars => [Promised!Next]_Promised!vars
  <2> SUFFICES ASSUME SessionInv, [SessionNext]_sessionVars PROVE [Promised!Next]_Promised!vars
    OBVIOUS
  <2>1. CASE SignIn
    BY <2>1, SignInOpens DEF Promised!Next
  <2>2. CASE UNCHANGED token
    BY <2>2 DEF Promised!vars, Tokens, LiveOf, LiveToken
  <2>3. ASSUME NEW i \in Tokens, TokenExpires(i) PROVE Promised!Next
    <3>1. token' = [token EXCEPT ![i] = [token[i] EXCEPT !.expired = TRUE]] /\ token[i] \in TokenRows
      BY <2>3, RowFacts DEF TokenExpires
    <3>2. [token[i] EXCEPT !.expired = TRUE].family = token[i].family
          /\ [token[i] EXCEPT !.expired = TRUE].revoked = token[i].revoked
      BY <3>1 DEF TokenRows
    <3>3. Len(token') = Len(token) /\ Tokens' = Tokens
          /\ \A j \in Tokens : token'[j].family = token[j].family /\ (LiveToken(j)' => LiveToken(j))
      BY <3>1, <3>2 DEF SessionInv, RowsKnown, Tokens, LiveToken
    <3> QED BY <3>3, RevocationsEnd
  <2>4. ASSUME NEW r \in Exchanges, CommitRotation(r) PROVE Promised!Next
    BY <2>4, RotationRenews
  <2>5. ASSUME NEW r \in Exchanges, RefuseExpired(r) \/ CommitClosing(r) PROVE Promised!Next
    <3>1. \A i \in Tokens : token[i] \in TokenRows
      BY RowFacts
    <3>2. Len(token') = Len(token) /\ Tokens' = Tokens
          /\ \A i \in Tokens : token'[i] = token[i] \/ token'[i] = [token[i] EXCEPT !.revoked = TRUE]
      <4>1. CASE RefuseExpired(r)
        <5>1. exchange[r].holds \in Tokens
          BY <4>1 DEF RefuseExpired, SessionInv, LocksHold, Exchanging
        <5>2. token' = [token EXCEPT ![exchange[r].holds] = [token[exchange[r].holds] EXCEPT !.revoked = TRUE]]
          BY <4>1 DEF RefuseExpired
        <5>3. [token[exchange[r].holds] EXCEPT !.revoked = TRUE] \in TokenRows
          BY <3>1, <5>1 DEF TokenRows
        <5>4. PICK row \in TokenRows : row = [token[exchange[r].holds] EXCEPT !.revoked = TRUE]
          BY <5>3
        <5>5. token' = [token EXCEPT ![exchange[r].holds] = row]
          BY <5>2, <5>4
        <5>6. Len(token') = Len(token) /\ Tokens' = Tokens
              /\ \A i \in Tokens : token'[i] = IF i = exchange[r].holds THEN row ELSE token[i]
          BY <5>1, <5>5 DEF SessionInv, RowsKnown, Tokens
        <5> QED BY <5>4, <5>6
      <4>2. CASE CommitClosing(r)
        <5>1. Tokens = 1..Len(token) /\ Len(token) \in Nat
          BY RowFacts
        <5>2. token' = [i \in 1..Len(token) |-> IF i \in exchange[r].closing
                                                 THEN [token[i] EXCEPT !.revoked = TRUE] ELSE token[i]]
          BY <4>2, <5>1 DEF CommitClosing
        <5>3. DOMAIN token' = 1..Len(token)
          BY <5>2
        <5>4. RowsKnown'
          BY <4>2, RevocationsKeep DEF SessionInv
        <5>5. Len(token') = Len(token)
          BY <5>1, <5>3, <5>4 DEF RowsKnown
        <5> QED BY <5>1, <5>2, <5>3, <5>5 DEF Tokens
      <4> QED BY <2>5, <4>1, <4>2
    <3>3. \A i \in Tokens : token'[i].family = token[i].family /\ (LiveToken(i)' => LiveToken(i))
      BY <3>1, <3>2 DEF LiveToken, TokenRows
    <3> QED BY <3>2, <3>3, RevocationsEnd
  <2> QED BY <2>1, <2>2, <2>3, <2>4, <2>5
             DEF SessionNext, BecomesService, ReuseDetected, RefuseService, Revoke, Rotate, Breaks,
                 LockToken, LogOut, sessionVars
<1> QED BY <1>1, <1>2, SessionInvHolds, PTL DEF SessionSpec, FamiliesEndForGood, Promised!Spec
-----------------------------------------------------------------------------
(* PaceEscalation.                                                          *)

ViolationRow == [run: Nat, at: Nat, seen: Nat, enforced: BOOLEAN]
FraudRow == [flagged: BOOLEAN, trusted: BOOLEAN, until: Nat, level: 0..Len(Ladder),
             offence: Nat, from: Nat]

PaceTypes ==
    /\ now \in Nat \ {0} /\ enforcing \in BOOLEAN
    /\ outing \in [number: Nat, began: Nat]
    /\ violation \in Seq(ViolationRow)
    /\ fraud \in FraudRow
    /\ blocks \in Seq(SUBSET Nat)

\* Violations arrive one at a time and after they were made; the counters start
\* in the past.
Arrivals ==
    /\ \A i \in DOMAIN violation : violation[i].at <= violation[i].seen /\ violation[i].seen < now
    /\ \A i, j \in DOMAIN violation : violation[i].seen = violation[j].seen => i = j
    /\ fraud.from < now

\* A block answers what had arrived when the counters started anew, and what a
\* later block answers was made after all of that.
BlockAnswers(b) == \A i \in blocks[b] : i \in DOMAIN violation /\ violation[i].seen <= fraud.from
Separate ==
    /\ \A b \in DOMAIN blocks : BlockAnswers(b)
    /\ \A b, c \in DOMAIN blocks : b < c =>
          \A k \in blocks[b], i \in blocks[c] : violation[k].seen <= violation[i].at

\* The latest mark so far, told in time, is one that a burst does not hide behind.
Latest(j) == \A i \in 1..j : violation[i].at <= violation[j].at
Found ==
    \A j \in DOMAIN violation :
        Latest(j) /\ violation[j].enforced /\ InTime(j) /\ Cardinality(Burst(j)) >= FlagAt => fraud.flagged

PaceInv == PaceTypes /\ Arrivals /\ Separate /\ Found

LEMMA ViolationRows ==
    ASSUME PaceTypes
    PROVE  /\ DOMAIN violation = 1..Len(violation) /\ Len(violation) \in Nat
           /\ \A i \in DOMAIN violation :
                 /\ violation[i] \in ViolationRow /\ i \in Nat
                 /\ violation[i].at \in Nat /\ violation[i].seen \in Nat
           /\ \A j \in DOMAIN violation : 1..j \subseteq DOMAIN violation /\ j \in 1..j
<1>1. /\ DOMAIN violation = 1..Len(violation) /\ Len(violation) \in Nat
      /\ \A i \in DOMAIN violation : violation[i] \in ViolationRow
  BY DEF PaceTypes
<1>2. \A i \in DOMAIN violation : violation[i].at \in Nat /\ violation[i].seen \in Nat /\ i \in Nat
  BY <1>1 DEF ViolationRow
<1> QED
  BY <1>1, <1>2

\* The larger and the smaller of two numbers.
LEMMA LargerOfTwo ==
    ASSUME NEW a \in Nat, NEW b \in Nat
    PROVE  Max({a, b}) \in Nat /\ a <= Max({a, b}) /\ b <= Max({a, b}) /\ Max({a, b}) \in {a, b}
<1>1. PICK k \in Nat : k = a + b
  OBVIOUS
<1>2. {a, b} \in SUBSET (0..k) /\ {a, b} # {}
  BY <1>1
<1> QED
  BY <1>2, LatestExists

LEMMA SmallerOfTwo ==
    ASSUME NEW a \in Nat, NEW b \in Nat
    PROVE  Min({a, b}) \in {a, b} /\ Min({a, b}) <= a /\ Min({a, b}) <= b
<1>1. \E x \in {a, b} : \A y \in {a, b} : x <= y
  OBVIOUS
<1> QED
  BY <1>1 DEF Min

\* Where counting starts: not before the counters, nor before the window.
LEMMA StartIs ==
    ASSUME fraud.from \in Nat, NEW end \in Nat, NEW window \in Nat
    PROVE  /\ CountersStart(end, window) \in Nat
           /\ fraud.from <= CountersStart(end, window)
           /\ end <= CountersStart(end, window) + window
           /\ CountersStart(end, window) = fraud.from
                 \/ CountersStart(end, window) = IF end > window THEN end - window ELSE 0
<1>1. PICK low \in Nat : low = IF end > window THEN end - window ELSE NoTime
  BY DEF NoTime
<1>2. CountersStart(end, window) = Max({fraud.from, low})
  BY <1>1 DEF CountersStart
<1>3. PICK begin \in Nat : begin = Max({fraud.from, low}) /\ fraud.from <= begin /\ low <= begin
                          /\ begin \in {fraud.from, low}
  BY LargerOfTwo
<1>4. end <= low + window
  BY <1>1 DEF NoTime
<1>5. end <= begin + window
  BY <1>3, <1>4
<1> QED
  BY <1>1, <1>2, <1>3, <1>5 DEF NoTime

\* Steps of the ladder.
LEMMA LadderSteps ==
    ASSUME PaceTypes
    PROVE  NextLevel \in 0..Len(Ladder) /\ Lasts \in Nat
<1>1. Ladder \in Seq(Nat \ {0}) /\ Len(Ladder) \in Nat \ {0}
  BY LadderAssumption
<1>2. Level \in Nat
  BY DEF Level, PaceTypes, FraudRow
<1>3. PICK step : step = Min({Level + 1, Len(Ladder)})
  OBVIOUS
<1>4. step \in {Level + 1, Len(Ladder)} /\ step <= Len(Ladder)
  BY <1>1, <1>2, <1>3, SmallerOfTwo
<1>5. step \in 1..Len(Ladder)
  BY <1>1, <1>2, <1>4
<1>6. Ladder[step] \in Nat
  BY <1>1, <1>5
<1> QED
  BY <1>1, <1>3, <1>5, <1>6 DEF NextLevel, Lasts

LEMMA PaceBegins == PaceInit => PaceInv
<1> SUFFICES ASSUME PaceInit PROVE PaceInv
  OBVIOUS
<1>1. now = 1 /\ violation = <<>> /\ blocks = <<>> /\ fraud = Innocent
      /\ outing = [number |-> 1, began |-> 1] /\ enforcing \in BOOLEAN
  BY DEF PaceInit
<1>2. fraud \in FraudRow /\ fraud.from = 0
  BY <1>1, LadderAssumption DEF Innocent, FraudRow, NoTime
<1>3. PaceTypes
  BY <1>1, <1>2 DEF PaceTypes
<1>4. DOMAIN violation = {} /\ DOMAIN blocks = {}
  BY <1>1
<1> QED
  BY <1>1, <1>2, <1>3, <1>4 DEF PaceInv, Arrivals, Separate, Found

\* What was found is found with a later start of the counters, too.
LEMMA LaterStart ==
    ASSUME PaceInv, NEW j \in DOMAIN violation, NEW from \in Nat, fraud.from <= from,
           NEW window \in Nat,
           NEW S, S = {i \in 1..j : violation[i].at >=
                          Max({from, IF violation[j].at > window THEN violation[j].at - window ELSE NoTime})}
    PROVE  S \subseteq {i \in 1..j : violation[i].at >= CountersStart(violation[j].at, window)}
<1>1. violation[j].at \in Nat /\ fraud.from \in Nat /\ \A i \in 1..j : violation[i].at \in Nat
  BY ViolationRows DEF PaceInv, PaceTypes, FraudRow
<1>2. PICK low \in Nat : low = IF violation[j].at > window THEN violation[j].at - window ELSE NoTime
  BY <1>1 DEF NoTime
<1>3. PICK earlier \in Nat : earlier = Max({fraud.from, low}) /\ earlier \in {fraud.from, low}
  BY <1>1, LargerOfTwo
<1>4. PICK new \in Nat : new = Max({from, low}) /\ from <= new /\ low <= new
  BY LargerOfTwo
<1>5. earlier <= new
  BY <1>1, <1>3, <1>4
<1>6. CountersStart(violation[j].at, window) = earlier
  BY <1>2, <1>3 DEF CountersStart
<1> QED
  BY <1>1, <1>2, <1>4, <1>5, <1>6

\* The counters start later, or not, and a flag is kept, or nothing counts any
\* more: a burst found is still found.
LEMMA StillFound ==
    ASSUME PaceInv, \A i \in DOMAIN violation : violation'[i] = violation[i],
           fraud' \in FraudRow, fraud.from <= fraud'.from,
           \/ fraud.flagged => fraud'.flagged
           \/ \A i \in DOMAIN violation : violation[i].at < fraud'.from,
           NEW j \in DOMAIN violation,
           Latest(j)', violation'[j].enforced, InTime(j)', Cardinality(Burst(j)') >= FlagAt
    PROVE  fraud'.flagged
<1>0. Latest(j) /\ violation[j].enforced /\ InTime(j) /\ \A i \in 1..j : violation'[i] = violation[i]
  BY ViolationRows DEF Latest, InTime, PaceInv
<1> DEFINE burst == {i \in 1..j : violation[i].at >= CountersStart(violation[j].at, FlagWindow)}
<1>1. fraud'.from \in Nat /\ fraud.from \in Nat /\ FlagWindow \in Nat /\ FlagAt \in Nat \ {0}
  BY ThresholdsAssumption DEF FraudRow, PaceInv, PaceTypes
<1>2. PICK S : S = Burst(j)'
  OBVIOUS
<1>3. S = {i \in 1..j : violation[i].at >=
             Max({fraud'.from, IF violation[j].at > FlagWindow THEN violation[j].at - FlagWindow ELSE NoTime})}
  BY <1>0, <1>2 DEF Burst, CountersStart
<1>4. S \subseteq burst
  BY <1>1, <1>3, LaterStart
<1>5. burst = Burst(j) /\ IsFiniteSet(burst)
  <2>1. IsFiniteSet(1..j) /\ burst \in SUBSET (1..j)
    BY ViolationRows, FS_Interval DEF PaceInv
  <2> QED
    BY <2>1, FS_Subset DEF Burst
<1>6. CASE fraud.flagged => fraud'.flagged
  <2>1. Cardinality(S) <= Cardinality(burst) /\ Cardinality(S) \in Nat /\ Cardinality(burst) \in Nat
    BY <1>4, <1>5, FS_Subset, FS_CardinalityType
  <2>2. Cardinality(Burst(j)) >= FlagAt
    BY <1>1, <1>2, <1>5, <2>1
  <2> QED
    BY <1>0, <1>6, <2>2 DEF PaceInv, Found
<1>7. CASE \A i \in DOMAIN violation : violation[i].at < fraud'.from
  <2>1. violation[j].at \in Nat /\ \A i \in 1..j : violation[i].at \in Nat /\ i \in DOMAIN violation
    BY ViolationRows DEF PaceInv
  <2>2. PICK low \in Nat : low = IF violation[j].at > FlagWindow THEN violation[j].at - FlagWindow ELSE NoTime
    BY <1>1, <2>1 DEF NoTime
  <2>3. PICK begin \in Nat : begin = Max({fraud'.from, low}) /\ fraud'.from <= begin
    BY <1>1, LargerOfTwo
  <2>4. S = {}
    BY <1>1, <1>3, <1>7, <2>1, <2>2, <2>3
  <2> QED
    BY <1>1, <1>2, <2>4, FS_EmptySet
<1> QED
  BY <1>6, <1>7

\* A step that takes in no violation and answers with no block.
LEMMA NothingArrives ==
    ASSUME PaceInv, UNCHANGED <<violation, blocks>>, fraud' \in FraudRow, enforcing' \in BOOLEAN,
           outing' \in [number: Nat, began: Nat], now' \in {now, now + 1},
           fraud.from <= fraud'.from, fraud'.from < now',
           \/ fraud.flagged => fraud'.flagged
           \/ \A i \in DOMAIN violation : violation[i].at < fraud'.from
    PROVE  PaceInv'
<1>1. PaceTypes'
  BY DEF PaceInv, PaceTypes
<1>2. \A i \in DOMAIN violation : violation[i].seen \in Nat /\ violation[i].seen < now /\ now \in Nat
  BY ViolationRows DEF PaceInv, PaceTypes, Arrivals
<1>3. Arrivals'
  BY <1>2 DEF PaceInv, Arrivals
<1>4. Separate'
  <2>1. fraud.from \in Nat /\ fraud'.from \in Nat
    BY DEF FraudRow, PaceInv, PaceTypes
  <2>2. \A b \in DOMAIN blocks : BlockAnswers(b)'
    BY <1>2, <2>1 DEF PaceInv, Separate, BlockAnswers
  <2> QED
    BY <2>2 DEF PaceInv, Separate
<1>5. Found'
  BY StillFound DEF Found
<1> QED
  BY <1>1, <1>3, <1>4, <1>5 DEF PaceInv

\* The newest of the marks that are recent.
LEMMA NewestIs ==
    ASSUME NEW seq \in Seq(ViolationRow), now \in Nat, Recent(seq) # {},
           \A i \in DOMAIN seq : seq[i].at <= now
    PROVE  NewestAt(seq) \in Nat /\ NewestAt(seq) \in {seq[i].at : i \in Recent(seq)}
           /\ \A i \in Recent(seq) : seq[i].at <= NewestAt(seq)
<1> DEFINE Times == {seq[i].at : i \in Recent(seq)}
<1>1. \A i \in Recent(seq) : seq[i] \in ViolationRow /\ seq[i].at <= now
  BY DEF Recent
<1>2. \A i \in Recent(seq) : seq[i].at \in 0..now
  BY <1>1 DEF ViolationRow
<1>3. Times \in SUBSET (0..now) /\ Times # {}
  BY <1>2
<1>4. NewestAt(seq) = Max(Times)
  BY DEF NewestAt
<1>5. NewestAt(seq) \in Times /\ \A t \in Times : t <= NewestAt(seq)
  <2> HIDE DEF Times
  <2> QED
    BY <1>3, <1>4, LatestExists
<1> QED
  BY <1>2, <1>5

\* A violation that arrives in time as the latest finds the burst it ends.
LEMMA BurstIsSeen ==
    ASSUME NEW seq \in Seq(ViolationRow), now \in Nat, fraud.from \in Nat,
           NEW n, n = Len(seq), n > 0, seq[n].seen = now,
           \A i \in 1..n : seq[i].at <= seq[n].at, seq[n].at <= now,
           seq[n].at + Lookback >= now + FlagWindow,
           NEW S \in SUBSET (1..n), NEW begin \in Nat, fraud.from <= begin,
           seq[n].at <= begin + FlagWindow,
           begin >= CountersStart(seq[n].at, FlagWindow),
           \A i \in S : seq[i].at >= begin
    PROVE  S \subseteq Within(seq, FlagWindow) /\ Recent(seq) # {}
<1>1. /\ FlagWindow \in Nat /\ Lookback \in Nat /\ DOMAIN seq = 1..n /\ n \in Nat
      /\ \A i \in 1..n : seq[i].at \in Nat
  <2>1. DOMAIN seq = 1..n /\ n \in Nat /\ \A i \in 1..n : seq[i] \in ViolationRow
    OBVIOUS
  <2> QED
    BY <2>1, ThresholdsAssumption DEF ViolationRow
<1>2. n \in 1..n /\ seq[n].at \in Nat
  BY <1>1
<1>3. n \in Recent(seq)
  BY <1>1, <1>2 DEF Recent
<1>4. NewestAt(seq) = seq[n].at
  <2>1. \A i \in DOMAIN seq : seq[i].at <= now
    BY <1>1, <1>2
  <2>2. /\ NewestAt(seq) \in Nat /\ seq[n].at <= NewestAt(seq)
        /\ \E i \in Recent(seq) : NewestAt(seq) = seq[i].at
    BY <1>3, <2>1, NewestIs
  <2>3. NewestAt(seq) <= seq[n].at
    BY <1>1, <2>2 DEF Recent
  <2> QED
    BY <1>2, <2>2, <2>3
<1>5. CountersStart(seq[n].at, FlagWindow) \in Nat
  BY <1>1, <1>2, StartIs
<1>6. ASSUME NEW i \in S PROVE i \in Within(seq, FlagWindow)
  <2>1. seq[i].at \in Nat /\ seq[i].at >= begin /\ i \in DOMAIN seq
    BY <1>1
  <2>2. seq[i].at + Lookback >= now
    BY <1>1, <1>2, <2>1
  <2>3. CountersStart(NewestAt(seq), FlagWindow) <= seq[i].at
    BY <1>4, <1>5, <2>1
  <2> QED
    BY <2>1, <2>2, <2>3 DEF Within, Recent
<1> QED
  BY <1>3, <1>6

\* Rows that are written whole.
LEMMA NewViolationRow ==
    ASSUME NEW r \in Nat, NEW a \in Nat, NEW s \in Nat, NEW e \in BOOLEAN
    PROVE  [run |-> r, at |-> a, seen |-> s, enforced |-> e] \in ViolationRow
BY DEF ViolationRow

\* A mark that is too fast: what it finds is flagged, what is blocked was not
\* blocked before.
LEMMA MarkKeepsFound ==
    ASSUME PaceInv, NEW at \in outing.began..now, MarkTooFast(at)
    PROVE  PaceInv'
<1> DEFINE n == Len(violation) + 1
<1>0. /\ now \in Nat \ {0} /\ now' = now + 1 /\ enforcing \in BOOLEAN
      /\ at \in Nat /\ at <= now /\ fraud \in FraudRow /\ fraud.from \in Nat
      /\ outing \in [number: Nat, began: Nat] /\ outing.number \in Nat
      /\ UNCHANGED <<enforcing, outing>> /\ blocks \in Seq(SUBSET Nat)
  BY DEF PaceInv, PaceTypes, FraudRow, MarkTooFast, Passes
<1>1. PICK v \in ViolationRow : /\ v = [run |-> outing.number, at |-> at, seen |-> now, enforced |-> enforcing]
                               /\ v.at = at /\ v.seen = now /\ (v.enforced => enforcing)
  <2>1. [run |-> outing.number, at |-> at, seen |-> now, enforced |-> enforcing] \in ViolationRow
    BY <1>0, NewViolationRow
  <2> QED
    BY <2>1
<1>2. PICK seq \in Seq(ViolationRow) : seq = violation' /\ seq = Append(violation, v)
  <2>1. violation' = Append(violation, v) /\ violation \in Seq(ViolationRow)
    BY <1>1 DEF MarkTooFast, PaceInv, PaceTypes
  <2>2. Append(violation, v) \in Seq(ViolationRow)
    BY <2>1, AppendProperties
  <2> QED
    BY <2>1, <2>2
<1>3. /\ DOMAIN violation = 1..Len(violation) /\ Len(violation) \in Nat
      /\ \A i \in DOMAIN violation : /\ violation[i].at \in Nat /\ violation[i].seen \in Nat /\ i \in Nat
                                    /\ violation[i].at <= violation[i].seen /\ violation[i].seen < now
  BY ViolationRows DEF PaceInv, Arrivals
<1>4. /\ Len(seq) = n /\ n \in Nat /\ DOMAIN seq = 1..n /\ seq[n] = v
      /\ \A i \in DOMAIN violation : seq[i] = violation[i] /\ i \in DOMAIN seq /\ i # n
      /\ \A i \in DOMAIN seq : i \in DOMAIN violation \/ i = n
  BY <1>2, <1>3 DEF PaceInv, PaceTypes
<1> HIDE DEF n
<1>5. \A i \in DOMAIN seq : /\ seq[i].at \in Nat /\ seq[i].seen \in Nat /\ seq[i].at <= now
                            /\ seq[i].at <= seq[i].seen /\ seq[i].seen <= now /\ i \in Nat
  <2> SUFFICES ASSUME NEW i \in DOMAIN seq
               PROVE  /\ seq[i].at \in Nat /\ seq[i].seen \in Nat /\ seq[i].at <= now
                      /\ seq[i].at <= seq[i].seen /\ seq[i].seen <= now /\ i \in Nat
    OBVIOUS
  <2>1. CASE i = n
    BY <1>0, <1>1, <1>4, <2>1
  <2>2. CASE i \in DOMAIN violation
    BY <1>0, <1>3, <1>4, <2>2
  <2> QED
    BY <1>4, <2>1, <2>2
<1>6. \/ UNCHANGED <<fraud, blocks>>
         /\ (enforcing => /\ Recent(seq) # {} => Cardinality(Within(seq, FlagWindow)) < FlagAt)
      \/ fraud' = Flagged /\ UNCHANGED blocks
      \/ fraud' = Blocked /\ blocks' = Append(blocks, Within(seq, BlockWindow)) /\ Recent(seq) # {}
  <2>1. CASE ~enforcing
    BY <2>1 DEF MarkTooFast
  <2>2. CASE enforcing
    <3>1. Escalated(seq)
      BY <1>2, <2>2 DEF MarkTooFast
    <3>2. CASE Recent(seq) = {}
      BY <3>1, <3>2 DEF Escalated
    <3>3. CASE Recent(seq) # {} /\ Cardinality(Within(seq, BlockWindow)) >= BlockAt
      BY <3>1, <3>3 DEF Escalated
    <3>4. CASE Recent(seq) # {} /\ ~(Cardinality(Within(seq, BlockWindow)) >= BlockAt)
      <4>1. IsFiniteSet(Within(seq, FlagWindow))
        <5>1. IsFiniteSet(1..n) /\ Within(seq, FlagWindow) \in SUBSET (1..n)
          BY <1>4, FS_Interval DEF Within, Recent
        <5> QED
          BY <5>1, FS_Subset
      <4>2. Cardinality(Within(seq, FlagWindow)) \in Nat /\ FlagAt \in Nat
        BY <4>1, FS_CardinalityType, ThresholdsAssumption
      <4>3. CASE Cardinality(Within(seq, FlagWindow)) >= FlagAt
        BY <3>1, <3>4, <4>3 DEF Escalated
      <4>4. CASE ~(Cardinality(Within(seq, FlagWindow)) >= FlagAt)
        BY <3>1, <3>4, <4>2, <4>4 DEF Escalated
      <4> QED
        BY <4>3, <4>4
    <3> QED
      BY <3>2, <3>3, <3>4
  <2> QED
    BY <2>1, <2>2
<1>7. /\ Flagged \in FraudRow /\ Flagged.flagged /\ Flagged.from = fraud.from
      /\ Blocked \in FraudRow /\ Blocked.flagged /\ Blocked.from = now
      /\ Flagged.until = fraud.until /\ fraud.until <= Blocked.until
  <2>1. NextLevel \in 0..Len(Ladder) /\ Lasts \in Nat /\ fraud.until \in Nat
    BY <1>0, LadderSteps DEF PaceInv, FraudRow
  <2>2. LongerBlock(Lasts) \in Nat /\ fraud.until <= LongerBlock(Lasts)
    <3>1. PICK end \in Nat : end = now + Lasts
      BY <1>0, <2>1
    <3> QED
      BY <2>1, <3>1, LargerOfTwo DEF LongerBlock
  <2>3. CountersFrom = now
    BY DEF CountersFrom
  <2>4. Flagged \in FraudRow /\ Flagged.flagged /\ Flagged.from = fraud.from /\ Flagged.until = fraud.until
    BY <1>0 DEF Flagged, FraudRow
  <2>5. Blocked \in FraudRow /\ Blocked.flagged /\ Blocked.from = now /\ Blocked.until = LongerBlock(Lasts)
    <3>1. Blocked = [fraud EXCEPT !.flagged = TRUE, !.until = LongerBlock(Lasts), !.level = NextLevel,
                                  !.offence = now, !.from = now]
      BY <2>3 DEF Blocked
    <3>2. PICK until, level, row :
            /\ until = LongerBlock(Lasts) /\ level = NextLevel /\ row = Blocked
            /\ until \in Nat /\ level \in 0..Len(Ladder)
      BY <2>1, <2>2
    <3>3. row = [fraud EXCEPT !.flagged = TRUE, !.until = until, !.level = level, !.offence = now, !.from = now]
      BY <3>1, <3>2
    <3>4. now \in Nat /\ fraud \in FraudRow
      BY <1>0
    <3>5. row \in FraudRow /\ row.flagged /\ row.from = now /\ row.until = until
      BY ONLY <3>2, <3>3, <3>4 DEF FraudRow
    <3> QED
      BY <3>2, <3>5
  <2> QED
    BY <2>2, <2>4, <2>5
<1>8. /\ fraud' \in FraudRow /\ fraud'.from \in Nat
      /\ fraud.from <= fraud'.from /\ fraud'.from < now' /\ (fraud.flagged => fraud'.flagged)
  <2>1. fraud.from < now
    BY DEF PaceInv, Arrivals
  <2> QED
    BY <1>0, <1>6, <1>7, <2>1
<1>9. PaceTypes'
  <2>1. violation' \in Seq(ViolationRow)
    BY <1>2
  <2>2. blocks' \in Seq(SUBSET Nat)
    <3>1. Within(seq, BlockWindow) \in SUBSET Nat
      BY <1>5 DEF Within, Recent
    <3>2. Append(blocks, Within(seq, BlockWindow)) \in Seq(SUBSET Nat)
      BY <1>0, <3>1, AppendProperties
    <3> QED
      BY <1>0, <1>6, <3>2
  <2> QED
    BY <1>0, <1>8, <2>1, <2>2 DEF PaceTypes
<1>10. Arrivals'
  <2>1. \A i \in DOMAIN seq : seq[i].at <= seq[i].seen /\ seq[i].seen < now'
    BY <1>0, <1>5
  <2>2. \A i, j \in DOMAIN seq : seq[i].seen = seq[j].seen => i = j
    <3> SUFFICES ASSUME NEW i \in DOMAIN seq, NEW j \in DOMAIN seq, seq[i].seen = seq[j].seen PROVE i = j
      OBVIOUS
    <3>1. CASE i \in DOMAIN violation /\ j \in DOMAIN violation
      BY <1>4, <3>1 DEF PaceInv, Arrivals
    <3>2. CASE i = n /\ j \in DOMAIN violation
      BY <1>0, <1>1, <1>3, <1>4, <3>2
    <3>3. CASE i \in DOMAIN violation /\ j = n
      BY <1>0, <1>1, <1>3, <1>4, <3>3
    <3> QED
      BY <1>4, <3>1, <3>2, <3>3
  <2> QED
    BY <1>2, <1>8, <2>1, <2>2 DEF Arrivals
<1>11. Separate'
  <2>1. \A b \in DOMAIN blocks : \A i \in blocks[b] :
            i \in DOMAIN violation /\ violation[i].seen <= fraud.from
    BY DEF PaceInv, Separate, BlockAnswers
  <2>2. \A b, c \in DOMAIN blocks : b < c =>
            \A k \in blocks[b], i \in blocks[c] : seq[k].seen <= seq[i].at
    BY <1>4, <2>1 DEF PaceInv, Separate
  <2>3. CASE UNCHANGED blocks
    <3>1. \A b \in DOMAIN blocks : \A i \in blocks[b] : i \in DOMAIN seq /\ seq[i].seen <= fraud'.from
      BY <1>0, <1>3, <1>4, <1>8, <2>1
    <3> QED
      BY <1>2, <2>2, <2>3, <3>1 DEF Separate, BlockAnswers
  <2>4. CASE fraud' = Blocked /\ blocks' = Append(blocks, Within(seq, BlockWindow)) /\ Recent(seq) # {}
    <3>1. PICK W \in SUBSET Nat : W = Within(seq, BlockWindow)
      BY <1>5 DEF Within, Recent
    <3>2. \A i \in W : i \in DOMAIN seq /\ fraud.from <= seq[i].at
      <4>1. NewestAt(seq) \in Nat /\ BlockWindow \in Nat
        BY <1>0, <1>5, <2>4, NewestIs, ThresholdsAssumption
      <4>2. PICK begin \in Nat : begin = CountersStart(NewestAt(seq), BlockWindow) /\ fraud.from <= begin
        BY <1>0, <4>1, StartIs
      <4>3. \A i \in W : i \in DOMAIN seq /\ begin <= seq[i].at
        BY <3>1, <4>2 DEF Within, Recent
      <4>4. \A i \in W : seq[i].at \in Nat /\ fraud.from \in Nat
        BY <1>0, <1>5, <4>3
      <4> QED
        BY <4>2, <4>3, <4>4
    <3>3. PICK m \in Nat : m = Len(blocks)
      BY <1>0
    <3>4. /\ DOMAIN blocks' = 1..(m + 1) /\ DOMAIN blocks = 1..m
          /\ blocks'[m + 1] = W /\ \A b \in 1..m : blocks'[b] = blocks[b]
      BY <1>0, <2>4, <3>1, <3>3
    <3>5. \A b \in DOMAIN blocks' : \A i \in blocks'[b] : i \in DOMAIN seq /\ seq[i].seen <= fraud'.from
      <4>1. fraud'.from = now
        BY <1>7, <2>4
      <4>2. \A b \in 1..m : \A i \in blocks[b] : i \in DOMAIN seq /\ seq[i].seen <= now
        BY <1>4, <1>5, <2>1, <3>4
      <4>3. \A i \in W : i \in DOMAIN seq /\ seq[i].seen <= now
        BY <1>5, <3>2
      <4> SUFFICES ASSUME NEW b \in 1..(m + 1)
                   PROVE  \A i \in blocks'[b] : i \in DOMAIN seq /\ seq[i].seen <= now
        BY <3>4, <4>1
      <4>4. CASE b \in 1..m
        BY <3>4, <4>2, <4>4
      <4>5. CASE b = m + 1
        BY <3>4, <4>3, <4>5
      <4> QED
        BY <3>3, <4>4, <4>5
    <3>6. ASSUME NEW b \in DOMAIN blocks', NEW c \in DOMAIN blocks', b < c,
                 NEW k \in blocks'[b], NEW i \in blocks'[c]
          PROVE  seq[k].seen <= seq[i].at
      <4>1. b \in 1..m
        BY <3>3, <3>4, <3>6
      <4>2. CASE c \in 1..m
        BY <2>2, <3>4, <3>6, <4>1, <4>2
      <4>3. CASE c = m + 1
        <5>1. seq[k].seen <= fraud.from /\ k \in DOMAIN seq /\ fraud.from <= seq[i].at /\ i \in DOMAIN seq
          BY <1>4, <2>1, <3>2, <3>4, <4>1, <4>3
        <5> QED
          BY <1>0, <1>5, <5>1
      <4> QED
        BY <3>3, <3>4, <4>2, <4>3
    <3> QED
      BY <1>2, <3>5, <3>6 DEF Separate, BlockAnswers
  <2> QED
    BY <1>6, <2>3, <2>4
<1>12. Found'
  <2> SUFFICES ASSUME NEW j \in DOMAIN violation', Latest(j)', violation'[j].enforced, InTime(j)',
                      Cardinality(Burst(j)') >= FlagAt
               PROVE  fraud'.flagged
    BY DEF Found
  <2>1. CASE j \in DOMAIN violation
    <3>1. \A i \in DOMAIN violation : violation'[i] = violation[i]
      BY <1>2, <1>4
    <3> QED
      BY <1>8, <2>1, <3>1, StillFound
  <2>2. CASE j = n
    <3>1. enforcing /\ seq[n].seen = now /\ seq[n].at <= now /\ n > 0
      BY <1>0, <1>1, <1>2, <1>3, <1>4, <2>2 DEF n
    <3>2. \A i \in 1..n : seq[i].at <= seq[n].at
      BY <1>2, <2>2 DEF Latest
    <3>3. seq[n].at + Lookback >= now + FlagWindow
      BY <1>2, <1>4, <2>2, <3>1 DEF InTime
    <3>4. seq[n].at \in Nat /\ FlagWindow \in Nat /\ FlagAt \in Nat
      BY <1>4, <1>5, <3>1, ThresholdsAssumption
    <3>5. PICK low \in Nat : low = IF seq[n].at > FlagWindow THEN seq[n].at - FlagWindow ELSE NoTime
      BY <3>4 DEF NoTime
    <3>6. PICK begin \in Nat : begin = Max({fraud'.from, low}) /\ fraud'.from <= begin /\ low <= begin
      BY <1>8, LargerOfTwo
    <3>7. PICK earlier \in Nat : earlier = Max({fraud.from, low}) /\ earlier \in {fraud.from, low}
      BY <1>0, LargerOfTwo
    <3>8. /\ CountersStart(seq[n].at, FlagWindow) = earlier /\ earlier <= begin
          /\ fraud.from <= begin /\ seq[n].at <= begin + FlagWindow
      <4>1. CountersStart(seq[n].at, FlagWindow) = earlier
        BY <3>5, <3>7 DEF CountersStart
      <4>2. seq[n].at <= low + FlagWindow
        BY <3>4, <3>5 DEF NoTime
      <4>3. fraud.from <= begin
        BY <1>0, <1>8, <3>6
      <4> QED
        BY <3>4, <3>6, <3>7, <4>1, <4>2, <4>3
    <3>9. PICK S \in SUBSET (1..n) : S = Burst(j)' /\ \A i \in S : seq[i].at >= begin
      <4>1. Burst(j)' = {i \in 1..n : seq[i].at >= begin}
        BY <1>2, <2>2, <3>5, <3>6 DEF Burst, CountersStart
      <4> QED
        BY <4>1
    <3>10. S \subseteq Within(seq, FlagWindow) /\ Recent(seq) # {}
      <4>1. begin >= CountersStart(seq[n].at, FlagWindow)
        BY <3>7, <3>8
      <4>2. n = Len(seq) /\ n > 0 /\ now \in Nat /\ fraud.from \in Nat
        BY <1>0, <1>4, <3>1
      <4>3. \A i \in S : seq[i].at >= begin
        BY <3>9
      <4> QED
        BY <3>1, <3>2, <3>3, <3>8, <4>1, <4>2, <4>3, BurstIsSeen
    <3>11. IsFiniteSet(Within(seq, FlagWindow))
      <4>1. IsFiniteSet(1..n) /\ Within(seq, FlagWindow) \in SUBSET (1..n)
        BY <1>4, FS_Interval DEF Within, Recent
      <4> QED
        BY <4>1, FS_Subset
    <3>12. /\ Cardinality(S) <= Cardinality(Within(seq, FlagWindow)) /\ Cardinality(S) \in Nat
           /\ Cardinality(Within(seq, FlagWindow)) \in Nat
      BY <3>10, <3>11, FS_Subset, FS_CardinalityType
    <3>13. ~(Cardinality(Within(seq, FlagWindow)) < FlagAt)
      BY <3>4, <3>9, <3>12
    <3> QED
      BY <1>6, <1>7, <3>1, <3>10, <3>13
  <2> QED
    BY <1>2, <1>4, <2>1, <2>2
<1> QED
  BY <1>9, <1>10, <1>11, <1>12 DEF PaceInv
\* What a moderator writes.
LEMMA ModeratorKeepsFound ==
    ASSUME PaceInv, NEW row \in FraudRow, Moderated(row), fraud.from <= row.from, row.from <= now,
           \/ fraud.flagged => row.flagged
           \/ \A i \in DOMAIN violation : violation[i].at < row.from
    PROVE  PaceInv'
<1>1. /\ now \in Nat /\ now' = now + 1 /\ fraud' = row
      /\ UNCHANGED <<violation, blocks, enforcing, outing>>
  BY DEF Moderated, Passes, PaceInv, PaceTypes
<1>2. row.from \in Nat /\ enforcing \in BOOLEAN /\ outing \in [number: Nat, began: Nat]
  BY DEF FraudRow, PaceInv, PaceTypes
<1>3. fraud'.from < now'
  BY <1>1, <1>2
<1> QED
  BY <1>1, <1>2, <1>3, NothingArrives

\* Rows a moderator leaves: one field of the was one changes, or a reset.
LEMMA TrustRow ==
    ASSUME NEW was \in FraudRow, NEW b \in BOOLEAN
    PROVE  /\ [was EXCEPT !.trusted = b] \in FraudRow
           /\ [was EXCEPT !.trusted = b].from = was.from
           /\ [was EXCEPT !.trusted = b].until = was.until
           /\ was.flagged => [was EXCEPT !.trusted = b].flagged
BY DEF FraudRow

LEMMA UntilRow ==
    ASSUME NEW was \in FraudRow, NEW end \in Nat
    PROVE  /\ [was EXCEPT !.until = end] \in FraudRow
           /\ [was EXCEPT !.until = end].from = was.from
           /\ [was EXCEPT !.until = end].until = end
           /\ was.flagged => [was EXCEPT !.until = end].flagged
BY DEF FraudRow

LEMMA ResetRow ==
    ASSUME NEW was \in FraudRow, NEW t \in Nat
    PROVE  /\ [was EXCEPT !.flagged = FALSE, !.level = 0, !.offence = NoTime, !.from = t] \in FraudRow
           /\ [was EXCEPT !.flagged = FALSE, !.level = 0, !.offence = NoTime, !.from = t].from = t
           /\ [was EXCEPT !.flagged = FALSE, !.level = 0, !.offence = NoTime, !.from = t].until = was.until
<1>1. PICK levels : levels = 0..Len(Ladder) /\ 0 \in levels
  BY LadderAssumption
<1>2. was \in [flagged: BOOLEAN, trusted: BOOLEAN, until: Nat, level: levels, offence: Nat, from: Nat]
  BY <1>1 DEF FraudRow
<1>3. PICK row : row = [was EXCEPT !.flagged = FALSE, !.level = 0, !.offence = 0, !.from = t]
  OBVIOUS
<1>4. /\ row \in [flagged: BOOLEAN, trusted: BOOLEAN, until: Nat, level: levels, offence: Nat, from: Nat]
      /\ row.from = t /\ row.until = was.until
  BY <1>1, <1>2, <1>3
<1> QED
  BY <1>1, <1>3, <1>4 DEF FraudRow, NoTime

LEMMA PaceStep == PaceInv /\ [PaceNext]_paceVars => PaceInv'
<1> SUFFICES ASSUME PaceInv, [PaceNext]_paceVars PROVE PaceInv'
  OBVIOUS
<1>0. /\ now \in Nat \ {0} /\ enforcing \in BOOLEAN /\ outing \in [number: Nat, began: Nat]
      /\ fraud \in FraudRow /\ fraud.from \in Nat /\ fraud.from < now /\ fraud.until \in Nat
      /\ \A i \in DOMAIN violation : violation[i].at \in Nat /\ violation[i].seen \in Nat
                                    /\ violation[i].at <= violation[i].seen /\ violation[i].seen < now
  BY ViolationRows DEF PaceInv, PaceTypes, Arrivals, FraudRow
<1>1. ASSUME NextWalk PROVE PaceInv'
  <2>1. /\ now' = now + 1 /\ outing' = [number |-> outing.number + 1, began |-> now]
        /\ UNCHANGED <<enforcing, violation, fraud, blocks>>
    BY <1>1 DEF NextWalk, Passes
  <2>2. outing' \in [number: Nat, began: Nat]
    BY <1>0, <2>1
  <2>3. fraud'.from < now' /\ fraud.from <= fraud'.from
    BY <1>0, <2>1
  <2> QED
    BY <1>0, <2>1, <2>2, <2>3, NothingArrives
<1>2. ASSUME SwitchMode PROVE PaceInv'
  <2>1. enforcing' \in BOOLEAN /\ UNCHANGED <<now, outing, violation, fraud, blocks>>
    BY <1>2 DEF SwitchMode
  <2> QED
    BY <1>0, <2>1, NothingArrives
<1>3. ASSUME NEW at \in outing.began..now, MarkTooFast(at) PROVE PaceInv'
  BY <1>3, MarkKeepsFound
<1>4. ASSUME ResetPaceFlag PROVE PaceInv'
  <2>1. PICK row : row = [fraud EXCEPT !.flagged = FALSE, !.level = 0, !.offence = NoTime, !.from = now]
    OBVIOUS
  <2>2. row \in FraudRow /\ row.from = now
    BY <1>0, <2>1, ResetRow
  <2>3. fraud.from <= row.from /\ row.from <= now /\ \A i \in DOMAIN violation : violation[i].at < row.from
    BY <1>0, <2>2
  <2>4. Moderated(row)
    BY <1>4, <2>1 DEF ResetPaceFlag
  <2> QED
    BY <2>2, <2>3, <2>4, ModeratorKeepsFound
<1>5. ASSUME LiftBlock PROVE PaceInv'
  <2>1. PICK row : row = [fraud EXCEPT !.until = NoTime]
    OBVIOUS
  <2>2. row \in FraudRow /\ row.from = fraud.from /\ (fraud.flagged => row.flagged)
    BY <1>0, <2>1, UntilRow DEF NoTime
  <2>3. fraud.from <= row.from /\ row.from <= now
    BY <1>0, <2>2
  <2>4. Moderated(row)
    BY <1>5, <2>1 DEF LiftBlock
  <2> QED
    BY <2>2, <2>3, <2>4, ModeratorKeepsFound
<1>6. ASSUME NEW hours \in HandBlocks, BlockManually(hours) PROVE PaceInv'
  <2>1. LongerBlock(hours) \in Nat
    <3>1. now + hours \in Nat
      BY <1>0, LadderAssumption
    <3> QED
      BY <1>0, <3>1, LargerOfTwo DEF LongerBlock
  <2>2. PICK row : row = [fraud EXCEPT !.until = LongerBlock(hours)]
    OBVIOUS
  <2>3. row \in FraudRow /\ row.from = fraud.from /\ (fraud.flagged => row.flagged)
    BY <1>0, <2>1, <2>2, UntilRow
  <2>4. fraud.from <= row.from /\ row.from <= now
    BY <1>0, <2>3
  <2>5. Moderated(row)
    BY <1>6, <2>2 DEF BlockManually
  <2> QED
    BY <2>3, <2>4, <2>5, ModeratorKeepsFound
<1>7. ASSUME NEW trusted \in BOOLEAN, Trust(trusted) PROVE PaceInv'
  <2>1. PICK row : row = [fraud EXCEPT !.trusted = trusted]
    OBVIOUS
  <2>2. row \in FraudRow /\ row.from = fraud.from /\ (fraud.flagged => row.flagged)
    BY <1>0, <2>1, TrustRow
  <2>3. fraud.from <= row.from /\ row.from <= now
    BY <1>0, <2>2
  <2>4. Moderated(row)
    BY <1>7, <2>1 DEF Trust
  <2> QED
    BY <2>2, <2>3, <2>4, ModeratorKeepsFound
<1>8. ASSUME UNCHANGED paceVars PROVE PaceInv'
  <2>1. UNCHANGED <<now, enforcing, outing, violation, fraud, blocks>>
    BY <1>8 DEF paceVars
  <2>2. fraud.from <= fraud'.from /\ fraud'.from < now'
    BY <1>0, <2>1
  <2> QED
    BY <1>0, <2>1, <2>2, NothingArrives
<1> QED
  BY <1>1, <1>2, <1>3, <1>4, <1>5, <1>6, <1>7, <1>8 DEF PaceNext

LEMMA PaceInvHolds == PaceSpec => []PaceInv
<1>1. PaceInit => PaceInv
  BY PaceBegins
<1>2. PaceInv /\ [PaceNext]_paceVars => PaceInv'
  BY PaceStep
<1> QED
  BY <1>1, <1>2, PTL DEF PaceSpec

\* Nothing in the state is later than the clock, and blocks answer violations
\* that there are.
PaceRows == [run: 1..Horizon, at: 1..Horizon, seen: 1..Horizon, enforced: BOOLEAN]
PaceFits ==
    /\ now \in 1..Horizon
    /\ outing.number \in 1..now /\ outing.began \in 1..now
    /\ violation \in Seq(PaceRows) /\ Len(violation) <= MaxViolations
    /\ fraud.offence <= now
    /\ blocks \in Seq(SUBSET (1..MaxViolations))

LEMMA MarkKeepsFitting ==
    ASSUME PaceInv, PaceFits, NEW at \in outing.began..now, MarkTooFast(at)
    PROVE  PaceFits'
<1>0. /\ now \in 1..Horizon /\ Horizon \in Nat /\ MaxViolations \in Nat
      /\ outing.number \in 1..now /\ outing.began \in 1..now /\ enforcing \in BOOLEAN
      /\ violation \in Seq(PaceRows) /\ Len(violation) <= MaxViolations
      /\ fraud \in FraudRow /\ fraud.offence <= now /\ fraud.offence \in Nat
      /\ blocks \in Seq(SUBSET (1..MaxViolations))
  BY HorizonAssumption DEF PaceInv, PaceTypes, PaceFits, FraudRow
<1>1. /\ now < Horizon /\ now' = now + 1 /\ UNCHANGED <<enforcing, outing>>
      /\ Len(violation) < MaxViolations
  BY DEF MarkTooFast, Passes
<1>2. PICK row : row = [run |-> outing.number, at |-> at, seen |-> now, enforced |-> enforcing]
  OBVIOUS
<1>3. row \in PaceRows
  <2>1. outing.number \in 1..Horizon /\ at \in 1..Horizon
    BY <1>0
  <2> QED
    BY <1>0, <1>2, <2>1 DEF PaceRows
<1>4. PICK seq : seq = Append(violation, row)
  OBVIOUS
<1>5. seq \in Seq(PaceRows) /\ Len(seq) = Len(violation) + 1 /\ violation' = seq
  BY <1>0, <1>2, <1>3, <1>4 DEF MarkTooFast
<1>6. Len(seq) <= MaxViolations /\ Len(seq) \in Nat
  BY <1>0, <1>1, <1>5
<1>7. fraud'.offence <= now' /\ blocks' \in Seq(SUBSET (1..MaxViolations))
  <2>1. CASE UNCHANGED <<fraud, blocks>>
    BY <1>0, <1>1, <2>1
  <2>2. CASE enforcing /\ Escalated(seq)
    <3>1. Within(seq, BlockWindow) \in SUBSET (1..MaxViolations)
      BY <1>0, <1>5, <1>6 DEF Within, Recent
    <3>2. Append(blocks, Within(seq, BlockWindow)) \in Seq(SUBSET (1..MaxViolations))
      <4> HIDE DEF Within
      <4> QED
        BY <1>0, <3>1
    <3>3. fraud' \in {Blocked, Flagged, fraud} /\ blocks' \in {blocks, Append(blocks, Within(seq, BlockWindow))}
      BY <2>2 DEF Escalated
    <3>4. Flagged.offence = fraud.offence /\ Blocked.offence = now
      BY <1>0 DEF Flagged, Blocked, FraudRow
    <3>5. fraud'.offence \in {fraud.offence, now}
      BY <3>3, <3>4
    <3>6. fraud'.offence <= now'
      BY <1>0, <1>1, <3>5
    <3>7. blocks' \in Seq(SUBSET (1..MaxViolations))
      <4> HIDE DEF Within
      <4> QED
        BY <1>0, <3>2, <3>3
    <3> QED
      BY <3>6, <3>7
  <2>3. UNCHANGED <<fraud, blocks>> \/ (enforcing /\ Escalated(seq))
    BY <1>0, <1>5 DEF MarkTooFast
  <2> QED
    BY <2>1, <2>2, <2>3
<1>8. now' \in 1..Horizon /\ outing'.number \in 1..now' /\ outing'.began \in 1..now'
  BY <1>0, <1>1
<1> QED
  BY <1>5, <1>6, <1>7, <1>8 DEF PaceFits

\* What a moderator writes is no later than the clock.
LEMMA ModeratorFits ==
    ASSUME PaceInv, PaceFits, NEW row \in FraudRow, Moderated(row), row.offence \in {0, fraud.offence}
    PROVE  PaceFits'
<1>1. /\ now < Horizon /\ now' = now + 1 /\ fraud' = row /\ UNCHANGED <<violation, blocks, outing>>
  BY DEF Moderated, Passes
<1>2. now \in 1..Horizon /\ Horizon \in Nat /\ fraud.offence \in Nat /\ fraud.offence <= now
  BY HorizonAssumption DEF PaceInv, PaceTypes, PaceFits, FraudRow
<1>3. fraud'.offence <= now'
  BY <1>1, <1>2
<1> QED
  BY <1>1, <1>2, <1>3 DEF PaceFits

LEMMA PaceKeepsFitting == PaceInv /\ PaceFits /\ [PaceNext]_paceVars => PaceFits'
<1> SUFFICES ASSUME PaceInv, PaceFits, [PaceNext]_paceVars PROVE PaceFits'
  OBVIOUS
<1>0. /\ now \in 1..Horizon /\ Horizon \in Nat /\ fraud \in FraudRow
      /\ outing \in [number: Nat, began: Nat] /\ outing.number \in 1..now
      /\ fraud.offence \in Nat /\ fraud.offence <= now /\ fraud.until \in Nat
  BY HorizonAssumption DEF PaceInv, PaceTypes, PaceFits, FraudRow
<1>1. CASE NextWalk
  <2>1. /\ now < Horizon /\ now' = now + 1 /\ outing' = [number |-> outing.number + 1, began |-> now]
        /\ UNCHANGED <<violation, fraud, blocks>>
    BY <1>1 DEF NextWalk, Passes
  <2>2. now' \in 1..Horizon /\ outing'.number \in 1..now' /\ outing'.began \in 1..now'
    BY <1>0, <2>1
  <2>3. fraud'.offence <= now'
    BY <1>0, <2>1
  <2> QED
    BY <2>1, <2>2, <2>3 DEF PaceFits
<1>2. ASSUME NEW at \in outing.began..now, MarkTooFast(at) PROVE PaceFits'
  BY <1>2, MarkKeepsFitting
<1>3. CASE ResetPaceFlag
  <2>1. PICK row : row = [fraud EXCEPT !.flagged = FALSE, !.level = 0, !.offence = NoTime, !.from = now]
    OBVIOUS
  <2>2. row \in FraudRow /\ row.offence = 0
    <3>0. now \in Nat
      BY <1>0
    <3>1. row \in FraudRow
      BY <1>0, <2>1, <3>0, ResetRow
    <3> QED
      BY <1>0, <2>1, <3>1 DEF NoTime, FraudRow
  <2> QED
    BY <1>3, <2>1, <2>2, ModeratorFits DEF ResetPaceFlag
<1>4. ASSUME NEW end \in Nat, Moderated([fraud EXCEPT !.until = end]) PROVE PaceFits'
  <2>1. PICK row : row = [fraud EXCEPT !.until = end]
    OBVIOUS
  <2>2. row \in FraudRow /\ row.offence = fraud.offence
    BY <1>0, <2>1, UntilRow DEF FraudRow
  <2> QED
    BY <1>4, <2>1, <2>2, ModeratorFits
<1>5. CASE LiftBlock
  BY <1>4, <1>5 DEF LiftBlock, NoTime
<1>6. ASSUME NEW hours \in HandBlocks, BlockManually(hours) PROVE PaceFits'
  <2>1. now + hours \in Nat
    BY <1>0, LadderAssumption
  <2>2. LongerBlock(hours) \in Nat
    BY <1>0, <2>1, LargerOfTwo DEF LongerBlock
  <2> QED
    BY <1>4, <1>6, <2>2 DEF BlockManually
<1>7. ASSUME NEW trusted \in BOOLEAN, Trust(trusted) PROVE PaceFits'
  <2>1. PICK row : row = [fraud EXCEPT !.trusted = trusted]
    OBVIOUS
  <2>2. row \in FraudRow /\ row.offence = fraud.offence
    BY <1>0, <2>1, TrustRow DEF FraudRow
  <2> QED
    BY <1>7, <2>1, <2>2, ModeratorFits DEF Trust
<1>8. CASE UNCHANGED <<now, outing, violation, fraud, blocks>>
  BY <1>8 DEF PaceFits
<1> QED
  BY <1>1, <1>2, <1>3, <1>5, <1>6, <1>7, <1>8 DEF PaceNext, SwitchMode, paceVars

\* The types of PaceEscalation.
LEMMA PaceTypesHold == PaceSpec => []PaceTypeOK
<1>1. PaceInit => PaceFits
  <2> SUFFICES ASSUME PaceInit PROVE PaceFits
    OBVIOUS
  <2>1. now = 1 /\ violation = <<>> /\ blocks = <<>> /\ outing = [number |-> 1, began |-> 1] /\ fraud.offence = 0
    BY DEF PaceInit, Innocent, NoTime
  <2> QED
    BY <2>1, HorizonAssumption DEF PaceFits
<1>2. PaceInv /\ PaceFits => PaceTypeOK
  <2> SUFFICES ASSUME PaceInv, PaceFits PROVE PaceTypeOK
    OBVIOUS
  <2>1. /\ now \in 1..Horizon /\ Horizon \in Nat /\ outing \in [number: Nat, began: Nat]
        /\ outing.number \in 1..now /\ outing.began \in 1..now /\ fraud \in FraudRow
        /\ fraud.offence <= now /\ fraud.from < now
    BY HorizonAssumption DEF PaceInv, PaceTypes, Arrivals, PaceFits
  <2>2. outing.number \in 1..Horizon /\ outing.began \in 1..Horizon
    BY <2>1
  <2>3. outing \in [number: 1..Horizon, began: 1..Horizon]
    BY <2>1, <2>2
  <2>4. PICK levels, until : levels = 0..Len(Ladder) /\ until = fraud.until
    OBVIOUS
  <2>5. fraud.offence \in Nat /\ fraud.from \in Nat
    BY <2>1 DEF FraudRow
  <2>6. fraud.offence \in 0..Horizon /\ fraud.from \in 0..Horizon
    BY <2>1, <2>5
  <2>7. fraud \in [flagged: BOOLEAN, trusted: BOOLEAN, until: Nat, level: levels,
                   offence: 0..Horizon, from: 0..Horizon]
    BY <2>1, <2>4, <2>6 DEF FraudRow
  <2> QED
    BY <2>1, <2>3, <2>4, <2>7 DEF PaceInv, PaceTypes, PaceFits, PaceRows, PaceTypeOK
<1> QED
  BY <1>1, <1>2, PaceInvHolds, PaceKeepsFitting, PTL DEF PaceSpec

\* Two blocks have one violation in common, at the most: what both answer was
\* made after all of what the earlier one answers had arrived, and only the one
\* that is told at the very time it is made is.
LEMMA ApartMeansOne ==
    ASSUME PaceInv, NEW b \in DOMAIN blocks, NEW c \in DOMAIN blocks, b < c,
           NEW k \in blocks[b] \intersect blocks[c], NEW i \in blocks[b] \intersect blocks[c]
    PROVE  k = i
<1>1. k \in DOMAIN violation /\ i \in DOMAIN violation
  BY DEF PaceInv, Separate, BlockAnswers
<1>2. violation[k].seen <= violation[i].at /\ violation[i].seen <= violation[k].at
  BY DEF PaceInv, Separate
<1>3. violation[k].at <= violation[k].seen /\ violation[i].at <= violation[i].seen
  BY <1>1 DEF PaceInv, Arrivals
<1>4. /\ violation[k].at \in Nat /\ violation[i].at \in Nat
      /\ violation[k].seen \in Nat /\ violation[i].seen \in Nat
  BY <1>1, ViolationRows DEF PaceInv
<1>5. violation[k].seen = violation[i].seen
  BY <1>2, <1>3, <1>4
<1> QED
  BY <1>1, <1>5 DEF PaceInv, Arrivals

\* A violation is punished once, and a burst that is told in order and in time
\* is flagged, however late.
THEOREM ViolationsArePunishedOnceAndInTime == PaceSpec => []PunishedOnceAndInTime
<1>1. PaceInv => BlocksShareAtMostOne
  <2> SUFFICES ASSUME PaceInv, NEW b \in DOMAIN blocks, NEW c \in DOMAIN blocks, b # c
               PROVE  Cardinality(blocks[b] \intersect blocks[c]) <= 1
    BY DEF BlocksShareAtMostOne
  <2>1. b \in Nat /\ c \in Nat
    BY DEF PaceInv, PaceTypes
  <2>2. ASSUME NEW k \in blocks[b] \intersect blocks[c], NEW i \in blocks[b] \intersect blocks[c]
        PROVE  k = i
    <3>1. CASE b < c
      BY <3>1, ApartMeansOne
    <3>2. CASE c < b
      <4>1. k \in blocks[c] \intersect blocks[b] /\ i \in blocks[c] \intersect blocks[b]
        OBVIOUS
      <4> QED
        BY <3>2, <4>1, ApartMeansOne
    <3> QED
      BY <2>1, <3>1, <3>2
  <2>3. CASE blocks[b] \intersect blocks[c] = {}
    BY <2>3, FS_EmptySet
  <2>4. CASE blocks[b] \intersect blocks[c] # {}
    <3>1. PICK k : k \in blocks[b] \intersect blocks[c]
      BY <2>4
    <3>2. blocks[b] \intersect blocks[c] = {k}
      BY <2>2, <3>1
    <3>3. Cardinality({k}) = 1
      BY FS_Singleton
    <3> QED
      BY <3>2, <3>3
  <2> QED
    BY <2>3, <2>4
<1>2. PaceInv => LateBurstIsFlagged
  <2> SUFFICES ASSUME PaceInv, \A i, j \in DOMAIN violation : i < j => violation[i].at <= violation[j].at,
                      NEW j \in DOMAIN violation, violation[j].enforced, InTime(j),
                      Cardinality(Burst(j)) >= FlagAt
               PROVE  fraud.flagged
    BY DEF LateBurstIsFlagged
  <2>1. Latest(j)
    <3>1. \A i \in 1..j : i \in DOMAIN violation /\ violation[i].at \in Nat /\ i \in Nat /\ (i < j \/ i = j)
      BY ViolationRows DEF PaceInv
    <3> QED
      BY <3>1 DEF Latest
  <2> QED
    BY <2>1 DEF PaceInv, Found
<1>3. PaceInv => PunishedOnceAndInTime
  BY <1>1, <1>2 DEF PunishedOnceAndInTime
<1> QED
  BY <1>3, PaceInvHolds, PTL

\* Nothing but a moderator's lift cuts a block short.
THEOREM BlocksAreNotCutShort == PaceSpec => OnlyLiftedShortens
<1>1. PaceInv /\ [PaceNext]_paceVars
      => [fraud'.until < fraud.until => fraud'.until = NoTime /\ fraud' = [fraud EXCEPT !.until = NoTime]]_paceVars
  <2> SUFFICES ASSUME PaceInv, PaceNext, fraud'.until < fraud.until
               PROVE  fraud'.until = NoTime /\ fraud' = [fraud EXCEPT !.until = NoTime]
    OBVIOUS
  <2>0. now \in Nat /\ fraud \in FraudRow /\ fraud.until \in Nat
    BY DEF PaceInv, PaceTypes, FraudRow
  <2>1. CASE UNCHANGED fraud
    BY <2>0, <2>1
  <2>2. ASSUME NEW at \in outing.began..now, MarkTooFast(at) PROVE FALSE
    <3>1. UNCHANGED fraud \/ fraud' = Flagged \/ fraud' = Blocked
      BY <2>2 DEF MarkTooFast, Escalated
    <3>2. NextLevel \in 0..Len(Ladder) /\ Lasts \in Nat
      BY LadderSteps DEF PaceInv
    <3>3. PICK end \in Nat : end = LongerBlock(Lasts) /\ fraud.until <= end
      <4>1. PICK a \in Nat : a = now + Lasts
        BY <2>0, <3>2
      <4> QED
        BY <2>0, <4>1, LargerOfTwo DEF LongerBlock
    <3>4. Flagged.until = fraud.until /\ Blocked.until = end
      BY <2>0, <3>3 DEF Flagged, Blocked, FraudRow
    <3> QED
      BY <2>0, <3>1, <3>3, <3>4
  <2>3. ASSUME ResetPaceFlag PROVE FALSE
    <3>1. fraud' = [fraud EXCEPT !.flagged = FALSE, !.level = 0, !.offence = NoTime, !.from = now]
      BY <2>3 DEF ResetPaceFlag, Moderated
    <3>2. fraud'.until = fraud.until
      BY <2>0, <3>1, ResetRow
    <3> QED
      BY <2>0, <3>2
  <2>4. ASSUME LiftBlock PROVE fraud'.until = NoTime /\ fraud' = [fraud EXCEPT !.until = NoTime]
    BY <2>0, <2>4, UntilRow DEF LiftBlock, Moderated, NoTime
  <2>5. ASSUME NEW hours \in HandBlocks, BlockManually(hours) PROVE FALSE
    <3>1. PICK end \in Nat : end = LongerBlock(hours) /\ fraud.until <= end
      <4>1. PICK a \in Nat : a = now + hours
        BY <2>0, LadderAssumption
      <4> QED
        BY <2>0, <4>1, LargerOfTwo DEF LongerBlock
    <3>2. fraud' = [fraud EXCEPT !.until = end]
      BY <2>5, <3>1 DEF BlockManually, Moderated
    <3>3. fraud'.until = end
      BY <2>0, <3>2, UntilRow
    <3> QED
      BY <2>0, <3>1, <3>3
  <2>6. ASSUME NEW trusted \in BOOLEAN, Trust(trusted) PROVE FALSE
    <3>1. fraud' = [fraud EXCEPT !.trusted = trusted]
      BY <2>6 DEF Trust, Moderated
    <3>2. fraud'.until = fraud.until
      BY <2>0, <3>1, TrustRow
    <3> QED
      BY <2>0, <3>2
  <2>7. ASSUME NextWalk \/ SwitchMode PROVE UNCHANGED fraud
    BY <2>7 DEF NextWalk, SwitchMode
  <2> QED
    BY <2>1, <2>2, <2>3, <2>4, <2>5, <2>6, <2>7 DEF PaceNext
<1> QED
  BY <1>1, PaceInvHolds, PTL DEF PaceSpec, OnlyLiftedShortens

-----------------------------------------------------------------------------
(* MCAccounts.  Whichever part moves, the others rest, so that each keeps   *)
(* its own specification all along, and what is proved of the part alone    *)
(* holds in the run of them all.                                            *)

Parts == {"snapshots", "issue", "delivery", "pace", "history", "replays", "index",
          "sessions", "awards", "encoder", "editions"}

\* A step of the run is a step, or none, of every part.
LEMMA PartsStep ==
    [Next]_vars =>
        /\ part' = part
        /\ [SnapNext]_snapVars /\ [IssueNext]_issueVars /\ [DeliveryNext]_deliveryVars
        /\ [PaceNext]_paceVars /\ [TimelineNext]_timelineVars /\ [IndexNext]_indexVars
        /\ [SessionNext]_sessionVars /\ [AwardsNext]_awardVars
        /\ [EncoderNext]_encoderVars /\ [EditionsNext]_editionVars
<1> SUFFICES ASSUME [Next]_vars
             PROVE  /\ part' = part
                    /\ [SnapNext]_snapVars /\ [IssueNext]_issueVars /\ [DeliveryNext]_deliveryVars
                    /\ [PaceNext]_paceVars /\ [TimelineNext]_timelineVars /\ [IndexNext]_indexVars
                    /\ [SessionNext]_sessionVars /\ [AwardsNext]_awardVars
                    /\ [EncoderNext]_encoderVars /\ [EditionsNext]_editionVars
  OBVIOUS
<1>1. CASE ServiceNext /\ NotHelp /\ UNCHANGED part
  BY <1>1 DEF ServiceNext, NotHelp, NotSnap, NotIssue, NotDelivery, NotPace, NotFirst, NotLast, TimelineNext
<1>2. CASE HelpNext /\ NotFirst /\ NotLast /\ UNCHANGED part
  BY <1>2 DEF HelpNext, NotSnap, NotFirst, NotLast
<1>3. CASE UNCHANGED vars
  BY <1>3 DEF vars
<1> QED
  BY <1>1, <1>2, <1>3 DEF Next

\* So each part keeps its specification; of those that ask for fairness, all
\* but that, which is only asked of the part that moves.
THEOREM PartsKeepTheirSpecs ==
    Spec => /\ SnapSpec /\ IssueSpec /\ PaceSpec /\ TimelineSpec /\ IndexSpec /\ SessionSpec /\ EditionsSpec
            /\ DeliveryInit /\ [][DeliveryNext]_deliveryVars
            /\ AwardsInit /\ [][AwardsNext]_awardVars
            /\ EncoderInit /\ [][EncoderNext]_encoderVars
<1>1. Init => /\ SnapInit /\ IssueInit /\ DeliveryInit /\ PaceInit /\ TimelineInit
              /\ IndexInit /\ SessionInit /\ AwardsInit /\ EncoderInit /\ EditionsInit
  BY DEF Init
<1> QED
  BY <1>1, PartsStep, PTL
     DEF Spec, SnapSpec, IssueSpec, PaceSpec, TimelineSpec, IndexSpec, SessionSpec, EditionsSpec

\* Whatever happens around one user's account and runs, what is kept has the
\* form the code gives it: for any requests, workers, stops, chunks, tokens,
\* badges, questions and revisions, and any bounds.
THEOREM AccountsTypesHold == Spec => []AccountsTypeOK
<1>1. Spec => [](part \in Parts)
  <2>1. Init => part \in Parts
    BY DEF Init, Parts
  <2>2. part \in Parts /\ [Next]_vars => (part \in Parts)'
    BY PartsStep
  <2> QED
    BY <2>1, <2>2, PTL DEF Spec
<1>2. /\ part \in Parts
      /\ SnapTypeOK /\ IssueTypeOK /\ DeliveryTypeOK /\ PaceTypeOK /\ TimelineTypeOK
      /\ IndexTypeOK /\ SessionTypeOK /\ AwardsTypeOK /\ EncoderTypeOK /\ EditionsTypeOK
      => AccountsTypeOK
  BY DEF Parts, AccountsTypeOK
<1> QED
  BY <1>1, <1>2, PartsKeepTheirSpecs, SnapTypesHold, IssueTypesHold, DeliveryTypesHold, PaceTypesHold,
     TimelineTypesHold, IndexTypesHold, SessionTypesHold, AwardsTypesHold, EncoderTypesHold,
     EditionTypesHold, PTL

\* And so what is proved of the parts holds in their run, under its own
\* specification: the invariants of accounts.cfg, ...
THEOREM AccountsStaySafe ==
    Spec => [](/\ SnapshotsServeStarts /\ PunishedOnceAndInTime
               /\ HistoryIsSound /\ ChangesAtMostOnce /\ GoodNightCoversAll /\ ToldOnce)
<1>1. /\ SnapInv => SnapshotsServeStarts
      /\ AwardsInv => ToldOnce
  BY DEF SnapInv, AwardsInv
<1>2. AwardsInit /\ [][AwardsNext]_awardVars => []AwardsInv
  BY AwardsBegin, AwardsStep, PTL
<1> QED
  BY <1>1, <1>2, PartsKeepTheirSpecs, SnapInvHolds, ViolationsArePunishedOnceAndInTime,
     HistoryStaysSound, EventsCountOnce, GoodNightsCoverAll, PTL

\* ... and what no step of theirs does.
THEOREM AccountsStepSafely ==
    Spec => /\ OneMessageEach /\ OneCodeAtATime /\ OverForGood /\ OnlyLiftedShortens /\ EndedIsFrozen
            /\ FamiliesEndForGood /\ SlotGoesRound /\ ShownAgainOnlyWhenReread
BY PartsKeepTheirSpecs, StepsOfOutbox, StepsAtDesk, PhonesHaveOneCodeAtATime, CodesAreOverForGood, BlocksAreNotCutShort,
   TheEndIsFrozen, SessionsKeepPromise, NothingReappears, PTL
=============================================================================
