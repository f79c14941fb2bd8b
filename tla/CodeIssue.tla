------------------------------ MODULE CodeIssue ------------------------------
(***************************************************************************)
(* One-time codes of one phone: asked for under a lock that runs out, kept *)
(* single, consumed when they are entered.                                 *)
(*                                                                         *)
(* A request takes the lock in redis, reads, and writes at its commit.  In *)
(* a sluggish behaviour it may outlast the 15 seconds of the lock.  Codes  *)
(* are numbered in the order of issue.                                     *)
(***************************************************************************)
EXTENDS Naturals, FiniteSetsExt

CONSTANTS
    Askers,        \* requests for a code, each made once
    MaxCodes       \* bound: codes issued

ASSUME MaxCodesAssumption == MaxCodes \in Nat

Codes == 1..MaxCodes

Nobody == "nobody"

ASSUME NobodyAssumption == Nobody \notin Askers

VARIABLES
    sluggish,
    issueLock,     \* the asker whose key auth:otp:issue is in redis, if any
    asker,         \* asker[a]: where the request is, and the code it found
    challenge      \* challenge[c]: auth_otp_challenges

issueVars == <<sluggish, issueLock, asker, challenge>>

IssueInit ==
    /\ sluggish \in BOOLEAN
    /\ issueLock = Nobody
    /\ asker = [a \in Askers |-> [at |-> "new", found |-> 0, over |-> {}]]
    /\ challenge = [c \in Codes |-> "none"]

LiveCodes == {c \in Codes : challenge[c] = "live"}
NewestLive == IF LiveCodes = {} THEN 0 ELSE Max(LiveCodes)
NewCode == Cardinality({c \in Codes : challenge[c] # "none"}) + 1

\* _acquire_otp_issue_lock: whoever comes second is answered and does nothing.
AnyoneIssues == TRUE  \* fault: no lock
LockIsFree == issueLock = Nobody

Ask(a) ==
    /\ asker[a].at = "new"
    /\ LockIsFree
    /\ issueLock' = a
    /\ asker' = [asker EXCEPT ![a].at = "locked"]
    /\ UNCHANGED <<sluggish, challenge>>

\* _upsert_auth_otp_challenge: the newest code that is still good ...
FindLive(a) ==
    /\ asker[a].at = "locked"
    /\ asker' = [asker EXCEPT ![a].at = "found", ![a].found = NewestLive]
    /\ UNCHANGED <<sluggish, issueLock, challenge>>

\* ... the UPDATE that ends all others sees what is committed by then.
CloseOthers(a) ==
    /\ asker[a].at = "found"
    /\ asker' = [asker EXCEPT ![a].at = "closed",
                             ![a].over = {c \in Codes \ {asker[a].found} :
                                            challenge[c] \in {"live", "expired"}}]
    /\ UNCHANGED <<sluggish, issueLock, challenge>>

AsItWas(c) == "live"  \* fault: the row is written as it was found
AsItIs(c) == challenge[c]

\* ... and the commit: the code it found stays, otherwise there is a new one with its delivery job.
Issue(a) ==
    /\ asker[a].at = "closed"
    /\ asker[a].found = 0 => NewCode <= MaxCodes
    /\ challenge' = [c \in Codes |->
         IF c \in asker[a].over THEN "consumed"
         ELSE IF asker[a].found = 0 /\ c = NewCode THEN "live"
         ELSE IF c = asker[a].found THEN AsItIs(c)
         ELSE challenge[c]]
    /\ asker' = [asker EXCEPT ![a].at = "issued"]
    /\ UNCHANGED <<sluggish, issueLock>>

\* The key is deleted whoever holds it by now.
Unlock(a) ==
    /\ asker[a].at = "issued"
    /\ asker' = [asker EXCEPT ![a].at = "done"]
    /\ issueLock' = Nobody
    /\ UNCHANGED <<sluggish, challenge>>

IssueLockRunsOut ==
    /\ sluggish
    /\ issueLock # Nobody
    /\ issueLock' = Nobody
    /\ UNCHANGED <<sluggish, asker, challenge>>

\* verify_otp takes the newest code that is still good.
Verify ==
    /\ LiveCodes # {}
    /\ challenge' = [challenge EXCEPT ![NewestLive] = "consumed"]
    /\ UNCHANGED <<sluggish, issueLock, asker>>

ExpireCode(c) ==
    /\ challenge[c] = "live"
    /\ challenge' = [challenge EXCEPT ![c] = "expired"]
    /\ UNCHANGED <<sluggish, issueLock, asker>>

IssueNext ==
    \/ \E a \in Askers : Ask(a) \/ FindLive(a) \/ CloseOthers(a) \/ Issue(a) \/ Unlock(a)
    \/ IssueLockRunsOut \/ Verify
    \/ \E c \in Codes : ExpireCode(c)

IssueSpec == IssueInit /\ [][IssueNext]_issueVars
----------------------------------------------------------------------------
(* What holds.                                                             *)

IssueTypeOK ==
    /\ sluggish \in BOOLEAN
    /\ issueLock \in Askers \union {Nobody}
    /\ asker \in [Askers -> [at: {"new", "locked", "found", "closed", "issued", "done"},
                           found: 0..MaxCodes, over: SUBSET Codes]]
    /\ challenge \in [Codes -> {"none", "live", "consumed", "expired"}]

\* Requests for codes, entering them and running out keep to what a phone is
\* promised (OneTimeCode): one good code at a time, given when there is none
\* ("Keep a single live OTP per phone", _upsert_auth_otp_challenge), as long
\* as no request outlasts its lock.
Phone == INSTANCE OneTimeCode WITH
    good <- IF sluggish THEN {} ELSE LiveCodes,
    latest <- IF sluggish THEN 0 ELSE NewCode - 1

OneCodeAtATime == Phone!Spec

\* Of that, what a state shows.
OneLiveCode == ~sluggish => Cardinality(LiveCodes) <= 1

\* A code that is over is never good again: a request that found it live
\* writes no more than that it is still the one.
OverForGood == [][\A c \in Codes : challenge[c] \notin {"none", "live"} => challenge'[c] # "live"]_issueVars
============================================================================
