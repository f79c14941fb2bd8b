--------------------------- MODULE RefreshSessions ---------------------------
(***************************************************************************)
(* The refresh tokens of one user: a sign-in opens a family with a token,  *)
(* each exchange replaces the token by a new one, a token that was already *)
(* replaced or a log-out closes the family.                                *)
(*                                                                         *)
(* A phone may send any token it ever had, also twice at once: an answer   *)
(* that is lost is asked for again.  An exchange locks the token's row     *)
(* before it reads it; closing a family is an UPDATE of the rows that are  *)
(* live when it begins, and it waits for those that are locked.            *)
(***************************************************************************)
EXTENDS Naturals, Sequences, FiniteSets

CONSTANTS
    Exchanges,      \* requests at once
    MaxTokens,      \* bound: tokens given out
    NoExchange

VARIABLES
    token,      \* rows of auth_refresh_sessions, in the order they were added
    exchange,   \* exchange[r]: what the request is at, or NoExchange
    service     \* the profile became a service one

sessionVars == <<token, exchange, service>>

SessionInit ==
    /\ token = <<>>
    /\ exchange = [r \in Exchanges |-> NoExchange]
    /\ service = FALSE

Tokens == DOMAIN token
LiveToken(i) == ~token[i].revoked
LiveOf(family) == {i \in Tokens : LiveToken(i) /\ token[i].family = family}
Busy(r) == exchange[r] # NoExchange
At(r, phase) == Busy(r) /\ exchange[r].phase = phase

----------------------------------------------------------------------------
\* _issue_tokens of a sign-in.
SignIn ==
    /\ Len(token) < MaxTokens
    /\ ~service
    /\ token' = Append(token, [family |-> Len(token) + 1, revoked |-> FALSE, expired |-> FALSE,
                               replacedBy |-> 0])
    /\ UNCHANGED <<exchange, service>>

TokenExpires(i) ==
    /\ LiveToken(i) /\ ~token[i].expired
    /\ token' = [token EXCEPT ![i].expired = TRUE]
    /\ UNCHANGED <<exchange, service>>

\* An operator makes the profile a service one.
BecomesService ==
    /\ ~service
    /\ service' = TRUE
    /\ UNCHANGED <<token, exchange>>

AnyToken(r, i) == TRUE  \* fault: the row is read without the lock
TokenIsFree(r, i) == \A other \in Exchanges \ {r} : Busy(other) => exchange[other].holds # i

\* refresh_session_lock_stmt.
LockToken(r, i) ==
    /\ ~Busy(r)
    /\ TokenIsFree(r, i)
    /\ exchange' = [exchange EXCEPT ![r] =
           [phase |-> "locked", holds |-> i, read |-> token[i], closing |-> {}]]
    /\ UNCHANGED <<token, service>>

Ends(r) == exchange' = [exchange EXCEPT ![r] = NoExchange]

\* A token that was revoked closes what is live of its family, a service
\* profile loses every session it has.
Revoke(r, rows) ==
    /\ exchange' = [exchange EXCEPT ![r].phase = "closing", ![r].closing = rows]
    /\ UNCHANGED <<token, service>>

ReuseDetected(r) ==
    /\ At(r, "locked") /\ exchange[r].read.revoked
    /\ Revoke(r, LiveOf(exchange[r].read.family))

RefuseExpired(r) ==
    /\ At(r, "locked") /\ ~exchange[r].read.revoked /\ exchange[r].read.expired
    /\ token' = [token EXCEPT ![exchange[r].holds].revoked = TRUE]
    /\ Ends(r)
    /\ UNCHANGED service

RefuseService(r) ==
    /\ At(r, "locked") /\ ~exchange[r].read.revoked /\ ~exchange[r].read.expired
    /\ service
    /\ Revoke(r, {i \in Tokens : LiveToken(i)})

\* The new row is flushed: nobody else sees it before the commit.
Rotate(r) ==
    /\ At(r, "locked") /\ ~exchange[r].read.revoked /\ ~exchange[r].read.expired
    /\ ~service
    /\ exchange' = [exchange EXCEPT ![r].phase = "rotated"]
    /\ UNCHANGED <<token, service>>

CommitRotation(r) ==
    LET spent == exchange[r].holds
    IN /\ At(r, "rotated")
       /\ Len(token) < MaxTokens
       /\ token' = Append([token EXCEPT ![spent].revoked = TRUE, ![spent].replacedBy = Len(token) + 1],
                          [family |-> token[spent].family, revoked |-> FALSE, expired |-> FALSE,
                           replacedBy |-> 0])
       /\ Ends(r)
       /\ UNCHANGED service

\* logout reads the row without a lock, and knows its family.
LogOut(r, i) ==
    /\ ~Busy(r)
    /\ exchange' = [exchange EXCEPT ![r] =
           [phase |-> "closing", holds |-> 0, read |-> token[i], closing |-> LiveOf(token[i].family)]]
    /\ UNCHANGED <<token, service>>

\* The UPDATE has got every row it found live, and is committed.
CommitClosing(r) ==
    /\ At(r, "closing")
    /\ \A i \in exchange[r].closing : TokenIsFree(r, i)
    /\ token' = [i \in Tokens |->
                    IF i \in exchange[r].closing THEN [token[i] EXCEPT !.revoked = TRUE] ELSE token[i]]
    /\ Ends(r)
    /\ UNCHANGED service

\* The connection is lost, the process dies, or the database ends a deadlock.
Breaks(r) == Busy(r) /\ Ends(r) /\ UNCHANGED <<token, service>>

SessionNext ==
    \/ SignIn \/ BecomesService
    \/ \E i \in Tokens : TokenExpires(i)
    \/ \E r \in Exchanges :
          \/ ReuseDetected(r) \/ RefuseExpired(r) \/ RefuseService(r)
          \/ Rotate(r) \/ CommitRotation(r) \/ CommitClosing(r) \/ Breaks(r)
          \/ \E i \in Tokens : LockToken(r, i) \/ LogOut(r, i)

SessionSpec == SessionInit /\ [][SessionNext]_sessionVars
----------------------------------------------------------------------------
(* What holds.                                                             *)

SessionTypeOK ==
    /\ token \in Seq([family: Nat \ {0}, revoked: BOOLEAN, expired: BOOLEAN, replacedBy: Nat])
    /\ \A r \in Exchanges :
          Busy(r) => /\ exchange[r].phase \in {"locked", "rotated", "closing"}
                     /\ exchange[r].holds \in Tokens \union {0}
                     /\ exchange[r].closing \subseteq Tokens
    /\ service \in BOOLEAN

\* A phone that asks again after a lost answer, or twice at once, never ends
\* up with two tokens that work: "concurrent refresh cannot issue two
\* replacements for the same digest" (refresh_session_lock_stmt).
OneLiveToken ==
    \A i, j \in Tokens :
        LiveToken(i) /\ LiveToken(j) /\ token[i].family = token[j].family => i = j

\* And more: a family that has no token left, for a log-out or a token sent
\* again closed it, or its last token ran out, gives out no token any more,
\* whatever its phones still send; the exchanges and log-outs keep to what
\* SessionFamilies promises.
Promised == INSTANCE SessionFamilies WITH
    given <- Len(token),
    works <- [f \in {token[i].family : i \in Tokens} |-> LiveOf(f)]

FamiliesEndForGood == Promised!Spec
=============================================================================
