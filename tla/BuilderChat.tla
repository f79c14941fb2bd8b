----------------------------- MODULE BuilderChat -----------------------------
(***************************************************************************)
(* One person's chats with the route builder: turns of a chat, the routes  *)
(* that are built, the quotas of both, and what becomes of a proposal.     *)
(*                                                                         *)
(* A turn reads its chat, waits for the users row, which it holds until a  *)
(* commit, talks to the model, counts and commits.  A turn that builds a   *)
(* route commits once more, and lets go of the row, before it has          *)
(* answered.  A request may be cut off at any point.                       *)
(*                                                                         *)
(* Data: a chat is its status and its number of messages; what is said and *)
(* asked for is left out.  A chat nobody has touched for a day is closed   *)
(* by the next visit, which is the owner's closing it.                     *)
(***************************************************************************)
EXTENDS Naturals, FiniteSetsExt

CONSTANTS
    Chats,         \* route_planning_sessions, each opened at most once
    Calls,         \* requests on their way at once
    MessageLimit,  \* ai_chat_message_limit
    MaxReplies,    \* max_daily_ai_replies
    DailyBuilds, WeeklyBuilds,  \* max_daily_generations, max_weekly_generations
    MaxNights,     \* bound: midnights
    MaxProposals   \* bound: proposals

ASSUME ChatLimitsAssumption ==
    /\ MessageLimit \in Nat \ {0} /\ MaxReplies \in Nat
    /\ DailyBuilds \in Nat /\ WeeklyBuilds \in Nat
    /\ MaxNights \in Nat /\ MaxProposals \in Nat

Proposals == 1..MaxProposals

VARIABLES
    building,    \* whether chats build routes
    chat,        \* chat[c]: status and committed messages
    tally,       \* of this day: replies and builds; of this week: builds
    nights,
    call,        \* call[t]: a request: where it is and what it goes by
    rowLock,     \* the call that holds the users row, if any
    proposal     \* proposal[p]: status, and the routes made of it

chatVars == <<building, chat, tally, nights, call, rowLock, proposal>>

NoCall == [at |-> "none", chat |-> "none", builds |-> FALSE, closes |-> FALSE, proposal |-> 0]
NotHeld == "not held"
ASSUME NotHeldAssumption == NotHeld \notin Calls

ChatInit ==
    /\ building \in BOOLEAN
    /\ chat = [c \in Chats |-> [status |-> "none", messages |-> 0]]
    /\ tally = [replies |-> 0, today |-> 0, week |-> 0]
    /\ nights = 0
    /\ call = [t \in Calls |-> NoCall]
    /\ rowLock = NotHeld
    /\ proposal = [p \in Proposals |-> [status |-> "none", routes |-> 0]]

Arrives(t, row) ==
    /\ call[t] = NoCall
    /\ call' = [call EXCEPT ![t] = row]

Gone(t) == call' = [call EXCEPT ![t] = NoCall]
LetGo(t) == rowLock' = IF rowLock = t THEN NotHeld ELSE rowLock

----------------------------------------------------------------------------
(* Chats and turns.                                                        *)

CreateSession(c) ==
    /\ chat[c].status = "none"
    /\ chat' = [chat EXCEPT ![c].status = "active"]
    /\ UNCHANGED <<building, tally, nights, call, rowLock, proposal>>

CloseSession(c) ==
    /\ chat[c].status = "active"
    /\ chat' = [chat EXCEPT ![c].status = "closed"]
    /\ UNCHANGED <<building, tally, nights, call, rowLock, proposal>>

\* post_message reads the chat and its length before it has the lock.
PostMessage(t, c, builds) ==
    /\ chat[c].status = "active"
    /\ chat[c].messages < MessageLimit
    /\ builds => building
    /\ Arrives(t, [NoCall EXCEPT !.at = "posted", !.chat = c, !.builds = builds])
    /\ UNCHANGED <<building, chat, tally, nights, rowLock, proposal>>

\* A full chat that is still open is closed, and the turn refused.
TurnAway(c) ==
    /\ chat[c].status = "active"
    /\ chat[c].messages >= MessageLimit
    /\ chat' = [chat EXCEPT ![c].status = "closed"]
    /\ UNCHANGED <<building, tally, nights, call, rowLock, proposal>>

NeverHeld(t) == TRUE  \* fault: the users row is not locked
RowFree(t) == rowLock = NotHeld

BuildQuotaLeft == tally.today < DailyBuilds /\ tally.week < WeeklyBuilds

\* require_ai_reply_quota, and require_generation_quota in the same transaction.
LockAndCheck(t) ==
    /\ call[t].at = "posted"
    /\ RowFree(t)
    /\ IF tally.replies < MaxReplies /\ (call[t].builds => BuildQuotaLeft)
       THEN /\ rowLock' = t
            /\ call' = [call EXCEPT ![t].at = IF call[t].builds THEN "building" ELSE "talking"]
       ELSE Gone(t) /\ UNCHANGED rowLock
    /\ UNCHANGED <<building, chat, tally, nights, proposal>>

NewProposal == {p \in Proposals : proposal[p].status = "none"
                                 /\ \A q \in 1..(p - 1) : proposal[q].status # "none"}

Built == [tally EXCEPT !.today = @ + 1, !.week = @ + 1]

\* generate_route for a chat commits the proposal, the event and the question.
BuildForChat(t) ==
    /\ call[t].at = "building"
    /\ \E p \in NewProposal : proposal' = [proposal EXCEPT ![p].status = "draft"]
    /\ tally' = Built
    /\ chat' = [chat EXCEPT ![call[t].chat].messages = @ + 1]
    /\ call' = [call EXCEPT ![t].at = "built"]
    /\ LetGo(t)
    /\ UNCHANGED <<building, nights>>

\* The question and its answer, or the answer alone.
OwnMessages(t) == IF call[t].builds THEN 1 ELSE 2

FillsChat(t) == chat[call[t].chat].messages + OwnMessages(t) >= MessageLimit

\* The messages are counted before the commit: others' only if they are committed.
CountMessages(t) ==
    /\ call[t].at \in {"talking", "built"}
    /\ call' = [call EXCEPT ![t].at = "counted", ![t].closes = FillsChat(t)]
    /\ UNCHANGED <<building, chat, tally, nights, rowLock, proposal>>

CommitTurn(t) ==
    LET c == call[t].chat
    IN /\ call[t].at = "counted"
       /\ chat' = [chat EXCEPT ![c] = [status |-> IF call[t].closes THEN "closed" ELSE @.status,
                                       messages |-> @.messages + OwnMessages(t)]]
       /\ tally' = [tally EXCEPT !.replies = @ + 1]
       /\ Gone(t)
       /\ LetGo(t)
       /\ UNCHANGED <<building, nights, proposal>>

----------------------------------------------------------------------------
(* Routes from the form, and proposals.                                    *)

GenerateFromForm(t) ==
    /\ RowFree(t) /\ BuildQuotaLeft
    /\ Arrives(t, [NoCall EXCEPT !.at = "form"])
    /\ rowLock' = t
    /\ UNCHANGED <<building, chat, tally, nights, proposal>>

\* The route is there at once, and its proposal accepted.
BuildFromForm(t) ==
    /\ call[t].at = "form"
    /\ \E p \in NewProposal : proposal' = [proposal EXCEPT ![p] = [status |-> "accepted", routes |-> 1]]
    /\ tally' = Built
    /\ Gone(t)
    /\ LetGo(t)
    /\ UNCHANGED <<building, chat, nights>>

Acceptable == {"draft", "rejected"}

AcceptProposal(t, p) ==
    /\ proposal[p].status \in Acceptable
    /\ Arrives(t, [NoCall EXCEPT !.at = "accepting", !.proposal = p])
    /\ UNCHANGED <<building, chat, tally, nights, rowLock, proposal>>

RejectProposal(t, p) ==
    /\ proposal[p].status = "draft"
    /\ Arrives(t, [NoCall EXCEPT !.at = "rejecting", !.proposal = p])
    /\ UNCHANGED <<building, chat, tally, nights, rowLock, proposal>>

\* No lock is held: each writes over what the other wrote.
CommitProposal(t) ==
    /\ \/ /\ call[t].at = "accepting"
          /\ proposal' = [proposal EXCEPT ![call[t].proposal] = [status |-> "accepted", routes |-> @.routes + 1]]
       \/ /\ call[t].at = "rejecting"
          /\ proposal' = [proposal EXCEPT ![call[t].proposal].status = "rejected"]
    /\ Gone(t)
    /\ UNCHANGED <<building, chat, tally, nights, rowLock>>

----------------------------------------------------------------------------
(* Around them.                                                            *)

\* The client has gone, or the process: what is not committed is lost.
CutOff(t) ==
    /\ call[t] # NoCall
    /\ Gone(t)
    /\ LetGo(t)
    /\ UNCHANGED <<building, chat, tally, nights, proposal>>

\* The quotas count from midnight, and from Monday's, by UTC.
Midnight(monday) ==
    /\ nights < MaxNights
    /\ nights' = nights + 1
    /\ tally' = [replies |-> 0, today |-> 0, week |-> IF monday THEN 0 ELSE tally.week]
    /\ UNCHANGED <<building, chat, call, rowLock, proposal>>

ChatNext ==
    \/ \E c \in Chats : CreateSession(c) \/ CloseSession(c) \/ TurnAway(c)
    \/ \E t \in Calls :
          \/ \E c \in Chats, builds \in BOOLEAN : PostMessage(t, c, builds)
          \/ LockAndCheck(t) \/ BuildForChat(t) \/ CountMessages(t) \/ CommitTurn(t)
          \/ GenerateFromForm(t) \/ BuildFromForm(t)
          \/ \E p \in Proposals : AcceptProposal(t, p) \/ RejectProposal(t, p)
          \/ CommitProposal(t) \/ CutOff(t)
    \/ \E monday \in BOOLEAN : Midnight(monday)

ChatSpec == ChatInit /\ [][ChatNext]_chatVars
----------------------------------------------------------------------------
(* What holds.                                                             *)

ChatTypeOK ==
    /\ building \in BOOLEAN
    /\ chat \in [Chats -> [status: {"none", "active", "closed"}, messages: Nat]]
    /\ tally \in [replies: Nat, today: Nat, week: Nat]
    /\ nights \in 0..MaxNights
    /\ call \in [Calls -> [at: {"none", "posted", "talking", "building", "built", "counted",
                                "form", "accepting", "rejecting"},
                           chat: Chats \union {"none"}, builds: BOOLEAN, closes: BOOLEAN,
                           proposal: 0..MaxProposals]]
    /\ rowLock \in Calls \union {NotHeld}
    /\ proposal \in [Proposals -> [status: {"none", "draft", "accepted", "rejected"}, routes: Nat]]

\* Turns of any chats and the form, at once, cut off, or over midnight, never
\* build more than the quotas ("so check-then-insert cannot overshoot",
\* user_quota_lock_stmt).
BuildsWithinQuota == tally.today <= DailyBuilds /\ tally.week <= WeeklyBuilds

\* As long as chats do not build, a turn keeps the lock until its reply is
\* committed, and replies keep to the quota across all of the chats
\* (require_ai_reply_quota).
RepliesWithinQuota == ~building => tally.replies <= MaxReplies

\* Both quotas together.
QuotasKept == BuildsWithinQuota /\ RepliesWithinQuota
=============================================================================
