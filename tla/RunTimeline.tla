---------------------------- MODULE RunTimeline ----------------------------
(***************************************************************************)
(* The times of one route run, and the offline queue of its walker's app.  *)
(*                                                                         *)
(* The app reports when something happened; the server clamps the time to  *)
(* the run's own timeline (resolve_event_time) and records the action in   *)
(* the ledger route_execution_events.  An action with a client event id    *)
(* may be delivered any number of times, also twice at once: the handler   *)
(* looks for a recorded event first, then locks the run's row, acts on it  *)
(* and inserts the event, which a unique constraint lets in only once.     *)
(*                                                                         *)
(* Whoever asks for the run under way reads its row without a lock, and a  *)
(* run found idle is closed from that copy, whatever its walker has done   *)
(* since.                                                                  *)
(*                                                                         *)
(* Data: instants are 0..LastInstant, the run starts at 0; Never is SQL    *)
(* NULL; of the ledger only pauses and resumes are kept, which is what     *)
(* the pace check reads.                                                   *)
(***************************************************************************)
EXTENDS Integers, Sequences, FiniteSetsExt

CONSTANTS
    Stops,       \* positions of the route's stops
    Optional,    \* the optional ones
    LastInstant, \* the last instant
    Skew,        \* CLOCK_SKEW_TOLERANCE
    Lag,         \* MAX_OFFLINE_LAG
    IdleAfter,   \* how long nobody touches an idle run
    CountedAt,   \* the setting af_counted_stops_percent
    MaxPauses,   \* bound: pauses of the run
    Ids,         \* client event ids
    Deliveries,  \* requests with an id that may be in flight at once
    Closers,     \* requests that may be closing an idle run at once
    Tell,        \* the actions the app may ask for
    Never, NoId

ASSUME StopsAssumption == Stops \subseteq Nat \ {0} /\ Optional \subseteq Stops
ASSUME TimesAssumption == {LastInstant, Skew, Lag, IdleAfter} \subseteq Nat /\ Never \notin Int
ASSUME IdsAssumption == NoId \notin Ids

VARIABLES
    clock,     \* the server's clock
    run,       \* the row of route_executions
    stop,      \* stop[s]: the row of route_execution_stops at position s
    ledger,    \* recorded pauses and resumes, in the order they were recorded
    recorded,  \* ids with a row in route_execution_events
    sent,      \* sent[i]: what the app asks for under id i
    flight,    \* flight[d]: the id delivery d is serving, past its replay check
    changes,   \* history: changes[i]: deliveries of i that changed the run
    closing,   \* closing[c]: the row that c found idle, and when it read it
    overtaken  \* history: a run was closed from a copy that it had moved on from

walk == <<run, stop, ledger>>
queue == <<sent, flight, changes>>
closeVars == <<closing, overtaken>>
timelineVars ==
    <<clock, run, stop, ledger, recorded, sent, flight, changes, closing, overtaken>>

Time == 0..LastInstant
Going == {"active", "paused"}
Reasons == {"none", "closed", "other", "not_reached"}
Actions == {"complete_stop", "uncomplete_stop", "skip_stop", "unskip_stop",
            "pause", "end_day", "resume", "complete", "cancel", "finish_early"}

\* One request: what, at which stop, and when by the walker's clock, which may
\* run ahead.
Requests ==
    {q \in [action: Tell, stop: Stops, reason: {"closed", "other"},
            at: 0..(LastInstant + Skew) \union {Never}] :
        q.action = "skip_stop" \/ q.reason = "other"}

Open == [marked |-> Never, skipped |-> Never, reason |-> "none"]

TimelineInit ==
    /\ clock = 0
    /\ run = [status |-> "active", early |-> FALSE, pausedAt |-> Never,
              paused |-> 0, endedAt |-> Never, touched |-> 0]
    /\ stop = [s \in Stops |-> Open]
    /\ ledger = <<>>
    /\ recorded = {}
    /\ sent = [i \in Ids |-> Never]
    /\ flight = [d \in Deliveries |-> NoId]
    /\ changes = [i \in Ids |-> 0]
    /\ closing = [c \in Closers |-> Never] /\ overtaken = FALSE

----------------------------------------------------------------------------
(* Times.                                                                  *)

Later(t, u) == IF t >= u THEN t ELSE u
Sooner(t, u) == IF t <= u THEN t ELSE u

\* A report from the future or from long ago is refused.
InWindow(at) == at # Never => at <= clock + Skew /\ at >= clock - Lag

\* resolve_event_time: what enters the run.
Resolved(at, notBefore) ==
    Later(IF at = Never THEN clock ELSE Sooner(at, clock), notBefore)

Marked == {s \in Stops : stop[s].marked # Never}

\* _latest_stop_completion, or the start when no stop is marked.
LatestMark == Max({stop[s].marked : s \in Marked} \union {0})

FromStart == 0  \* fault: clamped to the run's start only

PauseOrStart == IF run.pausedAt = Never THEN 0 ELSE run.pausedAt

----------------------------------------------------------------------------
(* What each handler does once it holds the row of the run, for a time t   *)
(* that its own floor has clamped.                                         *)

\* Fault: a queued mark is still taken after the run was completed.
CompleteStopLate(q) ==
    /\ run.status \in {"active", "completed"}
    /\ stop[q.stop].marked = Never
    /\ stop' = [stop EXCEPT ![q.stop] = [Open EXCEPT !.marked = Resolved(q.at, 0)]]
    /\ run' = [run EXCEPT !.touched = clock]
    /\ UNCHANGED ledger

\* A mark replaces a skip; marking a marked stop is recorded as not applied.
CompleteStop(q) ==
    /\ run.status = "active"
    /\ IF stop[q.stop].marked = Never
       THEN /\ stop' = [stop EXCEPT ![q.stop] =
                          [Open EXCEPT !.marked = Resolved(q.at, 0)]]
            /\ run' = [run EXCEPT !.touched = clock]
       ELSE UNCHANGED <<run, stop>>
    /\ UNCHANGED ledger

\* Only the latest mark can be taken back.
UncompleteStop(q) ==
    /\ run.status \in Going
    /\ stop[q.stop].marked # Never
    /\ stop[q.stop].marked >= LatestMark
    /\ stop' = [stop EXCEPT ![q.stop].marked = Never]
    /\ run' = [run EXCEPT !.touched = clock]
    /\ UNCHANGED ledger

\* Skipping again only replaces the reason.
SkipStop(q) ==
    /\ run.status = "active"
    /\ stop[q.stop].marked = Never
    /\ IF stop[q.stop].reason # q.reason
       THEN /\ stop' = [stop EXCEPT
                          ![q.stop].skipped = IF @ = Never THEN Resolved(q.at, 0) ELSE @,
                          ![q.stop].reason = q.reason]
            /\ run' = [run EXCEPT !.touched = clock]
       ELSE UNCHANGED <<run, stop>>
    /\ UNCHANGED ledger

UnskipStop(q) ==
    /\ run.status \in Going
    /\ stop[q.stop].skipped # Never
    /\ stop' = [stop EXCEPT ![q.stop].skipped = Never, ![q.stop].reason = "none"]
    /\ run' = [run EXCEPT !.touched = clock]
    /\ UNCHANGED ledger

\* Pause, or the end of a day.
Pause(q) ==
    LET t == Resolved(q.at, LatestMark)
    IN /\ run.status = "active"
       /\ Len(ledger) < 2 * MaxPauses
       /\ run' = [run EXCEPT !.status = "paused", !.pausedAt = t, !.touched = clock]
       /\ ledger' = Append(ledger, [action |-> q.action, at |-> t])
       /\ UNCHANGED stop

Resume(q) ==
    LET t == Resolved(q.at, PauseOrStart)
    IN /\ run.status = "paused"
       /\ run' = [run EXCEPT !.status = "active", !.pausedAt = Never,
                             !.paused = @ + (t - run.pausedAt), !.touched = clock]
       /\ ledger' = Append(ledger, [action |-> "resume", at |-> t])
       /\ UNCHANGED stop

\* The last stop the walker got to: marked, or found closed.
LastReached == Max({s \in Stops : s \in Marked \/ stop[s].reason = "closed"} \union {0})

\* Stops still open are closed as not reached; an optional one walked past
\* stays as it is.
ClosedAt(t) ==
    [s \in Stops |->
        IF \/ stop[s].marked # Never \/ stop[s].skipped # Never
           \/ s \in Optional /\ s < LastReached
        THEN stop[s]
        ELSE [stop[s] EXCEPT !.skipped = t, !.reason = "not_reached"]]

CompleteFloor == LatestMark

Complete(q) ==
    LET t == Resolved(q.at, CompleteFloor)
    IN /\ run.status = "active"
       /\ Marked # {}
       /\ run' = [run EXCEPT !.status = "completed", !.endedAt = t, !.touched = clock]
       /\ stop' = ClosedAt(t)
       /\ UNCHANGED ledger

\* A paused run may be cancelled: its pause ends with it.
Cancel(q) ==
    LET t == Resolved(q.at, 0)
    IN /\ run.status \in Going
       /\ run' = [run EXCEPT !.status = "cancelled", !.endedAt = t, !.pausedAt = Never,
                             !.paused = IF run.pausedAt = Never THEN @
                                        ELSE @ + (t - run.pausedAt),
                             !.touched = clock]
       /\ UNCHANGED <<stop, ledger>>

EndedEarly(t) ==
    [run EXCEPT !.status = "cancelled", !.early = TRUE, !.endedAt = t, !.pausedAt = Never,
                !.paused = IF run.pausedAt = Never THEN @
                           ELSE @ + Later(0, t - run.pausedAt),
                !.touched = clock]

FinishEarly(q) ==
    /\ run.status \in Going
    /\ run' = EndedEarly(Resolved(q.at, PauseOrStart))
    /\ UNCHANGED <<stop, ledger>>

----------------------------------------------------------------------------
(* One delivery.                                                           *)

\* The handler answers at once, with no event, when things are already so.
AlreadySo(q) ==
    CASE q.action = "complete_stop"   -> run.status # "active" /\ stop[q.stop].marked # Never
      [] q.action = "uncomplete_stop" -> stop[q.stop].marked = Never
      [] q.action = "skip_stop"       -> run.status # "active" /\ stop[q.stop].skipped # Never
      [] q.action = "unskip_stop"     -> stop[q.stop].skipped = Never
      [] q.action \in {"pause", "end_day"} -> run.status = "paused"
      [] q.action = "resume"          -> run.status = "active"
      [] q.action = "complete"        -> run.status = "completed"
      [] q.action = "cancel"          -> run.status = "cancelled"
      [] q.action = "finish_early"    -> run.status = "cancelled" /\ run.early

Acts(q) ==
    /\ ~AlreadySo(q)
    /\ InWindow(q.at)
    /\ \/ q.action = "complete_stop" /\ CompleteStop(q)
       \/ q.action = "uncomplete_stop" /\ UncompleteStop(q)
       \/ q.action = "skip_stop" /\ SkipStop(q)
       \/ q.action = "unskip_stop" /\ UnskipStop(q)
       \/ q.action \in {"pause", "end_day"} /\ Pause(q)
       \/ q.action = "resume" /\ Resume(q)
       \/ q.action = "complete" /\ Complete(q)
       \/ q.action = "cancel" /\ Cancel(q)
       \/ q.action = "finish_early" /\ FinishEarly(q)

\* A request without an id.
Direct == \E q \in Requests :
    /\ Acts(q)
    /\ UNCHANGED <<clock, recorded, queue, closeVars>>

\* The app queues an action under an id of its own ...
Enqueue(i) ==
    /\ sent[i] = Never
    /\ \E q \in Requests : sent' = [sent EXCEPT ![i] = q]
    /\ UNCHANGED <<clock, walk, recorded, flight, changes, closeVars>>

\* ... and delivers it, as often as it likes.  A recorded event is answered
\* with the current state and nothing is done.
Deliver(d, i) ==
    /\ flight[d] = NoId
    /\ sent[i] # Never
    /\ i \notin recorded
    /\ flight' = [flight EXCEPT ![d] = i]
    /\ UNCHANGED <<clock, walk, recorded, sent, changes, closeVars>>

AnyInsert(i) == TRUE  \* fault: no unique constraint on the event id

\* The unique constraint on (user, client event id).
InsertAdmits(i) == i \notin recorded

Answer(d) == flight' = [flight EXCEPT ![d] = NoId]

\* The handler acts and its event goes in with it.
Apply(d) ==
    LET i == flight[d]
    IN /\ i # NoId
       /\ InsertAdmits(i)
       /\ Acts(sent[i])
       /\ recorded' = recorded \union {i}
       /\ changes' = [changes EXCEPT ![i] = IF walk' = walk THEN @ ELSE @ + 1]
       /\ Answer(d)
       /\ UNCHANGED <<clock, sent, closeVars>>

\* Nothing is changed: things are already so, or another delivery of the same
\* event won the race and all is rolled back.
ApplyNothing(d) ==
    LET i == flight[d]
    IN /\ i # NoId
       /\ AlreadySo(sent[i]) \/ ~InsertAdmits(i)
       /\ Answer(d)
       /\ UNCHANGED <<clock, walk, recorded, sent, changes, closeVars>>

\* The action cannot be applied, or the request is lost on its way.
Lose(d) ==
    /\ flight[d] # NoId
    /\ Answer(d)
    /\ UNCHANGED <<clock, walk, recorded, sent, changes, closeVars>>

----------------------------------------------------------------------------
Tick ==
    /\ clock < LastInstant
    /\ clock' = clock + 1
    /\ UNCHANGED <<walk, recorded, queue, closeVars>>

Required == Stops \ Optional
WalkedFar ==
    Required = {} \/ (Cardinality(Marked \intersect Required) * 100) \div Cardinality(Required) >= CountedAt

\* get_active_execution or a start reads the run, which nobody has touched for
\* long, and goes on to read the settings and the days of the route.
ReadIdle(c) ==
    /\ closing[c] = Never
    /\ run.status \in Going
    /\ clock - run.touched >= IdleAfter
    /\ closing' = [closing EXCEPT ![c] = [row |-> run, now |-> clock]]
    /\ UNCHANGED <<clock, walk, recorded, queue, overtaken>>

\* What an update from the copy sets: the columns that differ from the copy.
\* The pause that the copy has is over, one that it has not stays.
ClosedFrom(copy, walked) ==
    LET moment == IF copy.row.pausedAt = Never THEN copy.row.touched ELSE copy.row.pausedAt
    IN [run EXCEPT !.status = IF walked THEN "completed" ELSE "cancelled",
                   !.early = @ \/ ~walked,
                   !.pausedAt = IF copy.row.pausedAt = Never THEN @ ELSE Never,
                   !.endedAt = moment,
                   !.touched = copy.now]

\* _close_if_idle, once it has the lock of the user: the run ends when the copy
\* was last heard of, even if it was walked on or ended since; its open stops
\* stay open, and the marks that decide whether it counts are read afresh.
CloseIdle(c) ==
    /\ closing[c] # Never
    /\ run' = ClosedFrom(closing[c], WalkedFar)
    /\ overtaken' = (overtaken \/ run # closing[c].row)
    /\ closing' = [closing EXCEPT ![c] = Never]
    /\ UNCHANGED <<clock, stop, ledger, recorded, queue>>

IdleClosing == \E c \in Closers : ReadIdle(c) \/ CloseIdle(c)

Offline ==
    \/ \E i \in Ids : Enqueue(i) \/ \E d \in Deliveries : Deliver(d, i)
    \/ \E d \in Deliveries : Apply(d) \/ ApplyNothing(d) \/ Lose(d)

TimelineNext == Direct \/ Tick \/ IdleClosing \/ Offline

TimelineSpec == TimelineInit /\ [][TimelineNext]_timelineVars
----------------------------------------------------------------------------
(* What holds.                                                             *)

TimelineTypeOK ==
    /\ clock \in Time
    /\ run \in [status: Going \union {"completed", "cancelled"}, early: BOOLEAN,
               pausedAt: Time \union {Never}, paused: Int,
               endedAt: Time \union {Never}, touched: Time]
    /\ stop \in [Stops -> [marked: Time \union {Never}, skipped: Time \union {Never},
                          reason: Reasons]]
    /\ ledger \in Seq([action: {"pause", "end_day", "resume"}, at: Time])
    /\ recorded \subseteq Ids
    /\ sent \in [Ids -> Requests \union {Never}]
    /\ flight \in [Deliveries -> Ids \union {NoId}]
    /\ changes \in [Ids -> Nat]
    /\ DOMAIN closing = Closers /\ overtaken \in BOOLEAN
    /\ \A c \in Closers : closing[c] # Never =>
          closing[c].row.status \in Going /\ closing[c].row.endedAt = Never /\ closing[c].now \in Time

\* However wrong or late the reported times are, the run's history is in
\* order: nothing is in the future, a run has an end when it is over, and only
\* then.  Unless an idle run was closed from a copy that it had moved on from,
\* also nobody reaches a stop during the pause that is still open or after
\* completing the run, and pauses add up to a time not below zero
\* (resolve_event_time, each handler's not_before, _close_if_idle).
TimelineOrdered ==
    /\ LatestMark <= clock
    /\ run.status \in Going <=> run.endedAt = Never
    /\ run.endedAt # Never => run.endedAt <= clock
    /\ run.status \in Going \/ ~overtaken =>
          /\ run.pausedAt # Never <=> run.status = "paused"
          /\ run.pausedAt # Never => LatestMark <= run.pausedAt
          /\ run.status = "completed" => LatestMark <= run.endedAt
          /\ run.status # "cancelled" => run.paused >= 0

\* A stop is never both reached and passed by, in whatever order marks, skips
\* and their withdrawals come: no request trips over the constraint skip_state
\* (complete_stop, skip_stop, complete_execution).
ReachedOrPassedBy ==
    \A s \in Stops : /\ stop[s].marked = Never \/ stop[s].skipped = Never
                     /\ stop[s].skipped = Never <=> stop[s].reason = "none"

\* Both: times and marks of a run tell one history.
HistoryIsSound == TimelineOrdered /\ ReachedOrPassedBy

\* Once the run is over, no request and no delivery however late touches its
\* history: what was paid for stays what it was (terminal_conflict_details).
\* Only who found the run idle while it still went may write another end over
\* its own, once, and even that neither brings it back nor counts pauses anew.
EndedIsFrozen ==
    [][run.status \notin Going =>
          /\ stop' = stop /\ ledger' = ledger
          /\ run'.status \notin Going /\ run'.paused = run.paused
          /\ closing' = closing => run' = run]_timelineVars

\* Two deliveries of an event racing each other, or coming days apart, change
\* the run at most once between them (_commit_event).
ChangesAtMostOnce == \A i \in Ids : changes[i] <= 1

(* What the repository says and the code does not keep.                    *)

\* paused_duration_seconds is not below zero (RouteExecutionOut).
PausedNotNegative == run.paused >= 0

\* What _pause_intervals reads of the ledger.
PaceLedger ==
    LET Seen(e) == e.action \in {"pause", "resume"} IN SelectSeq(ledger, Seen)

\* A leg's time is "net of pauses" (actual_leg_seconds): a pause that took
\* time is one the pace check sees, the end of a day included.
PaceSeesPauses ==
    run.status = "active" /\ run.paused > 0 =>
        \E n \in DOMAIN PaceLedger : PaceLedger[n].action = "pause"
============================================================================
