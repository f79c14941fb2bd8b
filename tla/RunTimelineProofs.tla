------------------------- MODULE RunTimelineProofs -------------------------
(* Proofs about the times of a run and its offline queue, for any stops,    *)
(* windows, ids and number of deliveries.                                   *)
EXTENDS RunTimeline, WellFoundedInduction, TLAPS

-----------------------------------------------------------------------------
(* The latest of some times.                                                *)

\* The natural numbers, in their order.
Below == {pair \in Nat \X Nat : pair[1] < pair[2]}

LEMMA BelowWellFounded == IsWellFoundedOn(Below, Nat)
BY NatLessThanWellFounded DEF OpToRel, Below

\* A set of times has a latest one.
LEMMA LatestExists ==
    ASSUME NEW k \in Nat, NEW S \in SUBSET (0..k), S # {}
    PROVE  Max(S) \in S /\ \A x \in S : x <= Max(S)
<1> DEFINE Gaps == {g \in 0..k : k - g \in S}
<1>1. Gaps \in SUBSET Nat /\ \A x \in S : k - x \in Gaps
  OBVIOUS
<1>2. Gaps # {}
  BY <1>1
<1>3. PICK gap \in Gaps : \A other \in Gaps : ~(<<other, gap>> \in Below)
  <2> HIDE DEF Gaps
  <2> QED
    BY <1>1, <1>2, WFMin, BelowWellFounded
<1>4. PICK latest \in S : gap = k - latest
  BY <1>1, <1>3
<1>5. ASSUME NEW x \in S PROVE latest >= x
  <2>1. k - x \in Gaps /\ <<k - x, gap>> \notin Below
    BY <1>1, <1>3
  <2>2. k - x \in Nat /\ gap \in Nat
    BY <1>1, <1>3, <2>1
  <2>3. ~(k - x < gap)
    BY <2>1, <2>2 DEF Below
  <2> QED
    BY <1>4, <2>2, <2>3
<1> QED
  BY <1>5 DEF Max

-----------------------------------------------------------------------------
(* Times.                                                                   *)

StopRow == [marked: Time \cup {Never}, skipped: Time \cup {Never}, reason: Reasons]
RunRow == [status: Going \cup {"completed", "cancelled"}, early: BOOLEAN,
           pausedAt: Time \cup {Never}, paused: Int,
           endedAt: Time \cup {Never}, touched: Time]

\* What is asked for, as the handlers use it.
LEMMA RequestRows ==
    ASSUME NEW q \in Requests
    PROVE  /\ q.stop \in Stops
           /\ q.reason \in {"closed", "other"}
           /\ q.at \in Nat \cup {Never}
BY TimesAssumption DEF Requests

\* NULL is no time.
LEMMA NeverIsNoTime == Never \notin Int /\ LastInstant \in Nat /\ 0 \in Time
BY TimesAssumption DEF Time

\* Every mark is at t or before.
MarkedBy(t) == \A s \in Stops : stop[s].marked # Never => stop[s].marked <= t

\* The latest mark, or the start, is a time that no mark is after.
LEMMA LatestMarkIs ==
    ASSUME stop \in [Stops -> StopRow]
    PROVE  /\ LatestMark \in Time
           /\ MarkedBy(LatestMark)
           /\ \A t \in Time : MarkedBy(t) <=> LatestMark <= t
<1> DEFINE Marks == {stop[s].marked : s \in Marked} \cup {0}
<1>1. \A s \in Marked : stop[s].marked \in Time
  BY DEF Marked, StopRow
<1>2. Marks \in SUBSET (0..LastInstant) /\ Marks # {} /\ LastInstant \in Nat
  BY <1>1, NeverIsNoTime DEF Time
<1>3. LatestMark = Max(Marks)
  BY DEF LatestMark
<1>4. LatestMark \in Marks /\ \A t \in Marks : t <= LatestMark
  <2> HIDE DEF Marks
  <2> QED
    BY <1>2, <1>3, LatestExists
<1>5. LatestMark \in Time
  BY <1>2, <1>4 DEF Time
<1>6. \A s \in Stops : stop[s].marked # Never => stop[s].marked \in Marks
  BY DEF Marked
<1>7. MarkedBy(LatestMark)
  BY <1>4, <1>6 DEF MarkedBy
<1>8. ASSUME NEW t \in Time, MarkedBy(t) PROVE LatestMark <= t
  <2>1. \A s \in Marked : stop[s].marked <= t
    BY <1>8 DEF MarkedBy, Marked
  <2>2. CASE LatestMark = 0
    BY <2>2 DEF Time
  <2>3. CASE LatestMark # 0
    <3>1. PICK s \in Marked : LatestMark = stop[s].marked
      BY <1>4, <2>3
    <3> QED
      BY <2>1, <3>1
  <2> QED
    BY <2>2, <2>3
<1>9. ASSUME NEW t \in Time, LatestMark <= t PROVE MarkedBy(t)
  <2> SUFFICES ASSUME NEW s \in Stops, stop[s].marked # Never PROVE stop[s].marked <= t
    BY DEF MarkedBy
  <2>1. stop[s].marked \in Time /\ stop[s].marked <= LatestMark
    BY <1>7 DEF MarkedBy, StopRow
  <2> QED
    BY <1>5, <1>9, <2>1 DEF Time
<1> QED
  BY <1>5, <1>7, <1>8, <1>9

\* A resolved time is not in the future, and not before its floor.
LEMMA ResolvedInTime ==
    ASSUME clock \in Time, NEW at \in Nat \cup {Never}, NEW floor \in Time, floor <= clock
    PROVE  /\ Resolved(at, floor) \in Time
           /\ floor <= Resolved(at, floor)
           /\ Resolved(at, floor) <= clock
BY NeverIsNoTime DEF Resolved, Later, Sooner, Time

LEMMA ReportedInTime ==
    ASSUME clock \in Time, NEW at \in Nat \cup {Never}
    PROVE  Resolved(at, 0) \in Time /\ Resolved(at, 0) <= clock
<1>1. 0 \in Time /\ 0 <= clock
  BY NeverIsNoTime DEF Time
<1> QED
  BY <1>1, ResolvedInTime

-----------------------------------------------------------------------------
(* The invariant of the walk.                                               *)

WalkTypes == clock \in Time /\ run \in RunRow /\ stop \in [Stops -> StopRow]

\* A pause is open while the run is paused, an end is there when it is over;
\* neither is in the future, and no mark is after it.  The marks are also not
\* after the moment when the run was last heard of, for an idle run ends then.
InOrder ==
    /\ run.status = "paused" <=> run.pausedAt # Never
    /\ run.status \in Going <=> run.endedAt = Never
    /\ run.touched <= clock /\ MarkedBy(run.touched)
    /\ run.pausedAt # Never => run.pausedAt <= clock /\ MarkedBy(run.pausedAt)
    /\ run.endedAt # Never => run.endedAt <= clock
    /\ run.status = "completed" => MarkedBy(run.endedAt)
    /\ run.status # "cancelled" => run.paused >= 0

WalkInv == WalkTypes /\ InOrder /\ ReachedOrPassedBy

\* A run that was closed from a copy it had moved on from: it is over, and
\* nothing of it is in the future.
Overtaken ==
    /\ WalkTypes /\ ReachedOrPassedBy
    /\ overtaken /\ run.status \notin Going
    /\ run.endedAt # Never /\ run.endedAt <= clock
    /\ MarkedBy(clock)

\* What holds of the walk in one case and the other.
LEMMA AllInThePast == WalkInv \/ Overtaken => WalkTypes /\ ReachedOrPassedBy /\ MarkedBy(clock)
<1> SUFFICES ASSUME WalkInv PROVE WalkTypes /\ ReachedOrPassedBy /\ MarkedBy(clock)
  BY DEF Overtaken
<1>1. ASSUME NEW s \in Stops, stop[s].marked # Never PROVE stop[s].marked <= clock
  <2>1. stop[s].marked \in Time /\ run.touched \in Time /\ clock \in Time
        /\ stop[s].marked <= run.touched /\ run.touched <= clock
    BY <1>1 DEF WalkInv, WalkTypes, InOrder, MarkedBy, StopRow, RunRow
  <2> QED
    BY <2>1, NeverIsNoTime DEF Time
<1> QED
  BY <1>1 DEF WalkInv, MarkedBy

\* The invariant says what HistoryIsSound asks for.
LEMMA OvertakenIsSound == Overtaken => HistoryIsSound
<1> SUFFICES ASSUME Overtaken PROVE TimelineOrdered
  BY DEF HistoryIsSound, Overtaken
<1>1. LatestMark <= clock
  BY LatestMarkIs DEF Overtaken, WalkTypes
<1> QED
  BY <1>1 DEF Overtaken, TimelineOrdered

LEMMA InOrderIsSound == WalkInv => HistoryIsSound
<1> SUFFICES ASSUME WalkInv PROVE TimelineOrdered
  BY DEF HistoryIsSound, WalkInv
<1>1. LatestMark \in Time /\ \A t \in Time : MarkedBy(t) <=> LatestMark <= t
  BY LatestMarkIs DEF WalkInv, WalkTypes
<1>2. clock \in Time /\ run \in RunRow /\ InOrder
  BY DEF WalkInv, WalkTypes
<1>3. run.touched \in Time /\ run.touched <= clock /\ LatestMark <= run.touched
  BY <1>1, <1>2 DEF InOrder, RunRow
<1>4. LatestMark <= clock
  BY <1>1, <1>2, <1>3, NeverIsNoTime DEF Time
<1>5. run.pausedAt # Never => run.status = "paused" /\ LatestMark <= run.pausedAt
  BY <1>1, <1>2 DEF InOrder, RunRow
<1>6. run.status = "completed" => LatestMark <= run.endedAt
  <2> SUFFICES ASSUME run.status = "completed" PROVE LatestMark <= run.endedAt
    OBVIOUS
  <2>1. run.endedAt # Never /\ MarkedBy(run.endedAt)
    BY <1>2 DEF InOrder, Going
  <2> QED
    BY <1>1, <1>2, <2>1 DEF InOrder, RunRow
<1> QED
  BY <1>2, <1>4, <1>5, <1>6 DEF TimelineOrdered, InOrder

LEMMA WalkBegins == TimelineInit => WalkInv
<1> SUFFICES ASSUME TimelineInit PROVE WalkInv
  OBVIOUS
<1>1. clock = 0 /\ stop = [s \in Stops |-> Open]
      /\ run = [status |-> "active", early |-> FALSE, pausedAt |-> Never,
                 paused |-> 0, endedAt |-> Never, touched |-> 0]
  BY DEF TimelineInit
<1>2. WalkTypes
  BY <1>1, NeverIsNoTime DEF WalkTypes, RunRow, StopRow, Open, Going, Reasons
<1>3. InOrder
  BY <1>1, NeverIsNoTime DEF InOrder, MarkedBy, Open, Going
<1>4. ReachedOrPassedBy
  BY <1>1 DEF ReachedOrPassedBy, Open
<1> QED
  BY <1>2, <1>3, <1>4 DEF WalkInv

-----------------------------------------------------------------------------
(* The handlers.                                                            *)

\* One stop is written, of a run that is not over, and the run is touched.
LEMMA OneStopWritten ==
    ASSUME WalkInv, run.status \in Going, UNCHANGED clock,
           NEW s \in Stops, NEW row \in StopRow,
           row.marked # Never =>
               row.marked <= clock /\ (run.status = "active" \/ row.marked = stop[s].marked),
           row.marked = Never \/ row.skipped = Never,
           row.skipped = Never <=> row.reason = "none",
           stop' = [stop EXCEPT ![s] = row],
           run' = [run EXCEPT !.touched = clock]
    PROVE  WalkInv'
<1>1. clock \in Time /\ run \in RunRow /\ stop \in [Stops -> StopRow] /\ InOrder /\ ReachedOrPassedBy
  BY DEF WalkInv, WalkTypes
<1>2. WalkTypes'
  BY <1>1 DEF WalkTypes, RunRow
<1>3. /\ stop'[s] = row
      /\ \A r \in Stops \ {s} : stop'[r] = stop[r]
  BY <1>1
<1>4. /\ run'.status = run.status /\ run'.pausedAt = run.pausedAt
      /\ run'.endedAt = run.endedAt /\ run'.paused = run.paused /\ run'.touched = clock
  BY <1>1 DEF RunRow
<1>5. MarkedBy(clock)'
  <2> SUFFICES ASSUME NEW r \in Stops, stop'[r].marked # Never PROVE stop'[r].marked <= clock
    BY DEF MarkedBy
  <2>1. CASE r = s
    BY <1>3, <2>1
  <2>2. CASE r # s
    <3>1. stop[r].marked \in Time /\ run.touched \in Time
          /\ stop[r].marked <= run.touched /\ run.touched <= clock
      BY <1>1, <1>3, <2>2 DEF InOrder, MarkedBy, StopRow, RunRow
    <3> QED
      BY <1>1, <1>3, <2>2, <3>1, NeverIsNoTime DEF Time
  <2> QED
    BY <2>1, <2>2
<1>6. run.pausedAt # Never => MarkedBy(run.pausedAt)'
  <2> SUFFICES ASSUME run.pausedAt # Never, NEW r \in Stops, stop'[r].marked # Never
               PROVE  stop'[r].marked <= run.pausedAt
    BY <1>4 DEF MarkedBy
  <2>1. run.status = "paused" /\ \A p \in Stops : stop[p].marked # Never => stop[p].marked <= run.pausedAt
    BY <1>1 DEF InOrder, MarkedBy
  <2> QED
    BY <1>3, <2>1
<1>7. InOrder'
  BY <1>1, <1>4, <1>5, <1>6, NeverIsNoTime DEF InOrder, MarkedBy, Going, Time
<1>8. ReachedOrPassedBy'
  BY <1>1, <1>3 DEF ReachedOrPassedBy
<1> QED
  BY <1>2, <1>7, <1>8 DEF WalkInv

\* The run's row is written; of the stops, what is left open may be closed.
RowInOrder(row) ==
    /\ row.status = "paused" <=> row.pausedAt # Never
    /\ row.status \in Going <=> row.endedAt = Never
    /\ row.pausedAt # Never => row.pausedAt <= clock /\ MarkedBy(row.pausedAt)
    /\ row.endedAt # Never => row.endedAt <= clock
    /\ row.status = "completed" => MarkedBy(row.endedAt)
    /\ row.status # "cancelled" => row.paused >= 0
    /\ row.touched = clock \/ (row.touched <= clock /\ MarkedBy(row.touched))

LEMMA RowWritten ==
    ASSUME WalkInv, UNCHANGED clock, NEW row \in RunRow, RowInOrder(row), run' = row,
           stop' \in [Stops -> StopRow], ReachedOrPassedBy',
           \A s \in Stops : stop'[s].marked = stop[s].marked
    PROVE  WalkInv'
<1>1. \A t \in Time : MarkedBy(t) => \A s \in Stops : stop'[s].marked # Never => stop'[s].marked <= t
  BY DEF MarkedBy
<1>2. MarkedBy(clock)
  BY AllInThePast
<1>3. WalkTypes'
  BY DEF WalkInv, WalkTypes
<1>4. InOrder'
  <2>1. clock \in Time /\ clock <= clock
    BY NeverIsNoTime DEF WalkInv, WalkTypes, Time
  <2>2. row.pausedAt # Never => row.pausedAt \in Time
    BY DEF RunRow
  <2>3. row.touched \in Time /\ (row.status = "completed" => row.endedAt \in Time)
    BY DEF RunRow, RowInOrder, Going
  <2> QED
    BY <1>1, <1>2, <2>1, <2>2, <2>3 DEF InOrder, RowInOrder, MarkedBy
<1> QED
  BY <1>3, <1>4 DEF WalkInv

\* A mark gets a time, and replaces a skip.
LEMMA MarkKeepsOrder ==
    ASSUME WalkInv, UNCHANGED clock, NEW q \in Requests, CompleteStop(q)
    PROVE  WalkInv'
<1>1. q.stop \in Stops /\ q.at \in Nat \cup {Never}
  BY RequestRows
<1>2. /\ Resolved(q.at, 0) \in Time /\ Resolved(q.at, 0) <= clock
  BY <1>1, ReportedInTime DEF WalkInv, WalkTypes
<1>3. PICK row : row = [Open EXCEPT !.marked = Resolved(q.at, 0)]
  OBVIOUS
<1>4. row \in StopRow /\ row.marked = Resolved(q.at, 0) /\ row.skipped = Never /\ row.reason = "none"
  BY <1>2, <1>3 DEF Open, StopRow, Reasons
<1>5. CASE stop[q.stop].marked = Never
  <2>1. stop' = [stop EXCEPT ![q.stop] = row] /\ run' = [run EXCEPT !.touched = clock]
        /\ run.status = "active"
    BY <1>3, <1>5 DEF CompleteStop
  <2> QED
    BY <1>1, <1>2, <1>4, <2>1, OneStopWritten DEF Going
<1>6. CASE stop[q.stop].marked # Never
  BY <1>6 DEF CompleteStop, WalkInv, WalkTypes, InOrder, ReachedOrPassedBy, MarkedBy
<1> QED
  BY <1>5, <1>6

LEMMA UnmarkKeepsOrder ==
    ASSUME WalkInv, UNCHANGED clock, NEW q \in Requests, UncompleteStop(q)
    PROVE  WalkInv'
<1>1. q.stop \in Stops /\ stop \in [Stops -> StopRow]
  BY RequestRows DEF WalkInv, WalkTypes
<1>2. PICK row : row = [stop[q.stop] EXCEPT !.marked = Never]
  OBVIOUS
<1>3. row \in StopRow /\ row.marked = Never /\ row.skipped = stop[q.stop].skipped
      /\ row.reason = stop[q.stop].reason
  BY <1>1, <1>2 DEF StopRow
<1>4. stop' = [stop EXCEPT ![q.stop] = row] /\ run' = [run EXCEPT !.touched = clock]
      /\ run.status \in Going
  BY <1>2 DEF UncompleteStop
<1>5. row.skipped = Never <=> row.reason = "none"
  BY <1>1, <1>3 DEF WalkInv, ReachedOrPassedBy
<1> QED
  BY <1>1, <1>3, <1>4, <1>5, OneStopWritten

LEMMA SkipKeepsOrder ==
    ASSUME WalkInv, UNCHANGED clock, NEW q \in Requests, SkipStop(q)
    PROVE  WalkInv'
<1>1. q.stop \in Stops /\ q.at \in Nat \cup {Never} /\ q.reason \in {"closed", "other"}
      /\ stop \in [Stops -> StopRow]
  BY RequestRows DEF WalkInv, WalkTypes
<1>2. Resolved(q.at, 0) \in Time
  BY <1>1, ReportedInTime DEF WalkInv, WalkTypes
<1>3. PICK row : row = [stop[q.stop] EXCEPT !.skipped = IF @ = Never THEN Resolved(q.at, 0) ELSE @,
                                            !.reason = q.reason]
  OBVIOUS
<1>4. row \in StopRow /\ row.marked = stop[q.stop].marked /\ row.skipped # Never
      /\ row.reason = q.reason
  <2>1. stop[q.stop] \in StopRow /\ Resolved(q.at, 0) # Never
    BY <1>1, <1>2, NeverIsNoTime DEF Time
  <2> QED
    BY <1>1, <1>2, <1>3, <2>1 DEF StopRow, Reasons
<1>5. CASE stop[q.stop].reason # q.reason
  <2>1. stop' = [stop EXCEPT ![q.stop] = row] /\ run' = [run EXCEPT !.touched = clock]
        /\ run.status = "active" /\ stop[q.stop].marked = Never
    BY <1>1, <1>3, <1>5 DEF SkipStop
  <2> QED
    BY <1>1, <1>4, <2>1, OneStopWritten DEF Going
<1>6. CASE stop[q.stop].reason = q.reason
  BY <1>6 DEF SkipStop, WalkInv, WalkTypes, InOrder, ReachedOrPassedBy, MarkedBy
<1> QED
  BY <1>5, <1>6

LEMMA UnskipKeepsOrder ==
    ASSUME WalkInv, UNCHANGED clock, NEW q \in Requests, UnskipStop(q)
    PROVE  WalkInv'
<1>1. q.stop \in Stops /\ stop \in [Stops -> StopRow]
  BY RequestRows DEF WalkInv, WalkTypes
<1>2. PICK row : row = [stop[q.stop] EXCEPT !.skipped = Never, !.reason = "none"]
  OBVIOUS
<1>3. row \in StopRow /\ row.marked = stop[q.stop].marked /\ row.skipped = Never /\ row.reason = "none"
  BY <1>1, <1>2 DEF StopRow, Reasons
<1>4. stop' = [stop EXCEPT ![q.stop] = row] /\ run' = [run EXCEPT !.touched = clock]
      /\ run.status \in Going /\ stop[q.stop].skipped # Never
  BY <1>1, <1>2 DEF UnskipStop
<1>5. row.marked = Never
  BY <1>1, <1>3, <1>4 DEF WalkInv, ReachedOrPassedBy
<1> QED
  BY <1>1, <1>3, <1>4, <1>5, OneStopWritten

\* What the handlers below know of the state they read.
LEMMA Known ==
    ASSUME WalkInv
    PROVE  /\ clock \in Time /\ run \in RunRow /\ stop \in [Stops -> StopRow]
           /\ LatestMark \in Time /\ LatestMark <= clock
           /\ \A t \in Time : LatestMark <= t => MarkedBy(t)
           /\ PauseOrStart \in Time /\ PauseOrStart <= clock
           /\ run.status = "active" => run.pausedAt = Never /\ run.endedAt = Never
           /\ run.status = "paused" => run.pausedAt \in Time /\ PauseOrStart = run.pausedAt
                                      /\ MarkedBy(run.pausedAt) /\ run.endedAt = Never
           /\ run.status \in Going => run.paused \in Int /\ run.paused >= 0
<1>1. clock \in Time /\ run \in RunRow /\ stop \in [Stops -> StopRow] /\ InOrder
  BY DEF WalkInv, WalkTypes
<1>2. LatestMark \in Time /\ \A t \in Time : MarkedBy(t) <=> LatestMark <= t
  BY <1>1, LatestMarkIs
<1>3. LatestMark <= clock
  BY InOrderIsSound DEF HistoryIsSound, TimelineOrdered
<1>4. PauseOrStart \in Time /\ PauseOrStart <= clock
  <2>1. CASE run.pausedAt = Never
    BY <1>1, <2>1, NeverIsNoTime DEF PauseOrStart, Time
  <2>2. CASE run.pausedAt # Never
    BY <1>1, <2>2 DEF PauseOrStart, RunRow, InOrder
  <2> QED
    BY <2>1, <2>2
<1>5. run.status = "active" => run.pausedAt = Never /\ run.endedAt = Never
  BY <1>1 DEF InOrder, Going
<1>6. run.status = "paused" => run.pausedAt \in Time /\ PauseOrStart = run.pausedAt
                              /\ MarkedBy(run.pausedAt) /\ run.endedAt = Never
  BY <1>1 DEF InOrder, Going, RunRow, PauseOrStart
<1>7. run.status \in Going => run.paused \in Int /\ run.paused >= 0
  BY <1>1 DEF InOrder, Going, RunRow
<1> QED
  BY <1>1, <1>2, <1>3, <1>4, <1>5, <1>6, <1>7

\* Every handler below leaves the marks.
LEMMA RowOnly ==
    ASSUME WalkInv, UNCHANGED <<clock, stop>>, NEW row \in RunRow, RowInOrder(row), run' = row
    PROVE  WalkInv'
<1>1. stop' \in [Stops -> StopRow] /\ ReachedOrPassedBy'
      /\ \A s \in Stops : stop'[s].marked = stop[s].marked
  BY DEF WalkInv, WalkTypes, ReachedOrPassedBy
<1> QED
  BY <1>1, RowWritten

LEMMA PauseKeepsOrder ==
    ASSUME WalkInv, UNCHANGED clock, NEW q \in Requests, Pause(q)
    PROVE  WalkInv'
<1>1. PICK t : t = Resolved(q.at, LatestMark)
  OBVIOUS
<1>2. t \in Time /\ LatestMark <= t /\ t <= clock /\ MarkedBy(t)
  BY <1>1, Known, RequestRows, ResolvedInTime
<1>3. PICK row : row = [run EXCEPT !.status = "paused", !.pausedAt = t, !.touched = clock]
  OBVIOUS
<1>4. run.status = "active" /\ run' = row /\ UNCHANGED stop
  BY <1>1, <1>3 DEF Pause
<1>5. /\ row \in RunRow
      /\ row.status = "paused" /\ row.pausedAt = t /\ row.touched = clock
      /\ row.endedAt = Never /\ row.paused = run.paused /\ row.paused >= 0
  BY <1>2, <1>3, <1>4, Known DEF RunRow, Going
<1>6. RowInOrder(row)
  BY <1>2, <1>5, NeverIsNoTime DEF RowInOrder, Going, Time
<1> QED
  BY <1>4, <1>5, <1>6, RowOnly

LEMMA ResumeKeepsOrder ==
    ASSUME WalkInv, UNCHANGED clock, NEW q \in Requests, Resume(q)
    PROVE  WalkInv'
<1>1. PICK t : t = Resolved(q.at, PauseOrStart)
  OBVIOUS
<1>2. t \in Time /\ PauseOrStart <= t
  BY <1>1, Known, RequestRows, ResolvedInTime
<1>3. run.status = "paused"
  BY DEF Resume
<1>4. PICK sum : sum = run.paused + (t - run.pausedAt)
  OBVIOUS
<1>5. sum \in Int /\ sum >= 0
  <2>1. run.pausedAt \in Time /\ run.pausedAt <= t /\ run.paused \in Int /\ run.paused >= 0
    BY <1>2, <1>3, Known DEF Going
  <2> QED
    BY <1>2, <1>4, <2>1, NeverIsNoTime DEF Time
<1>6. PICK row : row = [run EXCEPT !.status = "active", !.pausedAt = Never,
                                   !.paused = sum, !.touched = clock]
  OBVIOUS
<1>7. run' = row /\ UNCHANGED stop
  BY <1>1, <1>4, <1>6, Known DEF Resume, RunRow
<1>8. /\ row \in RunRow
      /\ row.status = "active" /\ row.pausedAt = Never /\ row.touched = clock
      /\ row.endedAt = Never /\ row.paused = sum
  BY <1>3, <1>5, <1>6, Known DEF RunRow, Going
<1>9. RowInOrder(row)
  BY <1>5, <1>8 DEF RowInOrder, Going
<1> QED
  BY <1>7, <1>8, <1>9, RowOnly

\* Completing closes the stops that are open.
LEMMA CompleteKeepsOrder ==
    ASSUME WalkInv, UNCHANGED clock, NEW q \in Requests, Complete(q)
    PROVE  WalkInv'
<1>1. PICK t : t = Resolved(q.at, CompleteFloor)
  OBVIOUS
<1>2. t \in Time /\ LatestMark <= t /\ t <= clock /\ MarkedBy(t)
  BY <1>1, Known, RequestRows, ResolvedInTime DEF CompleteFloor
<1>3. PICK row : row = [run EXCEPT !.status = "completed", !.endedAt = t, !.touched = clock]
  OBVIOUS
<1>4. run.status = "active" /\ run' = row /\ stop' = ClosedAt(t)
  BY <1>1, <1>3 DEF Complete
<1>5. /\ row \in RunRow
      /\ row.status = "completed" /\ row.pausedAt = Never /\ row.touched = clock
      /\ row.endedAt = t /\ row.paused >= 0
  BY <1>2, <1>3, <1>4, Known DEF RunRow, Going
<1>6. RowInOrder(row)
  BY <1>2, <1>5, NeverIsNoTime DEF RowInOrder, Going, Time
<1>7. \A s \in Stops : /\ stop'[s] \in StopRow
                       /\ stop'[s].marked = stop[s].marked
                       /\ stop'[s].marked = Never \/ stop'[s].skipped = Never
                       /\ stop'[s].skipped = Never <=> stop'[s].reason = "none"
  <2> SUFFICES ASSUME NEW s \in Stops
               PROVE  /\ stop'[s] \in StopRow
                      /\ stop'[s].marked = stop[s].marked
                      /\ stop'[s].marked = Never \/ stop'[s].skipped = Never
                      /\ stop'[s].skipped = Never <=> stop'[s].reason = "none"
    OBVIOUS
  <2>1. stop[s] \in StopRow /\ t # Never
    BY <1>2, Known, NeverIsNoTime DEF Time
  <2>2. /\ stop[s].marked = Never \/ stop[s].skipped = Never
        /\ stop[s].skipped = Never <=> stop[s].reason = "none"
    BY DEF WalkInv, ReachedOrPassedBy
  <2>3. CASE stop'[s] = stop[s]
    BY <2>1, <2>2, <2>3
  <2>4. CASE stop'[s] # stop[s]
    <3>1. stop'[s] = [stop[s] EXCEPT !.skipped = t, !.reason = "not_reached"] /\ stop[s].marked = Never
      BY <1>4, <2>4 DEF ClosedAt
    <3> QED
      BY <1>2, <2>1, <3>1 DEF StopRow, Reasons
  <2> QED
    BY <2>3, <2>4
<1>8. stop' \in [Stops -> StopRow] /\ ReachedOrPassedBy'
  BY <1>4, <1>7 DEF ClosedAt, ReachedOrPassedBy
<1> QED
  BY <1>4, <1>5, <1>6, <1>7, <1>8, RowWritten

\* A run that ends without being completed.
LEMMA EndKeepsOrder ==
    ASSUME WalkInv, UNCHANGED <<clock, stop>>, run.status \in Going,
           NEW t \in Time, t <= clock, NEW sum \in Int, NEW early \in BOOLEAN,
           run' = [run EXCEPT !.status = "cancelled", !.early = early, !.endedAt = t,
                              !.pausedAt = Never, !.paused = sum, !.touched = clock]
    PROVE  WalkInv'
<1>1. PICK row : row = run'
  OBVIOUS
<1>2. /\ row \in RunRow
      /\ row.status = "cancelled" /\ row.pausedAt = Never /\ row.touched = clock
      /\ row.endedAt = t
  BY <1>1, Known DEF RunRow
<1>3. RowInOrder(row)
  BY <1>2, NeverIsNoTime DEF RowInOrder, Going, Time
<1> QED
  BY <1>1, <1>2, <1>3, RowOnly

LEMMA CancelKeepsOrder ==
    ASSUME WalkInv, UNCHANGED clock, NEW q \in Requests, Cancel(q)
    PROVE  WalkInv'
<1>1. PICK t : t = Resolved(q.at, 0)
  OBVIOUS
<1>2. t \in Time /\ t <= clock
  BY <1>1, Known, RequestRows, ReportedInTime
<1>3. PICK sum : sum = IF run.pausedAt = Never THEN run.paused ELSE run.paused + (t - run.pausedAt)
  OBVIOUS
<1>4. sum \in Int
  BY <1>2, <1>3, Known, NeverIsNoTime DEF RunRow, Time
<1>5. run' = [run EXCEPT !.status = "cancelled", !.early = run.early, !.endedAt = t,
                         !.pausedAt = Never, !.paused = sum, !.touched = clock]
  BY <1>1, <1>3, Known DEF Cancel, RunRow
<1>6. run.status \in Going /\ UNCHANGED stop /\ run.early \in BOOLEAN
  BY Known DEF Cancel, RunRow
<1> QED
  BY <1>2, <1>4, <1>5, <1>6, EndKeepsOrder

LEMMA EarlyKeepsOrder ==
    ASSUME WalkInv, UNCHANGED <<clock, stop>>, run.status \in Going,
           NEW t \in Time, t <= clock, run' = EndedEarly(t)
    PROVE  WalkInv'
<1>1. PICK sum : sum = IF run.pausedAt = Never THEN run.paused
                       ELSE run.paused + Later(0, t - run.pausedAt)
  OBVIOUS
<1>2. sum \in Int
  BY <1>1, Known, NeverIsNoTime DEF RunRow, Time, Later
<1>3. run' = [run EXCEPT !.status = "cancelled", !.early = TRUE, !.endedAt = t,
                         !.pausedAt = Never, !.paused = sum, !.touched = clock]
  BY <1>1, Known DEF EndedEarly, RunRow
<1> QED
  BY <1>2, <1>3, EndKeepsOrder

LEMMA FinishEarlyKeepsOrder ==
    ASSUME WalkInv, UNCHANGED clock, NEW q \in Requests, FinishEarly(q)
    PROVE  WalkInv'
<1>1. PICK t : t = Resolved(q.at, PauseOrStart)
  OBVIOUS
<1>2. t \in Time /\ t <= clock
  BY <1>1, Known, RequestRows, ResolvedInTime
<1>3. run' = EndedEarly(t) /\ run.status \in Going /\ UNCHANGED stop
  BY <1>1 DEF FinishEarly
<1> QED
  BY <1>2, <1>3, EarlyKeepsOrder

\* What a closer holds: a run that still went, as it was at some earlier time.
CopyRow == [row: RunRow, now: Time]

ClosingInv ==
    /\ DOMAIN closing = Closers /\ overtaken \in BOOLEAN
    /\ \A c \in Closers : closing[c] # Never =>
          /\ closing[c] \in CopyRow
          /\ closing[c].row.status \in Going /\ closing[c].row.endedAt = Never
          /\ closing[c].row.touched <= closing[c].now /\ closing[c].now <= clock
          /\ closing[c].row.pausedAt # Never => closing[c].row.pausedAt <= clock

LEMMA ClosingBegins == TimelineInit => ClosingInv
BY DEF TimelineInit, ClosingInv

\* A copy is of the run as it is now, which is in order.
LEMMA ReadingKeeps ==
    ASSUME WalkInv \/ Overtaken, ClosingInv, NEW c \in Closers, ReadIdle(c)
    PROVE  ClosingInv'
<1>1. WalkInv /\ run.status \in Going
  BY DEF ReadIdle, Overtaken
<1>2. run \in RunRow /\ clock \in Time /\ InOrder /\ IdleAfter \in Nat
  BY <1>1, TimesAssumption DEF WalkInv, WalkTypes
<1>3. PICK copy : copy = [row |-> run, now |-> clock]
  OBVIOUS
<1>4. copy \in CopyRow /\ copy.row = run /\ copy.now = clock
  BY <1>2, <1>3 DEF CopyRow
<1>5. clock <= clock /\ run.touched <= clock /\ run.endedAt = Never
      /\ (run.pausedAt # Never => run.pausedAt <= clock)
  BY <1>1, <1>2, NeverIsNoTime DEF InOrder, Time
<1>6. closing' = [closing EXCEPT ![c] = copy] /\ UNCHANGED <<clock, overtaken>>
  BY <1>3 DEF ReadIdle
<1>7. closing'[c] = copy /\ DOMAIN closing' = Closers
      /\ \A other \in Closers \ {c} : closing'[other] = closing[other]
  BY <1>6 DEF ClosingInv
<1> QED
  BY <1>1, <1>4, <1>5, <1>6, <1>7 DEF ClosingInv

\* The row that a closing leaves, and the time it takes for the end.
LEMMA ClosedRow ==
    ASSUME WalkTypes, ClosingInv, NEW c \in Closers, closing[c] # Never, NEW walked \in BOOLEAN
    PROVE  LET row == ClosedFrom(closing[c], walked)
               copy == closing[c].row
               moment == IF copy.pausedAt = Never THEN copy.touched ELSE copy.pausedAt
           IN /\ row \in RunRow
              /\ row.status = IF walked THEN "completed" ELSE "cancelled"
              /\ row.endedAt = moment /\ moment \in Time /\ moment <= clock
              /\ row.pausedAt = IF copy.pausedAt = Never THEN run.pausedAt ELSE Never
              /\ row.paused = run.paused /\ row.touched = closing[c].now
<1>1. PICK copy : copy = closing[c].row
  OBVIOUS
<1>2. PICK t : t = IF copy.pausedAt = Never THEN copy.touched ELSE copy.pausedAt
  OBVIOUS
<1>3. /\ copy \in RunRow /\ closing[c].now \in Time
      /\ copy.touched <= closing[c].now /\ closing[c].now <= clock
      /\ copy.pausedAt # Never => copy.pausedAt <= clock
  BY <1>1 DEF ClosingInv, CopyRow
<1>4. t \in Time /\ t <= clock
  BY <1>2, <1>3, NeverIsNoTime DEF RunRow, Time, WalkTypes
<1>5. PICK row : row = ClosedFrom(closing[c], walked)
  OBVIOUS
<1>6. row = [run EXCEPT !.status = IF walked THEN "completed" ELSE "cancelled",
                        !.early = @ \/ ~walked,
                        !.pausedAt = IF copy.pausedAt = Never THEN @ ELSE Never,
                        !.endedAt = t, !.touched = closing[c].now]
  BY <1>1, <1>2, <1>5 DEF ClosedFrom
<1>7. run \in RunRow
  BY DEF WalkTypes
<1>8. row \in RunRow
  BY <1>3, <1>4, <1>6, <1>7 DEF RunRow
<1>9. /\ row.status = IF walked THEN "completed" ELSE "cancelled"
      /\ row.endedAt = t /\ row.paused = run.paused /\ row.touched = closing[c].now
      /\ row.pausedAt = IF copy.pausedAt = Never THEN run.pausedAt ELSE Never
  BY <1>6, <1>7 DEF RunRow
<1> QED
  BY <1>1, <1>2, <1>4, <1>5, <1>8, <1>9

\* From a copy of the row as it is: the run ends when it was last heard of,
\* which is after every mark.
LEMMA ClosingInTimeKeepsOrder ==
    ASSUME WalkInv, ClosingInv, NEW c \in Closers, CloseIdle(c), run = closing[c].row
    PROVE  WalkInv'
<1>1. PICK row : row = ClosedFrom(closing[c], WalkedFar)
  OBVIOUS
<1>2. PICK t : t = IF run.pausedAt = Never THEN run.touched ELSE run.pausedAt
  OBVIOUS
<1>3. PICK walked \in BOOLEAN : walked = WalkedFar
  BY DEF WalkedFar
<1>4. closing[c] # Never /\ run' = row /\ UNCHANGED <<clock, stop>>
  BY <1>1 DEF CloseIdle
<1>5. WalkTypes /\ InOrder /\ run \in RunRow /\ run.status \in Going
  BY <1>4 DEF WalkInv, WalkTypes, ClosingInv
<1>6. /\ row \in RunRow
      /\ row.status = IF walked THEN "completed" ELSE "cancelled"
      /\ row.endedAt = t /\ t \in Time /\ t <= clock
      /\ row.pausedAt = IF run.pausedAt = Never THEN run.pausedAt ELSE Never
      /\ row.paused = run.paused /\ row.touched = closing[c].now
  BY <1>1, <1>2, <1>3, <1>4, <1>5, ClosedRow
<1>7. row.pausedAt = Never
  BY <1>6
<1>8. MarkedBy(t)
  BY <1>2, <1>5 DEF InOrder
<1>9. row.touched <= clock /\ MarkedBy(row.touched)
  <2>1. run.touched <= row.touched /\ row.touched <= clock /\ row.touched \in Time
    BY <1>4, <1>6 DEF ClosingInv, CopyRow
  <2> SUFFICES ASSUME NEW s \in Stops, stop[s].marked # Never PROVE stop[s].marked <= row.touched
    BY <2>1 DEF MarkedBy
  <2>2. stop[s].marked \in Time /\ run.touched \in Time /\ stop[s].marked <= run.touched
    BY <1>5 DEF InOrder, MarkedBy, WalkTypes, StopRow, RunRow
  <2> QED
    BY <2>1, <2>2, NeverIsNoTime DEF Time
<1>10. RowInOrder(row)
  <2>1. run.paused >= 0
    BY <1>5 DEF InOrder, Going
  <2>2. row.status \in {"completed", "cancelled"} /\ row.endedAt # Never
    BY <1>6, NeverIsNoTime DEF Time
  <2> QED
    BY <1>6, <1>7, <1>8, <1>9, <2>1, <2>2 DEF RowInOrder, Going
<1> QED
  BY <1>4, <1>6, <1>10, RowOnly

\* From an older copy: the run is over, however its walker went on.
LEMMA ClosingLate ==
    ASSUME WalkInv \/ Overtaken, ClosingInv, NEW c \in Closers, CloseIdle(c), run # closing[c].row
    PROVE  Overtaken'
<1>1. WalkTypes /\ ReachedOrPassedBy /\ MarkedBy(clock)
  BY AllInThePast
<1>2. PICK row : row = ClosedFrom(closing[c], WalkedFar)
  OBVIOUS
<1>3. PICK walked \in BOOLEAN : walked = WalkedFar
  BY DEF WalkedFar
<1>4. closing[c] # Never /\ run' = row /\ UNCHANGED <<clock, stop>> /\ overtaken'
  BY <1>2 DEF CloseIdle
<1>5. /\ row \in RunRow /\ row.status \notin Going
      /\ row.endedAt \in Time /\ row.endedAt <= clock
  BY <1>1, <1>2, <1>3, <1>4, ClosedRow DEF Going
<1> QED
  BY <1>1, <1>4, <1>5, NeverIsNoTime DEF Overtaken, WalkTypes, ReachedOrPassedBy, MarkedBy, Time

\* Either way the copy is done with.
LEMMA ClosingKeeps ==
    ASSUME ClosingInv, NEW c \in Closers, CloseIdle(c)
    PROVE  ClosingInv'
<1>1. closing' = [closing EXCEPT ![c] = Never] /\ UNCHANGED clock
      /\ overtaken' = (overtaken \/ run # closing[c].row)
  BY DEF CloseIdle
<1>2. closing'[c] = Never /\ DOMAIN closing' = Closers
      /\ \A other \in Closers \ {c} : closing'[other] = closing[other]
  BY <1>1 DEF ClosingInv
<1> QED
  BY <1>1, <1>2 DEF ClosingInv

LEMMA ActsKeepOrder ==
    ASSUME WalkInv, UNCHANGED clock, NEW q \in Requests, Acts(q)
    PROVE  WalkInv'
<1>1. CASE CompleteStop(q)
  BY <1>1, MarkKeepsOrder
<1>2. CASE UncompleteStop(q)
  BY <1>2, UnmarkKeepsOrder
<1>3. CASE SkipStop(q)
  BY <1>3, SkipKeepsOrder
<1>4. CASE UnskipStop(q)
  BY <1>4, UnskipKeepsOrder
<1>5. CASE Pause(q)
  BY <1>5, PauseKeepsOrder
<1>6. CASE Resume(q)
  BY <1>6, ResumeKeepsOrder
<1>7. CASE Complete(q)
  BY <1>7, CompleteKeepsOrder
<1>8. CASE Cancel(q)
  BY <1>8, CancelKeepsOrder
<1>9. CASE FinishEarly(q)
  BY <1>9, FinishEarlyKeepsOrder
<1> QED
  BY <1>1, <1>2, <1>3, <1>4, <1>5, <1>6, <1>7, <1>8, <1>9 DEF Acts

-----------------------------------------------------------------------------
(* The queue.                                                               *)

\* An event is recorded by the one delivery that changes the run; deliveries
\* in flight serve what the app has sent.
Counted(i) == changes[i] \in {0, 1} /\ (i \notin recorded => changes[i] = 0)

QueueInv ==
    /\ sent \in [Ids -> Requests \cup {Never}]
    /\ flight \in [Deliveries -> Ids \cup {NoId}]
    /\ \A d \in Deliveries : flight[d] # NoId => sent[flight[d]] # Never
    /\ changes \in [Ids -> Nat] /\ recorded \subseteq Ids
    /\ \A i \in Ids : Counted(i)

LEMMA QueueBegins == TimelineInit => QueueInv
BY IdsAssumption DEF TimelineInit, QueueInv, Counted

\* Taking in, delivering, answering and losing change no count.
LEMMA QueueMoves ==
    ASSUME QueueInv,
           \/ \E i \in Ids : Enqueue(i)
           \/ \E i \in Ids, d \in Deliveries : Deliver(d, i)
           \/ \E d \in Deliveries : ApplyNothing(d) \/ Lose(d)
    PROVE  QueueInv'
<1>1. CASE \E i \in Ids : Enqueue(i)
  <2>1. PICK i \in Ids, q \in Requests : sent[i] = Never /\ sent' = [sent EXCEPT ![i] = q]
    BY <1>1 DEF Enqueue
  <2>2. UNCHANGED <<flight, changes, recorded>>
    BY <1>1 DEF Enqueue
  <2>3. sent' \in [Ids -> Requests \cup {Never}] /\ \A j \in Ids \ {i} : sent'[j] = sent[j]
    BY <2>1 DEF QueueInv
  <2>4. \A d \in Deliveries : flight[d] # NoId => flight[d] \in Ids \ {i}
    BY <2>1 DEF QueueInv
  <2> QED
    BY <2>2, <2>3, <2>4 DEF QueueInv, Counted
<1>2. CASE \E i \in Ids, d \in Deliveries : Deliver(d, i)
  <2>1. PICK i \in Ids, d \in Deliveries : Deliver(d, i)
    BY <1>2
  <2>2. UNCHANGED <<sent, changes, recorded>> /\ sent[i] # Never
        /\ flight' = [flight EXCEPT ![d] = i]
    BY <2>1 DEF Deliver
  <2> QED
    BY <2>2 DEF QueueInv, Counted
<1>3. CASE \E d \in Deliveries : ApplyNothing(d) \/ Lose(d)
  <2>1. PICK d \in Deliveries : ApplyNothing(d) \/ Lose(d)
    BY <1>3
  <2>2. UNCHANGED <<sent, changes, recorded>> /\ flight' = [flight EXCEPT ![d] = NoId]
    BY <2>1 DEF ApplyNothing, Lose, Answer
  <2> QED
    BY <2>2 DEF QueueInv, Counted
<1> QED
  BY <1>1, <1>2, <1>3

\* The delivery that gets its event in is the first to change the run under
\* this id.
LEMMA ApplyCountsOnce ==
    ASSUME QueueInv, NEW d \in Deliveries, Apply(d)
    PROVE  QueueInv' /\ flight[d] \in Ids /\ sent[flight[d]] \in Requests
<1>1. PICK i : i = flight[d]
  OBVIOUS
<1>2. i \in Ids /\ sent[i] \in Requests
  BY <1>1 DEF Apply, QueueInv
<1>3. i \notin recorded /\ changes[i] = 0
  BY <1>1, <1>2 DEF Apply, InsertAdmits, QueueInv, Counted
<1>4. PICK more \in {0, 1} : changes' = [changes EXCEPT ![i] = more]
  <2>1. PICK count : count = IF walk' = walk THEN changes[i] ELSE changes[i] + 1
    OBVIOUS
  <2>2. changes' = [changes EXCEPT ![i] = count]
    BY <1>1, <1>2, <2>1 DEF Apply, QueueInv
  <2>3. count \in {0, 1}
    BY <1>3, <2>1
  <2> QED
    BY <2>2, <2>3
<1>5. recorded' = recorded \cup {i} /\ flight' = [flight EXCEPT ![d] = NoId] /\ UNCHANGED sent
  BY <1>1 DEF Apply, Answer
<1>6. changes' \in [Ids -> Nat] /\ changes'[i] = more /\ \A j \in Ids \ {i} : changes'[j] = changes[j]
  BY <1>2, <1>4 DEF QueueInv
<1>7. \A j \in Ids : Counted(j)'
  BY <1>5, <1>6 DEF QueueInv, Counted
<1>8. /\ flight' \in [Deliveries -> Ids \cup {NoId}]
      /\ \A e \in Deliveries : flight'[e] # NoId => sent'[flight'[e]] # Never
  BY <1>5 DEF QueueInv
<1> QED
  BY <1>1, <1>2, <1>5, <1>6, <1>7, <1>8 DEF QueueInv

-----------------------------------------------------------------------------
(* The ledger.                                                              *)

LedgerEntries == [action: {"pause", "end_day", "resume"}, at: Time]

LEMMA LedgerGrows ==
    ASSUME WalkInv, ledger \in Seq(LedgerEntries), NEW q \in Requests, Acts(q)
    PROVE  ledger' \in Seq(LedgerEntries)
<1>1. CASE UNCHANGED ledger
  BY <1>1
<1>2. CASE q.action \in {"pause", "end_day"} /\ Pause(q)
  <2>1. Resolved(q.at, LatestMark) \in Time
    BY Known, RequestRows, ResolvedInTime
  <2>2. [action |-> q.action, at |-> Resolved(q.at, LatestMark)] \in LedgerEntries
    BY <1>2, <2>1 DEF LedgerEntries
  <2> QED
    BY <1>2, <2>2 DEF Pause
<1>3. CASE Resume(q)
  <2>1. Resolved(q.at, PauseOrStart) \in Time
    BY Known, RequestRows, ResolvedInTime
  <2>2. [action |-> "resume", at |-> Resolved(q.at, PauseOrStart)] \in LedgerEntries
    BY <2>1 DEF LedgerEntries
  <2> QED
    BY <1>3, <2>2 DEF Resume
<1> QED
  BY <1>1, <1>2, <1>3
     DEF Acts, CompleteStop, UncompleteStop, SkipStop, UnskipStop, Complete, Cancel, FinishEarly

-----------------------------------------------------------------------------
(* The theorems.                                                            *)

TimelineInv == (WalkInv \/ Overtaken) /\ ClosingInv /\ QueueInv /\ ledger \in Seq(LedgerEntries)

LEMMA TimelineBegins == TimelineInit => TimelineInv
<1>1. TimelineInit => ledger = <<>>
  BY DEF TimelineInit
<1> QED
  BY <1>1, WalkBegins, ClosingBegins, QueueBegins DEF TimelineInv

\* What acts, acts on a run that is not over.
LEMMA ActsWhileGoing == \A q : Acts(q) => run.status \in Going
BY DEF Acts, Going, CompleteStop, UncompleteStop, SkipStop, UnskipStop, Pause, Resume,
       Complete, Cancel, FinishEarly

LEMMA ActsKeep ==
    ASSUME TimelineInv, UNCHANGED <<clock, closing, overtaken>>, NEW q \in Requests, Acts(q)
    PROVE  WalkInv' /\ ClosingInv' /\ ledger' \in Seq(LedgerEntries)
<1>1. WalkInv
  BY ActsWhileGoing DEF TimelineInv, Overtaken
<1> QED
  BY <1>1, ActsKeepOrder, LedgerGrows DEF TimelineInv, ClosingInv

LEMMA TimePasses == TimelineInv /\ Tick => TimelineInv'
<1> SUFFICES ASSUME TimelineInv, Tick PROVE TimelineInv'
  OBVIOUS
<1>1. UNCHANGED <<run, stop, ledger, recorded, sent, flight, changes, closing, overtaken>>
      /\ clock' = clock + 1 /\ clock < LastInstant
  BY DEF Tick, walk, queue, closeVars
<1>2. WalkTypes /\ ReachedOrPassedBy /\ MarkedBy(clock)
  BY AllInThePast DEF TimelineInv
<1>3. clock' \in Time /\ clock <= clock' /\ clock \in Time /\ run \in RunRow
  BY <1>1, <1>2, NeverIsNoTime DEF WalkTypes, Time
<1>4. \A t \in Time : t <= clock => t <= clock'
  BY <1>3, NeverIsNoTime DEF Time
<1>5. WalkTypes' /\ ReachedOrPassedBy'
  BY <1>1, <1>2, <1>3 DEF WalkTypes, ReachedOrPassedBy
<1>6. ASSUME WalkInv PROVE WalkInv'
  <2>1. /\ run.touched <= clock'
        /\ run.pausedAt # Never => run.pausedAt <= clock'
        /\ run.endedAt # Never => run.endedAt <= clock'
    BY <1>3, <1>4, <1>6 DEF WalkInv, InOrder, RunRow
  <2>2. InOrder'
    BY <1>1, <1>6, <2>1 DEF WalkInv, InOrder, MarkedBy
  <2> QED
    BY <1>5, <2>2 DEF WalkInv
<1>7. ASSUME Overtaken PROVE Overtaken'
  <2>1. run.endedAt <= clock'
    BY <1>3, <1>4, <1>7 DEF Overtaken, RunRow
  <2>2. \A s \in Stops : stop[s].marked # Never => stop[s].marked <= clock'
    BY <1>2, <1>4 DEF MarkedBy, WalkTypes, StopRow
  <2> QED
    BY <1>1, <1>5, <1>7, <2>1, <2>2 DEF Overtaken, MarkedBy
<1>8. ClosingInv'
  <2> SUFFICES ASSUME NEW c \in Closers, closing[c] # Never
               PROVE  /\ closing[c].now <= clock'
                      /\ closing[c].row.pausedAt # Never => closing[c].row.pausedAt <= clock'
    BY <1>1 DEF TimelineInv, ClosingInv
  <2>1. /\ closing[c].row \in RunRow /\ closing[c].now \in Time /\ closing[c].now <= clock
        /\ closing[c].row.pausedAt # Never => closing[c].row.pausedAt <= clock
    BY DEF TimelineInv, ClosingInv, CopyRow
  <2> QED
    BY <1>4, <2>1 DEF RunRow
<1> QED
  BY <1>1, <1>6, <1>7, <1>8 DEF TimelineInv, QueueInv, Counted

LEMMA IdleCloses == TimelineInv /\ IdleClosing => TimelineInv'
<1> SUFFICES ASSUME TimelineInv, NEW c \in Closers, ReadIdle(c) \/ CloseIdle(c) PROVE TimelineInv'
  BY DEF IdleClosing
<1>1. UNCHANGED <<clock, stop, ledger, recorded, sent, flight, changes>>
  BY DEF ReadIdle, CloseIdle, walk, queue
<1>2. QueueInv' /\ ledger' \in Seq(LedgerEntries)
  BY <1>1 DEF TimelineInv, QueueInv, Counted
<1>3. CASE ReadIdle(c)
  <2>1. UNCHANGED <<run, overtaken>>
    BY <1>3 DEF ReadIdle, walk
  <2>2. WalkInv' \/ Overtaken'
    BY <1>1, <2>1 DEF TimelineInv, WalkInv, Overtaken, WalkTypes, InOrder, MarkedBy, ReachedOrPassedBy
  <2> QED
    BY <1>2, <1>3, <2>2, ReadingKeeps DEF TimelineInv
<1>4. CASE CloseIdle(c)
  <2>1. ClosingInv'
    BY <1>4, ClosingKeeps DEF TimelineInv
  <2>2. CASE run = closing[c].row
    <3>1. WalkInv
      BY <1>4, <2>2 DEF TimelineInv, ClosingInv, Overtaken, CloseIdle
    <3> QED
      BY <1>2, <1>4, <2>1, <2>2, <3>1, ClosingInTimeKeepsOrder DEF TimelineInv
  <2>3. CASE run # closing[c].row
    BY <1>2, <1>4, <2>1, <2>3, ClosingLate DEF TimelineInv
  <2> QED
    BY <2>2, <2>3
<1> QED
  BY <1>3, <1>4

LEMMA TimelineStep == TimelineInv /\ [TimelineNext]_timelineVars => TimelineInv'
<1> SUFFICES ASSUME TimelineInv, [TimelineNext]_timelineVars PROVE TimelineInv'
  OBVIOUS
<1>1. CASE Direct
  <2>1. PICK q \in Requests : Acts(q) /\ UNCHANGED <<clock, recorded, queue, closeVars>>
    BY <1>1 DEF Direct
  <2>2. WalkInv' /\ ClosingInv' /\ ledger' \in Seq(LedgerEntries)
    BY <2>1, ActsKeep DEF closeVars
  <2>3. QueueInv'
    BY <2>1 DEF TimelineInv, QueueInv, Counted, queue
  <2> QED
    BY <2>2, <2>3 DEF TimelineInv
<1>2. CASE \E d \in Deliveries : Apply(d)
  <2>1. PICK d \in Deliveries : Apply(d)
    BY <1>2
  <2>2. QueueInv' /\ sent[flight[d]] \in Requests
    BY <2>1, ApplyCountsOnce DEF TimelineInv
  <2>3. Acts(sent[flight[d]]) /\ UNCHANGED <<clock, closing, overtaken>>
    BY <2>1 DEF Apply, closeVars
  <2> QED
    BY <2>2, <2>3, ActsKeep DEF TimelineInv
<1>3. CASE \/ \E i \in Ids : Enqueue(i)
           \/ \E i \in Ids, d \in Deliveries : Deliver(d, i)
           \/ \E d \in Deliveries : ApplyNothing(d) \/ Lose(d)
  <2>1. UNCHANGED <<clock, run, stop, ledger, closing, overtaken>>
    BY <1>3 DEF Enqueue, Deliver, ApplyNothing, Lose, walk, closeVars
  <2>2. WalkInv' \/ Overtaken'
    BY <2>1 DEF TimelineInv, WalkInv, Overtaken, WalkTypes, InOrder, MarkedBy, ReachedOrPassedBy
  <2>3. ClosingInv' /\ ledger' \in Seq(LedgerEntries)
    BY <2>1 DEF TimelineInv, ClosingInv
  <2> QED
    BY <1>3, <2>2, <2>3, QueueMoves DEF TimelineInv
<1>4. CASE UNCHANGED timelineVars
  BY <1>4 DEF TimelineInv, WalkInv, Overtaken, WalkTypes, InOrder, MarkedBy, ReachedOrPassedBy,
              ClosingInv, QueueInv, Counted, timelineVars
<1> QED
  BY <1>1, <1>2, <1>3, <1>4, TimePasses, IdleCloses DEF TimelineNext, Offline

LEMMA TimelineInvHolds == TimelineSpec => []TimelineInv
BY TimelineBegins, TimelineStep, PTL DEF TimelineSpec

\* The types hold.
LEMMA InvHasTypes == TimelineInv => TimelineTypeOK
<1>1. TimelineInv => WalkTypes
  BY AllInThePast DEF TimelineInv
<1> QED
  BY <1>1 DEF TimelineInv, WalkTypes, QueueInv, ClosingInv, CopyRow, TimelineTypeOK,
              RunRow, StopRow, LedgerEntries

THEOREM TimelineTypesHold == TimelineSpec => []TimelineTypeOK
BY InvHasTypes, TimelineInvHolds, PTL

\* However wrong, late or repeated what the app reports, the run's times and
\* marks tell one history (resolve_event_time and the handlers' floors); of a
\* run closed from a copy it had moved on from, only that it is over and that
\* nothing of it is in the future (_close_if_idle).
LEMMA InvIsSound == TimelineInv => HistoryIsSound
BY InOrderIsSound, OvertakenIsSound DEF TimelineInv

THEOREM HistoryStaysSound == TimelineSpec => []HistoryIsSound
BY InvIsSound, TimelineInvHolds, PTL

\* Deliveries of one event change the run at most once between them
\* (_commit_event).
THEOREM EventsCountOnce == TimelineSpec => []ChangesAtMostOnce
<1>1. TimelineInv => ChangesAtMostOnce
  BY DEF TimelineInv, QueueInv, Counted, ChangesAtMostOnce
<1> QED
  BY <1>1, TimelineInvHolds, PTL

\* A run that is over keeps its history, whatever arrives; a closer that read
\* the run before may write its end again, and no more.
LEMMA EndKept ==
    ASSUME TimelineInv, [TimelineNext]_timelineVars, run.status \notin Going
    PROVE  /\ stop' = stop /\ ledger' = ledger
           /\ run'.status \notin Going /\ run'.paused = run.paused
           /\ closing' = closing => run' = run
<1>1. CASE \E c \in Closers : CloseIdle(c)
  <2>1. PICK c \in Closers : CloseIdle(c)
    BY <1>1
  <2>2. closing[c] # Never /\ closing' = [closing EXCEPT ![c] = Never]
        /\ run' = ClosedFrom(closing[c], WalkedFar) /\ UNCHANGED <<stop, ledger>>
    BY <2>1 DEF CloseIdle
  <2>3. closing' # closing
    BY <2>2 DEF TimelineInv, ClosingInv
  <2>4. WalkTypes /\ ClosingInv
    BY AllInThePast DEF TimelineInv
  <2>5. PICK walked \in BOOLEAN : walked = WalkedFar
    BY DEF WalkedFar
  <2>6. run'.status \notin Going /\ run'.paused = run.paused
    BY <2>2, <2>4, <2>5, ClosedRow DEF Going
  <2> QED
    BY <2>2, <2>3, <2>6
<1>2. CASE ~\E c \in Closers : CloseIdle(c)
  <2>1. ~Direct /\ \A d : ~Apply(d)
    BY ActsWhileGoing DEF Direct, Apply
  <2>2. UNCHANGED <<run, stop, ledger>>
    BY <1>2, <2>1 DEF TimelineNext, Offline, Tick, IdleClosing, ReadIdle, Enqueue, Deliver,
                      ApplyNothing, Lose, walk, timelineVars
  <2> QED
    BY <2>2
<1> QED
  BY <1>1, <1>2

THEOREM TheEndIsFrozen == TimelineSpec => EndedIsFrozen
<1>1. TimelineInv /\ [TimelineNext]_timelineVars =>
          [run.status \notin Going =>
              /\ stop' = stop /\ ledger' = ledger
              /\ run'.status \notin Going /\ run'.paused = run.paused
              /\ closing' = closing => run' = run]_timelineVars
  BY EndKept
<1> QED
  BY <1>1, TimelineInvHolds, PTL DEF TimelineSpec, EndedIsFrozen
=============================================================================
