----------------------------- MODULE RouteRuns -----------------------------
(***************************************************************************)
(* The route runs of one walker, as the requests of module                 *)
(* route_execution change them, and the travel points they bring.          *)
(*                                                                         *)
(* A handler that takes its row locks before it reads is one step.  Two    *)
(* requests read before they lock, so each is a worker with a copy of the  *)
(* row it read: GET /active, and a start that finds an idle run.  A worker *)
(* closes the idle run from its copy, and the ORM then writes only the     *)
(* columns that differ from the copy.                                      *)
(*                                                                         *)
(* Data: marks[r] counts the marked required stops (taking back the latest *)
(* mark subtracts one); a run is worth one point per marked stop; the      *)
(* cooldown and the daily cap pay anything from nothing to the full        *)
(* worth; "idle" stands for an updated_at older than the idle limit;       *)
(* "suspect" for counted violations inside the flag window.  Whether a     *)
(* walker is blocked only refuses starts, which a start may always be.     *)
(***************************************************************************)
EXTENDS Naturals

CONSTANTS
    Runs,       \* runs that may be started
    Workers,    \* requests that may be in flight between a read and a lock
    MayIdle,    \* the runs their walker may leave alone for the idle days
    Modes,      \* values the runtime setting af_mode takes
    MaxMarks,   \* required stops of a route
    CountedAt,  \* the setting af_counted_stops_percent
    NoRun, NoWorker

ASSUME RunsAssumption == MayIdle \subseteq Runs /\ NoRun \notin Runs
ASSUME WorkersAssumption == NoWorker \notin Workers
ASSUME ModesAssumption == Modes # {} /\ Modes \subseteq {"off", "shadow", "enforce"}
ASSUME MarksAssumption == MaxMarks \in Nat \ {0} /\ CountedAt \in 0..100

VARIABLES
    run,       \* run[r]: its row of route_executions
    marks,     \* marks[r]: its marked required stops
    idle,      \* runs nobody touched for the idle days
    hold,      \* hold[r]: its row of route_points_holds
    suspect,   \* runs with counted violations in the flag window
    fraud,     \* the walker's row of user_fraud_state
    credited,  \* credited[r]: the part of users.travel_points that came from r
    payouts,   \* history: how many times r was settled with points to pay
    job,       \* job[w]: the request worker w is serving
    userLock   \* who holds the users row between two steps of a request

money == <<hold, credited, payouts>>
watch == <<suspect, fraud>>
requests == <<job, userLock>>
vars == <<run, marks, idle, hold, suspect, fraud, credited, payouts, job, userLock>>

----------------------------------------------------------------------------
GoingOrDone == {"active", "paused", "completed"}  \* fault: a status list too long
Going == {"active", "paused"}
Ended == {"completed", "cancelled"}

RunRow == [status: {"none"} \union Going \union Ended,
           night: BOOLEAN, early: BOOLEAN, counted: BOOLEAN,
           points: {"none", "awarded", "held", "rejected"},
           awarded: Nat, computed: Nat]

BlankRow == [status |-> "none", night |-> FALSE, early |-> FALSE,
             counted |-> TRUE, points |-> "none", awarded |-> 0, computed |-> 0]

HoldRow == [status: {"none", "held", "approved", "rejected"},
            reason: {"none", "flag_retro", "flag_forward"},
            amount: Nat, deducted: Nat]

NoHold == [status |-> "none", reason |-> "none", amount |-> 0, deducted |-> 0]

Job == [stage: {"free", "close", "insert"}, op: {"get", "start"},
        run: Runs \union {NoRun}, copy: RunRow]

FreeJob == [stage |-> "free", op |-> "get", run |-> NoRun, copy |-> BlankRow]

Walking(r) == run[r].status = "active"  \* fault: a paused run is in no start's way
Live(r) == run[r].status \in Going

----------------------------------------------------------------------------
(* Settling a run.                                                         *)

Share(m) == (m * 100) \div MaxMarks
RunCounts(m) == Share(m) >= CountedAt

\* What cooldown and daily cap leave of the points; only enforcing bites.
Limited(points, mode) == IF mode = "enforce" THEN 0..points ELSE {points}

\* The replay guard of _award_completion_points.
Unsettled(row) == row.points = "none" /\ row.awarded = 0

\* A flagged walker's points wait for an operator.
Parked(points, mode) == mode = "enforce" /\ points > 0 /\ fraud.flagged /\ ~fraud.trusted

\* settle_completion_points, on the row: what is parked is not awarded.
Settled(row, points, parked) ==
    IF ~Unsettled(row) THEN row
    ELSE [row EXCEPT !.computed = points,
                     !.awarded  = IF parked THEN 0 ELSE points,
                     !.points   = IF parked THEN "held"
                                  ELSE IF points > 0 THEN "awarded" ELSE "none"]

\* A session's UPDATE sets only the columns that differ from what it loaded.
Flushed(row, loaded, new) ==
    LET Column(now, was, to) == IF to = was THEN now ELSE to
    IN [status   |-> Column(row.status, loaded.status, new.status),
        night    |-> Column(row.night, loaded.night, new.night),
        early    |-> Column(row.early, loaded.early, new.early),
        counted  |-> Column(row.counted, loaded.counted, new.counted),
        points   |-> Column(row.points, loaded.points, new.points),
        awarded  |-> Column(row.awarded, loaded.awarded, new.awarded),
        computed |-> Column(row.computed, loaded.computed, new.computed)]

\* The end of a run by a handler that loaded the row and turned it into the
\* ended row: settle, credit or park, commit.  A second hold for the run
\* breaks a unique constraint and nothing is committed.
EndsPaying(r, loaded, ended, points, mode) ==
    LET parked == Unsettled(ended) /\ Parked(points, mode)
        paid   == Unsettled(ended) /\ points > 0
    IN /\ parked => hold[r] = NoHold
       /\ run' = [run EXCEPT ![r] = Flushed(@, loaded, Settled(ended, points, parked))]
       /\ hold' = IF parked
                  THEN [hold EXCEPT ![r] = [status |-> "held", reason |-> "flag_forward",
                                            amount |-> points, deducted |-> 0]]
                  ELSE hold
       /\ credited' = IF paid /\ ~parked
                      THEN [credited EXCEPT ![r] = @ + points] ELSE credited
       /\ payouts' = IF paid THEN [payouts EXCEPT ![r] = @ + 1] ELSE payouts
       /\ idle' = idle \ {r}
       /\ UNCHANGED <<marks, watch>>

EndsAs(r, loaded, ended) ==
    \E mode \in Modes : \E points \in Limited(marks[r], mode) :
        EndsPaying(r, loaded, ended, points, mode)

Completed(row, m) == [row EXCEPT !.status = "completed", !.counted = RunCounts(m)]

EndedEarly(row) ==
    [row EXCEPT !.status = "cancelled", !.night = FALSE, !.early = TRUE, !.counted = FALSE]

\* _close_abandoned: a run walked far enough is completed, any other cancelled.
Abandoned(row, m) ==
    IF RunCounts(m)
    THEN [row EXCEPT !.status = "completed", !.night = FALSE, !.counted = TRUE]
    ELSE EndedEarly(row)
----------------------------------------------------------------------------
Init ==
    /\ run = [r \in Runs |-> BlankRow]
    /\ marks = [r \in Runs |-> 0]
    /\ idle = {}
    /\ hold = [r \in Runs |-> NoHold]
    /\ suspect = {}
    /\ fraud = [flagged |-> FALSE, trusted |-> FALSE]
    /\ credited = [r \in Runs |-> 0]
    /\ payouts = [r \in Runs |-> 0]
    /\ job = [w \in Workers |-> FreeJob]
    /\ userLock = NoWorker

(* Requests that read first: start_execution and get_active_execution.     *)

\* start_execution locks the user row, then finds no run in the way ...
StartFindsNone(w) ==
    /\ job[w].stage = "free"
    /\ userLock = NoWorker
    /\ \A r \in Runs : ~Live(r)
    /\ job' = [job EXCEPT ![w] = [FreeJob EXCEPT !.stage = "insert", !.op = "start"]]
    /\ userLock' = w
    /\ UNCHANGED <<run, marks, idle, money, watch>>

\* ... or one left idle, which it will close from the copy it read.
StartFindsIdle(w) ==
    /\ job[w].stage = "free"
    /\ userLock = NoWorker
    /\ \E r \in idle :
          /\ Live(r)
          /\ job' = [job EXCEPT ![w] = [stage |-> "close", op |-> "start",
                                        run |-> r, copy |-> run[r]]]
    /\ userLock' = w
    /\ UNCHANGED <<run, marks, idle, money, watch>>

\* get_active_execution reads the run with no lock at all.
GetActiveFindsIdle(w) ==
    /\ job[w].stage = "free"
    /\ \E r \in idle :
          /\ Live(r)
          /\ job' = [job EXCEPT ![w] = [stage |-> "close", op |-> "get",
                                        run |-> r, copy |-> run[r]]]
    /\ UNCHANGED <<run, marks, idle, money, watch, userLock>>

\* The lock is free for w, or w has it already.
MayLock(w) == userLock \in {NoWorker, w}

\* _close_if_idle: lock the user, close the run as it was read, commit and so
\* let go of the lock.  A start goes on to its insert.
CloseIdle(w) ==
    /\ job[w].stage = "close"
    /\ MayLock(w)
    /\ LET r == job[w].run
           copy == job[w].copy
       IN EndsAs(r, copy, Abandoned(copy, marks[r]))
    /\ job' = [job EXCEPT ![w] = IF job[w].op = "start"
                                 THEN [FreeJob EXCEPT !.stage = "insert", !.op = "start"]
                                 ELSE FreeJob]
    /\ userLock' = NoWorker

\* Its points would be parked twice: the request fails and rolls back.
CloseIdleFails(w) ==
    /\ job[w].stage = "close"
    /\ MayLock(w)
    /\ hold[job[w].run] # NoHold
    /\ \E mode \in Modes : \E points \in Limited(marks[job[w].run], mode) : Parked(points, mode)
    /\ job' = [job EXCEPT ![w] = FreeJob]
    /\ userLock' = NoWorker
    /\ UNCHANGED <<run, marks, idle, money, watch>>

\* The partial unique index admits one going run per user.
IndexAdmits == \A r \in Runs : ~Live(r)

StartInserts(w) ==
    /\ job[w].stage = "insert"
    /\ MayLock(w)
    /\ IndexAdmits
    /\ \E r \in Runs :
          /\ run[r].status = "none"
          /\ run' = [run EXCEPT ![r] = [BlankRow EXCEPT !.status = "active"]]
    /\ job' = [job EXCEPT ![w] = FreeJob]
    /\ userLock' = NoWorker
    /\ UNCHANGED <<marks, idle, money, watch>>

\* Fault: the refused start is tried again for as long as it is refused.
StartRetried(w) ==
    /\ job[w].stage = "insert"
    /\ MayLock(w)
    /\ userLock' = NoWorker
    /\ UNCHANGED <<run, marks, idle, money, watch, job>>

\* The start is refused: the index, a guard (block, road event, quality) or,
\* here, no run left to start within the bound.
StartRefused(w) ==
    /\ job[w].stage = "insert"
    /\ MayLock(w)
    /\ job' = [job EXCEPT ![w] = FreeJob]
    /\ userLock' = NoWorker
    /\ UNCHANGED <<run, marks, idle, money, watch>>

----------------------------------------------------------------------------
(* Handlers that hold the user row: no worker may have it.                 *)

Touch(r) == idle' = idle \ {r}

\* Credited runs that a new flag pulls back (_hold_recent_runs).
Pulled(seen) == {r \in seen : /\ run[r].status = "completed"
                              /\ run[r].points = "awarded"
                              /\ run[r].awarded > 0}

\* _flag: every run of S waits for an operator; what the balance still has of
\* its points is taken off.
PullBack(S) ==
    /\ \A r \in S : hold[r] = NoHold
    /\ \E taken \in [S -> 0..MaxMarks] :
          /\ \A r \in S : taken[r] <= run[r].awarded
          /\ hold' = [r \in Runs |->
                        IF r \in S THEN [status |-> "held", reason |-> "flag_retro",
                                         amount |-> run[r].awarded, deducted |-> taken[r]]
                        ELSE hold[r]]
          /\ credited' = [r \in Runs |->
                            IF r \in S THEN credited[r] - taken[r] ELSE credited[r]]
    /\ run' = [r \in Runs |->
                 IF r \in S THEN [run[r] EXCEPT !.points = "held", !.awarded = 0] ELSE run[r]]

\* complete_stop, judged clean or not judged at all.
MarkStop(r) ==
    /\ userLock = NoWorker
    /\ run[r].status = "active"
    /\ marks[r] < MaxMarks
    /\ marks' = [marks EXCEPT ![r] = @ + 1]
    /\ Touch(r)
    /\ UNCHANGED <<run, money, watch, requests>>

\* complete_stop with a counted violation; when enforcing it may be the one
\* that raises the flag.
MarkStopTooFast(r, mode) ==
    /\ userLock = NoWorker
    /\ mode # "off"
    /\ run[r].status = "active"
    /\ marks[r] < MaxMarks
    /\ ~fraud.trusted
    /\ marks' = [marks EXCEPT ![r] = @ + 1]
    /\ Touch(r)
    /\ suspect' = suspect \union {r}
    /\ \/ UNCHANGED <<run, money, fraud>>
       \/ /\ mode = "enforce"
          /\ ~fraud.flagged
          /\ fraud' = [fraud EXCEPT !.flagged = TRUE]
          /\ PullBack(Pulled(suspect \union {r}))
          /\ UNCHANGED payouts
    /\ UNCHANGED requests

\* complete_stop with the violation that earns a block: counting starts over
\* before a walker not yet flagged is flagged, so no credited run is seen any
\* more.  Only a mark timed by the server counts in the new window.
MarkStopBlocks(r) ==
    /\ userLock = NoWorker
    /\ "enforce" \in Modes
    /\ run[r].status = "active"
    /\ marks[r] < MaxMarks
    /\ ~fraud.trusted
    /\ marks' = [marks EXCEPT ![r] = @ + 1]
    /\ Touch(r)
    /\ suspect' \in {{}, {r}}
    /\ fraud' = [fraud EXCEPT !.flagged = TRUE]
    /\ UNCHANGED <<run, money, requests>>

\* Fault: a retried request takes a mark back again.
UnmarkAgain(r) ==
    /\ userLock = NoWorker
    /\ Live(r)
    /\ marks' = [marks EXCEPT ![r] = @ - 1]
    /\ Touch(r)
    /\ UNCHANGED <<run, money, watch, requests>>

\* uncomplete_stop: the violation it drew stays in the journal.
UnmarkStop(r) ==
    /\ userLock = NoWorker
    /\ Live(r)
    /\ marks[r] > 0
    /\ marks' = [marks EXCEPT ![r] = @ - 1]
    /\ Touch(r)
    /\ UNCHANGED <<run, money, watch, requests>>

\* skip_stop (only while active) and unskip_stop change no mark.
SkipStop(r) ==
    /\ userLock = NoWorker
    /\ Live(r)
    /\ Touch(r)
    /\ UNCHANGED <<run, marks, money, watch, requests>>

Complete(r) ==
    /\ userLock = NoWorker
    /\ run[r].status = "active"
    /\ marks[r] > 0
    /\ EndsAs(r, run[r], Completed(run[r], marks[r]))
    /\ UNCHANGED requests

FinishEarly(r) ==
    /\ userLock = NoWorker
    /\ Live(r)
    /\ EndsAs(r, run[r], EndedEarly(run[r]))
    /\ UNCHANGED requests

----------------------------------------------------------------------------
(* Handlers that lock only the row of the run.                             *)

Pause(r, night) ==
    /\ run[r].status = "active"
    /\ run' = [run EXCEPT ![r] = [@ EXCEPT !.status = "paused", !.night = @ \/ night]]
    /\ Touch(r)
    /\ UNCHANGED <<marks, money, watch, requests>>

Resume(r) ==
    /\ run[r].status = "paused"
    /\ run' = [run EXCEPT ![r] = [@ EXCEPT !.status = "active", !.night = FALSE]]
    /\ Touch(r)
    /\ UNCHANGED <<marks, money, watch, requests>>

\* Pays nothing, and leaves night_paused as it was.
Cancel(r) ==
    /\ Live(r)
    /\ run' = [run EXCEPT ![r] = [@ EXCEPT !.status = "cancelled", !.counted = FALSE]]
    /\ Touch(r)
    /\ UNCHANGED <<marks, money, watch, requests>>

----------------------------------------------------------------------------
(* Operators, and time.                                                    *)

\* A retro hold gives back what it took, a forward hold pays what it parked.
WholeAmount(h) == h.amount  \* fault: a hold always pays its amount
CreditOf(h) == IF h.reason = "flag_forward" THEN h.amount ELSE h.deducted

AnyHold(r) == hold[r] # NoHold  \* fault: a decided hold is decided again
Undecided(r) == hold[r].status = "held"

\* decide_hold: a decided hold is left alone.
DecideHold(r, approve) ==
    /\ userLock = NoWorker
    /\ Undecided(r)
    /\ LET credit == IF approve THEN CreditOf(hold[r]) ELSE 0
       IN /\ credited' = [credited EXCEPT ![r] = @ + credit]
          /\ run' = [run EXCEPT ![r] =
                       [@ EXCEPT !.points = IF approve THEN "awarded" ELSE "rejected",
                                 !.awarded = credit]]
    /\ hold' = [hold EXCEPT ![r].status = IF approve THEN "approved" ELSE "rejected"]
    /\ Touch(r)
    /\ UNCHANGED <<marks, payouts, watch, requests>>

\* Fault: the flag is cleared but old violations go on counting.
ResetFlagOnly ==
    /\ userLock = NoWorker
    /\ fraud.flagged
    /\ fraud' = [fraud EXCEPT !.flagged = FALSE]
    /\ UNCHANGED <<run, marks, idle, suspect, money, requests>>

\* reset_flag starts counting from scratch.
ResetFlag ==
    /\ userLock = NoWorker
    /\ fraud.flagged \/ suspect # {}
    /\ fraud' = [fraud EXCEPT !.flagged = FALSE]
    /\ suspect' = {}
    /\ UNCHANGED <<run, marks, idle, money, requests>>

SetTrusted ==
    /\ userLock = NoWorker
    /\ fraud' = [fraud EXCEPT !.trusted = ~@]
    /\ UNCHANGED <<run, marks, idle, suspect, money, requests>>

\* The idle days pass since the run was last touched.
GoesIdle(r) ==
    /\ r \in MayIdle
    /\ Live(r)
    /\ idle' = idle \union {r}
    /\ UNCHANGED <<run, marks, money, watch, requests>>

\* A run's violations fall out of the flag window.
ViolationsAge(r) ==
    /\ r \in suspect
    /\ suspect' = suspect \ {r}
    /\ UNCHANGED <<run, marks, idle, fraud, money, requests>>

----------------------------------------------------------------------------
Serve(w) == CloseIdle(w) \/ CloseIdleFails(w) \/ StartInserts(w) \/ StartRefused(w)

RequestStep == \E w \in Workers :
    StartFindsNone(w) \/ StartFindsIdle(w) \/ GetActiveFindsIdle(w) \/ Serve(w)

RunStep == \E r \in Runs :
    \/ MarkStop(r) \/ (\E mode \in Modes : MarkStopTooFast(r, mode)) \/ MarkStopBlocks(r)
    \/ UnmarkStop(r) \/ SkipStop(r)
    \/ Complete(r) \/ FinishEarly(r)
    \/ Pause(r, TRUE) \/ Pause(r, FALSE) \/ Resume(r) \/ Cancel(r)
    \/ DecideHold(r, TRUE) \/ DecideHold(r, FALSE)
    \/ GoesIdle(r) \/ ViolationsAge(r)

Next == RequestStep \/ RunStep \/ ResetFlag \/ SetTrusted

Spec == Init /\ [][Next]_vars

\* The event loop resumes every request, and the database queues the waiters
\* of a row lock, so each gets its turn however many others come and go.
FairSpec == Spec /\ \A w \in Workers : SF_vars(Serve(w))
----------------------------------------------------------------------------
(* What holds.                                                             *)

TypeOK ==
    /\ run \in [Runs -> RunRow]
    /\ marks \in [Runs -> 0..MaxMarks]
    /\ idle \subseteq Runs
    /\ hold \in [Runs -> HoldRow]
    /\ suspect \subseteq Runs
    /\ fraud \in [flagged: BOOLEAN, trusted: BOOLEAN]
    /\ credited \in [Runs -> Nat]
    /\ payouts \in [Runs -> Nat]
    /\ job \in [Workers -> Job]
    /\ userLock \in Workers \union {NoWorker}

\* A walker is on one run at a time, paused runs included, however starts,
\* closings of idle runs and unlocked pauses interleave (start_execution).
OneLiveRun == \A r, q \in Runs : Live(r) /\ Live(q) => r = q

\* The runs whose walker never leaves them alone for the idle days; only the
\* others can be closed from a copy.
Attended == Runs \ MayIdle

\* A run that is over never gets going again, whoever acts on it and however
\* late; how an attended run ended and whether it counts is fixed at its end
\* (_end_early, complete_execution: "fixed here and never recomputed").
StaysEnded(r) ==
    run[r].status \in Ended =>
        /\ run'[r].status \in Ended
        /\ r \in Attended => /\ run'[r].status = run[r].status
                             /\ run'[r].early = run[r].early
                             /\ run'[r].counted = run[r].counted
EndedIsFinal == [][\A r \in Runs : StaysEnded(r)]_vars

\* Through every settlement, pull-back and decision of two operators, a run
\* leaves no more on the balance than it earned, and the row never claims
\* more than is there (settle_completion_points, decide_hold).
NeverOverpaid == \A r \in Attended :
    run[r].awarded <= credited[r] /\ credited[r] <= run[r].computed

\* Whatever waits for an operator or was refused is not shown as awarded, and
\* a run's points wait if and only if its hold does (RoutePointsHold).
HoldMatchesRun == \A r \in Attended :
    /\ run[r].points \in {"held", "rejected"} => run[r].awarded = 0
    /\ run[r].points = "held" <=> hold[r].status = "held"
    /\ run[r].points = "rejected" <=> hold[r].status = "rejected"

\* A run is held at most once in its life (one row per execution): raising a
\* flag never trips over the hold of an earlier flag, which would fail the
\* stop mark that raised it.
FlagNeverCollides ==
    ~fraud.flagged => \A r \in Pulled(suspect) : hold[r] = NoHold

\* Row and hold agree now, and no later flag can part them.
HoldsAreSound == HoldMatchesRun /\ FlagNeverCollides

\* The detailed requests keep the promise of the abstract ledger.
Ledger == INSTANCE RunLedger WITH
    Runs   <- Attended,
    over   <- {r \in Attended : run[r].status \in Ended},
    points <- [r \in Attended |-> run[r].points],
    worth  <- [r \in Attended |-> run[r].computed],
    share  <- [r \in Attended |-> credited[r]]
KeepsLedger == Ledger!Spec

\* A request that has read and waits for the lock is served in the end
\* (no handler leaves the users row locked behind it).
EveryRequestEnds == \A w \in Workers : job[w].stage # "free" ~> job[w].stage = "free"

(* What the code's comments say and the code does not keep.                *)

\* "a settled run is never paid twice" (_award_completion_points).
NeverPaidTwice == \A r \in Runs : payouts[r] <= 1

\* A flag pulls "back points of runs that contain counted violations" (_flag):
\* whichever way the run ended, and also when the flag comes with a block.
FlagPullsBack ==
    [][fraud'.flagged /\ ~fraud.flagged =>
          \A r \in suspect : run[r].status \in Ended => run'[r].points # "awarded"]_vars
============================================================================
