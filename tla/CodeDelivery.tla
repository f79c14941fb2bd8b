---------------------------- MODULE CodeDelivery ----------------------------
(***************************************************************************)
(* One-time codes on their way: each is a job in the database, sent by a   *)
(* task of the request that issued it or by the poller of any process.     *)
(*                                                                         *)
(* A worker is a task or a sweep.  It claims a job, loads it, calls the    *)
(* provider and records the answer, and may be killed between any two of   *)
(* them.  In a slow behaviour a worker that lives may be taken for dead,   *)
(* for it needs more than the 2 minutes a claim is given.  In a garbled    *)
(* one the provider may take a message whose answer then breaks off or     *)
(* cannot be read, which only a timeout makes ambiguous: the rest passes   *)
(* for a refusal.                                                          *)
(***************************************************************************)
EXTENDS Naturals, FiniteSetsExt

CONSTANTS
    Workers,
    MaxAttempts,   \* sms_max_attempts
    MaxJobs,       \* bound: codes sent
    MaxCrashes     \* bound: workers killed

ASSUME DeliveryAssumption ==
    /\ MaxAttempts \in Nat \ {0}
    /\ MaxJobs \in Nat
    /\ MaxCrashes \in Nat

Jobs == 1..MaxJobs

VARIABLES
    slow,
    garbled,
    job,           \* job[j]: a row of sms_delivery_jobs
    scheduled,     \* jobs whose task is created and has not begun
    pollLock,      \* the worker whose token is in redis, if any
    worker,        \* worker[w]: where it is
    accepted,      \* history: accepted[j]: messages the provider took
    crashes

deliveryVars == <<slow, garbled, job, scheduled, pollLock, worker, accepted, crashes>>
startVars == <<slow, garbled, scheduled>>

NoOne == "no one"
NoJob == [status |-> "none", attempts |-> 0, text |-> FALSE, due |-> FALSE, stale |-> FALSE]
Idle == [at |-> "idle", todo |-> {}, job |-> 0, attempts |-> 0, answer |-> "none"]

DeliveryInit ==
    /\ slow \in BOOLEAN /\ garbled \in BOOLEAN
    /\ job = [j \in Jobs |-> NoJob]
    /\ scheduled = {}
    /\ pollLock = NoOne
    /\ worker = [w \in Workers |-> Idle]
    /\ accepted = [j \in Jobs |-> 0]
    /\ crashes = 0

----------------------------------------------------------------------------
(* Workers.                                                                *)

\* schedule_delivery, after the commit that made the job.
CreateJob(j) ==
    /\ job[j].status = "none"
    /\ job' = [job EXCEPT ![j] = [NoJob EXCEPT !.status = "pending", !.text = TRUE, !.due = TRUE]]
    /\ scheduled' = scheduled \union {j}
    /\ UNCHANGED <<slow, garbled, pollLock, worker, accepted, crashes>>

Sweeping(w) == pollLock = w

StartTask(w, j) ==
    /\ worker[w].at = "idle"
    /\ j \in scheduled
    /\ scheduled' = scheduled \ {j}
    /\ worker' = [worker EXCEPT ![w] = [Idle EXCEPT !.at = "next", !.todo = {j}]]
    /\ UNCHANGED <<slow, garbled, job, pollLock, accepted, crashes>>

\* sweep_once: one at a time as long as the key lasts.
StartSweep(w) ==
    /\ worker[w].at = "idle"
    /\ pollLock = NoOne
    /\ pollLock' = w
    /\ worker' = [worker EXCEPT ![w] = [Idle EXCEPT !.at = "recover"]]
    /\ UNCHANGED <<startVars, job, accepted, crashes>>

Over(row) == [row EXCEPT !.status = "failed", !.text = FALSE, !.due = FALSE, !.stale = FALSE]

TryAgain(row) == [row EXCEPT !.status = "pending", !.due = TRUE, !.stale = FALSE]  \* fault
LeftLying(row) == row  \* fault
\* A crash leaves the outcome unknown, so the job is over.
Recovered(row) == Over(row)

Recover(w) ==
    /\ worker[w].at = "recover"
    /\ job' = [j \in Jobs |-> IF job[j].status = "sending" /\ job[j].stale
                               THEN Recovered(job[j]) ELSE job[j]]
    /\ worker' = [worker EXCEPT ![w].at = "list"]
    /\ UNCHANGED <<startVars, pollLock, accepted, crashes>>

Claimable(j) == job[j].status = "pending" /\ job[j].attempts < MaxAttempts /\ job[j].due

ListJobs(w) ==
    /\ worker[w].at = "list"
    /\ worker' = [worker EXCEPT ![w].at = "next", ![w].todo = {j \in Jobs : Claimable(j)}]
    /\ UNCHANGED <<startVars, job, pollLock, accepted, crashes>>

\* _claim_job: one UPDATE that finds the job pending, or does nothing.
Claim(w, j) ==
    /\ worker[w].at = "next" /\ j \in worker[w].todo
    /\ IF Claimable(j)
       THEN /\ job' = [job EXCEPT ![j].status = "sending", ![j].attempts = @ + 1, ![j].stale = FALSE]
            /\ worker' = [worker EXCEPT ![w] = [at |-> "claimed", todo |-> @.todo \ {j}, job |-> j,
                                                attempts |-> job[j].attempts + 1, answer |-> "none"]]
       ELSE /\ worker' = [worker EXCEPT ![w].todo = @ \ {j}]
            /\ UNCHANGED job
    /\ UNCHANGED <<startVars, pollLock, accepted, crashes>>

Freed(row) == [row EXCEPT !.at = "next", !.job = 0, !.attempts = 0, !.answer = "none"]

\* The code was cleared under it.
GiveUp(w) ==
    LET j == worker[w].job
    IN /\ worker[w].at = "claimed"
       /\ ~job[j].text
       /\ job' = [job EXCEPT ![j].status = "failed", ![j].due = FALSE, ![j].stale = FALSE]
       /\ worker' = [worker EXCEPT ![w] = Freed(@)]
       /\ UNCHANGED <<startVars, pollLock, accepted, crashes>>

\* The code is read, and so known to the worker whatever becomes of the row.
Load(w) ==
    /\ worker[w].at = "claimed"
    /\ job[worker[w].job].text
    /\ worker' = [worker EXCEPT ![w].at = "loaded"]
    /\ UNCHANGED <<startVars, job, pollLock, accepted, crashes>>

\* What the worker hears of what the provider did.  Where no answer came in
\* time the message may have been taken.
Hears(answer, took) ==
    /\ answer = "taken" => took
    /\ answer = "refused" /\ ~garbled => ~took

Send(w) ==
    LET j == worker[w].job
    IN /\ worker[w].at = "loaded"
       /\ \E answer \in {"taken", "refused", "ambiguous"}, took \in BOOLEAN :
             /\ Hears(answer, took)
             /\ worker' = [worker EXCEPT ![w].at = "answered", ![w].answer = answer]
             /\ accepted' = IF took THEN [accepted EXCEPT ![j] = @ + 1] ELSE accepted
       /\ UNCHANGED <<startVars, job, pollLock, crashes>>

Final(w) == worker[w].answer = "ambiguous" \/ worker[w].attempts >= MaxAttempts

Sent(row) == [row EXCEPT !.status = "sent", !.text = FALSE, !.due = FALSE, !.stale = FALSE]

\* The row is written as the worker knows it, whatever it has become.
Record(w) ==
    LET j == worker[w].job
    IN /\ worker[w].at = "answered"
       /\ job' = [job EXCEPT ![j] = IF worker[w].answer = "taken" THEN Sent(@)
                                    ELSE IF Final(w) THEN Over(@)
                                    ELSE [@ EXCEPT !.status = "pending", !.due = FALSE, !.stale = FALSE]]
       /\ worker' = [worker EXCEPT ![w] = Freed(@)]
       /\ UNCHANGED <<startVars, pollLock, accepted, crashes>>

\* A sweep deletes its own key only.
Finish(w) ==
    /\ worker[w].at = "next" /\ worker[w].todo = {}
    /\ worker' = [worker EXCEPT ![w] = Idle]
    /\ pollLock' = IF Sweeping(w) THEN NoOne ELSE pollLock
    /\ UNCHANGED <<startVars, job, accepted, crashes>>

\* The process goes down with the worker, and its tasks that wait.
Crash(w) ==
    /\ worker[w].at # "idle"
    /\ crashes < MaxCrashes
    /\ crashes' = crashes + 1
    /\ worker' = [worker EXCEPT ![w] = Idle]
    /\ \E lost \in {{}, scheduled} : scheduled' = scheduled \ lost
    /\ UNCHANGED <<slow, garbled, job, pollLock, accepted>>

\* 60 seconds are less than a sweep over fifty jobs may take.
PollLockRunsOut ==
    /\ pollLock # NoOne
    /\ pollLock' = NoOne
    /\ UNCHANGED <<startVars, job, worker, accepted, crashes>>

ComesDue(j) ==
    /\ job[j].status = "pending" /\ ~job[j].due
    /\ job' = [job EXCEPT ![j].due = TRUE]
    /\ UNCHANGED <<startVars, pollLock, worker, accepted, crashes>>

On(w, j) == worker[w].at \in {"claimed", "loaded", "answered"} /\ worker[w].job = j
AtWork(j) == \E w \in Workers : On(w, j)

GoesStale(j) ==
    /\ job[j].status = "sending" /\ ~job[j].stale
    /\ slow \/ ~AtWork(j)
    /\ job' = [job EXCEPT ![j].stale = TRUE]
    /\ UNCHANGED <<startVars, pollLock, worker, accepted, crashes>>

WorkerStep(w) ==
    \/ Recover(w) \/ ListJobs(w) \/ GiveUp(w) \/ Load(w) \/ Send(w) \/ Record(w) \/ Finish(w)
    \/ \E j \in Jobs : Claim(w, j)

DeliveryNext ==
    \/ \E w \in Workers : WorkerStep(w) \/ StartSweep(w) \/ Crash(w)
    \/ \E w \in Workers, j \in Jobs : StartTask(w, j)
    \/ PollLockRunsOut
    \/ \E j \in Jobs : CreateJob(j) \/ ComesDue(j) \/ GoesStale(j)

\* The pollers try to sweep again and again for as long as the service runs,
\* workers get on and time passes; nothing is assumed of the tasks.
DeliveryFairness ==
    /\ \A w \in Workers : WF_deliveryVars(WorkerStep(w))
    /\ WF_deliveryVars(\E w \in Workers : StartSweep(w))
    /\ WF_deliveryVars(PollLockRunsOut)
    /\ \A j \in Jobs : WF_deliveryVars(ComesDue(j)) /\ WF_deliveryVars(GoesStale(j))

DeliverySpec == DeliveryInit /\ [][DeliveryNext]_deliveryVars /\ DeliveryFairness
----------------------------------------------------------------------------
(* What holds.                                                             *)

DeliveryTypeOK ==
    /\ slow \in BOOLEAN /\ garbled \in BOOLEAN
    /\ job \in [Jobs -> [status: {"none", "pending", "sending", "sent", "failed"},
                          attempts: 0..MaxAttempts, text: BOOLEAN, due: BOOLEAN, stale: BOOLEAN]]
    /\ scheduled \subseteq Jobs
    /\ pollLock \in Workers \union {NoOne}
    /\ worker \in [Workers -> [at: {"idle", "recover", "list", "next", "claimed", "loaded", "answered"},
                               todo: SUBSET Jobs, job: 0..MaxJobs, attempts: 0..MaxAttempts,
                               answer: {"none", "taken", "refused", "ambiguous"}]]
    /\ accepted \in [Jobs -> Nat]
    /\ crashes \in 0..MaxCrashes

\* The provider may yet take the message of a job: the job waits with its
\* code, or whoever is at it may send it, or have it sent again.
MayBeSent(j) ==
    \/ job[j].status = "pending" /\ job[j].text
    \/ \E w \in Workers :
          /\ On(w, j)
          /\ \/ worker[w].at = "claimed" /\ job[j].text
             \/ worker[w].at = "loaded"
             \/ worker[w].at = "answered" /\ worker[w].answer # "taken" /\ ~Final(w) /\ job[j].text

\* Every code is one message (OneMessage).  It is sent at most once, and
\* never any more when it might have been: not again by the sweep while the
\* task sends it, not after a crash, an answer that did not come, or a claim
\* that was given up on while its worker still lives ("retrying could send a
\* second billed OTP", _recover_stale_claims).  Where an answer is garbled it
\* may be sent again, though no more often than it may be tried.
Outbox == INSTANCE OneMessage WITH
    Messages <- Jobs,
    Tries <- MaxAttempts,
    told <- ~garbled,
    offered <- {j \in Jobs : job[j].status # "none"},
    open <- {j \in Jobs : MayBeSent(j)},
    taken <- accepted
OneMessageEach == Outbox!Spec

\* Of that, what a state shows.
SentAtMostOnce == \A j \in Jobs : accepted[j] <= IF garbled THEN MaxAttempts ELSE 1

\* A job that is over keeps no code, also when its worker writes its row
\* after the sweep has given it up.
OverKeepsNoText == \A j \in Jobs : job[j].status \in {"sent", "failed"} => ~job[j].text

\* Every job ends, though its worker may be killed at any point and another
\* may record an answer to a job that is over.
EveryJobEnds ==
    \A j \in Jobs : job[j].status = "pending" ~> job[j].status \in {"sent", "failed"}
============================================================================
