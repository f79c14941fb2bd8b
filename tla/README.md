# Verification of the tourism backend

TLA+ models of the parts of this backend (FastAPI, SQLAlchemy, PostgreSQL, redis)
where several requests, operators, background jobs and offline phones meet over
one row. TLC checks them on small instances; TLAPS proves the safety properties
for every value of the constants. Paths are relative to the repository;
`modules/` stands for `src/tourism_backend/modules/`.

1. The system · 2. The modules and the code · 3. What TLC checks ·
4. Where the code departs from what it says · 5. What is proved ·
6. What is not modelled · 7. Plan

## 1. The system

The server is one asyncio process per worker; every request has a database
session of its own and every `await` may let another request in. What requests
share lives in PostgreSQL: isolation is READ COMMITTED, `SELECT ... FOR UPDATE`
takes row locks, and the ORM's `UPDATE` sets the columns that differ from the
row *as this session loaded it*, to values and not to increments. Most of the
hard behaviour of the program comes from these three facts, from phones that
queue actions offline and send them later (and twice), from providers that fail
or answer late, and from operators deciding about something that has moved on.

| Component | State | Operations | Interacts with | What is hard | What makes it correct |
|---|---|---|---|---|---|
| **Route runs and their points** `modules/route_execution/application/execution_*.py`, `antifraud_service.py`, `antifraud_actions.py`, `rewards.py` | `route_executions`, `route_execution_stops`, `route_points_holds`, `user_fraud_state`, `route_pace_violations`, `users.travel_points` | start, get active, mark / unmark / skip / unskip a stop, pause, end a day, resume, complete, finish early, cancel, close an idle run; flag, pull back, park, decide a hold, reset, trust | one transaction settles the run, the balance and the hold; settings are read at each request | rows read before they are locked; handlers that lock different rows; a commit in the middle of a request; a mode that changes; long legal sequences over one hold | one run going per walker; an ended run stays ended; the balance never gets more than a run earned; row, hold and balance agree; no request waits forever |
| **Run timeline and offline sync** `offline_sync.py`, `execution_common.py` | times of run and stops, paused seconds, `route_execution_events` | clamp a reported time, replay a known event, record an event | every handler of a run | late, early, reordered, duplicated deliveries; two deliveries at once | history in order; a stop reached or passed by, not both; nothing changes after the end; an event acts at most once |
| **Routing snapshots** `routing_snapshot.py`, `retention.py` | `route_routing_snapshots` | reuse or append at a start; purge by age | starts, edits of the route | starts at once; a purge that selects, then deletes | revisions unique and in order; a run keeps the route it started with |
| **Travel points and ranks** `modules/identity/application/travel_points.py`, `profile_likes.py`, `modules/favorites` | `users.travel_points`, `rank_id`; `awarded_at` of likes and favourites | like, unlike, favourite, grant what is due, adjust | run settlement; grants run inside profile and leaderboard reads | balance read without a lock | paid once; withdrawn in time is not paid; rank follows points |
| **Anti-fraud judgement** `antifraud_logic.py`, `antifraud_service.py` | violations, `counters_from`, flag, block and its level, awarded points of a day | escalate a violation, lift or set a block, reset, trust; daily cap, cooldown | stop marks, settlement | windows that end at the newest violation; late batches; midnight | a burst is found however late; nobody is punished twice for one violation; caps are never exceeded |
| **Companion groups** `modules/companions` | groups, members, codes, invitations | create, invite, accept, join by code, answer, remove, leave, start together, result | runs, identity blocks | joining races, invitations renewed, the route edited | never over the seats; one live group per walker; one version for all |
| **Identity** `modules/identity/application/service.py`, `tokens`, `sms_delivery.py` | OTP challenges, `sms_delivery_jobs`, refresh sessions | issue, deliver, verify; exchange, log out | redis locks, SMS provider | locks that run out, crashes, answers that are lost, an old token sent again | one live code, sent once; a rotated token is dead |
| **Routes** `modules/routes` | status, revision row, co-authors and consents, days, reviews | save, submit, approve, reject, withdraw, delete; split or set days; review, moderate | moderation, places | a version edited while it waits; consents that are stale; boundaries kept across saves | what people see comes from the queue, sent with everybody's consent; words shown were moderated; days follow the norms |
| **Route builder** `modules/route_builder` | chats, quotas, proposals, wishes and confirmed fields; breaker and cache of the router | turn, generate from the form, accept, reject; ask the router | AI provider, routing provider | commits that drop a lock; cut-offs; time-outs and retries; stale cache | quotas hold; a confirmed wish is the last word; a provider that fails is left alone |
| **Content** `modules/content` | articles, likes, views, comments | edit, submit, moderate, like, comment | moderation | requests that overlap | counts and words are true |
| **Help search and help editions** `modules/support` | encoder slot and line; editions of an article | encode with time-outs; import, publish, withdraw, extend | embedder, operators | callers that give up; publishes that race | the slot is neither lost nor doubled; a withdrawn edition stays hidden |
| **Knowledge index** `modules/knowledge` | `knowledge_chunks`, vectors, advisory lock | nightly reconciliation | editors, embedder | failures, restarts, change of model | after a good night the index is what was published |
| **Achievements** `modules/achievements` | medals, notices | judge after a request, hourly job, operators | everything that earns | lost evaluations, two judges at once | told once; what is earned is granted |
| Places, notifications, moderation, tickets, recommendations, popularity, favourites, statistics, transit, maps, weather, media, admin panel, API shell, scripts, migrations | catalogues, inboxes, caches | see section 6 | - | - | - |

## 2. The modules and the code

`PROJECT.json` maps every definition that models code to the lines it stands
for. All models share three conventions. A handler that takes its locks before
it reads is one action. One that reads first and writes later is two or more,
with a record of what it read; its commit writes only the columns it changed, as
values. A refusal that changes nothing is no step. Variables marked *history*
are read by properties only.

| Module | Models | Run |
|---|---|---|
| `RunLedger` | what the points of a run promise: settled once at the end; credited, parked or nothing; pulled back, approved, rejected. The abstract specification | `route_money` |
| `OneTimeCode`, `OneMessage`, `SessionFamilies`, `HelpDesk` | what one-time codes, their messages, sessions and the encoder promise, with no lock, request, worker or timer in sight. Abstract specifications | `accounts` |
| `RouteRuns` | all requests on the runs of one walker, points, holds, flag and mode | `route_runs`, `route_money` |
| `RunTimeline` | times, stops, pauses of one run; event ids and duplicate deliveries | `accounts` |
| `RoutingSnapshots` | snapshots of one route under starts, edits and a purge | `accounts` |
| `TravelPoints` | points and rank of one user under reactions, grants, settlements | `community` |
| `PaceEscalation` | violations, flag, ladder of blocks | `accounts` |
| `RewardLimits` | daily cap and cooldown of several runs | `community` |
| `CompanionGroups` | groups, members, runs in groups | `community` |
| `CodeIssue`, `CodeDelivery`, `RefreshSessions` | one-time codes, their SMS jobs, refresh tokens | `accounts` |
| `RoutePublication`, `RouteDays`, `RouteReviews` | a route, its edit and co-authors; its days; its reviews | `community` |
| `Articles` | an article with views, likes, comments | `community` |
| `BuilderChat`, `BuilderTurns`, `ProviderCalls` | turns with locks and quotas; what a chat knows and shows; calls of the router | `community` |
| `Awards` | achievements of one person | `accounts` |
| `KnowledgeIndex` | the nightly reindexing | `accounts` |
| `HelpEncoder`, `HelpEditions` | the encoder's slot; editions of a help article | `accounts` |
| `MCAccounts`, `MCCommunity` | put ten parts each side by side for TLC | |
| `MCRouteRuns`, `MCRunTimeline`, `MCRoutingSnapshots`, `MCTravelPoints`, `MCKnowledgeIndex`, `MCRouteDays` | instances of one module | |
| `RouteRunsProofs`, `RunTimelineProofs`, `BackgroundProofs`, `AccountsProofs`, `CompanionGroupsProofs`, `PublishingProofs`, `BuilderProofs`, `CommunityProofs` | invariants and proofs, section 5 | |

`RouteRuns` implements `RunLedger` (`KeepsLedger`), `CodeIssue` `OneTimeCode`
(`OneCodeAtATime`), `CodeDelivery` `OneMessage` (`OneMessageEach`), `RefreshSessions` `SessionFamilies` (`FamiliesEndForGood`) and
`HelpEncoder` `HelpDesk` (`SlotGoesRound`). The other modules about runs look inside what it
leaves open: `RunTimeline` inside the marks and times, `PaceEscalation` inside
`suspect` and the flag, `RewardLimits` inside what cap and cooldown leave of a
run's worth, `TravelPoints` inside the balance, `RoutingSnapshots` inside the
start, `CompanionGroups` inside who starts with whom.

**RouteRuns.** `MarkStop`, `MarkStopTooFast`, `MarkStopBlocks` are `complete_stop` by
what `assess_stop_mark` and `_escalate` find; the other actions carry the names of
the handlers. Handlers that settle points hold the `users` row, so they wait for
`userLock`; pause, resume and cancel lock the run's row only and run between the
two steps of anybody's closing. `get_active_execution` reads with no lock, and a
start that finds an idle run closes it with a commit that drops the lock in the
middle: both are workers (`GetActiveFindsIdle`, `StartFindsIdle`) that copy the row;
`CloseIdle` settles the copy and writes what differs (`Flushed`), `StartInserts` meets
the partial unique index, `CloseIdleFails` a unique constraint on holds. A run is
worth one point per marked stop; cap and cooldown leave any part of it (`Limited`).
Blocks only refuse starts, which a start may always be.

**RunTimeline.** Each handler is an operator on a request with the floor it passes to
`resolve_event_time`. `Direct` is a request without a client event id. One with an
id goes through `Enqueue`, `Deliver` (the replay check, before the lock), `Apply` (acts
and inserts the event), `ApplyNothing` (already so, or another delivery won the
unique constraint and all is rolled back) or `Lose`. Closing an idle run is `ReadIdle`
(the row found, with no lock of its own, and old enough) and `CloseIdle` (the user is
locked and the end written, from that copy): what comes between is overtaken, a
mark, a pause, an end or another closing, and `ClosedFrom` sets the columns that
differ from the copy, whatever they have become.

**RoutingSnapshots.** A start is `LockRoute`, `ReuseSnapshot` or `AppendSnapshot`, then
`StartCommits` or `StartFails`. A purge is `SelectBatch`, `DeleteBatch`, again, then
`PurgeCommits` or `PurgeRollsBack`. A deleted row disappears for others at the
commit, and a start that wants a row a purge is deleting waits. `RunDeleted` is a
deleted user (`ON DELETE CASCADE`).

**TravelPoints.** A grant lists due likes, reads the user (unlocked, any time before
its first payment), pays, lists favourites, pays, and commits values computed from
the row it read; the rows it marks stay locked till then. `SettleRun` and
`TakeBack` hold the user before they read.

**PaceEscalation.** `MarkTooFast(at)` is `_escalate` for a mark made at `at` and told now:
it counts the violations in the windows that end at the newest, raises the flag,
climbs `Ladder` and forgets with `Memory`; `enforcing` is the mode. **RewardLimits.**
`CompleteHike(at, points)` and `EndHikeEarly` settle a run with what the cooldown of its
route and the cap of its Moscow day leave (`settle_completion_points`); `SleepOver` is
a pause for the night, and a run of several days has the cap of each of them;
`DecideHike` is an operator's decision.

**CompanionGroups.** Every request that changes membership is a record in `inFlight`
with the state it checked; `Commit` writes what it decided, whatever the rows have
become. `atOnce` is how many requests a behaviour lets overlap: with 1 the checks
and the writes are one transaction in effect, with 2 they race. `CheckStart` and
`CheckRetry` are `start_execution` up to the limits it awaits: the group, the member's
row and the route's version are read with no lock and kept in `starting`.
`StartInGroup` locks the route, whose version nobody looks at again, and starts on its
stops as they are by then; `RetryInGroup` attaches the run the person has going, and
`RefuseStart` is a limit or a route that is gone. What the start writes into the member's row it
writes by the row it read (`Attach`). `EndRun`, `SettleIfDue` tie the group to the members' runs.
`CloseIdle` is one step here and ends a run as cancelled: `_due` takes both ends alike, so
a group sees nothing of the copy that `RunTimeline` closes from.

**CodeIssue** has a request take the redis lock, read, close other codes, insert and
unlock; `sluggish` behaviours may outlast its 15 seconds (`IssueLockRunsOut`).
**CodeDelivery** has tasks and sweeps claim a job, load it, call the provider and record
the answer, killed between any two (`Crash`); `slow`
behaviours may outlast the 2 minutes of a claim (`GoesStale` while the worker lives),
and in `garbled` ones an answer that breaks off or cannot be read, which the code
takes for a refusal, may hide that the message was taken (`Hears`).
**RefreshSessions** has `LockToken`, then reuse detected, expired, service profile, or
`Rotate` and `CommitRotation`; closing a family is an UPDATE of the rows live when it
begins, which waits for locked ones (`CommitClosing`).

**RoutePublication.** The route (`public`), its row with `revision_of_route_id` (`edit`),
co-authors and consents. A content is the number of its last change, of its last
save in the editor, and whether it has photos. No handler locks the rows it reads:
each decides by the copy `c` it was given, and writes when it commits. A request in
turn (`RouteRequest(Now)`) goes by the rows as they are. A slow one reads (`BeginSlow`),
is overtaken by any number of requests of authors and moderators while it awaits
its checks or the router, and then does by its old copy what any handler may do
(`CommitSlow`), or is refused (`GiveUp`). What it writes are the columns its decision makes
differ from the copy (`Written`, `ToWrite`): a save that found a draft edits the route in
place though it has been published; one that found an edit writes into the row
though the edit has been sent, applied or retired. The co-authors' rows a submit
reads last are of either moment. Named bounds: each slow request happens once, its reads are one moment, no
edit is begun while it holds the edit before it (`MayBeginEdit`), a draft is created in turn,
and TLC gives the owner one co-author at most where a request is slow
(`SlowAmongTwo`); the proofs are for any number of slow requests and co-authors. **RouteDays.** `SplitDays`
is `split_days` stop by stop (a recursive function over the stops), `DaysFromBreaks` is
`days_from_breaks`, `PlacesAt` lists the places of the stops at which a person ends a day; each action saves and derives the days anew. `math.ceil(leg *
1.15)` and `norm * 1.3` are in integers; they equal the floats of the code for all
legs up to 3 000 minutes and norms up to 840. **RouteReviews**, **Articles.** A request
reads in one step and commits in another; `inTurn` and `oneAtATime` behaviours let
none begin while another is on its way.

**BuilderChat.** A turn is `PostMessage`, `LockAndCheck` (users row, quotas),
`BuildForChat` (commits and so lets go of the row), `CountMessages`, `CommitTurn`;
`CutOff` ends it anywhere. **BuilderTurns.** One turn merges what was pressed, what the
server reads in the words, and the model's patches, in that order, with the
confirmed fields each merge protects, and then answers. **ProviderCalls.** A step
goes from one await to the next of `build_route` and `_post`: ask the breaker, send,
time out and send again, fail, store in the cache, evict the oldest.

**Awards** has evaluations after a commit that may be lost, the hourly job with a look
back of `JobsBack`, the backfill, with and without its reset, and an operator's grants
and revocations. A reset is `ResetNotices`, `ResetGrants`, then the judging of the same
transaction: each statement deletes what has been committed when it runs, others see none
of it until `Grant(Upkeep)` commits (`wiped`), and a roll-back brings all of it back. A
revocation holds the person's row, deletes the grant (`DeleteGrant`), then the notices
(`FinishRevocation`). Who inserts or deletes a row that another has deleted waits
(`MustWait`, `NoticesHeld`), and as a reset and a revocation delete in opposite orders, the
database breaks their deadlock (`BreakDeadlock`). **KnowledgeIndex** has
`PlanNight` (texts and hashes committed), `EmbedNext` one chunk at a time, a commit
per `CommitEvery`, `Perish` at any await, and the session-level advisory lock on one
of the process's connections. **HelpEncoder** steps from await to await of `encode`:
line, slot handed on, shielded task, time-outs, cancellation. **HelpEditions** has
panel requests and imports that read, then write what they decided.

## 3. What TLC checks

| Run | Instance | States | Shows |
|---|---|---|---|
| `route_runs` | two runs, one may be left idle, two requests in flight, anti-fraud off | 16 252 | `TypeOK`, `OneLiveRun`, `EndedIsFinal`, `EveryRequestEnds` |
| `route_money` | two runs, one request in flight, two stops, mode switching between shadow and enforce | 531 604 | `NeverOverpaid`, `HoldsAreSound`, `KeepsLedger` |
| `accounts` | eleven behaviours of ten modules side by side | 653 084 | 18 properties, below |
| `community` | ten modules side by side | 640 304 | 15 properties, below |
| eight more | one each | | a sentence of the code that the code does not keep, section 4 |

`accounts` and `community` choose in their initial state one *part* and move only
that: the parts share no variable and call none of each other, so the states are
the sum of the parts' states and a property of one part is checked as in a run of
its own. Behind both is one type invariant, `AccountsTypeOK` and `CommunityTypeOK`,
that is the moving part's.

| Part of `accounts` | Instance | Properties |
|---|---|---|
| snapshots | three starts, two looks of the route, two batches, three rows | `SnapshotsServeStarts` |
| issue | three requests, three codes, a lock that may run out | `OneCodeAtATime`, `OverForGood` |
| delivery | two workers, one job, two attempts, one crash, stale claims, garbled answers | `OneMessageEach`, `EveryJobEnds` |
| pace | two to flag, three to block, two steps of the ladder, five violations, six instants | `PunishedOnceAndInTime`, `OnlyLiftedShortens` |
| history | two stops, the first optional, instants 0..3, all ten actions, one request that closes the idle run from a copy | `HistoryIsSound`, `EndedIsFrozen` |
| replays | two ids, two deliveries in flight, one stop, three instants, actions that can be undone | `ChangesAtMostOnce` and the two above |
| index | two chunks, two wordings, two processes with two connections each, two models, three nights, a restart | `GoodNightCoversAll` |
| sessions | two exchanges, three tokens | `FamiliesEndForGood` |
| awards | one badge, one request, the job looks back two, backfills and resets, one failure, one revocation | `ToldOnce`, `EarnedIsGranted` |
| encoder | three questions, two may wait | `SlotGoesRound`, `AnyQuestionIsAnswered` |
| editions | two revisions, two operators, two days, four requests | `ShownAgainOnlyWhenReread` |

| Part of `community` | Instance | Properties |
|---|---|---|
| groups | three people, two groups of two seats, four requests, one or two at once, starts that others overtake | `SeatsAreSound`, `StartsOnTheGroupsVersion` |
| publication | an owner and two co-authors, four changes; one slow request, then with one co-author | `NeverEditedInPlace`, `SentAfterTheLastSave` |
| reviews | one reviewer, two requests at once, two reviews, two sayings | `ReviewsAreModerated` |
| chat | one chat, two calls at once, quotas 1 a day and 2 a week, a midnight | `QuotasKept` |
| articles | one reader, two requests at once, one comment or two edits | `ArticlesShowTheTruth` |
| days | two sights, a point of the author's own that may come twice, two trips, two changes | `DaysFollowTheNorms` |
| turns | two interests, two ways to go, one town, two turns, two answers of the model in each | `ConfirmedAsHeard`, `ShownForTheWishesKept` |
| limits | two routes, three runs, days of two parts, cap 3, cooldown 2 | `LimitsKept` |
| balance | a reaction that pays, one of the author's own, two grants, a settlement and a pull-back | `WithdrawnPaysNothing` |
| provider | two requests, a route of one window and one of two, threshold 2, cooldown 2, one entry | `BreakerHoldsBack`, `CachedRoutesAreFresh` |

**Bounds.** Every `Max...`, `Last...` and `Horizon` constant is a bound of the model and not of
the code; the guards name them. They are enough to meet the cases: a second
run, request, worker or grant is what an older one can collide with, and a third
of the same kind only repeats the meeting; two stops let a run count or not; four
instants hold a mark, a pause, a resume and an end in any order; an id and the one
that undoes it need two; three starts leave a snapshot, follow it and race with
that and a purge; three violations are a flag and a block, five a second block
that shares none or one with the first; two turns are one to confirm and one to
change. One request for achievements meets the job, the operator and the reset: two
requests differ from a request and the job in nothing a grant looks at. One slow
save, submit or decision is overtaken by everything in turn, so it meets every
pair of handlers, one of them stale. Each property is violated on these instances when a plausible bug is put
into a definition the map names (`PROJECT.json`, "mutants").

`OfReplays` narrows the replays to three instants and undoable actions, and
`EditedOrDiscussed` an article to two edits or one comment: neither couples with
what it leaves out. A chat is opened from a form
with both start fields filled in or none. `community` uses the symmetry `Mirrored`, which exchanges two like requests
(or paying routes) in every part at once; it has no liveness property. The questions of `HelpEncoder` are
alike, so the liveness of one is that of all.

**Deadlock** is checked in the runs of `RouteRuns`, where something can always happen.
Elsewhere CHECK_DEADLOCK is FALSE, because the system really stops: a run is
over and the bounded clock stands, every start has happened, every request of the
instance has been served.

**Fairness.** `EveryRequestEnds` assumes strong fairness of `Serve(w)` for each request: the
event loop resumes every coroutine and PostgreSQL queues waiters of a row lock, so
none is overtaken forever. `EveryJobEnds` assumes that a live worker goes on,
pollers sweep, redis keys and claims run out (the poller of any process is a timer;
a worker may be killed, a bounded number of times). `EarnedIsGranted` assumes
that the hourly job and what it began goes on, with failures bounded, that a
revocation under way goes on, and that the database ends a deadlock; nothing of
requests. `AnyQuestionIsAnswered` assumes that time-outs fire and coroutines resume,
and nothing of encodes, which may never end. `PartFairness` is these, for the part
that moves. Nothing is assumed of people, phones, operators or of time. All other
properties are safety and use no fairness.

## 4. Where the code departs from what it says

With a run that shows it:

| Run | Finding |
|---|---|
| `paid_twice` | Two requests that read the same idle run settle it one after the other: `_close_if_idle` locks the user but not the run and goes by the copy it was given. What is proved about money is therefore about runs not left idle (`Attended`). |
| `flag_pulls_back` | A flag leaves credited points of a run that ended early (`status == "completed"` is asked for), and all of them when it comes with a block (`counters_from = now` goes first). |
| `paused_negative` | Cancelling a paused run with a reported time before the pause subtracts from `paused_duration_seconds`; the response model demands `ge=0`. |
| `night_pace` | The pause that ends a day is recorded as `end_day`, and the pace check reads `pause` and `resume` only. |
| `newest_purged` | The purge selects rows that have *no* newer revision: exactly the ones the docstring keeps. |
| `granted_twice` | Two grants that listed the same due reaction both add its points. |
| `stale_vectors` | A changed text whose embedding failed keeps the vector of the text before; later nights find the hash equal and embed nothing. |
| `lost_days` | A break whose place left the route stays at the head of `days_from_breaks`' list and hides every break after it. |

Seen while modelling, with no run of their own. The models do what the code does
here, so the properties say exactly as much as is true.

*Runs.* An action answered because things were already so leaves no event and is
applied if delivered again later (`execution_days.py:124`, against
`models.py:377-379`). A completion may be reported for a time before a pause that was
counted (`execution_finish.py:91`), so the elapsed time net of pauses can be negative. A
purge may delete a snapshot that a start reused after the purge had selected it
(`retention.py:126`). A grant may write an old balance over the points of a run settled
meanwhile (`travel_points.py:58`); two grants that pay the same two users in opposite
order can deadlock. A burst is found when its marks are told in order, not always
out of order (`antifraud_service.py:395-396`). The daily cap and the cooldown do not
count runs that ended early (`antifraud_service.py:577`).

A run that is closed as idle is closed from a copy (`execution_days.py:237`): a mark, a
pause or a resume committed between the read (`execution_start.py:74`, `310`) and the lock
is later than the recorded end, a pause stays open in a run that is over, and a run
completed meanwhile gets the older end. `HistoryIsSound` and `EndedIsFrozen` name that
case (`overtaken`, `closing`).

*Codes.* Only a timeout makes an answer of the SMS provider ambiguous
(`sms_provider.py:130`). A connection that breaks after the request, or an answer
without a message id, is retried as a refusal, so a code the provider took can be
billed again (against "retrying could send a second billed OTP", `sms_delivery.py:210`).
`OneMessageEach` says what is left then: no more messages than tries.

*Groups.* When requests overlap one person can be in two live groups (nothing is
locked between check and insert, `groups.py:134`). A retried start brings a run of an
older version into the group. The route's version is compared before the route is
locked and not again (`companions/application/start.py:139`, `execution_start.py:127`): a
revision applied between the two starts a member on newer stops than the group's, against
"A late walker would follow other stops than the group (D13)". `StartsOnTheGroupsVersion` names that case (`Overtaken`). The result of a settled group is not fixed.

*Routes.* A route can go to the queue without co-authors' consent to its photos and
days (`set_days` and the photo handlers do not clear consents, `coauthors.py:4-8`). The
first save of a published route's edit that sends `expected_updated_at` always
conflicts (`route_drafts.py:217`, `519`). A save reads the route unlocked (`route_drafts.py:180`)
and waits for the router (`598`), and nothing is read again. One that overlaps the approval
of a route edits the published route in place, and one that finds an edit which is then sent
changes the text in the queue. A submit counts consents that a save is about to clear, or
has cleared since it read them, so a version goes to the queue without everyone's consent
to it (against "until all of them gave it to this version", `route_drafts.py:732-733`);
`NeverEditedInPlace` and `SentAfterTheLastSave` speak of what the request could know
by its copy. Two approvals of one edit, or a withdrawal that overlaps an approval,
apply it twice, and the second time there are no stops left to move: the route is
left empty (`route_revisions.py:177`). A slow submit, save or decision sets the status of
an edit that was applied or discarded meanwhile and so brings it back. An
administrator's delete leaves an edit in the queue that is not the author's last.
Approving an edit overwrites what an administrator fixed meanwhile (`_copy_content`).
Legs an editor set by hand and an editor's ticket prices are keyed by stop ids that
every author's save renews. A day whose morning step alone exceeds four hours
never gets its meal. The validator of breaks takes the last visit of a place
(`schemas.py:107`), `days_from_breaks` the first.

*Reviews and articles.* Two votes count separately one after the other; a published
review is overwritten by a race; a double tap makes two rows; a moderator's commit
brings back a deleted review, article or comment. Article images change live
without a moderator, and overlapping likes lose updates.

*Builder.* A turn that builds answers without the lock, so replies may exceed the quota
by those under way (`generate_service.py:786`). Two accepts of one proposal make two
routes; two turns at once fill a chat over its limit and merge on stale copies. The model's
`start_query` or `flexible_start` overrides a pressed start chip in the same turn (against
`session_service.py:815-817`). Interests merged from discovery, mentions and controls
replace confirmed ones. `controls.budget_amount` leaves `budget_level`, which wins
(`schemas.py:68-71`). Constraints that fail validation keep the earlier ones silently.
A retry to the router does not ask the breaker again; after the cooldown one more failure
reopens it, and until then all callers go through at once. In the place picker a
finish is appended without the leg check, anchors bypass hard constraints, and a
start ranked below the pool is dropped; a straight unrouted drive is not
flagged as one.

*Background.* The hourly catch-up misses companions' shared evidence after a crash
(`maintenance.py:32`); two failed jobs in a row lose a badge; an operator's revocation
is undone by the next evaluation. A grant committed between the two deletions of a
backfill's reset (`maintenance.py:87-90`) loses its row and keeps its notice, and the backfill
grants the badge again: `ToldOnce` names it (`outlived`). A reset and a revocation can
deadlock, and one of the two is rolled back. The session-level advisory lock of `reindex_job` can stay on another
pooled connection. Panel publications of help take no advisory lock
(`help_semantic.py:181` says "Same lock as publication"): a withdrawn edition is revived
by a publish that had read it as a draft, an older one can be published over a
newer, and a newly published partial pack hides the older full one.

*Outside the modules.* A transit line that was suspended, went missing and came back
is active (`importer.py`, against "keeps what editors entered: a line's status and
suspension reason"). Clearing the inbox removes a notice committed after it
was read; `operator_reply` pushes before its commit; `get_today_deck` reads a user that a
rollback has expired; the daily deck job builds without the user lock.

## 5. What is proved

Every safety property, action property, refinement and type invariant of the passing
runs has a theorem, for every value of the constants, of its module's specification
and of the specification its run checks. The proofs assume what the modules assume of
their constants (named `ASSUME`s that TLC evaluates): null values are no members,
limits are natural numbers, sets whose members are counted are finite, a horizon is
not 0 (`PaceEscalation`), a setting has some value (`RouteRuns`), and what a chip, a form or
the model proposes has values of its field's type, which is what `_sanitize_patch` and
the request schemas let through (`PatchesAssumption`, `DraftsAssumption`).

| Theorem | States | Invariant, and why the property needs it |
|---|---|---|
| `Invariant`, `TypeCorrect`, `WalkerOnOneRun`, `NoOverpayment`, `HoldsMatch`, `FlagsNeverCollide`, `HoldsStaySound`, `EndsForGood`, `RequestsKeepLedger` | `TypeOK`, `OneLiveRun`, `NeverOverpaid`, `HoldsAreSound`, `EndedIsFinal`, the refinement `KeepsLedger` | `IndInv`, `HoldsInTime`; below |
| `NobodyWaitsInVain` | a request that waits for the users row can be served or waits for one that can | `LockHeld`: the row is held by a request under way. The guards (`CanBeServed`) are written out, since ENABLED is out of the prover's reach |
| `HistoryStaysSound`, `TheEndIsFrozen`, `EventsCountOnce`, `TimelineTypesHold` | `HistoryIsSound`, `EndedIsFrozen`, `ChangesAtMostOnce`, types | `TimelineInv`: marks, pause and end in order, and no mark and skip together (`WalkInv`), or the run is over, closed from a copy it had moved on from (`Overtaken`); an id that changed the run is recorded (`QueueInv`), which is what the unique constraint is for |
| `NothingForTheWithdrawn`, `PointsTypesHold` | `WithdrawnPaysNothing`, types | `PointsInv`: a reaction a grant has marked is there until the grant is through, because its row is locked |
| `ViolationsArePunishedOnceAndInTime`, `BlocksAreNotCutShort` | `PunishedOnceAndInTime`, `OnlyLiftedShortens` | `PaceInv`: violations are told one at a time and after they were made (`Arrivals`), what a later block answers was made after all that an earlier one answered had arrived (`Separate`), and whoever has a burst told in order is flagged (`Found`) |
| `LimitsStayKept` | `LimitsKept` | `LimitsInv`: every Moscow day's sum is within its cap and paid runs of a route are apart, as soon as they are settled |
| `PhonesHaveOneCodeAtATime`, `OneCodeLives`, `CodesAreOverForGood` | the refinement `OneCodeAtATime`, `OverForGood` | `IssueInv`: who is inside holds the lock, and what it is about to end is all there is |
| `CodesAreOneMessageEach`, `CodesAreSentOnce`, `CodesAreForgotten` | the refinement `OneMessageEach`; an ended job keeps no text | `DeliveryInv`: one worker is at a job (`Claims`), and unless answers are garbled a message the provider took is one nobody will send again (`TakenOnce`); `TriesCount`: who has yet to send has a try that took nothing |
| `SessionsKeepPromise`, `OneTokenLives` | the refinement `FamiliesEndForGood` | `SessionInv`: the numbers of families run behind those of tokens, and an exchange alone holds its token's row, which stays as it was read (`LocksHold`); so a rotation finds its family alive, and no closing in between leaves it a token |
| `SeatsStaySound`, `GroupsStartOnTheirVersion` | `SeatsAreSound`, `StartsOnTheGroupsVersion` | `GroupsInv`: whoever is in, or is put in by a request under way, asked for it; one request at a time acts on what it read. `StartsInv`: each person has one request in flight (`OneRequestEach`), who creates, starts or cancels a group is its organizer and it is not under way (`OrganizersDecide`), so the group a start has checked stays under way and of the version it checked (`CheckedRight`) |
| `PubInvariant`, `EditedInCopies`, `SentWithConsents` | `NeverEditedInPlace`, `SentAfterTheLastSave` | `PubInv`: who counts as consenting agreed after the last change that clears consents (`ConsentsAreFresh`); and of every copy a slow request goes by, who consents in it agreed after its last clearing, and who has consented since agreed after it was read (`CopiesAreOld`). Any handler by any old copy keeps that (`HistoryGoesOn`, `FittingStep`) |
| `DaysStayAsTheNormsAsk` | `DaysFollowTheNorms` | `RouteDaysInv`: days not set by hand are `SplitDays` of what is stored; then a lemma about `SplitDays` for routes of any length |
| `ReviewsStayModerated`, `ReviewTypesHold` | `ReviewsAreModerated`, types | `ReviewsInv`: rows in order, stars are not moderated, a request that approves has read a waiting row with words (`RequestsSound`) |
| `ArticlesStayTrue` | `ArticlesShowTheTruth` | `ArticlesInv`: in turn a request finds what it read |
| `QuotasStayKept` | `QuotasKept` | `QuotaInv`: a call that may still build or answer holds the row under which it checked |
| `ConfirmedStaysAsHeard`, `ShownStaysForTheWishesKept` | `ConfirmedAsHeard`, `ShownForTheWishesKept` | `TurnsInv`: every confirmed field has the value last heard |
| `ProviderLeftAlone`, `CacheStaysFresh` | `BreakerHoldsBack`, `CachedRoutesAreFresh` | `ProviderInv`: who calls while the breaker is open was calling when it opened, and is at its second attempt once it has sent (`HeldBack`); a partial answer is not older than its call |
| `BadgesToldOnce` | `ToldOnce` | `AwardsInv`: `ToldOnce`, and of what a reset or a revocation has in hand, that what it has deleted was there and that a notice whose grant it does not have had outlived an earlier reset (`Pending`), that only the silent job resets (`Quiet`), and that a badge a revocation found without a grant gets none until it is over (`Untaken`) |
| `EncoderKeepsDesk`, `EncodesTakeTurns` | the refinement `SlotGoesRound` | `EncoderInv`: the slot is in one place, the line has nobody twice, the count is of who stands there, and who has an encode is past it |
| `NothingReappears` | `ShownAgainOnlyWhenReread` | `EditionsInv`: a request asks for what its copy allows; imports take turns |
| `GoodNightsCoverAll` | `GoodNightCoversAll` | `IndexInv`: of a night without a failure what is not yet embedded is still on its list, and only the holder of the lock works |
| `StartsAreServed` | `SnapshotsServeStarts` | `SnapInv`: one start at the route at a time, and what it goes by has been inserted |
| `PartsKeepTheirSpecs`, `AccountsTypesHold`, `AccountsStaySafe`, `AccountsStepSafely` | `AccountsTypeOK`, and all of `accounts.cfg` but liveness | the composition; below |
| `CommunityKeepsItsSpecs`, `CommunityTypesHold`, `CommunityStaysSafe`, `CommunityStepsSafely` | `CommunityTypeOK`, and all of `community.cfg` | the composition; below |

**The money argument** (`RouteRunsProofs`). Neither `NeverOverpaid` nor `HoldsAreSound` is
inductive: approving a hold is right only because of what the hold took when it was
made. `IndInv` adds to `TypeOK` and `OneLiveRun`: `JobsSound` (a run being closed from
a copy may be left idle, and the copy is of a going run: attended runs are out of
reach of stale copies), `Covered` (no row claims more than its run put on the
balance) and `LedgerSound`, by what became of the points of an attended run: *none*
means nothing is credited, computed or held; *awarded* that the balance has all of it;
*held* that balance and hold together have all of it; *rejected* that the balance has
at most that. `FlagsNeverCollide` has `HoldsInTime` on top: no hold before a run is over,
and, while there is no flag, none for a run whose violations still count; it is
inductive because a reset forgets the violations together with the flag. The refinement
maps an end to `EndUnpaid` or `EndPaid`, a flag to `PullBack`, a decision to `Approve` or
`Reject` and every other step to a stutter.

**The refinements.** Each is proved step by step from the invariant of its module.
*Codes*: what a request writes maps to a new code, to the end of the good one or to nothing; it may give
one because who writes holds the lock, so what it found is still all there is
(`IssueGives`). Entering a code and its running out map to its end. The mapping is of
behaviours in which no request outlasts its lock; `OverForGood` is of all. *Messages*: a message is open
while its job waits with its code or somebody holds it who may still send it (`MayBeSent`);
the provider's taking it closes it, since nobody else is at the job (`SendTakes`), and a
crash, an answer that does not come, the last refusal and the sweep drop it; behind a garbled
answer it stays open, and the attempts that claims count bound it (`TriesCount`). *Sessions*: the
commit of an exchange maps to a renewal, because the row it holds still works
(`RotationRenews`), and whatever revokes rows in place to the end of some families
(`RevocationsEnd`). *Encoder*: a caller that times out, hangs up or has its answer leaves the
desk, with its place in the line, its turn, or neither (`LeavesDesk`); the end of an encode
passes the slot on (`DeskIsReleased`); its beginning is not seen.

**The compositions** (`AccountsProofs`, `CommunityProofs`). In `MCAccounts` and
`MCCommunity` one part moves and the variables of the others stand still. So a step is a
step of a part's specification or leaves its variables alone (`CommunityMoves` and its like),
and every part keeps its own specification whichever moves; invariants and action
properties of the parts carry over, and the type invariant is the part's own that
moves.

**Types.** Most types are not inductive alone. `CompanionGroups` needs that versions only
grow and that requests carry versions already there (`VersionsFit`, `RequestsFit`);
`RouteReviews` that rows are numbered without gaps; `BuilderTurns` that merges of patches
whose values fit give drafts whose values fit (`TasteFits`, `MergeIsTyped`); `RouteDays` that
what `split_days`, `days_from_breaks` and the choice of places return are days and places
for routes of any length (`SplitDaysAreDays`, `BrokenDaysAreDays`, `PlacesAtArePlaces`);
`RewardLimits` that one more settlement widens a sequence within its bound (`SeqWidens`).

**Layout.** Each module's part has its rows and types, lemmas about its operators, one
lemma for each action or group of actions that touch the same parts, a lemma that
`Next` preserves the invariant, and the theorem by PTL. TLC checks what the theorems
state on the instances above.

**Recursion.** The induction theorems of the library take an operator as a parameter,
which the provers cannot instantiate. Where a property needs induction over data it is
proved by a least counterexample instead: `BelowWellFounded` with the library's `WFMin`
gives the least number for which the claim fails, and the step before it refutes that.
So are proved that a finite set of times has a latest one (`LatestExists`), that the
recursive functions for a day's points, a day's minutes and the walk over the stops
exist and have their equations (`SumExists`, `StepsExist`), that two sums over
settlements that agree below a day agree (`SumsAgree`), and what `split_days` computes stop
by stop (`WalkRight`), for any number of runs and stops.

**Only model-checked.** Liveness under fairness (`EveryRequestEnds`, `EveryJobEnds`,
`EarnedIsGranted`, `AnyQuestionIsAnswered`) and anything about ENABLED, which this prover
does not reach. For the first, `NobodyWaitsInVain` proves the state it rests on.

## 6. What is not modelled

- The reward formula (`rewards.py`), scoring and choice of places
  (`scoring.py`, `place_picker`, `route_quality.py`), cost, difficulty and terrain: numerical
  estimates without state. The models allow any amount or choice.
- Verdicts on one mark (pace over terrain, GPS). `PaceEscalation` starts where one is
  counted.
- The language model, the embedder, SMS and routing providers: external, they may
  answer anything or not at all.
- Notifications and pushes: rows written in the caller's transaction and pushes
  after it; nothing waits for them. The notice of an achievement is in `Awards`.
- Places and their publication: the handlers of routes and reviews again, without edits
  and co-authors, and imports of catalogues.
- Moderation reports, user blocks (but where a block ends an invitation), tickets,
  favourites (but where they pay), recommendations, popularity, subscriptions,
  app versions, statistics, run-time settings: small reads and writes.
- Geography, maps, transit, weather, media: adapters, caches, file storage.
- The admin panel has no state of its own: the actions it calls are steps of the
  modules. API shell, database session, scripts, migrations: wiring.
- One user's balance, one route, one group's route at a time; order of locks over several
  users would need a model with two.

## 7. Plan

Done: every component with interleavings, retries or crashes of its own has a module,
and every safety property of the runs a theorem. Left, in this order:

1. Two users in `TravelPoints`; the transit importer's status; places through
   moderation.
2. Liveness stays with TLC.
