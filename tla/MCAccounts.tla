----------------------------- MODULE MCAccounts -----------------------------
(* What belongs to one user's account and runs, with the jobs that work    *)
(* behind them, side by side in one run.  The parts share no state and     *)
(* call no one of the others, so every behaviour moves one of them, the    *)
(* part, and the states of the run are the sum of theirs, not the product. *)
(*                                                                         *)
(* RunTimeline has two parts.  A history has any actions without an id;    *)
(* replays have two ids, for an action and one that undoes it, and two     *)
(* deliveries that race, at one stop and the first three instants.         *)
EXTENDS RoutingSnapshots, CodeIssue, CodeDelivery, PaceEscalation,
        RunTimeline, KnowledgeIndex, RefreshSessions, Awards, HelpEncoder, HelpEditions, TLC

CONSTANTS
    s1, s2, s3, before, after,  \* three starts and two looks of a route
    a1, a2, a3,                 \* requests for a code
    w1, w2,                     \* workers that send codes
    i1, i2, d1, d2, c1,         \* client event ids, deliveries, a closing request
    p1, p2, first, second,      \* chunks and what they say
    m1, m2, x1, x2,             \* embedding models and indexers
    f1, f2,                     \* requests with refresh tokens
    explorer, q1, upkeep,       \* an achievement and what judges it
    h1, h2, h3,                 \* questions to the help search
    o1, o2                      \* operators of the help articles

TwoContents == {before, after}
ThreeStarts == {s1, s2, s3}
ThreeAskers == {a1, a2, a3}
TwoWorkers == {w1, w2}
TwoSteps == <<1, 3>>
HandHours == {1, 3}
TwoStops == {1, 2}
FirstOptional == {1}
TwoIds == {i1, i2}
TwoDeliveries == {d1, d2}
OneCloser == {c1}
TwoPapers == {p1, p2}
TwoWordings == {first, second}
TwoEmbedModels == {m1, m2}
TwoIndexers == {x1, x2}
TwoWires == {1, 2}
TwoExchanges == {f1, f2}
OneBadge == {explorer}
OneOccasion == {q1}
ThreeQuestions == {h1, h2, h3}
TwoOperators == {o1, o2}
TwoRevisions == {1, 2}

VARIABLE part

vars == <<part, snapVars, issueVars, deliveryVars, paceVars, timelineVars, indexVars,
          sessionVars, awardVars, encoderVars, editionVars>>

Init ==
    /\ part \in {"snapshots", "issue", "delivery", "pace", "history", "replays", "index",
                 "sessions", "awards", "encoder", "editions"}
    /\ SnapInit /\ IssueInit /\ DeliveryInit /\ PaceInit /\ TimelineInit
    /\ IndexInit /\ SessionInit /\ AwardsInit /\ EncoderInit /\ EditionsInit
    \* The other parts rest in one initial state of theirs.
    /\ part # "snapshots" => content = before
    /\ part # "issue" => ~sluggish
    /\ part # "delivery" => ~slow /\ ~garbled
    /\ part # "pace" => enforcing
    /\ part # "awards" => personal = {}
    /\ embedWith = m1 /\ shown = [p \in Papers |-> first]

Undoable ==
    [action: {"complete_stop", "uncomplete_stop", "pause", "resume"}, stop: {1}, reason: {"other"},
     at: {0, 1, Never}]

OfReplays ==
    /\ clock' <= 2
    /\ \A i \in Ids : sent'[i] # Never => sent'[i] \in Undoable

\* What each part leaves alone.
NotSnap == UNCHANGED <<issueVars, deliveryVars, paceVars>>
NotIssue == UNCHANGED <<snapVars, deliveryVars, paceVars>>
NotDelivery == UNCHANGED <<snapVars, issueVars, paceVars>>
NotPace == UNCHANGED <<snapVars, issueVars, deliveryVars>>
NotFirst == NotSnap /\ UNCHANGED snapVars
NotLast == UNCHANGED <<timelineVars, indexVars, sessionVars, awardVars>>
NotHelp == UNCHANGED <<encoderVars, editionVars>>

ServiceNext ==
    \/ part = "snapshots" /\ SnapNext /\ NotSnap /\ NotLast
    \/ part = "issue" /\ IssueNext /\ NotIssue /\ NotLast
    \/ part = "delivery" /\ DeliveryNext /\ NotDelivery /\ NotLast
    \/ part = "pace" /\ PaceNext /\ NotPace /\ NotLast
    \/ part = "history" /\ (Direct \/ Tick \/ IdleClosing) /\ NotFirst
       /\ UNCHANGED <<indexVars, sessionVars, awardVars>>
    \/ part = "replays" /\ (Tick \/ IdleClosing \/ Offline) /\ OfReplays /\ NotFirst
       /\ UNCHANGED <<indexVars, sessionVars, awardVars>>
    \/ part = "index" /\ IndexNext /\ NotFirst /\ UNCHANGED <<timelineVars, sessionVars, awardVars>>
    \/ part = "sessions" /\ SessionNext /\ NotFirst /\ UNCHANGED <<timelineVars, indexVars, awardVars>>
    \/ part = "awards" /\ AwardsNext /\ NotFirst
       /\ UNCHANGED <<timelineVars, indexVars, sessionVars>>

HelpNext ==
    \/ part = "encoder" /\ EncoderNext /\ UNCHANGED editionVars
    \/ part = "editions" /\ EditionsNext /\ UNCHANGED encoderVars

Next ==
    /\ UNCHANGED part
    /\ \/ ServiceNext /\ NotHelp
       \/ HelpNext /\ NotFirst /\ NotLast

\* DeliveryFairness, AwardsFairness and EncoderFairness, each for the part it is about: where
\* the part rests, its pollers and timers rest too.
PartFairness ==
    /\ \A w \in Workers : WF_deliveryVars(part = "delivery" /\ WorkerStep(w))
    /\ WF_deliveryVars(part = "delivery" /\ \E w \in Workers : StartSweep(w))
    /\ WF_deliveryVars(part = "delivery" /\ PollLockRunsOut)
    /\ \A j \in Jobs : /\ WF_deliveryVars(part = "delivery" /\ ComesDue(j))
                      /\ WF_deliveryVars(part = "delivery" /\ GoesStale(j))
    /\ WF_awardVars(part = "awards" /\ HourlyJob)
    /\ WF_awardVars(part = "awards" /\ ResetGrants)
    /\ WF_awardVars(part = "awards" /\ DeleteGrant)
    /\ WF_awardVars(part = "awards" /\ FinishRevocation)
    /\ WF_awardVars(part = "awards" /\ BreakDeadlock)
    /\ WF_awardVars(part = "awards" /\ Judge(Upkeep))
    /\ WF_awardVars(part = "awards" /\ Grant(Upkeep))
    /\ \A q \in Questions :
          WF_encoderVars(part = "encoder" /\ (StartEncode(q) \/ QueueTimeout(q) \/ AnswerStep(q)))

Spec == Init /\ [][Next]_vars /\ PartFairness

AccountsTypeOK ==
    \/ part = "snapshots" /\ SnapTypeOK
    \/ part = "issue" /\ IssueTypeOK
    \/ part = "delivery" /\ DeliveryTypeOK
    \/ part = "pace" /\ PaceTypeOK
    \/ part \in {"history", "replays"} /\ TimelineTypeOK
    \/ part = "index" /\ IndexTypeOK
    \/ part = "sessions" /\ SessionTypeOK
    \/ part = "awards" /\ AwardsTypeOK
    \/ part = "encoder" /\ EncoderTypeOK
    \/ part = "editions" /\ EditionsTypeOK

\* QuestionsAreAnswered, for one of the questions: they are all alike.
AnyQuestionIsAnswered == Answered(h1)
=============================================================================
