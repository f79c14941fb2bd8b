--------------------------- MODULE PaceEscalation ---------------------------
(***************************************************************************)
(* Stops marked too fast, and what they lead to for one user: a flag, and  *)
(* blocks that get longer.                                                 *)
(*                                                                         *)
(* Every request that touches this state holds the users row, so a handler *)
(* is one step.  Time is counted in ticks longer than the batch window and *)
(* no two requests share one.  A mark tells when it was made: it may come  *)
(* late, from a phone that was offline, and in any order.                  *)
(***************************************************************************)
EXTENDS Naturals, Sequences, FiniteSetsExt

CONSTANTS
    FlagAt, FlagWindow,    \* af_flag_violations, af_flag_window_hours
    BlockAt, BlockWindow,  \* af_block_violations, af_block_window_hours
    Ladder,                \* af_block_ladder_hours
    Memory,                \* af_ladder_memory_days
    Lookback,              \* _VIOLATION_LOOKBACK
    HandBlocks,            \* hours a moderator may block for
    Horizon,               \* bound: the last tick
    MaxViolations          \* bound: counted violations

ASSUME ThresholdsAssumption ==
    /\ FlagAt \in Nat \ {0} /\ FlagWindow \in Nat
    /\ BlockAt \in Nat \ {0} /\ BlockWindow \in Nat
    /\ Memory \in Nat /\ Lookback \in Nat
ASSUME LadderAssumption == Ladder \in Seq(Nat \ {0}) /\ Ladder # <<>> /\ HandBlocks \subseteq Nat \ {0}
ASSUME HorizonAssumption == Horizon \in Nat \ {0} /\ MaxViolations \in Nat

VARIABLES
    now,
    enforcing,   \* af_mode: enforce, or shadow
    outing,      \* the going run: its number and when it began
    violation,   \* counted rows of route_pace_violations, in order of arrival
    fraud,       \* user_fraud_state
    blocks       \* history: blocks[b]: the violations the b-th block answers

paceVars == <<now, enforcing, outing, violation, fraud, blocks>>

NoTime == 0  \* before every tick, for a NULL
Innocent == [flagged |-> FALSE, trusted |-> FALSE, until |-> NoTime,
             level |-> 0, offence |-> NoTime, from |-> NoTime]

PaceInit ==
    /\ now = 1
    /\ enforcing \in BOOLEAN
    /\ outing = [number |-> 1, began |-> 1]
    /\ violation = <<>>
    /\ fraud = Innocent
    /\ blocks = <<>>

Passes == now < Horizon /\ now' = now + 1

\* assert_start_allowed: no new run during a block.
NextWalk ==
    /\ Passes
    /\ enforcing => fraud.until <= now
    /\ outing' = [number |-> outing.number + 1, began |-> now]
    /\ UNCHANGED <<enforcing, violation, fraud, blocks>>

\* evaluate_escalation: what falls in a window that ends at the newest
\* violation, and is no older than the counters.
Recent(seq) == {i \in DOMAIN seq : seq[i].at + Lookback >= now}
NewestAt(seq) == Max({seq[i].at : i \in Recent(seq)})
CountersStart(end, window) == Max({fraud.from, IF end > window THEN end - window ELSE NoTime})
Within(seq, window) ==
    {i \in Recent(seq) : CountersStart(NewestAt(seq), window) <= seq[i].at}

\* next_block_step
Remembered == fraud.offence # NoTime /\ now - fraud.offence <= Memory
Level == IF Remembered THEN fraud.level ELSE 0
Lasts == Ladder[Min({Level + 1, Len(Ladder)})]

CountersGoOn == fraud.from  \* fault: the old violations count again
CountersFrom == now

AnyBlock(hours) == now + hours  \* fault: a shorter block replaces a longer one
LongerBlock(hours) == Max({fraud.until, now + hours})

NextLevel == Min({Level + 1, Len(Ladder)})

Flagged == [fraud EXCEPT !.flagged = TRUE]
Blocked ==
    [fraud EXCEPT !.flagged = TRUE, !.until = LongerBlock(Lasts), !.level = NextLevel,
                  !.offence = now, !.from = CountersFrom]

\* _escalate
Escalated(seq) ==
    IF Recent(seq) = {} THEN UNCHANGED <<fraud, blocks>>
    ELSE IF Cardinality(Within(seq, BlockWindow)) >= BlockAt
    THEN /\ fraud' = Blocked
         /\ blocks' = Append(blocks, Within(seq, BlockWindow))
    ELSE /\ fraud' = IF Cardinality(Within(seq, FlagWindow)) >= FlagAt THEN Flagged ELSE fraud
         /\ UNCHANGED blocks

\* is_batched, against the newest counted violation of the run.
InBatch(at) ==
    LET times == {violation[i].at : i \in {j \in DOMAIN violation : violation[j].run = outing.number}}
    IN times # {} /\ Max(times) = at

\* assess_stop_mark, of a mark that is too fast.  One that joins a batch is
\* not counted and changes nothing here.
MarkTooFast(at) ==
    /\ Passes
    /\ ~fraud.trusted
    /\ ~InBatch(at)
    /\ Len(violation) < MaxViolations
    /\ violation' = Append(violation, [run |-> outing.number, at |-> at, seen |-> now, enforced |-> enforcing])
    /\ IF enforcing THEN Escalated(violation') ELSE UNCHANGED <<fraud, blocks>>
    /\ UNCHANGED <<enforcing, outing>>

SwitchMode ==
    /\ enforcing' = ~enforcing
    /\ UNCHANGED <<now, outing, violation, fraud, blocks>>

Moderated(row) ==
    /\ Passes
    /\ fraud' = row
    /\ UNCHANGED <<enforcing, outing, violation, blocks>>

\* reset_flag leaves a block as it is.
ResetPaceFlag == Moderated([fraud EXCEPT !.flagged = FALSE, !.level = 0, !.offence = NoTime, !.from = now])
LiftBlock == Moderated([fraud EXCEPT !.until = NoTime])
BlockManually(hours) == Moderated([fraud EXCEPT !.until = LongerBlock(hours)])
Trust(trusted) == Moderated([fraud EXCEPT !.trusted = trusted])

PaceNext ==
    \/ NextWalk \/ SwitchMode
    \/ \E at \in outing.began..now : MarkTooFast(at)
    \/ ResetPaceFlag \/ LiftBlock
    \/ \E hours \in HandBlocks : BlockManually(hours)
    \/ \E trusted \in BOOLEAN : Trust(trusted)

PaceSpec == PaceInit /\ [][PaceNext]_paceVars
----------------------------------------------------------------------------
(* What holds.                                                             *)

PaceTypeOK ==
    /\ now \in 1..Horizon
    /\ enforcing \in BOOLEAN
    /\ outing \in [number: 1..Horizon, began: 1..Horizon]
    /\ violation \in Seq([run: 1..Horizon, at: 1..Horizon, seen: 1..Horizon, enforced: BOOLEAN])
    /\ fraud \in [flagged: BOOLEAN, trusted: BOOLEAN, until: Nat, level: 0..Len(Ladder),
                  offence: 0..Horizon, from: 0..Horizon]
    /\ blocks \in Seq(SUBSET (1..MaxViolations))

\* A violation is punished once: two blocks have at most the one in common
\* that brought the first of them about, for the counters start at its very
\* time ("Violations older than this no longer count", UserFraudState).
BlocksShareAtMostOne ==
    \A b, c \in DOMAIN blocks : b # c => Cardinality(blocks[b] \intersect blocks[c]) <= 1

\* The enforced violation j, and those before it in a window that ends with it.
Burst(j) ==
    {i \in 1..j : violation[i].at >= CountersStart(violation[j].at, FlagWindow)}
InTime(j) == violation[j].at + Lookback >= violation[j].seen + FlagWindow

\* A burst is answered by a flag however late it is told, before the 30 days
\* are over, as long as its marks come in the order in which they were made;
\* a flag goes when a moderator resets it ("a late offline sync of old marks
\* cannot hide a burst by arriving after the window has passed", _escalate).
LateBurstIsFlagged ==
    (\A i, j \in DOMAIN violation : i < j => violation[i].at <= violation[j].at)
    => \A j \in DOMAIN violation :
          violation[j].enforced /\ InTime(j) /\ Cardinality(Burst(j)) >= FlagAt => fraud.flagged

\* Both: whatever the order in which violations are told, each is punished
\* once, and lateness does not let a burst through (_escalate).
PunishedOnceAndInTime == BlocksShareAtMostOne /\ LateBurstIsFlagged

\* A block that runs is cut short by a moderator alone: a shorter one, by the
\* ladder or by hand, does not replace it, and a reset leaves it.
OnlyLiftedShortens ==
    [][fraud'.until < fraud.until => fraud'.until = NoTime /\ fraud' = [fraud EXCEPT !.until = NoTime]]_paceVars
=============================================================================
