-------------------------- MODULE RouteRunsProofs --------------------------
(***************************************************************************)
(* Proofs about RouteRuns, for any number of runs, requests and stops.     *)
(* IndInv is the inductive invariant; the ledger part speaks of attended   *)
(* runs only, because a run closed from a copy may be paid again.          *)
(***************************************************************************)
EXTENDS RouteRuns, TLAPS

\* A worker closes only a run that was left idle, and the copy it closes it
\* from was of a run still going and not settled.
JobsSound ==
    /\ idle \subseteq MayIdle
    /\ \A w \in Workers : job[w].stage = "close" =>
          /\ job[w].run \in MayIdle
          /\ job[w].copy.status \in Going

\* No row claims more than its run put on the balance.
Covered == \A r \in Runs : run[r].awarded <= credited[r]

\* How row, hold and balance of an attended run agree.
Agrees(r) ==
    /\ run[r].status \notin Ended => run[r].points = "none"
    /\ run[r].points = "none" =>
          /\ run[r].awarded = 0 /\ run[r].computed = 0 /\ credited[r] = 0
          /\ hold[r] = NoHold
    /\ run[r].points = "awarded" =>
          /\ run[r].computed > 0 /\ credited[r] = run[r].computed
          /\ hold[r] # NoHold => hold[r].status = "approved"
          /\ hold[r] = NoHold => run[r].awarded = run[r].computed
    /\ run[r].points = "held" =>
          /\ run[r].awarded = 0 /\ run[r].computed > 0
          /\ hold[r].status = "held"
          /\ credited[r] + CreditOf(hold[r]) = run[r].computed
    /\ run[r].points = "rejected" =>
          /\ run[r].awarded = 0
          /\ hold[r].status = "rejected"
          /\ credited[r] <= run[r].computed

LedgerSound == \A r \in Attended : Agrees(r)

IndInv == TypeOK /\ JobsSound /\ OneLiveRun /\ Covered /\ LedgerSound

\* No hold before a run is over, and while there is no flag none of a run
\* whose violations still count.
HoldsInTime ==
    /\ \A r \in Runs : run[r].status \notin Ended => hold[r] = NoHold
    /\ ~fraud.flagged => \A r \in suspect : hold[r] = NoHold

----------------------------------------------------------------------------
(* Rows.                                                                   *)

\* The rows a run, a hold and a request begin as are rows (RouteExecution's
\* and RoutePointsHold's defaults).
LEMMA BlankRowType == BlankRow \in RunRow /\ NoHold \in HoldRow /\ FreeJob \in Job
BY DEF BlankRow, RunRow, NoHold, HoldRow, FreeJob, Job, Going, Ended

\* An ended row is a row, over, and as unsettled as the row it was made from.
LEMMA EndedRows ==
    ASSUME NEW row \in RunRow, NEW m
    PROVE  \A e \in {Completed(row, m), EndedEarly(row), Abandoned(row, m)} :
              /\ e \in RunRow
              /\ e.status \in Ended
              /\ e.points = row.points /\ e.awarded = row.awarded
              /\ e.computed = row.computed
<1> DEFINE Sound(e) == /\ e \in RunRow
                       /\ e.status \in Ended
                       /\ e.points = row.points /\ e.awarded = row.awarded
                       /\ e.computed = row.computed
<1>1. ASSUME NEW c \in BOOLEAN
      PROVE  Sound([row EXCEPT !.status = "completed", !.counted = c])
  BY DEF RunRow, Ended
<1>2. RunCounts(m) \in BOOLEAN
  BY DEF RunCounts
<1>3. Sound(Completed(row, m))
  BY <1>1, <1>2, Zenon DEF Completed
<1>4. Sound(EndedEarly(row))
  BY DEF EndedEarly, RunRow, Ended
<1>5. Sound(Abandoned(row, m))
  <2>1. CASE RunCounts(m)
    BY <2>1 DEF Abandoned, RunRow, Ended
  <2>2. CASE ~RunCounts(m)
    BY <1>4, <2>2 DEF Abandoned
  <2> QED
    BY <2>1, <2>2
<1> QED
  BY <1>3, <1>4, <1>5, Zenon

\* Settling a row changes its points only, never how the run stands
\* (_award_completion_points).
LEMMA SettledRow ==
    ASSUME NEW row \in RunRow, NEW n \in Nat, NEW parked \in BOOLEAN
    PROVE  /\ Settled(row, n, parked) \in RunRow
           /\ Settled(row, n, parked).status = row.status
BY DEF Settled, RunRow

\* A column the handler changed is written, one it left alone keeps what the
\* database has; with nothing stale the row written is the row meant (the ORM's
\* UPDATE).
LEMMA FlushedRow ==
    ASSUME NEW row \in RunRow, NEW loaded \in RunRow, NEW new \in RunRow
    PROVE  /\ Flushed(row, loaded, new) \in RunRow
           /\ loaded.status # new.status => Flushed(row, loaded, new).status = new.status
           /\ Flushed(row, loaded, new).awarded \in {row.awarded, new.awarded}
           /\ Flushed(row, row, new) = new
BY DEF Flushed, RunRow

\* The cooldown and the daily cap never raise what a run is worth.
LEMMA PointsInRange ==
    ASSUME TypeOK, NEW r \in Runs, NEW mode, NEW n \in Limited(marks[r], mode)
    PROVE  n \in 0..MaxMarks
BY MarksAssumption DEF TypeOK, Limited

----------------------------------------------------------------------------
\* Ending a run, from the row itself or from a stale copy of it.
LEMMA EndsAsSound ==
    ASSUME IndInv, NEW r \in Runs, NEW loaded \in RunRow, NEW ended \in RunRow,
           loaded.status \in Going, ended.status \in Ended,
           ended.points = loaded.points, ended.awarded = loaded.awarded,
           ended.computed = loaded.computed,
           r \in Attended => loaded = run[r],
           EndsAs(r, loaded, ended)
    PROVE  /\ run' \in [Runs -> RunRow]
           /\ hold' \in [Runs -> HoldRow]
           /\ credited' \in [Runs -> Nat]
           /\ payouts' \in [Runs -> Nat]
           /\ idle' = idle \ {r}
           /\ UNCHANGED <<marks, suspect, fraud>>
           /\ run'[r].status \in Ended
           /\ \A q \in Runs \ {r} : run'[q] = run[q] /\ credited'[q] = credited[q]
           /\ r \in Attended => /\ run'[r].points # "rejected"
                                /\ run'[r].points = "held" => credited'[r] = credited[r]
           /\ Covered'
           /\ LedgerSound'
<1>0. PICK mode \in Modes : \E n \in Limited(marks[r], mode) :
                               EndsPaying(r, loaded, ended, n, mode)
  BY DEF EndsAs
<1>1. PICK n \in Limited(marks[r], mode) : EndsPaying(r, loaded, ended, n, mode)
  BY <1>0
<1> DEFINE parked == Unsettled(ended) /\ Parked(n, mode)
           paid == Unsettled(ended) /\ n > 0
           settled == Settled(ended, n, parked)
           row == Flushed(run[r], loaded, settled)
<1>2. n \in Nat /\ (parked => paid)
  BY PointsInRange, MarksAssumption DEF IndInv, Parked
<1>3. parked \in BOOLEAN /\ paid \in BOOLEAN
  BY DEF Unsettled, Parked
<1>4. settled \in RunRow /\ settled.status = ended.status
  BY <1>2, <1>3, SettledRow
<1>5. /\ row \in RunRow
      /\ row.status = ended.status
      /\ row.awarded \in {run[r].awarded, settled.awarded}
      /\ loaded = run[r] => row = settled
  <2>1. run[r] \in RunRow
    BY DEF IndInv, TypeOK
  <2>2. loaded.status # settled.status
    BY <1>4 DEF Going, Ended
  <2> QED
    BY <1>4, <2>1, <2>2, FlushedRow
<1>6. /\ run' = [run EXCEPT ![r] = row]
      /\ hold' = IF parked
                 THEN [hold EXCEPT ![r] = [status |-> "held", reason |-> "flag_forward",
                                           amount |-> n, deducted |-> 0]]
                 ELSE hold
      /\ credited' = IF paid /\ ~parked THEN [credited EXCEPT ![r] = @ + n] ELSE credited
      /\ payouts' = IF paid THEN [payouts EXCEPT ![r] = @ + 1] ELSE payouts
      /\ parked => hold[r] = NoHold
      /\ idle' = idle \ {r}
      /\ UNCHANGED <<marks, watch>>
  BY <1>1 DEF EndsPaying
<1> HIDE DEF parked, paid, settled, row
<1>7. TypeOK
  BY DEF IndInv
<1>8. run' \in [Runs -> RunRow] /\ run'[r] = row /\ \A q \in Runs \ {r} : run'[q] = run[q]
  BY <1>5, <1>6, <1>7 DEF TypeOK
<1>9. hold' \in [Runs -> HoldRow]
  BY <1>2, <1>6, <1>7 DEF TypeOK, HoldRow
<1>10. credited' \in [Runs -> Nat] /\ payouts' \in [Runs -> Nat]
  BY <1>2, <1>6, <1>7 DEF TypeOK
<1>11. \A q \in Runs \ {r} : credited'[q] = credited[q] /\ hold'[q] = hold[q]
  BY <1>6, <1>7 DEF TypeOK
<1>12. credited'[r] = IF paid /\ ~parked THEN credited[r] + n ELSE credited[r]
  BY <1>6, <1>7 DEF TypeOK
<1>13. row.awarded <= credited'[r]
  <2>1. run[r].awarded <= credited[r] /\ run[r].awarded \in Nat /\ credited[r] \in Nat
    BY <1>7 DEF IndInv, Covered, TypeOK, RunRow
  <2>2. CASE ~Unsettled(ended)
    <3>1. settled.awarded = loaded.awarded
      BY <2>2 DEF settled, Settled
    <3>2. row.awarded = run[r].awarded
      BY <3>1 DEF row, Flushed
    <3> QED
      BY <2>1, <3>2, <1>12, <1>2
  <2>3. CASE Unsettled(ended) /\ (parked \/ n = 0)
    <3>1. settled.awarded = 0 /\ loaded.awarded = 0
      BY <2>3 DEF settled, Settled, Unsettled, RunRow
    <3>2. row.awarded = run[r].awarded
      BY <3>1 DEF row, Flushed
    <3> QED
      BY <2>1, <3>2, <1>12, <1>2
  <2>4. CASE Unsettled(ended) /\ ~parked /\ n # 0
    <3>1. settled.awarded = n
      BY <2>4 DEF settled, Settled, RunRow
    <3>2. paid
      BY <2>4, <1>2 DEF paid
    <3> QED
      BY <2>1, <2>4, <3>1, <3>2, <1>2, <1>5, <1>12
  <2> QED
    BY <2>2, <2>3, <2>4
<1>14. Covered'
  BY <1>8, <1>11, <1>13 DEF Covered, IndInv
<1>15. ASSUME r \in Attended
       PROVE  /\ Agrees(r)'
              /\ run'[r].points # "rejected"
              /\ run'[r].points = "held" => credited'[r] = credited[r]
  <2>1. loaded = run[r] /\ Agrees(r) /\ run'[r] = settled
    BY <1>5, <1>8, <1>15 DEF IndInv, LedgerSound
  <2>2. /\ run[r].points = "none" /\ Unsettled(ended) /\ hold[r] = NoHold
        /\ credited[r] = 0 /\ run[r].computed = 0 /\ run[r].awarded = 0
    BY <2>1 DEF Agrees, Going, Ended, Unsettled
  <2>3. settled = [ended EXCEPT !.computed = n,
                                !.awarded  = IF parked THEN 0 ELSE n,
                                !.points   = IF parked THEN "held"
                                             ELSE IF n > 0 THEN "awarded" ELSE "none"]
    BY <2>2 DEF settled, Settled
  <2>4. /\ settled.computed = n /\ settled.status \in Ended
        /\ settled.awarded = IF parked THEN 0 ELSE n
        /\ settled.points = IF parked THEN "held" ELSE IF n > 0 THEN "awarded" ELSE "none"
    BY <2>3, <1>4 DEF RunRow
  <2>5. CASE parked
    <3>1. hold'[r] = [status |-> "held", reason |-> "flag_forward", amount |-> n, deducted |-> 0]
      BY <2>5, <1>6, <1>7 DEF TypeOK
    <3>2. credited'[r] = 0 /\ n > 0
      BY <2>2, <2>5, <1>12, <1>2 DEF paid
    <3> QED
      BY <2>1, <2>2, <2>4, <2>5, <3>1, <3>2, <1>2 DEF Agrees, CreditOf, NoHold
  <2>6. CASE ~parked /\ n = 0
    <3>1. hold'[r] = NoHold /\ credited'[r] = 0
      BY <2>2, <2>6, <1>6, <1>12 DEF paid
    <3> QED
      BY <2>1, <2>4, <2>6, <3>1 DEF Agrees
  <2>7. CASE ~parked /\ n # 0
    <3>1. hold'[r] = NoHold /\ credited'[r] = n /\ n > 0
      BY <2>2, <2>7, <1>2, <1>6, <1>12 DEF paid
    <3> QED
      BY <2>1, <2>4, <2>7, <3>1 DEF Agrees
  <2> QED
    BY <2>5, <2>6, <2>7
<1>16. LedgerSound'
  <2> SUFFICES ASSUME NEW q \in Attended PROVE Agrees(q)'
    BY DEF LedgerSound
  <2>1. CASE q = r
    BY <2>1, <1>15
  <2>2. CASE q # r
    <3>1. q \in Runs \ {r} /\ Agrees(q)
      BY <2>2 DEF Attended, IndInv, LedgerSound
    <3>2. run'[q] = run[q] /\ credited'[q] = credited[q] /\ hold'[q] = hold[q]
      BY <3>1, <1>8, <1>11
    <3> QED
      BY <3>1, <3>2 DEF Agrees
  <2> QED
    BY <2>1, <2>2
<1> QED
  BY <1>5, <1>6, <1>8, <1>9, <1>10, <1>11, <1>14, <1>15, <1>16 DEF watch
----------------------------------------------------------------------------
\* Raising a flag: no run changes its status, and what is taken off the
\* balance is what the holds remember.
LEMMA PullBackSound ==
    ASSUME IndInv, NEW seen \in SUBSET Runs, PullBack(Pulled(seen))
    PROVE  /\ run' \in [Runs -> RunRow]
           /\ hold' \in [Runs -> HoldRow]
           /\ credited' \in [Runs -> Nat]
           /\ \A r \in Runs : run'[r].status = run[r].status
           /\ Covered'
           /\ LedgerSound'
<1> DEFINE S == Pulled(seen)
<1>1. PICK taken \in [S -> 0..MaxMarks] :
        /\ \A r \in S : taken[r] <= run[r].awarded
        /\ hold' = [r \in Runs |->
                      IF r \in S THEN [status |-> "held", reason |-> "flag_retro",
                                       amount |-> run[r].awarded, deducted |-> taken[r]]
                      ELSE hold[r]]
        /\ credited' = [r \in Runs |->
                          IF r \in S THEN credited[r] - taken[r] ELSE credited[r]]
  BY DEF PullBack
<1>2. /\ run' = [r \in Runs |-> IF r \in S THEN [run[r] EXCEPT !.points = "held", !.awarded = 0]
                                ELSE run[r]]
      /\ \A r \in S : hold[r] = NoHold
  BY DEF PullBack
<1>3. ASSUME NEW r \in S
      PROVE  /\ r \in Runs /\ run[r].status = "completed"
             /\ run[r].points = "awarded" /\ run[r].awarded > 0
  BY DEF Pulled
<1> HIDE DEF S
<1>4. TypeOK /\ Covered /\ LedgerSound
  BY DEF IndInv
<1>5. ASSUME NEW r \in Runs
      PROVE  run[r] \in RunRow /\ hold[r] \in HoldRow /\ credited[r] \in Nat
             /\ run[r].awarded \in Nat /\ run[r].computed \in Nat
             /\ run[r].awarded <= credited[r]
  BY <1>4 DEF TypeOK, Covered, RunRow
<1>6. ASSUME NEW r \in S PROVE taken[r] \in Nat /\ taken[r] <= run[r].awarded
  BY <1>1, MarksAssumption
<1>7. ASSUME NEW r \in S
      PROVE  /\ run'[r] \in RunRow /\ run'[r].points = "held" /\ run'[r].awarded = 0
             /\ run'[r].status = run[r].status /\ run'[r].computed = run[r].computed
             /\ hold'[r] = [status |-> "held", reason |-> "flag_retro",
                            amount |-> run[r].awarded, deducted |-> taken[r]]
             /\ hold'[r] \in HoldRow
             /\ credited'[r] = credited[r] - taken[r] /\ credited'[r] \in Nat
  <2>1. r \in Runs
    BY <1>3
  <2>2. run'[r] = [run[r] EXCEPT !.points = "held", !.awarded = 0]
    BY <1>2, <2>1
  <2>3. hold'[r] = [status |-> "held", reason |-> "flag_retro",
                    amount |-> run[r].awarded, deducted |-> taken[r]]
        /\ credited'[r] = credited[r] - taken[r]
    BY <1>1, <2>1
  <2>4. /\ run[r] \in RunRow /\ run[r].awarded \in Nat /\ credited[r] \in Nat
        /\ taken[r] \in Nat /\ taken[r] <= run[r].awarded
        /\ run[r].awarded <= credited[r]
    BY <1>5, <1>6, <2>1
  <2>5. credited[r] - taken[r] \in Nat
    BY <2>4
  <2>6. [status |-> "held", reason |-> "flag_retro",
         amount |-> run[r].awarded, deducted |-> taken[r]] \in HoldRow
    BY <2>4 DEF HoldRow
  <2>7. ASSUME NEW row \in RunRow
        PROVE  LET e == [row EXCEPT !.points = "held", !.awarded = 0]
               IN e \in RunRow /\ e.points = "held" /\ e.awarded = 0
                  /\ e.status = row.status /\ e.computed = row.computed
    BY DEF RunRow
  <2> QED
    BY <2>2, <2>3, <2>4, <2>5, <2>6, <2>7
<1>8. ASSUME NEW r \in Runs, r \notin S
      PROVE  run'[r] = run[r] /\ hold'[r] = hold[r] /\ credited'[r] = credited[r]
  BY <1>1, <1>2, <1>8
<1>9. run' \in [Runs -> RunRow] /\ hold' \in [Runs -> HoldRow] /\ credited' \in [Runs -> Nat]
  BY <1>1, <1>2, <1>5, <1>7, <1>8
<1>10. \A r \in Runs : run'[r].status = run[r].status
  BY <1>7, <1>8
<1>11. Covered'
  <2> SUFFICES ASSUME NEW r \in Runs PROVE run'[r].awarded <= credited'[r]
    BY DEF Covered
  <2>1. CASE r \in S
    <3>1. run'[r].awarded = 0 /\ credited'[r] \in Nat
      BY <1>7, <2>1
    <3> QED
      BY <3>1
  <2>2. CASE r \notin S
    <3>1. run'[r] = run[r] /\ credited'[r] = credited[r]
      BY <1>8, <2>2
    <3> QED
      BY <1>5, <3>1
  <2> QED
    BY <2>1, <2>2
<1>12. ASSUME NEW r \in Attended PROVE Agrees(r)'
  <2>1. r \in Runs /\ Agrees(r)
    BY <1>4, <1>12 DEF Attended, LedgerSound
  <2>2. CASE r \in S
    <3>1. /\ run[r].computed > 0 /\ credited[r] = run[r].computed
          /\ run[r].status \in Ended
      BY <1>3, <2>1, <2>2 DEF Agrees, Ended
    <3>2. /\ credited[r] \in Nat /\ taken[r] \in Nat
          /\ credited'[r] = credited[r] - taken[r]
      BY <1>5, <1>6, <1>7, <2>1, <2>2
    <3>3. credited'[r] + taken[r] = run[r].computed
      BY <3>1, <3>2
    <3>4. /\ run'[r].points = "held" /\ run'[r].awarded = 0
          /\ run'[r].status = run[r].status /\ run'[r].computed = run[r].computed
          /\ hold'[r] = [status |-> "held", reason |-> "flag_retro",
                         amount |-> run[r].awarded, deducted |-> taken[r]]
      BY <1>7, <2>2
    <3>5. hold'[r].status = "held" /\ CreditOf(hold'[r]) = taken[r]
      BY <3>4 DEF CreditOf
    <3> QED
      BY <3>1, <3>3, <3>4, <3>5 DEF Agrees, CreditOf
  <2>3. CASE r \notin S
    BY <1>8, <2>1, <2>3 DEF Agrees
  <2> QED
    BY <2>2, <2>3
<1> QED
  BY <1>9, <1>10, <1>11, <1>12 DEF LedgerSound

----------------------------------------------------------------------------
\* An operator's decision brings the balance to what the hold promised.
LEMMA DecideSound ==
    ASSUME IndInv, NEW r \in Runs, NEW approve \in BOOLEAN, DecideHold(r, approve)
    PROVE  /\ run' \in [Runs -> RunRow]
           /\ hold' \in [Runs -> HoldRow]
           /\ credited' \in [Runs -> Nat]
           /\ \A q \in Runs : run'[q].status = run[q].status
           /\ Covered'
           /\ LedgerSound'
<1> DEFINE credit == IF approve THEN CreditOf(hold[r]) ELSE 0
           row == [run[r] EXCEPT !.points = IF approve THEN "awarded" ELSE "rejected",
                                 !.awarded = credit]
           decided == [hold[r] EXCEPT !.status = IF approve THEN "approved" ELSE "rejected"]
<1>1. /\ hold[r].status = "held"
      /\ credited' = [credited EXCEPT ![r] = @ + credit]
      /\ run' = [run EXCEPT ![r] = row]
      /\ hold' = [hold EXCEPT ![r] = decided]
  BY DEF DecideHold, Undecided
<1>2. /\ run \in [Runs -> RunRow] /\ hold \in [Runs -> HoldRow] /\ credited \in [Runs -> Nat]
      /\ Covered /\ LedgerSound
  BY DEF IndInv, TypeOK
<1>3. run[r] \in RunRow /\ hold[r] \in HoldRow /\ credited[r] \in Nat
  BY <1>2
<1>4. credit \in Nat
  BY <1>3 DEF CreditOf, HoldRow
<1>5. /\ row \in RunRow /\ row.status = run[r].status /\ row.awarded = credit
      /\ row.points = IF approve THEN "awarded" ELSE "rejected"
      /\ row.computed = run[r].computed
  BY <1>3, <1>4 DEF RunRow
<1>6. /\ decided \in HoldRow
      /\ decided.status = IF approve THEN "approved" ELSE "rejected"
  BY <1>3 DEF HoldRow
<1>7. approve = FALSE => credit = 0
  OBVIOUS
<1>8. approve => credit = CreditOf(hold[r])
  OBVIOUS
<1> HIDE DEF credit, row, decided
<1>9. run'[r] = row /\ hold'[r] = decided /\ credited'[r] = credited[r] + credit
  BY <1>1, <1>2
<1>10. \A q \in Runs \ {r} : run'[q] = run[q] /\ hold'[q] = hold[q] /\ credited'[q] = credited[q]
  BY <1>1, <1>2
<1>11. Covered'
  BY <1>2, <1>3, <1>4, <1>5, <1>9, <1>10 DEF Covered
<1>12. ASSUME NEW q \in Attended PROVE Agrees(q)'
  <2>1. q \in Runs /\ Agrees(q)
    BY <1>2, <1>12 DEF Attended, LedgerSound
  <2>2. CASE q # r
    BY <1>10, <2>1, <2>2 DEF Agrees
  <2>3. CASE q = r
    <3>1. run[r].points = "held"
      <4>1. run[r].points \in {"none", "awarded", "held", "rejected"}
        BY <1>3 DEF RunRow
      <4> QED
        BY <1>1, <2>1, <2>3, <4>1 DEF Agrees, NoHold
    <3>2. /\ run[r].status \in Ended /\ run[r].computed > 0
          /\ credited[r] + CreditOf(hold[r]) = run[r].computed
      BY <2>1, <2>3, <3>1 DEF Agrees
    <3>3. CreditOf(hold[r]) \in Nat /\ run[r].computed \in Nat
      BY <1>3 DEF CreditOf, HoldRow, RunRow
    <3>4. CASE approve
      BY <1>3, <1>5, <1>6, <1>8, <1>9, <2>3, <3>2, <3>4 DEF Agrees, NoHold
    <3>5. CASE ~approve
      BY <1>3, <1>5, <1>6, <1>7, <1>9, <2>3, <3>2, <3>3, <3>5 DEF Agrees
    <3> QED
      BY <3>4, <3>5
  <2> QED
    BY <2>2, <2>3
<1>13. run' \in [Runs -> RunRow] /\ hold' \in [Runs -> HoldRow]
  BY <1>1, <1>2, <1>5, <1>6
<1>14. credited' \in [Runs -> Nat]
  BY <1>1, <1>2, <1>4
<1>15. \A q \in Runs : run'[q].status = run[q].status
  BY <1>5, <1>9, <1>10
<1> QED
  BY <1>11, <1>12, <1>13, <1>14, <1>15 DEF LedgerSound
----------------------------------------------------------------------------
(* The parts of the invariant that most steps leave alone.                 *)

\* As long as no run starts, there is still one going run at most.
LEMMA NoRunRevived ==
    ASSUME OneLiveRun,
           \A r \in Runs : run'[r].status \in Going => run[r].status \in Going
    PROVE  OneLiveRun'
BY DEF OneLiveRun, Live

\* Requests in flight stay sound while no run newly goes idle.
LEMMA JobsKept ==
    ASSUME JobsSound, idle' \subseteq MayIdle, UNCHANGED job
    PROVE  JobsSound'
BY DEF JobsSound

\* A row changes, but nothing of what it earned.
LEMMA RowSound ==
    ASSUME IndInv, NEW r \in Runs, NEW row \in RunRow,
           run' = [run EXCEPT ![r] = row], UNCHANGED money,
           row.points = run[r].points, row.computed = run[r].computed,
           row.awarded = run[r].awarded,
           run[r].status \in Going
    PROVE  /\ run' \in [Runs -> RunRow]
           /\ run'[r] = row
           /\ \A q \in Runs \ {r} : run'[q] = run[q]
           /\ Covered'
           /\ LedgerSound'
<1>1. /\ run' \in [Runs -> RunRow]
      /\ run'[r] = row
      /\ \A q \in Runs \ {r} : run'[q] = run[q]
  BY DEF IndInv, TypeOK
<1>2. Covered'
  BY <1>1 DEF IndInv, Covered, money
<1>3. ASSUME NEW q \in Attended PROVE Agrees(q)'
  <2>1. q \in Runs /\ Agrees(q) /\ hold' = hold /\ credited' = credited
    BY DEF Attended, IndInv, LedgerSound, money
  <2>2. CASE q = r
    BY <1>1, <2>1, <2>2 DEF Agrees, Going, Ended
  <2>3. CASE q # r
    BY <1>1, <2>1, <2>3 DEF Agrees
  <2> QED
    BY <2>2, <2>3
<1> QED
  BY <1>1, <1>2, <1>3 DEF LedgerSound

\* Nothing changes that the ledger looks at.
LEMMA LedgerKept ==
    ASSUME IndInv, UNCHANGED <<run, money>>
    PROVE  Covered' /\ LedgerSound' /\ OneLiveRun'
BY DEF IndInv, Covered, LedgerSound, Agrees, OneLiveRun, Live, money

----------------------------------------------------------------------------
(* Steps of requests that read before they lock.                           *)

\* Reading a run, with the lock or without it, keeps the invariant: the copy
\* is of an idle run still going (start_execution, get_active_execution).
LEMMA FindStep ==
    ASSUME IndInv, NEW w \in Workers,
           StartFindsNone(w) \/ StartFindsIdle(w) \/ GetActiveFindsIdle(w)
    PROVE  IndInv'
<1> DEFINE Found(r, o) == [stage |-> "close", op |-> o, run |-> r, copy |-> run[r]]
<1>1. /\ UNCHANGED <<run, marks, idle, money, watch>>
      /\ userLock' \in Workers \union {NoWorker}
  BY DEF StartFindsNone, StartFindsIdle, GetActiveFindsIdle, IndInv, TypeOK
<1>2. \/ job' = [job EXCEPT ![w] = [FreeJob EXCEPT !.stage = "insert", !.op = "start"]]
      \/ \E r \in idle, o \in {"get", "start"} :
            Live(r) /\ job' = [job EXCEPT ![w] = Found(r, o)]
  BY DEF StartFindsNone, StartFindsIdle, GetActiveFindsIdle
<1>3. TypeOK /\ JobsSound
  BY DEF IndInv
<1>4. CASE job' = [job EXCEPT ![w] = [FreeJob EXCEPT !.stage = "insert", !.op = "start"]]
  <2>1. /\ [FreeJob EXCEPT !.stage = "insert", !.op = "start"] \in Job
        /\ [FreeJob EXCEPT !.stage = "insert", !.op = "start"].stage # "close"
    BY BlankRowType DEF FreeJob, Job
  <2> QED
    BY <1>1, <1>3, <1>4, <2>1, LedgerKept
    DEF IndInv, TypeOK, JobsSound, money, watch
<1>5. ASSUME NEW r \in idle, NEW o \in {"get", "start"},
             Live(r), job' = [job EXCEPT ![w] = Found(r, o)]
      PROVE  IndInv'
  <2>1. r \in Runs /\ run[r] \in RunRow
    BY <1>3 DEF TypeOK
  <2>2. Found(r, o) \in Job
    BY <2>1 DEF Job
  <2>3. job' \in [Workers -> Job]
    BY <1>3, <1>5, <2>2 DEF TypeOK
  <2>4. JobsSound'
    BY <1>1, <1>3, <1>5 DEF JobsSound, TypeOK, Live
  <2> QED
    BY <1>1, <1>3, <2>3, <2>4, LedgerKept DEF IndInv, TypeOK, money, watch
<1> QED
  BY <1>2, <1>4, <1>5

\* The row a worker closes from its copy.
LEMMA CloseIdleStep ==
    ASSUME IndInv, NEW w \in Workers, CloseIdle(w)
    PROVE  /\ IndInv'
           /\ \A r \in Runs : run[r].status \in Ended => run'[r].status \in Ended
           /\ job[w].run \in Runs /\ run'[job[w].run].status \in Ended
           /\ \A r \in Attended : run'[r] = run[r] /\ credited'[r] = credited[r]
<1> DEFINE r == job[w].run
           copy == job[w].copy
           ended == Abandoned(copy, marks[r])
<1>1. /\ job[w].stage = "close" /\ EndsAs(r, copy, ended)
      /\ job' = [job EXCEPT ![w] = IF job[w].op = "start"
                                   THEN [FreeJob EXCEPT !.stage = "insert", !.op = "start"]
                                   ELSE FreeJob]
      /\ userLock' = NoWorker
  BY DEF CloseIdle
<1>2. /\ job[w] \in Job /\ r \in MayIdle /\ copy \in RunRow /\ copy.status \in Going
      /\ r \in Runs /\ r \notin Attended
  BY <1>1, RunsAssumption DEF IndInv, TypeOK, JobsSound, Job, Attended
<1>3. /\ ended \in RunRow /\ ended.status \in Ended
      /\ ended.points = copy.points /\ ended.awarded = copy.awarded
      /\ ended.computed = copy.computed
  BY <1>2, EndedRows
<1> HIDE DEF r, copy, ended
<1>4. /\ run' \in [Runs -> RunRow] /\ hold' \in [Runs -> HoldRow]
      /\ credited' \in [Runs -> Nat] /\ payouts' \in [Runs -> Nat]
      /\ idle' = idle \ {r}
      /\ UNCHANGED <<marks, suspect, fraud>>
      /\ run'[r].status \in Ended
      /\ \A q \in Runs \ {r} : run'[q] = run[q]
      /\ Covered' /\ LedgerSound'
  BY <1>1, <1>2, <1>3, EndsAsSound
<1>5. OneLiveRun'
  BY <1>4, NoRunRevived DEF IndInv, Going, Ended
<1>6. job' \in [Workers -> Job] /\ \A v \in Workers : job'[v].stage = "close" => job'[v] = job[v]
  <2>1. /\ FreeJob \in Job /\ FreeJob.stage # "close"
        /\ [FreeJob EXCEPT !.stage = "insert", !.op = "start"] \in Job
        /\ [FreeJob EXCEPT !.stage = "insert", !.op = "start"].stage # "close"
    BY BlankRowType DEF FreeJob, Job
  <2> QED
    BY <1>1, <2>1 DEF IndInv, TypeOK
<1>7. JobsSound'
  BY <1>4, <1>6 DEF IndInv, JobsSound
<1>8. TypeOK'
  BY <1>1, <1>4, <1>6 DEF IndInv, TypeOK
<1>9. \A q \in Attended : credited'[q] = credited[q]
  BY <1>1, <1>2 DEF EndsAs, EndsPaying, IndInv, TypeOK, Attended
<1>10. \A q \in Attended : run'[q] = run[q]
  BY <1>2, <1>4 DEF Attended
<1>11. job[w].run \in Runs /\ run'[job[w].run].status \in Ended
  BY <1>2, <1>4 DEF r
<1> QED
  BY <1>4, <1>5, <1>7, <1>8, <1>9, <1>10, <1>11 DEF IndInv

\* A request that fails gives its lock back and leaves the walker's runs and
\* points as they were.
LEMMA CloseFailsStep ==
    ASSUME IndInv, NEW w \in Workers, CloseIdleFails(w) \/ StartRefused(w)
    PROVE  IndInv' /\ UNCHANGED <<run, credited, hold>>
<1>1. /\ job' = [job EXCEPT ![w] = FreeJob]
      /\ userLock' = NoWorker
      /\ UNCHANGED <<run, marks, idle, money, watch>>
  BY DEF CloseIdleFails, StartRefused
<1>2. FreeJob \in Job /\ FreeJob.stage # "close"
  BY BlankRowType DEF FreeJob
<1> QED
  BY <1>1, <1>2, LedgerKept DEF IndInv, TypeOK, JobsSound, money, watch

\* A start that gets past the unique index keeps the invariant, and the run
\* it inserts is not over (start_execution).
LEMMA InsertStep ==
    ASSUME IndInv, NEW w \in Workers, StartInserts(w)
    PROVE  /\ IndInv'
           /\ UNCHANGED <<credited, hold>>
           /\ \A r \in Runs : run'[r] # run[r] =>
                 run[r].status = "none" /\ run'[r] = [BlankRow EXCEPT !.status = "active"]
<1> DEFINE row == [BlankRow EXCEPT !.status = "active"]
<1>1. PICK r \in Runs : run[r].status = "none" /\ run' = [run EXCEPT ![r] = row]
  BY DEF StartInserts
<1>2. /\ job' = [job EXCEPT ![w] = FreeJob]
      /\ userLock' = NoWorker
      /\ UNCHANGED <<marks, idle, money, watch>>
      /\ \A q \in Runs : ~Live(q)
  BY DEF StartInserts, IndexAdmits
<1>3. /\ row \in RunRow /\ row.status = "active" /\ row.points = "none"
      /\ row.awarded = 0 /\ row.computed = 0
  BY BlankRowType DEF BlankRow, RunRow, Going
<1>4. TypeOK /\ JobsSound /\ Covered /\ LedgerSound
  BY DEF IndInv
<1> HIDE DEF row
<1>5. /\ run' \in [Runs -> RunRow] /\ run'[r] = row
      /\ \A q \in Runs \ {r} : run'[q] = run[q]
  BY <1>1, <1>3, <1>4 DEF TypeOK
<1>6. OneLiveRun'
  BY <1>2, <1>5 DEF OneLiveRun, Live
<1>7. FreeJob \in Job /\ FreeJob.stage # "close"
  BY BlankRowType DEF FreeJob
<1>8. TypeOK' /\ JobsSound'
  BY <1>2, <1>4, <1>5, <1>7 DEF TypeOK, JobsSound, money, watch
<1>9. credited' = credited /\ hold' = hold /\ credited \in [Runs -> Nat]
  BY <1>2, <1>4 DEF money, TypeOK
<1>10. Covered'
  BY <1>3, <1>4, <1>5, <1>9 DEF Covered
<1>11. ASSUME NEW q \in Attended PROVE Agrees(q)'
  <2>1. q \in Runs /\ Agrees(q)
    BY <1>4 DEF Attended, LedgerSound
  <2>2. CASE q = r
    BY <1>1, <1>3, <1>5, <1>9, <2>1, <2>2 DEF Agrees, Ended
  <2>3. CASE q # r
    BY <1>5, <1>9, <2>1, <2>3 DEF Agrees
  <2> QED
    BY <2>2, <2>3
<1>12. LedgerSound'
  BY <1>11 DEF LedgerSound
<1> QED
  BY <1>1, <1>5, <1>6, <1>8, <1>9, <1>10, <1>12 DEF IndInv, row

----------------------------------------------------------------------------
(* Steps of the handlers that lock first.                                  *)

\* Marks come and go, a run is touched, violations are seen or forgotten.
LEMMA QuietStep ==
    ASSUME IndInv, UNCHANGED <<run, money, requests>>,
           marks' \in [Runs -> 0..MaxMarks], idle' \subseteq MayIdle,
           suspect' \subseteq Runs, fraud' \in [flagged: BOOLEAN, trusted: BOOLEAN]
    PROVE  IndInv'
BY RunsAssumption, LedgerKept, JobsKept DEF IndInv, TypeOK, requests, money

\* Marking and taking back stops, skipping, and time going by keep the
\* invariant and leave every run and its points alone.
LEMMA MarkStep ==
    ASSUME IndInv, NEW r \in Runs,
           MarkStop(r) \/ MarkStopBlocks(r) \/ UnmarkStop(r) \/ SkipStop(r)
        \/ GoesIdle(r) \/ ViolationsAge(r)
    PROVE  IndInv' /\ UNCHANGED <<run, credited, hold>>
<1>1. /\ UNCHANGED <<run, money, requests>>
      /\ idle' \subseteq MayIdle /\ suspect' \subseteq Runs
      /\ fraud' \in [flagged: BOOLEAN, trusted: BOOLEAN]
  BY DEF MarkStop, MarkStopBlocks, UnmarkStop, SkipStop, GoesIdle, ViolationsAge, Touch, watch,
         IndInv, TypeOK, JobsSound
<1>2. marks[r] \in 0..MaxMarks /\ marks \in [Runs -> 0..MaxMarks]
  BY DEF IndInv, TypeOK
<1>3. \/ marks' = marks
      \/ marks[r] < MaxMarks /\ marks' = [marks EXCEPT ![r] = @ + 1]
      \/ marks[r] > 0 /\ marks' = [marks EXCEPT ![r] = @ - 1]
  BY DEF MarkStop, MarkStopBlocks, UnmarkStop, SkipStop, GoesIdle, ViolationsAge
<1>4. marks' \in [Runs -> 0..MaxMarks]
  BY <1>2, <1>3, MarksAssumption
<1> QED
  BY <1>1, <1>4, QuietStep DEF money

\* A mark that raises the flag keeps the invariant: it pulls back credited
\* runs only (_flag, _hold_recent_runs).
LEMMA TooFastStep ==
    ASSUME IndInv, NEW r \in Runs, NEW mode, MarkStopTooFast(r, mode)
    PROVE  /\ IndInv'
           /\ \A q \in Runs : run'[q].status = run[q].status
           /\ \/ UNCHANGED <<run, credited, hold>>
              \/ PullBack(Pulled(suspect \union {r}))
<1>1. /\ marks[r] < MaxMarks /\ marks' = [marks EXCEPT ![r] = @ + 1]
      /\ idle' \subseteq MayIdle /\ suspect' = suspect \union {r}
      /\ UNCHANGED requests
  BY DEF MarkStopTooFast, Touch, IndInv, JobsSound
<1>2. marks' \in [Runs -> 0..MaxMarks] /\ suspect' \subseteq Runs
  BY <1>1, MarksAssumption DEF IndInv, TypeOK
<1>3. CASE UNCHANGED <<run, money, fraud>>
  BY <1>1, <1>2, <1>3, QuietStep DEF IndInv, TypeOK, money
<1>4. CASE /\ fraud' = [fraud EXCEPT !.flagged = TRUE]
           /\ PullBack(Pulled(suspect \union {r}))
           /\ UNCHANGED payouts
  <2>1. suspect \union {r} \in SUBSET Runs
    BY DEF IndInv, TypeOK
  <2>2. /\ run' \in [Runs -> RunRow] /\ hold' \in [Runs -> HoldRow]
        /\ credited' \in [Runs -> Nat]
        /\ \A q \in Runs : run'[q].status = run[q].status
        /\ Covered' /\ LedgerSound'
    BY <1>4, <2>1, PullBackSound
  <2>3. OneLiveRun'
    BY <2>2, NoRunRevived DEF IndInv
  <2>4. JobsSound'
    BY <1>1, JobsKept DEF IndInv, requests
  <2>5. fraud' \in [flagged: BOOLEAN, trusted: BOOLEAN]
    BY <1>4 DEF IndInv, TypeOK
  <2>6. TypeOK'
    BY <1>1, <1>2, <1>4, <2>2, <2>5, RunsAssumption DEF IndInv, TypeOK, requests
  <2> QED
    BY <1>4, <2>2, <2>3, <2>4, <2>6 DEF IndInv
<1> QED
  BY <1>3, <1>4 DEF MarkStopTooFast

\* complete_execution and finish_early_execution.
LEMMA EndStep ==
    ASSUME IndInv, NEW r \in Runs, Complete(r) \/ FinishEarly(r)
    PROVE  /\ IndInv'
           /\ run[r].status \in Going /\ run'[r].status \in Ended
           /\ \A q \in Runs \ {r} : run'[q] = run[q] /\ credited'[q] = credited[q]
           /\ r \in Attended => /\ run'[r].points # "rejected"
                                /\ run'[r].points = "held" => credited'[r] = credited[r]
<1>1. PICK ended \in {Completed(run[r], marks[r]), EndedEarly(run[r])} :
        EndsAs(r, run[r], ended)
  BY DEF Complete, FinishEarly
<1>2. UNCHANGED requests /\ run[r].status \in Going /\ run[r] \in RunRow
  BY DEF Complete, FinishEarly, Live, Going, IndInv, TypeOK
<1>3. /\ ended \in RunRow /\ ended.status \in Ended
      /\ ended.points = run[r].points /\ ended.awarded = run[r].awarded
      /\ ended.computed = run[r].computed
  BY <1>2, EndedRows
<1>4. /\ run' \in [Runs -> RunRow] /\ hold' \in [Runs -> HoldRow]
      /\ credited' \in [Runs -> Nat] /\ payouts' \in [Runs -> Nat]
      /\ idle' = idle \ {r}
      /\ UNCHANGED <<marks, suspect, fraud>>
      /\ run'[r].status \in Ended
      /\ \A q \in Runs \ {r} : run'[q] = run[q] /\ credited'[q] = credited[q]
      /\ r \in Attended => /\ run'[r].points # "rejected"
                           /\ run'[r].points = "held" => credited'[r] = credited[r]
      /\ Covered' /\ LedgerSound'
  BY <1>1, <1>2, <1>3, EndsAsSound
<1>5. OneLiveRun'
  BY <1>4, NoRunRevived DEF IndInv, Going, Ended
<1>6. JobsSound'
  BY <1>2, <1>4, JobsKept DEF IndInv, requests, JobsSound
<1>7. TypeOK'
  BY <1>2, <1>4 DEF IndInv, TypeOK, requests
<1> QED
  BY <1>2, <1>4, <1>5, <1>6, <1>7 DEF IndInv

\* Pause, resume and cancel.
LEMMA RowStep ==
    ASSUME IndInv, NEW r \in Runs,
           Pause(r, TRUE) \/ Pause(r, FALSE) \/ Resume(r) \/ Cancel(r)
    PROVE  /\ IndInv'
           /\ UNCHANGED <<credited, hold>>
           /\ run[r].status \in Going
           /\ run'[r].points = run[r].points /\ run'[r].computed = run[r].computed
           /\ \A q \in Runs \ {r} : run'[q] = run[q]
<1>1. run[r] \in RunRow /\ run[r].status \in Going
  BY DEF Pause, Resume, Cancel, Live, Going, IndInv, TypeOK
<1>2. PICK row : /\ run' = [run EXCEPT ![r] = row]
                 /\ \/ \E n \in BOOLEAN : row = [run[r] EXCEPT !.status = "paused", !.night = n]
                    \/ row = [run[r] EXCEPT !.status = "active", !.night = FALSE]
                    \/ row = [run[r] EXCEPT !.status = "cancelled", !.counted = FALSE]
  BY <1>1, Zenon DEF Pause, Resume, Cancel, RunRow, IndInv, TypeOK
<1>3. /\ row \in RunRow /\ row.points = run[r].points
      /\ row.computed = run[r].computed /\ row.awarded = run[r].awarded
  BY <1>1, <1>2 DEF RunRow, Going, Ended
<1>4. /\ UNCHANGED <<marks, money, watch, requests>>
      /\ idle' \subseteq MayIdle
  BY DEF Pause, Resume, Cancel, Touch, IndInv, JobsSound
<1>5. /\ run' \in [Runs -> RunRow]
      /\ run'[r] = row
      /\ \A q \in Runs \ {r} : run'[q] = run[q]
      /\ Covered' /\ LedgerSound'
  BY <1>1, <1>2, <1>3, <1>4, RowSound
<1>6. OneLiveRun'
  BY <1>1, <1>5, NoRunRevived DEF IndInv
<1>7. JobsSound'
  BY <1>4, JobsKept DEF IndInv, requests
<1>8. TypeOK'
  BY <1>4, <1>5, RunsAssumption DEF IndInv, TypeOK, requests, money, watch
<1> QED
  BY <1>1, <1>3, <1>4, <1>5, <1>6, <1>7, <1>8 DEF IndInv, money

\* An operator's decision keeps the invariant: the balance never exceeds the
\* run's worth (decide_hold).
LEMMA DecideStep ==
    ASSUME IndInv, NEW r \in Runs, NEW approve \in BOOLEAN, DecideHold(r, approve)
    PROVE  /\ IndInv'
           /\ \A q \in Runs : run'[q].status = run[q].status
<1>1. /\ run' \in [Runs -> RunRow] /\ hold' \in [Runs -> HoldRow]
      /\ credited' \in [Runs -> Nat]
      /\ \A q \in Runs : run'[q].status = run[q].status
      /\ Covered' /\ LedgerSound'
  BY DecideSound
<1>2. /\ UNCHANGED <<marks, payouts, watch, requests>>
      /\ idle' \subseteq MayIdle
  BY DEF DecideHold, Touch, IndInv, JobsSound
<1>3. OneLiveRun'
  BY <1>1, NoRunRevived DEF IndInv
<1>4. JobsSound'
  BY <1>2, JobsKept DEF IndInv, requests
<1>5. TypeOK'
  BY <1>1, <1>2, RunsAssumption DEF IndInv, TypeOK, requests, watch
<1> QED
  BY <1>1, <1>3, <1>4, <1>5 DEF IndInv

\* The operator's two switches on the walker.
LEMMA SwitchStep ==
    ASSUME IndInv, ResetFlag \/ SetTrusted
    PROVE  IndInv' /\ UNCHANGED <<run, credited, hold>>
<1>1. /\ UNCHANGED <<run, marks, idle, money, requests>>
      /\ suspect' \in {suspect, {}}
      /\ \/ fraud' = [fraud EXCEPT !.flagged = FALSE]
         \/ fraud' = [fraud EXCEPT !.trusted = ~@]
  BY DEF ResetFlag, SetTrusted
<1>2. fraud' \in [flagged: BOOLEAN, trusted: BOOLEAN]
  BY <1>1 DEF IndInv, TypeOK
<1> QED
  BY <1>1, <1>2, QuietStep DEF IndInv, TypeOK, JobsSound, money
----------------------------------------------------------------------------
(* The invariant.                                                          *)

\* No run, no hold and no request to begin with: the invariant holds.
LEMMA InitInv == Init => IndInv
<1> SUFFICES ASSUME Init PROVE IndInv
  OBVIOUS
<1>1. /\ run = [r \in Runs |-> BlankRow] /\ marks = [r \in Runs |-> 0] /\ idle = {}
      /\ hold = [r \in Runs |-> NoHold] /\ suspect = {}
      /\ fraud = [flagged |-> FALSE, trusted |-> FALSE]
      /\ credited = [r \in Runs |-> 0] /\ payouts = [r \in Runs |-> 0]
      /\ job = [w \in Workers |-> FreeJob] /\ userLock = NoWorker
  BY DEF Init
<1>2. TypeOK
  BY <1>1, BlankRowType, MarksAssumption DEF TypeOK
<1>3. JobsSound
  BY <1>1 DEF JobsSound, FreeJob
<1>4. OneLiveRun
  BY <1>1 DEF OneLiveRun, Live, BlankRow, Going
<1>5. Covered /\ LedgerSound
  BY <1>1 DEF Covered, LedgerSound, Agrees, BlankRow, Attended, Ended
<1> QED
  BY <1>2, <1>3, <1>4, <1>5 DEF IndInv

\* Every step of every handler keeps the invariant; one case per action.
LEMMA StepInv == IndInv /\ [Next]_vars => IndInv'
<1> SUFFICES ASSUME IndInv, [Next]_vars PROVE IndInv'
  OBVIOUS
<1>1. CASE RequestStep
  <2> PICK w \in Workers :
        StartFindsNone(w) \/ StartFindsIdle(w) \/ GetActiveFindsIdle(w) \/ Serve(w)
    BY <1>1 DEF RequestStep
  <2>1. CASE StartFindsNone(w) \/ StartFindsIdle(w) \/ GetActiveFindsIdle(w)
    BY <2>1, FindStep
  <2>2. CASE CloseIdle(w)
    BY <2>2, CloseIdleStep
  <2>3. CASE CloseIdleFails(w) \/ StartRefused(w)
    BY <2>3, CloseFailsStep
  <2>4. CASE StartInserts(w)
    BY <2>4, InsertStep
  <2> QED
    BY <2>1, <2>2, <2>3, <2>4 DEF Serve
<1>2. ASSUME NEW r \in Runs, NEW mode \in Modes, MarkStopTooFast(r, mode) PROVE IndInv'
  BY <1>2, TooFastStep
<1>3. ASSUME NEW r \in Runs, Complete(r) \/ FinishEarly(r) PROVE IndInv'
  BY <1>3, EndStep
<1>4. ASSUME NEW r \in Runs,
             Pause(r, TRUE) \/ Pause(r, FALSE) \/ Resume(r) \/ Cancel(r)
      PROVE  IndInv'
  BY <1>4, RowStep
<1>5. ASSUME NEW r \in Runs, NEW approve \in BOOLEAN, DecideHold(r, approve) PROVE IndInv'
  BY <1>5, DecideStep
<1>6. ASSUME NEW r \in Runs,
             MarkStop(r) \/ MarkStopBlocks(r) \/ UnmarkStop(r) \/ SkipStop(r)
          \/ GoesIdle(r) \/ ViolationsAge(r)
      PROVE  IndInv'
  BY <1>6, MarkStep
<1>7. CASE RunStep
  BY <1>2, <1>3, <1>4, <1>5, <1>6, <1>7 DEF RunStep
<1>8. CASE ResetFlag \/ SetTrusted
  BY <1>8, SwitchStep
<1>9. CASE UNCHANGED vars
  <2>1. UNCHANGED <<run, marks, idle, money, suspect, fraud, requests>>
    BY <1>9 DEF vars, money, requests
  <2> QED
    BY <2>1, QuietStep DEF IndInv, TypeOK, JobsSound
<1> QED
  BY <1>1, <1>7, <1>8, <1>9 DEF Next

\* The invariant holds in every reachable state.
THEOREM Invariant == Spec => []IndInv
BY InitInv, StepInv, PTL DEF Spec

----------------------------------------------------------------------------
(* Nobody waits for a request that cannot go on.  Liveness is TLC's; this  *)
(* is the state it rests on.                                               *)

\* The users row is held by a request under way, never by one that is over.
LockHeld == userLock # NoWorker => userLock \in Workers /\ job[userLock].stage # "free"

\* The closing of an idle run, when the row is free, is through if for some
\* mode nothing is parked, or nothing is there to be parked twice ...
ClosesOrFails(w) ==
    LET r == job[w].run
        ended == Abandoned(job[w].copy, marks[r])
    IN \E mode \in Modes : \E points \in Limited(marks[r], mode) :
          \/ Unsettled(ended) /\ Parked(points, mode) => hold[r] = NoHold
          \/ hold[r] # NoHold /\ Parked(points, mode)

\* ... and a start that has come to its insert can always be refused.
CanBeServed(w) ==
    /\ MayLock(w)
    /\ job[w].stage = "insert" \/ (job[w].stage = "close" /\ ClosesOrFails(w))

\* A request that waits can be served itself, or waits for the one that has
\* the row, which can.
WaitsForOneThatMoves ==
    \A w \in Workers : job[w].stage # "free" =>
        CanBeServed(w) \/ (userLock \in Workers /\ CanBeServed(userLock))

\* The row is taken with a request's first step and let go with its commit,
\* its refusal or its failure.
LEMMA LockStep ==
    ASSUME TypeOK, LockHeld, [Next]_vars
    PROVE  LockHeld'
<1>1. job \in [Workers -> Job]
  BY DEF TypeOK
<1>2. ASSUME NEW w \in Workers, StartFindsNone(w) \/ StartFindsIdle(w)
      PROVE  LockHeld'
  <2>1. userLock' = w
    BY <1>2 DEF StartFindsNone, StartFindsIdle
  <2>2. job'[w].stage # "free"
    <3>1. CASE StartFindsNone(w)
      BY <1>1, <3>1 DEF StartFindsNone, FreeJob
    <3>2. CASE StartFindsIdle(w)
      BY <1>1, <3>2 DEF StartFindsIdle
    <3> QED
      BY <1>2, <3>1, <3>2
  <2> QED
    BY <2>1, <2>2 DEF LockHeld
<1>3. ASSUME NEW w \in Workers, GetActiveFindsIdle(w)
      PROVE  LockHeld'
  <2>1. userLock' = userLock /\ job'[w].stage # "free"
    BY <1>1, <1>3 DEF GetActiveFindsIdle
  <2>2. \A v \in Workers \ {w} : job'[v] = job[v]
    BY <1>1, <1>3 DEF GetActiveFindsIdle
  <2> QED
    BY <2>1, <2>2 DEF LockHeld
<1>4. ASSUME NEW w \in Workers, Serve(w)
      PROVE  LockHeld'
  BY <1>4 DEF Serve, CloseIdle, CloseIdleFails, StartInserts, StartRefused, LockHeld
<1>5. CASE UNCHANGED requests
  BY <1>5 DEF LockHeld, requests
<1>6. CASE RunStep
  <2>1. UNCHANGED requests
    BY <1>6 DEF RunStep, MarkStop, MarkStopTooFast, MarkStopBlocks, UnmarkStop, SkipStop, Complete,
                FinishEarly, Pause, Resume, Cancel, DecideHold, GoesIdle, ViolationsAge
  <2> QED
    BY <2>1, <1>5
<1>7. CASE ResetFlag \/ SetTrusted
  BY <1>5, <1>7 DEF ResetFlag, SetTrusted
<1>8. CASE UNCHANGED vars
  BY <1>5, <1>8 DEF vars, requests
<1> QED
  BY <1>2, <1>3, <1>4, <1>6, <1>7, <1>8 DEF Next, RequestStep

\* Whoever may have the row is through with it in one step, whatever became
\* of the run it read meanwhile.
LEMMA ServedWithTheRow ==
    ASSUME TypeOK, NEW w \in Workers, job[w].stage # "free", MayLock(w),
           job[w].stage = "close" => job[w].run \in Runs
    PROVE  CanBeServed(w)
<1>1. job[w].stage \in {"close", "insert"}
  BY DEF TypeOK, Job
<1>2. CASE job[w].stage = "close"
  <2> DEFINE r == job[w].run
  <2>1. PICK mode \in Modes : TRUE
    BY ModesAssumption
  <2>2. marks[r] \in Nat
    BY <1>2 DEF TypeOK
  <2>3. PICK points \in Limited(marks[r], mode) : TRUE
    BY <2>2 DEF Limited
  <2>4. ClosesOrFails(w)
    BY <2>1, <2>3 DEF ClosesOrFails
  <2> QED
    BY <1>2, <2>4 DEF CanBeServed
<1> QED
  BY <1>1, <1>2 DEF CanBeServed

\* No request waits for the users row behind one that is over or stuck:
\* whatever happens to a run between its reading and its closing, whoever has
\* the row can commit, be refused or fail, and lets go of it (_close_if_idle,
\* start_execution).
THEOREM NobodyWaitsInVain == Spec => []WaitsForOneThatMoves
<1>1. Init => LockHeld
  BY DEF Init, LockHeld
<1>2. LockHeld /\ IndInv /\ [Next]_vars => LockHeld'
  BY LockStep DEF IndInv
<1>3. LockHeld /\ IndInv => WaitsForOneThatMoves
  <2> SUFFICES ASSUME LockHeld, IndInv, NEW w \in Workers, job[w].stage # "free"
               PROVE  CanBeServed(w) \/ (userLock \in Workers /\ CanBeServed(userLock))
    BY DEF WaitsForOneThatMoves
  <2>1. TypeOK /\ \A v \in Workers : job[v].stage = "close" => job[v].run \in Runs
    BY RunsAssumption DEF IndInv, JobsSound
  <2>2. CASE userLock = NoWorker
    BY <2>1, <2>2, ServedWithTheRow DEF MayLock
  <2>3. CASE userLock # NoWorker
    BY <2>1, <2>3, ServedWithTheRow DEF MayLock, LockHeld
  <2> QED
    BY <2>2, <2>3
<1> QED
  BY <1>1, <1>2, <1>3, Invariant, PTL DEF Spec

----------------------------------------------------------------------------
(* What the invariant gives.                                               *)

\* Every column keeps to the values the models allow, whatever requests do.
THEOREM TypeCorrect == Spec => []TypeOK
<1>1. IndInv => TypeOK
  BY DEF IndInv
<1> QED
  BY <1>1, Invariant, PTL

\* However many starts, idle closings and unlocked pauses interleave, a
\* walker is on one run at a time.
THEOREM WalkerOnOneRun == Spec => []OneLiveRun
<1>1. IndInv => OneLiveRun
  BY DEF IndInv
<1> QED
  BY <1>1, Invariant, PTL

\* No settlement, pull-back or decision leaves more on the balance than the
\* run earned, or a row that claims more than the balance got.
THEOREM NoOverpayment == Spec => []NeverOverpaid
<1>1. ASSUME IndInv PROVE NeverOverpaid
  <2> SUFFICES ASSUME NEW r \in Attended
               PROVE  run[r].awarded <= credited[r] /\ credited[r] <= run[r].computed
    BY DEF NeverOverpaid
  <2>1. r \in Runs /\ Agrees(r) /\ run[r].awarded <= credited[r]
    BY <1>1 DEF Attended, IndInv, LedgerSound, Covered
  <2>2. run[r] \in RunRow /\ hold[r] \in HoldRow /\ credited[r] \in Nat
    BY <1>1, <2>1 DEF IndInv, TypeOK
  <2>3. /\ run[r].computed \in Nat /\ CreditOf(hold[r]) \in Nat
        /\ run[r].points \in {"none", "awarded", "held", "rejected"}
    BY <2>2 DEF RunRow, HoldRow, CreditOf
  <2>4. credited[r] <= run[r].computed
    BY <2>1, <2>2, <2>3 DEF Agrees
  <2> QED
    BY <2>1, <2>4
<1> QED
  BY <1>1, Invariant, PTL

\* The row's points wait, or were refused, exactly when its hold says so.
THEOREM HoldsMatch == Spec => []HoldMatchesRun
<1>1. ASSUME IndInv PROVE HoldMatchesRun
  <2> SUFFICES ASSUME NEW r \in Attended
               PROVE  /\ run[r].points \in {"held", "rejected"} => run[r].awarded = 0
                      /\ run[r].points = "held" <=> hold[r].status = "held"
                      /\ run[r].points = "rejected" <=> hold[r].status = "rejected"
    BY DEF HoldMatchesRun
  <2>1. r \in Runs /\ Agrees(r)
    BY <1>1 DEF Attended, IndInv, LedgerSound
  <2>2. run[r].points \in {"none", "awarded", "held", "rejected"}
    BY <1>1, <2>1 DEF IndInv, TypeOK, RunRow
  <2> QED
    BY <2>1, <2>2 DEF Agrees, NoHold
<1> QED
  BY <1>1, Invariant, PTL
----------------------------------------------------------------------------
(* What a step never does.                                                 *)

\* A run is over in the same way after steps that only move its points.
LEMMA PointsStep ==
    ASSUME IndInv,
           \/ \E r \in Runs, approve \in BOOLEAN : DecideHold(r, approve)
           \/ \E S : PullBack(S)
           \/ UNCHANGED run
    PROVE  \A q \in Runs : /\ run'[q].status = run[q].status
                           /\ run'[q].early = run[q].early
                           /\ run'[q].counted = run[q].counted
<1>1. run \in [Runs -> RunRow]
  BY DEF IndInv, TypeOK
<1> DEFINE Moved(row, p, n) == [row EXCEPT !.points = p, !.awarded = n]
           Same(row, e) == e.status = row.status /\ e.early = row.early
                           /\ e.counted = row.counted
<1>2. ASSUME NEW row \in RunRow, NEW p, NEW n PROVE Same(row, Moved(row, p, n))
  BY DEF RunRow
<1> HIDE DEF Moved
<1>3. CASE \E r \in Runs, approve \in BOOLEAN : DecideHold(r, approve)
  <2>1. PICK r \in Runs, approve \in BOOLEAN : DecideHold(r, approve)
    BY <1>3
  <2>2. \E p, n : run' = [run EXCEPT ![r] = Moved(run[r], p, n)]
    BY <2>1, Zenon DEF DecideHold, Moved
  <2>3. PICK p, n : run' = [run EXCEPT ![r] = Moved(run[r], p, n)]
    BY <2>2
  <2>4. Same(run[r], Moved(run[r], p, n))
    BY <1>1, <1>2
  <2> QED
    BY <1>1, <2>3, <2>4
<1>4. CASE \E S : PullBack(S)
  <2>1. PICK S : run' = [r \in Runs |-> IF r \in S THEN Moved(run[r], "held", 0) ELSE run[r]]
    BY <1>4, Zenon DEF PullBack, Moved
  <2> SUFFICES ASSUME NEW q \in Runs PROVE Same(run[q], run'[q])
    OBVIOUS
  <2>2. run'[q] \in {run[q], Moved(run[q], "held", 0)}
    BY <2>1
  <2>3. Same(run[q], Moved(run[q], "held", 0))
    BY <1>1, <1>2
  <2> QED
    BY <2>2, <2>3
<1> QED
  BY <1>3, <1>4

\* No step revives an ended run, or changes how an attended one ended; one
\* case per action.
LEMMA EndsKept ==
    ASSUME IndInv, [Next]_vars
    PROVE  (\A r \in Runs : StaysEnded(r)) \/ UNCHANGED vars
<1> DEFINE Kept == \A r \in Runs : StaysEnded(r)
<1>1. ASSUME \A q \in Runs : /\ run'[q].status = run[q].status
                             /\ run'[q].early = run[q].early
                             /\ run'[q].counted = run[q].counted
      PROVE  Kept
  BY <1>1 DEF StaysEnded
<1>2. ASSUME NEW r \in Runs, run[r].status \in Going,
             \A q \in Runs \ {r} : run'[q] = run[q]
      PROVE  Kept
  BY <1>2 DEF StaysEnded, Going, Ended
<1>3. CASE RequestStep
  <2> PICK w \in Workers :
        StartFindsNone(w) \/ StartFindsIdle(w) \/ GetActiveFindsIdle(w) \/ Serve(w)
    BY <1>3 DEF RequestStep
  <2>1. CASE StartFindsNone(w) \/ StartFindsIdle(w) \/ GetActiveFindsIdle(w)
    BY <2>1, <1>1 DEF StartFindsNone, StartFindsIdle, GetActiveFindsIdle
  <2>2. CASE CloseIdle(w)
    BY <2>2, CloseIdleStep DEF StaysEnded
  <2>3. CASE CloseIdleFails(w) \/ StartRefused(w)
    BY <2>3, <1>1 DEF CloseIdleFails, StartRefused
  <2>4. CASE StartInserts(w)
    BY <2>4, InsertStep DEF StaysEnded, Ended
  <2> QED
    BY <2>1, <2>2, <2>3, <2>4 DEF Serve
<1>4. CASE RunStep
  <2> PICK r \in Runs :
        \/ MarkStop(r) \/ (\E mode \in Modes : MarkStopTooFast(r, mode))
        \/ MarkStopBlocks(r) \/ UnmarkStop(r) \/ SkipStop(r)
        \/ Complete(r) \/ FinishEarly(r)
        \/ Pause(r, TRUE) \/ Pause(r, FALSE) \/ Resume(r) \/ Cancel(r)
        \/ DecideHold(r, TRUE) \/ DecideHold(r, FALSE)
        \/ GoesIdle(r) \/ ViolationsAge(r)
    BY <1>4 DEF RunStep
  <2>1. CASE Complete(r) \/ FinishEarly(r)
    BY <2>1, <1>2, EndStep
  <2>2. CASE Pause(r, TRUE) \/ Pause(r, FALSE) \/ Resume(r) \/ Cancel(r)
    BY <2>2, <1>2, RowStep
  <2>3. CASE DecideHold(r, TRUE) \/ DecideHold(r, FALSE)
    BY <2>3, <1>1, PointsStep
  <2>4. CASE MarkStop(r) \/ MarkStopBlocks(r) \/ UnmarkStop(r) \/ SkipStop(r)
          \/ GoesIdle(r) \/ ViolationsAge(r)
    BY <2>4, <1>1, MarkStep
  <2>5. CASE \E mode \in Modes : MarkStopTooFast(r, mode)
    <3>1. UNCHANGED run \/ \E S : PullBack(S)
      BY <2>5, Zenon DEF MarkStopTooFast
    <3> QED
      BY <3>1, <1>1, PointsStep
  <2> QED
    BY <2>1, <2>2, <2>3, <2>4, <2>5
<1>5. CASE ResetFlag \/ SetTrusted
  BY <1>5, <1>1 DEF ResetFlag, SetTrusted
<1> QED
  BY <1>3, <1>4, <1>5 DEF Next
\* An ended run stays ended, and an attended one as it ended, whatever
\* request, however old the row it read, is served next.
THEOREM EndsForGood == Spec => EndedIsFinal
<1>1. IndInv /\ [Next]_vars => [\A r \in Runs : StaysEnded(r)]_vars
  BY EndsKept
<1> QED
  BY <1>1, Invariant, PTL DEF Spec, EndedIsFinal
----------------------------------------------------------------------------
(* Flags and earlier holds.                                                *)

\* A step that makes no hold keeps holds in time, if it counts violations of
\* runs counted before or still going.
LEMMA NoHoldMade ==
    ASSUME HoldsInTime, UNCHANGED hold, suspect' \subseteq Runs,
           \A r \in Runs : run[r].status \in Ended => run'[r].status \in Ended,
           \/ fraud'.flagged
           \/ suspect' = {}
           \/ /\ ~fraud.flagged
              /\ \A r \in suspect' : r \in suspect \/ run[r].status \notin Ended
    PROVE  HoldsInTime'
BY DEF HoldsInTime

\* The end of a run parks its points only for a flagged walker.
LEMMA EndHolds ==
    ASSUME HoldsInTime, TypeOK, NEW r \in Runs, NEW loaded, NEW ended,
           EndsAs(r, loaded, ended), run'[r].status \in Ended,
           \A q \in Runs : run[q].status \in Ended => run'[q].status \in Ended
    PROVE  HoldsInTime'
<1>1. /\ UNCHANGED <<suspect, fraud>>
      /\ \A q \in Runs \ {r} : hold'[q] = hold[q]
      /\ hold' = hold \/ fraud.flagged
  BY DEF EndsAs, EndsPaying, Parked, watch, TypeOK
<1>2. suspect \subseteq Runs
  BY DEF TypeOK
<1> QED
  BY <1>1, <1>2 DEF HoldsInTime

\* A stop mark that raises the flag holds runs that are over; any other makes
\* no hold.
LEMMA TooFastHolds ==
    ASSUME HoldsInTime, IndInv, NEW r \in Runs, NEW mode, MarkStopTooFast(r, mode)
    PROVE  HoldsInTime'
<1>1. /\ run[r].status \notin Ended /\ suspect' = suspect \union {r}
      /\ suspect' \subseteq Runs
      /\ \A q \in Runs : run'[q].status = run[q].status
  BY TooFastStep DEF MarkStopTooFast, Ended, IndInv, TypeOK
<1>2. CASE UNCHANGED <<run, money, fraud>>
  <2>1. UNCHANGED <<hold, fraud>>
    BY <1>2 DEF money
  <2> QED
    BY <1>1, <2>1 DEF HoldsInTime
<1>3. CASE fraud'.flagged /\ PullBack(Pulled(suspect \union {r}))
  <2>1. \A q \in Runs : q \notin Pulled(suspect \union {r}) => hold'[q] = hold[q]
    BY <1>3 DEF PullBack
  <2>2. \A q \in Pulled(suspect \union {r}) : run[q].status \in Ended
    BY DEF Pulled, Ended
  <2> QED
    BY <1>1, <1>3, <2>1, <2>2 DEF HoldsInTime
<1>4. \/ UNCHANGED <<run, money, fraud>>
      \/ fraud'.flagged /\ PullBack(Pulled(suspect \union {r}))
  BY DEF MarkStopTooFast, IndInv, TypeOK
<1> QED
  BY <1>2, <1>3, <1>4

\* Every step keeps holds in time; one case per group of actions.
LEMMA HoldsStep == HoldsInTime /\ IndInv /\ [Next]_vars => HoldsInTime'
<1> SUFFICES ASSUME HoldsInTime, IndInv, [Next]_vars PROVE HoldsInTime'
  OBVIOUS
<1>1. /\ suspect \subseteq Runs /\ TypeOK
      /\ fraud \in [flagged: BOOLEAN, trusted: BOOLEAN]
  BY DEF IndInv, TypeOK
<1>2. CASE UNCHANGED vars
  BY <1>1, <1>2 DEF HoldsInTime, vars
<1>3. CASE \A r \in Runs : StaysEnded(r)
  <2>1. \A r \in Runs : run[r].status \in Ended => run'[r].status \in Ended
    BY <1>3 DEF StaysEnded
  <2>2. ASSUME UNCHANGED <<hold, suspect, fraud>> PROVE HoldsInTime'
    BY <1>1, <2>1, <2>2 DEF HoldsInTime
  <2>3. CASE RequestStep
    <3> PICK w \in Workers :
          StartFindsNone(w) \/ StartFindsIdle(w) \/ GetActiveFindsIdle(w) \/ Serve(w)
      BY <2>3 DEF RequestStep
    <3>1. CASE CloseIdle(w)
      <4>1. \E loaded, ended : EndsAs(job[w].run, loaded, ended)
        BY <3>1, Zenon DEF CloseIdle
      <4>2. job[w].run \in Runs /\ run'[job[w].run].status \in Ended
        BY <3>1, CloseIdleStep
      <4> QED
        BY <1>1, <2>1, <4>1, <4>2, EndHolds
    <3>2. CASE \/ StartFindsNone(w) \/ StartFindsIdle(w) \/ GetActiveFindsIdle(w)
               \/ CloseIdleFails(w) \/ StartInserts(w) \/ StartRefused(w)
      <4>1. UNCHANGED <<money, watch>>
        BY <3>2 DEF StartFindsNone, StartFindsIdle, GetActiveFindsIdle,
                    CloseIdleFails, StartInserts, StartRefused
      <4> QED
        BY <4>1, <2>2 DEF money, watch
    <3> QED
      BY <3>1, <3>2 DEF Serve
  <2>4. CASE RunStep
    <3> PICK r \in Runs :
          \/ MarkStop(r) \/ (\E mode \in Modes : MarkStopTooFast(r, mode))
          \/ MarkStopBlocks(r) \/ UnmarkStop(r) \/ SkipStop(r)
          \/ Complete(r) \/ FinishEarly(r)
          \/ Pause(r, TRUE) \/ Pause(r, FALSE) \/ Resume(r) \/ Cancel(r)
          \/ DecideHold(r, TRUE) \/ DecideHold(r, FALSE)
          \/ GoesIdle(r) \/ ViolationsAge(r)
      BY <2>4 DEF RunStep
    <3>1. CASE Complete(r) \/ FinishEarly(r)
      <4>1. \E loaded, ended : EndsAs(r, loaded, ended)
        BY <3>1, Zenon DEF Complete, FinishEarly
      <4>2. run'[r].status \in Ended
        BY <3>1, EndStep
      <4> QED
        BY <1>1, <2>1, <4>1, <4>2, EndHolds
    <3>2. CASE DecideHold(r, TRUE) \/ DecideHold(r, FALSE)
      <4>1. hold[r] # NoHold /\ UNCHANGED <<suspect, fraud>>
        BY <3>2 DEF DecideHold, Undecided, NoHold, watch
      <4>2. \A q \in Runs \ {r} : hold'[q] = hold[q]
        BY <3>2, <1>1 DEF DecideHold, TypeOK
      <4> QED
        BY <1>1, <2>1, <4>1, <4>2 DEF HoldsInTime
    <3>3. CASE \E mode \in Modes : MarkStopTooFast(r, mode)
      BY <3>3, TooFastHolds
    <3>4. CASE MarkStopBlocks(r)
      <4>1. UNCHANGED hold /\ suspect' \subseteq Runs /\ fraud'.flagged
        BY <3>4, <1>1 DEF MarkStopBlocks, money
      <4> QED
        BY <4>1, <2>1, NoHoldMade
    <3>5. CASE ViolationsAge(r)
      <4>1. UNCHANGED <<hold, fraud>> /\ suspect' = suspect \ {r}
        BY <3>5 DEF ViolationsAge, money
      <4> QED
        BY <1>1, <4>1, <2>1 DEF HoldsInTime
    <3>6. CASE \/ MarkStop(r) \/ UnmarkStop(r) \/ SkipStop(r) \/ GoesIdle(r)
               \/ Pause(r, TRUE) \/ Pause(r, FALSE) \/ Resume(r) \/ Cancel(r)
      <4>1. UNCHANGED <<money, watch>>
        BY <3>6 DEF MarkStop, UnmarkStop, SkipStop, GoesIdle, Pause, Resume, Cancel
      <4> QED
        BY <4>1, <2>2 DEF money, watch
    <3> QED
      BY <3>1, <3>2, <3>3, <3>4, <3>5, <3>6
  <2>5. CASE ResetFlag
    <3>1. UNCHANGED hold /\ suspect' = {}
      BY <2>5 DEF ResetFlag, money
    <3> QED
      BY <3>1, <2>1, NoHoldMade
  <2>6. CASE SetTrusted
    <3>1. UNCHANGED <<hold, suspect>> /\ fraud'.flagged = fraud.flagged
      BY <2>6, <1>1 DEF SetTrusted, money
    <3> QED
      BY <1>1, <3>1, <2>1 DEF HoldsInTime
  <2> QED
    BY <1>2, <2>3, <2>4, <2>5, <2>6 DEF Next
<1> QED
  BY <1>2, <1>3, EndsKept

\* Raising a flag never meets a hold of an earlier flag, for any history of
\* flags, decisions and resets: reset_flag forgets the violations with it.
THEOREM FlagsNeverCollide == Spec => []FlagNeverCollides
<1>1. Init => HoldsInTime
  BY DEF Init, HoldsInTime
<1>2. ASSUME HoldsInTime PROVE FlagNeverCollides
  BY <1>2 DEF HoldsInTime, FlagNeverCollides, Pulled
<1> QED
  BY <1>1, <1>2, HoldsStep, Invariant, PTL DEF Spec

\* Row and hold agree and stay so, for any flags, decisions and settlements.
THEOREM HoldsStaySound == Spec => []HoldsAreSound
<1>1. HoldMatchesRun /\ FlagNeverCollides => HoldsAreSound
  BY DEF HoldsAreSound
<1> QED
  BY <1>1, HoldsMatch, FlagsNeverCollide, PTL

----------------------------------------------------------------------------
(* The requests implement the ledger.                                      *)

\* A step that settles, ends and pays nothing is no step of the ledger.
LEMMA LedgerStutters ==
    ASSUME \A r \in Attended :
              /\ run'[r].status \in Ended <=> run[r].status \in Ended
              /\ run'[r].points = run[r].points
              /\ run'[r].computed = run[r].computed
              /\ credited'[r] = credited[r]
    PROVE  UNCHANGED Ledger!vars
BY DEF Ledger!vars

\* The step that ends a run settles it: unpaid, credited or parked.
LEMMA LedgerEnds ==
    ASSUME IndInv, NEW r \in Runs, Complete(r) \/ FinishEarly(r)
    PROVE  [Ledger!Next]_Ledger!vars
<1>1. /\ IndInv' /\ run[r].status \in Going /\ run'[r].status \in Ended
      /\ \A q \in Runs \ {r} : run'[q] = run[q] /\ credited'[q] = credited[q]
      /\ r \in Attended => /\ run'[r].points # "rejected"
                           /\ run'[r].points = "held" => credited'[r] = credited[r]
  BY EndStep
<1>2. CASE r \notin Attended
  BY <1>1, <1>2, LedgerStutters DEF Attended
<1>3. CASE r \in Attended
  <2>1. Agrees(r) /\ Agrees(r)' /\ run[r].status \notin Ended
    BY <1>1, <1>3 DEF IndInv, LedgerSound, Going, Ended
  <2>2. /\ run[r].points = "none" /\ run[r].computed = 0 /\ credited[r] = 0
    BY <2>1 DEF Agrees
  <2>3. /\ run'[r].points \in {"none", "awarded", "held", "rejected"}
        /\ run'[r].computed \in Nat
    BY <1>1 DEF IndInv, TypeOK, RunRow
  <2>4. {q \in Attended : run'[q].status \in Ended}
          = {q \in Attended : run[q].status \in Ended} \union {r}
    BY <1>1, <1>3 DEF Attended
  <2>5. r \notin {q \in Attended : run[q].status \in Ended}
    BY <2>1
  <2>6. \A q \in Attended \ {r} : run'[q] = run[q] /\ credited'[q] = credited[q]
    BY <1>1 DEF Attended
  <2>7. CASE run'[r].points = "none"
    <3>1. run'[r].computed = 0 /\ credited'[r] = 0
      BY <2>1, <2>7 DEF Agrees
    <3>2. Ledger!EndUnpaid(r)
      BY <2>2, <2>4, <2>5, <2>6, <2>7, <3>1 DEF Ledger!EndUnpaid
    <3> QED
      BY <1>3, <3>2 DEF Ledger!Next
  <2>8. CASE run'[r].points \in {"awarded", "held"}
    <3>1. /\ run'[r].computed \in Nat \ {0}
          /\ run'[r].points = "awarded" => credited'[r] = run'[r].computed
          /\ run'[r].points = "held" => credited'[r] = 0
      BY <1>1, <1>3, <2>1, <2>2, <2>3, <2>8 DEF Agrees
    <3>2. [q \in Attended |-> run'[q].computed]
            = [[q \in Attended |-> run[q].computed] EXCEPT ![r] = run'[r].computed]
      BY <1>3, <2>6
    <3>3. [q \in Attended |-> run'[q].points]
            = [[q \in Attended |-> run[q].points] EXCEPT ![r] = run'[r].points]
      BY <1>3, <2>6
    <3>4. [q \in Attended |-> credited'[q]]
            = [[q \in Attended |-> credited[q]] EXCEPT ![r] = credited'[r]]
      BY <1>3, <2>6
    <3>5. run'[r].points = "held" => [q \in Attended |-> credited'[q]]
                                        = [q \in Attended |-> credited[q]]
      BY <2>2, <2>6, <3>1
    <3>6. Ledger!EndPaid(r)
      BY <1>3, <2>4, <2>5, <2>8, <3>1, <3>2, <3>3, <3>4, <3>5 DEF Ledger!EndPaid
    <3> QED
      BY <1>3, <3>6 DEF Ledger!Next
  <2> QED
    BY <1>1, <1>3, <2>3, <2>7, <2>8
<1> QED
  BY <1>2, <1>3

\* Pausing is nothing to the ledger; cancelling ends a run unpaid.
LEMMA LedgerRows ==
    ASSUME IndInv, NEW r \in Runs,
           Pause(r, TRUE) \/ Pause(r, FALSE) \/ Resume(r) \/ Cancel(r)
    PROVE  [Ledger!Next]_Ledger!vars
<1>1. /\ UNCHANGED credited
      /\ run[r].status \notin Ended
      /\ run'[r].points = run[r].points /\ run'[r].computed = run[r].computed
      /\ \A q \in Runs \ {r} : run'[q] = run[q]
  BY RowStep DEF Going, Ended
<1>2. CASE r \notin Attended \/ run'[r].status \notin Ended
  BY <1>1, <1>2, LedgerStutters DEF Attended
<1>3. CASE r \in Attended /\ run'[r].status \in Ended
  <2>1. {q \in Attended : run'[q].status \in Ended}
          = {q \in Attended : run[q].status \in Ended} \union {r}
    BY <1>1, <1>3 DEF Attended
  <2>2. Ledger!EndUnpaid(r)
    BY <1>1, <1>3, <2>1 DEF Ledger!EndUnpaid, Attended
  <2> QED
    BY <1>3, <2>2 DEF Ledger!Next
<1> QED
  BY <1>2, <1>3

\* A flag's pull-back is the ledger's.
LEMMA LedgerPullsBack ==
    ASSUME IndInv, NEW seen \in SUBSET Runs, PullBack(Pulled(seen))
    PROVE  Ledger!PullBack
<1> DEFINE S == Pulled(seen)
           T == S \intersect Attended
<1>1. PICK taken \in [S -> 0..MaxMarks] :
        credited' = [r \in Runs |-> IF r \in S THEN credited[r] - taken[r] ELSE credited[r]]
  BY DEF PullBack
<1>2. run' = [r \in Runs |-> IF r \in S THEN [run[r] EXCEPT !.points = "held", !.awarded = 0]
                             ELSE run[r]]
  BY DEF PullBack
<1>3. credited' \in [Runs -> Nat] /\ \A r \in Runs : run'[r].status = run[r].status
  BY PullBackSound
<1>4. T \in SUBSET {r \in {q \in Attended : run[q].status \in Ended} :
                      [q \in Attended |-> run[q].points][r] = "awarded"}
  BY DEF Pulled, Ended
<1>5. ASSUME NEW r \in T
      PROVE  run'[r].points = "held" /\ run'[r].computed = run[r].computed
             /\ credited'[r] <= credited[r]
  <2>1. r \in S /\ r \in Runs /\ run[r] \in RunRow /\ credited[r] \in Nat /\ taken[r] \in Nat
    BY <1>1, MarksAssumption DEF Attended, IndInv, TypeOK
  <2> HIDE DEF S
  <2>2. run'[r] = [run[r] EXCEPT !.points = "held", !.awarded = 0]
        /\ credited'[r] = credited[r] - taken[r]
    BY <1>1, <1>2, <2>1
  <2>3. credited'[r] <= credited[r]
    BY <2>1, <2>2
  <2>4. ASSUME NEW row \in RunRow
        PROVE  LET e == [row EXCEPT !.points = "held", !.awarded = 0]
               IN e.points = "held" /\ e.computed = row.computed
    BY DEF RunRow
  <2> QED
    BY <2>1, <2>2, <2>3, <2>4
<1> HIDE DEF S
<1>6. ASSUME NEW r \in Attended, r \notin T
      PROVE  run'[r] = run[r] /\ credited'[r] = credited[r]
  BY <1>1, <1>2, <1>6 DEF Attended
<1> HIDE DEF T
<1>7. [r \in Attended |-> run'[r].points]
        = [r \in Attended |-> IF r \in T THEN "held"
                              ELSE [q \in Attended |-> run[q].points][r]]
  BY <1>5, <1>6
<1>8. /\ [r \in Attended |-> credited'[r]] \in [Attended -> Nat]
      /\ \A r \in Attended : IF r \in T
            THEN [q \in Attended |-> credited'[q]][r] <= [q \in Attended |-> credited[q]][r]
            ELSE [q \in Attended |-> credited'[q]][r] = [q \in Attended |-> credited[q]][r]
  BY <1>3, <1>5, <1>6 DEF Attended
<1>9. /\ {r \in Attended : run'[r].status \in Ended} = {r \in Attended : run[r].status \in Ended}
      /\ [r \in Attended |-> run'[r].computed] = [r \in Attended |-> run[r].computed]
  BY <1>3, <1>5, <1>6 DEF Attended
<1> QED
  BY <1>4, <1>7, <1>8, <1>9 DEF Ledger!PullBack

\* An operator's decision is the ledger's Approve or Reject.
LEMMA LedgerDecides ==
    ASSUME IndInv, NEW r \in Runs, NEW approve \in BOOLEAN, DecideHold(r, approve)
    PROVE  [Ledger!Next]_Ledger!vars
<1> DEFINE credit == IF approve THEN CreditOf(hold[r]) ELSE 0
<1>1. /\ hold[r].status = "held"
      /\ credited' = [credited EXCEPT ![r] = @ + credit]
      /\ run' = [run EXCEPT ![r] =
                   [@ EXCEPT !.points = IF approve THEN "awarded" ELSE "rejected",
                             !.awarded = credit]]
  BY DEF DecideHold, Undecided
<1>2. /\ run \in [Runs -> RunRow] /\ hold \in [Runs -> HoldRow]
      /\ credited \in [Runs -> Nat]
  BY DEF IndInv, TypeOK
<1>3. \A q \in Runs : run'[q].status = run[q].status
  BY DecideSound
<1>4. \A q \in Runs \ {r} : run'[q] = run[q] /\ credited'[q] = credited[q]
  BY <1>1, <1>2
<1>5. /\ run'[r].points = IF approve THEN "awarded" ELSE "rejected"
      /\ run'[r].computed = run[r].computed
      /\ credited'[r] = credited[r] + credit
  <2>1. ASSUME NEW row \in RunRow, NEW p, NEW n
        PROVE  LET e == [row EXCEPT !.points = p, !.awarded = n]
               IN e.points = p /\ e.computed = row.computed
    BY DEF RunRow
  <2> QED
    BY <1>1, <1>2, <2>1
<1>6. CASE r \notin Attended
  BY <1>3, <1>4, <1>6, LedgerStutters DEF Attended
<1>7. CASE r \in Attended
  <2>1. Agrees(r) /\ run[r].points \in {"none", "awarded", "held", "rejected"}
    BY <1>2, <1>7 DEF IndInv, LedgerSound, RunRow
  <2>2. run[r].points = "held" /\ credited[r] + CreditOf(hold[r]) = run[r].computed
    BY <1>1, <2>1 DEF Agrees, NoHold
  <2>3. [q \in Attended |-> run'[q].points]
          = [[q \in Attended |-> run[q].points] EXCEPT ![r] = run'[r].points]
    BY <1>4, <1>7 DEF Attended
  <2>4. [q \in Attended |-> credited'[q]]
          = [[q \in Attended |-> credited[q]] EXCEPT ![r] = credited'[r]]
    BY <1>4, <1>7 DEF Attended
  <2>5. /\ {q \in Attended : run'[q].status \in Ended} = {q \in Attended : run[q].status \in Ended}
        /\ [q \in Attended |-> run'[q].computed] = [q \in Attended |-> run[q].computed]
    BY <1>3, <1>4, <1>5 DEF Attended
  <2>6. CASE approve
    <3>1. credited'[r] = run[r].computed
      BY <1>5, <2>2, <2>6
    <3>2. Ledger!Approve(r)
      BY <1>5, <1>7, <2>2, <2>3, <2>4, <2>5, <2>6, <3>1 DEF Ledger!Approve
    <3> QED
      BY <1>7, <3>2 DEF Ledger!Next
  <2>7. CASE ~approve
    <3>1. credited'[r] = credited[r]
      BY <1>2, <1>5, <2>7
    <3>2. [q \in Attended |-> credited'[q]] = [q \in Attended |-> credited[q]]
      BY <1>4, <3>1 DEF Attended
    <3>3. Ledger!Reject(r)
      BY <1>5, <1>7, <2>2, <2>3, <2>5, <2>7, <3>2 DEF Ledger!Reject
    <3> QED
      BY <1>7, <3>3 DEF Ledger!Next
  <2> QED
    BY <2>6, <2>7
<1> QED
  BY <1>6, <1>7

\* Whatever the requests on attended runs do is a step of the ledger: a run
\* is settled once, as it ends, and only an operator can pay out later.
THEOREM RequestsKeepLedger == Spec => KeepsLedger
<1>1. Init => Ledger!Init
  BY DEF Init, Ledger!Init, BlankRow, Attended, Ended
<1>2. IndInv /\ [Next]_vars => [Ledger!Next]_Ledger!vars
  <2> SUFFICES ASSUME IndInv, [Next]_vars PROVE [Ledger!Next]_Ledger!vars
    OBVIOUS
  <2>1. ASSUME UNCHANGED <<run, credited>> PROVE UNCHANGED Ledger!vars
    BY <2>1, LedgerStutters
  <2>2. CASE RequestStep
    <3> PICK w \in Workers :
          StartFindsNone(w) \/ StartFindsIdle(w) \/ GetActiveFindsIdle(w) \/ Serve(w)
      BY <2>2 DEF RequestStep
    <3>1. CASE StartFindsNone(w) \/ StartFindsIdle(w) \/ GetActiveFindsIdle(w)
      BY <3>1, <2>1 DEF StartFindsNone, StartFindsIdle, GetActiveFindsIdle, money
    <3>2. CASE CloseIdle(w)
      BY <3>2, CloseIdleStep, LedgerStutters
    <3>3. CASE CloseIdleFails(w) \/ StartRefused(w)
      BY <3>3, <2>1 DEF CloseIdleFails, StartRefused, money
    <3>4. CASE StartInserts(w)
      <4>1. ASSUME NEW r \in Attended
            PROVE  /\ run'[r].status \in Ended <=> run[r].status \in Ended
                   /\ run'[r].points = run[r].points
                   /\ run'[r].computed = run[r].computed
                   /\ credited'[r] = credited[r]
        <5>1. r \in Runs /\ Agrees(r) /\ UNCHANGED credited
          BY <3>4, InsertStep DEF Attended, IndInv, LedgerSound
        <5>2. CASE run'[r] = run[r]
          BY <5>1, <5>2
        <5>3. CASE run'[r] # run[r]
          BY <3>4, <5>1, <5>3, InsertStep DEF BlankRow, Agrees, Ended
        <5> QED
          BY <5>2, <5>3
      <4> QED
        BY <4>1, LedgerStutters
    <3> QED
      BY <3>1, <3>2, <3>3, <3>4 DEF Serve
  <2>3. CASE RunStep
    <3> PICK r \in Runs :
          \/ MarkStop(r) \/ (\E mode \in Modes : MarkStopTooFast(r, mode))
          \/ MarkStopBlocks(r) \/ UnmarkStop(r) \/ SkipStop(r)
          \/ Complete(r) \/ FinishEarly(r)
          \/ Pause(r, TRUE) \/ Pause(r, FALSE) \/ Resume(r) \/ Cancel(r)
          \/ DecideHold(r, TRUE) \/ DecideHold(r, FALSE)
          \/ GoesIdle(r) \/ ViolationsAge(r)
      BY <2>3 DEF RunStep
    <3>1. CASE Complete(r) \/ FinishEarly(r)
      BY <3>1, LedgerEnds
    <3>2. CASE Pause(r, TRUE) \/ Pause(r, FALSE) \/ Resume(r) \/ Cancel(r)
      BY <3>2, LedgerRows
    <3>3. CASE DecideHold(r, TRUE) \/ DecideHold(r, FALSE)
      BY <3>3, LedgerDecides
    <3>4. CASE MarkStop(r) \/ MarkStopBlocks(r) \/ UnmarkStop(r) \/ SkipStop(r)
            \/ GoesIdle(r) \/ ViolationsAge(r)
      BY <3>4, <2>1, MarkStep
    <3>5. CASE \E mode \in Modes : MarkStopTooFast(r, mode)
      <4>1. UNCHANGED <<run, credited>> \/ PullBack(Pulled(suspect \union {r}))
        BY <3>5, TooFastStep
      <4>2. suspect \union {r} \in SUBSET Runs
        BY DEF IndInv, TypeOK
      <4> QED
        BY <4>1, <4>2, <2>1, LedgerPullsBack DEF Ledger!Next
    <3> QED
      BY <3>1, <3>2, <3>3, <3>4, <3>5
  <2>4. CASE ResetFlag \/ SetTrusted
    BY <2>4, <2>1, SwitchStep
  <2>5. CASE UNCHANGED vars
    BY <2>5, <2>1 DEF vars
  <2> QED
    BY <2>2, <2>3, <2>4, <2>5 DEF Next
<1> QED
  BY <1>1, <1>2, Invariant, PTL DEF Spec, KeepsLedger, Ledger!Spec

============================================================================
