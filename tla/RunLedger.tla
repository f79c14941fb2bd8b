----------------------------- MODULE RunLedger -----------------------------
(***************************************************************************)
(* What the points of a route run promise, with no request, lock or        *)
(* settings in sight.  A run is settled in the one step that ends it: its  *)
(* worth is put on the walker's balance, or parked for an operator, or is  *)
(* nothing.  Credited points may be pulled back to wait for an operator,   *)
(* who either brings the balance up to the run's worth or leaves it as it  *)
(* is.  Nothing ever puts more on the balance than the run was worth.      *)
(***************************************************************************)
EXTENDS Naturals

CONSTANT Runs

VARIABLES
    over,    \* the runs that have ended
    points,  \* points[r]: what became of the run's points
    worth,   \* worth[r]: what the run earned when it ended
    share    \* share[r]: how much of the balance came from run r

vars == <<over, points, worth, share>>

Init ==
    /\ over = {}
    /\ points = [r \in Runs |-> "none"]
    /\ worth = [r \in Runs |-> 0]
    /\ share = [r \in Runs |-> 0]

\* The run ends, and in the same step is settled for good.
EndUnpaid(r) ==
    /\ r \notin over
    /\ over' = over \union {r}
    /\ UNCHANGED <<points, worth, share>>

EndPaid(r) ==
    /\ r \notin over
    /\ over' = over \union {r}
    /\ worth'[r] \in Nat \ {0}
    /\ worth' = [worth EXCEPT ![r] = worth'[r]]
    /\ \/ /\ points' = [points EXCEPT ![r] = "awarded"]
          /\ share' = [share EXCEPT ![r] = worth'[r]]
       \/ /\ points' = [points EXCEPT ![r] = "held"]
          /\ UNCHANGED share

\* Credited points of some runs are taken back until an operator decides; a
\* balance that has been spent down gives back less than the run brought.
PullBack ==
    /\ \E S \in SUBSET {r \in over : points[r] = "awarded"} :
          /\ points' = [r \in Runs |-> IF r \in S THEN "held" ELSE points[r]]
          /\ share' \in [Runs -> Nat]
          /\ \A r \in Runs : IF r \in S THEN share'[r] <= share[r]
                                        ELSE share'[r] = share[r]
    /\ UNCHANGED <<over, worth>>

Approve(r) ==
    /\ points[r] = "held"
    /\ points' = [points EXCEPT ![r] = "awarded"]
    /\ share' = [share EXCEPT ![r] = worth[r]]
    /\ UNCHANGED <<over, worth>>

Reject(r) ==
    /\ points[r] = "held"
    /\ points' = [points EXCEPT ![r] = "rejected"]
    /\ UNCHANGED <<over, worth, share>>

Next ==
    \/ \E r \in Runs : EndUnpaid(r) \/ EndPaid(r) \/ Approve(r) \/ Reject(r)
    \/ PullBack

Spec == Init /\ [][Next]_vars
=============================================================================
