---------------------------- MODULE OneTimeCode ----------------------------
(* What a phone is promised of its one-time codes, with no lock and no     *)
(* request in sight.  A new code is given only when none is good, and each *)
(* is newer than all before; the good one ends, by being entered or by     *)
(* running out, and never comes back.                                      *)
EXTENDS Naturals

VARIABLES
    good,     \* the codes that let one in
    latest    \* the number of the code given last

vars == <<good, latest>>

Init == good = {} /\ latest = 0

Give ==
    /\ good = {}
    /\ latest' = latest + 1
    /\ good' = {latest + 1}

End ==
    /\ good # {}
    /\ good' = {}
    /\ UNCHANGED latest

Next == Give \/ End

Spec == Init /\ [][Next]_vars
=============================================================================
