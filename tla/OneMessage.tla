----------------------------- MODULE OneMessage -----------------------------
(* What is promised of a message that carries a one-time code, with no      *)
(* worker, claim, answer or clock in sight.  It is offered once; while it   *)
(* is open the provider may take it, which closes it; and it may be dropped *)
(* without having been taken.  What is closed is closed for good.           *)
(*                                                                          *)
(* Where nobody is told what the provider did, a message it took may stay   *)
(* open, and be taken as often as there are tries.                          *)
EXTENDS Naturals

CONSTANTS Messages, Tries

VARIABLES
    told,      \* whether what the provider took is known
    offered,   \* the messages there are
    open,      \* those the provider may yet take
    taken      \* taken[m]: how often it took m

vars == <<told, offered, open, taken>>

Init == told \in BOOLEAN /\ offered = {} /\ open = {} /\ taken = [m \in Messages |-> 0]

Offer(m) ==
    /\ m \notin offered
    /\ offered' = offered \union {m}
    /\ open' = open \union {m}
    /\ UNCHANGED <<told, taken>>

Take(m) ==
    /\ m \in open
    /\ taken[m] < Tries
    /\ \/ open' = open \ {m}
       \/ ~told /\ open' = open
    /\ taken' = [taken EXCEPT ![m] = @ + 1]
    /\ UNCHANGED <<told, offered>>

Drop(dropped) ==
    /\ open' = open \ dropped
    /\ UNCHANGED <<told, offered, taken>>

Next ==
    \/ \E m \in Messages : Offer(m) \/ Take(m)
    \/ \E dropped \in SUBSET open : Drop(dropped)

Spec == Init /\ [][Next]_vars
=============================================================================
