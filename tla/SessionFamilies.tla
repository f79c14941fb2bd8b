-------------------------- MODULE SessionFamilies --------------------------
(* What a user is promised of the sessions, with no request and no row     *)
(* lock in sight.  A sign-in opens a family with one token that works; the *)
(* token may give way to one new token; and a family may end.  One that    *)
(* has ended never gives out a token again.                                *)
EXTENDS Naturals

VARIABLES
    given,    \* tokens given out so far, numbered in their order
    works     \* works[f]: the tokens of family f that work; a family has the
              \* number of its first token

vars == <<given, works>>

Init == given = 0 /\ works = [f \in {} |-> {}]

Open ==
    /\ given' = given + 1
    /\ works' = [f \in DOMAIN works \union {given + 1} |->
                    IF f = given + 1 THEN {given + 1} ELSE works[f]]

Renew(f) ==
    /\ works[f] # {}
    /\ given' = given + 1
    /\ works' = [works EXCEPT ![f] = {given + 1}]

EndAll(families) ==
    /\ works' = [f \in DOMAIN works |-> IF f \in families THEN {} ELSE works[f]]
    /\ UNCHANGED given

Next ==
    \/ Open
    \/ \E f \in DOMAIN works : Renew(f)
    \/ \E families \in SUBSET DOMAIN works : EndAll(families)

Spec == Init /\ [][Next]_vars
=============================================================================
