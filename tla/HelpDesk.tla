------------------------------ MODULE HelpDesk ------------------------------
(* What the questions to the help search are promised of the one encoder,   *)
(* with no semaphore, task or timer in sight.  A question is let in unless  *)
(* the desk is full, and takes the slot if nobody has it, else the last     *)
(* place in the line.  The slot goes to the first in line, and stays taken  *)
(* when the one it was taken for has left.                                  *)
EXTENDS Naturals, Sequences, FiniteSets, SequencesExt

CONSTANTS Questions, MaxWaiting

VARIABLES
    asked,     \* the questions that have come
    inside,    \* those that wait for an answer
    holder,    \* for whom the slot is taken, if it is
    queue      \* the line for it

vars == <<asked, inside, holder, queue>>

Init == asked = {} /\ inside = {} /\ holder = {} /\ queue = <<>>

Enter(q) ==
    /\ q \notin asked
    /\ Cardinality(inside) < MaxWaiting
    /\ asked' = asked \union {q}
    /\ inside' = inside \union {q}
    /\ IF holder = {} THEN holder' = {q} /\ UNCHANGED queue
                      ELSE queue' = Append(queue, q) /\ UNCHANGED holder

TurnAway(q) ==
    /\ q \notin asked
    /\ Cardinality(inside) = MaxWaiting
    /\ asked' = asked \union {q}
    /\ UNCHANGED <<inside, holder, queue>>

PassOn ==
    /\ holder # {}
    /\ IF queue = <<>> THEN holder' = {} /\ UNCHANGED queue
                       ELSE holder' = {Head(queue)} /\ queue' = Tail(queue)

\* Who leaves gives up its place in the line, or its turn; an encode goes on.
Leave(q) ==
    /\ q \in inside
    /\ inside' = inside \ {q}
    /\ UNCHANGED asked
    /\ \/ \E i \in DOMAIN queue : queue[i] = q /\ queue' = RemoveAt(queue, i) /\ UNCHANGED holder
       \/ holder = {q} /\ PassOn
       \/ (\A i \in DOMAIN queue : queue[i] # q) /\ UNCHANGED <<holder, queue>>

Release == PassOn /\ UNCHANGED <<asked, inside>>

Next ==
    \/ \E q \in Questions : Enter(q) \/ TurnAway(q) \/ Leave(q)
    \/ Release

Spec == Init /\ [][Next]_vars
=============================================================================
