---------------------------- MODULE MCRouteDays ----------------------------
(* Two sights, a short and a long visit, and a point of the author's own   *)
(* that may be on the route twice; legs of an hour and of five.            *)
EXTENDS RouteDays, TLC

CONSTANTS cape, canyon, spring

TwoSights == {cape, canyon}
OneSpring == {spring}
Visits == cape :> 0 @@ canyon :> 120 @@ spring :> 0
Roads == {60, 300}
OneFamily == {[pace |-> "moderate", driven |-> FALSE, children |-> TRUE, daylight |-> 900]}
=============================================================================
