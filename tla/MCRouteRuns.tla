---------------------------- MODULE MCRouteRuns ----------------------------
(* Two runs: the later of two settlements, holds or starts meets the       *)
(* earlier one.  Two requests: one closes an idle run while the other has  *)
(* read it too.  More of either only repeats these meetings.               *)
EXTENDS RouteRuns, TLC

CONSTANTS r1, r2, w1, w2  \* runs and workers

BothRuns == {r1, r2}
OneIdles == {r2}
NoneIdles == {}
OneWorker == {w1}
TwoWorkers == {w1, w2}
Unpunished == {"off"}
Switching == {"shadow", "enforce"}
Symmetric == Permutations(TwoWorkers)
============================================================================
