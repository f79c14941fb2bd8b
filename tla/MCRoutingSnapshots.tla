------------------------- MODULE MCRoutingSnapshots -------------------------
(* Two looks of the route and three starts: one to leave a snapshot, one   *)
(* to reuse or follow it, one to race with that and with a purge of two    *)
(* batches.                                                                *)
EXTENDS RoutingSnapshots, TLC

CONSTANTS s1, s2, s3, before, after

TwoContents == {before, after}
ThreeStarts == {s1, s2, s3}
Symmetric == Permutations(ThreeStarts) \union Permutations(TwoContents)
=============================================================================
