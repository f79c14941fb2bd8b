--------------------------- MODULE MCTravelPoints ---------------------------
(* A like, a favourite and one that pays nothing; two requests that grant, *)
(* one to commit between another's read and its write; ranks that a grant  *)
(* and a run each can cross.                                               *)
EXTENDS TravelPoints, TLC

CONSTANTS like, favourite, self, g1, g2

OneLike == {like}
OneFavourite == {favourite}
NoOwn == {}
OneOwn == {self}
TwoGrants == {g1, g2}
TwoRanks == {0, 2}
Symmetric == Permutations(TwoGrants)
=============================================================================
