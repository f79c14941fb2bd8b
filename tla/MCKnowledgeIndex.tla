--------------------------- MODULE MCKnowledgeIndex ---------------------------
(* Two chunks and two wordings, of which one may be missing; two processes *)
(* with two connections each; a change of model and a restart.             *)
EXTENDS KnowledgeIndex, TLC

CONSTANTS p1, p2, old, new, m1, m2, x1, x2

TwoPapers == {p1, p2}
TwoWordings == {old, new}
TwoEmbedModels == {m1, m2}
TwoIndexers == {x1, x2}
TwoWires == {1, 2}
=============================================================================
