--------------------------- MODULE MCRunTimeline ---------------------------
(* One stop and three instants, with room for a pause and an end.          *)
EXTENDS RunTimeline, TLC

OneStop == {1}
NoneOptional == {}
NoIds == {}
NoDeliveries == {}
NoClosers == {}
============================================================================
