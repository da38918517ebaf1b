--------------------------- MODULE MCFollowThrough ---------------------------
(* Two findings, one of each direction; levels 0..2 leave an active metric   *)
(* room to get better or worse than its baseline and stay active.            *)
EXTENDS FollowThrough

MCThreshold == [k \in Metric |-> IF k \in HigherIsBetter THEN 2 ELSE 0]
=============================================================================
