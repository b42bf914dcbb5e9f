----------------------------- MODULE MCGeoStaging -----------------------------
(* Instances of GeoStaging for TLC. *)
EXTENDS GeoStaging, TLC

OneFollower  == {"agt2"}
StageDelays  == [f \in Followers |-> IF f = "agt2" THEN 4 ELSE 8]
NoSkew       == [n \in Nodes |-> 0]
FollowerAhead == [n \in Nodes |-> IF n = Master THEN 0 ELSE 1]
=============================================================================
