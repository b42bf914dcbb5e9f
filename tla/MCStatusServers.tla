-------------------------- MODULE MCStatusServers --------------------------
(* Instances of StatusServers for TLC. *)
EXTENDS StatusServers, TLC

Two == {"m", "f"}

(* The follower probes the master and itself, the master nobody. *)
MeshOf == "m" :> <<>> @@ "f" :> <<"m", "f">>

OneClick == {"click"}
ClicksAt == [k \in Clicks |-> "m"]

(* Somebody looks at the follower's health.  Somebody else connects to the *)
(* master and sends nothing, or deploys with curl and does not know which  *)
(* node is the master.                                                     *)
TwoVisitors == {"page", "curl"}
VisitsOf    == [v \in Visitors |-> IF v = "page" THEN {<<"f", "cluster">>}
                                   ELSE {<<"m", "silence">>, <<"f", "deploy">>}]

NoVisitors  == {}

MasterStops == {<<"m", "stop">>, <<"f", "crash">>}
=============================================================================
