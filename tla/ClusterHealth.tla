--------------------------- MODULE ClusterHealth ---------------------------
(***************************************************************************)
(* geo_manager/cluster_health.py: in every geo-manager a thread probes the *)
(* mesh nodes one after the other and puts the round into a                *)
(* ClusterHealthState, which the HTTP thread reads for GET /cluster and    *)
(* GET /metrics.  Both take the lock of that state and go over its fields  *)
(* one by one.                                                             *)
(*                                                                         *)
(* Probes are answered or not as they please here; StatusServers says when *)
(* the node at the other end answers.                                      *)
(***************************************************************************)
EXTENDS Integers, Sequences, FiniteSets

CONSTANTS
  Nodes,       \* geo-managers
  Mesh,        \* MESH_NODES of each of them, in the order of the list
  MaxHistory,  \* MAX_HISTORY_PER_NODE
  MaxRounds    \* BOUND: probe rounds in the life of a process

ASSUME MeshAssumption ==
  /\ Mesh \in [Nodes -> Seq(Nodes)]
  /\ MaxHistory \in Nat \ {0}
ASSUME RoundsAssumption == MaxRounds \in Nat \ {0}

VARIABLES
  prober,     \* where the thread of run_cluster_health_loop is
  batch,      \* results_list: the round so far
  lastProbe,  \* last_probe_at, as the number of the round; 0 is None
  results,    \* the latest round
  history,    \* history_per_node: a bounded deque per mesh node
  lock,       \* _lock: who holds it
  reading,    \* the answer that the HTTP thread is composing, "no" if none
  view,       \* the parts of it that it has read
  report,     \* the answer that it is sending
  log         \* history variable: the rounds of this process

(* What readers are promised; also the words for what an answer is.        *)
Promise == INSTANCE HealthReports

Parts   == Promise!Parts
Summary(kept) == Promise!Summary(kept)

threads == <<prober, batch, reading, view>>
state   == <<lastProbe, results, history, lock>>
health  == <<threads, state, report, log>>

ProberLabels == {"off", "sleep", "probe", "stamp", "set", "append"}

HealthTypeOK ==
  /\ prober \in [Nodes -> ProberLabels]
  /\ batch \in [Nodes -> Seq(BOOLEAN)]
  /\ lastProbe \in [Nodes -> Nat]
  /\ results \in [Nodes -> Seq(BOOLEAN)]
  /\ history \in [Nodes -> Seq(Seq(BOOLEAN))]
  /\ lock \in [Nodes -> {"free", "prober", "reader"}]
  /\ reading \in [Nodes -> {"no"} \cup DOMAIN Parts]
  /\ log \in [Nodes -> Seq(Seq(BOOLEAN))]
  /\ \A n \in Nodes :
       /\ Len(batch[n]) <= Len(Mesh[n])
       /\ Len(results[n]) \in {0, Len(Mesh[n])}
       /\ Len(history[n]) = Len(Mesh[n])
       /\ \A i \in DOMAIN Mesh[n] : Len(history[n][i]) <= MaxHistory
       /\ \A r \in DOMAIN log[n] : Len(log[n][r]) = Len(Mesh[n])
       /\ Len(log[n]) <= MaxRounds
       /\ reading[n] = "no" => view[n] = <<>>

Fresh(n) == [i \in DOMAIN Mesh[n] |-> <<>>]

HealthInit ==
  /\ prober = [n \in Nodes |-> "off"]
  /\ batch = [n \in Nodes |-> <<>>]
  /\ lastProbe = [n \in Nodes |-> 0]
  /\ results = [n \in Nodes |-> <<>>]
  /\ history = [n \in Nodes |-> Fresh(n)]
  /\ lock = [n \in Nodes |-> "free"]
  /\ reading = [n \in Nodes |-> "no"]
  /\ view = [n \in Nodes |-> <<>>]
  /\ report = [n \in Nodes |-> Promise!NoReport]
  /\ log = [n \in Nodes |-> <<>>]

-----------------------------------------------------------------------------
(* The probing thread.  It starts with the process if there are mesh nodes *)
(* to probe, with a round at once.                                         *)
ProberStarts(n) ==
  /\ prober[n] = "off"
  /\ prober' = [prober EXCEPT ![n] = IF Mesh[n] = <<>> THEN "off" ELSE "probe"]
  /\ UNCHANGED <<batch, reading, view, state, report, log>>

(* Mutant: the round is probed with the lock held. *)
ProberWakesLocking(n) ==
  /\ prober[n] = "sleep"
  /\ Len(log[n]) < MaxRounds
  /\ lock[n] = "free"
  /\ lock' = [lock EXCEPT ![n] = "prober"]
  /\ prober' = [prober EXCEPT ![n] = "probe"]
  /\ UNCHANGED <<batch, reading, view, lastProbe, results, history, report, log>>

ProberWakes(n) ==
  /\ prober[n] = "sleep"
  /\ Len(log[n]) < MaxRounds
  /\ prober' = [prober EXCEPT ![n] = "probe"]
  /\ UNCHANGED <<batch, reading, view, state, report, log>>

(* The mesh node that the round has come to. *)
Target(n) == Mesh[n][Len(batch[n]) + 1]

MoreToProbe(n) == prober[n] = "probe" /\ Len(batch[n]) < Len(Mesh[n])

(* probe_node: an answer in time, or any exception. *)
Probed(n, reachable) ==
  /\ MoreToProbe(n)
  /\ batch' = [batch EXCEPT ![n] = Append(@, reachable)]
  /\ UNCHANGED <<prober, reading, view, state, report, log>>

RoundIsComplete(n) == prober[n] = "probe" /\ Len(batch[n]) = Len(Mesh[n])

(* Mutant: update does not take the lock. *)
UpdateUnlocked(n) ==
  /\ RoundIsComplete(n)
  /\ prober' = [prober EXCEPT ![n] = "stamp"]
  /\ UNCHANGED <<batch, reading, view, state, report, log>>

(* ClusterHealthState.update. *)
UpdateLocks(n) ==
  /\ RoundIsComplete(n)
  /\ lock[n] = "free"
  /\ lock' = [lock EXCEPT ![n] = "prober"]
  /\ prober' = [prober EXCEPT ![n] = "stamp"]
  /\ UNCHANGED <<batch, reading, view, lastProbe, results, history, report, log>>

UpdateStamps(n) ==
  /\ prober[n] = "stamp"
  /\ lastProbe' = [lastProbe EXCEPT ![n] = @ + 1]
  /\ prober' = [prober EXCEPT ![n] = "set"]
  /\ UNCHANGED <<batch, reading, view, results, history, lock, report, log>>

UpdateSets(n) ==
  /\ prober[n] = "set"
  /\ results' = [results EXCEPT ![n] = batch[n]]
  /\ prober' = [prober EXCEPT ![n] = "append"]
  /\ UNCHANGED <<batch, reading, view, lastProbe, history, lock, report, log>>

(* Mutant: a list without a limit. *)
PushUnbounded(kept, r) == Append(kept, r)

(* append to a deque(maxlen=MaxHistory). *)
Push(kept, r) ==
  IF Len(kept) < MaxHistory THEN Append(kept, r) ELSE Append(Tail(kept), r)

UpdateAppends(n) ==
  /\ prober[n] = "append"
  /\ history' = [history EXCEPT ![n] =
                   [i \in DOMAIN Mesh[n] |-> Push(history[n][i], batch[n][i])]]
  /\ log' = [log EXCEPT ![n] = Append(@, batch[n])]
  /\ batch' = [batch EXCEPT ![n] = <<>>]
  /\ lock' = [lock EXCEPT ![n] = "free"]
  /\ prober' = [prober EXCEPT ![n] = "sleep"]
  /\ UNCHANGED <<reading, view, lastProbe, results, report>>

-----------------------------------------------------------------------------
(* The HTTP thread: to_json_dict for GET /cluster, to_prometheus for GET   *)
(* /metrics.                                                               *)
ReadBegins(n, op) ==
  /\ reading[n] = "no" /\ report[n] = Promise!NoReport
  /\ lock[n] = "free"
  /\ lock' = [lock EXCEPT ![n] = "reader"]
  /\ reading' = [reading EXCEPT ![n] = op]
  /\ UNCHANGED <<prober, batch, view, lastProbe, results, history, report, log>>

PartNow(n, part) ==
  CASE part = "last"    -> lastProbe[n]
    [] part = "nodes"   -> results[n]
    [] part = "summary" -> [i \in DOMAIN Mesh[n] |-> Summary(history[n][i])]

ReadPart(n) ==
  /\ reading[n] # "no"
  /\ LET parts == Parts[reading[n]]
     IN  /\ Len(view[n]) < Len(parts)
         /\ view' = [view EXCEPT ![n] = Append(@, PartNow(n, parts[Len(@) + 1]))]
  /\ UNCHANGED <<prober, batch, reading, state, report, log>>

(* Mutant: the lock is kept. *)
ReadEndsLocked(n) ==
  /\ reading[n] # "no"
  /\ Len(view[n]) = Len(Parts[reading[n]])
  /\ report' = [report EXCEPT ![n] = [op |-> reading[n], parts |-> view[n]]]
  /\ view' = [view EXCEPT ![n] = <<>>]
  /\ reading' = [reading EXCEPT ![n] = "no"]
  /\ UNCHANGED <<prober, batch, state, log>>

ReadEnds(n) ==
  /\ reading[n] # "no"
  /\ Len(view[n]) = Len(Parts[reading[n]])
  /\ report' = [report EXCEPT ![n] = [op |-> reading[n], parts |-> view[n]]]
  /\ view' = [view EXCEPT ![n] = <<>>]
  /\ reading' = [reading EXCEPT ![n] = "no"]
  /\ lock' = [lock EXCEPT ![n] = "free"]
  /\ UNCHANGED <<prober, batch, lastProbe, results, history, log>>

ReportSent(n) ==
  /\ report[n] # Promise!NoReport
  /\ report' = [report EXCEPT ![n] = Promise!NoReport]
  /\ UNCHANGED <<threads, state, log>>

(* The process ends, and all of this with it. *)
HealthLost(n) ==
  /\ prober' = [prober EXCEPT ![n] = "off"]
  /\ batch' = [batch EXCEPT ![n] = <<>>]
  /\ lastProbe' = [lastProbe EXCEPT ![n] = 0]
  /\ results' = [results EXCEPT ![n] = <<>>]
  /\ history' = [history EXCEPT ![n] = Fresh(n)]
  /\ lock' = [lock EXCEPT ![n] = "free"]
  /\ reading' = [reading EXCEPT ![n] = "no"]
  /\ view' = [view EXCEPT ![n] = <<>>]
  /\ report' = [report EXCEPT ![n] = Promise!NoReport]
  /\ log' = [log EXCEPT ![n] = <<>>]

UpdateSteps(n) == UpdateLocks(n) \/ UpdateStamps(n) \/ UpdateSets(n) \/ UpdateAppends(n)
ReadSteps(n)   == ReadPart(n) \/ ReadEnds(n) \/ ReportSent(n)

HealthNext ==
  \E n \in Nodes :
    \/ ProberStarts(n) \/ ProberWakes(n)
    \/ \E reachable \in BOOLEAN : Probed(n, reachable)
    \/ UpdateSteps(n)
    \/ \E op \in DOMAIN Parts : ReadBegins(n, op)
    \/ ReadSteps(n)
    \/ HealthLost(n)

HealthSpec == HealthInit /\ [][HealthNext]_health

-----------------------------------------------------------------------------
(***************************************************************************)
(* The threads and the lock implement HealthReports: no answer mixes two   *)
(* rounds or tells more, or less, than the deques should hold, however the *)
(* update and the readers interleave and whenever the process dies.        *)
(***************************************************************************)
ReportsAreSnapshots == Promise!Spec

(***************************************************************************)
(* consecutive_failures of a mesh node in an answer to GET /cluster is the *)
(* length of the outage the rounds saw: the node failed in that many       *)
(* rounds, up to the one the answer is from, and answered in the round     *)
(* before, unless the history or the process is no longer than that.       *)
(***************************************************************************)
OutagesAreExact ==
  \A n \in Nodes : report[n] # Promise!NoReport /\ report[n].op = "cluster" =>
    LET last == report[n].parts[1] IN
    \A i \in DOMAIN Mesh[n] :
      LET outage == report[n].parts[3][i].consecutive_failures
      IN  /\ last <= Len(log[n])
          /\ \A r \in (last - outage + 1)..last : ~log[n][r][i]
          /\ outage \in {MaxHistory, last} \/ log[n][last - outage][i]
=============================================================================
