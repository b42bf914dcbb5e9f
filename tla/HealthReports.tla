--------------------------- MODULE HealthReports ---------------------------
(***************************************************************************)
(* What the cluster health of a geo-manager promises to those who read it: *)
(* every answer to GET /cluster and GET /metrics is taken at one moment    *)
(* between two probe rounds, and says of each mesh node what the last      *)
(* MaxHistory rounds of this process found.                                *)
(*                                                                         *)
(* There are no threads and no lock here; ClusterHealth has them.          *)
(***************************************************************************)
EXTENDS Integers, Sequences, FiniteSets

CONSTANTS
  Nodes,      \* geo-managers
  Mesh,       \* MESH_NODES of each of them, in the order of the list
  MaxHistory  \* MAX_HISTORY_PER_NODE

VARIABLES
  log,     \* the rounds of each process so far; a round says who answered
  report   \* the answer it is sending

NoReport == <<>>

(* The parts of an answer, in the order in which the code reads them.      *)
Parts == [cluster |-> <<"last", "nodes", "summary">>,
          metrics |-> <<"nodes", "last">>]

(* Mutant: the run of failures does not stop at the last success. *)
SummaryOfAll(kept) ==
  [total_probes |-> Len(kept),
   failures |-> Cardinality({k \in DOMAIN kept : ~kept[k]}),
   consecutive_failures |-> Cardinality({k \in DOMAIN kept : ~kept[k]})]

(* offline_summary of one node, from the probe results that are kept.  A   *)
(* node without any is left out of the answer; here it has zeros.          *)
Summary(kept) ==
  [total_probes |-> Len(kept),
   failures |-> Cardinality({k \in DOMAIN kept : ~kept[k]}),
   consecutive_failures |->
     Cardinality({k \in DOMAIN kept : \A j \in k..Len(kept) : ~kept[j]})]

(* The results for the i-th mesh node in the last MaxHistory rounds of l.  *)
Kept(l, i) ==
  LET gone == IF Len(l) > MaxHistory THEN Len(l) - MaxHistory ELSE 0
  IN  [k \in 1..(Len(l) - gone) |-> l[gone + k][i]]

PartOf(n, l, part) ==
  CASE part = "last"    -> Len(l)
    [] part = "nodes"   -> IF l = <<>> THEN <<>> ELSE l[Len(l)]
    [] part = "summary" -> [i \in DOMAIN Mesh[n] |-> Summary(Kept(l, i))]

ReportOf(n, l, op) ==
  [op |-> op,
   parts |-> [p \in DOMAIN Parts[op] |-> PartOf(n, l, Parts[op][p])]]

Init ==
  /\ log = [n \in Nodes |-> <<>>]
  /\ report = [n \in Nodes |-> NoReport]

Probe(n) ==
  /\ \E round \in [DOMAIN Mesh[n] -> BOOLEAN] :
       log' = [log EXCEPT ![n] = Append(@, round)]
  /\ UNCHANGED report

Answer(n) ==
  /\ \E op \in DOMAIN Parts :
       report' = [report EXCEPT ![n] = ReportOf(n, log[n], op)]
  /\ UNCHANGED log

Sent(n) ==
  /\ report' = [report EXCEPT ![n] = NoReport]
  /\ UNCHANGED log

(* The process ends; the next one knows nothing of its rounds. *)
Forget(n) ==
  /\ log' = [log EXCEPT ![n] = <<>>]
  /\ report' = [report EXCEPT ![n] = NoReport]

(* Steps that change nothing are told first: TLC meets many of them. *)
Next ==
  /\ <<log, report>>' # <<log, report>>
  /\ \E n \in Nodes : Probe(n) \/ Answer(n) \/ Sent(n) \/ Forget(n)

Spec == Init /\ [][Next]_<<log, report>>
=============================================================================
