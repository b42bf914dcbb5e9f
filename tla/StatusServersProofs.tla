------------------------ MODULE StatusServersProofs ------------------------
(***************************************************************************)
(* Theorems about StatusServers, for any number of nodes, visitors and     *)
(* clicks, any mesh and backlog, and any stops and crashes.                *)
(***************************************************************************)
EXTENDS StatusServers, ClusterHealthProofs

ServersTypeOK ==
  /\ server \in [Nodes -> {"down", "loop", "reading", "report", "run", "stopping"}]
  /\ queue \in [Nodes -> Seq(Requests)]
  /\ serving \in [Nodes -> Requests \cup {Nothing}]
  /\ \A n \in Nodes :
       /\ Len(queue[n]) <= Backlog
       /\ server[n] \in {"reading", "report", "run"} => serving[n] # Nothing
       /\ server[n] \in {"down", "loop"} => serving[n] = Nothing
       /\ server[n] = "down" => queue[n] = <<>>
  /\ call \in [Clients -> {"idle", "sent", "ok", "failed"}]
  /\ runs \in [Clicks -> Nat]
  /\ faults \in 0..MaxFaults

(***************************************************************************)
(* The inductive invariant: whose requests are where.  A node asks only    *)
(* the target of its probe and a click only its own node, each of them has *)
(* at most one request in the backlogs, and none there once it has been    *)
(* served.                                                                 *)
(***************************************************************************)
ServingInv(t) ==
  /\ server[t] = "reading" => serving[t].op = "silence"
  /\ server[t] = "report" => serving[t].op \in DOMAIN Parts
  /\ server[t] = "run" => serving[t].op = "deploy"
  /\ serving[t].from \notin Nodes
  /\ serving[t].from \in Clicks =>
       serving[t].op = "deploy" /\ runs[serving[t].from] = 1

RequestInv(t, i) ==
  LET r == queue[t][i] IN
  /\ r.from \in Nodes =>
       /\ r.op = "status" /\ t = Target(r.from)
       /\ call[r.from] = "sent" /\ MoreToProbe(r.from)
  /\ r.from \in Clicks =>
       /\ r.op = "deploy" /\ t = ClickAt[r.from]
       /\ call[r.from] # "idle" /\ runs[r.from] = 0

SentOnce(t, i, j) ==
  queue[t][i].from = queue[t][j].from /\ queue[t][i].from \in Nodes \cup Clicks => i = j

QueuesInv ==
  \A t \in Nodes : \A i \in DOMAIN queue[t] :
    RequestInv(t, i) /\ \A j \in DOMAIN queue[t] : SentOnce(t, i, j)

CallInv ==
  /\ \A n \in Nodes : call[n] # "idle" => MoreToProbe(n)
  /\ \A k \in Clicks :
       /\ runs[k] \in {0, 1}
       /\ runs[k] = 1 => ClickAt[k] = Master /\ call[k] # "idle"
       /\ call[k] = "ok" => runs[k] = 1

ServersInv ==
  /\ ServersTypeOK
  /\ \A t \in Nodes : ServingInv(t)
  /\ QueuesInv
  /\ CallInv

-----------------------------------------------------------------------------
(***************************************************************************)
(* What the servers do to the state of ClusterHealth is what ClusterHealth *)
(* says.                                                                   *)
(***************************************************************************)
LEMMA HealthSteps ==
  ASSUME ServersInv, [Next]_vars
  PROVE  [HealthNext]_health
<1>1. CASE UNCHANGED vars
  BY <1>1 DEF vars
<1>2. ASSUME NEW n \in Nodes, Start(n) PROVE HealthNext
  BY <1>2 DEF Start, HealthNext
<1>3. ASSUME NEW n \in Nodes, ServerSteps(n) PROVE [HealthNext]_health
  <2>1. CASE \/ ServeStatus(n) \/ AwaitsRequest(n) \/ EndsAwaiting(n)
            \/ BeginReport(n) \/ Refuse(n) \/ StartRun(n) \/ EndRun(n)
    BY <2>1 DEF ServeStatus, AwaitsRequest, EndsAwaiting, BeginReport, Refuse, StartRun, EndRun
  <2>2. CASE LocksReport(n)
    <3>1. serving[n].op \in DOMAIN Parts
      BY <2>2 DEF LocksReport, ServersInv, ServingInv
    <3> QED
      BY <2>2, <3>1 DEF LocksReport, HealthNext
  <2>3. CASE ReadsReport(n) \/ EndsReport(n) \/ SendsReport(n)
    BY <2>3 DEF ReadsReport, EndsReport, SendsReport, HealthNext, ReadSteps
  <2> QED
    BY <1>3, <2>1, <2>2, <2>3 DEF ServerSteps
<1>4. ASSUME NEW n \in Nodes, ProberSteps(n) PROVE [HealthNext]_health
  <2>1. CASE ProbeSteps(n)
    BY <2>1 DEF ProbeSteps, Sends, GivesUp
  <2>2. CASE NoteProbe(n)
    BY <2>2 DEF NoteProbe, HealthNext
  <2>3. CASE Wakes(n) \/ Updates(n)
    BY <2>3 DEF Wakes, Updates, HealthNext
  <2> QED
    BY <1>4, <2>1, <2>2, <2>3 DEF ProberSteps
<1>5. ASSUME NEW n \in Nodes, Stop(n) PROVE UNCHANGED health
  BY <1>5 DEF Stop
<1>6. ASSUME NEW n \in Nodes, Kill(n) \/ Crash(n) PROVE HealthNext
  BY <1>6 DEF Kill, Crash, Ends, HealthNext
<1>7. ASSUME NEW v \in Visitors, VisitorSteps(v) PROVE UNCHANGED health
  BY <1>7 DEF VisitorSteps, Sends, GivesUp
<1>8. ASSUME NEW k \in Clicks, ClickSteps(k) PROVE UNCHANGED health
  BY <1>8 DEF ClickSteps, Click, Sends, GivesUp
<1> QED
  BY <1>1, <1>2, <1>3, <1>4, <1>5, <1>6, <1>7, <1>8 DEF Next

-----------------------------------------------------------------------------
(***************************************************************************)
(* What becomes of the backlogs.                                           *)
(***************************************************************************)
LEMMA QueueLemma ==
  ASSUME ServersTypeOK, NEW t \in Nodes
  PROVE  /\ queue[t] \in Seq(Requests) /\ Len(queue[t]) \in Nat
         /\ DOMAIN queue[t] = 1..Len(queue[t])
         /\ \A i \in DOMAIN queue[t] : queue[t][i] \in Requests
<1>1. queue[t] \in Seq(Requests)
  BY DEF ServersTypeOK
<1> QED
  BY <1>1, LenProperties, ElementOfSeq

LEMMA SentLemma ==
  ASSUME ServersTypeOK, NEW t \in Nodes, NEW r \in Requests,
         queue' = [queue EXCEPT ![t] = Append(@, r)]
  PROVE  /\ queue' \in [Nodes -> Seq(Requests)]
         /\ \A u \in Nodes \ {t} : queue'[u] = queue[u]
         /\ Len(queue'[t]) = Len(queue[t]) + 1
         /\ DOMAIN queue'[t] = 1..Len(queue[t]) + 1
         /\ \A i \in 1..Len(queue[t]) : queue'[t][i] = queue[t][i]
         /\ queue'[t][Len(queue[t]) + 1] = r
<1> DEFINE q == queue[t]
<1>1. q \in Seq(Requests)
  BY QueueLemma
<1>2. queue'[t] = Append(q, r) /\ \A u \in Nodes \ {t} : queue'[u] = queue[u]
  BY DEF ServersTypeOK
<1> HIDE DEF q
<1>3. /\ Append(q, r) \in Seq(Requests) /\ Len(Append(q, r)) = Len(q) + 1
      /\ \A i \in 1..Len(q) : Append(q, r)[i] = q[i]
      /\ Append(q, r)[Len(q) + 1] = r
  BY <1>1, AppendProperties
<1>4. DOMAIN Append(q, r) = 1..Len(q) + 1
  BY <1>3, LenProperties
<1>5. queue' \in [Nodes -> Seq(Requests)]
  BY <1>3 DEF ServersTypeOK, q
<1> QED
  BY <1>2, <1>3, <1>4, <1>5 DEF q

LEMMA TakenLemma ==
  ASSUME ServersTypeOK, NEW t \in Nodes, queue[t] # <<>>,
         queue' = [queue EXCEPT ![t] = Tail(@)]
  PROVE  /\ queue' \in [Nodes -> Seq(Requests)]
         /\ \A u \in Nodes \ {t} : queue'[u] = queue[u]
         /\ Len(queue'[t]) = Len(queue[t]) - 1
         /\ DOMAIN queue'[t] = 1..Len(queue[t]) - 1
         /\ \A i \in 1..Len(queue[t]) - 1 : queue'[t][i] = queue[t][i + 1]
         /\ Head(queue[t]) = queue[t][1] /\ 1 \in DOMAIN queue[t]
         /\ Head(queue[t]) \in Requests
<1> DEFINE q == queue[t]
<1>1. q \in Seq(Requests) /\ q # <<>>
  BY QueueLemma
<1>2. queue'[t] = Tail(q) /\ \A u \in Nodes \ {t} : queue'[u] = queue[u]
  BY DEF ServersTypeOK
<1> HIDE DEF q
<1>3. /\ Head(q) \in Requests /\ Tail(q) \in Seq(Requests) /\ Len(Tail(q)) = Len(q) - 1
      /\ \A i \in 1..Len(Tail(q)) : Tail(q)[i] = q[i + 1]
  BY <1>1, HeadTailProperties
<1>4. DOMAIN Tail(q) = 1..Len(q) - 1
  BY <1>3, LenProperties
<1>5. Head(q) = q[1] /\ 1 \in DOMAIN q
  BY <1>1, EmptySeq, LenProperties
<1>6. queue' \in [Nodes -> Seq(Requests)]
  BY <1>3 DEF ServersTypeOK, q
<1> QED
  BY <1>2, <1>3, <1>4, <1>5, <1>6 DEF q

LEMMA UnclaimedLemma ==
  ASSUME ServersTypeOK, NEW t \in Nodes, NEW c \in Clients,
         NEW q, q = UnclaimedAll(queue[t], c)
  PROVE  /\ q \in Seq(Requests) /\ Len(q) = Len(queue[t]) /\ DOMAIN q = DOMAIN queue[t]
         /\ \A i \in DOMAIN queue[t] : q[i] = Unclaimed(queue[t][i], c)
<1>1. \A r \in Requests : Unclaimed(r, c) \in Requests
  BY DEF Requests, Unclaimed
<1>2. q \in [1..Len(queue[t]) -> Requests]
  BY <1>1, QueueLemma DEF UnclaimedAll
<1>3. q \in Seq(Requests) /\ Len(q) = Len(queue[t])
  BY <1>2, QueueLemma, TableIsSeq
<1> QED
  BY <1>2, <1>3, QueueLemma DEF UnclaimedAll

LEMMA RequestLemma ==
  ASSUME NEW r \in Requests
  PROVE  /\ r.from \in Clients \cup {Nobody} /\ r.op \in Operations
         /\ r # Nothing
<1>1. Nothing.op \notin Operations
  BY DEF Nothing, Operations, Parts, Promise!Parts
<1> QED
  BY <1>1 DEF Requests

LEMMA UnclaimedServing ==
  ASSUME ServersTypeOK, NEW t \in Nodes, NEW c \in Clients,
         NEW s, s = Unclaimed(serving[t], c)
  PROVE  /\ s \in Requests \cup {Nothing} /\ (s = Nothing <=> serving[t] = Nothing)
         /\ s.op = serving[t].op /\ s.from \in {serving[t].from, Nobody}
<1>1. CASE serving[t] = Nothing
  BY <1>1, ClientsAssumption DEF Unclaimed, Nothing
<1>2. CASE serving[t] \in Requests
  <2>1. s \in Requests /\ s.op = serving[t].op /\ s.from \in {serving[t].from, Nobody}
    BY <1>2 DEF Unclaimed, Requests
  <2> QED
    BY <2>1, <1>2, RequestLemma
<1> QED
  BY <1>1, <1>2 DEF ServersTypeOK

LEMMA ClientsLemma ==
  /\ Nodes \subseteq Clients /\ Clicks \subseteq Clients /\ Visitors \subseteq Clients
  /\ Nobody \notin Clients
  /\ \A n \in Nodes : n \notin Clicks /\ n \notin Visitors
  /\ \A k \in Clicks : k \notin Visitors
BY ClientsAssumption DEF Clients

LEMMA OutcomeLemma ==
  ASSUME NEW c, NEW ok \in BOOLEAN
  PROVE  /\ Outcome(c, ok) \in {"idle", "sent", "ok", "failed"}
         /\ c \notin Visitors => Outcome(c, ok) = IF ok THEN "ok" ELSE "failed"
BY DEF Outcome

(* Who sends what to whom. *)
MaySend(c, t, op) ==
  \/ c \in Visitors /\ op \in Operations
  \/ c \in Clicks /\ op = "deploy" /\ t = ClickAt[c]
  \/ c \in Nodes /\ op = "status" /\ t = Target(c) /\ MoreToProbe(c)

LEMMA TargetLemma ==
  ASSUME HealthTypeOK, NEW n \in Nodes, MoreToProbe(n)
  PROVE  Target(n) \in Nodes
<1>1. Mesh[n] \in Seq(Nodes) /\ Len(batch[n]) \in Nat
  BY MeshAssumption, LenProperties DEF HealthTypeOK
<1>2. Len(batch[n]) + 1 \in 1..Len(Mesh[n])
  BY <1>1, MeshLemma DEF MoreToProbe
<1> QED
  BY <1>1, <1>2, ElementOfSeq DEF Target

(* Every caller's step is one of two. *)
LEMMA CallersLemma ==
  ASSUME HealthTypeOK,
         \/ \E n \in Nodes : ProbeSteps(n)
         \/ \E v \in Visitors : VisitorSteps(v)
         \/ \E k \in Clicks : ClickSteps(k)
  PROVE  \E c \in Clients, t \in Nodes :
           \/ \E op \in Operations : MaySend(c, t, op) /\ Sends(c, t, op)
           \/ GivesUp(c, t) /\ (c \in Nodes => MoreToProbe(c))
<1>1. ASSUME NEW n \in Nodes, ProbeSteps(n)
      PROVE  \E c \in Clients, t \in Nodes :
               \/ \E op \in Operations : MaySend(c, t, op) /\ Sends(c, t, op)
               \/ GivesUp(c, t) /\ (c \in Nodes => MoreToProbe(c))
  <2>1. n \in Clients /\ Target(n) \in Nodes /\ "status" \in Operations /\ MoreToProbe(n)
    BY <1>1, TargetLemma, ClientsLemma DEF ProbeSteps, Operations
  <2>2. MaySend(n, Target(n), "status")
    BY <2>1 DEF MaySend
  <2>3. Sends(n, Target(n), "status") \/ GivesUp(n, Target(n))
    BY <1>1 DEF ProbeSteps
  <2> QED
    BY <2>1, <2>2, <2>3
<1>2. ASSUME NEW v \in Visitors, VisitorSteps(v)
      PROVE  \E c \in Clients, t \in Nodes :
               \/ \E op \in Operations : MaySend(c, t, op) /\ Sends(c, t, op)
               \/ GivesUp(c, t) /\ (c \in Nodes => MoreToProbe(c))
  <2>1. PICK page \in Visits[v] : Sends(v, page[1], page[2]) \/ GivesUp(v, page[1])
    BY <1>2 DEF VisitorSteps
  <2>2. page[1] \in Nodes /\ page[2] \in Operations
    BY ClientsAssumption
  <2>3. v \in Clients /\ v \notin Nodes /\ MaySend(v, page[1], page[2])
    BY <2>2, ClientsLemma DEF MaySend
  <2> QED
    BY <2>1, <2>2, <2>3
<1>3. ASSUME NEW k \in Clicks, ClickSteps(k)
      PROVE  \E c \in Clients, t \in Nodes :
               \/ \E op \in Operations : MaySend(c, t, op) /\ Sends(c, t, op)
               \/ GivesUp(c, t) /\ (c \in Nodes => MoreToProbe(c))
  <2>1. k \in Clients /\ k \notin Nodes /\ ClickAt[k] \in Nodes /\ "deploy" \in Operations
    BY ClientsAssumption, ClientsLemma DEF Operations
  <2>2. MaySend(k, ClickAt[k], "deploy")
    BY DEF MaySend
  <2>3. Sends(k, ClickAt[k], "deploy") \/ GivesUp(k, ClickAt[k])
    BY <1>3 DEF ClickSteps, Click
  <2> QED
    BY <2>1, <2>2, <2>3
<1> QED
  BY <1>1, <1>2, <1>3

(***************************************************************************)
(* A request that was in the backlog before and whose sender does not      *)
(* notice the step keeps what the invariant says of it.                    *)
(***************************************************************************)
FromSame(c) ==
  /\ c \in Nodes => /\ call'[c] = call[c] /\ Target(c)' = Target(c)
                    /\ MoreToProbe(c) => MoreToProbe(c)'
  /\ c \in Clicks => runs'[c] = runs[c] /\ call'[c] # "idle"

Comes(t, i, old) ==
  /\ old \in DOMAIN queue[t]
  /\ \/ queue'[t][i].from = Nobody
     \/ /\ queue'[t][i] = queue[t][old]
        /\ \A c \in Clients : c = queue[t][old].from => FromSame(c)

LEMMA ComesLemma ==
  ASSUME QueuesInv, NEW t \in Nodes, NEW i, NEW old, Comes(t, i, old)
  PROVE  RequestInv(t, i)'
<1>1. RequestInv(t, old)
  BY DEF QueuesInv, Comes
<1>2. CASE queue'[t][i].from = Nobody
  BY <1>2, ClientsLemma DEF RequestInv
<1>3. CASE /\ queue'[t][i] = queue[t][old]
           /\ \A c \in Clients : c = queue[t][old].from => FromSame(c)
  <2>1. CASE queue[t][old].from \in Nodes
    <3>1. PICK c \in Nodes : c = queue[t][old].from
      BY <2>1
    <3>2. /\ queue[t][old].op = "status" /\ t = Target(c) /\ call[c] = "sent" /\ MoreToProbe(c)
      BY <1>1, <3>1 DEF RequestInv
    <3>3. Target(c)' = Target(c) /\ MoreToProbe(c)' /\ call'[c] = call[c]
      BY <1>3, <3>1, <3>2, ClientsLemma DEF FromSame
    <3>4. queue'[t][i].from = c /\ queue'[t][i].op = "status" /\ c \notin Clicks
      BY <1>3, <3>1, <3>2, ClientsLemma
    <3> QED
      BY <3>2, <3>3, <3>4 DEF RequestInv, Target, MoreToProbe
  <2>2. CASE queue[t][old].from \in Clicks
    <3>1. PICK c \in Clicks : c = queue[t][old].from
      BY <2>2
    <3>2. FromSame(c) /\ c \notin Nodes
      BY <1>3, <3>1, ClientsLemma
    <3> QED
      BY <3>1, <3>2, <1>1, <1>3 DEF RequestInv, FromSame
  <2>3. CASE queue[t][old].from \notin Nodes \cup Clicks
    BY <2>3, <1>3 DEF RequestInv
  <2> QED
    BY <2>1, <2>2, <2>3
<1> QED
  BY <1>2, <1>3 DEF Comes

LEMMA ComesOnce ==
  ASSUME QueuesInv, NEW t \in Nodes, NEW i, NEW j, NEW old, NEW other,
         Comes(t, i, old), Comes(t, j, other), old = other => i = j
  PROVE  SentOnce(t, i, j)'
<1>1. SentOnce(t, old, other)
  BY DEF QueuesInv, Comes
<1> QED
  BY <1>1, ClientsLemma DEF SentOnce, Comes

LEMMA SendsStep ==
  ASSUME ServersInv, NEW c \in Clients, NEW t \in Nodes, NEW op \in Operations,
         MaySend(c, t, op), Sends(c, t, op)
  PROVE  ServersInv'
<1> DEFINE r == [from |-> c, op |-> op]
<1>1. ServersTypeOK /\ QueuesInv /\ CallInv /\ \A u \in Nodes : ServingInv(u)
  BY DEF ServersInv
<1>2. /\ call[c] = "idle" /\ server[t] # "down" /\ Len(queue[t]) < Backlog
      /\ queue' = [queue EXCEPT ![t] = Append(@, r)]
      /\ UNCHANGED <<server, serving, runs, faults, prober, batch>>
  BY DEF Sends, health, threads
<1>3. call'[c] = "sent" /\ \A d \in Clients \ {c} : call'[d] = call[d]
  BY <1>1 DEF Sends, ServersTypeOK
<1>4. r \in Requests
  BY DEF Requests
<1>5. /\ queue' \in [Nodes -> Seq(Requests)]
      /\ \A u \in Nodes \ {t} : queue'[u] = queue[u]
      /\ Len(queue'[t]) = Len(queue[t]) + 1
      /\ DOMAIN queue'[t] = 1..Len(queue[t]) + 1
      /\ \A i \in 1..Len(queue[t]) : queue'[t][i] = queue[t][i]
      /\ queue'[t][Len(queue[t]) + 1] = r
  BY <1>1, <1>2, <1>4, SentLemma
<1>6. \A u \in Nodes : Len(queue[u]) \in Nat /\ DOMAIN queue[u] = 1..Len(queue[u])
  BY <1>1, QueueLemma
<1> HIDE DEF r
<1>7. ServersTypeOK'
  <2>1. call' \in [Clients -> {"idle", "sent", "ok", "failed"}]
    BY <1>1 DEF Sends, ServersTypeOK
  <2>2. Len(queue'[t]) <= Backlog
    BY <1>2, <1>5, <1>6, LimitsAssumption
  <2>3. \A u \in Nodes : Len(queue'[u]) <= Backlog /\ (server[u] = "down" => queue'[u] = <<>>)
    BY <2>2, <1>1, <1>2, <1>5 DEF ServersTypeOK
  <2> QED
    BY <2>1, <2>3, <1>1, <1>2, <1>5 DEF ServersTypeOK
<1>8. \A u \in Nodes : \A i \in DOMAIN queue[u] : Comes(u, i, i)
  <2> SUFFICES ASSUME NEW u \in Nodes, NEW i \in DOMAIN queue[u] PROVE Comes(u, i, i)
    OBVIOUS
  <2>1. queue'[u][i] = queue[u][i]
    BY <1>5, <1>6
  <2>2. RequestInv(u, i)
    BY <1>1 DEF QueuesInv
  <2>3. ASSUME NEW d \in Clients, d = queue[u][i].from PROVE FromSame(d)
    BY <2>2, <2>3, <1>2, <1>3, ClientsLemma DEF RequestInv, FromSame, Target, MoreToProbe
  <2> QED
    BY <2>1, <2>3 DEF Comes
<1>9. QueuesInv'
  <2> SUFFICES ASSUME NEW u \in Nodes, NEW i \in DOMAIN queue'[u]
               PROVE  RequestInv(u, i)' /\ \A j \in DOMAIN queue'[u] : SentOnce(u, i, j)'
    BY DEF QueuesInv
  <2>1. CASE u = t /\ i = Len(queue[t]) + 1
    <3>1. RequestInv(u, i)'
      BY <2>1, <1>1, <1>2, <1>3, <1>5, ClientsLemma
      DEF RequestInv, MaySend, CallInv, r, Target, MoreToProbe
    <3>2. ASSUME NEW j \in DOMAIN queue'[u] PROVE SentOnce(u, i, j)'
      <4>1. CASE j = i
        BY <4>1 DEF SentOnce
      <4>2. CASE j \in DOMAIN queue[t]
        <5>1. RequestInv(t, j)
          BY <4>2, <1>1 DEF QueuesInv
        <5>2. queue'[t][j] = queue[t][j] /\ queue'[t][i] = r
          BY <4>2, <2>1, <1>5, <1>6
        <5> QED
          BY <5>1, <5>2, <2>1, <1>2 DEF SentOnce, RequestInv, r
      <4> QED
        BY <4>1, <4>2, <2>1, <1>5, <1>6
    <3> QED
      BY <3>1, <3>2
  <2>2. CASE i \in DOMAIN queue[u]
    <3>1. Comes(u, i, i) /\ RequestInv(u, i)'
      BY <2>2, <1>1, <1>8, ComesLemma
    <3>2. ASSUME NEW j \in DOMAIN queue'[u] PROVE SentOnce(u, i, j)'
      <4>1. CASE j \in DOMAIN queue[u]
        BY <4>1, <3>1, <1>1, <1>8, ComesOnce
      <4>2. CASE u = t /\ j = Len(queue[t]) + 1
        <5>1. RequestInv(t, i)
          BY <4>2, <2>2, <1>1 DEF QueuesInv
        <5>2. queue'[t][i] = queue[t][i] /\ queue'[t][j] = r
          BY <4>2, <2>2, <1>5, <1>6
        <5> QED
          BY <5>1, <5>2, <4>2, <1>2 DEF SentOnce, RequestInv, r
      <4> QED
        BY <4>1, <4>2, <1>5, <1>6
    <3> QED
      BY <3>1, <3>2
  <2> QED
    BY <2>1, <2>2, <1>5, <1>6
<1>10. \A u \in Nodes : ServingInv(u)'
  BY <1>1, <1>2 DEF ServingInv
<1>11. CallInv'
  BY <1>1, <1>2, <1>3, ClientsLemma DEF CallInv, MaySend, MoreToProbe, Sends
<1> QED
  BY <1>7, <1>9, <1>10, <1>11 DEF ServersInv

LEMMA GivesUpStep ==
  ASSUME ServersInv, NEW c \in Clients, NEW t \in Nodes, GivesUp(c, t),
         c \in Nodes => MoreToProbe(c)
  PROVE  ServersInv'
<1>1. ServersTypeOK /\ QueuesInv /\ CallInv /\ \A u \in Nodes : ServingInv(u)
  BY DEF ServersInv
<1>2. /\ queue' = [n \in Nodes |-> UnclaimedAll(queue[n], c)]
      /\ serving' = [n \in Nodes |-> Unclaimed(serving[n], c)]
      /\ UNCHANGED <<server, runs, faults, prober, batch>>
  BY DEF GivesUp, health, threads
<1>3. call'[c] = Outcome(c, FALSE) /\ \A d \in Clients \ {c} : call'[d] = call[d]
  BY <1>1 DEF GivesUp, ServersTypeOK
<1>4. \A u \in Nodes : /\ queue'[u] \in Seq(Requests) /\ Len(queue'[u]) = Len(queue[u])
                      /\ DOMAIN queue'[u] = DOMAIN queue[u]
                      /\ \A i \in DOMAIN queue[u] : queue'[u][i] = Unclaimed(queue[u][i], c)
  BY <1>1, <1>2, UnclaimedLemma
<1>5. \A u \in Nodes : /\ serving'[u] \in Requests \cup {Nothing}
                      /\ (serving'[u] = Nothing <=> serving[u] = Nothing)
                      /\ serving'[u].op = serving[u].op
                      /\ serving'[u].from \in {serving[u].from, Nobody}
  BY <1>1, <1>2, UnclaimedServing
<1>6. \A u \in Nodes : \A i \in DOMAIN queue[u] : Comes(u, i, i)
  <2> SUFFICES ASSUME NEW u \in Nodes, NEW i \in DOMAIN queue[u] PROVE Comes(u, i, i)
    OBVIOUS
  <2>1. RequestInv(u, i) /\ queue[u][i] \in Requests
    BY <1>1, QueueLemma DEF QueuesInv
  <2>2. CASE queue[u][i].from = c /\ c \notin Clicks
    <3>1. queue'[u][i].from = Nobody
      BY <2>1, <2>2, <1>4 DEF Unclaimed, Requests
    <3> QED
      BY <3>1 DEF Comes
  <2>3. CASE ~(queue[u][i].from = c /\ c \notin Clicks)
    <3>1. queue'[u][i] = queue[u][i]
      BY <2>3, <1>4 DEF Unclaimed
    <3>2. ASSUME NEW d \in Clients, d = queue[u][i].from PROVE FromSame(d)
      <4>1. CASE d = c
        <5>1. c \in Clicks /\ c \notin Nodes /\ call'[c] = "failed"
          BY <4>1, <3>2, <2>3, <1>3, ClientsLemma, OutcomeLemma
        <5> QED
          BY <5>1, <4>1, <1>2 DEF FromSame
      <4>2. CASE d # c
        BY <4>2, <3>2, <2>1, <1>2, <1>3 DEF FromSame, RequestInv, Target, MoreToProbe
      <4> QED
        BY <4>1, <4>2
    <3> QED
      BY <3>1, <3>2 DEF Comes
  <2> QED
    BY <2>2, <2>3
<1>7. QueuesInv'
  <2> SUFFICES ASSUME NEW u \in Nodes, NEW i \in DOMAIN queue'[u]
               PROVE  RequestInv(u, i)' /\ \A j \in DOMAIN queue'[u] : SentOnce(u, i, j)'
    BY DEF QueuesInv
  <2> QED
    BY <1>1, <1>4, <1>6, ComesLemma, ComesOnce
<1>8. ServersTypeOK'
  <2>1. call' \in [Clients -> {"idle", "sent", "ok", "failed"}]
    BY <1>1, OutcomeLemma DEF GivesUp, ServersTypeOK
  <2>2. \A u \in Nodes : queue[u] = <<>> => queue'[u] = <<>>
    BY <1>4, EmptySeq
  <2>3. /\ queue' \in [Nodes -> Seq(Requests)]
        /\ serving' \in [Nodes -> Requests \cup {Nothing}]
    BY <1>2, <1>4, <1>5
  <2> QED
    BY <2>1, <2>2, <2>3, <1>1, <1>2, <1>4, <1>5 DEF ServersTypeOK
<1>9. \A u \in Nodes : ServingInv(u)'
  <2> SUFFICES ASSUME NEW u \in Nodes PROVE ServingInv(u)'
    OBVIOUS
  <2> QED
    BY <1>1, <1>2, <1>5, ClientsLemma DEF ServingInv
<1>10. CallInv'
  <2>1. ASSUME NEW n \in Nodes PROVE call'[n] # "idle" => MoreToProbe(n)'
    BY <1>1, <1>2, <1>3, ClientsLemma DEF CallInv, MoreToProbe
  <2>2. ASSUME NEW k \in Clicks
        PROVE  /\ runs'[k] \in {0, 1}
               /\ runs'[k] = 1 => ClickAt[k] = Master /\ call'[k] # "idle"
               /\ call'[k] = "ok" => runs'[k] = 1
    BY <1>1, <1>2, <1>3, ClientsLemma, OutcomeLemma DEF CallInv
  <2> QED
    BY <2>1, <2>2 DEF CallInv
<1> QED
  BY <1>7, <1>8, <1>9, <1>10 DEF ServersInv

(***************************************************************************)
(* The loop takes a request: what is left in the backlog is as before, and *)
(* nothing of a node or a click that has been served is left.              *)
(***************************************************************************)
LEMMA AcceptsLemma ==
  ASSUME ServersInv, NEW n \in Nodes, NEW ops, Accepts(n, ops),
         NEW r, r = Head(queue[n])
  PROVE  /\ r \in Requests /\ r.op \in ops
         /\ queue' \in [Nodes -> Seq(Requests)]
         /\ \A u \in Nodes : Len(queue'[u]) <= Backlog /\ (queue[u] = <<>> => queue'[u] = <<>>)
         /\ r.from \in Nodes => r.op = "status"
         /\ r.from \in Clicks =>
              r.op = "deploy" /\ n = ClickAt[r.from] /\ runs[r.from] = 0 /\ call[r.from] # "idle"
         /\ \A u \in Nodes : \A i \in DOMAIN queue'[u] :
              \E old \in DOMAIN queue[u] :
                /\ queue'[u][i] = queue[u][old]
                /\ old = IF u = n THEN i + 1 ELSE i
                /\ r.from \in Nodes \cup Clicks => queue[u][old].from # r.from
<1>1. ServersTypeOK /\ QueuesInv
  BY DEF ServersInv
<1>2. /\ queue[n] # <<>> /\ r.op \in ops /\ queue' = [queue EXCEPT ![n] = Tail(@)]
  BY DEF Accepts
<1>3. /\ queue' \in [Nodes -> Seq(Requests)]
      /\ \A u \in Nodes \ {n} : queue'[u] = queue[u]
      /\ Len(queue'[n]) = Len(queue[n]) - 1
      /\ DOMAIN queue'[n] = 1..Len(queue[n]) - 1
      /\ \A i \in 1..Len(queue[n]) - 1 : queue'[n][i] = queue[n][i + 1]
      /\ r = queue[n][1] /\ 1 \in DOMAIN queue[n] /\ r \in Requests
  BY <1>1, <1>2, TakenLemma
<1>4. Len(queue[n]) \in Nat /\ DOMAIN queue[n] = 1..Len(queue[n]) /\ Len(queue[n]) <= Backlog
  BY <1>1, QueueLemma DEF ServersTypeOK
<1>5. \A u \in Nodes : Len(queue'[u]) <= Backlog /\ (queue[u] = <<>> => queue'[u] = <<>>)
  <2>1. Len(queue'[n]) <= Backlog
    BY <1>3, <1>4, LimitsAssumption
  <2> QED
    BY <2>1, <1>1, <1>2, <1>3 DEF ServersTypeOK
<1>6. RequestInv(n, 1)
  BY <1>1, <1>3 DEF QueuesInv
<1>7. ASSUME NEW u \in Nodes, NEW i \in DOMAIN queue'[u]
      PROVE  \E old \in DOMAIN queue[u] :
               /\ queue'[u][i] = queue[u][old]
               /\ old = IF u = n THEN i + 1 ELSE i
               /\ r.from \in Nodes \cup Clicks => queue[u][old].from # r.from
  <2>1. CASE u = n
    <3>1. /\ i + 1 \in DOMAIN queue[n] /\ i + 1 # 1
          /\ queue'[n][i] = queue[n][i + 1]
      BY <1>3, <1>4, <1>7, <2>1
    <3>2. SentOnce(n, 1, i + 1)
      BY <3>1, <1>1, <1>3 DEF QueuesInv
    <3>3. r.from \in Nodes \cup Clicks => queue[n][i + 1].from # r.from
      BY <3>1, <3>2, <1>3 DEF SentOnce
    <3> QED
      BY <3>1, <3>3, <2>1
  <2>2. CASE u # n
    <3>1. i \in DOMAIN queue[u] /\ queue'[u][i] = queue[u][i]
      BY <2>2, <1>3, <1>7
    <3>2. RequestInv(u, i)
      BY <3>1, <1>1 DEF QueuesInv
    <3>3. r.from \in Nodes \cup Clicks => queue[u][i].from # r.from
      BY <3>2, <1>3, <1>6, <2>2, ClientsLemma DEF RequestInv
    <3> QED
      BY <3>1, <3>3, <2>2
  <2> QED
    BY <2>1, <2>2
<1>8. /\ r.from \in Nodes => r.op = "status"
      /\ r.from \in Clicks =>
           r.op = "deploy" /\ n = ClickAt[r.from] /\ runs[r.from] = 0 /\ call[r.from] # "idle"
  BY <1>3, <1>6 DEF RequestInv
<1> QED
  BY <1>2, <1>3, <1>5, <1>7, <1>8

LEMMA AcceptsQueues ==
  ASSUME ServersInv, NEW n \in Nodes, NEW ops, Accepts(n, ops),
         NEW r, r = Head(queue[n]),
         UNCHANGED <<prober, batch>>,
         \A d \in Clients \ {r.from} : call'[d] = call[d],
         \A k \in Clicks \ {r.from} : runs'[k] = runs[k]
  PROVE  QueuesInv'
<1>1. QueuesInv
  BY DEF ServersInv
<1> DEFINE Old(u, i) == IF u = n THEN i + 1 ELSE i
<1>2. \A u \in Nodes : \A i \in DOMAIN queue'[u] :
        /\ Old(u, i) \in DOMAIN queue[u]
        /\ queue'[u][i] = queue[u][Old(u, i)]
        /\ r.from \in Nodes \cup Clicks => queue[u][Old(u, i)].from # r.from
  BY AcceptsLemma
<1>3. \A u \in Nodes : \A i \in DOMAIN queue'[u] : Comes(u, i, Old(u, i))
  <2> SUFFICES ASSUME NEW u \in Nodes, NEW i \in DOMAIN queue'[u]
               PROVE  Comes(u, i, Old(u, i))
    OBVIOUS
  <2> DEFINE old == Old(u, i)
  <2>1. /\ old \in DOMAIN queue[u] /\ queue'[u][i] = queue[u][old]
        /\ r.from \in Nodes \cup Clicks => queue[u][old].from # r.from
    BY <1>2
  <2>2. RequestInv(u, old)
    BY <1>1, <2>1 DEF QueuesInv
  <2> HIDE DEF old
  <2>3. ASSUME NEW d \in Clients, d = queue[u][old].from PROVE FromSame(d)
    <3>1. CASE d \in Nodes \cup Clicks
      <4>1. d # r.from
        BY <2>1, <2>3, <3>1
      <4> QED
        BY <4>1, <2>2, <2>3, ClientsLemma DEF FromSame, RequestInv, Target, MoreToProbe
    <3>2. CASE d \notin Nodes \cup Clicks
      BY <3>2 DEF FromSame
    <3> QED
      BY <3>1, <3>2
  <2> QED
    BY <2>1, <2>3 DEF Comes, old
<1>4. \A u \in Nodes : \A i, j \in DOMAIN queue'[u] : Old(u, i) = Old(u, j) => i = j
  <2> SUFFICES ASSUME NEW u \in Nodes, NEW i \in DOMAIN queue'[u], NEW j \in DOMAIN queue'[u],
                      Old(u, i) = Old(u, j)
               PROVE  i = j
    OBVIOUS
  <2>1. queue'[u] \in Seq(Requests)
    BY AcceptsLemma
  <2>2. i \in Int /\ j \in Int
    BY <2>1, LenProperties
  <2> QED
    BY <2>2
<1> HIDE DEF Old
<1> SUFFICES ASSUME NEW u \in Nodes, NEW i \in DOMAIN queue'[u]
             PROVE  RequestInv(u, i)' /\ \A j \in DOMAIN queue'[u] : SentOnce(u, i, j)'
  BY DEF QueuesInv
<1>5. RequestInv(u, i)'
  BY <1>1, <1>3, ComesLemma
<1>6. \A j \in DOMAIN queue'[u] : SentOnce(u, i, j)'
  BY <1>1, <1>3, <1>4, ComesOnce
<1> QED
  BY <1>5, <1>6

(* What a caller learns from an answer. *)
LEMMA AnswersLemma ==
  ASSUME ServersTypeOK, NEW r, NEW ok \in BOOLEAN, Answers(r, ok)
  PROVE  /\ call' \in [Clients -> {"idle", "sent", "ok", "failed"}]
         /\ \A d \in Clients \ {r.from} : call'[d] = call[d]
         /\ \A d \in Clients \ Visitors :
              /\ call[d] # "idle" => call'[d] # "idle"
              /\ call[d] = "idle" => call'[d] = "idle"
              /\ call'[d] = "ok" => call[d] = "ok" \/ (d = r.from /\ ok)
<1>1. call' \in [Clients -> {"idle", "sent", "ok", "failed"}]
  BY OutcomeLemma DEF Answers, ServersTypeOK
<1>2. \A d \in Clients : call'[d] = IF d = r.from /\ call[d] = "sent"
                                   THEN Outcome(d, ok) ELSE call[d]
  BY DEF Answers
<1> QED
  BY <1>1, <1>2, OutcomeLemma

(* GET /health and GET /geo/status, and the refusal of a follower. *)
LEMMA ServeStep ==
  ASSUME ServersInv, NEW n \in Nodes, ServeStatus(n) \/ Refuse(n)
  PROVE  ServersInv'
<1>1. ServersTypeOK /\ QueuesInv /\ CallInv /\ \A u \in Nodes : ServingInv(u)
  BY DEF ServersInv
<1> DEFINE r == Head(queue[n])
<1>2. /\ UNCHANGED <<server, serving, runs, faults, prober, batch>>
      /\ \E ops : Accepts(n, ops)
  BY DEF ServeStatus, Refuse, health, threads
<1>3. PICK ok \in BOOLEAN : Answers(r, ok) /\ (ok => r.op = "status")
  BY DEF ServeStatus, Refuse, Accepts
<1>4. /\ call' \in [Clients -> {"idle", "sent", "ok", "failed"}]
      /\ \A d \in Clients \ {r.from} : call'[d] = call[d]
      /\ \A d \in Clients \ Visitors :
           /\ call[d] # "idle" => call'[d] # "idle"
           /\ call[d] = "idle" => call'[d] = "idle"
           /\ call'[d] = "ok" => call[d] = "ok" \/ (d = r.from /\ ok)
  BY <1>1, <1>3, AnswersLemma
<1>5. QueuesInv'
  BY <1>2, <1>4, AcceptsQueues
<1>6. /\ queue' \in [Nodes -> Seq(Requests)]
      /\ \A u \in Nodes : Len(queue'[u]) <= Backlog /\ (queue[u] = <<>> => queue'[u] = <<>>)
      /\ r.from \in Clicks => r.op = "deploy"
  BY <1>2, AcceptsLemma
<1> HIDE DEF r
<1>7. ServersTypeOK'
  BY <1>1, <1>2, <1>4, <1>6 DEF ServersTypeOK
<1>8. \A u \in Nodes : ServingInv(u)'
  BY <1>1, <1>2 DEF ServingInv
<1>9. CallInv'
  <2>1. ASSUME NEW m \in Nodes, call'[m] # "idle" PROVE MoreToProbe(m)'
    <3>1. call[m] # "idle"
      BY <2>1, <1>4, ClientsLemma
    <3> QED
      BY <3>1, <1>1, <1>2 DEF CallInv, MoreToProbe
  <2>2. ASSUME NEW k \in Clicks
        PROVE  /\ runs'[k] \in {0, 1}
               /\ runs'[k] = 1 => ClickAt[k] = Master /\ call'[k] # "idle"
               /\ call'[k] = "ok" => runs'[k] = 1
    <3>1. k \in Clients \ Visitors /\ runs'[k] = runs[k]
      BY <1>2, ClientsLemma
    <3>2. call'[k] = "ok" => call[k] = "ok"
      BY <3>1, <1>3, <1>4, <1>6
    <3> QED
      BY <3>1, <3>2, <1>1, <1>4 DEF CallInv
  <2> QED
    BY <2>1, <2>2 DEF CallInv
<1> QED
  BY <1>5, <1>7, <1>8, <1>9 DEF ServersInv

(* A report, a run or the wait for a request takes a connection in hand. *)
LEMMA BeginStep ==
  ASSUME ServersInv, NEW n \in Nodes,
         AwaitsRequest(n) \/ BeginReport(n) \/ StartRun(n)
  PROVE  ServersInv'
<1>1. ServersTypeOK /\ QueuesInv /\ CallInv /\ \A u \in Nodes : ServingInv(u)
  BY DEF ServersInv
<1> DEFINE r == Head(queue[n])
<1>2. /\ UNCHANGED <<call, faults, prober, batch>>
      /\ serving' = [serving EXCEPT ![n] = r]
      /\ server[n] = "loop" /\ server' \in [Nodes -> {"down", "loop", "reading", "report", "run", "stopping"}]
      /\ server'[n] \in {"reading", "report", "run"}
      /\ server'[n] = "reading" => AwaitsRequest(n)
      /\ server'[n] = "report" => BeginReport(n)
      /\ server'[n] = "run" => StartRun(n)
      /\ \A u \in Nodes \ {n} : server'[u] = server[u] /\ serving'[u] = serving[u]
      /\ \E ops : Accepts(n, ops)
  BY <1>1 DEF AwaitsRequest, BeginReport, StartRun, health, threads, Accepts, ServersTypeOK
<1>3. /\ r \in Requests
      /\ queue' \in [Nodes -> Seq(Requests)]
      /\ \A u \in Nodes : Len(queue'[u]) <= Backlog /\ (queue[u] = <<>> => queue'[u] = <<>>)
      /\ r.from \in Nodes => r.op = "status"
      /\ r.from \in Clicks =>
           r.op = "deploy" /\ n = ClickAt[r.from] /\ runs[r.from] = 0 /\ call[r.from] # "idle"
  BY <1>2, AcceptsLemma
<1>4. /\ server'[n] = "reading" => r.op = "silence" /\ runs' = runs
      /\ server'[n] = "report" => r.op \in DOMAIN Parts /\ runs' = runs
      /\ server'[n] = "run" => r.op = "deploy" /\ n = Master
                               /\ runs' = [k \in Clicks |-> runs[k] + (IF k = r.from THEN 1 ELSE 0)]
      /\ r.op \in {"deploy", "silence"} \cup DOMAIN Parts
  BY <1>2 DEF AwaitsRequest, BeginReport, StartRun, Accepts
<1>5. "deploy" \notin DOMAIN Parts /\ "status" \notin {"deploy", "silence"} \cup DOMAIN Parts
  BY DEF Parts, Promise!Parts
<1>6. \A k \in Clicks : runs[k] \in Nat /\ (k # r.from => runs'[k] = runs[k])
  BY <1>1, <1>2, <1>4 DEF ServersTypeOK
<1>7. r.from \in Clicks => runs'[r.from] = 1 /\ n = Master
  BY <1>2, <1>3, <1>4, <1>5
<1>8. QueuesInv'
  BY <1>2, <1>6, AcceptsQueues
<1>9. r # Nothing
  BY <1>3, RequestLemma
<1> HIDE DEF r
<1>10. ServersTypeOK'
  <2>1. runs' \in [Clicks -> Nat]
    <3>1. CASE server'[n] \in {"reading", "report"}
      BY <3>1, <1>1, <1>4 DEF ServersTypeOK
    <3>2. CASE server'[n] = "run"
      BY <3>2, <1>4, <1>6
    <3> QED
      BY <3>1, <3>2, <1>2
  <2>2. serving' \in [Nodes -> Requests \cup {Nothing}] /\ serving'[n] = r
    BY <1>1, <1>2, <1>3 DEF ServersTypeOK
  <2>3. ASSUME NEW u \in Nodes
        PROVE  /\ server'[u] \in {"reading", "report", "run"} => serving'[u] # Nothing
               /\ server'[u] \in {"down", "loop"} => serving'[u] = Nothing
               /\ server'[u] = "down" => queue'[u] = <<>>
    BY <2>2, <1>1, <1>2, <1>3, <1>9 DEF ServersTypeOK
  <2>4. call' \in [Clients -> {"idle", "sent", "ok", "failed"}] /\ faults' \in 0..MaxFaults
    BY <1>1, <1>2 DEF ServersTypeOK
  <2>5. /\ server' \in [Nodes -> {"down", "loop", "reading", "report", "run", "stopping"}]
        /\ queue' \in [Nodes -> Seq(Requests)]
        /\ \A u \in Nodes : Len(queue'[u]) <= Backlog
    BY <1>2, <1>3
  <2> QED
    BY <2>1, <2>2, <2>3, <2>4, <2>5 DEF ServersTypeOK
<1>11. ASSUME NEW u \in Nodes PROVE ServingInv(u)'
  <2>1. CASE u = n
    <3>1. serving'[n] = r /\ r.from \notin Nodes
      BY <1>1, <1>2, <1>3, <1>4, <1>5 DEF ServersTypeOK
    <3> QED
      BY <2>1, <3>1, <1>3, <1>4, <1>7 DEF ServingInv
  <2>2. CASE u # n
    <3>1. serving'[u] = serving[u] /\ server'[u] = server[u]
      BY <2>2, <1>2
    <3>2. serving[u].from \in Clicks => runs'[serving[u].from] = 1
      BY <1>1, <1>6, <1>7 DEF ServingInv
    <3> QED
      BY <3>1, <3>2, <1>1 DEF ServingInv
  <2> QED
    BY <2>1, <2>2
<1>12. CallInv'
  <2>1. ASSUME NEW k \in Clicks
        PROVE  /\ runs'[k] \in {0, 1}
               /\ runs'[k] = 1 => ClickAt[k] = Master /\ call'[k] # "idle"
               /\ call'[k] = "ok" => runs'[k] = 1
    BY <1>1, <1>2, <1>3, <1>6, <1>7 DEF CallInv
  <2>2. ASSUME NEW m \in Nodes, call'[m] # "idle" PROVE MoreToProbe(m)'
    BY <2>2, <1>1, <1>2 DEF CallInv, MoreToProbe
  <2> QED
    BY <2>1, <2>2 DEF CallInv
<1> QED
  BY <1>8, <1>10, <1>11, <1>12 DEF ServersInv

(* Steps that leave the backlogs, and what senders know, alone. *)
LEMMA SameQueues ==
  ASSUME QueuesInv, UNCHANGED queue,
         \A t \in Nodes : \A i \in DOMAIN queue[t] :
           \A c \in Clients : c = queue[t][i].from => FromSame(c)
  PROVE  QueuesInv'
<1>1. \A t \in Nodes : \A i \in DOMAIN queue[t] : Comes(t, i, i)
  BY DEF Comes
<1> SUFFICES ASSUME NEW u \in Nodes, NEW i \in DOMAIN queue'[u]
             PROVE  RequestInv(u, i)' /\ \A j \in DOMAIN queue'[u] : SentOnce(u, i, j)'
  BY DEF QueuesInv
<1>2. RequestInv(u, i)'
  BY <1>1, ComesLemma
<1>3. \A j \in DOMAIN queue'[u] : SentOnce(u, i, j)'
  BY <1>1, ComesOnce
<1> QED
  BY <1>2, <1>3

(* The wait for a request ends. *)
LEMMA EndsAwaitingStep ==
  ASSUME ServersInv, NEW n \in Nodes, EndsAwaiting(n)
  PROVE  ServersInv'
<1>1. ServersTypeOK /\ QueuesInv /\ CallInv /\ \A u \in Nodes : ServingInv(u)
  BY DEF ServersInv
<1>2. /\ UNCHANGED <<queue, call, runs, faults, prober, batch>>
      /\ server' = [server EXCEPT ![n] = "loop"]
      /\ serving' = [serving EXCEPT ![n] = Nothing]
  BY DEF EndsAwaiting, health, threads
<1>3. ServersTypeOK'
  BY <1>1, <1>2 DEF ServersTypeOK
<1>4. ASSUME NEW u \in Nodes PROVE ServingInv(u)'
  <2>1. CASE u = n
    <3>1. serving'[n] = Nothing /\ server'[n] = "loop"
      BY <1>1, <1>2 DEF ServersTypeOK
    <3> QED
      BY <2>1, <3>1, ClientsLemma DEF ServingInv, Nothing
  <2>2. CASE u # n
    BY <2>2, <1>1, <1>2 DEF ServingInv, ServersTypeOK
  <2> QED
    BY <2>1, <2>2
<1>5. QueuesInv'
  <2>1. \A c \in Clients : FromSame(c) \/ (c \in Clicks /\ call[c] = "idle")
    BY <1>2 DEF FromSame, Target, MoreToProbe
  <2> SUFFICES ASSUME NEW t \in Nodes, NEW i \in DOMAIN queue[t],
                      NEW c \in Clients, c = queue[t][i].from
               PROVE  FromSame(c)
    BY <1>1, <1>2, SameQueues
  <2>2. RequestInv(t, i)
    BY <1>1 DEF QueuesInv
  <2> QED
    BY <2>1, <2>2 DEF RequestInv
<1>6. CallInv'
  BY <1>1, <1>2 DEF CallInv, MoreToProbe
<1> QED
  BY <1>3, <1>4, <1>5, <1>6 DEF ServersInv

(* A report or a run ends. *)
LEMMA FinishStep ==
  ASSUME ServersInv, NEW n \in Nodes, SendsReport(n) \/ EndRun(n)
  PROVE  ServersInv'
<1>1. ServersTypeOK /\ QueuesInv /\ CallInv /\ \A u \in Nodes : ServingInv(u)
  BY DEF ServersInv
<1> DEFINE r == serving[n]
<1>2. /\ UNCHANGED <<queue, runs, faults, prober, batch>>
      /\ server' = [server EXCEPT ![n] = "loop"]
      /\ serving' = [serving EXCEPT ![n] = Nothing]
      /\ server[n] \in {"report", "run"}
  BY DEF SendsReport, EndRun, ReportSent, health, threads
<1>3. PICK ok \in BOOLEAN : Answers(r, ok)
  BY DEF SendsReport, EndRun
<1>4. /\ call' \in [Clients -> {"idle", "sent", "ok", "failed"}]
      /\ \A d \in Clients \ {r.from} : call'[d] = call[d]
      /\ \A d \in Clients \ Visitors :
           /\ call[d] # "idle" => call'[d] # "idle"
           /\ call[d] = "idle" => call'[d] = "idle"
           /\ call'[d] = "ok" => call[d] = "ok" \/ (d = r.from /\ ok)
  BY <1>1, <1>3, AnswersLemma
<1>5. r.from \notin Nodes /\ (r.from \in Clicks => runs[r.from] = 1)
  BY <1>1 DEF ServingInv
<1> HIDE DEF r
<1>6. ServersTypeOK'
  BY <1>1, <1>2, <1>4 DEF ServersTypeOK
<1>7. ASSUME NEW u \in Nodes PROVE ServingInv(u)'
  <2>1. CASE u = n
    <3>1. serving'[n] = Nothing /\ server'[n] = "loop"
      BY <1>1, <1>2 DEF ServersTypeOK
    <3> QED
      BY <2>1, <3>1, ClientsLemma DEF ServingInv, Nothing
  <2>2. CASE u # n
    BY <2>2, <1>1, <1>2 DEF ServingInv, ServersTypeOK
  <2> QED
    BY <2>1, <2>2
<1>8. QueuesInv'
  <2> SUFFICES ASSUME NEW t \in Nodes, NEW i \in DOMAIN queue[t],
                      NEW c \in Clients, c = queue[t][i].from
               PROVE  FromSame(c)
    BY <1>1, <1>2, SameQueues
  <2>1. RequestInv(t, i)
    BY <1>1 DEF QueuesInv
  <2>2. CASE c \in Nodes
    BY <2>1, <2>2, <1>2, <1>4, <1>5, ClientsLemma DEF FromSame, Target, MoreToProbe
  <2>3. CASE c \in Clicks
    BY <2>1, <2>3, <1>2, <1>4, ClientsLemma DEF FromSame, RequestInv
  <2> QED
    BY <2>2, <2>3 DEF FromSame
<1>9. CallInv'
  <2>1. ASSUME NEW m \in Nodes, call'[m] # "idle" PROVE MoreToProbe(m)'
    <3>1. call[m] # "idle"
      BY <2>1, <1>4, ClientsLemma
    <3> QED
      BY <3>1, <1>1, <1>2 DEF CallInv, MoreToProbe
  <2>2. ASSUME NEW k \in Clicks
        PROVE  /\ runs'[k] \in {0, 1}
               /\ runs'[k] = 1 => ClickAt[k] = Master /\ call'[k] # "idle"
               /\ call'[k] = "ok" => runs'[k] = 1
    BY <1>1, <1>2, <1>4, <1>5, ClientsLemma DEF CallInv
  <2> QED
    BY <2>1, <2>2 DEF CallInv
<1> QED
  BY <1>6, <1>7, <1>8, <1>9 DEF ServersInv

(***************************************************************************)
(* Steps of one process that no request notices: whoever has one in a      *)
(* backlog, or is not idle, keeps its place in its round.                  *)
(***************************************************************************)
LEMMA QuietStep ==
  ASSUME ServersInv, ServersTypeOK',
         UNCHANGED <<queue, serving, runs>>,
         \A t \in Nodes : server'[t] \in {"reading", "report", "run"} => server'[t] = server[t],
         \A k \in Clicks : call'[k] = call[k],
         \A m \in Nodes :
           \/ call'[m] = "idle" /\ call[m] # "sent"
           \/ call'[m] = call[m] /\ Target(m)' = Target(m) /\ (MoreToProbe(m) => MoreToProbe(m)')
  PROVE  ServersInv'
<1>1. ServersTypeOK /\ QueuesInv /\ CallInv /\ \A u \in Nodes : ServingInv(u)
  BY DEF ServersInv
<1>2. ASSUME NEW u \in Nodes PROVE ServingInv(u)'
  BY <1>1 DEF ServingInv
<1>3. QueuesInv'
  <2> SUFFICES ASSUME NEW t \in Nodes, NEW i \in DOMAIN queue[t],
                      NEW c \in Clients, c = queue[t][i].from
               PROVE  FromSame(c)
    BY <1>1, SameQueues
  <2>1. RequestInv(t, i)
    BY <1>1 DEF QueuesInv
  <2>2. CASE c \in Nodes
    <3>1. call[c] = "sent"
      BY <2>1, <2>2 DEF RequestInv
    <3> QED
      BY <3>1, <2>2, ClientsLemma DEF FromSame
  <2>3. CASE c \in Clicks
    BY <2>1, <2>3, ClientsLemma DEF FromSame, RequestInv
  <2> QED
    BY <2>2, <2>3 DEF FromSame
<1>4. CallInv'
  <2>1. ASSUME NEW m \in Nodes, call'[m] # "idle" PROVE MoreToProbe(m)'
    BY <2>1, <1>1 DEF CallInv
  <2>2. ASSUME NEW k \in Clicks
        PROVE  /\ runs'[k] \in {0, 1}
               /\ runs'[k] = 1 => ClickAt[k] = Master /\ call'[k] # "idle"
               /\ call'[k] = "ok" => runs'[k] = 1
    BY <1>1 DEF CallInv
  <2> QED
    BY <2>1, <2>2 DEF CallInv
<1> QED
  BY <1>2, <1>3, <1>4 DEF ServersInv

LEMMA ReportStep ==
  ASSUME ServersInv, NEW n \in Nodes, LocksReport(n) \/ ReadsReport(n) \/ EndsReport(n)
  PROVE  ServersInv'
<1>1. UNCHANGED servers /\ UNCHANGED <<prober, batch>>
  BY DEF LocksReport, ReadsReport, EndsReport, ReadBegins, ReadPart, ReadEnds
<1>2. ServersTypeOK'
  BY <1>1 DEF ServersInv, ServersTypeOK, servers
<1>3. \A m \in Nodes : call'[m] = call[m] /\ Target(m)' = Target(m) /\ (MoreToProbe(m) => MoreToProbe(m)')
  BY <1>1 DEF servers, Target, MoreToProbe
<1> QED
  BY <1>1, <1>2, <1>3, QuietStep DEF servers

LEMMA StopStep ==
  ASSUME ServersInv, NEW n \in Nodes, Stop(n)
  PROVE  ServersInv'
<1>1. /\ UNCHANGED <<queue, serving, call, runs, prober, batch>>
      /\ server' = [server EXCEPT ![n] = "stopping"]
      /\ faults < MaxFaults /\ faults' = faults + 1
  BY DEF Stop, Fails, health, threads
<1>2. faults' \in 0..MaxFaults
  BY <1>1, LimitsAssumption DEF ServersInv, ServersTypeOK
<1>3. ServersTypeOK'
  BY <1>1, <1>2 DEF ServersInv, ServersTypeOK
<1>4. \A m \in Nodes : call'[m] = call[m] /\ Target(m)' = Target(m) /\ (MoreToProbe(m) => MoreToProbe(m)')
  BY <1>1 DEF Target, MoreToProbe
<1>5. \A t \in Nodes : server'[t] \in {"reading", "report", "run"} => server'[t] = server[t]
  BY <1>1 DEF ServersInv, ServersTypeOK
<1> QED
  BY <1>1, <1>3, <1>4, <1>5, QuietStep

LEMMA ProberStep ==
  ASSUME ServersInv, HealthInv, NEW n \in Nodes,
         Start(n) \/ NoteProbe(n) \/ Wakes(n) \/ Updates(n)
  PROVE  ServersInv'
<1>1. /\ UNCHANGED <<queue, serving, runs, faults>>
      /\ \A m \in Nodes \ {n} : server'[m] = server[m] /\ call'[m] = call[m]
      /\ \A m \in Nodes \ {n} : prober'[m] = prober[m] /\ batch'[m] = batch[m]
      /\ \A k \in Clicks : call'[k] = call[k]
  <2>1. CASE Start(n)
    BY <2>1, ClientsLemma DEF Start, ProberStarts, ServersInv, ServersTypeOK, HealthInv, TypeInv, HealthTypeOK
  <2>2. CASE NoteProbe(n)
    BY <2>2, ClientsLemma DEF NoteProbe, Probed, ServersInv, ServersTypeOK, HealthInv, TypeInv, HealthTypeOK
  <2>3. CASE Wakes(n)
    BY <2>3 DEF Wakes, servers, ProberWakes, HealthInv, TypeInv, HealthTypeOK
  <2>4. CASE Updates(n)
    <3>1. HealthStep(n) /\ UNCHANGED servers
      BY <2>4 DEF Updates, HealthStep
    <3> QED
      BY <3>1, OthersLemma DEF servers, HealthInv, SameAt
  <2> QED
    BY <2>1, <2>2, <2>3, <2>4
<1>2. ServersTypeOK'
  <2>1. CASE Start(n)
    BY <2>1 DEF Start, ServersInv, ServersTypeOK
  <2>2. CASE NoteProbe(n)
    BY <2>2 DEF NoteProbe, ServersInv, ServersTypeOK
  <2>3. CASE Wakes(n) \/ Updates(n)
    BY <2>3 DEF Wakes, Updates, servers, ServersInv, ServersTypeOK
  <2> QED
    BY <2>1, <2>2, <2>3
<1>3. call'[n] = "idle" /\ call[n] # "sent"
  <2>1. CASE NoteProbe(n)
    BY <2>1, ClientsLemma DEF NoteProbe, ServersInv, ServersTypeOK
  <2>2. CASE Start(n) \/ Wakes(n) \/ Updates(n)
    <3>1. ~MoreToProbe(n)
      BY <2>2 DEF Start, ProberStarts, Wakes, ProberWakes, Updates, UpdateSteps, UpdateLocks,
                  RoundIsComplete, UpdateStamps, UpdateSets, UpdateAppends, MoreToProbe
    <3>2. call'[n] = call[n] /\ call[n] = "idle"
      BY <2>2, <3>1 DEF Start, Wakes, Updates, servers, ServersInv, CallInv
    <3> QED
      BY <3>2
  <2> QED
    BY <2>1, <2>2
<1>4. ASSUME NEW m \in Nodes, m # n
      PROVE  call'[m] = call[m] /\ Target(m)' = Target(m) /\ (MoreToProbe(m) => MoreToProbe(m)')
  BY <1>1, <1>4 DEF Target, MoreToProbe
<1>5. \A t \in Nodes : server'[t] \in {"reading", "report", "run"} => server'[t] = server[t]
  BY <1>1 DEF Start, NoteProbe, Wakes, Updates, servers, ServersInv, ServersTypeOK
<1> QED
  BY <1>1, <1>2, <1>3, <1>4, <1>5, QuietStep

(* The end of a process. *)
LEMMA EndsStep ==
  ASSUME ServersInv, HealthInv, NEW n \in Nodes, Ends(n), faults' \in 0..MaxFaults
  PROVE  ServersInv'
<1>1. ServersTypeOK /\ QueuesInv /\ CallInv /\ \A u \in Nodes : ServingInv(u)
  BY DEF ServersInv
<1>2. /\ server' = [server EXCEPT ![n] = "down"] /\ runs' = runs
      /\ queue'[n] = <<>> /\ serving'[n] = Nothing
      /\ \A u \in Nodes \ {n} : queue'[u] = UnclaimedAll(queue[u], n)
      /\ \A u \in Nodes \ {n} : serving'[u] = Unclaimed(serving[u], n)
      /\ queue' = [u \in Nodes |-> queue'[u]] /\ serving' = [u \in Nodes |-> serving'[u]]
  BY DEF Ends
<1>3. ASSUME NEW u \in Nodes, u # n
      PROVE  /\ queue'[u] \in Seq(Requests) /\ Len(queue'[u]) = Len(queue[u])
             /\ DOMAIN queue'[u] = DOMAIN queue[u]
             /\ \A i \in DOMAIN queue[u] : queue'[u][i] = Unclaimed(queue[u][i], n)
  BY <1>1, <1>2, <1>3, UnclaimedLemma, ClientsLemma
<1>4. ASSUME NEW u \in Nodes, u # n
      PROVE  /\ serving'[u] \in Requests \cup {Nothing}
             /\ (serving'[u] = Nothing <=> serving[u] = Nothing)
             /\ serving'[u].op = serving[u].op
             /\ serving'[u].from \in {serving[u].from, Nobody}
  BY <1>1, <1>2, <1>4, UnclaimedServing, ClientsLemma
<1>5. \A c \in Clients : call'[c] = IF c = n THEN "idle"
                                   ELSE IF WaitsAt(c, n) THEN Outcome(c, FALSE)
                                   ELSE call[c]
  BY DEF Ends
<1>6. \A m \in Nodes \ {n} : prober'[m] = prober[m] /\ batch'[m] = batch[m]
  BY DEF Ends, HealthLost, HealthInv, TypeInv, HealthTypeOK
<1>7. ASSUME NEW c \in Clients, WaitsAt(c, n), c \in Nodes PROVE n = Target(c)
  <2>1. serving[n].from # c
    BY <1>1, <1>7 DEF ServingInv
  <2>2. PICK i \in DOMAIN queue[n] : queue[n][i].from = c
    BY <1>7, <2>1 DEF WaitsAt
  <2>3. RequestInv(n, i)
    BY <1>1 DEF QueuesInv
  <2> QED
    BY <2>2, <2>3, <1>7 DEF RequestInv
<1>8. ASSUME NEW k \in Clicks
      PROVE  call'[k] \in {call[k], "failed"} /\ (call[k] = "idle" => call'[k] = "idle")
  BY <1>5, ClientsLemma, OutcomeLemma DEF WaitsAt
<1>9. ASSUME NEW u \in Nodes, u # n, NEW i \in DOMAIN queue[u] PROVE Comes(u, i, i)
  <2>1. RequestInv(u, i) /\ queue[u][i] \in Requests
    BY <1>1, QueueLemma DEF QueuesInv
  <2>2. CASE queue[u][i].from = n
    <3>1. n \notin Clicks
      BY ClientsLemma
    <3>2. queue'[u][i].from = Nobody
      BY <2>1, <2>2, <3>1, <1>3, <1>9 DEF Unclaimed, Requests
    <3> QED
      BY <3>2 DEF Comes
  <2>3. CASE queue[u][i].from # n
    <3>1. queue'[u][i] = queue[u][i]
      BY <2>3, <1>3, <1>9 DEF Unclaimed
    <3>2. ASSUME NEW d \in Clients, d = queue[u][i].from PROVE FromSame(d)
      <4>1. CASE d \in Nodes
        <5>1. d # n /\ u = Target(d) /\ d \notin Clicks
          BY <4>1, <3>2, <2>1, <2>3, ClientsLemma DEF RequestInv
        <5>2. ~WaitsAt(d, n)
          BY <5>1, <4>1, <1>7, <1>9
        <5>3. call'[d] = call[d]
          BY <5>1, <5>2, <1>5
        <5> QED
          BY <5>1, <5>3, <4>1, <1>6 DEF FromSame, Target, MoreToProbe
      <4>2. CASE d \in Clicks
        <5>1. call[d] # "idle" /\ d \notin Nodes
          BY <4>2, <3>2, <2>1, ClientsLemma DEF RequestInv
        <5>2. call'[d] # "idle"
          BY <4>2, <5>1, <1>8
        <5> QED
          BY <5>1, <5>2, <1>2 DEF FromSame
      <4> QED
        BY <4>1, <4>2 DEF FromSame
    <3> QED
      BY <3>1, <3>2 DEF Comes
  <2> QED
    BY <2>2, <2>3
<1>10. QueuesInv'
  <2> SUFFICES ASSUME NEW u \in Nodes, NEW i \in DOMAIN queue'[u]
               PROVE  RequestInv(u, i)' /\ \A j \in DOMAIN queue'[u] : SentOnce(u, i, j)'
    BY DEF QueuesInv
  <2>1. u # n
    BY <1>2
  <2>2. RequestInv(u, i)'
    BY <2>1, <1>1, <1>3, <1>9, ComesLemma
  <2>3. \A j \in DOMAIN queue'[u] : SentOnce(u, i, j)'
    BY <2>1, <1>1, <1>3, <1>9, ComesOnce
  <2> QED
    BY <2>2, <2>3
<1>11. ServersTypeOK'
  <2>1. call' \in [Clients -> {"idle", "sent", "ok", "failed"}]
    BY <1>1, OutcomeLemma DEF Ends, ServersTypeOK
  <2>2. <<>> \in Seq(Requests) /\ Len(<<>>) = 0 /\ Backlog \in Nat
    BY LimitsAssumption
  <2>3. queue' \in [Nodes -> Seq(Requests)] /\ serving' \in [Nodes -> Requests \cup {Nothing}]
    BY <2>2, <1>2, <1>3, <1>4
  <2>4. server' \in [Nodes -> {"down", "loop", "reading", "report", "run", "stopping"}]
        /\ server'[n] = "down" /\ \A u \in Nodes \ {n} : server'[u] = server[u]
    BY <1>1, <1>2 DEF ServersTypeOK
  <2>5. ASSUME NEW u \in Nodes
        PROVE  /\ Len(queue'[u]) <= Backlog
               /\ server'[u] \in {"reading", "report", "run"} => serving'[u] # Nothing
               /\ server'[u] \in {"down", "loop"} => serving'[u] = Nothing
               /\ server'[u] = "down" => queue'[u] = <<>>
    <3>1. CASE u = n
      BY <3>1, <2>2, <2>4, <1>2
    <3>2. CASE u # n
      <4>1. queue[u] = <<>> => queue'[u] = <<>>
        BY <3>2, <1>3, EmptySeq
      <4> QED
        BY <3>2, <4>1, <2>4, <1>1, <1>3, <1>4 DEF ServersTypeOK
    <3> QED
      BY <3>1, <3>2
  <2>6. runs' \in [Clicks -> Nat]
    BY <1>1, <1>2 DEF ServersTypeOK
  <2> QED
    BY <2>1, <2>3, <2>4, <2>5, <2>6 DEF ServersTypeOK
<1>12. ASSUME NEW u \in Nodes PROVE ServingInv(u)'
  <2>1. CASE u = n
    <3>1. serving'[n] = Nothing /\ server'[n] = "down"
      BY <1>1, <1>2 DEF ServersTypeOK
    <3> QED
      BY <2>1, <3>1, ClientsLemma DEF ServingInv, Nothing
  <2>2. CASE u # n
    <3>1. server'[u] = server[u]
      BY <2>2, <1>1, <1>2 DEF ServersTypeOK
    <3> QED
      BY <2>2, <3>1, <1>1, <1>2, <1>4, ClientsLemma DEF ServingInv
  <2> QED
    BY <2>1, <2>2
<1>13. CallInv'
  <2>1. ASSUME NEW m \in Nodes, call'[m] # "idle" PROVE MoreToProbe(m)'
    <3>1. m # n /\ call[m] # "idle"
      BY <2>1, <1>5, ClientsLemma DEF WaitsAt
    <3> QED
      BY <3>1, <1>1, <1>6 DEF CallInv, MoreToProbe
  <2>2. ASSUME NEW k \in Clicks
        PROVE  /\ runs'[k] \in {0, 1}
               /\ runs'[k] = 1 => ClickAt[k] = Master /\ call'[k] # "idle"
               /\ call'[k] = "ok" => runs'[k] = 1
    BY <1>1, <1>2, <1>8 DEF CallInv
  <2> QED
    BY <2>1, <2>2 DEF CallInv
<1> QED
  BY <1>10, <1>11, <1>12, <1>13 DEF ServersInv

LEMMA InitServersInv == Init => ServersInv
<1> SUFFICES ASSUME Init PROVE ServersInv
  OBVIOUS
<1> USE DEF Init
<1>1. ServersTypeOK
  <2>1. <<>> \in Seq(Requests) /\ Len(<<>>) = 0 /\ Backlog \in Nat /\ 0 \in 0..MaxFaults
    BY LimitsAssumption
  <2> QED
    BY <2>1 DEF ServersTypeOK
<1>2. \A u \in Nodes : ServingInv(u)
  BY ClientsLemma DEF ServingInv, Nothing
<1>3. QueuesInv
  BY DEF QueuesInv
<1>4. CallInv
  BY ClientsLemma DEF CallInv
<1> QED
  BY <1>1, <1>2, <1>3, <1>4 DEF ServersInv

LEMMA StepServersInv ==
  ASSUME ServersInv, HealthInv, [Next]_vars
  PROVE  ServersInv'
<1>1. CASE UNCHANGED vars
  <2>1. ServersTypeOK'
    BY <1>1 DEF vars, servers, ServersInv, ServersTypeOK
  <2>2. \A m \in Nodes : call'[m] = call[m] /\ Target(m)' = Target(m) /\ (MoreToProbe(m) => MoreToProbe(m)')
    BY <1>1 DEF vars, servers, health, threads, Target, MoreToProbe
  <2> QED
    BY <1>1, <2>1, <2>2, QuietStep DEF vars, servers
<1>2. CASE \/ \E n \in Nodes : ProbeSteps(n)
           \/ \E v \in Visitors : VisitorSteps(v)
           \/ \E k \in Clicks : ClickSteps(k)
  <2>1. PICK c \in Clients, t \in Nodes :
          \/ \E op \in Operations : MaySend(c, t, op) /\ Sends(c, t, op)
          \/ GivesUp(c, t) /\ (c \in Nodes => MoreToProbe(c))
    BY <1>2, CallersLemma DEF HealthInv, TypeInv
  <2> QED
    BY <2>1, SendsStep, GivesUpStep
<1>3. ASSUME NEW n \in Nodes, ServerSteps(n) PROVE ServersInv'
  BY <1>3, ServeStep, BeginStep, EndsAwaitingStep, ReportStep, FinishStep DEF ServerSteps
<1>4. ASSUME NEW n \in Nodes, Start(n) \/ NoteProbe(n) \/ Wakes(n) \/ Updates(n)
      PROVE  ServersInv'
  BY <1>4, ProberStep
<1>5. ASSUME NEW n \in Nodes, Stop(n) PROVE ServersInv'
  BY <1>5, StopStep
<1>6. ASSUME NEW n \in Nodes, Kill(n) \/ Crash(n) PROVE ServersInv'
  <2>1. Ends(n) /\ faults' \in 0..MaxFaults
    BY <1>6, LimitsAssumption DEF Kill, Crash, Fails, ServersInv, ServersTypeOK
  <2> QED
    BY <2>1, EndsStep
<1> QED
  BY <1>1, <1>2, <1>3, <1>4, <1>5, <1>6 DEF Next, ProberSteps

-----------------------------------------------------------------------------
(***************************************************************************)
(* TypeOK, for any instance.                                               *)
(***************************************************************************)
THEOREM TypeCorrect == Spec => []TypeOK
<1>1. Init => HealthInv /\ ServersInv
  BY InitHealthInv, InitServersInv DEF Init
<1>2. HealthInv /\ ServersInv /\ [Next]_vars => HealthInv' /\ ServersInv'
  BY HealthSteps, StepHealthInv, StepServersInv
<1>3. HealthInv /\ ServersInv => TypeOK
  BY DEF HealthInv, TypeInv, ServersInv, ServersTypeOK, TypeOK
<1> QED
  BY <1>1, <1>2, <1>3, PTL DEF Spec

LEMMA ServersImplementHealth == Spec => HealthSpec
<1>1. Init => HealthInit /\ ServersInv /\ HealthInv
  BY InitHealthInv, InitServersInv DEF Init
<1>2. HealthInv /\ ServersInv /\ [Next]_vars => HealthInv' /\ ServersInv'
  BY HealthSteps, StepHealthInv, StepServersInv
<1>3. ServersInv /\ [Next]_vars => [HealthNext]_health
  BY HealthSteps
<1> QED
  BY <1>1, <1>2, <1>3, PTL DEF Spec, HealthSpec

(***************************************************************************)
(* Two threads, a backlog, callers that give up, stops and crashes change  *)
(* nothing in what readers of the cluster health are promised: the servers *)
(* implement ClusterHealth, and with it HealthReports.                     *)
(***************************************************************************)
THEOREM ServersReportSnapshots == Spec => ReportsAreSnapshots
BY ServersImplementHealth, ReportsAreOfOneMoment

(***************************************************************************)
(* And the outages that /cluster tells are those that the probes of these  *)
(* nodes ran into.                                                         *)
(***************************************************************************)
THEOREM ServersTellExactOutages == Spec => []OutagesAreExact
BY ServersImplementHealth, OutagesAreOfRounds

(***************************************************************************)
(* A press of the deploy button starts at most one run, however many       *)
(* dashboards, clicks and visitors there are (OneRunPerClick).             *)
(***************************************************************************)
THEOREM ClicksRunOnce == Spec => []OneRunPerClick
<1>1. Init => HealthInv /\ ServersInv
  BY InitHealthInv, InitServersInv DEF Init
<1>2. HealthInv /\ ServersInv /\ [Next]_vars => HealthInv' /\ ServersInv'
  BY HealthSteps, StepHealthInv, StepServersInv
<1>3. ServersInv => OneRunPerClick
  <2> SUFFICES ASSUME ServersInv, NEW k \in Clicks
               PROVE  /\ runs[k] <= (IF ClickAt[k] = Master THEN 1 ELSE 0)
                      /\ call[k] = "ok" => runs[k] = 1
                      /\ runs[k] = 1 => \A i \in DOMAIN queue[Master] : queue[Master][i].from # k
    BY DEF OneRunPerClick
  <2>1. /\ runs[k] \in {0, 1} /\ (runs[k] = 1 => ClickAt[k] = Master)
        /\ call[k] = "ok" => runs[k] = 1
    BY DEF ServersInv, CallInv
  <2>2. ASSUME runs[k] = 1, NEW i \in DOMAIN queue[Master] PROVE queue[Master][i].from # k
    <3>1. RequestInv(Master, i)
      BY ClientsAssumption DEF ServersInv, QueuesInv
    <3> QED
      BY <2>2, <3>1 DEF RequestInv
  <2> QED
    BY <2>1, <2>2
<1> QED
  BY <1>1, <1>2, <1>3, PTL DEF Spec

(* One step of UnreachableIsExcused. *)
Excused ==
  \A n \in Nodes :
    call[n] # "failed" /\ call'[n] = "failed" =>
      LET t == Target(n) IN
      \/ "down" \in {server[t], server'[t]}
      \/ server[t] \in {"stopping", "run"}
      \/ server[t] = "reading" /\ serving[t].op = "silence"

LEMMA StepExcused ==
  ASSUME ServersInv, HealthInv, [Next]_vars
  PROVE  Excused
<1> SUFFICES ASSUME NEW n \in Nodes, call[n] # "failed", call'[n] = "failed"
             PROVE  \/ "down" \in {server[Target(n)], server'[Target(n)]}
                    \/ server[Target(n)] \in {"stopping", "run"}
                    \/ server[Target(n)] = "reading" /\ serving[Target(n)].op = "silence"
  BY DEF Excused
<1> USE DEF ServersInv
<1>1. ServersTypeOK /\ n \in Clients /\ n \notin Visitors /\ n \notin Clicks
  BY ClientsLemma
<1>2. ASSUME NEW c \in Clients, NEW t \in Nodes, NEW op, Sends(c, t, op) PROVE FALSE
  BY <1>1, <1>2 DEF Sends, ServersTypeOK
<1>3. ASSUME NEW c \in Clients, NEW t \in Nodes, GivesUp(c, t) PROVE c = n
  BY <1>1, <1>3 DEF GivesUp, ServersTypeOK
<1>4. ASSUME NEW m \in Nodes, ProbeSteps(m)
      PROVE  \/ "down" \in {server[Target(n)], server'[Target(n)]}
             \/ server[Target(n)] \in {"stopping", "run"}
             \/ server[Target(n)] = "reading" /\ serving[Target(n)].op = "silence"
  <2>1. Target(m) \in Nodes /\ m \in Clients
    BY <1>4, TargetLemma, ClientsLemma DEF ProbeSteps, HealthInv, TypeInv
  <2>2. GivesUp(m, Target(m)) /\ m = n
    BY <1>2, <1>3, <1>4, <2>1 DEF ProbeSteps
  <2>3. server[Target(n)] = "down" \/ Slow(Target(n))
    BY <2>2 DEF GivesUp
  <2>4. ~(lock[Target(n)] = "prober" /\ MoreToProbe(Target(n)))
    BY <2>1, <2>2 DEF HealthInv, LockIsHeld, Updating, MoreToProbe
  <2>5. m = n /\ ServingInv(Target(n))
    BY <2>1, <2>2
  <2> QED
    BY <2>3, <2>4, <2>5 DEF Slow, ServingInv
<1>5. ASSUME NEW m \in Nodes, NoteProbe(m) PROVE FALSE
  BY <1>1, <1>5 DEF NoteProbe, ServersTypeOK
<1>6. ASSUME NEW r, NEW ok \in BOOLEAN, Answers(r, ok) PROVE r.from = n /\ ~ok
  BY <1>1, <1>6, OutcomeLemma DEF Answers
<1>7. ASSUME NEW m \in Nodes, ServerSteps(m) PROVE FALSE
  <2>1. CASE ServeStatus(m)
    BY <2>1, <1>6 DEF ServeStatus
  <2>2. CASE Refuse(m)
    <3>1. Head(queue[m]).from = n /\ Head(queue[m]).op = "deploy"
      BY <2>2, <1>6 DEF Refuse, Accepts
    <3>2. Head(queue[m]).from \in Nodes => Head(queue[m]).op = "status"
      <4>1. \E ops : Accepts(m, ops)
        BY <2>2 DEF Refuse
      <4> QED
        BY <4>1, AcceptsLemma
    <3> QED
      BY <3>1, <3>2
  <2>3. CASE SendsReport(m)
    BY <2>3, <1>6 DEF SendsReport
  <2>4. CASE EndRun(m)
    <3>1. PICK ok \in BOOLEAN : Answers(serving[m], ok)
      BY <2>4 DEF EndRun
    <3>2. serving[m].from = n
      BY <3>1, <1>6
    <3> QED
      BY <3>2 DEF ServingInv
  <2>5. CASE AwaitsRequest(m) \/ EndsAwaiting(m) \/ BeginReport(m) \/ LocksReport(m) \/ ReadsReport(m) \/ EndsReport(m) \/ StartRun(m)
    BY <2>5 DEF AwaitsRequest, EndsAwaiting, BeginReport, LocksReport, ReadsReport, EndsReport, StartRun, servers
  <2> QED
    BY <1>7, <2>1, <2>2, <2>3, <2>4, <2>5 DEF ServerSteps
<1>8. ASSUME NEW m \in Nodes, Ends(m) PROVE m = Target(n) /\ server'[m] = "down"
  <2>1. WaitsAt(n, m)
    BY <1>1, <1>8 DEF Ends
  <2>2. serving[m].from # n
    BY DEF ServingInv
  <2>3. PICK i \in DOMAIN queue[m] : queue[m][i].from = n
    BY <2>1, <2>2 DEF WaitsAt
  <2>4. RequestInv(m, i)
    BY DEF QueuesInv
  <2> QED
    BY <1>8, <2>3, <2>4 DEF RequestInv, Ends, ServersTypeOK
<1>9. CASE UNCHANGED vars
  BY <1>9 DEF vars, servers
<1>10. ASSUME NEW v \in Visitors, VisitorSteps(v) PROVE FALSE
  <2>1. PICK page \in Visits[v] : Sends(v, page[1], page[2]) \/ GivesUp(v, page[1])
    BY <1>10 DEF VisitorSteps
  <2>2. page[1] \in Nodes /\ v \in Clients
    BY ClientsAssumption, ClientsLemma
  <2> QED
    BY <2>1, <2>2, <1>1, <1>2, <1>3
<1>11. ASSUME NEW k \in Clicks, ClickSteps(k) PROVE FALSE
  <2>1. ClickAt[k] \in Nodes /\ k \in Clients
    BY ClientsAssumption, ClientsLemma
  <2> QED
    BY <1>11, <2>1, <1>1, <1>2, <1>3 DEF ClickSteps, Click
<1>12. ASSUME NEW m \in Nodes, Start(m) \/ Wakes(m) \/ Updates(m) \/ Stop(m) PROVE FALSE
  BY <1>12 DEF Start, Wakes, Updates, Stop, servers
<1> QED
  BY <1>4, <1>5, <1>7, <1>8, <1>9, <1>10, <1>11, <1>12 DEF Next, ProberSteps, Kill, Crash

(***************************************************************************)
(* A node is found unreachable only when it is down or going down, when it *)
(* is the master at a deploy-now, or when it waits for a client that has   *)
(* connected and not sent its request: the lock is never held by a thread  *)
(* that probes, and no request of a node is ever refused                   *)
(* (UnreachableIsExcused).                                                 *)
(***************************************************************************)
THEOREM UnreachableHasAReason == Spec => UnreachableIsExcused
<1>1. Init => HealthInv /\ ServersInv
  BY InitHealthInv, InitServersInv DEF Init
<1>2. HealthInv /\ ServersInv /\ [Next]_vars => HealthInv' /\ ServersInv'
  BY HealthSteps, StepHealthInv, StepServersInv
<1>3. HealthInv /\ ServersInv /\ [Next]_vars => Excused
  BY StepExcused
<1> QED
  BY <1>1, <1>2, <1>3, PTL DEF Spec, UnreachableIsExcused, Excused
=============================================================================
