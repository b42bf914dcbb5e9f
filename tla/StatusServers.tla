--------------------------- MODULE StatusServers ---------------------------
(***************************************************************************)
(* The HTTP servers of the geo-managers and everyone who calls them: the   *)
(* probing threads of ClusterHealth, visitors (Prometheus, the polling     *)
(* followers, whoever opens a page of the dashboard) and the deploy        *)
(* buttons of the dashboards.                                              *)
(*                                                                         *)
(* A server handles one connection at a time in the main thread, from the  *)
(* reading of the request to the end of the answer; the others wait in the *)
(* backlog of its listening socket.  Its sockets have no timeout: who      *)
(* connects and sends nothing holds the thread as long as it likes.  A     *)
(* caller that gives up does not take its request back.                    *)
(***************************************************************************)
EXTENDS ClusterHealth

CONSTANTS
  Master,      \* the node with NODE_PRIO 1
  Clicks,      \* presses of a deploy button
  ClickAt,     \* the node on whose dashboard each is made
  Visitors,    \* other callers
  Visits,      \* what each of them asks for: pairs of node and operation
  Backlog,     \* request_queue_size: connections the kernel keeps waiting
  Failures,    \* which processes can be told to "stop", which can "crash"
  MaxFaults    \* BOUND: how many failures happen in a behaviour

Nobody  == "nobody"
Clients == Nodes \cup Clicks \cup Visitors

(* "silence" is a connection without a request, or with part of one. *)
Operations == {"status", "deploy", "silence"} \cup DOMAIN Parts

ASSUME ClientsAssumption ==
  /\ Nodes \cap (Clicks \cup Visitors) = {} /\ Clicks \cap Visitors = {}
  /\ Nobody \notin Clients
  /\ Master \in Nodes
  /\ ClickAt \in [Clicks -> Nodes]
  /\ Visits \in [Visitors -> SUBSET (Nodes \X Operations)]
ASSUME LimitsAssumption ==
  /\ Backlog \in Nat \ {0}
  /\ Failures \subseteq Nodes \X {"stop", "crash"}
  /\ MaxFaults \in Nat

VARIABLES
  server,   \* what the main thread of each process does
  queue,    \* connections in the backlog, each with what was sent on it
  serving,  \* the connection of a report, a run or a request still awaited
  call,     \* what each caller knows of its last request
  runs,     \* history: runs that each click has started
  faults    \* failures so far

servers == <<server, queue, serving, call, runs, faults>>
vars    == <<health, servers>>

Requests   == [from : Clients \cup {Nobody}, op : Operations]
Nothing    == [from |-> Nobody, op |-> "none"]

(***************************************************************************)
(* Type invariant: every variable keeps the values its declaration names,  *)
(* no backlog and no history exceeds its limit, and a server has a         *)
(* connection in hand exactly while it works on one or was stopped at it.  *)
(***************************************************************************)
TypeOK ==
  /\ HealthTypeOK
  /\ server \in [Nodes -> {"down", "loop", "reading", "report", "run", "stopping"}]
  /\ queue \in [Nodes -> Seq(Requests)]
  /\ serving \in [Nodes -> Requests \cup {Nothing}]
  /\ \A n \in Nodes :
       /\ Len(queue[n]) <= Backlog
       /\ server[n] \in {"reading", "report", "run"} => serving[n] # Nothing
       /\ server[n] \in {"down", "loop"} => serving[n] = Nothing
       /\ server[n] = "down" => queue[n] = <<>>
  /\ call \in [Clients -> {"idle", "sent", "ok", "failed"}]
  /\ runs \in [Clicks -> Nat]
  /\ faults \in 0..MaxFaults

Init ==
  /\ HealthInit
  /\ server = [n \in Nodes |-> "down"]
  /\ queue = [n \in Nodes |-> <<>>]
  /\ serving = [n \in Nodes |-> Nothing]
  /\ call = [c \in Clients |-> "idle"]
  /\ runs = [k \in Clicks |-> 0]
  /\ faults = 0

-----------------------------------------------------------------------------
(* Callers.  A connection is made by the kernel, whatever the server does, *)
(* as long as its backlog has room.  All but the silent ones send their    *)
(* request right after it, in one piece.                                   *)
Sends(c, t, op) ==
  /\ call[c] = "idle"
  /\ server[t] # "down"
  /\ Len(queue[t]) < Backlog
  /\ queue' = [queue EXCEPT ![t] = Append(@, [from |-> c, op |-> op])]
  /\ call' = [call EXCEPT ![c] = "sent"]
  /\ UNCHANGED <<server, serving, runs, faults, health>>

WaitsAt(c, t) ==
  /\ call[c] = "sent"
  /\ serving[t].from = c \/ \E i \in DOMAIN queue[t] : queue[t][i].from = c

(* The main thread of t is at something that may outlast every timeout: a  *)
(* run, a request that does not come, a signal handler that never returns, *)
(* a lock whose holder waits for other nodes.  What it does in its own     *)
(* memory is done in time, and answers fit into the buffers of a socket.   *)
Slow(t) ==
  \/ server[t] \in {"run", "reading", "stopping"}
  \/ server[t] = "report" /\ lock[t] = "prober" /\ MoreToProbe(t)

(* A visitor calls again and again; the others keep the answer. *)
Outcome(c, ok) ==
  IF c \in Visitors THEN "idle" ELSE IF ok THEN "ok" ELSE "failed"

(* The connection that nobody waits for stays where it is, with its        *)
(* request in it.  Clicks are not forgotten: their runs are counted.       *)
Unclaimed(r, c)  == IF r.from = c /\ c \notin Clicks THEN [r EXCEPT !.from = Nobody] ELSE r
UnclaimedAll(q, c) == [i \in DOMAIN q |-> Unclaimed(q[i], c)]

(* Mutant: after a timeout the dashboard sends the request again. *)
GivesUpAndRetries(c, t) ==
  /\ \/ call[c] = "idle" /\ server[t] = "down"
     \/ call[c] = "idle" /\ Slow(t) /\ Len(queue[t]) = Backlog
     \/ WaitsAt(c, t) /\ Slow(t)
  /\ call' = [call EXCEPT ![c] = "idle"]
  /\ queue' = [n \in Nodes |-> UnclaimedAll(queue[n], c)]
  /\ serving' = [n \in Nodes |-> Unclaimed(serving[n], c)]
  /\ UNCHANGED <<server, runs, faults, health>>

(* Connection refused, or no answer within the timeout.  For a silent      *)
(* visitor: it hangs up, if it ever does.                                  *)
GivesUp(c, t) ==
  /\ \/ call[c] = "idle" /\ server[t] = "down"
     \/ call[c] = "idle" /\ Slow(t) /\ Len(queue[t]) = Backlog
     \/ WaitsAt(c, t) /\ Slow(t)
  /\ call' = [call EXCEPT ![c] = Outcome(c, FALSE)]
  /\ queue' = [n \in Nodes |-> UnclaimedAll(queue[n], c)]
  /\ serving' = [n \in Nodes |-> Unclaimed(serving[n], c)]
  /\ UNCHANGED <<server, runs, faults, health>>

VisitorSteps(v) ==
  \E page \in Visits[v] :
    \/ Sends(v, page[1], page[2])
    \/ GivesUp(v, page[1])

(* A dashboard handles one request at a time as well: while it waits for   *)
(* the answer to one click, it does not see the next.                      *)
Click(k) ==
  /\ \A j \in Clicks : ClickAt[j] = ClickAt[k] => call[j] # "sent"
  /\ Sends(k, ClickAt[k], "deploy")

ClickSteps(k) == Click(k) \/ GivesUp(k, ClickAt[k])

(* The loop of run_cluster_health_loop, with its calls. *)
ProbeSteps(n) ==
  /\ MoreToProbe(n)
  /\ \/ Sends(n, Target(n), "status")
     \/ GivesUp(n, Target(n))

NoteProbe(n) ==
  /\ call[n] \in {"ok", "failed"}
  /\ Probed(n, call[n] = "ok")
  /\ call' = [call EXCEPT ![n] = "idle"]
  /\ UNCHANGED <<server, queue, serving, runs, faults>>

Wakes(n)   == ProberWakes(n) /\ UNCHANGED servers
Updates(n) == UpdateSteps(n) /\ UNCHANGED servers

-----------------------------------------------------------------------------
(* The main thread.  main() binds the socket, starts the threads and       *)
(* enters serve_forever; until then connections wait in the backlog.       *)
Start(n) ==
  /\ server[n] = "down"
  /\ ProberStarts(n)
  /\ server' = [server EXCEPT ![n] = "loop"]
  /\ UNCHANGED <<queue, serving, call, runs, faults>>

(* The request that the loop takes next. *)
Accepts(n, ops) ==
  /\ server[n] = "loop"
  /\ queue[n] # <<>> /\ Head(queue[n]).op \in ops
  /\ queue' = [queue EXCEPT ![n] = Tail(@)]

(* An answer that nobody waits for is a broken pipe, logged and forgotten. *)
Answers(r, ok) ==
  call' = [c \in Clients |->
             IF c = r.from /\ call[c] = "sent" THEN Outcome(c, ok) ELSE call[c]]

(* GET /health and GET /geo/status. *)
ServeStatus(n) ==
  /\ Accepts(n, {"status"})
  /\ Answers(Head(queue[n]), TRUE)
  /\ UNCHANGED <<server, serving, runs, faults, health>>

(* The thread waits for the bytes of a request, ... *)
AwaitsRequest(n) ==
  /\ Accepts(n, {"silence"})
  /\ server' = [server EXCEPT ![n] = "reading"]
  /\ serving' = [serving EXCEPT ![n] = Head(queue[n])]
  /\ UNCHANGED <<call, runs, faults, health>>

(* ... and reads the end of the stream when the client has hung up. *)
EndsAwaiting(n) ==
  /\ server[n] = "reading" /\ serving[n].from = Nobody
  /\ server' = [server EXCEPT ![n] = "loop"]
  /\ serving' = [serving EXCEPT ![n] = Nothing]
  /\ UNCHANGED <<queue, call, runs, faults, health>>

(* GET /cluster and GET /metrics. *)
BeginReport(n) ==
  /\ Accepts(n, DOMAIN Parts)
  /\ server' = [server EXCEPT ![n] = "report"]
  /\ serving' = [serving EXCEPT ![n] = Head(queue[n])]
  /\ UNCHANGED <<call, runs, faults, health>>

LocksReport(n) ==
  /\ server[n] = "report"
  /\ ReadBegins(n, serving[n].op)
  /\ UNCHANGED servers

ReadsReport(n) ==
  /\ server[n] = "report"
  /\ ReadPart(n)
  /\ UNCHANGED servers

EndsReport(n) ==
  /\ server[n] = "report"
  /\ ReadEnds(n)
  /\ UNCHANGED servers

SendsReport(n) ==
  /\ server[n] = "report"
  /\ ReportSent(n)
  /\ Answers(serving[n], TRUE)
  /\ server' = [server EXCEPT ![n] = "loop"]
  /\ serving' = [serving EXCEPT ![n] = Nothing]
  /\ UNCHANGED <<queue, runs, faults>>

(* POST /geo/deploy-now on a follower: 403. *)
Refuse(n) ==
  /\ n # Master
  /\ Accepts(n, {"deploy"})
  /\ Answers(Head(queue[n]), FALSE)
  /\ UNCHANGED <<server, serving, runs, faults, health>>

(* On the master: the whole activation, in this thread (GeoActivation). *)
StartRun(n) ==
  /\ n = Master
  /\ Accepts(n, {"deploy"})
  /\ server' = [server EXCEPT ![n] = "run"]
  /\ serving' = [serving EXCEPT ![n] = Head(queue[n])]
  /\ runs' = [k \in Clicks |->
                 runs[k] + (IF k = Head(queue[n]).from THEN 1 ELSE 0)]
  /\ UNCHANGED <<call, faults, health>>

EndRun(n) ==
  /\ server[n] = "run"
  /\ \E ok \in BOOLEAN : Answers(serving[n], ok)
  /\ server' = [server EXCEPT ![n] = "loop"]
  /\ serving' = [serving EXCEPT ![n] = Nothing]
  /\ UNCHANGED <<queue, runs, faults, health>>

-----------------------------------------------------------------------------
Fails(n, how) ==
  /\ <<n, how>> \in Failures
  /\ faults < MaxFaults /\ faults' = faults + 1

(***************************************************************************)
(* SIGTERM or SIGINT.  The handler runs in the main thread, on top of      *)
(* serve_forever or before it, and calls server.shutdown(), which waits    *)
(* for serve_forever to return.  It cannot: the thread that would leave    *)
(* the loop is the one that waits.  The threads beside it go on.           *)
(***************************************************************************)
Stop(n) ==
  /\ server[n] \notin {"down", "stopping"}
  /\ Fails(n, "stop")
  /\ server' = [server EXCEPT ![n] = "stopping"]
  /\ UNCHANGED <<queue, serving, call, runs, health>>

(* The end of a process: its connections are reset, its memory is gone.    *)
Ends(n) ==
  /\ server' = [server EXCEPT ![n] = "down"]
  /\ queue' = [t \in Nodes |-> IF t = n THEN <<>> ELSE UnclaimedAll(queue[t], n)]
  /\ serving' = [t \in Nodes |-> IF t = n THEN Nothing ELSE Unclaimed(serving[t], n)]
  /\ call' = [c \in Clients |-> IF c = n THEN "idle"
                                ELSE IF WaitsAt(c, n) THEN Outcome(c, FALSE)
                                ELSE call[c]]
  /\ HealthLost(n)
  /\ UNCHANGED runs

(* SIGKILL, 15 s after SIGTERM (stop_grace_period). *)
Kill(n) ==
  /\ server[n] = "stopping"
  /\ Ends(n)
  /\ UNCHANGED faults

Crash(n) ==
  /\ server[n] # "down"
  /\ Fails(n, "crash")
  /\ Ends(n)

-----------------------------------------------------------------------------
ServerSteps(n) ==
  \/ ServeStatus(n) \/ AwaitsRequest(n) \/ EndsAwaiting(n)
  \/ BeginReport(n) \/ LocksReport(n) \/ ReadsReport(n)
  \/ EndsReport(n) \/ SendsReport(n)
  \/ Refuse(n) \/ StartRun(n) \/ EndRun(n)

ProberSteps(n) == ProbeSteps(n) \/ NoteProbe(n) \/ Wakes(n) \/ Updates(n)

Next ==
  \/ \E n \in Nodes : Start(n) \/ ServerSteps(n) \/ ProberSteps(n)
                      \/ Stop(n) \/ Kill(n) \/ Crash(n)
  \/ \E v \in Visitors : VisitorSteps(v)
  \/ \E k \in Clicks : ClickSteps(k)

Spec == Init /\ [][Next]_vars

(***************************************************************************)
(* Threads go on, and who finds the lock taken, or a backlog full, now and *)
(* then gets through; a run ends (GeoActivation, RunsEnd); a probe has its *)
(* timeout.  This is all that the program itself does.  Nothing makes a    *)
(* visitor call, or a silent one hang up, and until then no step of the    *)
(* server that reads its connection is there to be taken.                  *)
(***************************************************************************)
ProgramSpec ==
  /\ Spec
  /\ \A n \in Nodes : SF_vars(ServerSteps(n)) /\ SF_vars(ProberSteps(n))

(* And docker kills what does not stop. *)
FairSpec == ProgramSpec /\ \A n \in Nodes : WF_vars(Kill(n))

-----------------------------------------------------------------------------
(***************************************************************************)
(* "reachable: false" in /cluster has a reason: a probe gets no answer     *)
(* only because its target is down or going down, because the master is    *)
(* busy with a deploy-now, or because the target still waits for what      *)
(* another client has to send.  No request that came whole, not even a     *)
(* node's own probe of itself while its /cluster is read, makes a node     *)
(* look down.                                                              *)
(***************************************************************************)
UnreachableIsExcused ==
  [][\A n \in Nodes :
       call[n] # "failed" /\ call'[n] = "failed" =>
         LET t == Target(n) IN
         \/ "down" \in {server[t], server'[t]}
         \/ server[t] \in {"stopping", "run"}
         \/ server[t] = "reading" /\ serving[t].op = "silence"]_vars

(***************************************************************************)
(* Whatever the dashboard, its timeout and the backlog do, a press of the  *)
(* deploy button starts at most one run, none if the node is not the       *)
(* master, and "OK" is said only of a run that was made.  (The converse    *)
(* does not hold: a run may follow a press that was reported as failed.)   *)
(***************************************************************************)
OneRunPerClick ==
  \A k \in Clicks :
    /\ runs[k] <= (IF ClickAt[k] = Master THEN 1 ELSE 0)
    /\ call[k] = "ok" => runs[k] = 1
    /\ runs[k] = 1 => \A i \in DOMAIN queue[Master] : queue[Master][i].from # k

(***************************************************************************)
(* Whoever waits for ever waits at a server that a client holds which      *)
(* connected, sends nothing and never hangs up: everywhere else a request  *)
(* is answered or fails, also behind a run, at a process that was stopped, *)
(* and for the reports that need the lock.                                 *)
(* (RoundsEnd says it of the probes, which do not wait for any server.)    *)
(***************************************************************************)
RequestsEnd ==
  \A c \in Clicks \cup Visitors :
    \/ []<>(call[c] # "sent")
    \/ <>[](\E n \in Nodes : WaitsAt(c, n) /\ server[n] = "reading")

(***************************************************************************)
(* The probing thread always gets to the end of its round: no reader, no   *)
(* unreachable node, no stopping process and no server that a silent       *)
(* client holds keeps it for ever.                                         *)
(***************************************************************************)
RoundsEnd == \A n \in Nodes : []<>(prober[n] \in {"off", "sleep"})

(***************************************************************************)
(* tests/test_main.py: "Graceful shutdown: SIGTERM/SIGINT handler calls    *)
(* server.shutdown()."  A process that is told to stop does so itself.     *)
(***************************************************************************)
StopsByItself == \A n \in Nodes : server[n] = "stopping" ~> server[n] = "down"
=============================================================================
