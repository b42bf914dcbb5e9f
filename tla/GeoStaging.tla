------------------------------ MODULE GeoStaging ------------------------------
(***************************************************************************)
(* Staged rollout of geo blocklists over the cluster: the master's loop,   *)
(* the followers' hourly poll of GET /geo/status and the soak timer of     *)
(* geo_manager/staging.py.  An activation is three steps here (decide,     *)
(* fetch, put in place and stamp); what happens to the files in between is *)
(* GeoActivation.                                                          *)
(*                                                                         *)
(* Time is in polling intervals.  Lists are numbered in the order the      *)
(* source releases them.                                                   *)
(***************************************************************************)
EXTENDS Integers

CONSTANTS
  Master, Followers,
  Delay,          \* stage delay of each follower
  Skew,           \* how far each node's clock is ahead of the slowest one
  FetchInterval,  \* pause of the master's loop
  PollInterval,   \* pause of a follower's loop
  MaxTime,        \* BOUND: the clock stops there
  MaxVersion,     \* BOUND: lists the source releases
  MaxTrouble      \* BOUND: failed runs, lost polls and restarts

Nodes == Followers \cup {Master}
None  == -1       \* Python's None where a time is expected
Times == Nat \cup {None}

ASSUME NodesAssumption == Master \notin Followers
ASSUME DelayAssumption ==
  /\ Delay \in [Followers -> Nat]
  /\ Skew \in [Nodes -> Nat]
ASSUME IntervalAssumption ==
  /\ FetchInterval \in Nat \ {0} /\ PollInterval \in Nat \ {0}
  /\ MaxTime \in Nat /\ MaxVersion \in Nat \ {0} /\ MaxTrouble \in Nat

VARIABLES
  now,          \* the clock of the slowest node
  source,       \* the list the source serves
  map,          \* the list each node has in place, 0 if none
  validatedAt,  \* _validated_at of each node
  pending,      \* _pending_master_validated_at of each follower
  due,          \* when the loop of each node wakes up
  pc,           \* where the loop of each node is
  job,          \* the list it has fetched
  releasedAt,   \* history: when the source released each list
  masterSince,  \* history: since when the master has (had) each list
  trouble       \* what went wrong so far

history == <<releasedAt, masterSince>>
vars == <<now, source, map, validatedAt, pending, due, pc, job, history, trouble>>

Versions == 1..MaxVersion

Pause(n) == IF n = Master THEN FetchInterval ELSE PollInterval

(* Type invariant.  No loop is overdue, and none sleeps longer than its    *)
(* interval from now: a deploy-now neither delays nor skips its next run.  *)
TypeOK ==
  /\ now \in 0..MaxTime
  /\ source \in Versions
  /\ map \in [Nodes -> 0..MaxVersion]
  /\ validatedAt \in [Nodes -> Times]
  /\ pending \in [Followers -> Times]
  /\ due \in [Nodes -> Nat]
  /\ \A n \in Nodes : now <= due[n] /\ due[n] <= now + Pause(n)
  /\ pc \in [Nodes -> {"sleep", "fetch", "stamp"}]
  /\ job \in [Nodes -> 0..MaxVersion]
  /\ releasedAt \in [Versions -> Times]
  /\ masterSince \in [Versions -> Times]
  /\ trouble \in 0..MaxTrouble

Init ==
  /\ now = 0
  /\ source = 1
  /\ map = [n \in Nodes |-> 0]
  /\ validatedAt = [n \in Nodes |-> None]
  /\ pending = [f \in Followers |-> None]
  /\ due = [n \in Nodes |-> 0]
  /\ pc = [n \in Nodes |-> "sleep"]
  /\ job = [n \in Nodes |-> 0]
  /\ releasedAt = [v \in Versions |-> IF v = 1 THEN 0 ELSE None]
  /\ masterSince = [v \in Versions |-> None]
  /\ trouble = 0

-----------------------------------------------------------------------------
Trouble == trouble < MaxTrouble /\ trouble' = trouble + 1

Clock(n) == now + Skew[n]

(* Mutant: every run, a deploy-now too, pushes the next wake-up back. *)
SleepLonger(n) ==
  /\ pc' = [pc EXCEPT ![n] = "sleep"]
  /\ due' = [due EXCEPT ![n] = @ + Pause(n)]

(* The end of an iteration; one that was asked for by POST                 *)
(* /geo/deploy-now leaves the loop's own sleep alone.                      *)
Sleep(n) ==
  /\ pc' = [pc EXCEPT ![n] = "sleep"]
  /\ due' = [due EXCEPT ![n] = IF @ = now THEN now + Pause(n) ELSE @]

(* Time passes when no loop is due: an iteration takes no time here. *)
Tick ==
  /\ \A n \in Nodes : due[n] > now /\ pc[n] = "sleep"
  /\ now < MaxTime
  /\ now' = now + 1
  /\ UNCHANGED <<source, map, validatedAt, pending, due, pc, job, history,
                 trouble>>

(* The source changes the list it serves. *)
Release ==
  /\ source < MaxVersion
  /\ source' = source + 1
  /\ releasedAt' = [releasedAt EXCEPT ![source + 1] = now]
  /\ UNCHANGED <<now, map, validatedAt, pending, due, pc, job, masterSince,
                 trouble>>

(* The master's loop wakes up and activates, whatever it has. *)
MasterWakes ==
  /\ pc[Master] = "sleep"
  /\ due[Master] = now
  /\ pc' = [pc EXCEPT ![Master] = "fetch"]
  /\ UNCHANGED <<now, source, map, validatedAt, pending, due, job, history,
                 trouble>>

DeployNow ==
  /\ pc[Master] = "sleep"
  /\ due[Master] > now
  /\ pc' = [pc EXCEPT ![Master] = "fetch"]
  /\ UNCHANGED <<now, source, map, validatedAt, pending, due, job, history,
                 trouble>>

(***************************************************************************)
(* should_follower_activate, as the answer and as what it leaves in the    *)
(* soak timer.  m is the master's validated_at.                            *)
(***************************************************************************)
UpdateMode(f, m) == m # None /\ validatedAt[f] # None /\ Delay[f] > 0

Behind(f, m) == validatedAt[f] < m

(* Mutant: every newer publication of the master restarts the timer. *)
RestartedAnchor(f, m) == m

Anchor(f, m) == IF pending[f] = None THEN m ELSE pending[f]

ShouldActivate(f, m) ==
  /\ m # None
  /\ UpdateMode(f, m) => Behind(f, m) /\ Clock(f) - Anchor(f, m) >= Delay[f]

NextPending(f, m) ==
  CASE m = None                           -> pending[f]
    [] UpdateMode(f, m) /\ Behind(f, m)   -> Anchor(f, m)
    [] OTHER                              -> None

(* One iteration of the follower's loop: ask the mesh nodes for the master *)
(* (none answers: return), then decide.                                    *)
Poll(f) ==
  /\ pc[f] = "sleep"
  /\ due[f] = now
  /\ LET m == validatedAt[Master]
     IN  /\ pending' = [pending EXCEPT ![f] = NextPending(f, m)]
         /\ IF ShouldActivate(f, m)
            THEN pc' = [pc EXCEPT ![f] = "fetch"] /\ UNCHANGED due
            ELSE Sleep(f)
  /\ UNCHANGED <<now, source, map, validatedAt, job, history, trouble>>

PollLost(f) ==
  /\ pc[f] = "sleep"
  /\ due[f] = now
  /\ Trouble
  /\ Sleep(f)
  /\ UNCHANGED <<now, source, map, validatedAt, pending, job, history>>

(* Master and followers alike download from the source themselves. *)
Fetch(n) ==
  /\ pc[n] = "fetch"
  /\ job' = [job EXCEPT ![n] = source]
  /\ pc' = [pc EXCEPT ![n] = "stamp"]
  /\ UNCHANGED <<now, source, map, validatedAt, pending, due, history, trouble>>

(* Mutant: the timer of the gap that was just closed keeps running. *)
PendingKept(n) == pending

PendingAfter(n) == [f \in Followers |-> IF f = n THEN None ELSE pending[f]]

(* The list is in place: set_validated_at and the end of the soak timer. *)
Adopt(n) ==
  /\ pc[n] = "stamp"
  /\ map' = [map EXCEPT ![n] = job[n]]
  /\ validatedAt' = [validatedAt EXCEPT ![n] = Clock(n)]
  /\ pending' = PendingAfter(n)
  /\ job' = [job EXCEPT ![n] = 0]
  /\ Sleep(n)
  /\ masterSince' = IF n = Master /\ masterSince[job[n]] = None
                    THEN [masterSince EXCEPT ![job[n]] = now]
                    ELSE masterSince
  /\ UNCHANGED <<now, source, releasedAt, trouble>>

(* All retries failed.  The soak timer of a follower keeps its anchor. *)
GiveUp(n) ==
  /\ pc[n] \in {"fetch", "stamp"}
  /\ Trouble
  /\ job' = [job EXCEPT ![n] = 0]
  /\ Sleep(n)
  /\ UNCHANGED <<now, source, map, validatedAt, pending, history>>

(* geo-manager starts again: both times are gone, the map file is not. *)
Restart(n) ==
  /\ Trouble
  /\ validatedAt' = [validatedAt EXCEPT ![n] = None]
  /\ pending' = PendingAfter(n)
  /\ due' = [due EXCEPT ![n] = now]
  /\ pc' = [pc EXCEPT ![n] = "sleep"]
  /\ job' = [job EXCEPT ![n] = 0]
  /\ UNCHANGED <<now, source, map, history>>

Next ==
  \/ Tick \/ Release \/ MasterWakes \/ DeployNow
  \/ \E f \in Followers : Poll(f) \/ PollLost(f)
  \/ \E n \in Nodes : Fetch(n) \/ Adopt(n) \/ GiveUp(n) \/ Restart(n)

Spec == Init /\ [][Next]_vars

(***************************************************************************)
(* A follower that stays up never changes its list twice within its stage  *)
(* delay, whatever the master publishes meanwhile and however often its    *)
(* own attempts fail: the soak timer belongs to one gap and ends with it.  *)
(***************************************************************************)
UpdatesAreSpaced ==
  [][ \A f \in Followers :
        /\ validatedAt[f] # None /\ validatedAt'[f] # None
        /\ validatedAt'[f] # validatedAt[f]
        => validatedAt'[f] >= validatedAt[f] + Delay[f] ]_vars

Larger(a, b) == IF a >= b THEN a ELSE b

(* How far a follower's clock is ahead of the master's, and how long it    *)
(* waits at most for its delay.  A clock that is ahead has the delay end   *)
(* early, but takes what the master publishes for older than it is.        *)
Ahead(f)   == Skew[f] - Skew[Master]
Lag(f)     == Larger(0, Ahead(f)) + Larger(0, Delay[f] - Ahead(f))
Setbacks   == trouble * Larger(FetchInterval, PollInterval)

(***************************************************************************)
(* staging.py: "Do not reset the timer when the master publishes daily     *)
(* updates (otherwise a 24h fetch interval with 48h delay never elapses)". *)
(* From the release of a list a follower does not have, it takes less than *)
(* one interval of the master, the delay and two polls (one to learn of    *)
(* the master's news, one to notice that the delay is over) until the      *)
(* follower has that list or a later one, plus one interval for each thing *)
(* that goes wrong.                                                        *)
(***************************************************************************)
ReleasesArrive ==
  \A f \in Followers :
    map[f] \in 1..(source - 1) =>
      now - releasedAt[map[f] + 1] <
        FetchInterval + Lag(f) + 2 * PollInterval + Setbacks

(***************************************************************************)
(* README.md: followers "uebernehmen eine neue Map erst, wenn sie beim     *)
(* Master seit 48h (Prio 2) bzw. 96h (Prio 3) fehlerfrei aktiv ist".  What *)
(* a running follower takes over has been on the master for its delay.     *)
(***************************************************************************)
AdoptedAfterSoak ==
  [][ \A f \in Followers :
        map'[f] # map[f] /\ map[f] # 0
        => /\ masterSince[map'[f]] # None
           /\ now - masterSince[map'[f]] >= Delay[f] ]_vars
=============================================================================
