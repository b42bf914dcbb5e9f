------------------------------ MODULE CertRollout ------------------------------
(***************************************************************************)
(* cert-manager: the masters build haproxy.pem from certbot's two files,   *)
(* the followers poll GET /cert/status, wait out their stage delay and     *)
(* fetch GET /cert/download, and every node puts a PEM in place in three   *)
(* steps (write the file, set the state, swap it in the running HAProxy).  *)
(*                                                                         *)
(* A PEM is a pair <<i, j>>: fullchain of renewal i, private key of        *)
(* renewal j.  Its SHA256 identifies it, so the pair is the version too.   *)
(* Each process has one thread that deploys, and a master answers requests *)
(* in that same thread.                                                    *)
(***************************************************************************)
EXTENDS Integers, FiniteSets

CONSTANTS
  Masters, Followers,
  Delay,          \* stage delay of each follower, in ticks
  FaultKinds,     \* what may go wrong
  MaxAge,         \* BOUND: ages are counted up to here, no delay is longer
  MaxRenewals,    \* BOUND: renewals certbot makes
  MaxFaults       \* BOUND: things that go wrong

Nodes == Masters \cup Followers
Kinds == {"lost",    \* a request or an answer gets lost
          "disk",    \* the PEM cannot be written
          "crash",   \* cert-manager stops and is started again
          "haproxy", \* HAProxy stops and is started again
          "swap",    \* HAProxy does not take over the PEM (timeout, error)
          "slow"}    \* HAProxy needs longer than the reload wait to start

ASSUME NodesAssumption == Masters \cap Followers = {} /\ IsFiniteSet(Masters)
ASSUME BoundsAssumption ==
  /\ MaxAge \in Nat /\ MaxRenewals \in Nat \ {0} /\ MaxFaults \in Nat
  /\ Delay \in [Followers -> 0..MaxAge]
  /\ FaultKinds \subseteq Kinds

VARIABLES
  chain, key,  \* certbot's files on each master, 0 while there is none
  pem,         \* the file at CERT_TARGET_PEM_PATH
  version,     \* _state.version
  age,         \* time since a master's _state.validated_since
  up,          \* HAProxy
  served,      \* the PEM that HAProxy has loaded
  pc, job,     \* where the deploying thread is, and with which PEM
  peer,        \* the master that a follower downloads from
  soak,        \* history: time since a master first announced each PEM
  kept,        \* history: nodes whose HAProxy was not given the last PEM
  faults

haproxy == <<up, served>>
certbot == <<chain, key>>
history == <<soak, kept>>
vars == <<certbot, pem, version, age, haproxy, pc, job, peer, history, faults>>

Renewals == 1..MaxRenewals
Pems == Renewals \X Renewals
None == <<0, 0>>
Never == -1
Labels == {"start", "idle", "key", "download", "write", "state", "apply"}
Matched(p) == p[1] = p[2]

(* Type invariant.  Nothing but a whole PEM is ever put in place, and      *)
(* HAProxy serves only a PEM whose key belongs to its certificate.         *)
TypeOK ==
  /\ chain \in [Masters -> 0..MaxRenewals]
  /\ key \in [Masters -> 0..MaxRenewals]
  /\ pem \in [Nodes -> Pems \cup {None}]
  /\ version \in [Nodes -> Pems \cup {None}]
  /\ age \in [Masters -> 0..MaxAge]
  /\ up \in [Nodes -> {"down", "loading", "up"}]
  /\ served \in [Nodes -> {p \in Pems : Matched(p)} \cup {None}]
  /\ pc \in [Nodes -> Labels]
  /\ job \in [Nodes -> (0..MaxRenewals) \X (0..MaxRenewals)]
  /\ \A n \in Nodes :
       /\ pc[n] = "key" => job[n][1] # 0
       /\ pc[n] \in {"download", "write", "state", "apply"} => job[n] \in Pems
  /\ peer \in [Followers -> Masters]
  /\ soak \in [Pems -> 0..MaxAge \cup {Never}]
  /\ kept \subseteq Nodes
  /\ faults \in 0..MaxFaults

Init ==
  /\ \E files \in [Masters -> {0, 1}] : chain = files /\ key = files
  /\ pem = [n \in Nodes |-> None]
  /\ version = [n \in Nodes |-> None]
  /\ age = [m \in Masters |-> 0]
  /\ up = [n \in Nodes |-> "down"]
  /\ served = [n \in Nodes |-> None]
  /\ pc = [n \in Nodes |-> "start"]
  /\ job = [n \in Nodes |-> None]
  /\ peer \in [Followers -> Masters]
  /\ soak = [p \in Pems |-> Never]
  /\ kept = {}
  /\ faults = 0

-----------------------------------------------------------------------------
Fault(kind) ==
  /\ kind \in FaultKinds
  /\ faults < MaxFaults
  /\ faults' = faults + 1

Goto(n, label) == pc' = [pc EXCEPT ![n] = label]

Older(t) == IF t \in 0..(MaxAge - 1) THEN t + 1 ELSE t

Tick ==
  /\ age' = [m \in Masters |-> Older(age[m])]
  /\ soak' = [p \in Pems |-> Older(soak[p])]
  /\ UNCHANGED <<certbot, pem, version, haproxy, pc, job, peer, kept, faults>>

(* certbot replaces its files one after the other. *)
RenewChain(m) ==
  /\ chain[m] <= key[m] /\ chain[m] < MaxRenewals
  /\ chain' = [chain EXCEPT ![m] = @ + 1]
  /\ UNCHANGED <<key, pem, version, age, haproxy, pc, job, peer, history, faults>>

RenewKey(m) ==
  /\ key[m] <= chain[m] /\ key[m] < MaxRenewals
  /\ key' = [key EXCEPT ![m] = @ + 1]
  /\ UNCHANGED <<chain, pem, version, age, haproxy, pc, job, peer, history, faults>>

-----------------------------------------------------------------------------
(* Masters.  Mutant: a missing file does not end the attempt. *)
AnyFile(n) == TRUE

Readable(n) == n # 0

(* build_combined_pem: fullchain, then privkey. *)
ReadChain(m) ==
  /\ pc[m] = "start"
  /\ job' = [job EXCEPT ![m] = <<chain[m], 0>>]
  /\ Goto(m, IF Readable(chain[m]) THEN "key" ELSE "idle")
  /\ UNCHANGED <<certbot, pem, version, age, haproxy, peer, history, faults>>

ReadKey(m) ==
  /\ pc[m] = "key"
  /\ job' = [job EXCEPT ![m] = <<job[m][1], key[m]>>]
  /\ Goto(m, IF Readable(key[m]) THEN "write" ELSE "idle")
  /\ UNCHANGED <<certbot, pem, version, age, haproxy, peer, history, faults>>

(* POST /cert/deploy-now runs run_leader_once again. *)
DeployNow(m) ==
  /\ pc[m] = "idle"
  /\ Goto(m, "start")
  /\ UNCHANGED <<certbot, pem, version, age, haproxy, job, peer, history, faults>>

-----------------------------------------------------------------------------
(* Followers. *)
(* get_master_status over the masters that are reached: exactly one must   *)
(* answer with a version.                                                  *)
Announcing(reached) == {m \in reached : pc[m] = "idle" /\ version[m] # None}

(* The code takes the difference of the follower's clock and the master's  *)
(* time stamp: clocks that agree are assumed here.  An offset would make   *)
(* the delay longer or shorter by itself.                                  *)
ShouldActivate(f, m) == age[m] >= Delay[f]

(* Mutant: a node without state, not one without a PEM, counts as new. *)
StateLostIsBootstrap(f) == version[f] = None

NeedBootstrap(f) == pem[f] = None

(* run_follower_once looks at the file, run_follower_loop at the version. *)
Wanted(f, m) ==
  IF pc[f] = "start"
  THEN NeedBootstrap(f) \/ ShouldActivate(f, m)
  ELSE version[f] # version[m] /\ ShouldActivate(f, m)

Ask(f, reached) ==
  /\ pc[f] \in {"start", "idle"}
  /\ \/ \E m \in Masters :
          /\ Announcing(reached) = {m}
          /\ Wanted(f, m)
          /\ job' = [job EXCEPT ![f] = version[m]]
          /\ peer' = [peer EXCEPT ![f] = m]
          /\ Goto(f, "download")
     \/ /\ \A m \in Masters : Announcing(reached) = {m} => ~Wanted(f, m)
        /\ Goto(f, "idle")
        /\ UNCHANGED <<job, peer>>
  /\ UNCHANGED <<certbot, pem, version, age, haproxy, history>>

Poll(f) == Ask(f, Masters) /\ UNCHANGED faults

PollLost(f) ==
  /\ Fault("lost")
  /\ \E reached \in SUBSET Masters : reached # Masters /\ Ask(f, reached)

(* The master sends its file if its version is the one asked for, and the  *)
(* follower takes it if its hash is.                                       *)
Download(f) ==
  /\ pc[f] = "download"
  /\ LET m == peer[f]
     IN  /\ pc[m] = "idle"
         /\ Goto(f, IF version[m] = job[f] /\ pem[m] = job[f] THEN "write" ELSE "idle")
  /\ UNCHANGED <<certbot, pem, version, age, haproxy, job, peer, history, faults>>

(* The master is busy deploying for longer than the request may take. *)
DownloadTimesOut(f) ==
  /\ pc[f] = "download"
  /\ pc[peer[f]] # "idle"
  /\ Goto(f, "idle")
  /\ UNCHANGED <<certbot, pem, version, age, haproxy, job, peer, history, faults>>

DownloadLost(f) ==
  /\ pc[f] = "download"
  /\ Fault("lost")
  /\ Goto(f, "idle")
  /\ UNCHANGED <<certbot, pem, version, age, haproxy, job, peer, history>>

-----------------------------------------------------------------------------
(* activate_pem, on masters and followers alike. *)
(* Mutant: a PEM that is on disk already counts as deployed. *)
SkipIfOnDisk(n) ==
  /\ pc[n] = "write"
  /\ pem' = [pem EXCEPT ![n] = job[n]]
  /\ Goto(n, IF pem[n] = job[n] THEN "idle" ELSE "state")
  /\ UNCHANGED <<certbot, version, age, haproxy, job, peer, history, faults>>

WriteTarget(n) ==
  /\ pc[n] = "write"
  /\ pem' = [pem EXCEPT ![n] = job[n]]
  /\ Goto(n, "state")
  /\ UNCHANGED <<certbot, version, age, haproxy, job, peer, history, faults>>

(* Mutant: a failed write is logged and the deployment goes on. *)
WriteErrorIgnored(n) ==
  /\ pc[n] = "write"
  /\ Fault("disk")
  /\ Goto(n, "state")
  /\ UNCHANGED <<certbot, pem, version, age, haproxy, job, peer, history>>

(* Logged by the loop and by the HTTP server; at the start the process     *)
(* ends instead, which is a Crash here.                                    *)
WriteFails(n) ==
  /\ pc[n] = "write"
  /\ Fault("disk")
  /\ Goto(n, "idle")
  /\ UNCHANGED <<certbot, pem, version, age, haproxy, job, peer, history>>

SetState(n) ==
  /\ pc[n] = "state"
  /\ version' = [version EXCEPT ![n] = job[n]]
  /\ age' = IF n \in Masters THEN [age EXCEPT ![n] = 0] ELSE age
  /\ soak' = IF n \in Masters /\ soak[job[n]] = Never
             THEN [soak EXCEPT ![job[n]] = 0] ELSE soak
  /\ Goto(n, "apply")
  /\ UNCHANGED <<certbot, pem, haproxy, job, peer, kept, faults>>

(* apply_ssl_cert.  A HAProxy that is down loads the file when it starts;  *)
(* one that is running keeps its certificate if the key does not fit.      *)
Apply(n) ==
  /\ pc[n] = "apply"
  /\ up[n] # "loading"
  /\ served' = IF up[n] = "up" /\ Matched(job[n])
               THEN [served EXCEPT ![n] = job[n]] ELSE served
  /\ kept' = kept \ {n}
  /\ Goto(n, "idle")
  /\ UNCHANGED <<certbot, pem, version, age, up, job, peer, soak, faults>>

(* socat fails or times out, or the socket is not up in time: an error in  *)
(* the log and the counters, or not even that.                             *)
ApplyFails(n) ==
  /\ pc[n] = "apply"
  /\ \/ up[n] = "up" /\ Fault("swap")
     \/ up[n] = "loading" /\ Fault("slow")
  /\ kept' = kept \cup {n}
  /\ Goto(n, "idle")
  /\ UNCHANGED <<certbot, pem, version, age, haproxy, job, peer, soak>>

(* Mutant: after a restart the state is filled from the PEM on disk. *)
StateFromDisk(n) ==
  /\ Fault("crash")
  /\ version' = [version EXCEPT ![n] = pem[n]]
  /\ job' = [job EXCEPT ![n] = None]
  /\ Goto(n, "start")
  /\ UNCHANGED <<certbot, pem, age, haproxy, peer, history>>

Crash(n) ==
  /\ Fault("crash")
  /\ version' = [version EXCEPT ![n] = None]
  /\ job' = [job EXCEPT ![n] = None]
  /\ Goto(n, "start")
  /\ UNCHANGED <<certbot, pem, age, haproxy, peer, history>>

-----------------------------------------------------------------------------
(* HAProxy reads the PEM first and opens its sockets afterwards. *)
HaproxyLoads(n) ==
  /\ up[n] = "down"
  /\ pem[n] # None /\ Matched(pem[n])
  /\ up' = [up EXCEPT ![n] = "loading"]
  /\ served' = [served EXCEPT ![n] = pem[n]]
  /\ kept' = kept \ {n}
  /\ UNCHANGED <<certbot, pem, version, age, pc, job, peer, soak, faults>>

HaproxyReady(n) ==
  /\ up[n] = "loading"
  /\ up' = [up EXCEPT ![n] = "up"]
  /\ UNCHANGED <<certbot, pem, version, age, served, pc, job, peer, history, faults>>

HaproxyStops(n) ==
  /\ up[n] # "down"
  /\ Fault("haproxy")
  /\ up' = [up EXCEPT ![n] = "down"]
  /\ served' = [served EXCEPT ![n] = None]
  /\ UNCHANGED <<certbot, pem, version, age, pc, job, peer, history>>

MasterSteps(m) == RenewChain(m) \/ RenewKey(m) \/ ReadChain(m) \/ ReadKey(m) \/ DeployNow(m)

FollowerSteps(f) ==
  \/ Poll(f) \/ PollLost(f)
  \/ Download(f) \/ DownloadTimesOut(f) \/ DownloadLost(f)

NodeSteps(n) ==
  \/ WriteTarget(n) \/ WriteFails(n) \/ SetState(n) \/ Apply(n) \/ ApplyFails(n)
  \/ Crash(n)
  \/ HaproxyLoads(n) \/ HaproxyReady(n) \/ HaproxyStops(n)

Next ==
  \/ Tick
  \/ \E m \in Masters : MasterSteps(m)
  \/ \E f \in Followers : FollowerSteps(f)
  \/ \E n \in Nodes : NodeSteps(n)

Spec == Init /\ [][Next]_vars

(* Running threads go on, containers are restarted (restart: always), time *)
(* passes.  Nobody has to renew, to deploy or to fail.                     *)
Fairness ==
  /\ WF_vars(Tick)
  /\ \A m \in Masters : WF_vars(ReadChain(m)) /\ WF_vars(ReadKey(m))
  /\ \A f \in Followers : WF_vars(Poll(f)) /\ WF_vars(Download(f) \/ DownloadTimesOut(f))
  /\ \A n \in Nodes :
       /\ WF_vars(WriteTarget(n)) /\ WF_vars(SetState(n)) /\ WF_vars(Apply(n))
       /\ WF_vars(HaproxyLoads(n)) /\ WF_vars(HaproxyReady(n))

FairSpec == Spec /\ Fairness

-----------------------------------------------------------------------------
(***************************************************************************)
(* Zertifikats-Rollout.md, 1: a follower that has a PEM replaces it only   *)
(* by one that has been announced for the stage delay of that follower,    *)
(* through restarts of either side, lost messages and renewals that arrive *)
(* between the status and the download.                                    *)
(***************************************************************************)
StagedUpdates ==
  [][ \A f \in Followers :
        pem[f] # None /\ pem'[f] # pem[f] => soak[pem'[f]] >= Delay[f] ]_vars

(***************************************************************************)
(* All of this implements StagedRollout: nothing reaches a follower, not   *)
(* even its first PEM, that a master has not put in place and announced    *)
(* before, updates wait out the delay, and no failure takes a PEM away     *)
(* from a node.                                                            *)
(***************************************************************************)
Staging == INSTANCE StagedRollout
             WITH Versions <- Pems, Nothing <- None, copy <- pem, waited <- soak

RolloutIsStaged == Staging!Spec

(***************************************************************************)
(* Once the only master has come to rest with a PEM, every follower ends   *)
(* up with that file, and HAProxy serves it on every node if its key fits: *)
(* what a crash or a restart of HAProxy interrupted is made up for.  Only  *)
(* a hot swap that failed is not.                                          *)
(***************************************************************************)
AtRest(m, p) == pc[m] = "idle" /\ version[m] = p

Deployed(n, p) ==
  /\ pem[n] = p
  /\ Matched(p) => up[n] = "up" /\ (served[n] = p \/ n \in kept)

Converges ==
  \A m \in Masters : \A p \in Pems :
    <>[]AtRest(m, p) => <>[](\A n \in Nodes : Deployed(n, p))

(***************************************************************************)
(* What a node announces between two deployments is what its HAProxy       *)
(* serves whenever one runs, if the key fits, through crashes, restarts of *)
(* HAProxy in the middle of a deployment and failed writes: the one        *)
(* exception is a hot swap that failed, until HAProxy starts again or the  *)
(* next swap succeeds.                                                     *)
(***************************************************************************)
ServesWhatItAnnounces ==
  \A n \in Nodes :
    /\ pc[n] \notin {"state", "apply"}
    /\ version[n] # None /\ Matched(version[n])
    /\ up[n] # "down" /\ n \notin kept
    => served[n] = version[n]

(***************************************************************************)
(* Zertifikats-Rollout.md, 3: "version - SHA256-Hash des aktuell aktiven   *)
(* PEM".  Sooner or later a running HAProxy serves the PEM that its node   *)
(* announces, if the key of that PEM fits.                                 *)
(***************************************************************************)
AnnouncedIsActive ==
  \A n \in Nodes :
    []<>(up[n] = "up" /\ Matched(version[n]) /\ version[n] # None
         => served[n] = version[n])
=============================================================================
