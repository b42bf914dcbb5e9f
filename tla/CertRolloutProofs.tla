-------------------------- MODULE CertRolloutProofs --------------------------
(***************************************************************************)
(* Theorems about CertRollout, for any masters, followers, delays, faults  *)
(* and bounds.                                                             *)
(***************************************************************************)
EXTENDS CertRollout, TLAPS

Jobs == (0..MaxRenewals) \X (0..MaxRenewals)
Ages == 0..MaxAge \cup {Never}

LEMMA PemsAreJobs == Pems \subseteq Jobs /\ None \in Jobs /\ None \notin Pems
BY BoundsAssumption DEF Pems, Renewals, Jobs, None

(* Time makes nothing younger. *)
LEMMA OlderLemma ==
  /\ \A t \in Ages : Older(t) \in Ages /\ Older(t) >= t
  /\ \A t \in 0..MaxAge : Older(t) \in 0..MaxAge
  /\ \A s \in Ages, t \in 0..MaxAge : s >= t => Older(s) >= Older(t)
<1> MaxAge \in Nat
  BY BoundsAssumption
<1> QED
  BY DEF Older, Ages, Never

LEMMA FaultLemma ==
  ASSUME TypeOK, NEW kind, Fault(kind)
  PROVE  faults' \in 0..MaxFaults
<1> MaxFaults \in Nat
  BY BoundsAssumption
<1> QED
  BY DEF TypeOK, Fault

LEMMA InitTypeOK == Init => TypeOK
<1> SUFFICES ASSUME Init PROVE TypeOK
  OBVIOUS
<1>1. MaxRenewals \in Nat \ {0} /\ MaxAge \in Nat /\ MaxFaults \in Nat
  BY BoundsAssumption
<1>2. chain \in [Masters -> 0..MaxRenewals] /\ key \in [Masters -> 0..MaxRenewals]
  BY <1>1 DEF Init
<1>3. soak \in [Pems -> 0..MaxAge \cup {Never}]
  BY DEF Init
<1>4. job \in [Nodes -> (0..MaxRenewals) \X (0..MaxRenewals)]
  BY PemsAreJobs DEF Init, Jobs
<1>5. age \in [Masters -> 0..MaxAge] /\ faults \in 0..MaxFaults /\ peer \in [Followers -> Masters]
  BY <1>1 DEF Init
<1>6. pc \in [Nodes -> Labels] /\ \A n \in Nodes : pc[n] = "start"
  BY DEF Init, Labels
<1> QED
  BY <1>2, <1>3, <1>4, <1>5, <1>6 DEF Init, TypeOK

-----------------------------------------------------------------------------
(* Each action keeps the type invariant. *)
LEMMA StepTypeOK == TypeOK /\ [Next]_vars => TypeOK'
<1> SUFFICES ASSUME TypeOK, [Next]_vars PROVE TypeOK'
  OBVIOUS
<1>0. MaxRenewals \in Nat \ {0} /\ MaxAge \in Nat /\ MaxFaults \in Nat
  BY BoundsAssumption
<1> USE DEF haproxy, certbot, history, Goto, Labels
<1>1. CASE Tick
  <2>1. age' \in [Masters -> 0..MaxAge] /\ soak' \in [Pems -> 0..MaxAge \cup {Never}]
    BY <1>1, OlderLemma DEF Tick, TypeOK, Ages
  <2> QED
    BY <1>1, <2>1 DEF Tick, TypeOK
<1>2. ASSUME NEW m \in Masters, RenewChain(m) PROVE TypeOK'
  <2>1. chain' \in [Masters -> 0..MaxRenewals]
    BY <1>0, <1>2 DEF RenewChain, TypeOK
  <2> QED
    BY <1>2, <2>1 DEF RenewChain, TypeOK
<1>3. ASSUME NEW m \in Masters, RenewKey(m) PROVE TypeOK'
  <2>1. key' \in [Masters -> 0..MaxRenewals]
    BY <1>0, <1>3 DEF RenewKey, TypeOK
  <2> QED
    BY <1>3, <2>1 DEF RenewKey, TypeOK
<1>4. ASSUME NEW m \in Masters, ReadChain(m) PROVE TypeOK'
  <2>1. <<chain[m], 0>> \in (0..MaxRenewals) \X (0..MaxRenewals) /\ <<chain[m], 0>>[1] = chain[m]
    BY <1>0, <1>4 DEF TypeOK
  <2> QED
    BY <1>4, <2>1 DEF ReadChain, Readable, TypeOK, Nodes
<1>5. ASSUME NEW m \in Masters, ReadKey(m) PROVE TypeOK'
  <2>1. job[m][1] \in 1..MaxRenewals /\ key[m] \in 0..MaxRenewals
    BY <1>0, <1>5 DEF ReadKey, TypeOK, Nodes
  <2>2. /\ <<job[m][1], key[m]>> \in (0..MaxRenewals) \X (0..MaxRenewals)
        /\ key[m] # 0 => <<job[m][1], key[m]>> \in Pems
    BY <1>0, <2>1 DEF Pems, Renewals
  <2> QED
    BY <1>5, <2>2 DEF ReadKey, Readable, TypeOK, Nodes
<1>6. ASSUME NEW m \in Masters, DeployNow(m) PROVE TypeOK'
  BY <1>6 DEF DeployNow, TypeOK, Nodes
<1>7. ASSUME NEW f \in Followers, NEW reached \in SUBSET Masters, Ask(f, reached),
             faults' \in 0..MaxFaults
      PROVE  TypeOK'
  <2>1. CASE UNCHANGED <<job, peer>> /\ Goto(f, "idle")
    BY <1>7, <2>1 DEF Ask, TypeOK, Nodes
  <2>2. ASSUME NEW m \in Masters, Announcing(reached) = {m},
               job' = [job EXCEPT ![f] = version[m]],
               peer' = [peer EXCEPT ![f] = m], Goto(f, "download")
        PROVE  TypeOK'
    <3>1. version[m] \in Pems /\ version[m] \in (0..MaxRenewals) \X (0..MaxRenewals)
      BY <2>2, PemsAreJobs DEF Announcing, TypeOK, Jobs, Nodes
    <3> QED
      BY <1>7, <2>2, <3>1 DEF Ask, TypeOK, Nodes
  <2> QED
    BY <1>7, <2>1, <2>2 DEF Ask
<1>8. ASSUME NEW f \in Followers, Poll(f) PROVE TypeOK'
  BY <1>7, <1>8 DEF Poll, TypeOK
<1>9. ASSUME NEW f \in Followers, PollLost(f) PROVE TypeOK'
  BY <1>7, <1>9, FaultLemma DEF PollLost
<1>10. ASSUME NEW f \in Followers, Download(f) PROVE TypeOK'
  BY <1>10 DEF Download, TypeOK, Nodes
<1>11. ASSUME NEW f \in Followers, DownloadTimesOut(f) \/ DownloadLost(f) PROVE TypeOK'
  BY <1>11, FaultLemma DEF DownloadTimesOut, DownloadLost, TypeOK, Nodes
<1>12. ASSUME NEW n \in Nodes, WriteTarget(n) PROVE TypeOK'
  BY <1>12 DEF WriteTarget, TypeOK
<1>13. ASSUME NEW n \in Nodes, WriteFails(n) PROVE TypeOK'
  BY <1>13, FaultLemma DEF WriteFails, TypeOK
<1>14. ASSUME NEW n \in Nodes, SetState(n) PROVE TypeOK'
  BY <1>0, <1>14 DEF SetState, TypeOK
<1>15. ASSUME NEW n \in Nodes, Apply(n) PROVE TypeOK'
  BY <1>15 DEF Apply, TypeOK
<1>16. ASSUME NEW n \in Nodes, ApplyFails(n) PROVE TypeOK'
  BY <1>16, FaultLemma DEF ApplyFails, TypeOK
<1>17. ASSUME NEW n \in Nodes, Crash(n) PROVE TypeOK'
  BY <1>17, FaultLemma, PemsAreJobs DEF Crash, TypeOK, Jobs
<1>18. ASSUME NEW n \in Nodes, HaproxyLoads(n) PROVE TypeOK'
  BY <1>18 DEF HaproxyLoads, TypeOK
<1>19. ASSUME NEW n \in Nodes, HaproxyReady(n) PROVE TypeOK'
  BY <1>19 DEF HaproxyReady, TypeOK
<1>20. ASSUME NEW n \in Nodes, HaproxyStops(n) PROVE TypeOK'
  BY <1>20, FaultLemma DEF HaproxyStops, TypeOK
<1>21. CASE UNCHANGED vars
  BY <1>21 DEF vars, TypeOK
<1> QED
  BY <1>1, <1>2, <1>3, <1>4, <1>5, <1>6, <1>8, <1>9, <1>10, <1>11, <1>12, <1>13,
     <1>14, <1>15, <1>16, <1>17, <1>18, <1>19, <1>20, <1>21
     DEF Next, MasterSteps, FollowerSteps, NodeSteps

(***************************************************************************)
(* Every variable keeps its type: in particular a PEM is never put in      *)
(* place, announced or downloaded with one of its two parts missing.       *)
(***************************************************************************)
THEOREM TypeCorrect == Spec => []TypeOK
BY InitTypeOK, StepTypeOK, PTL DEF Spec

-----------------------------------------------------------------------------
(***************************************************************************)
(* Why the delay is kept: a PEM is no younger in its history than in the   *)
(* state of the master that announces it (a restart, a deploy-now of the   *)
(* same files make the state younger only), and what a follower with a PEM *)
(* has decided to fetch had already waited for long enough then.           *)
(***************************************************************************)
AgeInv == \A m \in Masters : version[m] # None => soak[version[m]] >= age[m]

DueInv ==
  \A f \in Followers :
    pem[f] # None /\ pc[f] \in {"download", "write"} => soak[job[f]] >= Delay[f]

LEMMA InitStaged == Init => AgeInv /\ DueInv
BY DEF Init, AgeInv, DueInv, Nodes

(* The history of a PEM only grows. *)
LEMMA SoakGrows ==
  ASSUME TypeOK, [Next]_vars
  PROVE  \A p \in Pems : soak'[p] >= soak[p]
<1>1. CASE Tick
  BY <1>1, OlderLemma DEF Tick, TypeOK, Ages
<1>2. ASSUME NEW n \in Nodes, SetState(n) PROVE \A p \in Pems : soak'[p] >= soak[p]
  BY <1>2 DEF SetState, TypeOK, Never
<1>3. CASE UNCHANGED soak
  BY <1>3, BoundsAssumption DEF TypeOK, Never
<1> QED
  BY <1>1, <1>2, <1>3
     DEF Next, MasterSteps, FollowerSteps, NodeSteps, vars, history,
         RenewChain, RenewKey, ReadChain, ReadKey, DeployNow, Poll, PollLost, Ask,
         Download, DownloadTimesOut, DownloadLost, WriteTarget, WriteFails, Apply,
         ApplyFails, Crash, HaproxyLoads, HaproxyReady, HaproxyStops

LEMMA StepAge == TypeOK /\ AgeInv /\ [Next]_vars => AgeInv'
<1> SUFFICES ASSUME TypeOK, AgeInv, [Next]_vars, NEW m \in Masters, version'[m] # None
             PROVE  soak'[version'[m]] >= age'[m]
  BY DEF AgeInv
<1>0. m \in Nodes /\ version[m] \in Pems \cup {None} /\ age[m] \in 0..MaxAge
  BY DEF TypeOK, Nodes
<1>1. CASE Tick
  <2>1. version[m] \in Pems /\ soak[version[m]] \in Ages /\ soak[version[m]] >= age[m]
    BY <1>0, <1>1 DEF Tick, AgeInv, TypeOK, Ages
  <2> QED
    BY <1>0, <1>1, <2>1, OlderLemma DEF Tick
<1>2. ASSUME NEW n \in Nodes, SetState(n) PROVE soak'[version'[m]] >= age'[m]
  <2>1. CASE n = m
    <3>1. version'[m] = job[m] /\ age'[m] = 0 /\ job[m] \in Pems
      BY <1>2, <2>1, <1>0 DEF SetState, TypeOK
    <3>2. soak'[job[m]] >= 0
      BY <1>2, <2>1, <3>1, BoundsAssumption DEF SetState, TypeOK, Never
    <3> QED
      BY <3>1, <3>2
  <2>2. CASE n # m
    <3>1. version'[m] = version[m] /\ age'[m] \in {0, age[m]} /\ (n \notin Masters => age' = age)
      BY <1>2, <2>2, <1>0 DEF SetState, TypeOK
    <3>2. age'[m] = age[m]
      BY <1>2, <2>2, <1>0 DEF SetState, TypeOK
    <3>3. version[m] \in Pems /\ soak[version[m]] >= age[m]
      BY <3>1, <1>0 DEF AgeInv
    <3>4. soak'[version[m]] >= soak[version[m]] /\ soak[version[m]] \in Int /\ soak'[version[m]] \in Int
      BY <3>3, SoakGrows, StepTypeOK, BoundsAssumption DEF TypeOK, Never
    <3> QED
      BY <3>1, <3>2, <3>3, <3>4, <1>0
  <2> QED
    BY <2>1, <2>2
<1>3. ASSUME NEW n \in Nodes, Crash(n) PROVE soak'[version'[m]] >= age'[m]
  BY <1>0, <1>3 DEF Crash, AgeInv, TypeOK, history
<1>4. CASE UNCHANGED <<version, age, soak>>
  BY <1>4 DEF AgeInv
<1> QED
  BY <1>1, <1>2, <1>3, <1>4
     DEF Next, MasterSteps, FollowerSteps, NodeSteps, vars, history,
         RenewChain, RenewKey, ReadChain, ReadKey, DeployNow, Poll, PollLost, Ask,
         Download, DownloadTimesOut, DownloadLost, WriteTarget, WriteFails, Apply,
         ApplyFails, HaproxyLoads, HaproxyReady, HaproxyStops

LEMMA AskIsDue ==
  ASSUME TypeOK, AgeInv, NEW f \in Followers, NEW reached \in SUBSET Masters,
         Ask(f, reached), pem[f] # None, pc'[f] \in {"download", "write"}
  PROVE  soak[job'[f]] >= Delay[f]
<1>1. PICK m \in Masters :
        /\ Announcing(reached) = {m}
        /\ Wanted(f, m)
        /\ job' = [job EXCEPT ![f] = version[m]]
  BY DEF Ask, Goto, TypeOK, Nodes
<1>2. version[m] \in Pems /\ job'[f] = version[m]
  BY <1>1 DEF Announcing, TypeOK, Nodes
<1>3. age[m] >= Delay[f]
  BY <1>1 DEF Wanted, NeedBootstrap, ShouldActivate
<1>4. soak[version[m]] >= age[m]
  BY <1>2, PemsAreJobs DEF AgeInv
<1>5. age[m] \in Int /\ Delay[f] \in Int /\ soak[version[m]] \in Int
  BY <1>2, BoundsAssumption DEF TypeOK, Never
<1> QED
  BY <1>2, <1>3, <1>4, <1>5

LEMMA StepDue == TypeOK /\ AgeInv /\ DueInv /\ [Next]_vars => DueInv'
<1> SUFFICES ASSUME TypeOK, AgeInv, DueInv, [Next]_vars, NEW f \in Followers,
                    pem'[f] # None, pc'[f] \in {"download", "write"}
             PROVE  soak'[job'[f]] >= Delay[f]
  BY DEF DueInv
<1>0. f \in Nodes /\ f \notin Masters
  BY NodesAssumption DEF Nodes
<1>t. TypeOK'
  BY StepTypeOK
<1>k. job'[f] \in Pems /\ Delay[f] \in Int /\ soak[job'[f]] \in Int /\ soak'[job'[f]] \in Int
  BY <1>0, <1>t, BoundsAssumption DEF TypeOK, Never
<1>g. soak'[job'[f]] >= soak[job'[f]]
  BY <1>k, SoakGrows
<1>1. CASE pem[f] # None /\ pc[f] \in {"download", "write"} /\ job'[f] = job[f]
  BY <1>1, <1>k, <1>g DEF DueInv
<1>2. ASSUME NEW reached \in SUBSET Masters, Ask(f, reached) PROVE soak'[job'[f]] >= Delay[f]
  <2>1. pem[f] # None
    BY <1>2 DEF Ask
  <2>2. soak[job'[f]] >= Delay[f]
    BY <1>2, <2>1, AskIsDue
  <2> QED
    BY <2>2, <1>k, <1>g
<1>3. (\E reached \in SUBSET Masters : Ask(f, reached))
      \/ (pem[f] # None /\ pc[f] \in {"download", "write"} /\ job'[f] = job[f])
  <2>1. CASE Tick \/ UNCHANGED vars
    BY <2>1 DEF Tick, vars
  <2>2. ASSUME NEW m \in Masters, MasterSteps(m)
        PROVE  pem[f] # None /\ pc[f] \in {"download", "write"} /\ job'[f] = job[f]
    BY <1>0, <2>2 DEF MasterSteps, RenewChain, RenewKey, ReadChain, ReadKey, DeployNow,
                      Goto, TypeOK
  <2>3. ASSUME NEW g \in Followers, FollowerSteps(g), g # f
        PROVE  pem[f] # None /\ pc[f] \in {"download", "write"} /\ job'[f] = job[f]
    BY <1>0, <2>3 DEF FollowerSteps, Poll, PollLost, Ask, Download, DownloadTimesOut,
                      DownloadLost, Goto, TypeOK
  <2>4. ASSUME FollowerSteps(f)
        PROVE  (\E reached \in SUBSET Masters : Ask(f, reached))
               \/ (pem[f] # None /\ pc[f] \in {"download", "write"} /\ job'[f] = job[f])
    BY <1>0, <2>4 DEF FollowerSteps, Poll, PollLost, Download, DownloadTimesOut,
                      DownloadLost, Goto, TypeOK
  <2>5. ASSUME NEW n \in Nodes, NodeSteps(n)
        PROVE  pem[f] # None /\ pc[f] \in {"download", "write"} /\ job'[f] = job[f]
    BY <1>0, <2>5 DEF NodeSteps, WriteTarget, WriteFails, SetState, Apply, ApplyFails,
                      Crash, HaproxyLoads, HaproxyReady, HaproxyStops, Goto, TypeOK
  <2> QED
    BY <2>1, <2>2, <2>3, <2>4, <2>5 DEF Next
<1> QED
  BY <1>1, <1>2, <1>3

(* Only WriteTarget changes the file of a node. *)
LEMMA StepStaged ==
  ASSUME TypeOK, DueInv, [Next]_vars, NEW f \in Followers, pem[f] # None, pem'[f] # pem[f]
  PROVE  soak[pem'[f]] >= Delay[f]
<1>1. PICK n \in Nodes : WriteTarget(n)
  BY DEF Next, MasterSteps, FollowerSteps, NodeSteps, vars, Tick,
         RenewChain, RenewKey, ReadChain, ReadKey, DeployNow, Poll, PollLost, Ask,
         Download, DownloadTimesOut, DownloadLost, WriteFails, SetState, Apply,
         ApplyFails, Crash, HaproxyLoads, HaproxyReady, HaproxyStops
<1>2. n = f /\ pem'[f] = job[f] /\ pc[f] = "write"
  BY <1>1 DEF WriteTarget, TypeOK, Nodes
<1> QED
  BY <1>2 DEF DueInv

(***************************************************************************)
(* Staged rollout, for any number of masters and followers, any delays and *)
(* any faults: no follower replaces its PEM before its delay is over.      *)
(***************************************************************************)
THEOREM UpdatesAreStaged == Spec => StagedUpdates
<1>1. Spec => [](TypeOK /\ AgeInv /\ DueInv)
  BY InitTypeOK, InitStaged, StepTypeOK, StepAge, StepDue, PTL DEF Spec
<1>2. TypeOK /\ DueInv /\ [Next]_vars
      => [\A f \in Followers :
            pem[f] # None /\ pem'[f] # pem[f] => soak[pem'[f]] >= Delay[f]]_vars
  BY StepStaged
<1> QED
  BY <1>1, <1>2, PTL DEF Spec, StagedUpdates

-----------------------------------------------------------------------------
(***************************************************************************)
(* Why the rollout is staged: between the write and the end of activate_pem*)
(* the file is the one to be announced, and what a follower fetches has    *)
(* been announced, whether it has a PEM already or not.                    *)
(***************************************************************************)
InPlaceInv == \A n \in Nodes : pc[n] \in {"state", "apply"} => pem[n] = job[n]

SeenInv ==
  \A f \in Followers : pc[f] \in {"download", "write"} => soak[job[f]] # Never

LEMMA StepInPlace == TypeOK /\ InPlaceInv /\ [Next]_vars => InPlaceInv'
<1> SUFFICES ASSUME TypeOK, InPlaceInv, [Next]_vars, NEW n \in Nodes,
                    pc'[n] \in {"state", "apply"}
             PROVE  pem'[n] = job'[n]
  BY DEF InPlaceInv
<1>1. CASE Tick \/ UNCHANGED vars
  BY <1>1 DEF Tick, vars, InPlaceInv
<1>2. ASSUME NEW m \in Masters, MasterSteps(m) PROVE pem'[n] = job'[n]
  BY <1>2 DEF MasterSteps, RenewChain, RenewKey, ReadChain, ReadKey, DeployNow,
              Goto, TypeOK, InPlaceInv
<1>3. ASSUME NEW f \in Followers, FollowerSteps(f) PROVE pem'[n] = job'[n]
  BY <1>3 DEF FollowerSteps, Poll, PollLost, Ask, Download, DownloadTimesOut,
              DownloadLost, Goto, TypeOK, InPlaceInv
<1>4. ASSUME NEW o \in Nodes, NodeSteps(o) PROVE pem'[n] = job'[n]
  BY <1>4 DEF NodeSteps, WriteTarget, WriteFails, SetState, Apply, ApplyFails,
              Crash, HaproxyLoads, HaproxyReady, HaproxyStops, Goto, TypeOK, InPlaceInv
<1> QED
  BY <1>1, <1>2, <1>3, <1>4 DEF Next

LEMMA AskSeen ==
  ASSUME TypeOK, AgeInv, NEW f \in Followers, NEW reached \in SUBSET Masters,
         Ask(f, reached), pc'[f] \in {"download", "write"}
  PROVE  soak'[job'[f]] # Never
<1>1. PICK m \in Masters :
        /\ Announcing(reached) = {m}
        /\ job' = [job EXCEPT ![f] = version[m]]
  BY DEF Ask, Goto, TypeOK, Nodes
<1>2. version[m] \in Pems /\ job'[f] = version[m]
  BY <1>1 DEF Announcing, TypeOK, Nodes
<1>3. soak[version[m]] >= age[m] /\ age[m] \in 0..MaxAge
  BY <1>2, PemsAreJobs DEF AgeInv, TypeOK
<1> QED
  BY <1>2, <1>3 DEF Ask, history, Never

LEMMA StepSeen == TypeOK /\ AgeInv /\ SeenInv /\ [Next]_vars => SeenInv'
<1> SUFFICES ASSUME TypeOK, AgeInv, SeenInv, [Next]_vars, NEW f \in Followers,
                    pc'[f] \in {"download", "write"}
             PROVE  soak'[job'[f]] # Never
  BY DEF SeenInv
<1>0. f \in Nodes /\ f \notin Masters
  BY NodesAssumption DEF Nodes
<1>t. TypeOK'
  BY StepTypeOK
<1>1. CASE pc[f] \in {"download", "write"} /\ job'[f] = job[f]
  <2>1. soak[job[f]] # Never /\ job[f] \in Pems
    BY <1>0, <1>1 DEF SeenInv, TypeOK
  <2>2. soak'[job[f]] >= soak[job[f]] /\ soak[job[f]] \in 0..MaxAge /\ soak'[job[f]] \in Int
    BY <2>1, <1>t, SoakGrows, BoundsAssumption DEF TypeOK, Never
  <2> QED
    BY <1>1, <2>2 DEF Never
<1>2. ASSUME NEW reached \in SUBSET Masters, Ask(f, reached) PROVE soak'[job'[f]] # Never
  BY <1>2, AskSeen
<1>3. (\E reached \in SUBSET Masters : Ask(f, reached))
      \/ (pc[f] \in {"download", "write"} /\ job'[f] = job[f])
  <2>1. CASE Tick \/ UNCHANGED vars
    BY <2>1 DEF Tick, vars
  <2>2. ASSUME NEW m \in Masters, MasterSteps(m)
        PROVE  pc[f] \in {"download", "write"} /\ job'[f] = job[f]
    BY <1>0, <2>2 DEF MasterSteps, RenewChain, RenewKey, ReadChain, ReadKey, DeployNow,
                      Goto, TypeOK
  <2>3. ASSUME NEW g \in Followers, FollowerSteps(g), g # f
        PROVE  pc[f] \in {"download", "write"} /\ job'[f] = job[f]
    BY <1>0, <2>3 DEF FollowerSteps, Poll, PollLost, Ask, Download, DownloadTimesOut,
                      DownloadLost, Goto, TypeOK
  <2>4. ASSUME FollowerSteps(f)
        PROVE  (\E reached \in SUBSET Masters : Ask(f, reached))
               \/ (pc[f] \in {"download", "write"} /\ job'[f] = job[f])
    BY <1>0, <2>4 DEF FollowerSteps, Poll, PollLost, Download, DownloadTimesOut,
                      DownloadLost, Goto, TypeOK
  <2>5. ASSUME NEW n \in Nodes, NodeSteps(n)
        PROVE  pc[f] \in {"download", "write"} /\ job'[f] = job[f]
    BY <1>0, <2>5 DEF NodeSteps, WriteTarget, WriteFails, SetState, Apply, ApplyFails,
                      Crash, HaproxyLoads, HaproxyReady, HaproxyStops, Goto, TypeOK
  <2> QED
    BY <2>1, <2>2, <2>3, <2>4, <2>5 DEF Next
<1> QED
  BY <1>1, <1>2, <1>3

(* The steps that StagedRollout sees. *)
LEMMA StagedSteps ==
  ASSUME TypeOK, InPlaceInv, SeenInv, DueInv, [Next]_vars
  PROVE  [Staging!Next]_<<pem, soak>>
<1>s. SUFFICES ASSUME <<pem, soak>>' # <<pem, soak>> PROVE Staging!Next
  OBVIOUS
<1>1. CASE Tick
  <2>1. soak' = [p \in Pems |-> Staging!Older(soak[p])] /\ UNCHANGED pem
    BY <1>1 DEF Tick, Older, Staging!Older
  <2> QED
    BY <1>s, <2>1 DEF Staging!Next, Staging!Time
<1>2. ASSUME NEW n \in Nodes, WriteTarget(n) PROVE Staging!Next
  <2>1. pem' = [pem EXCEPT ![n] = job[n]] /\ UNCHANGED soak /\ job[n] \in Pems /\ pc[n] = "write"
    BY <1>2 DEF WriteTarget, TypeOK, history
  <2>2. CASE n \in Masters
    BY <1>s, <2>1, <2>2 DEF Staging!Next, Staging!Deploy
  <2>3. CASE n \in Followers
    <3>1. soak[job[n]] # Staging!Never
      BY <2>1, <2>3 DEF SeenInv, Never, Staging!Never
    <3>2. pem[n] # None => soak[job[n]] >= Delay[n]
      BY <2>1, <2>3 DEF DueInv
    <3> QED
      BY <1>s, <2>1, <2>3, <3>1, <3>2 DEF Staging!Next, Staging!Adopt
  <2> QED
    BY <2>2, <2>3 DEF Nodes
<1>3. ASSUME NEW n \in Nodes, SetState(n) PROVE Staging!Next
  <2>1. n \in Masters /\ soak[job[n]] = Never /\ soak' = [soak EXCEPT ![job[n]] = 0] /\ UNCHANGED pem
    BY <1>3, <1>s DEF SetState
  <2>2. job[n] \in Pems /\ pem[n] = job[n]
    BY <1>3 DEF SetState, InPlaceInv, TypeOK
  <2>3. Staging!Announce(n, job[n])
    BY <2>1, <2>2 DEF Staging!Announce, Never, Staging!Never
  <2> QED
    BY <1>s, <2>1, <2>2, <2>3 DEF Staging!Next
<1>4. CASE UNCHANGED <<pem, soak>>
  BY <1>s, <1>4
<1> QED
  BY <1>1, <1>2, <1>3, <1>4
     DEF Next, MasterSteps, FollowerSteps, NodeSteps, vars, history,
         RenewChain, RenewKey, ReadChain, ReadKey, DeployNow, Poll, PollLost, Ask,
         Download, DownloadTimesOut, DownloadLost, WriteFails, Apply,
         ApplyFails, Crash, HaproxyLoads, HaproxyReady, HaproxyStops

(***************************************************************************)
(* cert-manager implements the staged rollout, for any number of masters   *)
(* (also when only one of two is reached), followers, delays and faults.   *)
(***************************************************************************)
THEOREM RolloutKeepsStages == Spec => RolloutIsStaged
<1>1. Init => Staging!Init /\ InPlaceInv /\ SeenInv
  BY DEF Init, Staging!Init, Nodes, Never, Staging!Never, InPlaceInv, SeenInv
<1>2. Spec => [](TypeOK /\ InPlaceInv /\ SeenInv /\ DueInv)
  BY <1>1, InitTypeOK, InitStaged, StepTypeOK, StepAge, StepDue, StepInPlace, StepSeen,
     PTL DEF Spec
<1>3. TypeOK /\ InPlaceInv /\ SeenInv /\ DueInv /\ [Next]_vars
      => [Staging!Next]_<<pem, soak>>
  BY StagedSteps
<1> QED
  BY <1>1, <1>2, <1>3, PTL DEF Spec, RolloutIsStaged, Staging!Spec

-----------------------------------------------------------------------------
(***************************************************************************)
(* Why the announced PEM is served: outside of a deployment it is the file *)
(* on disk, which any restart of HAProxy loads, and at the end of one it   *)
(* is the PEM that is swapped in.                                          *)
(***************************************************************************)
OnDiskInv ==
  \A n \in Nodes :
    /\ pc[n] \notin {"state", "apply"} /\ version[n] # None => pem[n] = version[n]
    /\ pc[n] = "apply" => version[n] = job[n]

LEMMA StepOnDisk == TypeOK /\ InPlaceInv /\ OnDiskInv /\ [Next]_vars => OnDiskInv'
<1> DEFINE OnDisk(n) ==
      /\ pc[n] \notin {"state", "apply"} /\ version[n] # None => pem[n] = version[n]
      /\ pc[n] = "apply" => version[n] = job[n]
<1> SUFFICES ASSUME TypeOK, InPlaceInv, OnDiskInv, [Next]_vars, NEW n \in Nodes
             PROVE  OnDisk(n)'
  BY DEF OnDiskInv
<1>0. OnDisk(n) /\ (pc[n] \in {"state", "apply"} => pem[n] = job[n])
  BY DEF OnDiskInv, InPlaceInv
<1>1. CASE Tick \/ UNCHANGED vars
  BY <1>0, <1>1 DEF Tick, vars
<1>2. ASSUME NEW m \in Masters, MasterSteps(m) PROVE OnDisk(n)'
  BY <1>0, <1>2 DEF MasterSteps, RenewChain, RenewKey, ReadChain, ReadKey, DeployNow,
                    Goto, TypeOK
<1>3. ASSUME NEW f \in Followers, FollowerSteps(f) PROVE OnDisk(n)'
  <2>1. UNCHANGED <<pem, version>> /\ pc'[f] \in {"idle", "download", "write"}
        /\ pc[f] \in {"start", "idle", "download"}
    BY <1>3 DEF FollowerSteps, Poll, PollLost, Ask, Download, DownloadTimesOut,
                DownloadLost, Goto, TypeOK, Nodes
  <2>2. n # f => pc'[n] = pc[n] /\ job'[n] = job[n]
    BY <1>3 DEF FollowerSteps, Poll, PollLost, Ask, Download, DownloadTimesOut,
                DownloadLost, Goto, TypeOK
  <2> QED
    BY <1>0, <2>1, <2>2
<1>4. ASSUME NEW o \in Nodes, NodeSteps(o), o # n PROVE OnDisk(n)'
  BY <1>0, <1>4 DEF NodeSteps, WriteTarget, WriteFails, SetState, Apply, ApplyFails,
                    Crash, HaproxyLoads, HaproxyReady, HaproxyStops, Goto, TypeOK
<1>5. CASE WriteTarget(n) \/ WriteFails(n) \/ Crash(n)
  BY <1>0, <1>5 DEF WriteTarget, WriteFails, Crash, Goto, TypeOK
<1>6. CASE SetState(n) \/ Apply(n) \/ ApplyFails(n)
  BY <1>0, <1>6 DEF SetState, Apply, ApplyFails, Goto, TypeOK
<1>7. CASE HaproxyLoads(n) \/ HaproxyReady(n) \/ HaproxyStops(n)
  BY <1>0, <1>7 DEF HaproxyLoads, HaproxyReady, HaproxyStops
<1> QED
  BY <1>1, <1>2, <1>3, <1>4, <1>5, <1>6, <1>7 DEF Next, NodeSteps

LEMMA StepServes ==
  TypeOK /\ InPlaceInv /\ OnDiskInv /\ ServesWhatItAnnounces /\ [Next]_vars
    => ServesWhatItAnnounces'
<1> SUFFICES ASSUME TypeOK, InPlaceInv, OnDiskInv, ServesWhatItAnnounces, [Next]_vars,
                    NEW n \in Nodes, pc'[n] \notin {"state", "apply"},
                    version'[n] # None, Matched(version'[n]), up'[n] # "down", n \notin kept'
             PROVE  served'[n] = version'[n]
  BY DEF ServesWhatItAnnounces
<1>0. CASE /\ pc[n] \notin {"state", "apply"}
           /\ version'[n] = version[n] /\ up[n] # "down" /\ n \notin kept
           /\ served'[n] = served[n]
  BY <1>0 DEF ServesWhatItAnnounces
<1>1. CASE Tick \/ UNCHANGED vars
  BY <1>0, <1>1 DEF Tick, vars, haproxy, history
<1>2. ASSUME NEW m \in Masters, MasterSteps(m)
      PROVE  pc[n] \notin {"state", "apply"} /\ UNCHANGED <<version, up, served, kept>>
  BY <1>2 DEF MasterSteps, RenewChain, RenewKey, ReadChain, ReadKey, DeployNow,
              Goto, TypeOK, haproxy, history
<1>3. ASSUME NEW f \in Followers, FollowerSteps(f)
      PROVE  pc[n] \notin {"state", "apply"} /\ UNCHANGED <<version, up, served, kept>>
  BY <1>3 DEF FollowerSteps, Poll, PollLost, Ask, Download, DownloadTimesOut,
              DownloadLost, Goto, TypeOK, haproxy, history
<1>4. ASSUME NEW o \in Nodes, NodeSteps(o), o # n PROVE served'[n] = version'[n]
  BY <1>0, <1>4 DEF NodeSteps, WriteTarget, WriteFails, SetState, Apply, ApplyFails,
              Crash, HaproxyLoads, HaproxyReady, HaproxyStops, Goto, TypeOK, haproxy, history
<1>5. CASE WriteTarget(n) \/ WriteFails(n) \/ SetState(n)
  BY <1>0, <1>5 DEF WriteTarget, WriteFails, SetState, Goto, TypeOK, haproxy, history
<1>6. CASE Apply(n)
  <2>1. version'[n] = job[n] /\ Matched(job[n]) /\ up[n] = "up"
    BY <1>6 DEF Apply, TypeOK, OnDiskInv
  <2> QED
    BY <1>6, <2>1 DEF Apply, TypeOK
<1>7. CASE ApplyFails(n) \/ Crash(n) \/ HaproxyStops(n)
  BY <1>7 DEF ApplyFails, Crash, HaproxyStops, TypeOK, haproxy, history
<1>8. CASE HaproxyLoads(n)
  BY <1>8 DEF HaproxyLoads, OnDiskInv, TypeOK
<1>9. CASE HaproxyReady(n)
  BY <1>0, <1>9 DEF HaproxyReady, TypeOK, history
<1> QED
  BY <1>0, <1>1, <1>2, <1>3, <1>4, <1>5, <1>6, <1>7, <1>8, <1>9 DEF Next, NodeSteps

(***************************************************************************)
(* For any nodes, delays and faults: unless its last hot swap failed, a    *)
(* running HAProxy serves what its node announces between deployments.     *)
(***************************************************************************)
THEOREM AnnouncedIsServed == Spec => []ServesWhatItAnnounces
<1>1. Init => InPlaceInv /\ OnDiskInv /\ ServesWhatItAnnounces
  BY DEF Init, InPlaceInv, OnDiskInv, ServesWhatItAnnounces
<1> QED
  BY <1>1, InitTypeOK, StepTypeOK, StepInPlace, StepOnDisk, StepServes, PTL DEF Spec
=============================================================================
