--------------------------- MODULE GeoStagingProofs ---------------------------
(***************************************************************************)
(* Theorems about GeoStaging, for any followers, delays, intervals and     *)
(* clocks.                                                                 *)
(***************************************************************************)
EXTENDS GeoStaging, TLAPS

USE DEF Times, None, Nodes

LEMMA PauseType == \A n \in Nodes : Pause(n) \in Nat /\ Pause(n) > 0
BY IntervalAssumption DEF Pause

LEMMA ClockType ==
  ASSUME TypeOK, NEW n \in Nodes
  PROVE  Clock(n) \in Nat /\ now \in Nat /\ Clock(n) >= now
BY DelayAssumption, IntervalAssumption DEF TypeOK, Clock

(* Sleeping keeps the loops' wake-up times within their intervals. *)
LEMMA SleepLemma ==
  ASSUME TypeOK, NEW n \in Nodes, Sleep(n)
  PROVE  /\ pc' \in [Nodes -> {"sleep", "fetch", "stamp"}]
         /\ due' \in [Nodes -> Nat]
         /\ \A k \in Nodes : now <= due'[k] /\ due'[k] <= now + Pause(k)
         /\ pc'[n] = "sleep"
         /\ \A k \in Nodes \ {n} : pc'[k] = pc[k]
<1>1. now \in Nat /\ Pause(n) \in Nat
  BY PauseType, IntervalAssumption DEF TypeOK
<1>2. due' \in [Nodes -> Nat] /\ \A k \in Nodes : due'[k] = due[k] \/ due'[k] = now + Pause(k)
  BY <1>1 DEF TypeOK, Sleep
<1>3. \A k \in Nodes : now <= due'[k] /\ due'[k] <= now + Pause(k)
  BY <1>1, <1>2, PauseType DEF TypeOK
<1> QED
  BY <1>2, <1>3 DEF TypeOK, Sleep

LEMMA NextPendingType ==
  ASSUME TypeOK, NEW f \in Followers, NEW m \in Times
  PROVE  NextPending(f, m) \in Times
BY DEF TypeOK, NextPending, Anchor

LEMMA InitTypeOK == Init => TypeOK
<1> SUFFICES ASSUME Init PROVE TypeOK
  OBVIOUS
<1>1. \A n \in Nodes : now <= due[n] /\ due[n] <= now + Pause(n)
  BY PauseType DEF Init
<1> QED
  BY <1>1, IntervalAssumption DEF Init, TypeOK, Versions

LEMMA NextTypeOK == TypeOK /\ [Next]_vars => TypeOK'
<1> SUFFICES ASSUME TypeOK, [Next]_vars PROVE TypeOK'
  OBVIOUS
<1>t. now \in Nat /\ MaxTime \in Nat /\ MaxVersion \in Nat \ {0} /\ MaxTrouble \in Nat
  BY IntervalAssumption DEF TypeOK
<1>p. \A n \in Nodes : PendingAfter(n) \in [Followers -> Times]
  BY DEF TypeOK, PendingAfter
<1>d. Trouble => trouble' \in 0..MaxTrouble
  BY <1>t DEF Trouble, TypeOK
<1> USE DEF history
<1>1. CASE Tick
  <2>1. now' \in 0..MaxTime
    BY <1>t, <1>1 DEF Tick, TypeOK
  <2>2. \A n \in Nodes : now' <= due[n] /\ due[n] <= now' + Pause(n)
    BY <1>t, <1>1, PauseType DEF Tick, TypeOK
  <2> QED
    BY <1>1, <2>1, <2>2 DEF Tick, TypeOK, Pause
<1>2. CASE Release
  <2>1. source' \in Versions /\ now \in Times
    BY <1>t, <1>2 DEF Release, TypeOK, Versions
  <2> QED
    BY <1>2, <2>1 DEF Release, TypeOK, Pause
<1>3. CASE MasterWakes \/ DeployNow
  BY <1>3 DEF MasterWakes, DeployNow, TypeOK, Pause
<1>4. ASSUME NEW f \in Followers, Poll(f) PROVE TypeOK'
  <2>1. pending' \in [Followers -> Times]
    BY <1>4, NextPendingType DEF Poll, TypeOK
  <2>2. CASE Sleep(f)
    BY <1>4, <2>1, <2>2, SleepLemma DEF Poll, TypeOK, Pause
  <2>3. CASE pc' = [pc EXCEPT ![f] = "fetch"] /\ UNCHANGED due
    BY <1>4, <2>1, <2>3 DEF Poll, TypeOK, Pause
  <2> QED
    BY <1>4, <2>2, <2>3 DEF Poll
<1>5. ASSUME NEW f \in Followers, PollLost(f) PROVE TypeOK'
  BY <1>5, <1>d, SleepLemma DEF PollLost, TypeOK, Pause
<1>6. ASSUME NEW n \in Nodes, Fetch(n) PROVE TypeOK'
  BY <1>t, <1>6 DEF Fetch, TypeOK, Pause, Versions
<1>7. ASSUME NEW n \in Nodes, Adopt(n) PROVE TypeOK'
  <2>1. map' \in [Nodes -> 0..MaxVersion] /\ job' \in [Nodes -> 0..MaxVersion]
    BY <1>t, <1>7 DEF Adopt, TypeOK
  <2>2. validatedAt' \in [Nodes -> Times]
    BY <1>7, ClockType DEF Adopt, TypeOK
  <2>3. masterSince' \in [Versions -> Times]
    BY <1>t, <1>7 DEF Adopt, TypeOK
  <2> QED
    BY <1>7, <1>p, <2>1, <2>2, <2>3, SleepLemma DEF Adopt, TypeOK, Pause
<1>8. ASSUME NEW n \in Nodes, GiveUp(n) PROVE TypeOK'
  BY <1>t, <1>8, <1>d, SleepLemma DEF GiveUp, TypeOK, Pause
<1>9. ASSUME NEW n \in Nodes, Restart(n) PROVE TypeOK'
  <2>1. due' \in [Nodes -> Nat]
        /\ \A k \in Nodes : now <= due'[k] /\ due'[k] <= now + Pause(k)
    BY <1>t, <1>9, PauseType DEF Restart, TypeOK
  <2> QED
    BY <1>t, <1>p, <1>9, <1>d, <2>1 DEF Restart, TypeOK, Pause
<1>10. CASE UNCHANGED vars
  BY <1>10 DEF vars, TypeOK, Pause
<1> QED
  BY <1>1, <1>2, <1>3, <1>4, <1>5, <1>6, <1>7, <1>8, <1>9, <1>10 DEF Next

(***************************************************************************)
(* Every variable keeps its type, and every loop wakes up within its own   *)
(* interval, whatever else happens on the node.                            *)
(***************************************************************************)
THEOREM TypeCorrect == Spec => []TypeOK
BY InitTypeOK, NextTypeOK, PTL DEF Spec

-----------------------------------------------------------------------------
(***************************************************************************)
(* What the soak timer stands for: while it runs, the follower has a stamp *)
(* and the anchor is newer; a run in update mode was started by a timer    *)
(* that had elapsed; a stamp is never in the future of its own clock.      *)
(***************************************************************************)
SoakInv ==
  \A f \in Followers :
    /\ pending[f] # None => validatedAt[f] # None /\ validatedAt[f] < pending[f]
    /\ validatedAt[f] <= Clock(f)
    /\ /\ pc[f] # "sleep" /\ validatedAt[f] # None /\ Delay[f] > 0
       => pending[f] # None /\ Clock(f) - pending[f] >= Delay[f]

LEMMA InitSoak == Init => SoakInv
BY DelayAssumption DEF Init, SoakInv, Clock

LEMMA PollSoak ==
  ASSUME TypeOK, SoakInv, NEW f \in Followers, Poll(f)
  PROVE  SoakInv'
<1> DEFINE m == validatedAt[Master]
<1>t. /\ Clock(f) \in Nat /\ m \in Times /\ validatedAt[f] \in Times
      /\ pending[f] \in Times /\ Delay[f] \in Nat
      /\ pending \in [Followers -> Times] /\ pc \in [Nodes -> {"sleep", "fetch", "stamp"}]
  BY ClockType, DelayAssumption DEF TypeOK
<1>u. UNCHANGED <<now, validatedAt>> /\ pending' = [pending EXCEPT ![f] = NextPending(f, m)]
  BY DEF Poll
<1>1. pending'[f] # None => validatedAt[f] # None /\ validatedAt[f] < pending'[f]
  <2>1. pending'[f] = NextPending(f, m)
    BY <1>t, <1>u
  <2>2. CASE m = None
    BY <1>t, <2>1, <2>2 DEF NextPending, UpdateMode, SoakInv
  <2>3. CASE m # None /\ UpdateMode(f, m) /\ Behind(f, m)
    BY <1>t, <2>1, <2>3 DEF NextPending, Anchor, UpdateMode, Behind, SoakInv
  <2>4. CASE m # None /\ ~(UpdateMode(f, m) /\ Behind(f, m))
    BY <1>t, <2>1, <2>4 DEF NextPending
  <2> QED
    BY <2>2, <2>3, <2>4
<1>2. ASSUME pc'[f] # "sleep", validatedAt[f] # None, Delay[f] > 0
      PROVE  pending'[f] # None /\ Clock(f) - pending'[f] >= Delay[f]
  <2>1. ShouldActivate(f, m)
    <3>1. CASE Sleep(f)
      BY <1>t, <1>2, <3>1 DEF Sleep
    <3> QED
      BY <3>1 DEF Poll
  <2>2. UpdateMode(f, m)
    BY <2>1, <1>2, <1>t DEF ShouldActivate, UpdateMode
  <2>3. Behind(f, m) /\ Clock(f) - Anchor(f, m) >= Delay[f]
    BY <2>1, <2>2 DEF ShouldActivate
  <2>4. pending'[f] = Anchor(f, m)
    BY <1>t, <1>u, <2>1, <2>2, <2>3 DEF NextPending, ShouldActivate
  <2> QED
    BY <1>t, <2>1, <2>3, <2>4 DEF Anchor, ShouldActivate
<1>3. \A g \in Followers \ {f} : pc'[g] = pc[g] /\ pending'[g] = pending[g]
  BY <1>t, <1>u DEF Poll, Sleep
<1> QED
  BY <1>u, <1>1, <1>2, <1>3 DEF SoakInv, Clock

LEMMA NextSoak == TypeOK /\ SoakInv /\ [Next]_vars => SoakInv'
<1> SUFFICES ASSUME TypeOK, SoakInv, [Next]_vars PROVE SoakInv'
  OBVIOUS
<1>t. /\ now \in Nat /\ Skew \in [Nodes -> Nat] /\ Delay \in [Followers -> Nat]
      /\ validatedAt \in [Nodes -> Times] /\ pending \in [Followers -> Times]
      /\ pc \in [Nodes -> {"sleep", "fetch", "stamp"}]
  BY DelayAssumption, IntervalAssumption DEF TypeOK
<1>m. Master \notin Followers
  BY NodesAssumption
<1> USE DEF SoakInv, Clock, history
<1>1. CASE Tick
  BY <1>t, <1>1 DEF Tick
<1>2. CASE Release
  BY <1>2 DEF Release
<1>3. CASE MasterWakes \/ DeployNow
  BY <1>t, <1>m, <1>3 DEF MasterWakes, DeployNow
<1>4. ASSUME NEW f \in Followers, Poll(f) PROVE SoakInv'
  BY <1>4, PollSoak
<1>5. ASSUME NEW f \in Followers, PollLost(f) PROVE SoakInv'
  BY <1>t, <1>5 DEF PollLost, Sleep
<1>6. ASSUME NEW n \in Nodes, Fetch(n) PROVE SoakInv'
  BY <1>t, <1>6 DEF Fetch
<1>7. ASSUME NEW n \in Nodes, Adopt(n) PROVE SoakInv'
  BY <1>t, <1>7 DEF Adopt, Sleep, PendingAfter
<1>8. ASSUME NEW n \in Nodes, GiveUp(n) PROVE SoakInv'
  BY <1>t, <1>8 DEF GiveUp, Sleep
<1>9. ASSUME NEW n \in Nodes, Restart(n) PROVE SoakInv'
  BY <1>t, <1>9 DEF Restart, PendingAfter
<1>10. CASE UNCHANGED vars
  BY <1>10 DEF vars
<1> QED
  BY <1>1, <1>2, <1>3, <1>4, <1>5, <1>6, <1>7, <1>8, <1>9, <1>10 DEF Next

(***************************************************************************)
(* A follower that stays up never changes its list twice within its stage  *)
(* delay: for all delays, clocks, intervals, failures and restarts of the  *)
(* other nodes.                                                            *)
(***************************************************************************)
THEOREM UpdatesSpaced == Spec => UpdatesAreSpaced
<1> DEFINE Spaced == \A f \in Followers :
                       /\ validatedAt[f] # None /\ validatedAt'[f] # None
                       /\ validatedAt'[f] # validatedAt[f]
                       => validatedAt'[f] >= validatedAt[f] + Delay[f]
<1>1. TypeOK /\ SoakInv /\ [Next]_vars => [Spaced]_vars
  <2> SUFFICES ASSUME TypeOK, SoakInv, Next, NEW f \in Followers,
                      validatedAt[f] # None, validatedAt'[f] # None,
                      validatedAt'[f] # validatedAt[f]
               PROVE  validatedAt'[f] >= validatedAt[f] + Delay[f]
    OBVIOUS
  <2>t. /\ Clock(f) \in Nat /\ Delay[f] \in Nat /\ f \in Nodes
        /\ validatedAt \in [Nodes -> Times] /\ pending[f] \in Times
        /\ pc \in [Nodes -> {"sleep", "fetch", "stamp"}]
    BY ClockType, DelayAssumption DEF TypeOK
  <2>1. Adopt(f)
    BY <2>t DEF Next, Tick, Release, MasterWakes, DeployNow, Poll, PollLost,
                Fetch, Adopt, GiveUp, Restart
  <2>2. validatedAt'[f] = Clock(f) /\ pc[f] = "stamp"
    BY <2>t, <2>1 DEF Adopt
  <2>3. CASE Delay[f] = 0
    BY <2>t, <2>2, <2>3 DEF SoakInv
  <2>4. CASE Delay[f] > 0
    BY <2>t, <2>2, <2>4 DEF SoakInv
  <2> QED
    BY <2>t, <2>3, <2>4
<1> QED
  BY <1>1, InitSoak, NextSoak, TypeCorrect, PTL DEF Spec, UpdatesAreSpaced

-----------------------------------------------------------------------------
(***************************************************************************)
(* Towards ReleasesArrive.  For a follower whose list was superseded at    *)
(* the time since, InTime bounds the next thing that has to happen, given  *)
(* the master's stamp m, its own stamp s, the anchor p of its timer, its   *)
(* wake-up time df, the master's dm and the setbacks c so far:             *)
(* - no timer runs and the master has no news: the master wakes up in time *)
(*   to publish something newer than the follower's stamp (NewsDue);       *)
(* - the master has news: the follower polls in time to see them;          *)
(* - a timer runs, or none is needed: the follower polls in time to find   *)
(*   that the delay is over (Deadline), or, if the master has forgotten    *)
(*   its stamp, one poll after the master has a new one.                   *)
(* The first two conjuncts tie stamps to the time at which the list was    *)
(* superseded: the list was adopted before, and the timer starts with the  *)
(* first news.                                                             *)
(***************************************************************************)
NewsDue(f, since, c)  == since + FetchInterval + Larger(0, Ahead(f)) + c
Deadline(f, since, c) ==
  NewsDue(f, since, c) + 2 * PollInterval - 1 + Larger(0, Delay[f] - Ahead(f))

InTime(f, since, m, s, p, df, dm, c) ==
  /\ s # None => s <= since + Skew[f]
  /\ p # None => p <= NewsDue(f, since, c) + PollInterval + Skew[Master]
  /\ IF s = None \/ Delay[f] = 0 \/ p # None
     THEN IF m = None
          THEN dm + PollInterval <= Deadline(f, since, c)
          ELSE df <= Deadline(f, since, c)
     ELSE IF s < m
          THEN df <= NewsDue(f, since, c) + PollInterval
          ELSE dm <= NewsDue(f, since, c)

Outdated(f) == map[f] \in 1..(source - 1)
Since(f)    == releasedAt[map[f] + 1]

DeadlineInv ==
  \A f \in Followers :
    Outdated(f) => InTime(f, Since(f), validatedAt[Master], validatedAt[f],
                          pending[f], due[f], due[Master], Setbacks)

(***************************************************************************)
(* A stamp of the master is not in the future of its clock, nor is an      *)
(* anchor, which is the master's stamp or an earlier one.  Every list up   *)
(* to the newest was released, and what a run has fetched is the newest    *)
(* list or was until this very moment.                                     *)
(***************************************************************************)
ClocksInv ==
  /\ validatedAt[Master] <= Clock(Master)
  /\ \A f \in Followers :
       /\ pending[f] <= Clock(Master)
       /\ validatedAt[Master] # None => pending[f] <= validatedAt[Master]

ReleasedInv == \A v \in 1..source : releasedAt[v] \in 0..now

FetchedInv ==
  \A n \in Nodes : pc[n] = "stamp" =>
    job[n] \in 1..source /\ (job[n] < source => releasedAt[job[n] + 1] = now)

(* The numbers in InTime, with what there is to know about them.           *)
LEMMA BoundType ==
  ASSUME NEW f \in Followers
  PROVE  /\ FetchInterval \in Nat \ {0} /\ PollInterval \in Nat \ {0}
         /\ Skew[f] \in Nat /\ Skew[Master] \in Nat /\ Delay[f] \in Nat
         /\ Larger(0, Ahead(f)) \in Nat
         /\ Larger(0, Ahead(f)) >= Skew[f] - Skew[Master]
         /\ Larger(0, Delay[f] - Ahead(f)) \in Nat
         /\ Larger(0, Delay[f] - Ahead(f)) >= Delay[f] - (Skew[f] - Skew[Master])
         /\ Larger(FetchInterval, PollInterval) \in Nat
         /\ Larger(FetchInterval, PollInterval) >= FetchInterval
         /\ Larger(FetchInterval, PollInterval) >= PollInterval
BY IntervalAssumption, DelayAssumption DEF Larger, Ahead

LEMMA SetbacksType ==
  ASSUME TypeOK
  PROVE  /\ Setbacks \in Nat
         /\ trouble' = trouble => Setbacks' = Setbacks
         /\ Trouble => Setbacks' = Setbacks + Larger(FetchInterval, PollInterval)
<1> DEFINE L == Larger(FetchInterval, PollInterval)
<1>1. L \in Nat /\ trouble \in Nat
  BY IntervalAssumption DEF Larger, TypeOK
<1>2. \A t \in Nat, l \in Nat : t * l \in Nat /\ (t + 1) * l = t * l + l
  OBVIOUS
<1>3. Trouble => trouble' = trouble + 1
  BY DEF Trouble
<1> HIDE DEF L
<1>4. trouble * L \in Nat /\ (trouble + 1) * L = trouble * L + L
  BY <1>1, <1>2
<1>5. Setbacks = trouble * L /\ Setbacks' = trouble' * L
  BY DEF Setbacks, L
<1>. QED BY <1>3, <1>4, <1>5 DEF L

(* The values that InTime is about, at a time t. *)
Moment(f, t, since, m, s, p, df, dm, c) ==
  /\ t \in Nat /\ since \in 0..t /\ c \in Nat
  /\ m \in Times /\ s \in Times /\ p \in Times
  /\ m <= t + Skew[Master] /\ p <= t + Skew[Master]
  /\ df \in Nat /\ t <= df /\ df <= t + PollInterval
  /\ dm \in Nat /\ t <= dm /\ dm <= t + FetchInterval

(* A list that is superseded now has its whole time before it.             *)
LEMMA JustSuperseded ==
  ASSUME NEW f \in Followers, NEW t, NEW m, NEW s, NEW p, NEW df, NEW dm, NEW c,
         Moment(f, t, t, m, s, p, df, dm, c), s <= t + Skew[f]
  PROVE  InTime(f, t, m, s, p, df, dm, c)
BY BoundType DEF Moment, InTime, NewsDue, Deadline

(* The next thing to happen is never later than the deadline.              *)
LEMMA WakesInTime ==
  ASSUME NEW f \in Followers, NEW t, NEW since, NEW m, NEW s, NEW p, NEW df, NEW dm,
         NEW c, Moment(f, t, since, m, s, p, df, dm, c),
         InTime(f, since, m, s, p, df, dm, c)
  PROVE  t <= Deadline(f, since, c)
BY BoundType DEF Moment, InTime, NewsDue, Deadline

(* What goes wrong elsewhere only gives more time.                         *)
LEMMA MoreSetbacks ==
  ASSUME NEW f \in Followers, NEW t, NEW since, NEW m, NEW s, NEW p, NEW df, NEW dm,
         NEW c, NEW d \in Nat, Moment(f, t, since, m, s, p, df, dm, c), c <= d,
         InTime(f, since, m, s, p, df, dm, c)
  PROVE  InTime(f, since, m, s, p, df, dm, d)
BY BoundType DEF Moment, InTime, NewsDue, Deadline

(* A poll that does not activate: it starts the timer if there are news,   *)
(* and the next one is an interval away.                                   *)
LEMMA PollWaits ==
  ASSUME NEW f \in Followers, NEW since, NEW m, NEW s, NEW p, NEW df, NEW dm, NEW c,
         NEW q, Moment(f, df, since, m, s, p, df, dm, c),
         InTime(f, since, m, s, p, df, dm, c),
         \/ m = None /\ q = p
         \/ /\ m # None /\ s # None /\ Delay[f] > 0 /\ s < m
            /\ q = (IF p = None THEN m ELSE p)
            /\ df + Skew[f] - q < Delay[f]
         \/ m # None /\ s # None /\ Delay[f] > 0 /\ m <= s /\ q = None /\ p = None
  PROVE  InTime(f, since, m, s, q, df + PollInterval, dm, c)
BY BoundType DEF Moment, InTime, NewsDue, Deadline

(* A poll that activates leaves the wake-up time alone until the run ends. *)
LEMMA PollActivates ==
  ASSUME NEW f \in Followers, NEW since, NEW m, NEW s, NEW p, NEW df, NEW dm, NEW c,
         NEW q, Moment(f, df, since, m, s, p, df, dm, c),
         InTime(f, since, m, s, p, df, dm, c), m # None,
         \/ /\ s # None /\ Delay[f] > 0 /\ s < m
            /\ q = (IF p = None THEN m ELSE p)
         \/ (s = None \/ Delay[f] = 0) /\ q = None
  PROVE  InTime(f, since, m, s, q, df, dm, c)
BY BoundType DEF Moment, InTime, NewsDue, Deadline

(* A poll or a run of the follower that comes to nothing costs one poll.   *)
LEMMA PollSetback ==
  ASSUME NEW f \in Followers, NEW t, NEW since, NEW m, NEW s, NEW p, NEW df, NEW dm,
         NEW c, NEW e, Moment(f, t, since, m, s, p, df, dm, c),
         InTime(f, since, m, s, p, df, dm, c), e = df \/ e = t + PollInterval
  PROVE  InTime(f, since, m, s, p, e, dm, c + Larger(FetchInterval, PollInterval))
BY BoundType DEF Moment, InTime, NewsDue, Deadline

(* The follower starts again: it has no stamp, and polls at once.          *)
LEMMA FollowerRestarts ==
  ASSUME NEW f \in Followers, NEW t, NEW since, NEW m, NEW s, NEW p, NEW df, NEW dm,
         NEW c, Moment(f, t, since, m, s, p, df, dm, c),
         InTime(f, since, m, s, p, df, dm, c)
  PROVE  InTime(f, since, m, None, None, t, dm, c + Larger(FetchInterval, PollInterval))
BY BoundType DEF Moment, InTime, NewsDue, Deadline

(* The master publishes: that is news for the follower, unless the         *)
(* master's clock is so far behind that it is stamped earlier.             *)
LEMMA MasterPublishes ==
  ASSUME NEW f \in Followers, NEW t, NEW since, NEW m, NEW s, NEW p, NEW df, NEW dm,
         NEW c, NEW e, Moment(f, t, since, m, s, p, df, dm, c),
         InTime(f, since, m, s, p, df, dm, c),
         \/ dm = t /\ e = t + FetchInterval
         \/ dm > t /\ e = dm
  PROVE  InTime(f, since, t + Skew[Master], s, p, df, e, c)
BY BoundType DEF Moment, InTime, NewsDue, Deadline

(* A run of the master that comes to nothing costs one of its intervals.   *)
LEMMA MasterSetback ==
  ASSUME NEW f \in Followers, NEW t, NEW since, NEW m, NEW s, NEW p, NEW df, NEW dm,
         NEW c, NEW e, Moment(f, t, since, m, s, p, df, dm, c),
         InTime(f, since, m, s, p, df, dm, c), e = dm \/ (dm = t /\ e = t + FetchInterval)
  PROVE  InTime(f, since, m, s, p, df, e, c + Larger(FetchInterval, PollInterval))
BY BoundType DEF Moment, InTime, NewsDue, Deadline

(* The master starts again: it has no stamp, and wakes up at once.         *)
LEMMA MasterRestarts ==
  ASSUME NEW f \in Followers, NEW t, NEW since, NEW m, NEW s, NEW p, NEW df, NEW dm,
         NEW c, Moment(f, t, since, m, s, p, df, dm, c),
         InTime(f, since, m, s, p, df, dm, c)
  PROVE  InTime(f, since, None, s, p, df, t, c + Larger(FetchInterval, PollInterval))
BY BoundType DEF Moment, InTime, NewsDue, Deadline

LEMMA InitDeadline == Init => ClocksInv /\ ReleasedInv /\ FetchedInv /\ DeadlineInv
<1>1. Init => ClocksInv
  BY DelayAssumption DEF Init, ClocksInv, Clock
<1>2. Init => ReleasedInv
  BY IntervalAssumption DEF Init, ReleasedInv, Versions
<1>3. Init => FetchedInv /\ DeadlineInv
  BY DEF Init, FetchedInv, DeadlineInv, Outdated
<1>. QED BY <1>1, <1>2, <1>3

LEMMA NextClocks == TypeOK /\ ClocksInv /\ [Next]_vars => ClocksInv'
<1> SUFFICES ASSUME TypeOK, ClocksInv, [Next]_vars PROVE ClocksInv'
  OBVIOUS
<1>t. /\ now \in Nat /\ Skew[Master] \in Nat /\ Master \notin Followers
      /\ validatedAt \in [Nodes -> Times] /\ pending \in [Followers -> Times]
  BY IntervalAssumption, DelayAssumption, NodesAssumption DEF TypeOK
<1> USE DEF ClocksInv, Clock, history
<1>1. CASE Tick
  BY <1>t, <1>1 DEF Tick
<1>2. CASE Release \/ MasterWakes \/ DeployNow
  BY <1>2 DEF Release, MasterWakes, DeployNow
<1>3. ASSUME NEW f \in Followers, Poll(f) PROVE ClocksInv'
  <2>1. NextPending(f, validatedAt[Master]) \in {None, pending[f], validatedAt[Master]}
    BY DEF NextPending, Anchor
  <2>2. pending' = [pending EXCEPT ![f] = NextPending(f, validatedAt[Master])]
        /\ UNCHANGED <<now, validatedAt>>
    BY <1>3 DEF Poll
  <2>. QED BY <1>t, <2>1, <2>2
<1>4. ASSUME NEW f \in Followers, PollLost(f) PROVE ClocksInv'
  BY <1>4 DEF PollLost
<1>5. ASSUME NEW n \in Nodes, Fetch(n) \/ GiveUp(n) PROVE ClocksInv'
  BY <1>5 DEF Fetch, GiveUp
<1>6. ASSUME NEW n \in Nodes, Adopt(n) PROVE ClocksInv'
  BY <1>t, <1>6 DEF Adopt, PendingAfter
<1>7. ASSUME NEW n \in Nodes, Restart(n) PROVE ClocksInv'
  BY <1>t, <1>7 DEF Restart, PendingAfter
<1>8. CASE UNCHANGED vars
  BY <1>8 DEF vars
<1>. QED BY <1>1, <1>2, <1>3, <1>4, <1>5, <1>6, <1>7, <1>8 DEF Next

LEMMA NextReleased == TypeOK /\ ReleasedInv /\ [Next]_vars => ReleasedInv'
<1> SUFFICES ASSUME TypeOK, ReleasedInv, [Next]_vars PROVE ReleasedInv'
  OBVIOUS
<1>t. now \in Nat /\ source \in 1..MaxVersion /\ MaxVersion \in Nat
      /\ releasedAt \in [1..MaxVersion -> Times]
  BY IntervalAssumption DEF TypeOK, Versions
<1>1. CASE Tick
  BY <1>t, <1>1 DEF Tick, ReleasedInv, history
<1>2. CASE Release
  BY <1>t, <1>2 DEF Release, ReleasedInv
<1>3. CASE ~Tick /\ ~Release
  <2>1. UNCHANGED <<now, source, releasedAt>>
    BY <1>3 DEF Next, MasterWakes, DeployNow, Poll, PollLost, Fetch, Adopt, GiveUp,
                Restart, vars, history
  <2>. QED BY <2>1 DEF ReleasedInv
<1>. QED BY <1>1, <1>2, <1>3

LEMMA NextFetched ==
  TypeOK /\ FetchedInv /\ [Next]_vars => FetchedInv'
<1> SUFFICES ASSUME TypeOK, FetchedInv, [Next]_vars PROVE FetchedInv'
  OBVIOUS
<1>t. /\ now \in Nat /\ source \in 1..MaxVersion /\ MaxVersion \in Nat
      /\ releasedAt \in [1..MaxVersion -> Times]
      /\ pc \in [Nodes -> {"sleep", "fetch", "stamp"}]
      /\ job \in [Nodes -> 0..MaxVersion]
      /\ \A f \in Followers : f \in Nodes
  BY IntervalAssumption DEF TypeOK, Versions
<1> USE DEF FetchedInv, history
<1>1. CASE Tick
  BY <1>t, <1>1 DEF Tick
<1>2. CASE Release
  <2>. SUFFICES ASSUME NEW n \in Nodes, pc[n] = "stamp"
                PROVE  /\ job[n] \in 1..source'
                       /\ job[n] < source' => releasedAt'[job[n] + 1] = now
    BY <1>2 DEF Release
  <2>1. job[n] \in 1..source /\ (job[n] < source => releasedAt[job[n] + 1] = now)
    OBVIOUS
  <2>2. /\ source' = source + 1 /\ source + 1 \in 1..MaxVersion
        /\ releasedAt' = [releasedAt EXCEPT ![source + 1] = now]
    BY <1>t, <1>2 DEF Release
  <2>. QED BY <1>t, <2>1, <2>2
<1>3. CASE MasterWakes \/ DeployNow
  BY <1>t, <1>3 DEF MasterWakes, DeployNow
<1>4. ASSUME NEW f \in Followers, Poll(f) \/ PollLost(f) PROVE FetchedInv'
  BY <1>t, <1>4 DEF Poll, PollLost, Sleep
<1>5. ASSUME NEW n \in Nodes, Fetch(n) PROVE FetchedInv'
  BY <1>t, <1>5 DEF Fetch
<1>6. ASSUME NEW n \in Nodes, Adopt(n) PROVE FetchedInv'
  BY <1>t, <1>6 DEF Adopt, Sleep
<1>7. ASSUME NEW n \in Nodes, GiveUp(n) PROVE FetchedInv'
  BY <1>t, <1>7 DEF GiveUp, Sleep
<1>8. ASSUME NEW n \in Nodes, Restart(n) PROVE FetchedInv'
  BY <1>t, <1>8 DEF Restart
<1>9. CASE UNCHANGED vars
  BY <1>9 DEF vars
<1>. QED BY <1>1, <1>2, <1>3, <1>4, <1>5, <1>6, <1>7, <1>8, <1>9 DEF Next

LEMMA MomentNow ==
  ASSUME TypeOK, ClocksInv, ReleasedInv, NEW f \in Followers, NEW since \in 0..now
  PROVE  Moment(f, now, since, validatedAt[Master], validatedAt[f], pending[f],
                due[f], due[Master], Setbacks)
<1>1. /\ now \in Nat /\ Master \in Nodes /\ f \in Nodes
      /\ Pause(f) = PollInterval /\ Pause(Master) = FetchInterval
  BY IntervalAssumption, NodesAssumption DEF TypeOK, Pause
<1>2. due[f] \in Nat /\ due[Master] \in Nat
      /\ now <= due[f] /\ due[f] <= now + PollInterval
      /\ now <= due[Master] /\ due[Master] <= now + FetchInterval
  BY <1>1 DEF TypeOK
<1>3. /\ validatedAt[Master] \in Times /\ validatedAt[f] \in Times /\ pending[f] \in Times
  BY <1>1 DEF TypeOK
<1>4. validatedAt[Master] <= now + Skew[Master] /\ pending[f] <= now + Skew[Master]
  BY DEF ClocksInv, Clock
<1>. QED BY <1>1, <1>2, <1>3, <1>4, SetbacksType DEF Moment

LEMMA NowOutdated ==
  ASSUME TypeOK, ReleasedInv, NEW f \in Followers, Outdated(f)
  PROVE  Since(f) \in 0..now /\ map[f] + 1 \in 1..source
BY IntervalAssumption DEF TypeOK, ReleasedInv, Outdated, Since, Versions

(* A poll, with what should_follower_activate makes of the timer.          *)
LEMMA PollDeadline ==
  ASSUME TypeOK, ClocksInv, ReleasedInv, SoakInv, DeadlineInv, NEW f \in Followers,
         Poll(f), Outdated(f)
  PROVE  InTime(f, Since(f), validatedAt[Master], validatedAt[f], pending'[f],
                due'[f], due[Master], Setbacks)
<1> DEFINE m == validatedAt[Master]
           s == validatedAt[f]
           p == pending[f]
           q == NextPending(f, m)
<1>1. /\ due[f] = now /\ pending'[f] = q
      /\ IF ShouldActivate(f, m) THEN due'[f] = now ELSE due'[f] = now + PollInterval
  BY NodesAssumption DEF TypeOK, Poll, Sleep, Pause
<1>2. Since(f) \in 0..now
  BY NowOutdated
<1>3. /\ Moment(f, now, Since(f), m, s, p, now, due[Master], Setbacks)
      /\ InTime(f, Since(f), m, s, p, now, due[Master], Setbacks)
  BY <1>1, <1>2, MomentNow DEF DeadlineInv
<1>4. /\ now \in Nat /\ m \in Times /\ s \in Times /\ p \in Times
      /\ Delay[f] \in Nat /\ Skew[f] \in Nat
  BY <1>3, BoundType DEF Moment
<1>5. (p # None => s # None /\ s < p) /\ (m # None => p <= m)
  BY DEF SoakInv, ClocksInv
<1>6. CASE ShouldActivate(f, m)
  <2>1. m # None
    BY <1>6 DEF ShouldActivate
  <2>2. \/ s # None /\ Delay[f] > 0 /\ s < m /\ q = (IF p = None THEN m ELSE p)
        \/ (s = None \/ Delay[f] = 0) /\ q = None
    BY <1>4, <1>6 DEF ShouldActivate, UpdateMode, Behind, NextPending, Anchor
  <2>3. InTime(f, Since(f), m, s, q, now, due[Master], Setbacks)
    BY <1>3, <2>1, <2>2, PollActivates
  <2>. QED BY <1>1, <1>6, <2>3
<1>7. CASE ~ShouldActivate(f, m)
  <2>1. \/ m = None /\ q = p
        \/ /\ m # None /\ s # None /\ Delay[f] > 0 /\ s < m
           /\ q = (IF p = None THEN m ELSE p)
           /\ now + Skew[f] - q < Delay[f]
        \/ m # None /\ s # None /\ Delay[f] > 0 /\ m <= s /\ q = None /\ p = None
    BY <1>4, <1>5, <1>7
       DEF ShouldActivate, UpdateMode, Behind, NextPending, Anchor, Clock
  <2>2. InTime(f, Since(f), m, s, q, now + PollInterval, due[Master], Setbacks)
    BY <1>3, <2>1, PollWaits
  <2>. QED BY <1>1, <1>7, <2>2
<1>. QED BY <1>6, <1>7

LEMMA NextDeadline ==
  TypeOK /\ ClocksInv /\ ReleasedInv /\ FetchedInv /\ SoakInv /\ DeadlineInv /\ [Next]_vars
  => DeadlineInv'
<1> SUFFICES ASSUME TypeOK, ClocksInv, ReleasedInv, FetchedInv, SoakInv, DeadlineInv,
                    [Next]_vars, NEW f \in Followers, Outdated(f)'
             PROVE  InTime(f, Since(f), validatedAt[Master], validatedAt[f],
                           pending[f], due[f], due[Master], Setbacks)'
  BY DEF DeadlineInv
<1> DEFINE m == validatedAt[Master]
           s == validatedAt[f]
           p == pending[f]
           L == Larger(FetchInterval, PollInterval)
<1> SUFFICES InTime(f, Since(f)', m', s', p', due'[f], due'[Master], Setbacks')
  BY DEF InTime, NewsDue, Deadline
<1>t. /\ now \in Nat /\ f \in Nodes /\ Master \in Nodes /\ f # Master
      /\ due \in [Nodes -> Nat] /\ map \in [Nodes -> 0..MaxVersion]
      /\ validatedAt \in [Nodes -> Times] /\ pending \in [Followers -> Times]
      /\ source \in 1..MaxVersion /\ MaxVersion \in Nat
      /\ releasedAt \in [1..MaxVersion -> Times]
      /\ Pause(f) = PollInterval /\ Pause(Master) = FetchInterval
  BY NodesAssumption, IntervalAssumption DEF TypeOK, Pause, Versions
<1>l. L \in Nat /\ Setbacks \in Nat
  BY BoundType, SetbacksType
<1>o. ASSUME Outdated(f)
      PROVE  /\ Since(f) \in 0..now
             /\ Moment(f, now, Since(f), m, s, p, due[f], due[Master], Setbacks)
             /\ InTime(f, Since(f), m, s, p, due[f], due[Master], Setbacks)
  BY <1>o, NowOutdated, MomentNow DEF DeadlineInv
<1>s. ASSUME UNCHANGED <<map, source, releasedAt>>
      PROVE  Outdated(f) /\ Since(f)' = Since(f)
  BY <1>s DEF Outdated, Since
<1> USE DEF history
<1>1. CASE UNCHANGED <<map, source, releasedAt, validatedAt, pending, due, trouble>>
  BY <1>1, <1>o, <1>s, SetbacksType
<1>2. CASE Release
  <2>1. /\ source' = source + 1 /\ releasedAt' = [releasedAt EXCEPT ![source + 1] = now]
        /\ UNCHANGED <<map, validatedAt, pending, due, trouble>>
        /\ source + 1 \in 1..MaxVersion
    BY <1>t, <1>2 DEF Release
  <2>2. Setbacks' = Setbacks
    BY <2>1, SetbacksType
  <2>3. CASE Outdated(f)
    <3>1. Since(f)' = Since(f)
      BY <1>t, <2>1, <2>3 DEF Outdated, Since
    <3>. QED BY <1>o, <2>1, <2>2, <2>3, <3>1
  <2>4. CASE ~Outdated(f)
    <3>1. Since(f)' = now
      BY <1>t, <2>1, <2>4 DEF Outdated, Since
    <3>2. Moment(f, now, now, m, s, p, due[f], due[Master], Setbacks)
      BY <1>t, MomentNow
    <3>3. s <= now + Skew[f]
      BY DEF SoakInv, Clock
    <3>. QED BY <2>1, <2>2, <3>1, <3>2, <3>3, JustSuperseded
  <2>. QED BY <2>3, <2>4
<1>3. CASE Poll(f)
  <2>1. UNCHANGED <<map, source, releasedAt, validatedAt, trouble>> /\ due'[Master] = due[Master]
    BY <1>t, <1>3 DEF Poll, Sleep
  <2>. QED BY <1>3, <1>s, <2>1, PollDeadline, SetbacksType
<1>4. ASSUME NEW g \in Followers \ {f}, Poll(g) PROVE InTime(f, Since(f)', m', s', p', due'[f], due'[Master], Setbacks')
  <2>1. /\ UNCHANGED <<map, source, releasedAt, validatedAt, trouble>>
        /\ due'[f] = due[f] /\ due'[Master] = due[Master] /\ p' = p
    BY <1>t, <1>4, NodesAssumption DEF Poll, Sleep
  <2>. QED BY <1>o, <1>s, <2>1, SetbacksType
<1>5. CASE PollLost(f) \/ GiveUp(f)
  <2>1. /\ UNCHANGED <<map, source, releasedAt, validatedAt, pending>> /\ Trouble
        /\ due'[f] = due[f] \/ due'[f] = now + PollInterval
        /\ due'[Master] = due[Master]
    BY <1>t, <1>5 DEF PollLost, GiveUp, Sleep
  <2>2. Setbacks' = Setbacks + L
    BY <2>1, SetbacksType
  <2>3. InTime(f, Since(f), m, s, p, due'[f], due[Master], Setbacks + L)
    BY <1>o, <1>s, <2>1, PollSetback
  <2>. QED BY <1>s, <2>1, <2>2, <2>3
<1>6. ASSUME NEW g \in Followers \ {f}, PollLost(g) \/ GiveUp(g) \/ Restart(g)
      PROVE  InTime(f, Since(f)', m', s', p', due'[f], due'[Master], Setbacks')
  <2>1. /\ UNCHANGED <<map, source, releasedAt>> /\ Trouble
        /\ m' = m /\ s' = s /\ p' = p /\ due'[f] = due[f] /\ due'[Master] = due[Master]
    BY <1>t, <1>6, NodesAssumption DEF PollLost, GiveUp, Restart, Sleep, PendingAfter
  <2>2. Setbacks' = Setbacks + L
    BY <2>1, SetbacksType
  <2>. QED BY <1>l, <1>o, <1>s, <2>1, <2>2, MoreSetbacks
<1>7. CASE Adopt(Master)
  <2>1. /\ map'[f] = map[f] /\ UNCHANGED <<source, releasedAt, trouble>>
        /\ m' = now + Skew[Master] /\ s' = s /\ p' = p /\ due'[f] = due[f]
        /\ \/ due[Master] = now /\ due'[Master] = now + FetchInterval
           \/ due[Master] # now /\ due'[Master] = due[Master]
    BY <1>t, <1>7, NodesAssumption DEF Adopt, Sleep, PendingAfter, Clock
  <2>2. Outdated(f) /\ Since(f)' = Since(f) /\ Setbacks' = Setbacks
    BY <2>1, SetbacksType DEF Outdated, Since
  <2>3. due[Master] = now \/ due[Master] > now
    BY <1>t DEF TypeOK
  <2>4. InTime(f, Since(f), now + Skew[Master], s, p, due[f], due'[Master], Setbacks)
    BY <1>o, <2>1, <2>2, <2>3, MasterPublishes
  <2>. QED BY <2>1, <2>2, <2>4
<1>8. CASE Adopt(f)
  <2>1. /\ map'[f] = job[f] /\ UNCHANGED <<source, releasedAt, trouble, now>> /\ pc[f] = "stamp"
        /\ m' = m /\ s' = now + Skew[f] /\ p' = None /\ due'[Master] = due[Master]
        /\ due'[f] = due[f] \/ due'[f] = now + PollInterval
    BY <1>t, <1>8 DEF Adopt, Sleep, PendingAfter, Clock
  <2>2. Since(f)' = now /\ Setbacks' = Setbacks
    BY <1>t, <2>1, SetbacksType DEF Outdated, Since, FetchedInv
  <2>3. Moment(f, now, now, m, s, p, due[f], due[Master], Setbacks)
    BY <1>t, MomentNow
  <2>b. Skew[f] \in Nat /\ Skew[Master] \in Nat /\ PollInterval \in Nat
    BY BoundType
  <2>4. Moment(f, now, now, m, now + Skew[f], None, due'[f], due[Master], Setbacks)
    <3>1. /\ due[f] \in Nat /\ now <= due[f] /\ due[f] <= now + PollInterval
          /\ m \in Times /\ m <= now + Skew[Master]
          /\ due[Master] \in Nat /\ now <= due[Master] /\ due[Master] <= now + FetchInterval
      BY <2>3 DEF Moment
    <3>2. due'[f] \in Nat /\ now <= due'[f] /\ due'[f] <= now + PollInterval
      BY <1>t, <2>1, <2>b, <3>1
    <3>3. now \in 0..now /\ now + Skew[f] \in Times /\ None \in Times /\ None <= now + Skew[Master]
      BY <1>t, <2>b
    <3>. QED BY <1>t, <1>l, <3>1, <3>2, <3>3 DEF Moment
  <2>. QED BY <1>t, <2>1, <2>2, <2>4, BoundType, JustSuperseded
<1>9. ASSUME NEW g \in Followers \ {f}, Adopt(g)
      PROVE  InTime(f, Since(f)', m', s', p', due'[f], due'[Master], Setbacks')
  <2>1. /\ map'[f] = map[f] /\ UNCHANGED <<source, releasedAt, trouble>>
        /\ m' = m /\ s' = s /\ p' = p /\ due'[f] = due[f] /\ due'[Master] = due[Master]
    BY <1>t, <1>9, NodesAssumption DEF Adopt, Sleep, PendingAfter
  <2>2. Outdated(f) /\ Since(f)' = Since(f) /\ Setbacks' = Setbacks
    BY <2>1, SetbacksType DEF Outdated, Since
  <2>. QED BY <1>o, <2>1, <2>2
<1>10. CASE GiveUp(Master)
  <2>1. /\ UNCHANGED <<map, source, releasedAt, validatedAt, pending>> /\ Trouble
        /\ due'[f] = due[f]
        /\ due'[Master] = due[Master] \/ (due[Master] = now /\ due'[Master] = now + FetchInterval)
    BY <1>t, <1>10 DEF GiveUp, Sleep
  <2>2. Setbacks' = Setbacks + L
    BY <2>1, SetbacksType
  <2>3. InTime(f, Since(f), m, s, p, due[f], due'[Master], Setbacks + L)
    BY <1>o, <1>s, <2>1, MasterSetback
  <2>. QED BY <1>s, <2>1, <2>2, <2>3
<1>11. CASE Restart(Master)
  <2>1. /\ UNCHANGED <<map, source, releasedAt>> /\ Trouble
        /\ m' = None /\ s' = s /\ p' = p /\ due'[f] = due[f] /\ due'[Master] = now
    BY <1>t, <1>11, NodesAssumption DEF Restart, PendingAfter
  <2>2. Setbacks' = Setbacks + L
    BY <2>1, SetbacksType
  <2>3. InTime(f, Since(f), None, s, p, due[f], now, Setbacks + L)
    BY <1>o, <1>s, <2>1, MasterRestarts
  <2>. QED BY <1>s, <2>1, <2>2, <2>3
<1>12. CASE Restart(f)
  <2>1. /\ UNCHANGED <<map, source, releasedAt>> /\ Trouble
        /\ m' = m /\ s' = None /\ p' = None /\ due'[f] = now /\ due'[Master] = due[Master]
    BY <1>t, <1>12 DEF Restart, PendingAfter
  <2>2. Setbacks' = Setbacks + L
    BY <2>1, SetbacksType
  <2>3. InTime(f, Since(f), m, None, None, now, due[Master], Setbacks + L)
    BY <1>o, <1>s, <2>1, FollowerRestarts
  <2>. QED BY <1>s, <2>1, <2>2, <2>3
<1>13. CASE Tick \/ MasterWakes \/ DeployNow \/ (\E n \in Nodes : Fetch(n)) \/ UNCHANGED vars
  BY <1>1, <1>13 DEF Tick, MasterWakes, DeployNow, Fetch, vars
<1>. QED BY <1>2, <1>3, <1>4, <1>5, <1>6, <1>7, <1>8, <1>9, <1>10, <1>11, <1>12, <1>13 DEF Next

(***************************************************************************)
(* From the release of a list, a follower that does not have it gets it or *)
(* a later one in less than one interval of the master, its delay and two  *)
(* polls, plus one interval for everything that goes wrong: for all        *)
(* intervals, delays and clocks, whatever is deployed in between.          *)
(***************************************************************************)
THEOREM ReleasesArriveInTime == Spec => []ReleasesArrive
<1>1. TypeOK /\ ClocksInv /\ ReleasedInv /\ DeadlineInv => ReleasesArrive
  <2> SUFFICES ASSUME TypeOK, ClocksInv, ReleasedInv, DeadlineInv, NEW f \in Followers, Outdated(f)
               PROVE  now - Since(f) < FetchInterval + Lag(f) + 2 * PollInterval + Setbacks
    BY DEF ReleasesArrive, Outdated, Since
  <2>1. /\ Moment(f, now, Since(f), validatedAt[Master], validatedAt[f], pending[f],
                  due[f], due[Master], Setbacks)
        /\ InTime(f, Since(f), validatedAt[Master], validatedAt[f], pending[f],
                  due[f], due[Master], Setbacks)
    BY NowOutdated, MomentNow DEF DeadlineInv
  <2>2. now <= Deadline(f, Since(f), Setbacks)
    BY <2>1, WakesInTime
  <2>. QED BY <2>1, <2>2, BoundType DEF Moment, NewsDue, Deadline, Lag
<1>. QED BY <1>1, InitDeadline, InitSoak, NextClocks, NextReleased, NextFetched, NextSoak,
            NextDeadline, TypeCorrect, PTL DEF Spec
=============================================================================
