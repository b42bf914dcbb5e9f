------------------------ MODULE ClusterHealthProofs ------------------------
(***************************************************************************)
(* Theorems about ClusterHealth, for any mesh, any length of the history   *)
(* and any number of rounds: what readers are told is what HealthReports   *)
(* promises.                                                               *)
(***************************************************************************)
EXTENDS ClusterHealth, SequenceTheorems, FiniteSetTheorems, TLAPS

(***************************************************************************)
(* Sequences that are written down as functions.                           *)
(***************************************************************************)
LEMMA TableIsSeq ==
  ASSUME NEW S, NEW k \in Nat, NEW f \in [1..k -> S]
  PROVE  f \in Seq(S) /\ Len(f) = k
<1>1. f \in Seq(S)
  BY SeqDef
<1> QED
  BY <1>1, LenProperties

LEMMA SameSeq ==
  ASSUME NEW S, NEW s \in Seq(S), NEW t \in Seq(S),
         Len(s) = Len(t), \A i \in 1..Len(s) : s[i] = t[i]
  PROVE  s = t
BY SeqEqual

LEMMA MeshLemma ==
  ASSUME NEW n \in Nodes
  PROVE  /\ Len(Mesh[n]) \in Nat
         /\ DOMAIN Mesh[n] = 1..Len(Mesh[n])
BY MeshAssumption, LenProperties

(***************************************************************************)
(* A deque of MaxHistory results holds, after one more, the newest ones.   *)
(***************************************************************************)
LEMMA PushType ==
  ASSUME NEW kept \in Seq(BOOLEAN), Len(kept) <= MaxHistory, NEW r \in BOOLEAN
  PROVE  /\ Push(kept, r) \in Seq(BOOLEAN)
         /\ Len(Push(kept, r)) <= MaxHistory
         /\ Len(Push(kept, r)) =
              IF Len(kept) < MaxHistory THEN Len(kept) + 1 ELSE MaxHistory
         /\ \A k \in 1..Len(Push(kept, r)) :
              Push(kept, r)[k] =
                IF k = Len(Push(kept, r)) THEN r
                ELSE IF Len(kept) < MaxHistory THEN kept[k] ELSE kept[k + 1]
<1>1. Len(kept) \in Nat /\ MaxHistory \in Nat \ {0}
  BY MeshAssumption, LenProperties
<1>2. CASE Len(kept) < MaxHistory
  <2>1. Push(kept, r) = Append(kept, r)
    BY <1>2 DEF Push
  <2> QED
    BY <2>1, <1>1, <1>2, AppendProperties
<1>3. CASE Len(kept) = MaxHistory
  <2>1. Push(kept, r) = Append(Tail(kept), r)
    BY <1>1, <1>3 DEF Push
  <2>2. /\ Tail(kept) \in Seq(BOOLEAN)
        /\ Len(Tail(kept)) = MaxHistory - 1
        /\ \A k \in 1..MaxHistory - 1 : Tail(kept)[k] = kept[k + 1]
    BY <1>1, <1>3, EmptySeq, HeadTailProperties
  <2>3. /\ Append(Tail(kept), r) \in Seq(BOOLEAN)
        /\ Len(Append(Tail(kept), r)) = MaxHistory
        /\ \A k \in 1..MaxHistory - 1 : Append(Tail(kept), r)[k] = Tail(kept)[k]
        /\ Append(Tail(kept), r)[MaxHistory] = r
    BY <2>2, <1>1, AppendProperties
  <2> QED
    BY <2>1, <2>2, <2>3, <1>1, <1>3
<1> QED
  BY <1>1, <1>2, <1>3


LEMMA KeptType ==
  ASSUME NEW l \in Seq(Seq(BOOLEAN)), NEW i \in Nat \ {0},
         \A r \in 1..Len(l) : i <= Len(l[r])
  PROVE  /\ Promise!Kept(l, i) \in Seq(BOOLEAN)
         /\ Len(Promise!Kept(l, i)) = IF Len(l) > MaxHistory THEN MaxHistory ELSE Len(l)
         /\ \A k \in 1..Len(Promise!Kept(l, i)) :
              Promise!Kept(l, i)[k] =
                IF Len(l) > MaxHistory THEN l[Len(l) - MaxHistory + k][i] ELSE l[k][i]
<1>1. Len(l) \in Nat /\ MaxHistory \in Nat \ {0}
  BY MeshAssumption, LenProperties
<1> DEFINE gone == IF Len(l) > MaxHistory THEN Len(l) - MaxHistory ELSE 0
           size == Len(l) - gone
<1>2. gone \in Nat /\ size \in Nat /\ size = IF Len(l) > MaxHistory THEN MaxHistory ELSE Len(l)
  BY <1>1
<1>3. Promise!Kept(l, i) = [k \in 1..size |-> l[gone + k][i]]
  BY DEF Promise!Kept
<1>4. \A k \in 1..size : l[gone + k][i] \in BOOLEAN
  <2> SUFFICES ASSUME NEW k \in 1..size PROVE l[gone + k][i] \in BOOLEAN
    OBVIOUS
  <2>1. gone + k \in 1..Len(l)
    BY <1>1, <1>2
  <2>2. l[gone + k] \in Seq(BOOLEAN)
    BY <2>1, ElementOfSeq
  <2>3. i \in 1..Len(l[gone + k])
    BY <2>1, <2>2, LenProperties
  <2> QED
    BY <2>2, <2>3, ElementOfSeq
<1> HIDE DEF gone, size
<1>5. Promise!Kept(l, i) \in [1..size -> BOOLEAN]
  BY <1>3, <1>4
<1>6. Promise!Kept(l, i) \in Seq(BOOLEAN) /\ Len(Promise!Kept(l, i)) = size
  BY <1>5, <1>2, TableIsSeq
<1>7. \A k \in 1..size : Promise!Kept(l, i)[k] = l[gone + k][i]
  BY <1>3
<1> QED
  BY <1>1, <1>2, <1>6, <1>7 DEF gone

LEMMA PushKeeps ==
  ASSUME NEW l \in Seq(Seq(BOOLEAN)), NEW i \in Nat \ {0},
         \A r \in 1..Len(l) : i <= Len(l[r]),
         NEW round \in Seq(BOOLEAN), i <= Len(round)
  PROVE  Promise!Kept(Append(l, round), i) = Push(Promise!Kept(l, i), round[i])
<1> DEFINE new == Append(l, round)
           old == Promise!Kept(l, i)
<1>1. Len(l) \in Nat /\ MaxHistory \in Nat \ {0} /\ round[i] \in BOOLEAN
  BY MeshAssumption, LenProperties, ElementOfSeq
<1>2. /\ new \in Seq(Seq(BOOLEAN))
      /\ Len(new) = Len(l) + 1
      /\ new[Len(l) + 1] = round
      /\ \A r \in 1..Len(l) : new[r] = l[r]
  BY <1>1, AppendProperties
<1>3. \A r \in 1..Len(new) : i <= Len(new[r])
  BY <1>1, <1>2
<1>4. /\ old \in Seq(BOOLEAN)
      /\ Len(old) = IF Len(l) > MaxHistory THEN MaxHistory ELSE Len(l)
      /\ \A k \in 1..Len(old) :
           old[k] = IF Len(l) > MaxHistory THEN l[Len(l) - MaxHistory + k][i] ELSE l[k][i]
  BY KeptType
<1> HIDE DEF new, old
<1>5. /\ Promise!Kept(new, i) \in Seq(BOOLEAN)
      /\ Len(Promise!Kept(new, i)) = IF Len(new) > MaxHistory THEN MaxHistory ELSE Len(new)
      /\ \A k \in 1..Len(Promise!Kept(new, i)) :
           Promise!Kept(new, i)[k] =
             IF Len(new) > MaxHistory THEN new[Len(new) - MaxHistory + k][i] ELSE new[k][i]
  BY <1>2, <1>3, KeptType
<1>6. /\ Push(old, round[i]) \in Seq(BOOLEAN)
      /\ Len(Push(old, round[i])) =
           IF Len(old) < MaxHistory THEN Len(old) + 1 ELSE MaxHistory
      /\ \A k \in 1..Len(Push(old, round[i])) :
           Push(old, round[i])[k] =
             IF k = Len(Push(old, round[i])) THEN round[i]
             ELSE IF Len(old) < MaxHistory THEN old[k] ELSE old[k + 1]
  <2>1. Len(old) <= MaxHistory
    BY <1>1, <1>4
  <2> QED
    BY <2>1, <1>1, <1>4, PushType
<1>7. Len(Promise!Kept(new, i)) = Len(Push(old, round[i]))
  BY <1>1, <1>2, <1>4, <1>5, <1>6
<1>8. \A k \in 1..Len(Promise!Kept(new, i)) :
        Promise!Kept(new, i)[k] = Push(old, round[i])[k]
  <2> SUFFICES ASSUME NEW k \in 1..Len(Promise!Kept(new, i))
               PROVE  Promise!Kept(new, i)[k] = Push(old, round[i])[k]
    OBVIOUS
  <2> DEFINE size == Len(Promise!Kept(new, i))
  <2>1. size = Len(Push(old, round[i])) /\ k \in 1..size
    BY <1>7
  <2>2. Promise!Kept(new, i)[k] =
          IF Len(new) > MaxHistory THEN new[Len(new) - MaxHistory + k][i] ELSE new[k][i]
    BY <1>5
  <2>3. Push(old, round[i])[k] =
          IF k = size THEN round[i]
          ELSE IF Len(old) < MaxHistory THEN old[k] ELSE old[k + 1]
    BY <1>6, <2>1
  <2>4. size \in Nat /\ size = IF Len(l) < MaxHistory THEN Len(l) + 1 ELSE MaxHistory
    BY <1>1, <1>2, <1>5
  <2> HIDE DEF size
  <2>8. Len(new) = Len(l) + 1
    BY <1>2
  <2>5. CASE k = size
    <3>1. Promise!Kept(new, i)[k] = new[Len(l) + 1][i]
      <4>1. Len(new) > MaxHistory => Len(new) - MaxHistory + k = Len(l) + 1
        <5> SUFFICES ASSUME Len(new) > MaxHistory
                     PROVE  Len(new) - MaxHistory + k = Len(l) + 1
          OBVIOUS
        <5>1. k = MaxHistory
          BY <2>4, <2>5, <2>8, <1>1
        <5> QED
          BY <5>1, <2>8, <1>1
      <4>2. ~(Len(new) > MaxHistory) => k = Len(l) + 1
        BY <2>4, <2>5, <2>8, <1>1
      <4> QED
        BY <4>1, <4>2, <2>2
    <3> QED
      BY <3>1, <2>3, <2>5, <1>2
  <2>6. CASE k # size /\ Len(l) < MaxHistory
    <3>1. k \in 1..Len(l)
      BY <2>1, <2>4, <2>6, <1>1
    <3>2. Promise!Kept(new, i)[k] = l[k][i]
      BY <3>1, <2>2, <2>6, <1>1, <1>2
    <3>3. Push(old, round[i])[k] = old[k] /\ old[k] = l[k][i]
      BY <3>1, <2>3, <2>6, <1>1, <1>4
    <3> QED
      BY <3>2, <3>3
  <2>7. CASE k # size /\ ~(Len(l) < MaxHistory)
    <3>1. k + 1 \in 1..MaxHistory /\ Len(l) + 1 - MaxHistory + k \in 1..Len(l)
      BY <2>1, <2>4, <2>7, <1>1
    <3>2. Promise!Kept(new, i)[k] = l[Len(l) + 1 - MaxHistory + k][i]
      <4>1. /\ Len(new) > MaxHistory
            /\ Len(new) - MaxHistory + k = Len(l) + 1 - MaxHistory + k
        BY <2>1, <2>7, <2>8, <1>1
      <4>2. Promise!Kept(new, i)[k] = new[Len(l) + 1 - MaxHistory + k][i]
        BY <4>1, <2>2
      <4> QED
        BY <4>2, <3>1, <1>2
    <3>3. Push(old, round[i])[k] = old[k + 1]
      <4>1. ~(Len(old) < MaxHistory)
        BY <2>7, <1>1, <1>4
      <4> QED
        BY <4>1, <2>3, <2>7
    <3>4. old[k + 1] = l[Len(l) + 1 - MaxHistory + k][i]
      <4>1. Len(old) = MaxHistory
        BY <2>7, <1>1, <1>4
      <4>2. old[k + 1] = IF Len(l) > MaxHistory THEN l[Len(l) - MaxHistory + (k + 1)][i]
                                                ELSE l[k + 1][i]
        BY <4>1, <3>1, <1>4
      <4>3. Len(l) - MaxHistory + (k + 1) = Len(l) + 1 - MaxHistory + k
        BY <1>1, <2>1
      <4>4. Len(l) = MaxHistory => k + 1 = Len(l) + 1 - MaxHistory + k
        BY <1>1, <2>1
      <4> QED
        BY <4>2, <4>3, <4>4, <2>7, <1>1
    <3> QED
      BY <3>2, <3>3, <3>4
  <2> QED
    BY <2>5, <2>6, <2>7
<1>9. Promise!Kept(new, i) = Push(old, round[i])
  BY <1>5, <1>6, <1>7, <1>8, SeqEqual
<1> QED
  BY <1>9 DEF new, old

-----------------------------------------------------------------------------
(***************************************************************************)
(* Types.  What the type invariant needs beside itself: an update has a    *)
(* whole round in hand, and only a process that may still probe does.      *)
(***************************************************************************)
Updating == {"stamp", "set", "append"}

RoundIsWhole(n) ==
  /\ prober[n] \in Updating => Len(batch[n]) = Len(Mesh[n])
  /\ prober[n] = "off" => log[n] = <<>>
  /\ prober[n] \in {"probe"} \cup Updating => Len(log[n]) < MaxRounds

AreFunctions ==
  /\ view = [n \in Nodes |-> view[n]]
  /\ report = [n \in Nodes |-> report[n]]

TypeInv == HealthTypeOK /\ AreFunctions /\ \A n \in Nodes : RoundIsWhole(n)

LEMMA FreshLemma ==
  ASSUME NEW n \in Nodes
  PROVE  /\ Fresh(n) \in Seq(Seq(BOOLEAN))
         /\ Len(Fresh(n)) = Len(Mesh[n])
         /\ \A i \in DOMAIN Mesh[n] : Fresh(n)[i] = <<>>
<1>1. Fresh(n) \in [1..Len(Mesh[n]) -> Seq(BOOLEAN)]
  BY MeshLemma, EmptySeq DEF Fresh
<1> QED
  BY <1>1, MeshLemma, TableIsSeq DEF Fresh

LEMMA InitTypeInv == HealthInit => TypeInv
<1> SUFFICES ASSUME HealthInit PROVE TypeInv
  OBVIOUS
<1> USE DEF HealthInit
<1>1. /\ MaxHistory \in Nat \ {0} /\ MaxRounds \in Nat \ {0}
      /\ \A n \in Nodes : Len(Mesh[n]) \in Nat
  BY MeshLemma, MeshAssumption, RoundsAssumption
<1>2. <<>> \in Seq(BOOLEAN) /\ <<>> \in Seq(Seq(BOOLEAN)) /\ Len(<<>>) = 0 /\ DOMAIN <<>> = {}
  OBVIOUS
<1>3. history \in [Nodes -> Seq(Seq(BOOLEAN))]
  BY FreshLemma
<1>4. \A n \in Nodes : Len(history[n]) = Len(Mesh[n])
                      /\ \A i \in DOMAIN Mesh[n] : Len(history[n][i]) <= MaxHistory
  BY FreshLemma, <1>1, <1>2
<1>5. HealthTypeOK
  BY <1>1, <1>2, <1>3, <1>4 DEF HealthTypeOK, ProberLabels
<1> QED
  BY <1>1, <1>2, <1>5 DEF TypeInv, AreFunctions, RoundIsWhole, Updating

(* One more result is a round that is one longer. *)
LEMMA ProbedLemma ==
  ASSUME TypeInv, NEW n \in Nodes, NEW reachable \in BOOLEAN, Probed(n, reachable)
  PROVE  TypeInv'
<1> USE DEF Probed, MoreToProbe, state
<1>1. /\ Len(batch[n]) \in Nat /\ Len(Mesh[n]) \in Nat /\ Len(batch[n]) < Len(Mesh[n])
      /\ batch[n] \in Seq(BOOLEAN)
  BY MeshLemma, LenProperties DEF TypeInv, HealthTypeOK
<1>2. /\ Append(batch[n], reachable) \in Seq(BOOLEAN)
      /\ Len(Append(batch[n], reachable)) = Len(batch[n]) + 1
  BY <1>1, AppendProperties
<1>3. HealthTypeOK'
  BY <1>1, <1>2 DEF TypeInv, HealthTypeOK
<1> QED
  BY <1>3 DEF TypeInv, AreFunctions, RoundIsWhole, Updating

(* The update of the deques. *)
LEMMA AppendsLemma ==
  ASSUME TypeInv, NEW n \in Nodes, UpdateAppends(n)
  PROVE  TypeInv'
<1> USE DEF UpdateAppends
<1>1. /\ batch[n] \in Seq(BOOLEAN) /\ Len(batch[n]) = Len(Mesh[n])
      /\ Len(Mesh[n]) \in Nat /\ DOMAIN Mesh[n] = 1..Len(Mesh[n])
      /\ history[n] \in Seq(Seq(BOOLEAN)) /\ Len(history[n]) = Len(Mesh[n])
      /\ log[n] \in Seq(Seq(BOOLEAN)) /\ Len(log[n]) < MaxRounds
  BY MeshLemma DEF TypeInv, HealthTypeOK, RoundIsWhole, Updating
<1>2. \A i \in DOMAIN Mesh[n] :
        /\ Push(history[n][i], batch[n][i]) \in Seq(BOOLEAN)
        /\ Len(Push(history[n][i], batch[n][i])) <= MaxHistory
  <2> SUFFICES ASSUME NEW i \in DOMAIN Mesh[n]
               PROVE  /\ Push(history[n][i], batch[n][i]) \in Seq(BOOLEAN)
                      /\ Len(Push(history[n][i], batch[n][i])) <= MaxHistory
    OBVIOUS
  <2>1. history[n][i] \in Seq(BOOLEAN) /\ batch[n][i] \in BOOLEAN
    BY <1>1, ElementOfSeq
  <2>2. Len(history[n][i]) <= MaxHistory
    BY DEF TypeInv, HealthTypeOK
  <2> QED
    BY <2>1, <2>2, PushType
<1>3. /\ history'[n] \in Seq(Seq(BOOLEAN)) /\ Len(history'[n]) = Len(Mesh[n])
      /\ \A i \in DOMAIN Mesh[n] : Len(history'[n][i]) <= MaxHistory
  <2>1. history'[n] = [i \in DOMAIN Mesh[n] |-> Push(history[n][i], batch[n][i])]
    BY DEF TypeInv, HealthTypeOK
  <2>2. history'[n] \in [1..Len(Mesh[n]) -> Seq(BOOLEAN)]
    BY <2>1, <1>1, <1>2
  <2> QED
    BY <2>1, <2>2, <1>1, <1>2, TableIsSeq
<1>4. /\ log'[n] \in Seq(Seq(BOOLEAN)) /\ Len(log'[n]) = Len(log[n]) + 1
      /\ \A r \in DOMAIN log'[n] : Len(log'[n][r]) = Len(Mesh[n])
  <2>1. log'[n] = Append(log[n], batch[n])
    BY DEF TypeInv, HealthTypeOK
  <2>2. /\ log'[n] \in Seq(Seq(BOOLEAN)) /\ Len(log'[n]) = Len(log[n]) + 1
        /\ \A r \in 1..Len(log[n]) : log'[n][r] = log[n][r]
        /\ log'[n][Len(log[n]) + 1] = batch[n]
    <3> DEFINE l == log[n]
               b == batch[n]
    <3>1. l \in Seq(Seq(BOOLEAN)) /\ b \in Seq(BOOLEAN)
      BY <1>1
    <3> HIDE DEF l, b
    <3>2. /\ Append(l, b) \in Seq(Seq(BOOLEAN)) /\ Len(Append(l, b)) = Len(l) + 1
          /\ \A r \in 1..Len(l) : Append(l, b)[r] = l[r]
          /\ Append(l, b)[Len(l) + 1] = b
      BY <3>1, AppendProperties
    <3> QED
      BY <2>1, <3>2 DEF l, b
  <2>3. Len(log[n]) \in Nat /\ DOMAIN log[n] = 1..Len(log[n])
        /\ DOMAIN log'[n] = 1..Len(log[n]) + 1
    BY <2>2, <1>1, LenProperties
  <2>4. \A r \in 1..Len(log[n]) : Len(log[n][r]) = Len(Mesh[n])
    BY <2>3 DEF TypeInv, HealthTypeOK
  <2>5. \A r \in DOMAIN log'[n] : Len(log'[n][r]) = Len(Mesh[n])
    <3> SUFFICES ASSUME NEW r \in 1..Len(log[n]) + 1 PROVE Len(log'[n][r]) = Len(Mesh[n])
      BY <2>3
    <3>1. CASE r = Len(log[n]) + 1
      BY <3>1, <2>2, <1>1
    <3>2. CASE r \in 1..Len(log[n])
      BY <3>2, <2>2, <2>4
    <3> QED
      BY <3>1, <3>2, <2>3
  <2> QED
    BY <2>2, <2>5
<1>5. \A m \in Nodes \ {n} : history'[m] = history[m] /\ log'[m] = log[m] /\ batch'[m] = batch[m]
  BY DEF TypeInv, HealthTypeOK
<1>6. batch' \in [Nodes -> Seq(BOOLEAN)] /\ batch'[n] = <<>> /\ Len(batch'[n]) = 0
  BY EmptySeq DEF TypeInv, HealthTypeOK
<1>7. history' \in [Nodes -> Seq(Seq(BOOLEAN))] /\ log' \in [Nodes -> Seq(Seq(BOOLEAN))]
  BY <1>3, <1>4 DEF TypeInv, HealthTypeOK
<1>8. Len(log'[n]) <= MaxRounds
  BY <1>1, <1>4, LenProperties, RoundsAssumption
<1>9. /\ prober' \in [Nodes -> ProberLabels] /\ prober'[n] = "sleep"
      /\ \A m \in Nodes \ {n} : prober'[m] = prober[m]
      /\ lock' \in [Nodes -> {"free", "prober", "reader"}]
  BY DEF TypeInv, HealthTypeOK, ProberLabels
<1>10. HealthTypeOK'
  <2> SUFFICES ASSUME NEW m \in Nodes
               PROVE  (/\ Len(batch[m]) <= Len(Mesh[m])
                       /\ Len(results[m]) \in {0, Len(Mesh[m])}
                       /\ Len(history[m]) = Len(Mesh[m])
                       /\ \A i \in DOMAIN Mesh[m] : Len(history[m][i]) <= MaxHistory
                       /\ \A r \in DOMAIN log[m] : Len(log[m][r]) = Len(Mesh[m])
                       /\ Len(log[m]) <= MaxRounds
                       /\ reading[m] = "no" => view[m] = <<>>)'
    BY <1>6, <1>7, <1>9 DEF TypeInv, HealthTypeOK
  <2>1. CASE m = n
    <3>1. /\ Len(results'[n]) \in {0, Len(Mesh[n])}
          /\ reading'[n] = "no" => view'[n] = <<>>
      BY DEF TypeInv, HealthTypeOK
    <3>2. Len(batch'[n]) <= Len(Mesh[n])
      BY <1>1, <1>6
    <3> QED
      BY <2>1, <3>1, <3>2, <1>3, <1>4, <1>8
  <2>2. CASE m # n
    BY <2>2, <1>5 DEF TypeInv, HealthTypeOK
  <2> QED
    BY <2>1, <2>2
<1> QED
  BY <1>5, <1>9, <1>10 DEF TypeInv, AreFunctions, RoundIsWhole, Updating

LEMMA LostLemma ==
  ASSUME TypeInv, NEW n \in Nodes, HealthLost(n)
  PROVE  TypeInv'
<1> USE DEF HealthLost
<1>1. <<>> \in Seq(BOOLEAN) /\ <<>> \in Seq(Seq(BOOLEAN)) /\ Len(<<>>) = 0 /\ DOMAIN <<>> = {}
  OBVIOUS
<1>2. MaxHistory \in Nat \ {0} /\ MaxRounds \in Nat \ {0} /\ Len(Mesh[n]) \in Nat
  BY MeshLemma, MeshAssumption, RoundsAssumption
<1>3. /\ history' \in [Nodes -> Seq(Seq(BOOLEAN))] /\ history'[n] = Fresh(n)
      /\ Len(history'[n]) = Len(Mesh[n])
      /\ \A i \in DOMAIN Mesh[n] : Len(history'[n][i]) <= MaxHistory
  BY <1>1, <1>2, FreshLemma DEF TypeInv, HealthTypeOK
<1>4. \A m \in Nodes \ {n} : /\ history'[m] = history[m] /\ log'[m] = log[m]
                            /\ batch'[m] = batch[m] /\ results'[m] = results[m]
                            /\ reading'[m] = reading[m] /\ view'[m] = view[m]
                            /\ prober'[m] = prober[m]
  BY DEF TypeInv, HealthTypeOK, AreFunctions
<1>5. /\ log'[n] = <<>> /\ batch'[n] = <<>> /\ results'[n] = <<>> /\ view'[n] = <<>>
      /\ prober'[n] = "off"
  BY DEF TypeInv, HealthTypeOK, AreFunctions
<1>6. HealthTypeOK'
  <2>1. /\ prober' \in [Nodes -> ProberLabels]
        /\ batch' \in [Nodes -> Seq(BOOLEAN)]
        /\ lastProbe' \in [Nodes -> Nat]
        /\ results' \in [Nodes -> Seq(BOOLEAN)]
        /\ lock' \in [Nodes -> {"free", "prober", "reader"}]
        /\ reading' \in [Nodes -> {"no"} \cup DOMAIN Parts]
        /\ log' \in [Nodes -> Seq(Seq(BOOLEAN))]
    BY <1>1 DEF TypeInv, HealthTypeOK, ProberLabels
  <2> SUFFICES ASSUME NEW m \in Nodes
               PROVE  (/\ Len(batch[m]) <= Len(Mesh[m])
                       /\ Len(results[m]) \in {0, Len(Mesh[m])}
                       /\ Len(history[m]) = Len(Mesh[m])
                       /\ \A i \in DOMAIN Mesh[m] : Len(history[m][i]) <= MaxHistory
                       /\ \A r \in DOMAIN log[m] : Len(log[m][r]) = Len(Mesh[m])
                       /\ Len(log[m]) <= MaxRounds
                       /\ reading[m] = "no" => view[m] = <<>>)'
    BY <2>1, <1>3 DEF HealthTypeOK
  <2>2. CASE m = n
    BY <2>2, <1>1, <1>2, <1>3, <1>5
  <2>3. CASE m # n
    BY <2>3, <1>4 DEF TypeInv, HealthTypeOK
  <2> QED
    BY <2>2, <2>3
<1>7. AreFunctions'
  BY DEF TypeInv, AreFunctions
<1> QED
  BY <1>1, <1>2, <1>4, <1>5, <1>6, <1>7 DEF TypeInv, RoundIsWhole, Updating

LEMMA StepTypeInv ==
  ASSUME TypeInv, [HealthNext]_health
  PROVE  TypeInv'
<1>1. CASE UNCHANGED health
  BY <1>1 DEF health, threads, state, TypeInv, HealthTypeOK, AreFunctions, RoundIsWhole
<1>2. ASSUME NEW n \in Nodes, ProberStarts(n) \/ ProberWakes(n) PROVE TypeInv'
  <2>1. MaxRounds \in Nat \ {0} /\ Len(<<>>) = 0
    BY RoundsAssumption
  <2>2. /\ prober' \in [Nodes -> ProberLabels]
        /\ prober'[n] = "off" => prober[n] = "off"
        /\ prober'[n] \in {"off", "probe"} /\ prober[n] \in {"off", "sleep"}
        /\ \A m \in Nodes \ {n} : prober'[m] = prober[m]
        /\ prober[n] = "sleep" => Len(log[n]) < MaxRounds
    BY <1>2 DEF ProberStarts, ProberWakes, TypeInv, HealthTypeOK, ProberLabels
  <2>3. UNCHANGED <<batch, lastProbe, results, history, lock, reading, view, report, log>>
    BY <1>2 DEF ProberStarts, ProberWakes, state
  <2>4. HealthTypeOK'
    BY <2>2, <2>3 DEF TypeInv, HealthTypeOK
  <2>5. \A m \in Nodes : RoundIsWhole(m)'
    BY <2>1, <2>2, <2>3 DEF TypeInv, RoundIsWhole, Updating
  <2> QED
    BY <2>3, <2>4, <2>5 DEF TypeInv, AreFunctions
<1>8. ASSUME NEW n \in Nodes, UpdateLocks(n) \/ UpdateStamps(n) PROVE TypeInv'
  <2>1. HealthTypeOK'
    <3>1. /\ prober' \in [Nodes -> ProberLabels]
          /\ lock' \in [Nodes -> {"free", "prober", "reader"}]
          /\ lastProbe' \in [Nodes -> Nat]
      <4>1. CASE UpdateLocks(n)
        BY <4>1 DEF UpdateLocks, TypeInv, HealthTypeOK, ProberLabels
      <4>2. CASE UpdateStamps(n)
        BY <4>2 DEF UpdateStamps, TypeInv, HealthTypeOK, ProberLabels
      <4> QED
        BY <1>8, <4>1, <4>2
    <3>2. UNCHANGED <<batch, results, history, reading, view, report, log>>
      BY <1>8 DEF UpdateLocks, UpdateStamps
    <3> QED
      BY <3>1, <3>2 DEF TypeInv, HealthTypeOK
  <2> QED
    BY <1>8, <2>1
    DEF UpdateLocks, UpdateStamps, RoundIsComplete, state, TypeInv, HealthTypeOK, AreFunctions,
        RoundIsWhole, Updating
<1>3. ASSUME NEW n \in Nodes, UpdateSets(n) PROVE TypeInv'
  BY <1>3 DEF UpdateSets, TypeInv, HealthTypeOK, ProberLabels, AreFunctions, RoundIsWhole, Updating
<1>4. ASSUME NEW n \in Nodes, NEW op \in DOMAIN Parts, ReadBegins(n, op) PROVE TypeInv'
  BY <1>4 DEF ReadBegins, TypeInv, HealthTypeOK, AreFunctions, RoundIsWhole
<1>5. ASSUME NEW n \in Nodes, ReadPart(n) PROVE TypeInv'
  BY <1>5 DEF ReadPart, state, TypeInv, HealthTypeOK, AreFunctions, RoundIsWhole
<1>6. ASSUME NEW n \in Nodes, ReadEnds(n) PROVE TypeInv'
  BY <1>6 DEF ReadEnds, TypeInv, HealthTypeOK, AreFunctions, RoundIsWhole
<1>7. ASSUME NEW n \in Nodes, ReportSent(n) PROVE TypeInv'
  BY <1>7 DEF ReportSent, threads, state, TypeInv, HealthTypeOK, AreFunctions, RoundIsWhole
<1> QED
  BY <1>1, <1>2, <1>3, <1>4, <1>5, <1>6, <1>7, <1>8, ProbedLemma, AppendsLemma, LostLemma
  DEF HealthNext, UpdateSteps, ReadSteps

(***************************************************************************)
(* No deque grows beyond MAX_HISTORY_PER_NODE, every round and every       *)
(* history has a place for each mesh node, and nothing is left of an       *)
(* answer when it has been composed (HealthTypeOK).                        *)
(***************************************************************************)
THEOREM HealthTypeCorrect == HealthSpec => []HealthTypeOK
<1>1. TypeInv => HealthTypeOK
  BY DEF TypeInv
<1> QED
  BY <1>1, InitTypeInv, StepTypeInv, PTL DEF HealthSpec

-----------------------------------------------------------------------------
(***************************************************************************)
(* The inductive invariant behind the reports.  The lock is held by who is *)
(* at the fields.  While nobody updates them they say what the rounds of   *)
(* the process say, and what a reader has read so far is the beginning of  *)
(* the answer that could be given now.                                     *)
(***************************************************************************)
LockIsHeld(n) ==
  /\ prober[n] \in Updating <=> lock[n] = "prober"
  /\ reading[n] # "no" <=> lock[n] = "reader"

StateIsOfLog(n) ==
  /\ lastProbe[n] = Len(log[n]) + (IF prober[n] \in {"set", "append"} THEN 1 ELSE 0)
  /\ results[n] = IF prober[n] = "append" THEN batch[n]
                  ELSE Promise!PartOf(n, log[n], "nodes")
  /\ \A i \in DOMAIN Mesh[n] : history[n][i] = Promise!Kept(log[n], i)

ViewIsOfNow(n) ==
  reading[n] # "no" =>
    LET parts == Promise!ReportOf(n, log[n], reading[n]).parts
    IN  \E k \in 0..Len(Parts[reading[n]]) : view[n] = SubSeq(parts, 1, k)

HealthInv ==
  /\ TypeInv
  /\ \A n \in Nodes : LockIsHeld(n) /\ StateIsOfLog(n) /\ ViewIsOfNow(n)

LEMMA PartsLemma ==
  ASSUME NEW op \in DOMAIN Parts
  PROVE  /\ Len(Parts[op]) \in Nat /\ DOMAIN Parts[op] = 1..Len(Parts[op])
         /\ \A p \in DOMAIN Parts[op] : Parts[op][p] \in {"last", "nodes", "summary"}
<1>1. CASE op = "cluster"
  <2>1. Parts[op] = <<"last", "nodes", "summary">>
    BY <1>1 DEF Parts, Promise!Parts
  <2> QED
    BY <2>1
<1>2. CASE op = "metrics"
  <2>1. Parts[op] = <<"nodes", "last">>
    BY <1>2 DEF Parts, Promise!Parts
  <2> QED
    BY <2>1
<1> QED
  BY <1>1, <1>2 DEF Parts, Promise!Parts

(* An answer has the parts of its operation, each told from the rounds. *)
LEMMA ReportLemma ==
  ASSUME NEW n \in Nodes, NEW l, NEW op \in DOMAIN Parts
  PROVE  /\ Promise!ReportOf(n, l, op) = [op |-> op, parts |-> Promise!ReportOf(n, l, op).parts]
         /\ Promise!ReportOf(n, l, op).parts =
              [p \in DOMAIN Parts[op] |-> Promise!PartOf(n, l, Parts[op][p])]
BY DEF Promise!ReportOf, Parts

LEMMA ReportIsSeq ==
  ASSUME NEW n \in Nodes, NEW l, NEW op \in DOMAIN Parts,
         NEW parts, parts = Promise!ReportOf(n, l, op).parts
  PROVE  /\ \E S : parts \in Seq(S) /\ \A p \in 1..Len(parts) : parts[p] \in S
         /\ Len(parts) = Len(Parts[op]) /\ DOMAIN Parts[op] = 1..Len(parts)
         /\ \A p \in 1..Len(parts) : parts[p] = Promise!PartOf(n, l, Parts[op][p])
<1>1. parts = [p \in 1..Len(Parts[op]) |-> Promise!PartOf(n, l, Parts[op][p])]
  BY ReportLemma, PartsLemma
<1> DEFINE S == {Promise!PartOf(n, l, Parts[op][p]) : p \in 1..Len(Parts[op])}
<1>2. parts \in [1..Len(Parts[op]) -> S]
  BY <1>1
<1> HIDE DEF S
<1>3. parts \in Seq(S) /\ Len(parts) = Len(Parts[op])
  BY <1>2, PartsLemma, TableIsSeq
<1>4. \A p \in 1..Len(parts) : parts[p] \in S
  BY <1>2, <1>3
<1>5. \A p \in 1..Len(parts) : parts[p] = Promise!PartOf(n, l, Parts[op][p])
  BY <1>1, <1>3
<1> QED
  BY <1>3, <1>4, <1>5, PartsLemma

(* What a reader finds in the fields while nobody updates them. *)
LEMMA PartNowLemma ==
  ASSUME NEW n \in Nodes, StateIsOfLog(n), prober[n] \notin Updating,
         NEW part \in {"last", "nodes", "summary"}, log \in [Nodes -> Seq(Seq(BOOLEAN))]
  PROVE  PartNow(n, part) = Promise!PartOf(n, log[n], part)
<1>1. Len(log[n]) \in Nat
  BY LenProperties
<1>2. CASE part = "last"
  BY <1>1, <1>2 DEF PartNow, Promise!PartOf, StateIsOfLog, Updating
<1>3. CASE part = "nodes"
  BY <1>3 DEF PartNow, StateIsOfLog, Updating, Promise!PartOf
<1>4. CASE part = "summary"
  <2>1. \A i \in DOMAIN Mesh[n] : Summary(history[n][i]) = Promise!Summary(Promise!Kept(log[n], i))
    BY DEF Summary, StateIsOfLog
  <2> QED
    BY <1>4, <2>1 DEF PartNow, Promise!PartOf
<1> QED
  BY <1>2, <1>3, <1>4

LEMMA ReadPartLemma ==
  ASSUME HealthInv, NEW n \in Nodes, ReadPart(n)
  PROVE  ViewIsOfNow(n)'
<1> DEFINE op == reading[n]
           parts == Promise!ReportOf(n, log[n], op).parts
<1>1. op \in DOMAIN Parts /\ op # "no" /\ reading' = reading /\ log' = log
  BY DEF HealthInv, TypeInv, HealthTypeOK, ReadPart, state
<1>2. prober[n] \notin Updating
  BY <1>1 DEF HealthInv, LockIsHeld
<1>3. PICK k \in 0..Len(Parts[op]) : view[n] = SubSeq(parts, 1, k)
  BY <1>1 DEF HealthInv, ViewIsOfNow
<1>4. PICK S : parts \in Seq(S) /\ \A p \in 1..Len(parts) : parts[p] \in S
  BY <1>1, ReportIsSeq
<1>5. /\ Len(parts) = Len(Parts[op]) /\ Len(parts) \in Nat
      /\ \A p \in 1..Len(parts) : parts[p] = Promise!PartOf(n, log[n], Parts[op][p])
  BY <1>1, <1>4, ReportIsSeq, PartsLemma
<1> HIDE DEF parts
<1>6. SubSeq(parts, 1, k) \in Seq(S) /\ Len(SubSeq(parts, 1, k)) = k
  <2>1. k \in Nat /\ k <= Len(parts)
    BY <1>3, <1>5
  <2>2. \A p \in 1..k : parts[p] \in S
    BY <2>1, <1>4, <1>5
  <2>3. /\ SubSeq(parts, 1, k) \in Seq(S)
        /\ Len(SubSeq(parts, 1, k)) = IF 1 <= k THEN k - 1 + 1 ELSE 0
    BY <2>1, <2>2, SubSeqProperties
  <2> QED
    BY <2>1, <2>3
<1>7. k < Len(parts) /\ view'[n] = Append(view[n], PartNow(n, Parts[op][k + 1]))
  BY <1>3, <1>5, <1>6 DEF ReadPart, HealthInv, TypeInv, AreFunctions
<1>8. k + 1 \in 1..Len(parts) /\ k + 1 \in DOMAIN Parts[op]
  BY <1>1, <1>5, <1>7, PartsLemma
<1>9. PartNow(n, Parts[op][k + 1]) = parts[k + 1]
  <2>1. Parts[op][k + 1] \in {"last", "nodes", "summary"}
    BY <1>1, <1>8, PartsLemma
  <2>2. StateIsOfLog(n) /\ log \in [Nodes -> Seq(Seq(BOOLEAN))]
    BY DEF HealthInv, TypeInv, HealthTypeOK
  <2> QED
    BY <2>1, <2>2, <1>2, <1>5, <1>8, PartNowLemma
<1>10. Append(SubSeq(parts, 1, k), parts[k + 1]) = SubSeq(parts, 1, k + 1)
  <2>1. SubSeq(parts, 1, k + 1) = SubSeq(parts, 1, (k + 1) - 1) \o <<parts[k + 1]>>
    BY <1>4, <1>8, SubSeqRecursiveSecond
  <2>2. (k + 1) - 1 = k
    BY <1>3
  <2>3. Append(SubSeq(parts, 1, k), parts[k + 1]) = SubSeq(parts, 1, k) \o <<parts[k + 1]>>
    BY <1>5, <1>6, <1>8, AppendIsConcat
  <2> QED
    BY <2>1, <2>2, <2>3
<1>11. view'[n] = SubSeq(parts, 1, k + 1) /\ k + 1 \in 0..Len(Parts[op])
  BY <1>3, <1>5, <1>7, <1>8, <1>9, <1>10
<1> QED
  BY <1>1, <1>11 DEF ViewIsOfNow, parts

LEMMA KeptNothing ==
  ASSUME NEW i \in Nat \ {0}
  PROVE  Promise!Kept(<<>>, i) = <<>>
<1>1. <<>> \in Seq(Seq(BOOLEAN)) /\ Len(<<>>) = 0 /\ MaxHistory \in Nat \ {0}
  BY MeshAssumption
<1>2. Promise!Kept(<<>>, i) \in Seq(BOOLEAN) /\ Len(Promise!Kept(<<>>, i)) = 0
  <2> DEFINE l == <<>>
  <2>1. l \in Seq(Seq(BOOLEAN)) /\ Len(l) = 0 /\ \A r \in 1..Len(l) : i <= Len(l[r])
    BY <1>1
  <2> HIDE DEF l
  <2>2. /\ Promise!Kept(l, i) \in Seq(BOOLEAN)
        /\ Len(Promise!Kept(l, i)) = IF Len(l) > MaxHistory THEN MaxHistory ELSE Len(l)
    BY <2>1, KeptType
  <2> QED
    BY <2>1, <2>2, <1>1 DEF l
<1> QED
  BY <1>2, EmptySeq

(* What holds of a process holds on while others do something. *)
PartInv(n) == LockIsHeld(n) /\ StateIsOfLog(n) /\ ViewIsOfNow(n)

SameAt(m) ==
  /\ prober'[m] = prober[m] /\ batch'[m] = batch[m] /\ lastProbe'[m] = lastProbe[m]
  /\ results'[m] = results[m] /\ history'[m] = history[m] /\ lock'[m] = lock[m]
  /\ reading'[m] = reading[m] /\ view'[m] = view[m] /\ log'[m] = log[m]

LEMMA SameAtLemma ==
  ASSUME NEW m \in Nodes, PartInv(m), SameAt(m)
  PROVE  PartInv(m)'
<1>1. LockIsHeld(m)'
  BY DEF PartInv, SameAt, LockIsHeld
<1>2. StateIsOfLog(m)'
  BY DEF PartInv, SameAt, StateIsOfLog
<1>3. ViewIsOfNow(m)'
  BY DEF PartInv, SameAt, ViewIsOfNow
<1> QED
  BY <1>1, <1>2, <1>3 DEF PartInv

HealthStep(n) ==
  \/ ProberStarts(n) \/ ProberWakes(n)
  \/ \E reachable \in BOOLEAN : Probed(n, reachable)
  \/ UpdateSteps(n)
  \/ \E op \in DOMAIN Parts : ReadBegins(n, op)
  \/ ReadSteps(n)
  \/ HealthLost(n)

LEMMA OthersLemma ==
  ASSUME TypeInv, NEW n \in Nodes, HealthStep(n), NEW m \in Nodes \ {n}
  PROVE  SameAt(m)
<1> USE DEF TypeInv, HealthTypeOK, AreFunctions, SameAt, threads, state
<1>1. CASE ProberStarts(n)
  BY <1>1 DEF ProberStarts
<1>2. CASE ProberWakes(n)
  BY <1>2 DEF ProberWakes
<1>3. CASE \E reachable \in BOOLEAN : Probed(n, reachable)
  BY <1>3 DEF Probed
<1>4. CASE UpdateLocks(n)
  BY <1>4 DEF UpdateLocks
<1>5. CASE UpdateStamps(n)
  BY <1>5 DEF UpdateStamps
<1>6. CASE UpdateSets(n)
  BY <1>6 DEF UpdateSets
<1>7. CASE UpdateAppends(n)
  BY <1>7 DEF UpdateAppends
<1>8. CASE \E op \in DOMAIN Parts : ReadBegins(n, op)
  BY <1>8 DEF ReadBegins
<1>9. CASE ReadPart(n)
  BY <1>9 DEF ReadPart
<1>10. CASE ReadEnds(n)
  BY <1>10 DEF ReadEnds
<1>11. CASE ReportSent(n)
  BY <1>11 DEF ReportSent
<1>12. CASE HealthLost(n)
  BY <1>12 DEF HealthLost
<1> QED
  BY <1>1, <1>2, <1>3, <1>4, <1>5, <1>6, <1>7, <1>8, <1>9, <1>10, <1>11, <1>12
  DEF HealthStep, UpdateSteps, ReadSteps

LEMMA EmptyPart ==
  ASSUME NEW n \in Nodes
  PROVE  /\ Promise!PartOf(n, <<>>, "nodes") = <<>>
         /\ \A i \in DOMAIN Mesh[n] : Fresh(n)[i] = Promise!Kept(<<>>, i)
<1>1. Promise!PartOf(n, <<>>, "nodes") = <<>>
  BY DEF Promise!PartOf
<1> QED
  BY <1>1, MeshLemma, FreshLemma, KeptNothing

LEMMA InitHealthInv == HealthInit => HealthInv
<1> SUFFICES ASSUME HealthInit, NEW n \in Nodes PROVE PartInv(n)
  BY InitTypeInv DEF HealthInv, PartInv
<1>1. LockIsHeld(n) /\ ViewIsOfNow(n)
  BY DEF HealthInit, LockIsHeld, ViewIsOfNow, Updating
<1>2. StateIsOfLog(n)
  BY EmptyPart DEF HealthInit, StateIsOfLog
<1> QED
  BY <1>1, <1>2 DEF PartInv

(* The end of an update: the fields say what the rounds say again. *)
LEMMA UpdatedLemma ==
  ASSUME HealthInv, NEW n \in Nodes, UpdateAppends(n)
  PROVE  PartInv(n)'
<1> USE DEF UpdateAppends
<1> DEFINE l == log[n]
           b == batch[n]
<1>1. /\ b \in Seq(BOOLEAN) /\ Len(b) = Len(Mesh[n])
      /\ l \in Seq(Seq(BOOLEAN)) /\ Len(l) \in Nat
      /\ \A r \in 1..Len(l) : Len(l[r]) = Len(Mesh[n])
      /\ Len(Mesh[n]) \in Nat /\ DOMAIN Mesh[n] = 1..Len(Mesh[n])
  BY MeshLemma, LenProperties DEF HealthInv, TypeInv, HealthTypeOK, RoundIsWhole, Updating
<1>2. log'[n] = Append(l, b)
  BY DEF HealthInv, TypeInv, HealthTypeOK
<1>3. LockIsHeld(n)'
  BY DEF HealthInv, TypeInv, HealthTypeOK, LockIsHeld, Updating
<1>4. ViewIsOfNow(n)'
  BY DEF HealthInv, LockIsHeld, Updating, ViewIsOfNow
<1>5. \A i \in DOMAIN Mesh[n] : history'[n][i] = Promise!Kept(log'[n], i)
  <2> SUFFICES ASSUME NEW i \in DOMAIN Mesh[n]
               PROVE  history'[n][i] = Promise!Kept(Append(l, b), i)
    BY <1>2
  <2>1. history'[n][i] = Push(history[n][i], b[i])
    BY DEF HealthInv, TypeInv, HealthTypeOK
  <2>2. history[n][i] = Promise!Kept(l, i)
    BY DEF HealthInv, StateIsOfLog
  <2> HIDE DEF l, b
  <2>3. /\ i \in Nat \ {0} /\ i <= Len(b)
        /\ \A r \in 1..Len(l) : i <= Len(l[r])
    BY <1>1
  <2>4. Promise!Kept(Append(l, b), i) = Push(Promise!Kept(l, i), b[i])
    BY <1>1, <2>3, PushKeeps
  <2> QED
    BY <2>1, <2>2, <2>4
<1>6. /\ lastProbe'[n] = lastProbe[n] /\ lastProbe[n] = Len(l) + 1
      /\ results'[n] = results[n] /\ results[n] = b
      /\ prober'[n] = "sleep"
  BY DEF HealthInv, TypeInv, HealthTypeOK, StateIsOfLog
<1> HIDE DEF l, b
<1>7. /\ Len(Append(l, b)) = Len(l) + 1
      /\ Append(l, b) # <<>> /\ Append(l, b)[Len(l) + 1] = b
  BY <1>1, AppendProperties
<1>8. Promise!PartOf(n, log'[n], "nodes") = b
  BY <1>2, <1>7 DEF Promise!PartOf
<1>9. StateIsOfLog(n)'
  <2>1. lastProbe'[n] = Len(log'[n])
                        + (IF prober'[n] \in {"set", "append"} THEN 1 ELSE 0)
    <3>1. Len(log'[n]) = Len(l) + 1 /\ Len(l) \in Nat
      BY <1>1, <1>2, <1>7
    <3>2. prober'[n] \notin {"set", "append"} /\ lastProbe'[n] = Len(l) + 1
      BY <1>6
    <3> QED
      BY <3>1, <3>2
  <2>2. results'[n] = IF prober'[n] = "append" THEN batch'[n]
                      ELSE Promise!PartOf(n, log'[n], "nodes")
    BY <1>6, <1>8
  <2> QED
    BY <2>1, <2>2, <1>5 DEF StateIsOfLog
<1> QED
  BY <1>3, <1>4, <1>9 DEF PartInv

LEMMA StepHealthInv ==
  ASSUME HealthInv, [HealthNext]_health
  PROVE  HealthInv'
<1>1. TypeInv'
  BY StepTypeInv DEF HealthInv
<1>2. ASSUME NEW m \in Nodes PROVE PartInv(m)'
  <2>1. PartInv(m)
    BY DEF HealthInv, PartInv
  <2>2. CASE UNCHANGED health
    BY <2>1, <2>2, SameAtLemma DEF health, threads, state, SameAt
  <2>3. ASSUME NEW n \in Nodes, HealthStep(n), m # n PROVE PartInv(m)'
    BY <2>1, <2>3, SameAtLemma, OthersLemma DEF HealthInv
  <2>4. ASSUME HealthStep(m) PROVE PartInv(m)'
    <3> USE DEF TypeInv, HealthTypeOK
    <3>1. LockIsHeld(m) /\ StateIsOfLog(m) /\ ViewIsOfNow(m) /\ TypeInv
      BY <2>1 DEF PartInv, HealthInv
    <3>2. CASE ProberStarts(m) \/ ProberWakes(m)
      <4>1. /\ prober[m] \in {"off", "sleep"} /\ prober'[m] \in {"off", "probe"}
            /\ UNCHANGED <<batch, lastProbe, results, history, lock, reading, view, log>>
        BY <3>1, <3>2 DEF ProberStarts, ProberWakes, state
      <4> QED
        BY <4>1, <3>1 DEF PartInv, LockIsHeld, StateIsOfLog, ViewIsOfNow, Updating
    <3>3. CASE \E reachable \in BOOLEAN : Probed(m, reachable)
      <4>1. /\ prober[m] = "probe"
            /\ UNCHANGED <<prober, lastProbe, results, history, lock, reading, view, log>>
        BY <3>3 DEF Probed, MoreToProbe, state
      <4> QED
        BY <4>1, <3>1 DEF PartInv, LockIsHeld, StateIsOfLog, ViewIsOfNow, Updating
    <3>4. CASE UpdateLocks(m)
      <4>1. /\ prober[m] = "probe" /\ prober'[m] = "stamp"
            /\ lock[m] = "free" /\ lock'[m] = "prober"
            /\ UNCHANGED <<batch, lastProbe, results, history, reading, view, log>>
        BY <3>1, <3>4 DEF UpdateLocks, RoundIsComplete
      <4> QED
        BY <4>1, <3>1 DEF PartInv, LockIsHeld, StateIsOfLog, ViewIsOfNow, Updating
    <3>5. CASE UpdateStamps(m)
      <4>1. /\ prober[m] = "stamp" /\ prober'[m] = "set"
            /\ lastProbe'[m] = lastProbe[m] + 1
            /\ UNCHANGED <<batch, results, history, lock, reading, view, log>>
        BY <3>1, <3>5 DEF UpdateStamps
      <4>2. Len(log[m]) \in Nat
        BY <3>1, LenProperties
      <4> QED
        BY <4>1, <4>2, <3>1 DEF PartInv, LockIsHeld, StateIsOfLog, ViewIsOfNow, Updating
    <3>6. CASE UpdateSets(m)
      <4>1. /\ prober[m] = "set" /\ prober'[m] = "append"
            /\ results'[m] = batch[m]
            /\ UNCHANGED <<batch, lastProbe, history, lock, reading, view, log>>
        BY <3>1, <3>6 DEF UpdateSets
      <4> QED
        BY <4>1, <3>1 DEF PartInv, LockIsHeld, StateIsOfLog, ViewIsOfNow, Updating
    <3>7. CASE UpdateAppends(m)
      BY <3>7, UpdatedLemma
    <3>8. CASE \E op \in DOMAIN Parts : ReadBegins(m, op)
      <4> PICK op \in DOMAIN Parts : ReadBegins(m, op)
        BY <3>8
      <4>1. /\ lock[m] = "free" /\ lock'[m] = "reader" /\ reading'[m] = op /\ reading[m] = "no"
            /\ UNCHANGED <<prober, batch, lastProbe, results, history, view, log>>
        BY <3>1 DEF ReadBegins
      <4>2. op # "no"
        BY DEF Parts, Promise!Parts
      <4>3. view[m] = <<>>
        BY <3>1, <4>1
      <4>4. ViewIsOfNow(m)'
        <5> DEFINE parts == Promise!ReportOf(m, log[m], op).parts
        <5>1. 0 \in 0..Len(Parts[op]) /\ SubSeq(parts, 1, 0) = <<>>
          BY PartsLemma, SubSeqEmpty
        <5>2. view'[m] = SubSeq(parts, 1, 0)
          BY <5>1, <4>1, <4>3
        <5> QED
          BY <5>1, <5>2, <4>1 DEF ViewIsOfNow
      <4>5. LockIsHeld(m)'
        BY <4>1, <4>2, <3>1 DEF LockIsHeld
      <4>6. StateIsOfLog(m)'
        BY <4>1, <3>1 DEF StateIsOfLog
      <4> QED
        BY <4>4, <4>5, <4>6 DEF PartInv
    <3>9. CASE ReadPart(m)
      <4>1. UNCHANGED <<prober, batch, lastProbe, results, history, lock, reading, log>>
        BY <3>9 DEF ReadPart, state
      <4>2. LockIsHeld(m)' /\ StateIsOfLog(m)'
        BY <4>1, <3>1 DEF LockIsHeld, StateIsOfLog
      <4> QED
        BY <4>2, <3>9, ReadPartLemma DEF PartInv
    <3>10. CASE ReadEnds(m)
      <4>1. /\ reading[m] # "no" /\ reading'[m] = "no" /\ lock'[m] = "free"
            /\ UNCHANGED <<prober, batch, lastProbe, results, history, log>>
        BY <3>1, <3>10 DEF ReadEnds
      <4> QED
        BY <4>1, <3>1 DEF PartInv, LockIsHeld, StateIsOfLog, ViewIsOfNow
    <3>11. CASE ReportSent(m)
      <4>1. SameAt(m)
        BY <3>11 DEF ReportSent, threads, state, SameAt
      <4> QED
        BY <4>1, <2>1, SameAtLemma
    <3>12. CASE HealthLost(m)
      <4>1. /\ prober'[m] = "off" /\ lastProbe'[m] = 0 /\ results'[m] = <<>>
            /\ history'[m] = Fresh(m) /\ lock'[m] = "free" /\ reading'[m] = "no"
            /\ log'[m] = <<>>
        BY <3>1, <3>12 DEF HealthLost
      <4>2. LockIsHeld(m)' /\ ViewIsOfNow(m)'
        BY <4>1 DEF LockIsHeld, ViewIsOfNow, Updating
      <4>3. StateIsOfLog(m)'
        BY <4>1, EmptyPart DEF StateIsOfLog
      <4> QED
        BY <4>2, <4>3 DEF PartInv
    <3> QED
      BY <2>4, <3>2, <3>3, <3>4, <3>5, <3>6, <3>7, <3>8, <3>9, <3>10, <3>11, <3>12
      DEF HealthStep, UpdateSteps, ReadSteps
  <2> QED
    BY <2>2, <2>3, <2>4 DEF HealthNext, HealthStep
<1> QED
  BY <1>1, <1>2 DEF HealthInv, PartInv

-----------------------------------------------------------------------------
(* The answer that a reader has composed is the one of this moment. *)
LEMMA AnswerLemma ==
  ASSUME HealthInv, NEW n \in Nodes, ReadEnds(n)
  PROVE  Promise!Answer(n)
<1> DEFINE op == reading[n]
           parts == Promise!ReportOf(n, log[n], op).parts
<1>1. op \in DOMAIN Parts /\ op # "no" /\ log' = log
  BY DEF HealthInv, TypeInv, HealthTypeOK, ReadEnds
<1>2. PICK k \in 0..Len(Parts[op]) : view[n] = SubSeq(parts, 1, k)
  BY <1>1 DEF HealthInv, ViewIsOfNow
<1>3. PICK S : parts \in Seq(S) /\ \A p \in 1..Len(parts) : parts[p] \in S
  BY <1>1, ReportIsSeq
<1>4. Len(parts) = Len(Parts[op]) /\ Len(parts) \in Nat
  BY <1>1, ReportIsSeq, PartsLemma
<1> HIDE DEF parts
<1>5. Len(view[n]) = k
  <2>1. k \in Nat /\ \A p \in 1..k : parts[p] \in S
    BY <1>2, <1>3, <1>4
  <2>2. Len(SubSeq(parts, 1, k)) = IF 1 <= k THEN k - 1 + 1 ELSE 0
    BY <2>1, SubSeqProperties
  <2> QED
    BY <2>1, <2>2, <1>2
<1>6. view[n] = parts
  <2>1. k = Len(parts)
    BY <1>4, <1>5 DEF ReadEnds
  <2> QED
    BY <2>1, <1>2, <1>3, SubSeqFull
<1>7. [op |-> op, parts |-> view[n]] = Promise!ReportOf(n, log[n], op)
  <2>1. parts = Promise!ReportOf(n, log[n], op).parts
    BY DEF parts
  <2> HIDE DEF op
  <2>2. Promise!ReportOf(n, log[n], op)
          = [op |-> op, parts |-> Promise!ReportOf(n, log[n], op).parts]
    BY <1>1, ReportLemma
  <2> QED
    BY <2>1, <2>2, <1>6
<1>8. report' = [report EXCEPT ![n] = Promise!ReportOf(n, log[n], op)]
  BY <1>7 DEF ReadEnds
<1> QED
  BY <1>1, <1>8 DEF Promise!Answer, Parts

LEMMA StepRefines ==
  ASSUME HealthInv, [HealthNext]_health
  PROVE  [Promise!Next]_<<log, report>>
<1> SUFFICES ASSUME <<log, report>>' # <<log, report>>
             PROVE  \E n \in Nodes : \/ Promise!Probe(n) \/ Promise!Answer(n)
                                    \/ Promise!Sent(n) \/ Promise!Forget(n)
  BY DEF Promise!Next
<1>1. PICK n \in Nodes : UpdateAppends(n) \/ ReadEnds(n) \/ ReportSent(n) \/ HealthLost(n)
  BY DEF HealthNext, UpdateSteps, ReadSteps, health, threads, state, ProberStarts, ProberWakes,
         Probed, UpdateLocks, UpdateStamps, UpdateSets, ReadBegins, ReadPart
<1>2. CASE UpdateAppends(n)
  <2>1. batch[n] \in [DOMAIN Mesh[n] -> BOOLEAN]
    <3>1. /\ batch[n] \in Seq(BOOLEAN) /\ Len(batch[n]) = Len(Mesh[n])
          /\ DOMAIN Mesh[n] = 1..Len(Mesh[n])
      BY <1>2, MeshLemma
      DEF UpdateAppends, HealthInv, TypeInv, HealthTypeOK, RoundIsWhole, Updating
    <3> QED
      BY <3>1, LenProperties
  <2>2. log' = [log EXCEPT ![n] = Append(@, batch[n])] /\ UNCHANGED report
    BY <1>2 DEF UpdateAppends
  <2> QED
    BY <2>1, <2>2 DEF Promise!Probe
<1>3. CASE ReadEnds(n)
  BY <1>3, AnswerLemma
<1>4. CASE ReportSent(n)
  BY <1>4 DEF ReportSent, Promise!Sent, Promise!NoReport
<1>5. CASE HealthLost(n)
  BY <1>5 DEF HealthLost, Promise!Forget, Promise!NoReport
<1> QED
  BY <1>1, <1>2, <1>3, <1>4, <1>5

(***************************************************************************)
(* Every answer to GET /cluster and GET /metrics is the one that could be  *)
(* given at one moment between two rounds: the two threads with their lock *)
(* and their bounded deques implement HealthReports, for any mesh and any  *)
(* length of the history.                                                  *)
(***************************************************************************)
THEOREM ReportsAreOfOneMoment == HealthSpec => ReportsAreSnapshots
<1>1. HealthInit => Promise!Init
  BY DEF HealthInit, Promise!Init, Promise!NoReport
<1> QED
  BY <1>1, InitHealthInv, StepHealthInv, StepRefines, PTL
  DEF HealthSpec, ReportsAreSnapshots, Promise!Spec

-----------------------------------------------------------------------------
(***************************************************************************)
(* What consecutive_failures counts: the positions from which on all       *)
(* results are failures are the last ones, as many as there are.  Counted  *)
(* without induction: one position more or less on either side would be an *)
(* interval of another size.                                               *)
(***************************************************************************)
Failing(kept, k) == \A j \in k..Len(kept) : ~kept[j]

LEMMA OutageLemma ==
  ASSUME NEW kept \in Seq(BOOLEAN),
         NEW c, c = Cardinality({k \in DOMAIN kept : Failing(kept, k)})
  PROVE  /\ c \in 0..Len(kept)
         /\ \A k \in 1..Len(kept) : k > Len(kept) - c => ~kept[k]
         /\ c # Len(kept) => kept[Len(kept) - c]
<1> DEFINE L == Len(kept)
           S == {k \in 1..L : Failing(kept, k)}
<1>1. L \in Nat /\ DOMAIN kept = 1..L /\ \A k \in 1..L : kept[k] \in BOOLEAN
  BY LenProperties
<1>2. c = Cardinality(S)
  BY <1>1
<1>a. L \in Nat
  BY <1>1
<1>3. IsFiniteSet(1..L) /\ Cardinality(1..L) = L
  <2> HIDE DEF L
  <2>1. 1 \in Int /\ L \in Int /\ (1 > L => L = 0) /\ L - 1 + 1 = L
    BY <1>a
  <2> QED
    BY <2>1, FS_Interval
<1>4. c \in Nat /\ c <= L
  BY <1>2, <1>3, FS_Subset, FS_CardinalityType
<1>5. ASSUME NEW k \in S PROVE L - k + 1 <= c
  <2>1. k \in 1..L /\ \A j \in k..L : ~kept[j]
    BY DEF Failing
  <2>2. k..L \subseteq S
    BY <1>1, <2>1 DEF Failing
  <2>3. IsFiniteSet(S)
    BY <1>3, FS_Subset
  <2>4. Cardinality(k..L) <= c
    BY <1>2, <2>2, <2>3, FS_Subset
  <2>5. Cardinality(k..L) = L - k + 1
    BY <1>1, <2>1, FS_Interval
  <2> QED
    BY <2>4, <2>5
<1>6. ASSUME NEW k \in 1..L, k \notin S PROVE c <= L - k
  <2>1. PICK j \in k..L : kept[j]
    BY <1>6 DEF Failing
  <2>2. S \subseteq (k + 1)..L
    <3> SUFFICES ASSUME NEW i \in S, i <= k PROVE FALSE
      BY <1>1
    <3>1. j \in i..L /\ i \in 1..L
      BY <1>1, <2>1
    <3> QED
      BY <3>1, <2>1 DEF Failing
  <2>3. IsFiniteSet((k + 1)..L) /\ Cardinality((k + 1)..L) = L - k
    <3> HIDE DEF L
    <3>1. k + 1 \in Int /\ L \in Int /\ (k + 1 > L => L - k = 0) /\ L - (k + 1) + 1 = L - k
      BY <1>a
    <3> QED
      BY <3>1, FS_Interval
  <2> QED
    BY <1>2, <2>2, <2>3, FS_Subset
<1>7. ASSUME NEW k \in 1..L, k > L - c PROVE ~kept[k]
  <2>1. k \in S
    BY <1>1, <1>4, <1>6, <1>7
  <2> QED
    BY <1>1, <2>1 DEF Failing
<1>8. ASSUME c # L PROVE kept[L - c]
  <2>1. L - c \in 1..L
    BY <1>1, <1>4, <1>8
  <2>2. L - c \notin S
    BY <1>1, <1>4, <1>5, <2>1
  <2>3. PICK j \in (L - c)..L : kept[j]
    BY <2>1, <2>2 DEF Failing
  <2>4. j = L - c
    BY <1>1, <1>4, <1>7, <2>1, <2>3
  <2> QED
    BY <2>3, <2>4
<1> QED
  BY <1>1, <1>4, <1>7, <1>8

(* The outage that an answer over the rounds of l tells of the i-th node.  *)
LogOfRounds(l, n) ==
  /\ l \in Seq(Seq(BOOLEAN))
  /\ \A r \in 1..Len(l) : Len(l[r]) = Len(Mesh[n])

IsOutage(l, i, last, outage) ==
  /\ last \in 0..Len(l) /\ outage \in 0..last
  /\ \A r \in (last - outage + 1)..last : ~l[r][i]
  /\ outage \in {MaxHistory, last} \/ l[last - outage][i]

LEMMA SummaryLemma ==
  ASSUME NEW n \in Nodes, NEW l, LogOfRounds(l, n), NEW i \in DOMAIN Mesh[n]
  PROVE  IsOutage(l, i, Len(l), Promise!Summary(Promise!Kept(l, i)).consecutive_failures)
<1> DEFINE kept == Promise!Kept(l, i)
           c == Promise!Summary(kept).consecutive_failures
           gone == IF Len(l) > MaxHistory THEN Len(l) - MaxHistory ELSE 0
<1>1. Len(l) \in Nat /\ MaxHistory \in Nat \ {0} /\ i \in Nat \ {0}
  BY MeshAssumption, MeshLemma, LenProperties DEF LogOfRounds
<1>2. /\ kept \in Seq(BOOLEAN)
      /\ Len(kept) = Len(l) - gone
      /\ \A k \in 1..Len(kept) : kept[k] = l[gone + k][i]
  <2>1. \A r \in 1..Len(l) : i <= Len(l[r])
    BY MeshLemma DEF LogOfRounds
  <2>2. /\ kept \in Seq(BOOLEAN)
        /\ Len(kept) = IF Len(l) > MaxHistory THEN MaxHistory ELSE Len(l)
        /\ \A k \in 1..Len(kept) :
             kept[k] = IF Len(l) > MaxHistory THEN l[Len(l) - MaxHistory + k][i] ELSE l[k][i]
    BY <1>1, <2>1, KeptType DEF LogOfRounds
  <2> HIDE DEF kept
  <2> QED
    BY <1>1, <2>2
<1>3. c = Cardinality({k \in DOMAIN kept : Failing(kept, k)})
  <2>1. c = Promise!Cardinality({k \in DOMAIN kept : Failing(kept, k)})
    BY DEF Promise!Summary, Failing
  <2> HIDE DEF kept, c
  <2>2. \A S : Promise!Cardinality(S) = Cardinality(S)
    BY DEF Promise!Cardinality, Cardinality
  <2> QED
    BY <2>1, <2>2
<1> HIDE DEF kept, c
<1>4. /\ c \in 0..Len(kept)
      /\ \A k \in 1..Len(kept) : k > Len(kept) - c => ~kept[k]
      /\ c # Len(kept) => kept[Len(kept) - c]
  BY <1>2, <1>3, OutageLemma
<1>5. gone \in 0..Len(l) /\ Len(kept) \in 0..Len(l) /\ (gone = 0 \/ Len(kept) = MaxHistory)
  BY <1>1, <1>2
<1>6. ASSUME NEW r \in (Len(l) - c + 1)..Len(l) PROVE ~l[r][i]
  <2>1. r - gone \in 1..Len(kept) /\ r - gone > Len(kept) - c /\ gone + (r - gone) = r
    BY <1>1, <1>2, <1>4, <1>5
  <2> HIDE DEF gone
  <2> QED
    BY <1>2, <1>4, <2>1
<1>7. ASSUME c \notin {MaxHistory, Len(l)} PROVE l[Len(l) - c][i]
  <2>1. c # Len(kept)
    BY <1>1, <1>2, <1>5, <1>7
  <2>2. Len(kept) - c \in 1..Len(kept) /\ gone + (Len(kept) - c) = Len(l) - c
    BY <1>1, <1>2, <1>4, <1>5, <2>1
  <2> HIDE DEF gone
  <2> QED
    BY <1>2, <1>4, <2>1, <2>2
<1>8. c \in 0..Len(l) /\ Len(l) \in 0..Len(l)
  BY <1>1, <1>4, <1>5
<1> QED
  BY <1>6, <1>7, <1>8 DEF IsOutage, c, kept

(***************************************************************************)
(* OutagesAreExact is inductive for the steps of HealthReports once the    *)
(* numbers in the answer are known to be in range.                         *)
(***************************************************************************)
OutageInv ==
  \A n \in Nodes : report[n] # Promise!NoReport /\ report[n].op = "cluster" =>
    \A i \in DOMAIN Mesh[n] :
      IsOutage(log[n], i, report[n].parts[1], report[n].parts[3][i].consecutive_failures)

LEMMA IsOutageLater ==
  ASSUME NEW n \in Nodes, NEW l \in Seq(Seq(BOOLEAN)), NEW round \in Seq(BOOLEAN), NEW i,
         NEW last, NEW outage, IsOutage(l, i, last, outage)
  PROVE  IsOutage(Append(l, round), i, last, outage)
<1>1. /\ Len(l) \in Nat /\ Len(Append(l, round)) = Len(l) + 1
      /\ \A r \in 1..Len(l) : Append(l, round)[r] = l[r]
  BY LenProperties, AppendProperties
<1>2. last \in 0..Len(l) /\ outage \in 0..last /\ MaxHistory \in Nat \ {0}
  BY MeshAssumption DEF IsOutage
<1>3. \A r \in (last - outage + 1)..last : r \in 1..Len(l)
  BY <1>1, <1>2
<1>4. outage # last => last - outage \in 1..Len(l)
  BY <1>1, <1>2
<1> QED
  BY <1>1, <1>2, <1>3, <1>4 DEF IsOutage

LEMMA ClusterReport ==
  ASSUME NEW n \in Nodes, NEW l, LogOfRounds(l, n), NEW i \in DOMAIN Mesh[n],
         NEW op \in DOMAIN Parts, NEW answer, answer = Promise!ReportOf(n, l, op),
         answer.op = "cluster"
  PROVE  IsOutage(l, i, answer.parts[1], answer.parts[3][i].consecutive_failures)
<1>a. /\ answer = [op |-> op, parts |-> answer.parts]
      /\ answer.parts = [p \in DOMAIN Parts[op] |-> Promise!PartOf(n, l, Parts[op][p])]
  BY ReportLemma
<1>1. op = "cluster" /\ Parts[op] = <<"last", "nodes", "summary">>
  <2>1. op = "cluster"
    BY <1>a
  <2> QED
    BY <2>1 DEF Parts, Promise!Parts
<1>2. /\ answer.parts[1] = Promise!PartOf(n, l, "last")
      /\ answer.parts[3] = Promise!PartOf(n, l, "summary")
  BY <1>1, <1>a
<1>3. /\ answer.parts[1] = Len(l)
      /\ answer.parts[3][i] = Promise!Summary(Promise!Kept(l, i))
  BY <1>2 DEF Promise!PartOf
<1> QED
  BY <1>3, SummaryLemma

LEMMA RoundsLemma ==
  ASSUME HealthTypeOK, NEW n \in Nodes
  PROVE  LogOfRounds(log[n], n)
<1>1. log[n] \in Seq(Seq(BOOLEAN)) /\ \A r \in DOMAIN log[n] : Len(log[n][r]) = Len(Mesh[n])
  BY DEF HealthTypeOK
<1> QED
  BY <1>1, LenProperties DEF LogOfRounds

LEMMA StepOutageInv ==
  ASSUME OutageInv, TypeInv, [Promise!Next]_<<log, report>>
  PROVE  OutageInv'
<1> SUFFICES ASSUME NEW n \in Nodes, report'[n] # Promise!NoReport, report'[n].op = "cluster",
                    NEW i \in DOMAIN Mesh[n]
             PROVE  IsOutage(log'[n], i, report'[n].parts[1],
                             report'[n].parts[3][i].consecutive_failures)
  BY DEF OutageInv, IsOutage, Promise!NoReport
<1> DEFINE last == report[n].parts[1]
           outage == report[n].parts[3][i].consecutive_failures
<1>0. HealthTypeOK /\ report = [o \in Nodes |-> report[o]] /\ log \in [Nodes -> Seq(Seq(BOOLEAN))]
  BY DEF TypeInv, AreFunctions, HealthTypeOK
<1>1. CASE report'[n] = report[n] /\ log'[n] = log[n]
  BY <1>1 DEF OutageInv
<1>2. ASSUME NEW o \in Nodes, Promise!Probe(o)
      PROVE  IsOutage(log'[n], i, report'[n].parts[1],
                      report'[n].parts[3][i].consecutive_failures)
  <2>1. CASE o # n
    BY <1>0, <1>1, <1>2, <2>1 DEF Promise!Probe
  <2>2. CASE o = n
    <3>1. PICK round \in [DOMAIN Mesh[n] -> BOOLEAN] : log'[n] = Append(log[n], round)
      BY <1>0, <1>2, <2>2 DEF Promise!Probe
    <3>2. round \in Seq(BOOLEAN)
      BY <3>1, MeshLemma, TableIsSeq
    <3>3. report'[n] = report[n]
      BY <1>2 DEF Promise!Probe
    <3>4. IsOutage(log[n], i, last, outage)
      BY <3>3 DEF OutageInv
    <3> HIDE DEF last, outage
    <3>5. IsOutage(Append(log[n], round), i, last, outage)
      BY <1>0, <3>2, <3>4, IsOutageLater
    <3> QED
      BY <3>1, <3>3, <3>5 DEF last, outage
  <2> QED
    BY <2>1, <2>2
<1>3. ASSUME NEW o \in Nodes, Promise!Answer(o)
      PROVE  IsOutage(log'[n], i, report'[n].parts[1],
                      report'[n].parts[3][i].consecutive_failures)
  <2>1. CASE o # n
    BY <1>0, <1>1, <1>3, <2>1 DEF Promise!Answer
  <2>2. CASE o = n
    <3>1. PICK op \in DOMAIN Parts : report'[n] = Promise!ReportOf(n, log[n], op)
      BY <1>0, <1>3, <2>2 DEF Promise!Answer, Parts
    <3>2. LogOfRounds(log[n], n) /\ log' = log
      BY <1>0, <1>3, RoundsLemma DEF Promise!Answer
    <3> QED
      BY <3>1, <3>2, ClusterReport
  <2> QED
    BY <2>1, <2>2
<1>4. ASSUME NEW o \in Nodes, Promise!Sent(o) \/ Promise!Forget(o)
      PROVE  IsOutage(log'[n], i, report'[n].parts[1],
                      report'[n].parts[3][i].consecutive_failures)
  <2>1. o # n
    BY <1>0, <1>4 DEF Promise!Sent, Promise!Forget
  <2> QED
    BY <1>0, <1>1, <1>4, <2>1 DEF Promise!Sent, Promise!Forget
<1> QED
  BY <1>1, <1>2, <1>3, <1>4 DEF Promise!Next

(***************************************************************************)
(* The outages that /cluster tells are those that the rounds saw, for any  *)
(* mesh and any length of the history.                                     *)
(***************************************************************************)
THEOREM OutagesAreOfRounds == HealthSpec => []OutagesAreExact
<1>1. HealthInit => OutageInv
  BY DEF HealthInit, OutageInv, Promise!NoReport
<1>2. HealthInv => TypeInv
  BY DEF HealthInv
<1>3. OutageInv => OutagesAreExact
  BY DEF OutageInv, OutagesAreExact, IsOutage
<1> QED
  BY <1>1, <1>2, <1>3, InitHealthInv, StepHealthInv, StepRefines, StepOutageInv, PTL
  DEF HealthSpec
=============================================================================
