--------------------------- MODULE StagedRollout ---------------------------
(***************************************************************************)
(* What a staged rollout promises, without messages, threads and failures: *)
(* a master puts a version in place before it announces it, a follower     *)
(* that has none takes any announced one, and a follower that has one      *)
(* changes it only for one that has been announced for its delay.  No node *)
(* ever loses what it has.                                                 *)
(***************************************************************************)
EXTENDS Integers

CONSTANTS
  Masters, Followers,
  Versions, Nothing,
  Delay,   \* stage delay of each follower
  MaxAge   \* BOUND: waiting is counted up to here, no delay is longer

VARIABLES
  copy,    \* what each node has in place
  waited   \* time since each version was first announced

Never == -1

Older(t) == IF t \in 0..(MaxAge - 1) THEN t + 1 ELSE t

Init ==
  /\ copy = [n \in Masters \cup Followers |-> Nothing]
  /\ waited = [v \in Versions |-> Never]

Time ==
  /\ waited' = [v \in Versions |-> Older(waited[v])]
  /\ UNCHANGED copy

Deploy(m, v) ==
  /\ copy' = [copy EXCEPT ![m] = v]
  /\ UNCHANGED waited

Announce(m, v) ==
  /\ copy[m] = v
  /\ waited[v] = Never
  /\ waited' = [waited EXCEPT ![v] = 0]
  /\ UNCHANGED copy

Adopt(f, v) ==
  /\ waited[v] # Never
  /\ copy[f] # Nothing => waited[v] >= Delay[f]
  /\ copy' = [copy EXCEPT ![f] = v]
  /\ UNCHANGED waited

(* Steps that change nothing are told first: TLC meets many of them. *)
Next ==
  /\ <<copy, waited>>' # <<copy, waited>>
  /\ \/ Time
     \/ \E v \in Versions :
          \/ \E m \in Masters : Deploy(m, v) \/ Announce(m, v)
          \/ \E f \in Followers : Adopt(f, v)

Spec == Init /\ [][Next]_<<copy, waited>>
=============================================================================
