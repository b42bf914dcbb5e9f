--------------------------------- MODULE Quotas ---------------------------------
(***************************************************************************)
(* What the edge promises about limits, whatever its rules look like: a    *)
(* request is held against a list of quotas, stage by stage.  The first    *)
(* quota that it exceeds refuses it, and the stages behind that one never  *)
(* learn of the request.                                                   *)
(***************************************************************************)
EXTENDS RateWindows, Sequences

CONSTANTS
  Quota,   \* what is limited: a client on a route, a mail address, a backend
  Limit,   \* requests per period of each
  Period,  \* its period
  Charges  \* for each request that exists: the quotas of every stage

VARIABLES
  used,    \* the requests that were held against a quota
  granted  \* those of its running period that no quota refused

Init ==
  /\ used = [q \in Quota |-> NoEntry]
  /\ granted = [q \in Quota |-> 0]

Exceeded(q) == Rate(With(used[q]), Period[q]) > Limit[q]

(* The stages whose quotas refuse, and the quotas up to the first of them. *)
Refusing(stages) ==
  {i \in DOMAIN stages : \E q \in stages[i] : Exceeded(q)}

Consulted(stages, refusing) ==
  UNION {stages[i] : i \in {j \in DOMAIN stages : \A k \in refusing : j <= k}}

Ask(stages) ==
  LET refusing == Refusing(stages)
      seen == Consulted(stages, refusing)
  IN  /\ used' = [q \in Quota |-> IF q \in seen THEN With(used[q]) ELSE used[q]]
      /\ granted' = [q \in Quota |->
           granted[q] + (IF refusing = {} /\ q \in seen THEN 1 ELSE 0)]

Tick ==
  /\ used' = [q \in Quota |-> Aged(used[q], Period[q])]
  /\ granted' = [q \in Quota |->
       IF PeriodEnds(used[q], Period[q]) THEN 0 ELSE granted[q]]

Next == Tick \/ \E stages \in Charges : Ask(stages)

Spec == Init /\ [][Next]_<<used, granted>>

(***************************************************************************)
(* In none of its own periods does a quota let through more than its       *)
(* limit.  Two periods follow each other at most this closely, so that in  *)
(* any stretch as long as a period it is at most twice as many.            *)
(***************************************************************************)
LimitsHold == \A q \in Quota : granted[q] <= Limit[q]
=============================================================================
