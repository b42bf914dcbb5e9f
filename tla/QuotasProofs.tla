------------------------------ MODULE QuotasProofs ------------------------------
(* Proof that quotas, kept as Quotas says, are never exceeded. *)
EXTENDS Quotas, TLAPS

(* Counting a request keeps the period; the estimate is never less than    *)
(* what was counted in the running period.                                 *)
LEMMA WithCounts ==
  ASSUME NEW e \in Entries, NEW period \in Nat \ {0}, e.phase < period
  PROVE  /\ With(e) \in Entries
         /\ With(e).cur = e.cur + 1 /\ With(e).past = e.past /\ With(e).phase = e.phase
         /\ Rate(With(e), period) \in Nat
         /\ Rate(With(e), period) >= e.cur + 1
<1>1. /\ With(e) \in Entries /\ With(e).cur = e.cur + 1
      /\ With(e).past = e.past /\ With(e).phase = e.phase
  BY DEF With, Entries
<1>2. e.past \in Nat /\ period - e.phase \in Nat /\ e.cur \in Nat
  BY DEF Entries
<1>3. e.past * (period - e.phase) \in Nat
  BY <1>2
<1>4. \A total \in Nat : total \div period \in Nat
  OBVIOUS
<1>5. (e.past * (period - e.phase)) \div period \in Nat
  BY <1>3, <1>4
<1>. QED BY <1>1, <1>2, <1>5 DEF Rate

(* A tick keeps the count of the running period or begins a new period.    *)
LEMMA AgedKeeps ==
  ASSUME NEW e \in Entries, NEW period \in Nat \ {0}, e.phase < period
  PROVE  /\ Aged(e, period) \in Entries
         /\ Aged(e, period).phase < period
         /\ Aged(e, period).cur \in {0, e.cur} /\ Aged(e, period).past \in {e.cur, e.past}
         /\ ~PeriodEnds(e, period) => Aged(e, period).cur = e.cur
<1>1. CASE e = NoEntry
  BY <1>1 DEF Aged, NoEntry, Entries
<1>2. CASE e # NoEntry /\ PeriodEnds(e, period)
  <2>1. Aged(e, period) = [cur |-> 0, past |-> e.cur, phase |-> 0]
    BY <1>2 DEF Aged
  <2>. QED BY <1>2, <2>1 DEF Entries
<1>3. CASE e # NoEntry /\ ~PeriodEnds(e, period)
  <2>1. Aged(e, period) = [e EXCEPT !.phase = @ + 1]
    BY <1>3 DEF Aged
  <2>. QED BY <1>3, <2>1 DEF Entries, PeriodEnds
<1>. QED BY <1>1, <1>2, <1>3

-----------------------------------------------------------------------------
(***************************************************************************)
(* What is granted in a period was held against the quota in that period:  *)
(* a refused request uses up quotas as well, never the other way round.    *)
(* Only the granted part is bounded by the limits.                         *)
(***************************************************************************)
GrantedInv ==
  \A q \in Quota :
    /\ used[q] \in Entries /\ used[q].phase < Period[q]
    /\ granted[q] \in Nat
    /\ granted[q] <= used[q].cur
    /\ granted[q] <= Limit[q]

Constants ==
  /\ Limit \in [Quota -> Nat]
  /\ Period \in [Quota -> Nat \ {0}]

LEMMA InitGranted == Constants /\ Init => GrantedInv
<1> SUFFICES ASSUME Constants, Init, NEW q \in Quota
             PROVE  /\ used[q] \in Entries /\ used[q].phase < Period[q]
                    /\ granted[q] \in Nat /\ granted[q] <= used[q].cur
                    /\ granted[q] <= Limit[q]
  BY DEF GrantedInv
<1>1. used[q] = NoEntry /\ granted[q] = 0 /\ Period[q] \in Nat \ {0} /\ Limit[q] \in Nat
  BY DEF Init, Constants
<1>. QED BY <1>1 DEF NoEntry, Entries

LEMMA AskGranted ==
  ASSUME Constants, GrantedInv, NEW stages, Ask(stages)
  PROVE  GrantedInv'
<1> SUFFICES ASSUME NEW q \in Quota
             PROVE  /\ used'[q] \in Entries /\ used'[q].phase < Period[q]
                    /\ granted'[q] \in Nat /\ granted'[q] <= used'[q].cur
                    /\ granted'[q] <= Limit[q]
  BY DEF GrantedInv
<1> DEFINE refusing == Refusing(stages)
           seen == Consulted(stages, refusing)
<1>1. /\ used[q] \in Entries /\ used[q].phase < Period[q] /\ used[q].cur \in Nat
      /\ granted[q] \in Nat /\ granted[q] <= used[q].cur /\ granted[q] <= Limit[q]
      /\ Limit[q] \in Nat /\ Period[q] \in Nat \ {0}
  BY DEF GrantedInv, Constants, Entries
<1>2. /\ With(used[q]) \in Entries /\ With(used[q]).phase = used[q].phase
      /\ With(used[q]).cur = used[q].cur + 1
      /\ Rate(With(used[q]), Period[q]) \in Nat
      /\ Rate(With(used[q]), Period[q]) >= used[q].cur + 1
  BY <1>1, WithCounts
<1>3. used'[q] = IF q \in seen THEN With(used[q]) ELSE used[q]
  BY DEF Ask
<1>4. granted'[q] = granted[q] + (IF refusing = {} /\ q \in seen THEN 1 ELSE 0)
  BY DEF Ask
<1>5. CASE refusing = {} /\ q \in seen
  <2>1. ~Exceeded(q)
    BY <1>5 DEF Refusing, Consulted
  <2>2. Rate(With(used[q]), Period[q]) <= Limit[q]
    BY <1>1, <1>2, <2>1 DEF Exceeded
  <2>3. granted'[q] = granted[q] + 1 /\ used'[q] = With(used[q])
    BY <1>3, <1>4, <1>5
  <2>. QED BY <1>1, <1>2, <2>2, <2>3
<1>6. CASE ~(refusing = {} /\ q \in seen)
  <2>1. granted'[q] = granted[q]
    BY <1>1, <1>4, <1>6
  <2>. QED BY <1>1, <1>2, <1>3, <2>1
<1>. QED BY <1>5, <1>6

LEMMA TickGranted ==
  ASSUME Constants, GrantedInv, Tick
  PROVE  GrantedInv'
<1> SUFFICES ASSUME NEW q \in Quota
             PROVE  /\ used'[q] \in Entries /\ used'[q].phase < Period[q]
                    /\ granted'[q] \in Nat /\ granted'[q] <= used'[q].cur
                    /\ granted'[q] <= Limit[q]
  BY DEF GrantedInv
<1>1. /\ used[q] \in Entries /\ used[q].phase < Period[q] /\ used[q].cur \in Nat
      /\ granted[q] \in Nat /\ granted[q] <= used[q].cur /\ granted[q] <= Limit[q]
      /\ Limit[q] \in Nat /\ Period[q] \in Nat \ {0}
  BY DEF GrantedInv, Constants, Entries
<1>2. /\ used'[q] = Aged(used[q], Period[q])
      /\ granted'[q] = IF PeriodEnds(used[q], Period[q]) THEN 0 ELSE granted[q]
  BY DEF Tick
<1>3. /\ used'[q] \in Entries /\ used'[q].phase < Period[q] /\ used'[q].cur \in Nat
      /\ ~PeriodEnds(used[q], Period[q]) => used'[q].cur = used[q].cur
  BY <1>1, <1>2, AgedKeeps DEF Entries
<1>. QED BY <1>1, <1>2, <1>3

(***************************************************************************)
(* Rate-Limiting.md: "Max/IP" per period, "Max. RPS (global)".  Whatever   *)
(* is sent, and in whatever order, no quota lets through more than its     *)
(* limit in a period of its counter.                                       *)
(***************************************************************************)
THEOREM LimitsAreKept == Constants => (Spec => []LimitsHold)
<1> SUFFICES ASSUME Constants PROVE Spec => []LimitsHold
  OBVIOUS
<1>1. Init => GrantedInv
  BY InitGranted
<1>2. GrantedInv /\ [Next]_<<used, granted>> => GrantedInv'
  <2> SUFFICES ASSUME GrantedInv, [Next]_<<used, granted>> PROVE GrantedInv'
    OBVIOUS
  <2>1. CASE Tick
    BY <2>1, TickGranted
  <2>2. CASE \E stages \in Charges : Ask(stages)
    BY <2>2, AskGranted
  <2>3. CASE UNCHANGED <<used, granted>>
    BY <2>3 DEF GrantedInv
  <2>. QED BY <2>1, <2>2, <2>3 DEF Next
<1>3. GrantedInv => LimitsHold
  BY DEF GrantedInv, LimitsHold
<1>. QED BY <1>1, <1>2, <1>3, PTL DEF Spec
=============================================================================
