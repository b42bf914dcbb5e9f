------------------------------ MODULE RateWindows ------------------------------
(***************************************************************************)
(* What HAProxy keeps in a stick-table entry that stores http_req_rate: the *)
(* requests counted in the running period of the entry and in the period   *)
(* before it.  The first request starts a period; later ones follow it     *)
(* without a gap until one goes by without a request.                      *)
(***************************************************************************)
EXTENDS Integers

Entries == [cur: Nat, past: Nat, phase: Nat]
NoEntry == [cur |-> 0, past |-> 0, phase |-> 0]

(* The entry after one more request. *)
With(e) == [e EXCEPT !.cur = @ + 1]

(* HAProxy's estimate of the last period: all of the running one, and the  *)
(* share of the period before that is not over yet, rounded down.          *)
Rate(e, period) == e.cur + ((e.past * (period - e.phase)) \div period)

(* The entry one tick later. *)
PeriodEnds(e, period) == e.phase + 1 >= period

Aged(e, period) ==
  CASE e = NoEntry            -> e
    [] PeriodEnds(e, period)  -> [cur |-> 0, past |-> e.cur, phase |-> 0]
    [] OTHER                  -> [e EXCEPT !.phase = @ + 1]
=============================================================================
