---------------------------- MODULE EdgeLimitsProofs ----------------------------
(* Proofs about EdgeLimits. *)
EXTENDS EdgeLimits, TLAPS

LEMMA RequestType ==
  ASSUME NEW r \in Requests
  PROVE  /\ r.ip \in Clients /\ r.host \in Hosts /\ r.path \in Paths
         /\ r.base \in Bases
         /\ r.health \in BOOLEAN /\ r.mail \in SUBSET Mails
         /\ Net[r.ip] \in Nets
BY RequestsAssumption DEF Nets

-----------------------------------------------------------------------------
(* The one rule that sets something before, or after, all others do.       *)
LEMMA FirstMatch ==
  ASSUME NEW rules, DOMAIN rules \in SUBSET Nat, NEW i \in DOMAIN rules,
         rules[i] # {}, \A k \in DOMAIN rules : k < i => rules[k] = {}
  PROVE  FirstOf(rules) = rules[i]
<1>1. \A j \in DOMAIN rules :
        (\A k \in DOMAIN rules : k < j => rules[k] = {}) => j = i \/ rules[j] = {}
  OBVIOUS
<1>. QED BY <1>1 DEF FirstOf

LEMMA LastMatch ==
  ASSUME NEW rules, DOMAIN rules \in SUBSET Nat, NEW i \in DOMAIN rules,
         rules[i] # {}, \A k \in DOMAIN rules : k > i => rules[k] = {}
  PROVE  LastOf(rules) = rules[i]
<1>1. \A j \in DOMAIN rules :
        (\A k \in DOMAIN rules : k > j => rules[k] = {}) => j = i \/ rules[j] = {}
  OBVIOUS
<1>. QED BY <1>1 DEF LastOf

LEMMA NoMatch ==
  ASSUME NEW rules, \A k \in DOMAIN rules : rules[k] = {}
  PROVE  FirstOf(rules) = {} /\ LastOf(rules) = {}
BY DEF FirstOf, LastOf

(* The rules one by one, as sets. *)
LEMMA TrackRulesAre ==
  ASSUME NEW r \in Requests
  PROVE  /\ DOMAIN TrackRules(r) = 1..9
         /\ TrackRules(r)[1] = IF r.host = "api" /\ r.health THEN {"health_ready"} ELSE {}
         /\ TrackRules(r)[2] = IF r.host = "api" /\ r.path = "get" THEN {"api_get"} ELSE {}
         /\ TrackRules(r)[3] = IF r.host = "api" /\ r.path = "sync" THEN {"api_sync"} ELSE {}
         /\ TrackRules(r)[4] = IF r.host = "api" /\ r.path = "report" THEN {"api_report"} ELSE {}
         /\ TrackRules(r)[5] = IF r.host = "api" /\ r.path = "reqcode" THEN {"api_primaer_reqcode"} ELSE {}
         /\ TrackRules(r)[6] = IF r.host = "api" /\ r.path = "verify" THEN {"api_primaer_verify"} ELSE {}
         /\ TrackRules(r)[7] = IF r.host = "api" /\ r.path = "primaer" THEN {"api_primaer"} ELSE {}
         /\ TrackRules(r)[8] = IF r.host = "website" THEN {"website"} ELSE {}
         /\ TrackRules(r)[9] = IF r.host = "client" THEN {"client"} ELSE {}
BY RequestType DEF TrackRules, Rule, HostApi, PathPrimaer

LEMMA LimitRulesAre ==
  ASSUME NEW r \in Requests
  PROVE  /\ DOMAIN LimitRules(r) = 1..9
         /\ LimitRules(r)[1] = IF r.host = "api" /\ r.health THEN {"health_ready"} ELSE {}
         /\ LimitRules(r)[2] = IF r.host = "api" /\ ~r.health /\ r.path = "get" THEN {"api_get"} ELSE {}
         /\ LimitRules(r)[3] = IF r.host = "api" /\ ~r.health /\ r.path = "sync" THEN {"api_sync"} ELSE {}
         /\ LimitRules(r)[4] = IF r.host = "api" /\ ~r.health /\ r.path = "report" THEN {"api_report"} ELSE {}
         /\ LimitRules(r)[5] = IF r.host = "api" /\ ~r.health /\ r.path = "reqcode" THEN {"api_primaer_reqcode"} ELSE {}
         /\ LimitRules(r)[6] = IF r.host = "api" /\ ~r.health /\ r.path = "verify" THEN {"api_primaer_verify"} ELSE {}
         /\ LimitRules(r)[7] = IF r.host = "api" /\ ~r.health /\ r.path = "primaer" THEN {"api_primaer"} ELSE {}
         /\ LimitRules(r)[8] = IF r.host = "website" THEN {"website"} ELSE {}
         /\ LimitRules(r)[9] = IF r.host = "client" THEN {"client"} ELSE {}
BY RequestType DEF LimitRules, Rule, HostApi, PathPrimaer

LEMMA MailRulesAre ==
  ASSUME NEW r \in Requests
  PROVE  /\ DOMAIN MailRules(r) = 1..2
         /\ MailRules(r)[1] = IF r.mail # {} /\ r.path = "reqcode" THEN {"api_primaer_reqcode_mail"} ELSE {}
         /\ MailRules(r)[2] = IF r.mail # {} /\ r.path = "verify" THEN {"api_primaer_verify_mail"} ELSE {}
BY DEF MailRules, Rule

LEMMA OverloadRulesAre ==
  ASSUME NEW r \in Requests
  PROVE  /\ DOMAIN OverloadRules(r) = 1..4
         /\ OverloadRules(r)[1] = IF r.host = "api" /\ ~r.health /\ r.path = "get" THEN {"api_get"} ELSE {}
         /\ OverloadRules(r)[2] = IF r.host = "api" /\ ~r.health /\ r.path = "sync" THEN {"api_sync"} ELSE {}
         /\ OverloadRules(r)[3] = IF r.host = "api" /\ ~r.health /\ r.path = "report" THEN {"api_report"} ELSE {}
         /\ OverloadRules(r)[4] = IF r.host = "api" /\ ~r.health /\ r.path \in {"primaer", "reqcode", "verify"}
                                  THEN {"api_primaer"} ELSE {}
BY DEF OverloadRules, Rule, HostApi, PathPrimaer

-----------------------------------------------------------------------------
(* The table that slot 2 tracks in and the route whose limit applies are   *)
(* chosen by different lists of rules, one read from the front and one     *)
(* from the back.  They agree on every request.                            *)
LEMMA ClientRules ==
  ASSUME NEW r \in Requests
  PROVE  /\ FirstOf(TrackRules(r)) = ClientRoute(r)
         /\ LastOf(LimitRules(r)) = ClientRoute(r)
<1> DEFINE t == TrackRules(r)
           l == LimitRules(r)
<1>1. DOMAIN t = 1..9 /\ DOMAIN l = 1..9 /\ DOMAIN t \in SUBSET Nat /\ DOMAIN l \in SUBSET Nat
  BY TrackRulesAre, LimitRulesAre
<1>2. CASE r.host = "api" /\ r.health
  <2>1. /\ t[1] # {} /\ (\A k \in DOMAIN t : k < 1 => t[k] = {})
        /\ l[1] # {} /\ (\A k \in DOMAIN l : k > 1 => l[k] = {})
        /\ t[1] = ClientRoute(r) /\ l[1] = ClientRoute(r)
    BY <1>1, <1>2, TrackRulesAre, LimitRulesAre DEF ClientRoute
  <2>. QED BY <1>1, <2>1, FirstMatch, LastMatch
<1>3. CASE r.host = "api" /\ ~r.health
  <2>1. ClientRoute(r) = IF r.path = "other" THEN {} ELSE {RouteOf[r.path]}
    BY <1>3 DEF ClientRoute
  <2>2. CASE r.path = "other"
    <3>1. (\A k \in DOMAIN t : t[k] = {}) /\ (\A k \in DOMAIN l : l[k] = {})
      BY <1>1, <1>3, <2>2, TrackRulesAre, LimitRulesAre
    <3>. QED BY <2>1, <2>2, <3>1, NoMatch
  <2>3. ASSUME NEW i \in 2..7,
               r.path = <<"health", "get", "sync", "report", "reqcode", "verify", "primaer">>[i]
        PROVE  FirstOf(t) = ClientRoute(r) /\ LastOf(l) = ClientRoute(r)
    <3>1. \A k \in 1..9 : k # i => t[k] = {} /\ l[k] = {}
      BY <1>3, <2>3, TrackRulesAre, LimitRulesAre
    <3>2. /\ RouteOf["get"] = "api_get" /\ RouteOf["sync"] = "api_sync"
          /\ RouteOf["report"] = "api_report" /\ RouteOf["primaer"] = "api_primaer"
          /\ RouteOf["reqcode"] = "api_primaer_reqcode"
          /\ RouteOf["verify"] = "api_primaer_verify"
      BY DEF RouteOf
    <3>3. ClientRoute(r) = {RouteOf[r.path]}
      BY <2>1, <2>3
    <3>4. t[i] = {RouteOf[r.path]} /\ l[i] = {RouteOf[r.path]}
      BY <1>3, <2>3, <3>2, TrackRulesAre, LimitRulesAre
    <3>5. t[i] # {} /\ l[i] # {} /\ t[i] = ClientRoute(r) /\ l[i] = ClientRoute(r)
      BY <3>3, <3>4
    <3>. QED BY <1>1, <3>1, <3>5, FirstMatch, LastMatch
  <2>4. \/ r.path = "other"
        \/ \E i \in 2..7 :
             r.path = <<"health", "get", "sync", "report", "reqcode", "verify", "primaer">>[i]
    <3>1. r.path \in {"get", "sync", "report", "reqcode", "verify", "primaer", "other"}
      BY RequestType DEF Paths
    <3>. QED BY <3>1
  <2>. QED BY <2>2, <2>3, <2>4
<1>4. CASE r.host = "website"
  <2>1. /\ \A k \in 1..9 : k # 8 => t[k] = {} /\ l[k] = {}
        /\ t[8] = {"website"} /\ l[8] = {"website"} /\ ClientRoute(r) = {"website"}
    BY <1>4, TrackRulesAre, LimitRulesAre DEF ClientRoute
  <2>. QED BY <1>1, <2>1, FirstMatch, LastMatch
<1>5. CASE r.host = "client"
  <2>1. /\ \A k \in 1..9 : k # 9 => t[k] = {} /\ l[k] = {}
        /\ t[9] = {"client"} /\ l[9] = {"client"} /\ ClientRoute(r) = {"client"}
    BY <1>5, TrackRulesAre, LimitRulesAre DEF ClientRoute
  <2>. QED BY <1>1, <2>1, FirstMatch, LastMatch
<1>6. CASE r.host = "unknown"
  <2>1. (\A k \in DOMAIN t : t[k] = {}) /\ (\A k \in DOMAIN l : l[k] = {}) /\ ClientRoute(r) = {}
    BY <1>1, <1>6, TrackRulesAre, LimitRulesAre DEF ClientRoute
  <2>. QED BY <2>1, NoMatch
<1>. QED
  <2>1. r.health \in BOOLEAN /\ r.host \in {"api", "website", "client", "unknown"}
    BY RequestType DEF Hosts
  <2>. QED BY <2>1, <1>2, <1>3, <1>4, <1>5, <1>6

LEMMA MailSlot ==
  ASSUME NEW r \in Requests
  PROVE  /\ r.mail # {} => FirstOf(MailRules(r)) = MailRoute(r)
         /\ r.mail # {} => LastOf(MailRules(r)) = MailRoute(r)
         /\ r.mail = {} => LastOf(MailRules(r)) = {} /\ FirstOf(MailRules(r)) = {}
<1> DEFINE t == MailRules(r)
<1>1. DOMAIN t = 1..2 /\ DOMAIN t \in SUBSET Nat
  BY MailRulesAre
<1>2. CASE r.mail = {}
  <2>1. \A k \in DOMAIN t : t[k] = {}
    BY <1>1, <1>2, MailRulesAre
  <2>. QED BY <1>2, <2>1, NoMatch
<1>3. CASE r.mail # {} /\ r.path = "reqcode"
  <2>1. /\ t[1] = {"api_primaer_reqcode_mail"} /\ t[2] = {}
        /\ MailRoute(r) = {"api_primaer_reqcode_mail"}
    BY <1>3, MailRulesAre DEF MailRoute
  <2>. QED BY <1>1, <1>3, <2>1, FirstMatch, LastMatch
<1>4. CASE r.mail # {} /\ r.path = "verify"
  <2>1. /\ t[1] = {} /\ t[2] = {"api_primaer_verify_mail"}
        /\ MailRoute(r) = {"api_primaer_verify_mail"}
    BY <1>4, MailRulesAre DEF MailRoute
  <2>. QED BY <1>1, <1>4, <2>1, FirstMatch, LastMatch
<1>5. CASE r.path # "reqcode" /\ r.path # "verify"
  <2>1. (\A k \in DOMAIN t : t[k] = {}) /\ MailRoute(r) = {}
    BY <1>1, <1>5, MailRulesAre DEF MailRoute
  <2>. QED BY <2>1, NoMatch
<1>. QED BY <1>2, <1>3, <1>4, <1>5

LEMMA OverloadRulesAgree ==
  ASSUME NEW r \in Requests
  PROVE  /\ FirstOf(OverloadRules(r)) = Api(r)
         /\ LastOf(OverloadRules(r)) = Api(r)
<1> DEFINE t == OverloadRules(r)
<1>1. DOMAIN t = 1..4 /\ DOMAIN t \in SUBSET Nat
  BY OverloadRulesAre
<1>2. /\ ApiOf["get"] = "api_get" /\ ApiOf["sync"] = "api_sync"
      /\ ApiOf["report"] = "api_report"
      /\ \A p \in {"primaer", "reqcode", "verify"} : ApiOf[p] = "api_primaer"
  BY DEF ApiOf, RouteOf
<1>3. CASE r.host = "api" /\ ~r.health /\ r.path # "other"
  <2>1. Api(r) = {ApiOf[r.path]}
    BY <1>3 DEF Api
  <2>2. ASSUME NEW i \in 1..4,
               r.path \in <<{"get"}, {"sync"}, {"report"}, {"primaer", "reqcode", "verify"}>>[i]
        PROVE  FirstOf(t) = Api(r) /\ LastOf(t) = Api(r)
    <3>1. \A k \in 1..4 : k # i => t[k] = {}
      BY <1>3, <2>2, OverloadRulesAre
    <3>2. t[i] = {ApiOf[r.path]}
      BY <1>2, <1>3, <2>2, OverloadRulesAre
    <3>3. t[i] # {} /\ t[i] = Api(r)
      BY <2>1, <3>2
    <3>. QED BY <1>1, <3>1, <3>3, FirstMatch, LastMatch
  <2>3. \E i \in 1..4 :
          r.path \in <<{"get"}, {"sync"}, {"report"}, {"primaer", "reqcode", "verify"}>>[i]
    <3>1. r.path \in {"get", "sync", "report", "reqcode", "verify", "primaer"}
      BY <1>3, RequestType DEF Paths
    <3>. QED BY <3>1
  <2>. QED BY <2>2, <2>3
<1>4. CASE ~(r.host = "api" /\ ~r.health /\ r.path # "other")
  <2>1. (\A k \in DOMAIN t : t[k] = {}) /\ Api(r) = {}
    BY <1>1, <1>4, OverloadRulesAre DEF Api
  <2>. QED BY <2>1, NoMatch
<1>. QED BY <1>3, <1>4

-----------------------------------------------------------------------------
(* What the slots track is what the request is to be charged with.         *)
LEMMA SlotsAreQuotas ==
  ASSUME NEW r \in Requests
  PROVE  /\ Slot2(r) = ClientQuota(r)
         /\ Slot4(r) = MailQuota(r)
         /\ Slot3(r) = ApiQuota(r)
         /\ Tracked(r) = Charged(r)
<1>1. Slot2(r) = ClientQuota(r)
  BY ClientRules DEF Slot2, ClientQuota
<1>2. Slot4(r) = MailQuota(r)
  BY MailSlot DEF Slot4, MailQuota
<1>3. Slot3(r) = ApiQuota(r)
  BY OverloadRulesAgree DEF Slot3, ApiQuota
<1>. QED BY <1>1, <1>2, <1>3 DEF Tracked, Charged

LEMMA QuotasAreCounters ==
  ASSUME NEW r \in Requests
  PROVE  /\ ClientRoute(r) \in SUBSET Routes
         /\ MailRoute(r) \in SUBSET MailRoutes
         /\ Api(r) \in SUBSET Apis
         /\ ClientQuota(r) \in SUBSET Counters
         /\ MailQuota(r) \in SUBSET Counters
         /\ ApiQuota(r) \in SUBSET Counters
         /\ Charged(r) \in SUBSET Counters
<1> USE RequestType
<1>1. /\ \A p \in Paths \ {"other"} : RouteOf[p] \in Routes
      /\ \A p \in Paths \ {"other"} : ApiOf[p] \in Apis
  <2>1. /\ RouteOf["get"] = "api_get" /\ RouteOf["sync"] = "api_sync"
        /\ RouteOf["report"] = "api_report" /\ RouteOf["primaer"] = "api_primaer"
        /\ RouteOf["reqcode"] = "api_primaer_reqcode"
        /\ RouteOf["verify"] = "api_primaer_verify"
    BY DEF RouteOf
  <2>2. /\ ApiOf["get"] = "api_get" /\ ApiOf["sync"] = "api_sync"
        /\ ApiOf["report"] = "api_report" /\ ApiOf["primaer"] = "api_primaer"
        /\ ApiOf["reqcode"] = "api_primaer" /\ ApiOf["verify"] = "api_primaer"
    BY DEF ApiOf, RouteOf
  <2>. QED BY <2>1, <2>2 DEF Paths, Routes, Apis, SubRoutes
<1>2. ClientRoute(r) \in SUBSET Routes
  BY <1>1 DEF ClientRoute, Routes, Hosts
<1>3. MailRoute(r) \in SUBSET MailRoutes
  BY DEF MailRoute, MailRoutes
<1>4. Api(r) \in SUBSET Apis
  BY <1>1 DEF Api
<1>5. /\ ClientQuota(r) \in SUBSET Counters
      /\ MailQuota(r) \in SUBSET Counters
      /\ ApiQuota(r) \in SUBSET Counters
  BY <1>2, <1>3, <1>4 DEF ClientQuota, MailQuota, ApiQuota, Counters
<1>. QED BY <1>2, <1>3, <1>4, <1>5 DEF Charged

-----------------------------------------------------------------------------
(* The state the entries are in: what was asked is what HAProxy counted.   *)
EntriesInv ==
  /\ hits \in [Counters -> Entries]
  /\ \A c \in Counters :
       hits[c].phase < Period[c[1]] /\ hits[c].cur <= MaxCount /\ hits[c].past <= MaxCount
  /\ asked = hits
  /\ granted \in [Counters -> Nat]

Inv == TypeOK /\ EntriesInv /\ ConnectionsBounded

LEMMA PeriodType ==
  ASSUME NEW c \in Counters
  PROVE  Period[c[1]] \in Nat \ {0}
<1>1. c[1] \in Routes \cup MailRoutes \cup {Overload}
  BY DEF Counters
<1>. QED BY <1>1, LimitsAssumption

LEMMA InitInv == Init => Inv
<1> SUFFICES ASSUME Init PROVE Inv
  OBVIOUS
<1>1. NoEntry \in Entries /\ NoEntry.phase = 0 /\ NoEntry.cur = 0 /\ NoEntry.past = 0
  BY DEF NoEntry, Entries
<1>2. EntriesInv
  BY <1>1, PeriodType, BoundsAssumption DEF Init, EntriesInv
<1>3. ConnectionsBounded
  BY BoundsAssumption DEF Init, ConnectionsBounded
<1>4. TypeOK
  BY <1>2, BoundsAssumption, ClientsAssumption DEF Init, TypeOK, EntriesInv
<1>. QED BY <1>2, <1>3, <1>4 DEF Inv

(* Quotas with its theorem, read the way EdgeLimits reads it.              *)
Kept == INSTANCE QuotasProofs WITH
  Quota <- Counters, Period <- PeriodOf, used <- asked

(* Stick-table entries are the same thing to the edge, to the promise it   *)
(* keeps, and to the proof that the promise is worth something.            *)
LEMMA SameWindows ==
  ASSUME NEW e, NEW period
  PROVE  /\ Promise!With(e) = With(e) /\ Kept!With(e) = With(e)
         /\ Promise!Rate(e, period) = Rate(e, period) /\ Kept!Rate(e, period) = Rate(e, period)
         /\ Promise!Aged(e, period) = Aged(e, period) /\ Kept!Aged(e, period) = Aged(e, period)
         /\ Promise!PeriodEnds(e, period) <=> PeriodEnds(e, period)
         /\ Kept!PeriodEnds(e, period) <=> PeriodEnds(e, period)
         /\ Promise!NoEntry = NoEntry /\ Kept!NoEntry = NoEntry
         /\ Kept!Entries = Entries
<1>1. /\ Promise!With(e) = With(e) /\ Kept!With(e) = With(e)
      /\ Promise!Rate(e, period) = Rate(e, period) /\ Kept!Rate(e, period) = Rate(e, period)
  BY DEF Promise!With, Kept!With, With, Promise!Rate, Kept!Rate, Rate
<1>2. /\ Promise!PeriodEnds(e, period) <=> PeriodEnds(e, period)
      /\ Kept!PeriodEnds(e, period) <=> PeriodEnds(e, period)
      /\ Promise!NoEntry = NoEntry /\ Kept!NoEntry = NoEntry
      /\ Kept!Entries = Entries
  BY DEF Promise!PeriodEnds, Kept!PeriodEnds, PeriodEnds,
         Promise!NoEntry, Kept!NoEntry, NoEntry, Kept!Entries, Entries
<1>3. Promise!Aged(e, period) = Aged(e, period) /\ Kept!Aged(e, period) = Aged(e, period)
  BY <1>2 DEF Promise!Aged, Kept!Aged, Aged
<1>. QED BY <1>1, <1>2, <1>3

(* Counting a request keeps the entries what they are. *)
LEMMA CountEntries ==
  ASSUME Inv, NEW r \in Requests, Count(r)
  PROVE  EntriesInv'
<1> DEFINE charged == Charged(r)
<1>1. Tracked(r) = charged
  BY SlotsAreQuotas
<1>2. /\ hits' = [c \in Counters |-> IF c \in charged THEN With(hits[c]) ELSE hits[c]]
      /\ asked' = [c \in Counters |-> IF c \in charged THEN With(asked[c]) ELSE asked[c]]
      /\ \A c \in charged : hits[c].cur < MaxCount
  BY <1>1 DEF Count, Hit
<1>3. EntriesInv /\ MaxCount \in Nat
  BY BoundsAssumption DEF Inv
<1>4. ASSUME NEW c \in Counters
      PROVE  /\ hits'[c] \in Entries /\ hits'[c].phase < Period[c[1]]
             /\ hits'[c].cur <= MaxCount /\ hits'[c].past <= MaxCount
  <2>1. /\ hits[c] \in Entries /\ hits[c].phase < Period[c[1]] /\ hits[c].cur \in Nat
        /\ hits[c].cur <= MaxCount /\ hits[c].past <= MaxCount
    BY <1>3 DEF EntriesInv, Entries
  <2>2. /\ With(hits[c]) \in Entries /\ With(hits[c]).phase = hits[c].phase
        /\ With(hits[c]).cur = hits[c].cur + 1 /\ With(hits[c]).past = hits[c].past
    BY <2>1 DEF With, Entries
  <2>. QED BY <1>2, <1>3, <2>1, <2>2
<1>5. hits' \in [Counters -> Entries]
  BY <1>2, <1>4
<1>6. asked' = hits'
  BY <1>2, <1>3 DEF EntriesInv
<1>7. granted' \in [Counters -> Nat]
  <2>1. granted' = [c \in Counters |->
                      granted[c] + (IF ~Refused(r) /\ c \in charged THEN 1 ELSE 0)]
    BY DEF Count
  <2>2. \A c \in Counters : granted[c] \in Nat
    BY <1>3 DEF EntriesInv
  <2>. QED BY <2>1, <2>2
<1>. QED BY <1>4, <1>5, <1>6, <1>7 DEF EntriesInv

LEMMA TickEntries ==
  ASSUME Inv, Tick
  PROVE  EntriesInv'
<1>1. /\ hits' = [c \in Counters |-> Aged(hits[c], Period[c[1]])]
      /\ asked' = [c \in Counters |-> Aged(asked[c], Period[c[1]])]
      /\ granted' = [c \in Counters |->
                       IF PeriodEnds(asked[c], Period[c[1]]) THEN 0 ELSE granted[c]]
  BY DEF Tick, OneTickLater
<1>2. EntriesInv /\ MaxCount \in Nat
  BY BoundsAssumption DEF Inv
<1>3. ASSUME NEW c \in Counters
      PROVE  /\ hits'[c] \in Entries /\ hits'[c].phase < Period[c[1]]
             /\ hits'[c].cur <= MaxCount /\ hits'[c].past <= MaxCount
  <2>1. /\ hits[c] \in Entries /\ hits[c].phase < Period[c[1]]
        /\ hits[c].cur <= MaxCount /\ hits[c].past <= MaxCount
        /\ Period[c[1]] \in Nat \ {0}
    BY <1>2, PeriodType DEF EntriesInv
  <2>2. /\ Aged(hits[c], Period[c[1]]) \in Entries
        /\ Aged(hits[c], Period[c[1]]).phase < Period[c[1]]
        /\ Aged(hits[c], Period[c[1]]).cur \in {0, hits[c].cur}
        /\ Aged(hits[c], Period[c[1]]).past \in {hits[c].cur, hits[c].past}
    BY <2>1, SameWindows, Kept!AgedKeeps
  <2>. QED BY <1>1, <1>2, <2>1, <2>2
<1>4. hits' \in [Counters -> Entries] /\ asked' = hits'
  BY <1>1, <1>2, <1>3 DEF EntriesInv
<1>5. granted' \in [Counters -> Nat]
  BY <1>1, <1>2 DEF EntriesInv
<1>. QED BY <1>3, <1>4, <1>5 DEF EntriesInv

(* The rest of TypeOK and the connection limit, action by action.          *)
LEMMA StepInv == Inv /\ [Next]_vars => Inv'
<1> SUFFICES ASSUME Inv, [Next]_vars PROVE Inv'
  OBVIOUS
<1> USE DEF streams, history
<1>1. /\ EntriesInv /\ TypeOK /\ ConnectionsBounded
      /\ ban \in [Clients -> 0..BanTime] /\ (\A c \in Internal : ban[c] = 0)
      /\ backend \in Nat /\ backend < MaxConn /\ local \in 0..MaxLocal
      /\ MaxConn \in Nat /\ BanTime \in Nat /\ MaxLocal \in Nat
      /\ Internal \in SUBSET Clients
  BY BoundsAssumption, ClientsAssumption DEF Inv, TypeOK, ConnectionsBounded
<1>2. AnswerLocally => local' \in 0..MaxLocal /\ backend' = backend
  BY <1>1 DEF AnswerLocally
<1>3. UNCHANGED <<hits, history>> =>
        EntriesInv'
  BY <1>1 DEF EntriesInv
<1>4. ASSUME EntriesInv',
             ban' \in [Clients -> 0..BanTime],
             \A c \in Internal : ban'[c] = 0,
             backend' \in Nat, backend' < MaxConn, local' \in 0..MaxLocal
      PROVE  Inv'
  BY <1>4 DEF Inv, TypeOK, EntriesInv, ConnectionsBounded
<1>5. CASE UNCHANGED vars
  BY <1>1, <1>3, <1>4, <1>5 DEF vars
<1>6. ASSUME NEW r \in Requests, DenyBanned(r) PROVE Inv'
  BY <1>1, <1>3, <1>4, <1>6 DEF DenyBanned, vars
<1>7. ASSUME NEW r \in Requests, DenyConnection(r) PROVE Inv'
  BY <1>1, <1>2, <1>3, <1>4, <1>7 DEF DenyConnection
<1>8. ASSUME NEW r \in Requests, DenyLimit(r) PROVE Inv'
  <2>1. Count(r) /\ AnswerLocally /\ ban' = ban
    BY <1>8 DEF DenyLimit
  <2>. QED BY <1>1, <1>2, <1>4, <2>1, CountEntries
<1>9. ASSUME NEW r \in Requests, DenyWaf(r) PROVE Inv'
  <2>1. Count(r) /\ AnswerLocally
    BY <1>9 DEF DenyWaf
  <2>2. ban' = [ban EXCEPT ![r.ip] = IF r.ip \in Internal THEN ban[r.ip] ELSE BanTime]
    BY <1>9 DEF DenyWaf, Bannable
  <2>3. ban' \in [Clients -> 0..BanTime] /\ (\A c \in Internal : ban'[c] = 0)
    BY <1>1, <2>2, RequestType
  <2>. QED BY <1>1, <1>2, <1>4, <2>1, <2>3, CountEntries
<1>10. ASSUME NEW r \in Requests, Route(r) PROVE Inv'
  <2>1. Count(r) /\ ban' = ban
    BY <1>10 DEF Route
  <2>2. backend' \in Nat /\ backend' < MaxConn /\ local' \in 0..MaxLocal
    <3>1. CASE AnswerLocally
      BY <1>1, <1>2, <3>1
    <3>2. CASE backend' = backend + 1 /\ local' = local
      BY <1>1, <1>10, <3>2 DEF Route, TooManyConn
    <3>. QED BY <1>10, <3>1, <3>2 DEF Route
  <2>. QED BY <1>1, <1>4, <2>1, <2>2, CountEntries
<1>11. CASE PlainRequest
  BY <1>1, <1>2, <1>3, <1>4, <1>11 DEF PlainRequest
<1>12. CASE BackendDone
  BY <1>1, <1>3, <1>4, <1>12 DEF BackendDone
<1>13. CASE LocalDone
  BY <1>1, <1>3, <1>4, <1>13 DEF LocalDone
<1>14. CASE Tick
  <2>1. ban' \in [Clients -> 0..BanTime] /\ (\A c \in Internal : ban'[c] = 0)
    BY <1>1, <1>14 DEF Tick
  <2>2. backend' = backend /\ local' = local
    BY <1>14 DEF Tick
  <2>. QED BY <1>1, <1>4, <1>14, <2>1, <2>2, TickEntries
<1>. QED BY <1>5, <1>6, <1>7, <1>8, <1>9, <1>10, <1>11, <1>12, <1>13, <1>14 DEF Next

LEMMA InvHolds == Spec => []Inv
BY InitInv, StepInv, PTL DEF Spec

(***************************************************************************)
(* The state has its type whatever the requests, limits, periods and       *)
(* bounds: internal clients never have a ban, and no entry is further into *)
(* a period than that is long.                                             *)
(***************************************************************************)
THEOREM TypeCorrect == Spec => []TypeOK
<1>1. Inv => TypeOK
  BY DEF Inv
<1>. QED BY <1>1, InvHolds, PTL

(***************************************************************************)
(* 50-frontend-https.cfg, too_many_conn: no mix of requests on both ports  *)
(* has the backends serve CLUSTER_MAXCONN streams at once.                 *)
(***************************************************************************)
THEOREM BackendsAreProtected == Spec => []ConnectionsBounded
<1>1. Inv => ConnectionsBounded
  BY DEF Inv
<1>. QED BY <1>1, InvHolds, PTL

-----------------------------------------------------------------------------
(* A request belongs to one route, one mail route and one API at most, so  *)
(* the limit that a deny rule looks up is that of the entry it looks at.   *)
LEMMA OneOfEach ==
  ASSUME NEW r \in Requests
  PROVE  /\ \A x, y \in ClientRoute(r) : x = y
         /\ \A x, y \in MailRoute(r) : x = y
         /\ \A x, y \in Api(r) : x = y
<1>1. \A x, y \in ClientRoute(r) : x = y
  BY RequestType DEF ClientRoute
<1>2. \A x, y \in MailRoute(r) : x = y
  BY DEF MailRoute
<1>3. \A x, y \in Api(r) : x = y
  BY DEF Api
<1>. QED BY <1>1, <1>2, <1>3

LEMMA LimitsAre ==
  /\ \A c \in (Routes \X Nets) \cup (MailRoutes \X Mails) :
       c \in Counters /\ Limit[c] = RateLimit[c[1]]
  /\ \A a \in Apis : <<Overload, a>> \in Counters /\ Limit[<<Overload, a>>] = OverloadLimit[a]
BY DEF Limit, Counters, Overload, Routes, MailRoutes, Apis, SubRoutes

(* The three deny rules are the three stages of the promise.               *)
LEMMA StagesRefuse ==
  ASSUME Inv, NEW r \in Requests
  PROVE  /\ OverRate(r) <=> \E q \in ClientQuota(r) : Promise!Exceeded(q)
         /\ OverMailRate(r) <=> \E q \in MailQuota(r) : Promise!Exceeded(q)
         /\ Overloaded(r) <=> \E q \in ApiQuota(r) : Promise!Exceeded(q)
<1>1. \A q \in Counters :
        Promise!Exceeded(q) <=> Rate(With(hits[q]), Period[q[1]]) > Limit[q]
  BY SameWindows DEF Promise!Exceeded, Inv, EntriesInv, PeriodOf
<1>2. /\ ClientRoute(r) \in SUBSET Routes /\ MailRoute(r) \in SUBSET MailRoutes
      /\ Api(r) \in SUBSET Apis /\ r.mail \in SUBSET Mails /\ Net[r.ip] \in Nets
  BY QuotasAreCounters, RequestType
<1>3. OverRate(r) <=> \E q \in ClientQuota(r) : Promise!Exceeded(q)
  <2>1. OverRate(r) <=> \E id \in ClientRoute(r) : \E q \in ClientQuota(r) :
                          Rate(With(hits[q]), Period[q[1]]) > RateLimit[id]
    BY ClientRules, SlotsAreQuotas DEF OverRate, RateAbove
  <2>2. \A id \in ClientRoute(r) : \A q \in ClientQuota(r) :
          q[1] = id /\ q \in Counters /\ Limit[q] = RateLimit[id]
    BY <1>2, OneOfEach, LimitsAre DEF ClientQuota
  <2>3. \A q \in ClientQuota(r) : q[1] \in ClientRoute(r)
    BY DEF ClientQuota
  <2>. QED BY <1>1, <2>1, <2>2, <2>3
<1>4. OverMailRate(r) <=> \E q \in MailQuota(r) : Promise!Exceeded(q)
  <2>1. CASE r.mail # {}
    <3>1. OverMailRate(r) <=> \E id \in MailRoute(r) : \E q \in MailQuota(r) :
                                Rate(With(hits[q]), Period[q[1]]) > RateLimit[id]
      BY <2>1, MailSlot, SlotsAreQuotas DEF OverMailRate, RateAbove
    <3>2. \A id \in MailRoute(r) : \A q \in MailQuota(r) :
            q[1] = id /\ q \in Counters /\ Limit[q] = RateLimit[id]
      BY <1>2, OneOfEach, LimitsAre DEF MailQuota
    <3>3. \A q \in MailQuota(r) : q[1] \in MailRoute(r)
      BY DEF MailQuota
    <3>. QED BY <1>1, <3>1, <3>2, <3>3
  <2>2. CASE r.mail = {}
    BY <2>2, MailSlot DEF OverMailRate, MailQuota
  <2>. QED BY <2>1, <2>2
<1>5. Overloaded(r) <=> \E q \in ApiQuota(r) : Promise!Exceeded(q)
  <2>1. Overloaded(r) <=> \E id \in Api(r) : OverloadLimit[id] > 0 /\ \E q \in ApiQuota(r) :
                            Rate(With(hits[q]), Period[q[1]]) > OverloadLimit[id]
    BY OverloadRulesAgree, SlotsAreQuotas DEF Overloaded, RateAbove
  <2>2. \A id \in Api(r) : OverloadLimit[id] > 0
    BY <1>2, LimitsAssumption
  <2>3. \A id \in Api(r) : \A q \in ApiQuota(r) :
          q \in Counters /\ Limit[q] = OverloadLimit[id]
    BY <1>2, OneOfEach, LimitsAre DEF ApiQuota
  <2>4. \A q \in ApiQuota(r) : q[2] \in Api(r)
    BY DEF ApiQuota
  <2>. QED BY <1>1, <2>1, <2>2, <2>3, <2>4
<1>. QED BY <1>3, <1>4, <1>5

(* What a request is charged with is what the promise consults.            *)
LEMMA ChargedIsConsulted ==
  ASSUME Inv, NEW r \in Requests
  PROVE  /\ Refused(r) <=> Promise!Refusing(Stages(r)) # {}
         /\ Charged(r) = Promise!Consulted(Stages(r), Promise!Refusing(Stages(r)))
<1> DEFINE R == Promise!Refusing(Stages(r))
           seen == Promise!Consulted(Stages(r), R)
<1>1. /\ R \in SUBSET (1..3)
      /\ 1 \in R <=> \E q \in ClientQuota(r) : Promise!Exceeded(q)
      /\ 2 \in R <=> \E q \in MailQuota(r) : Promise!Exceeded(q)
      /\ 3 \in R <=> \E q \in ApiQuota(r) : Promise!Exceeded(q)
  BY DEF Promise!Refusing, Stages
<1>2. /\ 1 \in R <=> OverRate(r)
      /\ 2 \in R <=> OverMailRate(r)
      /\ 3 \in R <=> Overloaded(r)
  BY <1>1, StagesRefuse
<1> HIDE DEF R
<1>3. Refused(r) <=> R # {}
  <2>1. R # {} <=> (1 \in R \/ 2 \in R \/ 3 \in R)
    <3>1. R \in SUBSET {1, 2, 3}
      BY <1>1
    <3>. QED BY <3>1
  <2>. QED BY <1>2, <2>1 DEF Refused
<1>4. seen = UNION {Stages(r)[i] : i \in {j \in 1..3 : \A k \in R : j <= k}}
  BY DEF Promise!Consulted, Stages
<1>5. /\ Stages(r)[1] = ClientQuota(r) /\ Stages(r)[2] = MailQuota(r)
      /\ Stages(r)[3] = ApiQuota(r)
  BY DEF Stages
<1>6. CASE OverRate(r)
  <2>1. {j \in 1..3 : \A k \in R : j <= k} = {1}
    BY <1>1, <1>2, <1>6
  <2>2. seen = ClientQuota(r)
    BY <1>4, <1>5, <2>1
  <2>. QED BY <1>3, <1>6, <2>2 DEF Charged, R
<1>7. CASE ~OverRate(r) /\ OverMailRate(r)
  <2>1. {j \in 1..3 : \A k \in R : j <= k} = {1, 2}
    BY <1>1, <1>2, <1>7
  <2>2. seen = ClientQuota(r) \cup MailQuota(r)
    BY <1>4, <1>5, <2>1
  <2>. QED BY <1>3, <1>7, <2>2 DEF Charged, R
<1>8. CASE ~OverRate(r) /\ ~OverMailRate(r)
  <2>1. {j \in 1..3 : \A k \in R : j <= k} = {1, 2, 3}
    BY <1>1, <1>2, <1>8
  <2>2. seen = ClientQuota(r) \cup MailQuota(r) \cup ApiQuota(r)
    BY <1>4, <1>5, <2>1
  <2>. QED BY <1>3, <1>8, <2>2 DEF Charged, R
<1>. QED BY <1>6, <1>7, <1>8

LEMMA CountAsks ==
  ASSUME Inv, NEW r \in Requests, Count(r)
  PROVE  Promise!Next
<1> DEFINE stages == Stages(r)
           R == Promise!Refusing(stages)
           seen == Promise!Consulted(stages, R)
<1>1. (Refused(r) <=> R # {}) /\ Charged(r) = seen
  BY ChargedIsConsulted
<1> HIDE DEF R, seen
<1>2. asked' = [q \in Counters |-> IF q \in seen THEN Promise!With(asked[q]) ELSE asked[q]]
  BY <1>1, SameWindows DEF Count, Hit
<1>3. granted' = [q \in Counters |->
                   granted[q] + (IF R = {} /\ q \in seen THEN 1 ELSE 0)]
  BY <1>1, SameWindows DEF Count
<1>4. Promise!Ask(stages)
  BY <1>2, <1>3 DEF Promise!Ask, R, seen
<1>5. stages \in Charges
  BY DEF Charges
<1>. QED BY <1>4, <1>5 DEF Promise!Next

LEMMA TickAges ==
  ASSUME Tick
  PROVE  Promise!Next
<1>1. /\ asked' = [q \in Counters |-> Promise!Aged(asked[q], PeriodOf[q])]
      /\ granted' = [q \in Counters |->
           IF Promise!PeriodEnds(asked[q], PeriodOf[q]) THEN 0 ELSE granted[q]]
  BY SameWindows DEF Tick, OneTickLater, PeriodOf
<1>. QED BY <1>1 DEF Promise!Next, Promise!Tick

(***************************************************************************)
(* The rules of both frontends implement Quotas, for any clients, mail     *)
(* addresses, limits and periods: every request whose path is spelled as   *)
(* the ACLs spell it is charged with, and refused for, the quotas of its   *)
(* own route, mail address and API, in that order.  Every other request,   *)
(* also one that the routing folds into such a path, is charged with       *)
(* nothing, and nothing else touches a counter.                            *)
(***************************************************************************)
THEOREM RulesKeepPromise == Spec => KeepsPromise
<1>1. Init => Promise!Init
  BY SameWindows DEF Init, Promise!Init
<1>2. Inv /\ [Next]_vars => [Promise!Next]_<<asked, granted>>
  <2> SUFFICES ASSUME Inv, [Next]_vars PROVE [Promise!Next]_<<asked, granted>>
    OBVIOUS
  <2>1. ASSUME NEW r \in Requests, DenyLimit(r) \/ DenyWaf(r) \/ Route(r)
        PROVE  Promise!Next
    BY <2>1, CountAsks DEF DenyLimit, DenyWaf, Route
  <2>2. ASSUME NEW r \in Requests, DenyBanned(r) \/ DenyConnection(r)
        PROVE  UNCHANGED <<asked, granted>>
    BY <2>2 DEF DenyBanned, DenyConnection, vars, history
  <2>3. CASE Tick
    BY <2>3, TickAges
  <2>4. CASE PlainRequest \/ BackendDone \/ LocalDone
    BY <2>4 DEF PlainRequest, BackendDone, LocalDone, history
  <2>5. CASE UNCHANGED vars
    BY <2>5 DEF vars, history
  <2>. QED BY <2>1, <2>2, <2>3, <2>4, <2>5 DEF Next
<1>. QED BY <1>1, <1>2, InvHolds, PTL DEF Spec, KeepsPromise, Promise!Spec

LEMMA LimitsType == Kept!Constants
<1>1. Limit \in [Counters -> Nat]
  <2>1. ASSUME NEW c \in Counters PROVE Limit[c] \in Nat
    <3>1. CASE c \in (Routes \X Nets) \cup (MailRoutes \X Mails)
      BY <3>1, LimitsAre, LimitsAssumption
    <3>2. CASE c \in {Overload} \X Apis
      BY <3>2, LimitsAre, LimitsAssumption
    <3>. QED BY <3>1, <3>2 DEF Counters
  <2>. QED BY <2>1 DEF Limit
<1>2. PeriodOf \in [Counters -> Nat \ {0}]
  BY PeriodType DEF PeriodOf
<1>. QED BY <1>1, <1>2 DEF Kept!Constants

LEMMA SameQuotas ==
  /\ Promise!Init => Kept!Init
  /\ Promise!Next => Kept!Next
  /\ Kept!LimitsHold => LimitsHold
<1>1. Promise!Init => Kept!Init
  BY SameWindows DEF Promise!Init, Kept!Init
<1>2. \A q : Kept!Exceeded(q) <=> Promise!Exceeded(q)
  BY SameWindows DEF Kept!Exceeded, Promise!Exceeded
<1>3. \A stages : Kept!Refusing(stages) = Promise!Refusing(stages)
  BY <1>2 DEF Kept!Refusing, Promise!Refusing
<1>4. \A stages, R : Kept!Consulted(stages, R) = Promise!Consulted(stages, R)
  BY DEF Kept!Consulted, Promise!Consulted
<1>5. \A stages : Promise!Ask(stages) => Kept!Ask(stages)
  BY <1>3, <1>4, SameWindows DEF Kept!Ask, Promise!Ask
<1>6. Promise!Tick => Kept!Tick
  BY SameWindows DEF Kept!Tick, Promise!Tick
<1>7. Kept!LimitsHold => LimitsHold
  BY SameWindows DEF Kept!LimitsHold, LimitsHold, Promise!LimitsHold
<1>. QED BY <1>1, <1>5, <1>6, <1>7 DEF Kept!Next, Promise!Next

(***************************************************************************)
(* What the promise is worth: of the requests whose paths the ACLs         *)
(* recognise no client on a route, no mail address and no API ever gets    *)
(* more through in one period of its counter than its limit, for every     *)
(* table of limits, period and mix of requests, although HAProxy compares  *)
(* an estimate.                                                            *)
(***************************************************************************)
THEOREM LimitsAreNeverExceeded == Spec => []LimitsHold
<1>1. Kept!Spec => []Kept!LimitsHold
  BY LimitsType, Kept!LimitsAreKept
<1>2. [Promise!Next]_<<asked, granted>> => [Kept!Next]_<<asked, granted>>
  BY SameQuotas
<1>3. KeepsPromise => Kept!Spec
  BY <1>2, SameQuotas, PTL DEF KeepsPromise, Promise!Spec, Kept!Spec
<1>4. Kept!LimitsHold => LimitsHold
  BY SameQuotas
<1>. QED BY <1>1, <1>3, <1>4, RulesKeepPromise, PTL
=============================================================================
