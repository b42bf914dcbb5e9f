------------------------------- MODULE EdgeLimits -------------------------------
(***************************************************************************)
(* The rules of HAProxy's frontends https_in and http_in: ban check,       *)
(* connection limit, rate limits per client and per mail address, overload *)
(* limits per API, WAF ban, geo block and routing, in the order in which   *)
(* the configuration lists them.                                           *)
(*                                                                         *)
(* HAProxy itself is external, and this much of it is taken for granted:   *)
(* of several track-sc rules on one counter the first that matches counts, *)
(* of several set-var rules the last; a request is counted when its        *)
(* track-sc rule is evaluated; a rule that answers ends the evaluation.    *)
(*                                                                         *)
(* The ACLs on paths tell upper from lower case, the routing does not, so  *)
(* a request has a path as the ACLs see it and a base as the routing does. *)
(***************************************************************************)
EXTENDS RateWindows, Sequences

CONSTANTS
  Clients,       \* source addresses
  Net,           \* src,ipmask(32,48) of each
  Internal,      \* those in internal_networks
  GeoBlocked,    \* those found in geo_blocklist.map
  Whitelisted,   \* those found in whitelist.map
  Mails,         \* values of X-Rate-Email
  Requests,      \* the requests that clients send
  RateLimit,     \* rate-limits.map
  OverloadLimit, \* overload-limits.map
  Period,        \* period of http_req_rate in each stick table, in ticks
  MaxConn,       \* __CLUSTER_MAXCONN__
  BanTime,       \* expire of st_waf_blocks, in ticks
  MaxCount,      \* BOUND: requests that a counter sees in one period
  MaxLocal       \* BOUND: streams that HAProxy is still answering itself

Apis  == {"api_get", "api_sync", "api_report", "api_primaer"}
SubRoutes == {"api_primaer_reqcode", "api_primaer_verify"}
Routes == Apis \cup SubRoutes \cup {"health_ready", "website", "client"}
MailRoutes == {"api_primaer_reqcode_mail", "api_primaer_verify_mail"}
Overload == "st_overload"

Hosts == {"api", "website", "client", "unknown"}

(* path_beg, case-sensitive. *)
Paths == {"get", "sync", "report", "primaer", "reqcode", "verify", "other"}

(* base,lower,map_beg: the API whose prefix it has, in whatever spelling. *)
Bases == Apis \cup {"none"}

RouteOf == [get |-> "api_get", sync |-> "api_sync", report |-> "api_report",
            primaer |-> "api_primaer", reqcode |-> "api_primaer_reqcode",
            verify |-> "api_primaer_verify"]
ApiOf == [RouteOf EXCEPT !.reqcode = "api_primaer", !.verify = "api_primaer"]

(* The entries of the stick tables: table and key. *)
Nets == {Net[c] : c \in Clients}
Counters == (Routes \X Nets) \cup (MailRoutes \X Mails) \cup ({Overload} \X Apis)

ASSUME ClientsAssumption == Internal \cup GeoBlocked \cup Whitelisted \subseteq Clients
ASSUME RequestsAssumption ==
  Requests \subseteq [ip: Clients, host: Hosts, path: Paths, base: Bases,
                      health: BOOLEAN, mail: SUBSET Mails]
ASSUME SpellingAssumption ==
  \A r \in Requests : r.host = "api" /\ r.path # "other" => r.base = ApiOf[r.path]
ASSUME MailAssumption == \A r \in Requests : r.mail = {} \/ \E m \in Mails : r.mail = {m}
ASSUME LimitsAssumption ==
  /\ RateLimit \in [Routes \cup MailRoutes -> Nat]
  /\ OverloadLimit \in [Apis -> Nat \ {0}]
  /\ Period \in [Routes \cup MailRoutes \cup {Overload} -> Nat \ {0}]
ASSUME BoundsAssumption ==
  MaxConn \in Nat \ {0} /\ BanTime \in Nat \ {0} /\ MaxCount \in Nat /\ MaxLocal \in Nat

VARIABLES
  hits,     \* the stick-table entries with a rate
  ban,      \* st_waf_blocks: ticks until an entry with gpc0 > 0 expires
  backend,  \* streams counted in st_global_conn that a backend is serving
  local,    \* those that HAProxy answers itself
  asked,    \* history: what hits should be, by route, mail address and API
  granted   \* history: those of the running period that no limit refused

streams == <<backend, local>>
history == <<asked, granted>>
vars == <<hits, ban, streams, history>>

TypeOK ==
  /\ hits \in [Counters -> Entries]
  /\ \A c \in Counters :
       hits[c].phase < Period[c[1]] /\ hits[c].cur <= MaxCount /\ hits[c].past <= MaxCount
  /\ ban \in [Clients -> 0..BanTime]
  /\ \A c \in Internal : ban[c] = 0
  /\ backend \in Nat
  /\ local \in 0..MaxLocal
  /\ asked \in [Counters -> Entries]
  /\ granted \in [Counters -> Nat]

Init ==
  /\ hits = [c \in Counters |-> NoEntry]
  /\ ban = [c \in Clients |-> 0]
  /\ backend = 0
  /\ local = 0
  /\ asked = hits
  /\ granted = [c \in Counters |-> 0]

-----------------------------------------------------------------------------
(* A rule sets a name if its condition holds, and nothing otherwise. *)
Rule(name, condition) == {n \in {name} : condition}

(* track-sc: the first rule that sets anything; set-var: the last one. *)
FirstOf(rules) ==
  UNION {rules[i] : i \in {j \in DOMAIN rules :
                            \A k \in DOMAIN rules : k < j => rules[k] = {}}}
LastOf(rules) ==
  UNION {rules[i] : i \in {j \in DOMAIN rules :
                            \A k \in DOMAIN rules : k > j => rules[k] = {}}}

HostApi(r) == r.host = "api"
PathPrimaer(r) == r.path \in {"primaer", "reqcode", "verify"}

(* track-sc2 *)
TrackRules(r) == <<
  Rule("health_ready",        HostApi(r) /\ r.health),
  Rule("api_get",             HostApi(r) /\ r.path = "get"),
  Rule("api_sync",            HostApi(r) /\ r.path = "sync"),
  Rule("api_report",          HostApi(r) /\ r.path = "report"),
  Rule("api_primaer_reqcode", HostApi(r) /\ r.path = "reqcode"),
  Rule("api_primaer_verify",  HostApi(r) /\ r.path = "verify"),
  Rule("api_primaer",         HostApi(r) /\ PathPrimaer(r)
                                /\ r.path \notin {"reqcode", "verify"}),
  Rule("website",             r.host = "website"),
  Rule("client",              r.host = "client") >>

(* set-var(txn.rl_id) *)
LimitRules(r) == <<
  Rule("health_ready",        HostApi(r) /\ r.health),
  Rule("api_get",             HostApi(r) /\ r.path = "get" /\ ~r.health),
  Rule("api_sync",            HostApi(r) /\ r.path = "sync" /\ ~r.health),
  Rule("api_report",          HostApi(r) /\ r.path = "report" /\ ~r.health),
  Rule("api_primaer_reqcode", HostApi(r) /\ r.path = "reqcode" /\ ~r.health),
  Rule("api_primaer_verify",  HostApi(r) /\ r.path = "verify" /\ ~r.health),
  Rule("api_primaer",         HostApi(r) /\ PathPrimaer(r) /\ ~r.health
                                /\ r.path \notin {"reqcode", "verify"}),
  Rule("website",             r.host = "website"),
  Rule("client",              r.host = "client") >>

(* track-sc4 and set-var(txn.rl_mail_id), whatever the host. *)
MailRules(r) == <<
  Rule("api_primaer_reqcode_mail", r.mail # {} /\ r.path = "reqcode"),
  Rule("api_primaer_verify_mail",  r.mail # {} /\ r.path = "verify") >>

(* track-sc3 and set-var(txn.ol_id) *)
OverloadRules(r) == <<
  Rule("api_get",     HostApi(r) /\ r.path = "get" /\ ~r.health),
  Rule("api_sync",    HostApi(r) /\ r.path = "sync" /\ ~r.health),
  Rule("api_report",  HostApi(r) /\ r.path = "report" /\ ~r.health),
  Rule("api_primaer", HostApi(r) /\ PathPrimaer(r) /\ ~r.health) >>

(* The entries that the slots track: none or one each. *)
Slot2(r) == FirstOf(TrackRules(r)) \X {Net[r.ip]}
Slot4(r) == FirstOf(MailRules(r)) \X r.mail
Slot3(r) == {Overload} \X FirstOf(OverloadRules(r))

(* Mutant: the rate is read without the request itself. *)
RateBefore(slot, limit) == \E c \in slot : Rate(hits[c], Period[c[1]]) > limit

(* sc_http_req_rate(n),sub(limit) gt 0; track-sc has counted the request. *)
RateAbove(slot, limit) ==
  \E c \in slot : Rate(With(hits[c]), Period[c[1]]) > limit

OverRate(r) == \E id \in LastOf(LimitRules(r)) : RateAbove(Slot2(r), RateLimit[id])
OverMailRate(r) == \E id \in LastOf(MailRules(r)) : RateAbove(Slot4(r), RateLimit[id])
Overloaded(r) == \E id \in LastOf(OverloadRules(r)) :
  OverloadLimit[id] > 0 /\ RateAbove(Slot3(r), OverloadLimit[id])

Refused(r) == OverRate(r) \/ OverMailRate(r) \/ Overloaded(r)

(* Mutant: every slot tracks before the first deny. *)
TrackedAtOnce(r) == Slot2(r) \cup Slot4(r) \cup Slot3(r)

(* Rules behind the one that answers are not evaluated: they track nothing *)
Tracked(r) ==
  Slot2(r) \cup
  (IF OverRate(r) THEN {} ELSE Slot4(r) \cup
    (IF OverMailRate(r) THEN {} ELSE Slot3(r)))

Hit(entries, at) == [c \in Counters |-> IF c \in at THEN With(entries[c]) ELSE entries[c]]

-----------------------------------------------------------------------------
(* What the limits are about, by route, mail address and API: paths in the *)
(* spelling that the ACLs know.  Other spellings belong to no quota.       *)
(* Health checks have a quota of their own on every API, and none of it.   *)
ClientRoute(r) ==
  CASE r.host # "api"             -> {r.host} \cap {"website", "client"}
    [] r.host = "api" /\ r.health  -> {"health_ready"}
    [] r.host = "api" /\ ~r.health -> {RouteOf[p] : p \in {r.path} \ {"other"}}

MailRoute(r) ==
  CASE r.path = "reqcode" -> {"api_primaer_reqcode_mail"}
    [] r.path = "verify"  -> {"api_primaer_verify_mail"}
    [] OTHER              -> {}

Api(r) ==
  IF r.host = "api" /\ ~r.health
  THEN {ApiOf[p] : p \in {r.path} \ {"other"}} ELSE {}

ClientQuota(r) == ClientRoute(r) \X {Net[r.ip]}
MailQuota(r)   == MailRoute(r) \X r.mail
ApiQuota(r)    == {Overload} \X Api(r)

Stages(r) == <<ClientQuota(r), MailQuota(r), ApiQuota(r)>>

Charged(r) ==
  ClientQuota(r) \cup
  (IF OverRate(r) THEN {} ELSE MailQuota(r) \cup
    (IF OverMailRate(r) THEN {} ELSE ApiQuota(r)))

Count(r) ==
  LET tracked == Tracked(r)
      charged == Charged(r)
      refused == Refused(r)
  IN  /\ \A c \in tracked : hits[c].cur < MaxCount
      /\ hits' = Hit(hits, tracked)
      /\ asked' = Hit(asked, charged)
      /\ granted' = [c \in Counters |->
           granted[c] + (IF ~refused /\ c \in charged THEN 1 ELSE 0)]

-----------------------------------------------------------------------------
Banned(c) == ban[c] > 0 /\ c \notin Internal

(* Mutant: conn_cur is compared before this stream is counted, and with gt *)
ComparedFirst == backend + local > MaxConn

(* track-sc1 counts this stream too, then conn_cur is compared with ge. *)
TooManyConn == backend + local + 1 >= MaxConn

AnswerLocally == local < MaxLocal /\ local' = local + 1 /\ UNCHANGED backend

(* Mutant: looking the ban up renews it. *)
RenewingDeny(r) ==
  /\ Banned(r.ip)
  /\ ban' = [ban EXCEPT ![r.ip] = BanTime]
  /\ UNCHANGED <<hits, streams, history>>

(* 403, before anything is tracked; the look-up does not touch the entry. *)
DenyBanned(r) ==
  /\ Banned(r.ip)
  /\ UNCHANGED vars

(* 503 *)
DenyConnection(r) ==
  /\ ~Banned(r.ip)
  /\ TooManyConn
  /\ AnswerLocally
  /\ UNCHANGED <<hits, ban, history>>

(* 429, or 503 with the overload signal *)
DenyLimit(r) ==
  /\ ~Banned(r.ip) /\ ~TooManyConn
  /\ Refused(r)
  /\ Count(r)
  /\ AnswerLocally
  /\ UNCHANGED ban

(* Mutant: nobody is left out. *)
Anyone(c) == TRUE

(* !internal_networks *)
Bannable(c) == c \notin Internal

(* 403: Coraza's verdict bans the client. *)
DenyWaf(r) ==
  /\ ~Banned(r.ip) /\ ~TooManyConn
  /\ ~Refused(r)
  /\ Count(r)
  /\ ban' = [ban EXCEPT ![r.ip] = IF Bannable(r.ip) THEN BanTime ELSE @]
  /\ AnswerLocally

GeoDenied(c) == c \in GeoBlocked \ Whitelisted

(* Not the path that the limits look at. *)
HasBackend(r) == r.host \in {"website", "client"} \/ (HostApi(r) /\ r.base # "none")

(* 403 of the geo block, 404, or a backend *)
Route(r) ==
  /\ ~Banned(r.ip) /\ ~TooManyConn
  /\ ~Refused(r)
  /\ Count(r)
  /\ IF GeoDenied(r.ip) \/ ~HasBackend(r)
     THEN AnswerLocally
     ELSE backend' = backend + 1 /\ UNCHANGED local
  /\ UNCHANGED ban

(* Port 80 shares the connection limit: 503, a redirect or 403. *)
PlainRequest ==
  /\ AnswerLocally
  /\ UNCHANGED <<hits, ban, history>>

(* The last byte of the answer is out. *)
BackendDone ==
  /\ backend > 0
  /\ backend' = backend - 1
  /\ UNCHANGED <<hits, ban, local, history>>

LocalDone ==
  /\ local > 0
  /\ local' = local - 1
  /\ UNCHANGED <<hits, ban, backend, history>>

OneTickLater(entries) == [c \in Counters |-> Aged(entries[c], Period[c[1]])]

Tick ==
  /\ hits' = OneTickLater(hits)
  /\ asked' = OneTickLater(asked)
  /\ granted' = [c \in Counters |->
       IF PeriodEnds(asked[c], Period[c[1]]) THEN 0 ELSE granted[c]]
  /\ ban' = [c \in Clients |-> IF ban[c] > 0 THEN ban[c] - 1 ELSE 0]
  /\ UNCHANGED streams

Next ==
  \/ \E r \in Requests :
       DenyBanned(r) \/ DenyConnection(r) \/ DenyLimit(r) \/ DenyWaf(r) \/ Route(r)
  \/ PlainRequest
  \/ BackendDone \/ LocalDone
  \/ Tick

Spec == Init /\ [][Next]_vars

(* Time passes.  Nobody has to send anything. *)
FairSpec == Spec /\ WF_vars(Tick)

-----------------------------------------------------------------------------
Limit == [c \in Counters |->
  IF c[1] = Overload THEN OverloadLimit[c[2]] ELSE RateLimit[c[1]]]
PeriodOf == [c \in Counters |-> Period[c[1]]]
Charges == {Stages(r) : r \in Requests}

Promise == INSTANCE Quotas WITH
  Quota <- Counters, Period <- PeriodOf, used <- asked

(***************************************************************************)
(* The rules keep the promise of Quotas: of the requests whose paths are   *)
(* spelled as the ACLs spell them, one is refused exactly when its client  *)
(* has used up that one route (health checks and sub-routes have quotas of *)
(* their own), its mail address has (50-frontend-https.cfg:68-78), or its  *)
(* API is full; what an earlier limit refused does not count for a later   *)
(* one ("bereits geblockte Requests zaehlen nicht mit"), and requests in   *)
(* other spellings count nowhere.                                          *)
(***************************************************************************)
KeepsPromise == Promise!Spec

(***************************************************************************)
(* rate-limits.map and overload-limits.map, tests/haproxy/                 *)
(* test_rate_limiting.py: in no period of a counter do more requests of a  *)
(* client on one route, for one mail address or to one API get past the    *)
(* limits than the maps allow, however clients, routes and refusals        *)
(* interleave.  These are the requests that the ACLs assign to a route.    *)
(***************************************************************************)
LimitsHold == Promise!LimitsHold

(***************************************************************************)
(* From CLUSTER_MAXCONN streams on new ones are refused, whichever port    *)
(* they come from and while the refused ones are still being answered: the *)
(* backends never serve as many at once.                                   *)
(***************************************************************************)
ConnectionsBounded == backend < MaxConn

(***************************************************************************)
(* 50-frontend-https.cfg: "Ban laeuft nach 1h ab, auch wenn die gebannte   *)
(* IP weiter Requests schickt".  No client stays banned for good: it has   *)
(* to offend again after its ban.                                          *)
(***************************************************************************)
BansEnd == \A c \in Clients : []<>(ban[c] = 0)
=============================================================================
