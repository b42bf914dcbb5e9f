# Verification of agt-app-haproxy

TLA+ models of the edge proxy in this repository, with TLC runs on small
instances and TLAPS proofs for every value of the constants. Everything is
translated from the code; documents are only quoted where the code contradicts
them.

The system is a cluster of up to three identical edge nodes (`agt-1`..`agt-3`).
Every node runs HAProxy with Coraza, and next to it two Python daemons that
change what HAProxy works with while it runs:

- **geo-manager** downloads blocklists, turns them into a HAProxy map, checks
  the map and has HAProxy reload it;
- **cert-manager** builds a combined PEM from certbot's files and puts it into
  the running HAProxy.

In both, priority 1 is the *master*; the others are *followers*, which poll the
master and follow it after a stage delay (48 h and 96 h).

## 1. Inventory

| Component | State | Operations | Talks to |
|---|---|---|---|
| geo-manager, activation (`main.py:240-369`, `validation.py`, `fetcher.py`, `reload.py`) | `geo_blocklist.map`, `.bak`, `.size`, `whitelist.map` on disk; `_validated_at` in memory | fetch, size check, anchor check, backup, write, `haproxy -c`, restore, size file, reload, stamp | the sources (HTTP), HAProxy (socket, `haproxy -c`); two threads of one process on a master |
| geo-manager, staged rollout (`staging.py`, loops in `main.py`) | `_pending_master_validated_at`, `_validated_at`, the sleeping loops | poll `/geo/status`, decide, activate, deploy-now | the master, the sources |
| geo-manager, lists (`fetcher.py`, `validation.py`) | none (pure) | merge, build map, longest prefix, anchors, size, fail-open | activation |
| geo-manager, cluster health (`cluster_health.py`) | last round, deque of 168 results per mesh node, one lock | probe a round, update, `/cluster`, `/metrics` | the servers of all nodes, its own included |
| cert-manager (`leader.py`, `follower.py`, `state.py`, `reload.py`) | `haproxy.pem` on disk; `_state` (version, validated_since) in memory | build, write, set state, hot swap, status, download, poll, deploy-now | certbot's files, HAProxy's socket, the masters |
| HTTP servers and shutdown (`main.py` of both, `dashboard/server.py`) | the request in hand, the listen backlog | status, reports, download, deploy-now, SIGTERM, SIGKILL | probes, followers, Prometheus, dashboards |
| HAProxy edge (`conf.d/30-50`, maps) | stick tables, counters, bans | connection limit, rate limits, overload, WAF bans, geo block, routing | clients, Coraza, backends |
| dashboard, scripts, compose, metrics, mail | views, counters | read-only, or run by hand | all |

What is hard about it:

- *Threads without a lock.* A master's loop and its deploy-now handler run the
  whole activation on the same three files.
- *Crashes between file operations.* geo-manager writes nothing to a temporary file
  and renames it; every `open(..., "w")` leaves a torn file behind if the process
  dies. (cert-manager does rename its PEM into place.)
- *Three places that must agree.* What was checked, what is on disk and what
  HAProxy has loaded (geo), or file, announced version and served certificate
  (cert), change in separate steps, each of which can fail.
- *Timers across nodes.* Soak times start at one node's clock and are read on
  another's; they live in memory and are lost on a restart.
- *Messages.* A status answer is old when it is used; the version it names may
  be gone when it is downloaded.
- *One thread behind every server.* A request waits behind the one in hand, and
  callers give up without taking theirs back: an activation of minutes on the
  master looks like an outage, and a click on a button is worked off although the
  dashboard has reported its failure. The servers set no timeout on a connection, so a
  client that sends nothing has the thread for itself as long as it stays. A node probes its own server too, which may
  be waiting for the lock of the state that the probing thread fills.
- *Rule order at the edge.* First-match and last-match rules in one section,
  counters that count before or after a decision; the routing folds the case of a path
  and the ACLs on paths do not.

`PROJECT.json` lists these hazards at their lines, with the properties that
cover them, or the reason why none does.

## 2. Models

### GeoActivation

One node: its activating threads (`Workers`), its files, its HAProxy. One
action per statement of `_master_fetch_validate_activate` that another thread, a
crash or HAProxy can come between; `isfile` and the `os.replace` or `os.remove`
that follows are two steps, `open(..., "w")` and the end of the write are two.

| Code | Model |
|---|---|
| retry loops (`main.py:199-223`, `395-408`), deploy-now (`main.py:172-183`) | `Start`, `AttemptFails`; `FetchRetries[w]` is 1 for deploy-now |
| fetch, fail-open, `build_geo_blocklist_map` | `Fetch`, `FetchFails`: a list of `Lists`, or `Permissive` |
| `validate_size`, `validate_anchors` | `SizeOK`, `AnchorsOK`, `CheckPasses`, `Check` |
| backup | `Backup`, `RenameToBackup` |
| `write_maps` | `OpenMap`, `WriteChunk`, `FinishMap`, `OpenWhitelist`, `WriteWhitelist` |
| `validate_syntax` and its two branches | `SyntaxOK`, `SyntaxRejects`, `Restore`, `Clean`, `RemoveBackup` |
| `persist_size` | `OpenSize`, `WriteSize` |
| `trigger_reload` | `ReloadBelieved`, `ReloadGivenUp` |
| `set_validated_at` | `Stamp` |
| container restart, entry point | `Crash`, `HaproxyStops`, `HaproxyStarts` |

A blocklist is a model value with a size and a verdict of the anchor check; a
file is such a list, `Permissive`, `Torn` or `Absent`. File descriptors follow
renames (`Moved`), so that a thread can finish writing into what the other has
already made the backup, or deleted. Two threads that have a file open together
(`dirty`) may tear it or, in the size file, leave the digits of one number over
those of the other (`Mixed`).

### GeoStaging

The loops of a master and its followers, the source, and clocks. `Poll` is one
iteration of the follower's loop up to the decision
(`should_follower_activate` as `ShouldActivate` and `NextPending`), `Fetch`,
`Adopt` and `GiveUp` the rest. `due` says when a loop's sleep ends, so that
deploy-now can be shown to leave it alone. An activation is coarse here
(fetch, in place); its inside is `GeoActivation`. Each node has its own
clock: `Clock(n)` is `now + Skew[n]`.

### CertRollout

Masters, followers, certbot and the HAProxy of each node. A PEM is a pair of
the renewal its chain is from and the renewal its key is from, so that
`build_combined_pem` can catch certbot between its two files. `activate_pem`
is `WriteTarget`, `SetState`, `Apply`; a poll is one message with an answer
(`Ask`), the download another. `HaproxyLoads` and `HaproxyReady` are apart
because HAProxy reads its certificate before it opens the socket that
`reload.py` waits for. `kept` remembers the nodes whose last hot swap failed.

`StagedRollout` is the abstract specification: `copy` of each node, `waited` for
each version, and no messages, threads or failures. `RolloutIsStaged` says that
`CertRollout` implements it with `copy <- pem`, `waited <- soak`: `Deploy` and
`Adopt` are the `WriteTarget` of a master and of a follower, `Announce` is the
first `SetState` for a PEM, everything else is a stutter. (`GeoStaging` does not
implement it: that is what `soak` shows.)

Assumed, and not in the code: the clocks of the nodes agree. A follower takes the
difference of its own clock and the master's `validated_since` (`follower.py:103-105`),
so an offset between the two makes its delay longer or shorter by as much; `age` is
one exact age for both (`GeoStaging` does model clocks that differ). Also assumed: HAProxy refuses a PEM whose key does not fit and keeps the
one it has; a file that HAProxy's entry point finds missing does not appear
between its test and its creation.

### GeoLists

One run of `fetcher.py` from what the sources hold to the lines in
`geo_blocklist.map`, on addresses of 3 bits (IPv4) and 2 bits (IPv6): `FetchMain`,
`FetchIpv6` and `Ipv6Fails` (which goes on with IPv4 for blocks and locations
and ends the run for two CSVs), `Build` (fail-open or `BuildBlocklist`), the anchor
check, and `write_maps` chunk by chunk. What Python's `ipaddress` computes
(`summarize_address_range`, `collapse_addresses`) is stated as `Summary`: the largest
networks inside a set of addresses. The properties do not use it: they speak of addresses
and of the sources' own ranges. Sorting is left out, since a look-up does not depend on the
order of the lines; the size check is a choice here and modelled in
`GeoActivation`, for which a whole run of `GeoLists` is the text of one list.
Two definitions are written so that they can be proved about: `Pow2` is a
recursive function (the provers know nothing of `^`), and `SplitLines` is a closed form,
which it can be because every second symbol of a text is a newline (`TextIs` proves
that of the texts the code writes).

### RateWindows, Quotas, EdgeLimits

`EdgeLimits` is one HAProxy with its two frontends. A request is what the rules
can tell about it: source, host type, the class of its path as the case-sensitive ACLs see
it (`path`), the API whose prefix the lower-cased routing finds (`base`), whether the
path ends in `/health` or `/ready`, and the mail address in `X-Rate-Email`. A path that
the ACLs know is routed to their API (`SpellingAssumption`); one they do not know may
still be routed to an API, if only its capitals differ. Evaluating the rules is
atomic, as in HAProxy; what interleaves is requests, the ends of streams and time.

| Code | Model |
|---|---|
| ban check (`50-frontend-https.cfg:9-11`) | `Banned`, `DenyBanned` |
| connection limit on both ports (`50:34-37`, `40:5-8`) | `TooManyConn`, `DenyConnection`, `PlainRequest`; `backend` and `local` are the streams in `st_global_conn` |
| `track-sc2`, `rl_id` (`50:44-66`) | `TrackRules`, `LimitRules`, `Slot2`, `OverRate` |
| `track-sc4`, `rl_mail_id` (`50:71-78`) | `MailRules`, `Slot4`, `OverMailRate` |
| `track-sc3`, `ol_id` (`50:83-92`) | `OverloadRules`, `Slot3`, `Overloaded` |
| which of them are evaluated before a rule answers | `Tracked`, `Count`, `DenyLimit` |
| WAF ban (`50:94-98`), geo block and routing (`50:100-113`) | `DenyWaf`, `GeoDenied`, `HasBackend`, `Route` |
| stick tables (`30-stick-tables.cfg`) | `hits`, `ban`; `RateWindows` says what an entry is and how HAProxy estimates a rate from it |

The lists of rules are kept as lists: `FirstOf` picks what `track-sc` does, `LastOf`
what `set-var` does. `asked` and `granted` are history variables: the requests
that *should* have been charged, and those of the running period that got past all
limits, defined by route, mail address and API and not by the rules. They are about
paths in the spelling of the ACLs; other requests belong to no quota, in the code as in
the model, although some of those reach an API (see section 4). `Quotas` is the abstract
specification: a request is held against its quotas stage by stage, the first that is
exceeded refuses it, and later stages never learn of it. `KeepsPromise` says
that `EdgeLimits` implements it with `used <- asked`.

Taken for granted about HAProxy: the first matching `track-sc` of a slot counts
and the last matching `set-var`; `conn_cur` includes the stream that is being
looked at; `http_req_rate` is the count of the running period plus the share of the
period before that has not passed yet, and an entry that expires some time after its
period takes at most a rest of that share with it, which only makes HAProxy more lenient
at the beginning of the next period and not within one; Coraza's verdict is known before the rules
run and may be anything. One node: peers that synchronise the tables, reloads and
evictions from full tables are not modelled.

### HealthReports, ClusterHealth, StatusServers

`ClusterHealth` is the probing thread of every geo-manager and its
`ClusterHealthState`, field by field under its lock.

| Code | Model |
|---|---|
| `run_cluster_health_loop` (`main.py:433-451`) | `ProberStarts` (not without mesh nodes), `ProberWakes` |
| `run_cluster_probe`, `probe_node` | `Target`, `MoreToProbe`, `Probed`: the round so far is `batch` |
| `update` | `UpdateLocks`, `UpdateStamps`, `UpdateSets`, `UpdateAppends`; `Push` is the deque |
| `to_json_dict`, `to_prometheus` | `ReadBegins` takes the lock, `ReadPart` copies one field, `ReadEnds` |
| `_send_cluster`, `_send_metrics` | `ReportSent` |

`lastProbe` is the number of the round instead of its time. `log` is a history
variable: all rounds of the process. `HealthReports` is the abstract
specification: rounds are added in one step, and an answer is a function
(`ReportOf`) of the rounds so far. `ReportsAreSnapshots` says that
`ClusterHealth` implements it. On its own, `ClusterHealth` lets probes succeed
or fail at will.

`StatusServers` extends it with the HTTP servers and everyone who calls them.
`server[n]` is where the main thread is; `queue[n]` is the backlog of the
listening socket, in which the kernel accepts connections whatever the thread
does; `call[c]` is what a caller knows. Callers are the probing threads, the
deploy buttons of the dashboards (`Click`, one at a time per dashboard, as its
server is single-threaded as well) and visitors who ask for whatever `Visits`
allows again and again.

| Code | Model |
|---|---|
| `serve_forever`, `do_GET`, `do_POST` | `Accepts` |
| `HTTPServer` without a timeout (`main.py:456`) | `AwaitsRequest`, `EndsAwaiting`: a connection that brings no request |
| `/health`, `/geo/status` | `ServeStatus` |
| `/cluster`, `/metrics` | `BeginReport`, `LocksReport`, `ReadsReport`, `EndsReport`, `SendsReport` |
| `/geo/deploy-now` | `Refuse` (403), `StartRun`, `EndRun`; the run itself is `GeoActivation` |
| a client that is gone (`_send_plain`) | `Answers`, `Unclaimed` |
| timeouts of the callers (3, 5 and 10 s) | `GivesUp`, possible where the server is `Slow`; for a silent client, hanging up |
| signal handler (`main.py:459-464`) | `Stop`: the thread waits for itself |
| `stop_grace_period`, `restart: always` | `Kill`, `Start` |

Work without a wait in it is taken to be quick: an answer arrives in time unless
the server is at a run, waiting for the bytes of a request, stopped, or waiting for a
lock whose holder waits for other nodes. Those four are what `Slow` names. The code
never does the last; it is there so that `UnreachableIsExcused` would notice if it did.
`Sends` puts a connection and what is sent on it into the backlog in one step. That is
how the callers in this repository behave; everybody else may send "silence", which
stands for nothing or only part of a request. A client that sends the rest late is one
that hangs up and calls again. Answers are small enough for the buffers of a socket, so
writing one does not wait.

## 3. Runs

| Run | Instance | Question |
|---|---|---|
| `node` | one thread, 3 lists, every failure, 2 failures | does HAProxy only take over checked lists, does a node that offers a map have a checked one on disk at rest, is the size baseline that of a checked list, and does the node get there once failures stop? |
| `master` | loop and deploy-now, a good list and one that blocks an anchor | can an interleaving get a bad list onto disk; can a thread hang? |
| `race` (violation) | loop and deploy-now | "all must pass before activating" |
| `restore` (violation) | one thread, crash, rejected list | "on a syntax error the backup is restored" |
| `rollout` | master, follower, fetch interval 3, poll interval 2, delay 4, two releases, 2 troubles, a fast clock | do releases arrive in time, are updates spaced? |
| `soak` (violation) | master, follower, three releases, no trouble | "only what soaked on the master" |
| `cert` | master, follower, two renewals, 2 failures of any kind | is the rollout staged as `StagedRollout` says, does HAProxy serve what its node announces unless a hot swap failed, do all nodes converge? |
| `announced` (violation) | master, follower, one failed swap | "`version` is the active PEM" |
| `lists` | every range against another of the same or another country, with and without IPv6; three blocks with known and unknown locations; chunks of 0, 1 and 2 lines | does HAProxy deny exactly the addresses that the data put into a denied country; is the chunked file the text; does any line hold an anchor? |
| `edge` | two clients of one IPv6 network and one of another (one geo-blocked, one whitelisted, both of these internal), requests for a sub-route with a mail address, its API, a health check, the API in capitals, and no API; limits of 1, periods of 1 and 2 ticks, bans of 2, a limit of 2 connections | do the rules keep the promise of `Quotas`, does every quota hold, are the backends protected, do bans end? |
| `servers` | master and a follower that probes both, history of 2, 3 rounds, one click, somebody who reads the follower's `/cluster`, somebody who deploys with curl on the follower or connects to the master and sends nothing, backlogs of 1, one stop of the master or crash of the follower | are answers of one moment and outages exact, does a click run once, does a node look down without reason, who waits for ever and behind whom? |
| `shutdown` (violation) | the two nodes, a click, one stop | "Graceful shutdown" |

**Bounds.** Two failures are enough for one to interrupt the recovery from
another, which is the case the code treats differently (a leftover backup, a
half-written file *and* a rejected list). Three lists cover both directions of
the size check and a bad anchor; `Recovers` asks for
acceptable lists that keep coming, because a source that offers only shrinking
ones is rightly rejected for good. In `rollout` the master's interval, the poll interval and the delay are in
the proportions 3:2:4 (the code has 24 h:1 h:48 h), so that the master's and the
follower's wake-ups meet in every order and a poll interval has a tick inside it. The bound of
`ReleasesArrive` is what the code implies at worst: a fetch interval until the
master has the release, the follower's `Lag` (its delay, and what its clock adds or takes),
two poll intervals (one poll learns the news, a later one sees that the delay is
over), and the longer of the two intervals for each trouble. One tick less is
violated on this instance. In `cert` a delay of 1 with
ages up to 1 is exact for "the delay has passed or not", the only thing the code
asks of a time. In `edge` a counter takes up to two requests in a period
(`MaxCount`), one more than the limit, and the mail quota has a period of two ticks so
that requests of one period, of the next and of the middle of one meet in it; one stream
at a backend is enough, since the limits do not look at streams; with `MaxConn` 2 a
second one must be refused, and two streams that are answered locally let either port
fill the limit. In `servers` the third round is the first
to push a result out of a deque of 2, a mesh list of two is the least in which a
round can be half done, and a backlog of one is full as soon as somebody waits;
the code's 168 and 5 differ only in how long that takes.

**Deadlock** is checked everywhere except in `GeoStaging`, whose clock stops at
`MaxTime`, in `GeoLists`, where a run ends, and in
`StatusServers`, which may rest once the rounds are used up and nobody calls;
`RequestsEnd` and `RoundsEnd` say there that nobody is left waiting.

**Fairness.** The loops of both daemons catch every exception and go on
(`main.py:199-223`, `425-430`, `cert_manager/main.py`, `follower.py:186-206`), docker
restarts the containers (`restart: always`,
`docker-compose.yaml:46,72,155,198,228`), and time passes. Hence weak fairness
on a thread's steps, on the start of HAProxy and on the clock. In `edge` only
the clock is fair. In `servers` the fairness of a server and of a probing thread
is strong: they contend for the lock and for places in a backlog, and both are
given to those who wait. It does not reach a server that reads from a silent client: no
step of the server is possible until that client hangs up, and nothing makes it. So
`RequestsEnd` says that whoever waits for ever waits at a server that such a client never
leaves, and `RoundsEnd` that the probing threads, which have timeouts, get on regardless.
`Kill` is weakly fair there because docker does not
forget it; without it (`ProgramSpec`) `shutdown` shows that the process alone
never ends. Failures, renewals, releases, deploy-now and requests are owed
nothing.

**Mutants.** Every property of every passing run has a mutant in
`PROJECT.json`: a definition with a plausible bug (a dropped reset, an
exception that is only logged, a rename that refuses to replace) under which TLC
finds that property violated.

## 4. What the runs found

1. **`race`.** The threads of a master share the files and no lock. Thread A
   passes `haproxy -c`, thread B truncates or rewrites the map, A reloads:
   HAProxy serves a map that nobody checked, or half of one. Single-threaded nodes
   cannot do this (proved). Even on a master a list that blocks an
   anchor cannot get through (proved).
2. **`restore`.** A crash inside `write_maps` leaves a half-written map and a good
   backup. The next attempt renames the half-written map over the good backup;
   if its own list is rejected, the half-written one is "restored".
3. **`soak`.** The timer is that of the master's first newer
   publication, but the follower downloads what the source serves when the timer ends.
4. **`announced`.** The version is set before the hot swap and stays when the
   swap fails. Followers compare versions only, so nothing repeats the swap. This is
   the only way to announce what is not served (`ServesWhatItAnnounces`, proved).
5. **`shutdown`.** The handler of SIGTERM calls `server.shutdown()` in the thread
   that runs `serve_forever`, and so waits for itself. The process answers
   nobody any more while its other threads go on, until docker kills it after
   `stop_grace_period`. cert-manager and the dashboard have the same handler.
Two more places where documents and configuration disagree were met while modelling
`EdgeLimits`. The model does what the configuration does, and no run is spent on them:

- The backend of a request is looked up with `base,lower`
  (`50-frontend-https.cfg:108`), while `path_beg` in the ACLs of tracking, limits and
  overload protection (`26-31`) tells capitals from small letters. The two do not agree
  on which requests belong to an API, so the overload counter, of which line 80 says
  "Zählt ALLE Requests pro Backend", misses those whose path has capitals, and no limit
  per client sees them. `LimitsHold` and `KeepsPromise` are therefore stated for the
  requests that the ACLs recognise, and the run has requests of the other kind.
- `Rate-Limiting.md` (38, 99-104, 262) says that limits per mail address
  exist "ausschließlich in den APIs". The edge has them too
  (`50-frontend-https.cfg:68-78`, `rate-limits.map:14-15`), and refuses with 429.

## 5. Proofs

All are proved by TLAPS for any number of threads, nodes, lists, delays and
failures. They use the named assumptions of the modules (which TLC evaluates on
every run) and nothing else.

- **GeoActivationProofs.** `TypeCorrect`. `OneWorkerActivatesValidatedMaps` and
  `OneWorkerBaseline` rest on `AloneInv`: the only open descriptor is the
  worker's own, from the end of its write to its stamp the map on disk is its
  job, and from the accepted check on that job has passed. `OnlyValidatedMapsActivated` is not
  inductive by itself: what is loaded is what is on disk, so the disk has
  to be tied to the job and the job to its checks. With two workers
  the first conjunct fails, which is what `race` shows.
  `OneWorkerAdvertisesValidatedMaps` adds `AdvertisedInv`: a checked map is in
  place, or it is the backup while the worker overwrites the map. It
  speaks of nodes whose disk has not failed since the last run that succeeded
  (`diskFailed`), because a write error skips the restoring of the backup.
  `AnchorsSafe` holds for any number of workers: `AnchorInv` says that every
  worker past the check carries a safe list, and whole files only ever come
  from such workers.
- **GeoStagingProofs.** `TypeCorrect` (with the wake-up times of the loops) and
  `UpdatesSpaced`, from `SoakInv`: a running timer started after the follower's
  own last activation, and a follower that is activating an update has waited
  its delay since then. The clock skew cancels because a follower compares
  its own clock with a time that is later than its own stamp.
  `ReleasesArriveInTime` proves the bound of `ReleasesArrive` for any cluster,
  intervals, delays and clocks. What makes it inductive is `DeadlineInv`: for a follower whose list is
  superseded, `InTime` bounds the next thing that has to happen. As long as the master has
  nothing newer than the follower's stamp, the master's wake-up is due before `NewsDue`; once it
  has, the follower's wake-up is due a poll later; once the timer runs, it is due before
  `Deadline`. A trouble that lets a wake-up pass in vain also moves these bounds by an
  interval. Stamps are tied to the time of the release as well (a timer started with the
  first news, the follower's own stamp is older than the release), which is where clock skew
  comes in. The cases are one lemma each about plain numbers
  (`WakesInTime`, `PollWaits`, `PollActivates`, `PollSetback`, `FollowerRestarts`,
  `MasterPublishes`, ...); `NextDeadline` puts them together, one step per action.
- **GeoListsProofs.** `TypeCorrect`, `DeniesByCountry`, `WritesText` and
  `AnchorsStayOut`, for addresses of any length, any sources and any size of
  chunks. Three layers of lemmas carry them. Arithmetic of networks: `Pow2Def` (the recursive
  function exists; by least counterexample, `LeastNatural`), `HostNetwork`
  (every address is a network of its own). Aggregation: `SummaryCovers` says that `Summary(A)`
  covers exactly `A`, since of the networks inside `A` that hold an address one of shortest
  prefix lies in no other one (`NoSmallerCover`); `RangeCovers` and `BlocklistCovers` follow, so what is
  proved does not depend on how `ipaddress` finds its networks. Text: `LinesAreNetworks`, `JoinIs` and
  `TextIs` say which symbol is at which place, and `ChunkIs` that a chunk is the piece of the text
  that comes next. `Inv` ties lines to entries, list to lines, text to list, and the file to
  the first `Written` symbols of the text. `NoLongestNone` shows that
  the look-up by longest prefix, with which `validate_anchors` works, overlooks
  no line.
- **CertRolloutProofs.** `TypeCorrect` and `UpdatesAreStaged`. `AgeInv`: a PEM a
  master announces has been announced at least as long as its
  `validated_since` says (a repeated deploy-now makes the age *smaller*, never
  larger). `DueInv`: a follower that has a PEM and downloads or writes another has
  seen that one announced for its delay. `RolloutKeepsStages` is the refinement of
  `StagedRollout`; it also needs `InPlaceInv` (from the write to the end of
  `activate_pem` the file is the one to be announced) and `SeenInv` (what a
  follower fetches has been announced, bootstrap or not). It holds for any number
  of masters and any subset of them that a poll reaches, so also when the check
  for a second master fails to see it. `AnnouncedIsServed` adds `OnDiskInv`: outside
  of a deployment the announced PEM is the file on disk, so that any restart of
  HAProxy loads it, and at the hot swap it is the one swapped in; a crash between
  the two leaves nothing announced until the node deploys again.
- **QuotasProofs.** `LimitsAreKept`: in `Quotas` no quota
  grants more than its limit in one period of its counter. `GrantedInv`: what is granted
  in the running period is part of what its counter holds, so it is at most the
  estimated rate, and a rate that the limit allows for one more request asked allows it
  for one more granted; when the period ends, both start again. `WithCounts` and
  `AgedKeeps` say what a request and a tick do to one stick-table entry.
- **EdgeLimitsProofs.** `TypeCorrect`, `BackendsAreProtected`, `RulesKeepPromise`
  and `LimitsAreNeverExceeded`, for any clients, mail addresses, requests, limits
  and periods. The heart is `ClientRules` (with `MailSlot` and `OverloadRulesAgree`):
  reading the tracking rules from the front and the limit rules from the back
  gives the same route on every request, although the tracking rules do not say
  `!path_health_ready`. From it `StagesRefuse` and `ChargedIsConsulted` show that the
  three deny rules are the three stages of `Quotas`, and every step maps to `Ask`,
  `Tick` or a stutter, for every spelling of a path: what the ACLs do not recognise is in
  no quota and is charged with none. The last theorem carries `LimitsAreKept` over through that
  refinement (`SameWindows`: an entry is the same thing to both modules). Overload limits are assumed positive, as in `overload-limits.map`
  (the rule treats 0 as "no limit").
- **ClusterHealthProofs.** `HealthTypeCorrect` and `ReportsAreOfOneMoment`, the
  refinement of `HealthReports`, for any nodes, mesh lists and history.
  `HealthInv` has three parts: who holds the lock is who is at a locked step;
  outside an update the fields say what `log` says, and inside it each has its
  old or its new value by where the thread is; what a reader has copied is the
  beginning of the answer that `log` gives. `Push` of a result onto the end of a
  log is the end of the longer log. `OutagesAreOfRounds` takes one more invariant,
  about the answer and the log alone, which the steps of `HealthReports` keep.
  Its kernel (`OutageLemma`) says that the positions from which on all results
  are failures are the last ones; it counts them by comparing with intervals,
  without induction.
- **StatusServersProofs.** `TypeCorrect`, `ServersReportSnapshots` and
  `ServersTellExactOutages` (every step of
  the servers is a step of `ClusterHealth` or leaves it alone, so what is proved there carries over), `ClicksRunOnce` and `UnreachableHasAReason`. `ServersInv` says
  whose requests are where: a click is in at most one backlog or hand, and once
  its run has started in no backlog; a probing thread in the middle of a
  round does not hold the lock, so that no report behind which a probe waits
  can last; a server that waits for a request does so on a connection that a
  visitor left silent. What remains are the reasons that `UnreachableHasAReason` names.

Every safety and action property of the passing runs, and both refinements of
abstract specifications, are proved. Only model-checked: the liveness properties `BansEnd`, `Recovers`, `RunsEnd`,
`RequestsEnd`, `RoundsEnd` and `Converges` (liveness and `ENABLED` are beyond the
prover). Taken as stated and not derived: what Python's `ipaddress` computes
(`Summary`), and `SetToSeq`, some order of the lines.

## 6. Not modelled

- *Metrics, mail, logging, configuration parsing*: no influence on the control
  flow (the senders never raise).
- *Coraza, certbot, docker*: third-party; their effect on the files and processes is
  in the models.
- *Scripts* (`deploy-haproxy-certs.sh` is the SSH rollout that cert-manager
  replaces), *error pages, the dashboard's views* (they reformat what
  they read); its deploy buttons are in `StatusServers`. cert-manager's server has
  the structure of geo-manager's; its handlers are actions of `CertRollout`.
- *A mesh list with a node named twice*: the deques are per address in the code and
  per place in the list here. Latencies and error texts are left out, and
  `update_and_get_json`, which the program does not call.
- *Synchronised stick tables*: what peers exchange, and the time it takes, is
  HAProxy's own; `edge` is one node.
- *geo-manager as two masters*, `CLUSTER_NODES` that differ between nodes.

## 7. Plan

Done: the components above, in order of what goes wrong worst. To come:

1. A second master in a run of `CertRollout` (its theorems hold for any number; an
   instance with two masters and two renewals does not finish in minutes).
2. Clocks that differ in `CertRollout`, as `GeoStaging` has them.
