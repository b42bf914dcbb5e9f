---------------------------- MODULE GeoActivation ----------------------------
(***************************************************************************)
(* Activation of a geo blocklist on ONE node: the function                 *)
(* _master_fetch_validate_activate of geo_manager/main.py with everything  *)
(* it calls, the threads that run it, the files it works on, and the       *)
(* HAProxy that loads those files.                                         *)
(*                                                                         *)
(* The function takes no lock.  On a follower only the polling thread runs *)
(* it.  On the master the periodic thread and the HTTP thread (POST        *)
(* /geo/deploy-now) both do, and nothing keeps them apart.                 *)
(***************************************************************************)
EXTENDS Integers

CONSTANTS
  Workers,       \* threads that run the activation on this node
  FetchRetries,  \* attempts of a run, per worker (1 for deploy-now)
  Lists,         \* blocklist texts that the source's answers turn into
  Size,          \* length in bytes of each of them
  AnchorSafe,    \* those that block none of ANCHOR_IPS
  ThresholdPct,  \* SIZE_DEVIATION_THRESHOLD, in percent
  FaultKinds,    \* the kinds of failure that can happen
  MaxFaults      \* BOUND: how many failures happen in a behaviour

Absent     == "absent"      \* the file is not there
Torn       == "torn"        \* truncated, half written or overwritten in part
Permissive == "permissive"  \* the empty blocklist of fail-open: blocks nobody
Mixed      == "mixed"       \* digits of two numbers written over each other
Down       == "down"        \* no HAProxy is running
NoJob      == "nojob"

Contents == Lists \cup {Permissive}
MapData  == Contents \cup {Torn}
WhiteData == {"empty", "complete", Torn}
Kinds    == {"fetch", "io", "syntax", "reload", "crash", "haproxy"}
Names    == {"map", "bak"}

ASSUME WorkersAssumption == FetchRetries \in [Workers -> Nat \ {0}]
ASSUME ListsAssumption ==
  /\ Lists \cap {Absent, Torn, Permissive, Mixed, Down, NoJob} = {}
  /\ Size \in [Lists -> Nat]
  /\ AnchorSafe \subseteq Lists
  /\ ThresholdPct \in Nat
ASSUME FaultsAssumption == FaultKinds \subseteq Kinds /\ MaxFaults \in Nat

VARIABLES
  file,         \* geo_blocklist.map and geo_blocklist.map.bak on disk
  white,        \* whitelist.map on disk
  baseline,     \* geo_blocklist.map.size: the list whose length it holds
  pc,           \* where each worker is
  attempt,      \* failed attempts of its current run
  job,          \* the blocklist text it is activating
  fd,           \* the file its open descriptor points to
  dirty,        \* workers whose open file another worker has open as well
  validatedAt,  \* _validated_at is set (in memory; GET /geo/status shows it)
  served,       \* the blocklist the running HAProxy has loaded
  servedWhite,  \* the whitelist it has loaded
  passed,       \* history: blocklists that passed every check
  diskFailed,   \* history: a write failed since the last run that succeeded
  faults        \* failures so far

files   == <<file, white, baseline>>
threads == <<pc, attempt, job, fd, dirty>>
haproxy == <<served, servedWhite>>
history == <<passed, diskFailed>>
vars    == <<files, threads, haproxy, validatedAt, history, faults>>

Labels == {"idle", "fetch", "check", "backup", "rename", "open", "write",
           "wopen", "wwrite", "syntax", "restore", "clean", "remove",
           "sizeOpen", "sizeWrite", "reload", "stamp"}

(***************************************************************************)
(* Type invariant: every variable keeps the values its declaration names.  *)
(***************************************************************************)
TypeOK ==
  /\ file \in [Names -> MapData \cup {Absent}]
  /\ white \in WhiteData \cup {Absent}
  /\ baseline \in Contents \cup {Absent, Torn, Mixed}
  /\ pc \in [Workers -> Labels]
  /\ attempt \in [Workers -> Nat]
  /\ \A w \in Workers : attempt[w] < FetchRetries[w]
  /\ job \in [Workers -> Contents \cup {NoJob}]
  /\ \A w \in Workers : pc[w] \notin {"idle", "fetch"} => job[w] \in Contents
  /\ fd \in [Workers -> Names \cup {"gone", "closed"}]
  /\ dirty \subseteq Workers
  /\ validatedAt \in BOOLEAN
  /\ served \in MapData \cup {Down}
  /\ servedWhite \in WhiteData \cup {Absent}
  /\ passed \subseteq Contents
  /\ diskFailed \in BOOLEAN
  /\ faults \in 0..MaxFaults

(* A fresh installation: the repository ships neither map. *)
Init ==
  /\ file = [n \in Names |-> Absent]
  /\ white = Absent
  /\ baseline = Absent
  /\ pc = [w \in Workers |-> "idle"]
  /\ attempt = [w \in Workers |-> 0]
  /\ job = [w \in Workers |-> NoJob]
  /\ fd = [w \in Workers |-> "closed"]
  /\ dirty = {}
  /\ validatedAt = FALSE
  /\ served = Down
  /\ servedWhite = Absent
  /\ passed = {}
  /\ diskFailed = FALSE
  /\ faults = 0

-----------------------------------------------------------------------------
Fault(kind) == kind \in FaultKinds /\ faults < MaxFaults /\ faults' = faults + 1

Goto(w, label) == pc' = [pc EXCEPT ![w] = label]

(* Mutant: one retry too many. *)
OneRetryMore(w) ==
  LET again == attempt[w] < FetchRetries[w]
  IN  /\ pc' = [pc EXCEPT ![w] = IF again THEN "fetch" ELSE "idle"]
      /\ attempt' = [attempt EXCEPT ![w] = IF again THEN @ + 1 ELSE 0]
      /\ job' = [job EXCEPT ![w] = NoJob]

(* Mutant: retries until it succeeds. *)
RetryForever(w) ==
  /\ Goto(w, "fetch")
  /\ UNCHANGED attempt
  /\ job' = [job EXCEPT ![w] = NoJob]

(* The exception leaves the attempt; the caller tries again while it may. *)
AttemptFails(w) ==
  LET again == attempt[w] + 1 < FetchRetries[w]
  IN  /\ pc' = [pc EXCEPT ![w] = IF again THEN "fetch" ELSE "idle"]
      /\ attempt' = [attempt EXCEPT ![w] = IF again THEN @ + 1 ELSE 0]
      /\ job' = [job EXCEPT ![w] = NoJob]

(* Workers, w apart, with the file open that w opens now: w's open         *)
(* truncates under them, and they and w go on writing into the same file.  *)
DirtyAfterOpen(w, others) ==
  (dirty \ {w}) \cup (IF others = {} THEN {} ELSE others \cup {w})

(***************************************************************************)
(* Fetch: retries exhausted is an exception; an empty or short answer      *)
(* turns into the permissive list, any other into a blocklist.             *)
(***************************************************************************)
Start(w) ==
  /\ pc[w] = "idle"
  /\ Goto(w, "fetch")
  /\ UNCHANGED <<files, attempt, job, fd, dirty, haproxy, validatedAt, history,
                 faults>>

Fetch(w) ==
  /\ pc[w] = "fetch"
  /\ \E c \in Contents : job' = [job EXCEPT ![w] = c]
  /\ Goto(w, "check")
  /\ UNCHANGED <<files, attempt, fd, dirty, haproxy, validatedAt, history,
                 faults>>

FetchFails(w) ==
  /\ pc[w] = "fetch"
  /\ Fault("fetch")
  /\ AttemptFails(w)
  /\ UNCHANGED <<files, fd, dirty, haproxy, validatedAt, history>>

(* Checks on the text, before anything is written. *)
SizeOf(c) == IF c \in Lists THEN Size[c] ELSE 0

(* No number to compare with, a number below 1, or no great shrinking.     *)
SizeOK(c) ==
  \/ SizeOf(baseline) <= 0
  \/ 100 * SizeOf(c) >= ThresholdPct * SizeOf(baseline)

AnchorsOK(c) == c \in AnchorSafe \cup {Permissive}

(* Mutant: one of the two checks is enough. *)
AnyCheckPasses(c) == c = Permissive \/ SizeOK(c) \/ AnchorsOK(c)

CheckPasses(c) == (c = Permissive \/ SizeOK(c)) /\ AnchorsOK(c)

Check(w) ==
  /\ pc[w] = "check"
  /\ \/ /\ CheckPasses(job[w])
        /\ Goto(w, "backup")
        /\ UNCHANGED <<attempt, job>>
     \/ /\ ~CheckPasses(job[w]) \/ (baseline = Mixed /\ job[w] # Permissive)
        /\ AttemptFails(w)
  /\ UNCHANGED <<files, fd, dirty, haproxy, validatedAt, history, faults>>

(***************************************************************************)
(* Files.  Descriptors follow a file when it is renamed: Moved says        *)
(* where the descriptors open on "map" and "bak" point afterwards.         *)
(***************************************************************************)
Moved(from, to) ==
  [v \in Workers |-> CASE fd[v] = from -> to
                       [] fd[v] = to   -> "gone"
                       [] OTHER        -> fd[v]]

Rename(from, to) ==
  /\ file' = [file EXCEPT ![to] = file[from], ![from] = Absent]
  /\ fd' = Moved(from, to)

(* isfile(geo_map_path), then os.replace to the backup name: two steps, so *)
(* that the map can disappear in between (FileNotFoundError).              *)
Backup(w) ==
  /\ pc[w] = "backup"
  /\ Goto(w, IF file["map"] # Absent THEN "rename" ELSE "open")
  /\ UNCHANGED <<files, attempt, job, fd, dirty, haproxy, validatedAt, history,
                 faults>>

(* Mutant: a rename that refuses to replace a backup left behind. *)
RenameUnlessBackup(w) ==
  /\ pc[w] = "rename"
  /\ \/ /\ file["map"] # Absent /\ file["bak"] = Absent
        /\ Rename("map", "bak")
        /\ Goto(w, "open")
        /\ UNCHANGED <<attempt, job>>
     \/ /\ file["map"] = Absent \/ file["bak"] # Absent
        /\ AttemptFails(w)
        /\ UNCHANGED <<file, fd>>
  /\ UNCHANGED <<white, baseline, dirty, haproxy, validatedAt, history, faults>>

RenameToBackup(w) ==
  /\ pc[w] = "rename"
  /\ \/ /\ file["map"] # Absent
        /\ Rename("map", "bak")
        /\ Goto(w, "open")
        /\ UNCHANGED <<attempt, job>>
     \/ /\ file["map"] = Absent
        /\ AttemptFails(w)
        /\ UNCHANGED <<file, fd>>
  /\ UNCHANGED <<white, baseline, dirty, haproxy, validatedAt, history, faults>>

(* write_maps: open(..., "w") truncates, the text follows in chunks.       *)
OpenMap(w) ==
  /\ pc[w] = "open"
  /\ file' = [file EXCEPT !["map"] = Torn]
  /\ fd' = [fd EXCEPT ![w] = "map"]
  /\ dirty' = DirtyAfterOpen(w, {v \in Workers : fd[v] = "map"})
  /\ Goto(w, "write")
  /\ UNCHANGED <<white, baseline, attempt, job, haproxy, validatedAt, history,
                 faults>>

(* A chunk lands in a file that another worker has completed meanwhile.    *)
WriteChunk(w) ==
  /\ pc[w] = "write"
  /\ w \in dirty /\ fd[w] \in Names /\ file[fd[w]] # Torn
  /\ file' = [file EXCEPT ![fd[w]] = Torn]
  /\ UNCHANGED <<white, baseline, threads, haproxy, validatedAt, history, faults>>

(* The last chunk and close: the file is whole unless others wrote into it *)
FinishMap(w) ==
  /\ pc[w] = "write"
  /\ IF fd[w] \in Names
     THEN \E d \in {job[w]} \cup (IF w \in dirty THEN {Torn} ELSE {}) :
            file' = [file EXCEPT ![fd[w]] = d]
     ELSE UNCHANGED file
  /\ fd' = [fd EXCEPT ![w] = "closed"]
  /\ dirty' = dirty \ {w}
  /\ Goto(w, "wopen")
  /\ UNCHANGED <<white, baseline, attempt, job, haproxy, validatedAt, history,
                 faults>>

(* whitelist.map: always the same text, truncated and then written.        *)
OpenWhitelist(w) ==
  /\ pc[w] = "wopen"
  /\ white' = Torn
  /\ Goto(w, "wwrite")
  /\ UNCHANGED <<file, baseline, attempt, job, fd, dirty, haproxy, validatedAt,
                 history, faults>>

WriteWhitelist(w) ==
  /\ pc[w] = "wwrite"
  /\ white' = "complete"
  /\ Goto(w, "syntax")
  /\ UNCHANGED <<file, baseline, attempt, job, fd, dirty, haproxy, validatedAt,
                 history, faults>>

(***************************************************************************)
(* haproxy -c on the files as they are now.  A missing map is an error; a  *)
(* torn one may parse or not; whole files parse, unless the check itself   *)
(* fails (time limit, memory limit, a broken configuration).               *)
(***************************************************************************)
Parses == file["map"] # Absent

SyntaxOK(w) ==
  /\ pc[w] = "syntax"
  /\ Parses
  /\ Goto(w, "clean")
  /\ passed' = passed \cup (IF file["map"] = job[w] THEN {job[w]} ELSE {})
  /\ UNCHANGED <<files, attempt, job, fd, dirty, haproxy, validatedAt,
                 diskFailed, faults>>

(* Mutant: the verdict of haproxy -c is logged and nothing more. *)
SyntaxRejectionLogged(w) ==
  /\ pc[w] = "syntax"
  /\ \/ /\ file["map"] \in {Absent, Torn} \/ white = Torn
        /\ UNCHANGED faults
     \/ Fault("syntax")
  /\ Goto(w, "clean")
  /\ UNCHANGED <<files, attempt, job, fd, dirty, haproxy, validatedAt, history>>

SyntaxRejects(w) ==
  /\ pc[w] = "syntax"
  /\ \/ /\ file["map"] \in {Absent, Torn} \/ white = Torn
        /\ UNCHANGED faults
     \/ Fault("syntax")
  /\ Goto(w, "restore")
  /\ UNCHANGED <<files, attempt, job, fd, dirty, haproxy, validatedAt, history>>

(* Mutant: the rejected map stays where it is. *)
RestoreForgotten(w) ==
  /\ pc[w] = "restore"
  /\ AttemptFails(w)
  /\ UNCHANGED <<files, fd, dirty, haproxy, validatedAt, history, faults>>

(* Put the backup back, if there is one, and give up the attempt.          *)
Restore(w) ==
  /\ pc[w] = "restore"
  /\ IF file["bak"] # Absent THEN Rename("bak", "map") ELSE UNCHANGED <<file, fd>>
  /\ AttemptFails(w)
  /\ UNCHANGED <<white, baseline, dirty, haproxy, validatedAt, history, faults>>

(* isfile(backup_path), then os.remove: again two steps.                   *)
Clean(w) ==
  /\ pc[w] = "clean"
  /\ Goto(w, IF file["bak"] # Absent THEN "remove" ELSE "sizeOpen")
  /\ UNCHANGED <<files, attempt, job, fd, dirty, haproxy, validatedAt, history,
                 faults>>

RemoveBackup(w) ==
  /\ pc[w] = "remove"
  /\ \/ /\ file["bak"] # Absent
        /\ file' = [file EXCEPT !["bak"] = Absent]
        /\ fd' = [v \in Workers |-> IF fd[v] = "bak" THEN "gone" ELSE fd[v]]
        /\ Goto(w, "sizeOpen")
        /\ UNCHANGED <<attempt, job>>
     \/ /\ file["bak"] = Absent
        /\ AttemptFails(w)
        /\ UNCHANGED <<file, fd>>
  /\ UNCHANGED <<white, baseline, dirty, haproxy, validatedAt, history, faults>>

(* persist_size: open(..., "w") and write.                                 *)
OpenSize(w) ==
  /\ pc[w] = "sizeOpen"
  /\ baseline' = Torn
  /\ dirty' = DirtyAfterOpen(w, {v \in Workers : pc[v] = "sizeWrite"})
  /\ Goto(w, "sizeWrite")
  /\ UNCHANGED <<file, white, attempt, job, fd, haproxy, validatedAt, history,
                 faults>>

WriteSize(w) ==
  /\ pc[w] = "sizeWrite"
  /\ baseline' \in {job[w]} \cup (IF w \in dirty THEN {Mixed} ELSE {})
  /\ dirty' = dirty \ {w}
  /\ Goto(w, "reload")
  /\ UNCHANGED <<file, white, attempt, job, fd, haproxy, validatedAt, history,
                 faults>>

(* Mutant: write errors are caught and logged, and the attempt goes on. *)
DiskErrorLogged(w) ==
  /\ pc[w] \in {"write", "wwrite"}
  /\ Fault("io")
  /\ fd' = [fd EXCEPT ![w] = "closed"]
  /\ dirty' = dirty \ {w}
  /\ Goto(w, IF pc[w] = "write" THEN "wopen" ELSE "syntax")
  /\ diskFailed' = TRUE
  /\ UNCHANGED <<files, attempt, job, haproxy, validatedAt, passed>>

(* The disk refuses a write, or the copy of the configuration for          *)
(* haproxy -c: the exception skips everything that follows, the restoring  *)
(* of the backup included.                                                 *)
DiskFails(w) ==
  /\ pc[w] \in {"open", "write", "wopen", "wwrite", "syntax", "sizeOpen",
                "sizeWrite"}
  /\ Fault("io")
  /\ fd' = [fd EXCEPT ![w] = "closed"]
  /\ dirty' = dirty \ {w}
  /\ AttemptFails(w)
  /\ diskFailed' = TRUE
  /\ UNCHANGED <<files, haproxy, validatedAt, passed>>

(***************************************************************************)
(* trigger_reload.  HAProxy reads both files; if it cannot use them it     *)
(* keeps what it has.  The answer decides what the worker believes: an     *)
(* answer that is empty counts as success, one that is unclear or late as  *)
(* failure.                                                                *)
(***************************************************************************)
Loads == /\ served # Down /\ file["map"] # Absent
         /\ served' = file["map"]
         /\ servedWhite' = white
Keeps == UNCHANGED haproxy

ReloadBelieved(w) ==
  /\ pc[w] = "reload"
  /\ served # Down
  /\ \/ Loads /\ UNCHANGED faults
     \/ Keeps /\ Fault("reload")
  /\ Goto(w, "stamp")
  /\ UNCHANGED <<files, attempt, job, fd, dirty, validatedAt, history>>

ReloadGivenUp(w) ==
  /\ pc[w] = "reload"
  /\ \/ /\ \/ served = Down
           \/ file["map"] \in {Absent, Torn}
           \/ white = Torn
        /\ Keeps /\ UNCHANGED faults
     \/ (Loads \/ Keeps) /\ Fault("reload")
  /\ AttemptFails(w)
  /\ UNCHANGED <<files, fd, dirty, validatedAt, history>>

(* set_validated_at(now): from here on GET /geo/status offers the map.     *)
Stamp(w) ==
  /\ pc[w] = "stamp"
  /\ validatedAt' = TRUE
  /\ Goto(w, "idle")
  /\ attempt' = [attempt EXCEPT ![w] = 0]
  /\ job' = [job EXCEPT ![w] = NoJob]
  /\ diskFailed' = FALSE
  /\ UNCHANGED <<files, fd, dirty, haproxy, passed, faults>>

(***************************************************************************)
(* The geo-manager container dies and docker starts it again: its threads  *)
(* begin anew and _validated_at is None; the files stay as they are.       *)
(***************************************************************************)
MemoryAfterRestart == validatedAt' = FALSE

Crash ==
  /\ Fault("crash")
  /\ pc' = [w \in Workers |-> "idle"]
  /\ attempt' = [w \in Workers |-> 0]
  /\ job' = [w \in Workers |-> NoJob]
  /\ fd' = [w \in Workers |-> "closed"]
  /\ dirty' = {}
  /\ MemoryAfterRestart
  /\ UNCHANGED <<files, haproxy, history>>

HaproxyStops ==
  /\ served # Down
  /\ Fault("haproxy")
  /\ served' = Down
  /\ servedWhite' = Absent
  /\ UNCHANGED <<files, threads, validatedAt, history>>

(* The entry point creates the maps that are missing, empty; then HAProxy  *)
(* loads whatever is on disk.  A torn map may keep it from starting.       *)
HaproxyStarts ==
  LET m == IF file["map"] = Absent THEN Permissive ELSE file["map"]
      l == IF white = Absent THEN "empty" ELSE white
  IN  /\ served = Down
      /\ file' = [file EXCEPT !["map"] = m]
      /\ white' = l
      /\ \/ /\ served' = m
            /\ servedWhite' = l
         \/ /\ Torn \in {m, l}
            /\ UNCHANGED haproxy
      /\ UNCHANGED <<baseline, threads, validatedAt, history, faults>>

-----------------------------------------------------------------------------
Step(w) ==
  \/ Fetch(w) \/ FetchFails(w) \/ Check(w)
  \/ Backup(w) \/ RenameToBackup(w)
  \/ OpenMap(w) \/ WriteChunk(w) \/ FinishMap(w)
  \/ OpenWhitelist(w) \/ WriteWhitelist(w)
  \/ SyntaxOK(w) \/ SyntaxRejects(w) \/ Restore(w)
  \/ Clean(w) \/ RemoveBackup(w)
  \/ OpenSize(w) \/ WriteSize(w)
  \/ DiskFails(w)
  \/ ReloadBelieved(w) \/ ReloadGivenUp(w) \/ Stamp(w)

Next ==
  \/ \E w \in Workers : Start(w) \/ Step(w)
  \/ Crash \/ HaproxyStops \/ HaproxyStarts

Spec == Init /\ [][Next]_vars

(* The polling threads start a run again and again, since the loops catch  *)
(* every exception; a started run goes on; docker restarts HAProxy         *)
(* (restart: always).  Failures are owed nothing.                          *)
FairSpec ==
  /\ Spec
  /\ \A w \in Workers : WF_vars(Start(w)) /\ WF_vars(Step(w))
  /\ WF_vars(HaproxyStarts)

Quiet == \A w \in Workers : pc[w] = "idle"

(***************************************************************************)
(* A running HAProxy only ever changes to a blocklist that passed the size *)
(* check, the anchor check and haproxy -c, together with the whole         *)
(* whitelist: what lies on disk at the reload is what was checked          *)
(* (validation.py: "All must pass before activating a new map").           *)
(***************************************************************************)
OnlyValidatedMapsActivated ==
  [][ /\ served # Down /\ served' # Down
      /\ <<served, servedWhite>>' # <<served, servedWhite>>
      => served' \in passed /\ servedWhite' = "complete" ]_vars

(***************************************************************************)
(* While the node offers a validated_at and no activation is under way,    *)
(* the map on disk is one that passed every check, whatever attempts       *)
(* failed since and whatever crashed before: a restart of HAProxy is safe. *)
(* After a failed write, where nothing puts the backup back, it is so      *)
(* again from the next run that succeeds.                                  *)
(***************************************************************************)
AdvertisedMapIsValidated ==
  validatedAt /\ Quiet /\ ~diskFailed => file["map"] \in passed

(***************************************************************************)
(* The size baseline is never the length of a list that did not pass the   *)
(* checks, so one bad list cannot lower (or raise) the bar for the next.   *)
(***************************************************************************)
BaselineFromValidatedMap ==
  baseline \in {Absent, Torn} \cup passed

(***************************************************************************)
(* However the workers interleave, a list that blocks an anchor IP reaches *)
(* neither the disk nor HAProxy as a whole file: validate_anchors runs on  *)
(* the text before the first file is touched.                              *)
(***************************************************************************)
AnchorsNeverBlocked ==
  \A d \in {file["map"], file["bak"], served} : d \notin Lists \ AnchorSafe

(***************************************************************************)
(* A run ends: retries are bounded, and a file that the other worker       *)
(* renamed or removed is an error, not a wait.  For the HTTP thread it     *)
(* means that it gets back to answering /health and /geo/status.           *)
(***************************************************************************)
RunsEnd == \A w \in Workers : []<>(pc[w] = "idle")

(***************************************************************************)
(* Once the failures stop, and while lists that pass the checks keep       *)
(* coming, HAProxy ends up with a checked blocklist and the whole          *)
(* whitelist, and keeps such: no torn file, leftover backup or half-done   *)
(* activation stays in the way of the next runs.                           *)
(***************************************************************************)
Recovers ==
  (\A w \in Workers : []<><<Check(w) /\ CheckPasses(job[w])>>_vars)
    => <>[](served \in passed /\ servedWhite = "complete")

(***************************************************************************)
(* Sicherheitsbewertung.md: "bei Syntaxfehler wird Backup                  *)
(* wiederhergestellt".  What is put back is a whole list, even after a     *)
(* crash that left the map half written.                                   *)
(***************************************************************************)
RestoredMapIsWhole ==
  [][\A w \in Workers :
       Restore(w) /\ file["bak"] # Absent => file'["map"] # Torn]_vars
=============================================================================
