------------------------- MODULE GeoActivationProofs -------------------------
(***************************************************************************)
(* Theorems about GeoActivation, for any lists, sizes, retries and number  *)
(* of failures.                                                            *)
(***************************************************************************)
EXTENDS GeoActivation, TLAPS

USE DEF Names, Kinds

(***************************************************************************)
(* What giving up an attempt does to the threads, whoever gives up.        *)
(***************************************************************************)
LEMMA AttemptFailsLemma ==
  ASSUME TypeOK, NEW w \in Workers, AttemptFails(w)
  PROVE  /\ pc' \in [Workers -> Labels]
         /\ attempt' \in [Workers -> Nat]
         /\ \A v \in Workers : attempt'[v] < FetchRetries[v]
         /\ job' \in [Workers -> Contents \cup {NoJob}]
         /\ pc'[w] \in {"idle", "fetch"}
         /\ job'[w] = NoJob
         /\ \A v \in Workers \ {w} : pc'[v] = pc[v] /\ job'[v] = job[v]
<1> USE DEF TypeOK, AttemptFails
<1>1. pc' \in [Workers -> Labels]
  BY DEF Labels
<1>2. attempt' \in [Workers -> Nat] /\ \A v \in Workers : attempt'[v] < FetchRetries[v]
  <2>1. FetchRetries[w] \in Nat \ {0} /\ attempt[w] \in Nat
    BY WorkersAssumption
  <2>2. CASE attempt[w] + 1 < FetchRetries[w]
    <3>1. attempt' = [attempt EXCEPT ![w] = attempt[w] + 1]
      BY <2>2
    <3> QED
      BY <3>1, <2>1, <2>2
  <2>3. CASE ~(attempt[w] + 1 < FetchRetries[w])
    <3>1. attempt' = [attempt EXCEPT ![w] = 0]
      BY <2>3
    <3> QED
      BY <3>1, <2>1
  <2> QED
    BY <2>2, <2>3
<1>3. job' \in [Workers -> Contents \cup {NoJob}]
  OBVIOUS
<1>4. pc'[w] \in {"idle", "fetch"} /\ job'[w] = NoJob
  OBVIOUS
<1>5. \A v \in Workers \ {w} : pc'[v] = pc[v] /\ job'[v] = job[v]
  OBVIOUS
<1> QED
  BY <1>1, <1>2, <1>3, <1>4, <1>5

(***************************************************************************)
(* A rename moves a file and keeps descriptors and files well typed.       *)
(***************************************************************************)
LEMMA RenameLemma ==
  ASSUME TypeOK, NEW from \in Names, NEW to \in Names, from # to,
         Rename(from, to)
  PROVE  /\ file' \in [Names -> MapData \cup {Absent}]
         /\ fd' \in [Workers -> Names \cup {"gone", "closed"}]
         /\ file'[to] = file[from] /\ file'[from] = Absent
BY DEF TypeOK, Rename, Moved

LEMMA RetriesPositive == \A w \in Workers : FetchRetries[w] \in Nat /\ 0 < FetchRetries[w]
BY WorkersAssumption

LEMMA InitTypeOK == Init => TypeOK
<1> SUFFICES ASSUME Init PROVE TypeOK
  OBVIOUS
<1> USE DEF Init
<1>1. attempt \in [Workers -> Nat] /\ \A w \in Workers : attempt[w] < FetchRetries[w]
  BY RetriesPositive
<1>2. /\ pc \in [Workers -> Labels]
      /\ \A w \in Workers : pc[w] = "idle"
  BY DEF Labels
<1>3. faults \in 0..MaxFaults
  BY FaultsAssumption
<1> QED
  BY <1>1, <1>2, <1>3 DEF TypeOK

LEMMA StepTypeOK ==
  ASSUME TypeOK, NEW w \in Workers, Start(w) \/ Step(w)
  PROVE  TypeOK'
<1> USE DEF TypeOK, files, threads, haproxy, history, Goto, Labels
<1>a. \A kind : Fault(kind) => faults' \in 0..MaxFaults
  BY FaultsAssumption DEF Fault
<1>b. \A others \in SUBSET Workers : DirtyAfterOpen(w, others) \subseteq Workers
  BY DEF DirtyAfterOpen
<1>1. CASE Start(w)
  BY <1>1 DEF Start
<1>2. CASE Fetch(w)
  BY <1>2 DEF Fetch
<1>3. CASE FetchFails(w)
  BY <1>3, <1>a, AttemptFailsLemma DEF FetchFails
<1>4. CASE Check(w)
  <2>1. CASE UNCHANGED <<attempt, job>> /\ Goto(w, "backup")
    BY <1>4, <2>1 DEF Check
  <2>2. CASE AttemptFails(w)
    BY <1>4, <2>2, AttemptFailsLemma DEF Check
  <2> QED
    BY <1>4, <2>1, <2>2 DEF Check
<1>5. CASE Backup(w)
  BY <1>5 DEF Backup
<1>6. CASE RenameToBackup(w)
  <2>1. CASE Rename("map", "bak") /\ Goto(w, "open") /\ UNCHANGED <<attempt, job>>
    BY <1>6, <2>1, RenameLemma DEF RenameToBackup
  <2>2. CASE AttemptFails(w) /\ UNCHANGED <<file, fd>>
    BY <1>6, <2>2, AttemptFailsLemma DEF RenameToBackup
  <2> QED
    BY <1>6, <2>1, <2>2 DEF RenameToBackup
<1>7. CASE OpenMap(w)
  BY <1>7, <1>b DEF OpenMap, MapData
<1>8. CASE WriteChunk(w)
  BY <1>8 DEF WriteChunk, MapData
<1>9. CASE FinishMap(w)
  BY <1>9 DEF FinishMap, MapData
<1>10. CASE OpenWhitelist(w)
  BY <1>10 DEF OpenWhitelist, WhiteData
<1>11. CASE WriteWhitelist(w)
  BY <1>11 DEF WriteWhitelist, WhiteData
<1>12. CASE SyntaxOK(w)
  BY <1>12 DEF SyntaxOK
<1>13. CASE SyntaxRejects(w)
  BY <1>13, <1>a DEF SyntaxRejects
<1>14. CASE Restore(w)
  <2>1. CASE Rename("bak", "map")
    BY <1>14, <2>1, RenameLemma, AttemptFailsLemma DEF Restore
  <2>2. CASE UNCHANGED <<file, fd>>
    BY <1>14, <2>2, AttemptFailsLemma DEF Restore
  <2> QED
    BY <1>14, <2>1, <2>2 DEF Restore
<1>15. CASE Clean(w)
  BY <1>15 DEF Clean
<1>16. CASE RemoveBackup(w)
  <2>1. CASE file["bak"] # Absent
    BY <1>16, <2>1 DEF RemoveBackup
  <2>2. CASE file["bak"] = Absent
    BY <1>16, <2>2, AttemptFailsLemma DEF RemoveBackup
  <2> QED
    BY <2>1, <2>2
<1>17. CASE OpenSize(w)
  BY <1>17, <1>b DEF OpenSize
<1>18. CASE WriteSize(w)
  BY <1>18 DEF WriteSize
<1>19. CASE DiskFails(w)
  BY <1>19, <1>a, AttemptFailsLemma DEF DiskFails
<1>20. CASE ReloadBelieved(w)
  BY <1>20, <1>a DEF ReloadBelieved, Loads, Keeps
<1>21. CASE ReloadGivenUp(w)
  BY <1>21, <1>a, AttemptFailsLemma DEF ReloadGivenUp, Loads, Keeps
<1>22. CASE Stamp(w)
  <2>1. attempt' = [attempt EXCEPT ![w] = 0]
    BY <1>22 DEF Stamp
  <2>2. attempt' \in [Workers -> Nat] /\ \A v \in Workers : attempt'[v] < FetchRetries[v]
    BY <2>1, RetriesPositive
  <2> QED
    BY <1>22, <2>2 DEF Stamp
<1> QED
  BY <1>1, <1>2, <1>3, <1>4, <1>5, <1>6, <1>7, <1>8, <1>9, <1>10, <1>11, <1>12,
     <1>13, <1>14, <1>15, <1>16, <1>17, <1>18, <1>19, <1>20, <1>21, <1>22
  DEF Step

(***************************************************************************)
(* Every variable keeps its type, whatever the workers, the disk, docker   *)
(* and HAProxy do; in particular no run makes more than its retries.       *)
(***************************************************************************)
THEOREM TypeCorrect == Spec => []TypeOK
<1>1. Init => TypeOK
  BY InitTypeOK
<1>2. TypeOK /\ [Next]_vars => TypeOK'
  <2> SUFFICES ASSUME TypeOK, [Next]_vars PROVE TypeOK'
    OBVIOUS
  <2> USE DEF TypeOK, files, threads, haproxy, history
  <2>1. CASE \E w \in Workers : Start(w) \/ Step(w)
    BY <2>1, StepTypeOK
  <2>2. CASE Crash
    <3>1. attempt' \in [Workers -> Nat] /\ \A w \in Workers : attempt'[w] < FetchRetries[w]
      BY <2>2, RetriesPositive DEF Crash
    <3>2. faults' \in 0..MaxFaults
      BY <2>2, FaultsAssumption DEF Crash, Fault
    <3> QED
      BY <2>2, <3>1, <3>2 DEF Crash, MemoryAfterRestart, Labels
  <2>3. CASE HaproxyStops
    BY <2>3, FaultsAssumption DEF HaproxyStops, Fault
  <2>4. CASE HaproxyStarts
    BY <2>4 DEF HaproxyStarts, MapData, Contents, WhiteData
  <2>5. CASE UNCHANGED vars
    BY <2>5 DEF vars
  <2> QED
    BY <2>1, <2>2, <2>3, <2>4, <2>5 DEF Next
<1> QED
  BY <1>1, <1>2, PTL DEF Spec

-----------------------------------------------------------------------------
(***************************************************************************)
(* One worker: a follower, or a master that nobody sends deploy-now.       *)
(* AloneInv says what the worker can rely on at each label: its descriptor *)
(* is on the map and nobody else's is, the map is its own list once it is  *)
(* written, and that list has passed once haproxy -c accepted it.          *)
(***************************************************************************)
Written == {"wopen", "wwrite", "syntax", "clean", "remove", "sizeOpen",
            "sizeWrite", "reload", "stamp"}
Accepted == {"clean", "remove", "sizeOpen", "sizeWrite", "reload", "stamp"}

AloneInv ==
  /\ dirty = {}
  /\ \A w \in Workers :
       /\ fd[w] = IF pc[w] = "write" THEN "map" ELSE "closed"
       /\ pc[w] \in Written => file["map"] = job[w]
       /\ pc[w] \in Accepted \cup {"syntax"} => white = "complete"
       /\ pc[w] \in Accepted => job[w] \in passed
  /\ BaselineFromValidatedMap

(***************************************************************************)
(* Where a checked map is to be found while the node offers a validated_at *)
(* and a single worker runs: in place, or as the backup while the worker   *)
(* overwrites it.                                                          *)
(***************************************************************************)
AdvertisedInv ==
  validatedAt /\ ~diskFailed =>
    \A w \in Workers :
      /\ pc[w] \in {"idle", "fetch", "check", "backup", "rename"}
           => file["map"] \in passed
      /\ pc[w] \in {"open", "write", "wopen", "wwrite", "syntax", "restore"}
           => file["bak"] \in passed

LEMMA StepAlone ==
  ASSUME NEW w, Workers = {w}, TypeOK, AloneInv, Start(w) \/ Step(w)
  PROVE  AloneInv'
<1> USE DEF AloneInv, BaselineFromValidatedMap, files, threads, haproxy, history, Goto,
            Written, Accepted
<1>t. /\ w \in Workers /\ pc \in [Workers -> Labels] /\ fd \in [Workers -> Names \cup {"gone", "closed"}]
      /\ job \in [Workers -> Contents \cup {NoJob}]
      /\ file \in [Names -> MapData \cup {Absent}]
      /\ pc[w] \notin {"idle", "fetch"} => job[w] \in Contents
  BY DEF TypeOK
<1>1. CASE Start(w)
  BY <1>t, <1>1 DEF Start
<1>2. CASE Fetch(w)
  BY <1>t, <1>2 DEF Fetch
<1>3. CASE FetchFails(w)
  BY <1>t, <1>3, AttemptFailsLemma DEF FetchFails
<1>4. CASE Check(w)
  <2>1. CASE UNCHANGED <<attempt, job>> /\ Goto(w, "backup")
    BY <1>t, <1>4, <2>1 DEF Check
  <2>2. CASE AttemptFails(w)
    BY <1>t, <1>4, <2>2, AttemptFailsLemma DEF Check
  <2> QED
    BY <1>4, <2>1, <2>2 DEF Check
<1>5. CASE Backup(w)
  BY <1>t, <1>5 DEF Backup
<1>6. CASE RenameToBackup(w)
  <2>1. CASE Rename("map", "bak") /\ Goto(w, "open") /\ UNCHANGED <<attempt, job>>
    BY <1>t, <1>6, <2>1 DEF RenameToBackup, Rename, Moved
  <2>2. CASE AttemptFails(w) /\ UNCHANGED <<file, fd>>
    BY <1>t, <1>6, <2>2, AttemptFailsLemma DEF RenameToBackup
  <2> QED
    BY <1>6, <2>1, <2>2 DEF RenameToBackup
<1>7. CASE OpenMap(w)
  <2>1. {v \in Workers : fd[v] = "map"} = {}
    BY <1>t, <1>7 DEF OpenMap
  <2>2. dirty' = {}
    BY <1>7, <2>1 DEF OpenMap, DirtyAfterOpen
  <2> QED
    BY <1>t, <1>7, <2>2 DEF OpenMap
<1>8. CASE WriteChunk(w)
  BY <1>t, <1>8 DEF WriteChunk
<1>9. CASE FinishMap(w)
  BY <1>t, <1>9 DEF FinishMap
<1>10. CASE OpenWhitelist(w)
  BY <1>t, <1>10 DEF OpenWhitelist
<1>11. CASE WriteWhitelist(w)
  BY <1>t, <1>11 DEF WriteWhitelist
<1>12. CASE SyntaxOK(w)
  BY <1>t, <1>12 DEF SyntaxOK
<1>13. CASE SyntaxRejects(w)
  BY <1>t, <1>13 DEF SyntaxRejects
<1>14. CASE Restore(w)
  <2>1. CASE Rename("bak", "map")
    BY <1>t, <1>14, <2>1, AttemptFailsLemma DEF Restore, Rename, Moved
  <2>2. CASE UNCHANGED <<file, fd>>
    BY <1>t, <1>14, <2>2, AttemptFailsLemma DEF Restore
  <2> QED
    BY <1>14, <2>1, <2>2 DEF Restore
<1>15. CASE Clean(w)
  BY <1>t, <1>15 DEF Clean
<1>16. CASE RemoveBackup(w)
  <2>1. CASE file["bak"] # Absent
    BY <1>t, <1>16, <2>1 DEF RemoveBackup
  <2>2. CASE file["bak"] = Absent
    BY <1>t, <1>16, <2>2, AttemptFailsLemma DEF RemoveBackup
  <2> QED
    BY <2>1, <2>2
<1>17. CASE OpenSize(w)
  <2>1. {v \in Workers : pc[v] = "sizeWrite"} = {}
    BY <1>t, <1>17 DEF OpenSize
  <2>2. dirty' = {}
    BY <1>17, <2>1 DEF OpenSize, DirtyAfterOpen
  <2> QED
    BY <1>t, <1>17, <2>2 DEF OpenSize
<1>18. CASE WriteSize(w)
  BY <1>t, <1>18 DEF WriteSize
<1>19. CASE DiskFails(w)
  BY <1>t, <1>19, AttemptFailsLemma DEF DiskFails
<1>20. CASE ReloadBelieved(w)
  BY <1>t, <1>20 DEF ReloadBelieved
<1>21. CASE ReloadGivenUp(w)
  BY <1>t, <1>21, AttemptFailsLemma DEF ReloadGivenUp
<1>22. CASE Stamp(w)
  BY <1>t, <1>22 DEF Stamp
<1> QED
  BY <1>1, <1>2, <1>3, <1>4, <1>5, <1>6, <1>7, <1>8, <1>9, <1>10, <1>11, <1>12,
     <1>13, <1>14, <1>15, <1>16, <1>17, <1>18, <1>19, <1>20, <1>21, <1>22
  DEF Step

LEMMA AloneInvariant ==
  ASSUME NEW self, Workers = {self}
  PROVE  Spec => []AloneInv
<1>1. Init => AloneInv
  BY DEF Init, AloneInv, BaselineFromValidatedMap, Written, Accepted
<1>2. TypeOK /\ AloneInv /\ [Next]_vars => AloneInv'
  <2> SUFFICES ASSUME TypeOK, AloneInv, [Next]_vars PROVE AloneInv'
    OBVIOUS
  <2> USE DEF AloneInv, BaselineFromValidatedMap, files, threads, haproxy, history,
              Written, Accepted
  <2>1. CASE \E w \in Workers : Start(w) \/ Step(w)
    BY <2>1, StepAlone
  <2>2. CASE Crash
    BY <2>2 DEF Crash
  <2>3. CASE HaproxyStops
    BY <2>3 DEF HaproxyStops
  <2>4. CASE HaproxyStarts
    <3>1. file \in [Names -> MapData \cup {Absent}] /\ Absent \notin Contents
          /\ \A w \in Workers : pc[w] \notin {"idle", "fetch"} => job[w] \in Contents
      BY ListsAssumption DEF TypeOK, Contents, Absent, Permissive
    <3>2. \A w \in Workers : pc[w] \in Written => file["map"] # Absent
      BY <3>1
    <3>3. file["map"] # Absent => file'["map"] = file["map"]
      BY <2>4, <3>1 DEF HaproxyStarts
    <3>4. white = "complete" => white' = "complete"
      BY <2>4 DEF HaproxyStarts, Absent
    <3> QED
      BY <2>4, <3>2, <3>3, <3>4 DEF HaproxyStarts
  <2>5. CASE UNCHANGED vars
    BY <2>5 DEF vars
  <2> QED
    BY <2>1, <2>2, <2>3, <2>4, <2>5 DEF Next
<1> QED
  BY <1>1, <1>2, TypeCorrect, PTL DEF Spec

(***************************************************************************)
(* With one worker, HAProxy only changes to a blocklist that passed every  *)
(* check and to the whole whitelist, whatever fails and whenever           *)
(* geo-manager or HAProxy restarts.                                        *)
(***************************************************************************)
THEOREM OneWorkerActivatesValidatedMaps ==
  ASSUME NEW self, Workers = {self}
  PROVE  Spec => OnlyValidatedMapsActivated
<1> DEFINE Good == /\ served # Down /\ served' # Down
                   /\ <<served, servedWhite>>' # <<served, servedWhite>>
                   => served' \in passed /\ servedWhite' = "complete"
<1>1. TypeOK /\ AloneInv /\ [Next]_vars => [Good]_vars
  <2> SUFFICES ASSUME TypeOK, AloneInv, Next PROVE Good
    OBVIOUS
  <2>1. CASE \E w \in Workers : Start(w) \/ Step(w)
    <3> PICK w \in Workers : Start(w) \/ Step(w)
      BY <2>1
    <3>1. CASE pc[w] = "reload" /\ (Loads \/ Keeps)
      BY <3>1 DEF AloneInv, Accepted, Written, Loads, Keeps, haproxy
    <3>2. CASE UNCHANGED haproxy
      BY <3>2 DEF haproxy
    <3> QED
      BY <3>1, <3>2
      DEF Start, Step, Fetch, FetchFails, Check, Backup, RenameToBackup,
          OpenMap, WriteChunk, FinishMap, OpenWhitelist, WriteWhitelist,
          SyntaxOK, SyntaxRejects, Restore, Clean, RemoveBackup, OpenSize,
          WriteSize, DiskFails, ReloadBelieved, ReloadGivenUp, Stamp, threads
  <2>2. CASE Crash
    BY <2>2 DEF Crash, haproxy
  <2>3. CASE HaproxyStops
    BY <2>3 DEF HaproxyStops
  <2>4. CASE HaproxyStarts
    BY <2>4 DEF HaproxyStarts
  <2> QED
    BY <2>1, <2>2, <2>3, <2>4 DEF Next
<1> QED
  BY <1>1, TypeCorrect, AloneInvariant, PTL DEF Spec, OnlyValidatedMapsActivated

(***************************************************************************)
(* With one worker, the length that later lists are measured against is    *)
(* that of a list which passed the checks.                                 *)
(***************************************************************************)
THEOREM OneWorkerBaseline ==
  ASSUME NEW self, Workers = {self}
  PROVE  Spec => []BaselineFromValidatedMap
<1>1. AloneInv => BaselineFromValidatedMap
  BY DEF AloneInv
<1> QED
  BY <1>1, AloneInvariant, PTL

-----------------------------------------------------------------------------
LEMMA StepAdvertised ==
  ASSUME NEW w, Workers = {w}, TypeOK, AloneInv, AdvertisedInv, Start(w) \/ Step(w)
  PROVE  AdvertisedInv'
<1> USE DEF AdvertisedInv, files, threads, haproxy, history, Goto
<1>t. /\ w \in Workers /\ pc \in [Workers -> Labels]
      /\ file \in [Names -> MapData \cup {Absent}] /\ passed \subseteq Contents
      /\ Absent \notin passed
  BY ListsAssumption DEF TypeOK, Contents, Absent, Permissive
<1>f. AttemptFails(w) => pc'[w] \in {"idle", "fetch"}
  BY <1>t, AttemptFailsLemma
<1>w. pc[w] \in Accepted => file["map"] \in passed
  BY <1>t DEF AloneInv, Accepted, Written
<1>1. CASE UNCHANGED <<file, validatedAt, passed, diskFailed>>
           /\ \/ pc[w] \in {"idle", "fetch", "check"}
                 /\ pc'[w] \in {"idle", "fetch", "check", "backup"}
              \/ pc[w] \in {"wopen", "wwrite"} /\ pc'[w] \in {"wwrite", "syntax"}
  BY <1>t, <1>1
<1>2. CASE Backup(w)
  BY <1>t, <1>2 DEF Backup
<1>3. CASE RenameToBackup(w)
  <2>1. CASE Rename("map", "bak") /\ Goto(w, "open")
    BY <1>t, <1>3, <2>1 DEF RenameToBackup, Rename
  <2>2. CASE file["map"] = Absent
    BY <1>t, <1>f, <1>3, <2>2 DEF RenameToBackup
  <2> QED
    BY <1>3, <2>1, <2>2 DEF RenameToBackup
<1>4. CASE OpenMap(w)
  BY <1>t, <1>4 DEF OpenMap
<1>5. CASE WriteChunk(w) \/ DiskFails(w)
  BY <1>5 DEF WriteChunk, DiskFails, AloneInv
<1>6. CASE FinishMap(w)
  <2>1. file'["bak"] = file["bak"]
    BY <1>t, <1>6 DEF FinishMap, AloneInv
  <2> QED
    BY <1>t, <1>6, <2>1 DEF FinishMap
<1>7. CASE SyntaxRejects(w) \/ SyntaxOK(w)
  BY <1>t, <1>7 DEF SyntaxRejects, SyntaxOK
<1>8. CASE Restore(w)
  BY <1>t, <1>f, <1>8 DEF Restore, Rename
<1>9. CASE Clean(w) \/ RemoveBackup(w) \/ OpenSize(w) \/ WriteSize(w)
  BY <1>t, <1>f, <1>w, <1>9
  DEF Clean, RemoveBackup, OpenSize, WriteSize, Accepted
<1>10. CASE ReloadBelieved(w) \/ ReloadGivenUp(w) \/ Stamp(w)
  BY <1>t, <1>f, <1>w, <1>10 DEF ReloadBelieved, ReloadGivenUp, Stamp, Accepted
<1>11. CASE Start(w) \/ Fetch(w) \/ FetchFails(w) \/ Check(w)
  BY <1>t, <1>f, <1>1, <1>11 DEF Start, Fetch, FetchFails, Check
<1>12. CASE OpenWhitelist(w) \/ WriteWhitelist(w)
  BY <1>t, <1>1, <1>12 DEF OpenWhitelist, WriteWhitelist
<1> QED
  BY <1>2, <1>3, <1>4, <1>5, <1>6, <1>7, <1>8, <1>9, <1>10, <1>11, <1>12 DEF Step

(***************************************************************************)
(* With one worker, a node that offers a validated_at has a checked map on *)
(* disk whenever no run is under way and no write failed since the last    *)
(* run that succeeded.                                                     *)
(***************************************************************************)
THEOREM OneWorkerAdvertisesValidatedMaps ==
  ASSUME NEW self, Workers = {self}
  PROVE  Spec => []AdvertisedMapIsValidated
<1>1. Init => AdvertisedInv
  BY DEF Init, AdvertisedInv
<1>2. TypeOK /\ AloneInv /\ AdvertisedInv /\ [Next]_vars => AdvertisedInv'
  <2> SUFFICES ASSUME TypeOK, AloneInv, AdvertisedInv, [Next]_vars
               PROVE  AdvertisedInv'
    OBVIOUS
  <2> USE DEF AdvertisedInv, files, threads, haproxy, history
  <2>1. CASE \E w \in Workers : Start(w) \/ Step(w)
    BY <2>1, StepAdvertised
  <2>2. CASE Crash
    BY <2>2 DEF Crash, MemoryAfterRestart
  <2>3. CASE HaproxyStops
    BY <2>3 DEF HaproxyStops
  <2>4. CASE HaproxyStarts
    <3>1. file \in [Names -> MapData \cup {Absent}] /\ Absent \notin passed
      BY ListsAssumption DEF TypeOK, Contents, Absent, Permissive
    <3>2. file'["bak"] = file["bak"]
          /\ (file["map"] # Absent => file'["map"] = file["map"])
      BY <2>4, <3>1 DEF HaproxyStarts
    <3> QED
      BY <2>4, <3>1, <3>2 DEF HaproxyStarts
  <2>5. CASE UNCHANGED vars
    BY <2>5 DEF vars
  <2> QED
    BY <2>1, <2>2, <2>3, <2>4, <2>5 DEF Next
<1>3. AdvertisedInv => AdvertisedMapIsValidated
  BY DEF AdvertisedInv, AdvertisedMapIsValidated, Quiet
<1> QED
  BY <1>1, <1>2, <1>3, TypeCorrect, AloneInvariant, PTL DEF Spec

-----------------------------------------------------------------------------
(***************************************************************************)
(* Any number of workers: past the check a worker holds a list that is     *)
(* safe for the anchors, and only such lists become whole files.           *)
(***************************************************************************)
AnchorInv ==
  /\ AnchorsNeverBlocked
  /\ \A w \in Workers : pc[w] \notin {"idle", "fetch", "check"}
                          => job[w] \notin Lists \ AnchorSafe

LEMMA StepAnchors ==
  ASSUME NEW w \in Workers, TypeOK, AnchorInv, Start(w) \/ Step(w)
  PROVE  AnchorInv'
<1> USE DEF AnchorInv, AnchorsNeverBlocked, files, threads, haproxy, history, Goto
<1>t. /\ pc \in [Workers -> Labels] /\ job \in [Workers -> Contents \cup {NoJob}]
      /\ file \in [Names -> MapData \cup {Absent}]
  BY DEF TypeOK
<1>r. \A d \in {Absent, Torn, Permissive, Down, NoJob} : d \notin Lists \ AnchorSafe
  BY ListsAssumption
<1>f. AttemptFails(w) =>
        \A v \in Workers : pc'[v] \notin {"idle", "fetch", "check"}
                            => job'[v] \notin Lists \ AnchorSafe
  BY AttemptFailsLemma
<1>1. CASE Start(w) \/ Fetch(w) \/ FetchFails(w)
  BY <1>t, <1>f, <1>1 DEF Start, Fetch, FetchFails
<1>2. CASE Check(w)
  <2>1. CASE CheckPasses(job[w]) /\ UNCHANGED job
    <3>1. job[w] \in AnchorSafe \cup {Permissive}
      BY <2>1 DEF CheckPasses, AnchorsOK
    <3>2. job[w] \notin Lists \ AnchorSafe
      BY <3>1, <1>r
    <3>3. \A v \in Workers \ {w} : pc'[v] = pc[v]
      BY <1>t, <1>2, AttemptFailsLemma DEF Check
    <3>4. UNCHANGED <<file, served, job>>
      BY <1>2, <2>1 DEF Check
    <3> QED
      BY <3>2, <3>3, <3>4
  <2>2. CASE AttemptFails(w)
    BY <1>t, <1>f, <1>2, <2>2 DEF Check
  <2> QED
    BY <1>2, <2>1, <2>2 DEF Check
<1>3. CASE Backup(w) \/ Clean(w)
  BY <1>t, <1>3 DEF Backup, Clean
<1>4. CASE RenameToBackup(w)
  <2>1. CASE Rename("map", "bak") /\ Goto(w, "open") /\ UNCHANGED job
    BY <1>t, <1>r, <1>4, <2>1 DEF RenameToBackup, Rename
  <2>2. CASE AttemptFails(w) /\ UNCHANGED file
    BY <1>f, <1>4, <2>2 DEF RenameToBackup
  <2> QED
    BY <1>4, <2>1, <2>2 DEF RenameToBackup
<1>5. CASE OpenMap(w) \/ WriteChunk(w)
  BY <1>t, <1>r, <1>5 DEF OpenMap, WriteChunk
<1>6. CASE FinishMap(w)
  <2>1. \A n \in Names : file'[n] \in {file[n], job[w], Torn}
    BY <1>t, <1>6 DEF FinishMap
  <2>2. job[w] \notin Lists \ AnchorSafe
    BY <1>6 DEF FinishMap
  <2>3. \A n \in Names : file'[n] \notin Lists \ AnchorSafe
    BY <2>1, <2>2, <1>r
  <2> QED
    BY <1>t, <1>6, <2>3 DEF FinishMap
<1>7. CASE OpenWhitelist(w) \/ WriteWhitelist(w) \/ OpenSize(w) \/ WriteSize(w)
  BY <1>t, <1>7 DEF OpenWhitelist, WriteWhitelist, OpenSize, WriteSize
<1>8. CASE SyntaxOK(w) \/ SyntaxRejects(w)
  BY <1>t, <1>8 DEF SyntaxOK, SyntaxRejects
<1>9. CASE Restore(w)
  BY <1>t, <1>r, <1>f, <1>9 DEF Restore, Rename
<1>10. CASE RemoveBackup(w)
  <2>1. CASE file["bak"] # Absent
    BY <1>t, <1>r, <1>10, <2>1 DEF RemoveBackup
  <2>2. CASE file["bak"] = Absent
    BY <1>f, <1>10, <2>2 DEF RemoveBackup
  <2> QED
    BY <2>1, <2>2
<1>11. CASE DiskFails(w)
  BY <1>f, <1>11 DEF DiskFails
<1>12. CASE ReloadBelieved(w)
  BY <1>t, <1>r, <1>12 DEF ReloadBelieved, Loads, Keeps
<1>13. CASE ReloadGivenUp(w)
  BY <1>f, <1>13 DEF ReloadGivenUp, Loads, Keeps
<1>14. CASE Stamp(w)
  BY <1>t, <1>r, <1>14 DEF Stamp
<1> QED
  BY <1>1, <1>2, <1>3, <1>4, <1>5, <1>6, <1>7, <1>8, <1>9, <1>10, <1>11, <1>12,
     <1>13, <1>14
  DEF Step

(***************************************************************************)
(* However many threads activate lists at the same time, no list that      *)
(* blocks an anchor IP becomes a whole file or is loaded by HAProxy.       *)
(***************************************************************************)
THEOREM AnchorsSafe == Spec => []AnchorsNeverBlocked
<1>r. \A d \in {Absent, Permissive, Down} : d \notin Lists \ AnchorSafe
  BY ListsAssumption
<1>1. Init => AnchorInv
  BY <1>r DEF Init, AnchorInv, AnchorsNeverBlocked
<1>2. TypeOK /\ AnchorInv /\ [Next]_vars => AnchorInv'
  <2> SUFFICES ASSUME TypeOK, AnchorInv, [Next]_vars PROVE AnchorInv'
    OBVIOUS
  <2> USE DEF AnchorInv, AnchorsNeverBlocked, files, threads, haproxy, history
  <2>1. CASE \E w \in Workers : Start(w) \/ Step(w)
    BY <2>1, StepAnchors
  <2>2. CASE Crash
    BY <2>2 DEF Crash
  <2>3. CASE HaproxyStops
    BY <1>r, <2>3 DEF HaproxyStops
  <2>4. CASE HaproxyStarts
    <3>1. file \in [Names -> MapData \cup {Absent}]
      BY DEF TypeOK
    <3>2. file'["map"] \in {file["map"], Permissive} /\ file'["bak"] = file["bak"]
      BY <2>4, <3>1 DEF HaproxyStarts
    <3>3. served' \in {file["map"], Permissive, served}
      BY <2>4 DEF HaproxyStarts
    <3>4. \A d \in {file'["map"], file'["bak"], served'} : d \notin Lists \ AnchorSafe
      BY <1>r, <3>2, <3>3
    <3> QED
      BY <2>4, <3>4 DEF HaproxyStarts
  <2>5. CASE UNCHANGED vars
    BY <2>5 DEF vars
  <2> QED
    BY <2>1, <2>2, <2>3, <2>4, <2>5 DEF Next
<1>3. AnchorInv => AnchorsNeverBlocked
  BY DEF AnchorInv
<1> QED
  BY <1>1, <1>2, <1>3, TypeCorrect, PTL DEF Spec
=============================================================================
