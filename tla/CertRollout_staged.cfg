SPECIFICATION FairSpec
CONSTANTS
  Masters <- OneMaster
  Followers <- OneFollower
  Delay <- StageDelays
  FaultKinds <- AnyFault
  MaxAge = 1
  MaxRenewals = 2
  MaxFaults = 2
INVARIANTS
  TypeOK
  ServesWhatItAnnounces
PROPERTIES
  StagedUpdates
  RolloutIsStaged
  Converges
