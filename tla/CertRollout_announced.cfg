SPECIFICATION FairSpec
CONSTANTS
  Masters <- OneMaster
  Followers <- OneFollower
  Delay <- StageDelays
  FaultKinds <- FailedSwap
  MaxAge = 1
  MaxRenewals = 2
  MaxFaults = 1
PROPERTIES
  AnnouncedIsActive
