SPECIFICATION Spec
CONSTANTS
  Master = "agt1"
  Followers <- OneFollower
  Delay <- StageDelays
  Skew <- FollowerAhead
  FetchInterval = 3
  PollInterval = 2
  MaxTime = 17
  MaxVersion = 2
  MaxTrouble = 2
INVARIANTS
  TypeOK
  ReleasesArrive
PROPERTIES
  UpdatesAreSpaced
CHECK_DEADLOCK FALSE
