SPECIFICATION Spec
CONSTANTS
  Master = "agt1"
  Followers <- OneFollower
  Delay <- StageDelays
  Skew <- NoSkew
  FetchInterval = 2
  PollInterval = 1
  MaxTime = 14
  MaxVersion = 3
  MaxTrouble = 0
PROPERTIES
  AdoptedAfterSoak
CHECK_DEADLOCK FALSE
