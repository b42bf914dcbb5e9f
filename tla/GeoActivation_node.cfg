SPECIFICATION FairSpec
CONSTANTS
  Workers <- Poll
  FetchRetries <- RetryTwice
  Lists <- ThreeLists
  Size <- SizesOf
  AnchorSafe <- SafeLists
  ThresholdPct = 90
  FaultKinds <- AllKinds
  MaxFaults = 2
INVARIANTS
  TypeOK
  AdvertisedMapIsValidated
  BaselineFromValidatedMap
PROPERTIES
  OnlyValidatedMapsActivated
  Recovers
