SPECIFICATION FairSpec
CONSTANTS
  Workers <- Master
  FetchRetries <- RetryOnce
  Lists <- AnchorLists
  Size <- SizesOf
  AnchorSafe <- SafeLists
  ThresholdPct = 90
  FaultKinds <- NoKinds
  MaxFaults = 0
INVARIANTS
  AnchorsNeverBlocked
PROPERTIES
  RunsEnd
