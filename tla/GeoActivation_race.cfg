SPECIFICATION Spec
CONSTANTS
  Workers <- Master
  FetchRetries <- RetryOnce
  Lists <- TwoLists
  Size <- SizesOf
  AnchorSafe <- SafeLists
  ThresholdPct = 90
  FaultKinds <- NoKinds
  MaxFaults = 0
PROPERTIES
  OnlyValidatedMapsActivated
