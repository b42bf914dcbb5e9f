SPECIFICATION Spec
CONSTANTS
  Workers <- Poll
  FetchRetries <- RetryTwice
  Lists <- TwoLists
  Size <- SizesOf
  AnchorSafe <- SafeLists
  ThresholdPct = 90
  FaultKinds <- CrashAndSyntax
  MaxFaults = 2
PROPERTIES
  RestoredMapIsWhole
