SPECIFICATION Spec
CONSTANTS
  Bits <- EightAndFour
  Sources <- AllSources
  Locations <- TwoLocations
  Allowed <- OnlyDE
  Anchors <- OneOfEach
  Private <- OnePrivate
  MinEntries = 3
  ChunkSizes = {0, 1, 2}
INVARIANTS
  TypeOK
  DeniedByCountry
  FileIsText
  AnchorsAreNotListed
CHECK_DEADLOCK FALSE
