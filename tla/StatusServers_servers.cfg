SPECIFICATION FairSpec
CHECK_DEADLOCK FALSE
CONSTANTS
  Nodes <- Two
  Mesh <- MeshOf
  MaxHistory = 2
  MaxRounds = 3
  Master = "m"
  Clicks <- OneClick
  ClickAt <- ClicksAt
  Visitors <- TwoVisitors
  Visits <- VisitsOf
  Backlog = 1
  Failures <- MasterStops
  MaxFaults = 1
INVARIANTS
  TypeOK
  OutagesAreExact
  OneRunPerClick
PROPERTIES
  ReportsAreSnapshots
  UnreachableIsExcused
  RequestsEnd
  RoundsEnd
