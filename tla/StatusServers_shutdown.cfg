SPECIFICATION ProgramSpec
CHECK_DEADLOCK FALSE
CONSTANTS
  Nodes <- Two
  Mesh <- MeshOf
  MaxHistory = 2
  MaxRounds = 1
  Master = "m"
  Clicks <- OneClick
  ClickAt <- ClicksAt
  Visitors <- NoVisitors
  Visits <- VisitsOf
  Backlog = 1
  Failures <- MasterStops
  MaxFaults = 1
PROPERTIES
  StopsByItself
