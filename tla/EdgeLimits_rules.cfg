SPECIFICATION FairSpec
CONSTANTS
  Clients <- ThreeClients
  Net <- SharedNet
  Internal <- C2AndC3
  GeoBlocked <- C2AndC3
  Whitelisted <- OnlyC3
  Mails <- OneMail
  Requests <- SomeRequests
  RateLimit <- OneEach
  OverloadLimit <- OneToEach
  Period <- Periods
  MaxConn = 2
  BanTime = 2
  MaxCount = 2
  MaxLocal = 2
INVARIANTS
  TypeOK
  LimitsHold
  ConnectionsBounded
PROPERTIES
  KeepsPromise
  BansEnd
