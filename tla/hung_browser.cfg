SPECIFICATION FairSpec
CONSTANTS
  r1 = r1
  r2 = r2
  r3 = r3
  Requests <- TwoRequests
  Maintenance = Maintenance
  NoSession = NoSession
  MaxConcurrentSessions = 1
  Ops = {"create", "connect_existing"}
  PsMayFail = FALSE
  ClientsMayDisconnect = FALSE
  BrowsersMayHang = TRUE
PROPERTY ExpiredRecycled
