SPECIFICATION Spec
CONSTANTS
  r1 = r1
  r2 = r2
  r3 = r3
  Requests <- TwoRequests
  Maintenance = Maintenance
  NoSession = NoSession
  MaxConcurrentSessions = 1
  Ops = {"rest"}
  PsMayFail = FALSE
  ClientsMayDisconnect = TRUE
  BrowsersMayHang = FALSE
INVARIANT InUseSessionServed
