SPECIFICATION Spec
CONSTANTS
  r1 = r1
  r2 = r2
  r3 = r3
  Requests <- ThreeRequests
  Maintenance = Maintenance
  NoSession = NoSession
  MaxConcurrentSessions = 1
  Ops = {"create", "rest", "connect_existing", "delete"}
  PsMayFail = FALSE
  ClientsMayDisconnect = TRUE
  BrowsersMayHang = FALSE
SYMMETRY Symmetry
INVARIANTS TypeOK BrowsersWithinCapacity PermitsAccounted LiveBrowserOwned
  ListedSessionsLive OneClientConnects ExitNeverTheReason
PROPERTIES ShutdownOnce ImplementsLifecycle
