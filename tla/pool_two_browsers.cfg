SPECIFICATION Spec
CONSTANTS
  r1 = r1
  r2 = r2
  r3 = r3
  Requests <- TwoRequests
  Maintenance = Maintenance
  NoSession = NoSession
  MaxConcurrentSessions = 2
  Ops = {"connect_new", "list"}
  PsMayFail = TRUE
  ClientsMayDisconnect = TRUE
  BrowsersMayHang = TRUE
SYMMETRY Symmetry
INVARIANTS PermitsAccounted ListedSessionsLive
PROPERTY ImplementsProcess
