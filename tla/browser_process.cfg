SPECIFICATION MCSpec
CONSTANTS
  b1 = b1
  b2 = b2
  p1 = p1
  p2 = p2
  n1 = n1
  n2 = n2
  Browsers <- TwoBrowsers
  Profiles <- TwoProfiles
  Temporary <- TheFirst
  Ports <- TwoPorts
  Nothing = Nothing
  BrowsersMayHang = TRUE
  Pids <- UpToFour
  Root = 1
  Tables <- SmallTables
INVARIANTS TypeOK SignalsOwnChild ReapedAtEnd EndpointOwn SampleIsTree
PROPERTIES ShutdownEnds LaunchEnds ImplementsProcess SampleEnds
