SPECIFICATION MCSpec
CONSTANTS
  b1 = b1
  b2 = b2
  p1 = p1
  p2 = p2
  n1 = n1
  n2 = n2
  Browsers <- TwoBrowsers
  Profiles <- OneProfile
  Temporary <- NoProfile
  Ports <- TwoPorts
  Nothing = Nothing
  BrowsersMayHang = FALSE
  Pids <- UpToFour
  Root = 1
  Tables <- NoRows
INVARIANT FreshBrowserEach
