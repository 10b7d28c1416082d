CONSTANTS
  t1 = t1
  t2 = t2
  r1 = r1
  r2 = r2
  None = None
  Tab = {t1, t2}
  Call = {r1}
  TabOf <- MCTabOf
  Conn <- MCConn
  Flaky = {}
  AccessTTL = 1
  SlidingTTL = 2
  AbsoluteTTL = 2
  MaxClock = 2
  MaxSession = 1
SPECIFICATION DashboardSpec
INVARIANT
  ShownWhileSignedIn
