CONSTANTS
  t1 = t1
  t2 = t2
  r1 = r1
  r2 = r2
  None = None
  Tab = {t1, t2}
  Call = {r1, r2}
  TabOf <- MCTabOf
  Conn <- MCConn
  Flaky = {t1}
  AccessTTL = 1
  SlidingTTL = 2
  AbsoluteTTL = 2
  MaxClock = 2
  MaxSession = 2
SPECIFICATION DashboardSpec
SYMMETRY Symmetry
INVARIANTS
  BrowserTypeOK
  RevokedStaysOut
  SessionCapped
  ShownSecretIsStored
  OneRefresh
  WaitersAreServed
  RefusedForAReason
  AuthInv
PROPERTY
  ClientsOnly
