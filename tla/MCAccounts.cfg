CONSTANTS
  None = None
  Random = Random
  Logins = {alice}
  Workers = {w1, w2}
  WebFlows = {web}
  DeviceFlows = {d1}
  AccessTTL = 1
  RefreshTTL = 3
  StateTTL = 2
  WindowSec = 2
  MaxInWindow = 2
  Interval = 1
  ExpiresIn = 2
  MaxClock = 4
  MaxRequests = 5
  MaxLost = 1
SPECIFICATION MCSpec
INVARIANTS SessionsEnd BurstIsBounded
PROPERTY SignInEnds
CHECK_DEADLOCK FALSE
