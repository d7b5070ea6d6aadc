SPECIFICATION Spec
CONSTANTS
  ProxyRequest = {r1}
  Job = {j1}
  Config = {c1}
  None = None
  ServerLimiter = "redis"
  DayLength = 2
  Limit = 1
  DailyLimit = 1
  MaxTime = 4
  MaxRequests = 3
  MaxFaults = 1
INVARIANTS WindowBounded OwnKeyIsUsed ResetWithinTwoDays ChargesPerDay
CHECK_DEADLOCK FALSE
