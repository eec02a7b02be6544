\* One command at a time: sizes below, at and above the limits, a day of two units.
SPECIFICATION Spec
CONSTANTS
  p1 = p1
  p2 = p2
  Process = {p1}
  Size = {1, 2, 3}
  MaxMessageSize = 2
  MaxPublishPerSec = 2
  MaxPublishPerHour = 2
  DailyQuota = 3
  Second = 1
  Hour = 1
  Day = 2
  N = 2
  Fault = {"node"}
  MaxCalls = 4
  MaxTime = 4
CHECK_DEADLOCK FALSE
INVARIANTS
  CountsExactly
  QuotaKept
  RateKept
