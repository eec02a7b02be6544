\* One command at a time: a day of four units that are hours.
SPECIFICATION Spec
CONSTANTS
  p1 = p1
  p2 = p2
  Process = {p1}
  Size = {1}
  MaxMessageSize = 1
  MaxPublishPerSec = 1
  MaxPublishPerHour = 1
  DailyQuota = 4
  Second = 1
  Hour = 1
  Day = 4
  N = 1
  Fault = {}
  MaxCalls = 2
  MaxTime = 4
CHECK_DEADLOCK FALSE
INVARIANTS
  HourlyRefusalJustified
