\* Two commands at a time, failing saves and crashes.
SPECIFICATION Spec
CONSTANTS
  p1 = p1
  p2 = p2
  Process = {p1, p2}
  Size = {1}
  MaxMessageSize = 1
  MaxPublishPerSec = 2
  MaxPublishPerHour = 1
  DailyQuota = 2
  Second = 1
  Hour = 1
  Day = 1
  N = 1
  Fault = {"save", "crash"}
  MaxCalls = 3
  MaxTime = 2
SYMMETRY MCSymmetry
CHECK_DEADLOCK FALSE
INVARIANTS
  TypeOK
  NeverOvercounts
  QuietDayAdmits
