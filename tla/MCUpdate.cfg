\* Two runs, three failing steps in each, and a kill at any point.
SPECIFICATION Spec
CONSTANTS
  Versions <- MCVersions
  MaxFaults = 3
  MaxRuns = 2
CHECK_DEADLOCK FALSE
INVARIANTS
  TypeOK
  SurvivesOneFailure
  NeverAnEarlierOne
  NewerOnly
