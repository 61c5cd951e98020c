CONSTANTS
  None = None
  Scheduler = Scheduler
  Jobs = {j1}
  AtTimes = {t1}
  Periods = {p1}
  Editors = {e1}
  MaxTasks = 1
  MaxConcurrent = 1
  MaxEdits = 0
  MaxErrors = 0
  MaxCrashes = 0
  MaxDisturbances = 0
SPECIFICATION FairSpec
PROPERTIES
  OneShotEnds
