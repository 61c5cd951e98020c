CONSTANTS
  None = None
  Scheduler = Scheduler
  Jobs = {j1, j2}
  AtTimes = {t1}
  Periods = {p1}
  Editors = {e1}
  MaxTasks = 1
  MaxConcurrent = 1
  MaxEdits = 1
  MaxErrors = 1
  MaxCrashes = 1
  MaxDisturbances = 2
SPECIFICATION FairSpec
INVARIANTS
  OneShotFiresOnce
PROPERTIES
  DueIsRun
  ScheduleTakesHold
