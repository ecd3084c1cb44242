SPECIFICATION Spec
CONSTANTS
  t1 = t1
  t2 = t2
  Tabs = {t1, t2}
  N = 1
  MaxJobs = 1
  MaxFaults = 1
PROPERTY IdleTabLocks
CHECK_DEADLOCK FALSE
