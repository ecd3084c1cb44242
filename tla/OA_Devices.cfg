SPECIFICATION Spec
CONSTANTS
  t1 = t1
  t2 = t2
  Tabs = {t1}
  N = 2
  MaxJobs = 2
  MaxFaults = 1
INVARIANT TypeOK
INVARIANT LiveIsSealed
PROPERTY KeysAreKept
PROPERTY ForgetsOnlyTheDeleted
 
PROPERTY OnlyThePasswordRenews
CHECK_DEADLOCK FALSE
