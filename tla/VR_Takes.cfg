SPECIFICATION FairSpec
CONSTANTS
    MaxTakes = 4
    MaxMounts = 3
    MaxTries = 2
    Patient = TRUE
INVARIANT  RemovedStaysRemoved
 
CHECK_DEADLOCK FALSE
