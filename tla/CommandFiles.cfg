SPECIFICATION FairSpec
CONSTANTS
  Readers = {1, 2}
  MaxFiles = 2
  MaxSize = 2
  MaxEvents = 3
  TimeOut = 1
  WindowEnd = 0
  MaxTime = 3
  CrashPoints = {"idle", "new", "post", "lock"}
  MaxCrashes = 1
  MaxCloses = 1
  MaxFailures = 1
INVARIANTS
  FilesInv
  CounterCovers
  NoEarlyRemoval
PROPERTIES
  WindowWhole
  Collected
CHECK_DEADLOCK FALSE
