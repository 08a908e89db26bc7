CONSTANTS
  MaxTasks = 1
  TaskTimeout = 2
  Thresholds = 1
  ReadTimeout = 1
  MaxCalls = 1
  BadTasks = {}
  Faults = {}
  MaxFaults = 0
SPECIFICATION FairSpec
PROPERTIES GracefulExit
