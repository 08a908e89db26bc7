CONSTANTS
  MaxTasks = 1
  TaskTimeout = 1
  Thresholds = 1
  ReadTimeout = 2
  MaxCalls = 1
  BadTasks = {}
  Faults = {"stall"}
  MaxFaults = 1
SPECIFICATION Spec
INVARIANTS NoTaskDropped
