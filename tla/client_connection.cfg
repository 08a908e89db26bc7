CONSTANTS
  MaxTasks = 2
  TaskTimeout = 1
  Thresholds = 1
  ReadTimeout = 1
  MaxCalls = 2
  BadTasks = {2}
  Faults = {"stall", "close", "split"}
  MaxFaults = 1
SPECIFICATION FairSpec
INVARIANTS TaskConserved NothingStranded CountExact FlushedBeforeWait RegNeverBlocks
PROPERTIES LedgerSpec LiveFrameKept NoEarlyTimeout PatientExit Settles
