SPECIFICATION FairSpec
CONSTANTS
  Pids = {1, 2, 3, 4}
  First = 1
  Addrs <- MCAddrs
  RestartTimeout = 1
  Reuse = FALSE
  Faults = {"convert", "pid", "sync", "spawn", "remove", "wait"}
  MaxFaults = 1
  MaxCrashes = 1
  MaxSignals = 3
INVARIANTS ListensInOrder AddressesKept OneServer PidFileCurrent
PROPERTIES ChildTookOver RestartReturns KeepsServing
