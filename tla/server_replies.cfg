CONSTANTS
  Conn = {c1}
  MaxReqs = 3
  SrvFaults = {"close", "stall", "garble", "idle"}
  Listener = {l1, l2}
  Pings = {2}
  BadReqs = {3}
  CloseWait = 1
SPECIFICATION CoroutineSpec
INVARIANTS ReplyConserved IdleFlushed ClosedQuiet
PROPERTIES ContractSpec CloseReturns Drained Answered
