CONSTANTS
  a1 = a1
  a2 = a2
  a3 = a3
  Addr = {a1, a2, a3}
  Addrs <- MCAddrs
  Updates <- MCUpdates
  Call = {c1, c2}
  Raw = {c2}
  Stateless = FALSE
  RetryLimit = 2
  MaxUpdates = 1
  MaxSick = 1
SPECIFICATION FairSpec
INVARIANTS SendsBounded QueuedOnce
PROPERTIES RetryMovesOn CallReturns
