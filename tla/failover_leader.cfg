CONSTANTS
  a1 = a1
  a2 = a2
  a3 = a3
  Addr = {a1, a2, a3}
  Addrs <- MCAddrs
  Updates <- MCUpdates
  Call = {c1, c2, c3}
  Raw = {c3}
  Stateless = FALSE
  RetryLimit = 2
  MaxUpdates = 0
  MaxSick = 0
SPECIFICATION Spec
PROPERTIES LeaderPicked
