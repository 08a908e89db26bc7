CONSTANTS
  Worker = {w1, w2, w3}
  MaxPosts = 3
  MaxSpawns = 1
  MaxFlips = 2
  ChannelArg = 2
  Thresholds = 0
SPECIFICATION FairSpec
INVARIANTS OneMonitor WorkersCounted PoolConserved
PROPERTIES TaskServed ReachableExits
