\* Two processes, three blocks, two buffers: recycling, waiting and "no buffers".
CONSTANTS
  Procs = {p1, p2}
  Blocks = {b1, b2, b3}
  Vals = {0, 1}
  NBUF = 2
  NoProc = NoProc
  NoBlock = NoBlock
SPECIFICATION FairSpec
INVARIANTS
  CacheSound
  LockSleepersHaveReason
PROPERTIES
  ImplementsStore
  RequestServed
