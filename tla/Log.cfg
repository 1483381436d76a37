\* Three calls of one block each: two fit into the log at once, which is then
\* full; a crash at any time. Both limits of log_write() are met at once.
CONSTANTS
  Ops = {o1, o2, o3}
  Blocks = {1, 2}
  Vals = {0, 1}
  MAXOPBLOCKS = 1
  LOGSIZE = 2
  size = 3
  Behind = 2
SPECIFICATION FairSpec
INVARIANTS
  LogSound
PROPERTIES
  ImplementsAtomicDisk
  SleepersWake
