\* One CPU, three slots: a family and its orphans.
CONSTANTS
  Cpus = {c0}
  Cpu0 = c0
  NoCpu = NoCpu
  NPROC = 3
  MaxPid = 3
  Clocked = {"idle", "user", "fork", "copy", "wait", "relock"}
SPECIFICATION FairSpec
INVARIANTS
  ProcessTree
  NoZombieMissed
PROPERTY EveryoneRuns
