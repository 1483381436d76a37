\* Two CPUs, initproc and a second slot used twice.
CONSTANTS
  Cpus = {c0, c1}
  Cpu0 = c0
  NoCpu = NoCpu
  NPROC = 2
  MaxPid = 3
  Clocked = {"idle", "user", "ret", "fork", "stack", "copy", "publish", "exit", "wait",
             "kill", "sleep", "relock"}
SPECIFICATION Spec
INVARIANTS
  CpusSound
  NoTickMissed
  InterruptsOfThread
