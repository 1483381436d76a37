CONSTANTS
  p1 = p1
  p2 = p2
  Procs = {p1, p2}
  NINODES = 3
  Names <- SomeNames
  Calls <- SomeCalls
  MaxCalls = 3
  NOFILE = 1
  MayCrash = TRUE
  NoProc = NoProc
SPECIFICATION Spec
INVARIANTS
  CountsSound
  NotFreedInUse
  TreeSound
