CONSTANTS
  Procs = {1, 2}
  NINODES = 5
  Names <- SomeNames
  Calls <- NoCalls
  MaxCalls = 100
  NOFILE = 2
  MayCrash = FALSE
  NoProc = NoProc
  Chosen = {"linkunlink"}
SPECIFICATION TestSpec
INVARIANT
  NoLockCycle
CHECK_DEADLOCK FALSE
