\* v1b/kalloc.c: eight pages, two of them low, one process beside the kernel. file.c: two
\* processes, a table of three entries and descriptors for two.
CONSTANTS
  LowPages = 2
  NPages = 8
  KernelPid = 1
  Pids = {2}
  LogSize = 5
  Users = {1, 2}
  FirstUser = 1
  NFILE = 3
  NOFILE = 2
  NINODE = 1
  NPIPE = 1
SPECIFICATION ProgramsSpec
INVARIANTS
  NoNeighbours
  SingleOwner
  LogNamesHolder
  ImagesSound
  HeapSound
  FilesExact
  ShellSound
  TestsPass
PROPERTY
  FailureUndone
\* The log is full, the pids are used up, the heap is, the tests are done.
CHECK_DEADLOCK FALSE
