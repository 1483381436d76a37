\* v2-sort/kalloc.c: four frames, two processes, one low page, dump_physmem().
CONSTANTS
  NFrames = 4
  LowPages = 1
  NPages = 6
  Pids = {1, 2}
  MaxReport = 2
SPECIFICATION Spec
INVARIANTS
  TableSound
  SingleOwner
  PagesApart
  DumpExact
