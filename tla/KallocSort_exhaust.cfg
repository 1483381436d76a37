\* v2-sort/kalloc.c: what a call returns when the table has no frame to give.
CONSTANTS
  NFrames = 3
  LowPages = 1
  NPages = 5
  Pids = {1, 2}
  MaxReport = 0
SPECIFICATION Spec
INVARIANT NoReissue
