\* Three processes, one of them with both ends; the counters wrap.
CONSTANTS
  reader = reader
  writer = writer
  parent = parent
  Procs = {reader, writer, parent}
  Ends <- Shared
  Bytes = {0, 1}
  PIPESIZE = 2
  Wrap = 4
  Requests = {1, 3}
  NoProc = NoProc
  Eof = Eof
  Nothing = Nothing
SPECIFICATION Spec
INVARIANTS
  PipeSound
  SleepersHaveReason
PROPERTY ImplementsChannel
