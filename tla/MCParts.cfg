\* Two CPUs, two locks, interrupts on both. Two processes, two of three open files on one
\* inode; a file reaches into its indirect block, and a write of six or seven bytes fills
\* what begin_op() reserves. Two readers of a ring of three bytes, whose counters wrap at
\* twice that.
CONSTANTS
  Cpus = {c1, c2}
  Locks = {1, 2}
  NoCpu = NoCpu
  Writers = {1, 2}
  Inums = {1, 2}
  FileInum <- SomeFiles
  NDATA = 7
  BytesPerBlock = 2
  BPB = 1
  NDIRECT = 2
  NINDIRECT = 2
  OPBLOCKS = 10
  CallSizes = {1, 6, 7}
  CallsMax = 3
  TtyUsers = {1, 2}
  Letters = {"a"}
  INPUT_BUF = 3
  UINT = 6
  MaxRead = 2
SPECIFICATION PartsSpec
INVARIANTS
  Safe
  FlagRestored
  MachineSound
  BlocksExact
  RoutinesRight
PROPERTIES
  ImplementsService
  ImplementsFileStore
  ImplementsTty
