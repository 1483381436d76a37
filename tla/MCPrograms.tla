------------------------------ MODULE MCPrograms ------------------------------
(***************************************************************************)
(* What programs work with, each an instance for TLC: pages, by the list   *)
(* of v1b, the memory of processes and malloc(); open files and the        *)
(* pipelines of the shell; processes, names and files, as the tests of     *)
(* usertests.c use them. They share no state, so that a behaviour is one   *)
(* of any of them.                                                         *)
(***************************************************************************)
EXTENDS KallocList, Descriptors

VARIABLES
  part,                                                  \* the one that runs
  vmMem, vmState, vmPid, vmParent, vmSz, vmPgdir, vmKstack, vmNextpid, vmRet,
  umS, umFreep, umBrk, umWanted, umUsed, umOwn,
  shProc, shPipe, shTyped,
  mtMem, mtState, mtPid, mtParent, mtSz, mtPgdir, mtKstack, mtNextpid, mtRet,
  mtTest, mtTodo, mtPids, mtBytes, mtOops,
  utDisk, utDurable, utIcache, utProc, utPanicked, utTest, utTodo, utOops,
  ftBitmap, ftDisk, ftInode, ftOff, ftProc, ftGot, ftLogged, ftCalls, ftPanicked,
  ftTest, ftTodo, ftSeen, ftOops

vmVars == <<vmMem, vmState, vmPid, vmParent, vmSz, vmPgdir, vmKstack, vmNextpid, vmRet>>
umVars == <<umS, umFreep, umBrk, umWanted, umUsed, umOwn>>
fiVars == <<fiFtable, fiInode, fiPipe, fiProc>>
shVars == <<shProc, shPipe, shTyped>>
mtVars == <<mtMem, mtState, mtPid, mtParent, mtSz, mtPgdir, mtKstack, mtNextpid, mtRet,
            mtTest, mtTodo, mtPids, mtBytes, mtOops>>
utVars == <<utDisk, utDurable, utIcache, utProc, utPanicked, utTest, utTodo, utOops>>
ftVars == <<ftBitmap, ftDisk, ftInode, ftOff, ftProc, ftGot, ftLogged, ftCalls, ftPanicked,
            ftTest, ftTodo, ftSeen, ftOops>>

\* One and two segments, one that ends in mid page, a segment that cannot be read,
\* arguments too long, a file that is not a program.
SomePrograms ==
  {[ends |-> <<1>>, good |-> 1, argsFit |-> TRUE],
   [ends |-> <<2, 3>>, good |-> 2, argsFit |-> TRUE],
   [ends |-> <<3, 2>>, good |-> 1, argsFit |-> TRUE],
   [ends |-> <<1>>, good |-> 1, argsFit |-> FALSE],
   [ends |-> <<>>, good |-> -1, argsFit |-> TRUE]}

\* Lists that give ten and eleven pages before they end, and twelve frames, beside words
\* of nobody's and of somebody else's. A process takes five to nine.
SomeKernels ==
  {[version |-> "list", pages |-> n, beside |-> <<0, 0>>] : n \in {20, 22}}
    \cup {[version |-> "table", pages |-> 12, beside |-> b] : b \in {<<-1, -1>>, <<0, 0>>}}

\* Two processes, with at most four pages of user memory each.
V == INSTANCE Vm WITH
       Procs <- {1, 2}, InitProc <- 1, Kernels <- SomeKernels, PGSIZE <- 2, PerTable <- 2,
       UserTables <- 2, KernTables <- 1, Increments <- {-3, -1, 1, 3},
       Programs <- SomePrograms, MaxPid <- 3,
       mem <- vmMem, state <- vmState, pid <- vmPid, parent <- vmParent, sz <- vmSz,
       pgdir <- vmPgdir, kstack <- vmKstack, nextpid <- vmNextpid, ret <- vmRet

\* Blocks of two and three units in a heap of twelve.
U == INSTANCE Umalloc WITH
       HEAP <- 12, NALLOC <- 3, Requests <- {2, 3},
       s <- umS, freep <- umFreep, brk <- umBrk, wanted <- umWanted, used <- umUsed, own <- umOwn

P == INSTANCE Parser WITH MAXARGS <- 3

\* Pipelines, one with its output redirected, in the background, of three, of a list.
CommandsTyped == {P!Parsecmd(ts) : ts \in {
  <<"a", "|", "a", ">", "a">>,
  <<"a", "&", ";", "a", "|", "a">>,
  <<"a", "|", "a", "|", "a">>,
  <<"(", "a", ";", "a", ")", "|", "a">>,
  <<"a", "<">> }}

Sh == INSTANCE Shell WITH
        MAXARGS <- 3, NPROC <- 6, NPIPE <- 2, PIPESIZE <- 1, Commands <- CommandsTyped,
        Programs <- {"yes", "cat"}, MaxWrites <- 2, MaxLines <- 1,
        proc <- shProc, pipe <- shPipe, typed <- shTyped

\* The tests of processes. Five of them; slots run out, frames do not.
MemTests ==
  {"exitwait", "forktest", "preempt", "sbrktest", "validatetest", "uio", "bigargtest",
   "exectest", "init"}

ManyFrames == {[version |-> "table", pages |-> 40, beside |-> <<0, 0>>]}

Mt == INSTANCE Memtests WITH
        Procs <- 1..5, InitProc <- 1, Kernels <- ManyFrames, PGSIZE <- 2, PerTable <- 2, UserTables <- 3,
        KernTables <- 1, Increments <- {}, Programs <- {}, MaxPid <- 30,
        Chosen <- MemTests,
        mem <- mtMem, state <- mtState, pid <- mtPid, parent <- mtParent, sz <- mtSz,
        pgdir <- mtPgdir, kstack <- mtKstack, nextpid <- mtNextpid, ret <- mtRet,
        test <- mtTest, todo <- mtTodo, pids <- mtPids, bytes <- mtBytes, oops <- mtOops

\* The tests of names. Three processes, ten inodes, the names the tests use.
NameTests ==
  {"iputtest", "exitiputtest", "opentest", "createtest", "dirtest", "unlinkread", "linktest",
   "bigdir", "subdir", "fourteen", "rmdot", "dirfile", "iref", "openiputtest", "createdelete",
   "concreate0", "concreate1", "concreate2", "concreate4", "concreate6", "concreate11",
   "linkunlink"}

TestNames ==
  {".", "..", "README", "iputdir", "oidir", "dir0", "dd", "dots", "irefd", "dirfile", "unlinkread",
   "doesnotexist", "lf1", "lf2", "bd", "a", "b", "c", "ff", "ffff", "xx", "12345678901234", "x", "C",
   "p0", "p1", "p2", "p3", "q0", "q1", "q2", "q3"}

Ut == INSTANCE Usertests WITH
        Procs <- 1..3, NINODES <- 10, NOFILE <- 2, Calls <- [p \in 1..3 |-> {}], MaxCalls <- 100, MayCrash <- FALSE,
        NoProc <- 0, Chosen <- NameTests, Names <- TestNames,
        disk <- utDisk, durable <- utDurable, icache <- utIcache, proc <- utProc,
        panicked <- utPanicked, test <- utTest, todo <- utTodo, oops <- utOops

\* The tests of files. Two files on eight blocks, of six blocks at most; a transaction
\* writes one block of data.
FileTests == {"writetest", "writetest1", "sharedfd", "fourfiles", "bigwrite", "bigfile", "stressfs"}

Ft == INSTANCE Filetests WITH
        Procs <- 1..3, Inodes <- {1, 2}, FileIp <- <<1, 2>>, NBLOCKS <- 8, BSIZE <- 4, BPB <- 4,
        NDIRECT <- 2, NINDIRECT <- 4, MAXOPBLOCKS <- 6, Sizes <- {}, MaxCalls <- 100,
        Chosen <- FileTests,
        bitmap <- ftBitmap, disk <- ftDisk, inode <- ftInode, off <- ftOff, proc <- ftProc,
        got <- ftGot, logged <- ftLogged, calls <- ftCalls, panicked <- ftPanicked,
        test <- ftTest, todo <- ftTodo, seen <- ftSeen, oops <- ftOops

\* The variables of tests that do not run are idle.
Idle == 0

ProgramsInit ==
  /\ part \in {"pages", "vm", "malloc", "descriptors", "shell", "memory", "names", "files"}
  /\ Init /\ U!Init /\ Fi!Init
  /\ IF part = "vm" THEN V!Init
     ELSE /\ vmMem = Idle /\ vmState = Idle /\ vmPid = Idle /\ vmParent = Idle /\ vmSz = Idle
          /\ vmPgdir = Idle /\ vmKstack = Idle /\ vmNextpid = Idle /\ vmRet = <<1, 0>>
  /\ IF part = "shell" THEN Sh!Init
     ELSE /\ shProc = Idle /\ shPipe = Idle /\ shTyped = Idle
  /\ IF part = "memory" THEN Mt!TestInit
     ELSE /\ mtMem = Idle /\ mtState = Idle /\ mtPid = Idle /\ mtParent = Idle /\ mtSz = Idle
          /\ mtPgdir = Idle /\ mtKstack = Idle /\ mtNextpid = Idle /\ mtRet = Idle
          /\ mtTest = Idle /\ mtTodo = Idle /\ mtPids = Idle /\ mtBytes = Idle /\ mtOops = Idle
  /\ IF part = "names" THEN Ut!TestInit
     ELSE /\ utDisk = Idle /\ utDurable = Idle /\ utIcache = Idle /\ utProc = Idle
          /\ utPanicked = Idle /\ utTest = Idle /\ utTodo = Idle /\ utOops = Idle
  /\ IF part = "files" THEN Ft!TestInit
     ELSE /\ ftBitmap = Idle /\ ftDisk = Idle /\ ftInode = Idle /\ ftOff = Idle /\ ftProc = Idle
          /\ ftGot = Idle /\ ftLogged = Idle /\ ftCalls = Idle /\ ftPanicked = Idle
          /\ ftTest = Idle /\ ftTodo = Idle /\ ftSeen = Idle /\ ftOops = Idle

\* The log of v1b fills up, pids run out, the heap ends, and so do the tests.
ProgramsNext ==
  /\ UNCHANGED part
  /\ \/ /\ part = "pages" /\ Next
        /\ UNCHANGED <<vmVars, umVars, fiVars, shVars, mtVars, utVars, ftVars>>
     \/ /\ part = "vm" /\ V!Next
        /\ UNCHANGED <<vars, umVars, fiVars, shVars, mtVars, utVars, ftVars>>
     \/ /\ part = "malloc" /\ U!Next
        /\ UNCHANGED <<vars, vmVars, fiVars, shVars, mtVars, utVars, ftVars>>
     \/ /\ part = "descriptors" /\ Fi!Next
        /\ UNCHANGED <<vars, vmVars, umVars, shVars, mtVars, utVars, ftVars>>
     \/ /\ part = "shell" /\ Sh!Next
        /\ UNCHANGED <<vars, vmVars, umVars, fiVars, mtVars, utVars, ftVars>>
     \/ /\ part = "memory" /\ Mt!TestNext
        /\ UNCHANGED <<vars, vmVars, umVars, fiVars, shVars, utVars, ftVars>>
     \/ /\ part = "names" /\ Ut!TestNext
        /\ UNCHANGED <<vars, vmVars, umVars, fiVars, shVars, mtVars, ftVars>>
     \/ /\ part = "files" /\ Ft!TestNext
        /\ UNCHANGED <<vars, vmVars, umVars, fiVars, shVars, mtVars, utVars>>

ProgramsSpec == ProgramsInit /\ [][ProgramsNext]_<<part, vars, vmVars, umVars, fiVars, shVars, mtVars, utVars, ftVars>>

\* Of a part that does not run there is nothing to say.
ImagesSound   == part = "vm" => V!PagesExact /\ V!ImageWhole
FailureUndone == V!FailureUndone
HeapSound     == part = "malloc" => U!HeapSound
ShellSound    == part = "shell" => Sh!ShellSound
TestsPass     == /\ part = "memory" => Mt!TestsPass
                 /\ part = "names" => Ut!TestsPass
                 /\ part = "files" => Ft!TestsPass

=============================================================================
