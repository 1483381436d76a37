------------------------------- MODULE MCParts -------------------------------
(***************************************************************************)
(* The parts with a small state beside each other, each an instance for    *)
(* TLC: spin locks, the start of the processors, the keyboard, the clock,  *)
(* the blocks and bytes of files, the console, and routines. They share no *)
(* state, so that a behaviour is one of any of them.                       *)
(***************************************************************************)
EXTENDS Spinlock, SequencesExt, Storage, Terminal

VARIABLES
  part,                                                  \* the one that runs
  boPc, boStack, boArgs, boStarted, boFree, boInside, boUselock, boRunnable,
  kbShift, kbPort, kbGot, kbHeld, kbLost, kbLocked, kbDue,
  rtTime, rtUip, rtPc, rtT1, rtT2, rtSince, rtStill,
  roCall

boVars == <<boPc, boStack, boArgs, boStarted, boFree, boInside, boUselock, boRunnable>>
kbVars == <<kbShift, kbPort, kbGot, kbHeld, kbLost, kbLocked, kbDue>>
rtVars == <<rtTime, rtUip, rtPc, rtT1, rtT2, rtSince, rtStill>>
blVars == <<blBitmap, blDisk, blInode, blOff, blProc, blGot, blLogged, blCalls, blPanicked>>
coVars == <<coInput, coProc, coGot, coKilled>>

\* Two processors to start, three pages below 4 Mbyte and two above.
Bo == INSTANCE Boot WITH
        Others <- {1, 2}, BootCpu <- 0, LowPages <- 1..3, Pages <- 1..5,
        pc <- boPc, stack <- boStack, args <- boArgs, started <- boStarted, free <- boFree,
        inside <- boInside, uselock <- boUselock, runnable <- boRunnable

\* Both control keys, a shift, A and caps lock.
SomeKeys ==
  {[code |-> 29, e0 |-> FALSE], [code |-> 29, e0 |-> TRUE], [code |-> 42, e0 |-> FALSE],
   [code |-> 30, e0 |-> FALSE], [code |-> 58, e0 |-> FALSE]}

Kb == INSTANCE Kbd WITH
        Keys <- SomeKeys, MaxBytes <- 3,
        shift <- kbShift, port <- kbPort, got <- kbGot, held <- kbHeld, lost <- kbLost,
        locked <- kbLocked, due <- kbDue

\* Two registers, which come round within the bound.
Rt == INSTANCE Rtc WITH
        Radix <- <<2, 2>>, MaxTime <- 5,
        time <- rtTime, uip <- rtUip, pc <- rtPc, t1 <- rtT1, t2 <- rtT2, since <- rtSince,
        still <- rtStill

\* Two of three open files are on one inode.
SomeFiles == <<1, 1, 2>>

P == INSTANCE Parser WITH MAXARGS <- 3

\* Every line of four tokens, every pattern and text of three characters, a disk whose
\* blocks hold two entries.
Ro == INSTANCE Routines WITH
        MAXARGS <- 3, MEM <- 6, UINT <- 16, COLS <- 80, ROWS <- 24,
        BSIZE <- 2, NDIRECT <- 2, NINDIRECT <- 2, NMETA <- 5,
        Patterns <- BoundedSeq({"a", ".", "*", "^", "$"}, 3), Texts <- BoundedSeq({"a", "b", "$"}, 3),
        CommandLines <- BoundedSeq(P!Tokens \ {"<", "+"}, 4) \cup BoundedSeq(P!Tokens, 3),
        FileSizes <- BoundedSeq(0..8, 3),
        call <- roCall

\* Texts of five characters and formats of five, a buffer of four.
Li == INSTANCE Library WITH
        BUFSIZE <- 4, Texts <- BoundedSeq({"a", " ", "nl"}, 5),
        Formats <- BoundedSeq({"a", "%", "d", "c"}, 5), call <- roCall

\* Kernels of one segment and of two that do not overlap, in ten bytes; a stack of eight
\* words, with arguments up to the whole of it and down to below the page under it.
Segments ==
  {ph \in [paddr : 1..6, filesz : 0..3, memsz : 1..4, off : {2, 3}] :
     ph.filesz <= ph.memsz /\ ph.paddr + ph.memsz < 8}

Kernels == {<<ph>> : ph \in Segments}
             \cup {phs \in Segments \X Segments : phs[1].paddr + phs[1].memsz <= phs[2].paddr}

Lo == INSTANCE Loader WITH
        SECTSIZE <- 2, MEM <- 10, Images <- Kernels,
        NCPU <- 2, Tables <- BoundedSeq({"PROC", "IOAPIC", "BUS", "other"}, 4),
        PGSIZE <- 32, MAXARG <- 4, Arguments <- BoundedSeq({0, 3, 4, 7, 70}, 5), call <- roCall

\* The variables of a part that does not run are idle.
Idle == 0

PartsInit ==
  /\ part \in {"spin", "boot", "keyboard", "clock", "blocks", "console", "routines"}
  /\ Init /\ Ro!Init /\ Bl!Init /\ Co!Init
  /\ IF part = "boot" THEN Bo!Init
     ELSE /\ boPc = Idle /\ boStack = Idle /\ boArgs = Idle /\ boStarted = Idle /\ boFree = Idle
          /\ boInside = Idle /\ boUselock = Idle /\ boRunnable = Idle
  /\ IF part = "keyboard" THEN Kb!Init
     ELSE /\ kbShift = Idle /\ kbPort = Idle /\ kbGot = Idle /\ kbHeld = Idle /\ kbLost = Idle
          /\ kbLocked = Idle /\ kbDue = Idle
  /\ IF part = "clock" THEN Rt!Init
     ELSE /\ rtTime = Idle /\ rtUip = Idle /\ rtPc = Idle /\ rtT1 = Idle /\ rtT2 = Idle
          /\ rtSince = Idle /\ rtStill = Idle

Spin ==
  /\ part = "spin" /\ Next
  /\ UNCHANGED <<boVars, kbVars, rtVars, blVars, coVars, roCall>>
Booting ==
  /\ part = "boot" /\ Bo!Next
  /\ UNCHANGED <<vars, kbVars, rtVars, blVars, coVars, roCall>>
Pressing ==
  /\ part = "keyboard" /\ Kb!Next
  /\ UNCHANGED <<vars, boVars, rtVars, blVars, coVars, roCall>>
Ticking ==
  /\ part = "clock" /\ Rt!Next
  /\ UNCHANGED <<vars, boVars, kbVars, blVars, coVars, roCall>>
Storing ==
  /\ part = "blocks" /\ Bl!Next
  /\ UNCHANGED <<vars, boVars, kbVars, rtVars, coVars, roCall>>
Typing ==
  /\ part = "console" /\ Co!Next
  /\ UNCHANGED <<vars, boVars, kbVars, rtVars, blVars, roCall>>
Calling ==
  /\ part = "routines" /\ (Ro!Next \/ Li!LibraryNext \/ Lo!LoaderNext)
  /\ UNCHANGED <<vars, boVars, kbVars, rtVars, blVars, coVars>>

\* The instances of these may stop at a bound or a panic; the others may not.
Rest == /\ part \in {"keyboard", "clock", "blocks", "console", "routines"}
        /\ UNCHANGED <<vars, boVars, kbVars, rtVars, blVars, coVars, roCall>>

PartsNext ==
  /\ UNCHANGED part
  /\ \/ Spin \/ Booting \/ Pressing \/ Ticking \/ Storing \/ Typing \/ Calling \/ Rest

PartsSpec ==
  PartsInit /\ [][PartsNext]_<<part, vars, boVars, kbVars, rtVars, blVars, coVars, roCall>>

-----------------------------------------------------------------------------
\* Of a part that does not run there is nothing to say.

MachineSound  == /\ part = "boot" => Bo!BootSound
                 /\ part = "keyboard" => Kb!KeysRight
                 /\ part = "clock" => Rt!TimeTrue
RoutinesRight == part = "routines" => Ro!RoutinesRight /\ Li!LibraryRight /\ Lo!LoaderRight

=============================================================================
