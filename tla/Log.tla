---------------------------------- MODULE Log ----------------------------------
(***************************************************************************)
(* The redo log of log.c: begin_op(), log_write(), end_op() with commit(), *)
(* by several system calls at once, a crash between any two writes to the  *)
(* disk, and recovery, which may crash too.                                *)
(*                                                                         *)
(* A block is one sector, and the disk writes it whole (BSIZE =            *)
(* SECTOR_SIZE). A section under log.lock is one step; log_write() looks at *)
(* the room in the log before it takes the lock, so it is two. cache is    *)
(* what bread() returns for a home block: the buffer that B_DIRTY keeps in *)
(* the cache, or else what is on the disk.                                 *)
(***************************************************************************)
EXTENDS Integers, Sequences, FiniteSets

CONSTANTS
  Ops,           \* the processes in file system calls
  Blocks, Vals,  \* home blocks, and what may be in them
  MAXOPBLOCKS,   \* blocks a call writes at most
  LOGSIZE,       \* blocks in struct logheader
  size,          \* sb.nlog, the log's blocks on the disk with its header
  Behind         \* the home block behind the log's last, where mkfs puts inodes

ASSUME LogAssumption ==
  /\ IsFiniteSet(Ops)
  /\ MAXOPBLOCKS \in Nat \ {0} /\ LOGSIZE \in Nat /\ MAXOPBLOCKS <= LOGSIZE
  /\ size \in Nat \ {0} /\ size >= LOGSIZE      \* mkfs.c has nlog = LOGSIZE
  /\ Behind \in Blocks

VARIABLES
  home, head, slots,   \* the disk: home blocks, log header, log blocks
  cache,               \* the home blocks in memory
  lh,                  \* log.lh
  outstanding, committing,
  pc,                  \* where each call is
  wrote,               \* the blocks it has logged
  adding,              \* the one it is in log_write() with, and past the tests of room
  stage, tail,         \* where commit() or recover_from_log() is
  panicked

disk == <<home, head, slots>>
vars == <<disk, cache, lh, outstanding, committing, pc, wrote, adding, stage, tail, panicked>>

Init ==
  /\ home \in [Blocks -> Vals]
  /\ head = <<>>
  /\ slots \in {[i \in 1..LOGSIZE |-> v] : v \in Vals}
  /\ cache = home
  /\ lh = <<>> /\ outstanding = 0 /\ committing = FALSE
  /\ pc = [o \in Ops |-> "out"]
  /\ wrote = [o \in Ops |-> {}] /\ adding = wrote
  /\ stage = "none" /\ tail = 0
  /\ panicked = FALSE

\* wakeup(&log)
Woken == [o \in Ops |-> IF pc[o] = "asleep" THEN "woken" ELSE pc[o]]

\* The blocks in the log header in memory.
Logged == {lh[i] : i \in 1..Len(lh)}

-----------------------------------------------------------------------------
(* begin_op(), log_write(), end_op()                                       *)

\* The kernel is up, and not recovering.
Up == stage \notin {"boot", "recover", "reset"}

\* This call might exhaust the log, on top of those under way.
NoRoom == Len(lh) + (outstanding + 1) * MAXOPBLOCKS > LOGSIZE

\* begin_op(): sleep while a commit is under way or the log may run out.
BeginOp(o) ==
  /\ pc[o] \in {"out", "woken"} /\ Up
  /\ IF committing \/ NoRoom
       THEN pc' = [pc EXCEPT ![o] = "asleep"] /\ UNCHANGED outstanding
       ELSE pc' = [pc EXCEPT ![o] = "in"] /\ outstanding' = outstanding + 1
  /\ UNCHANGED <<disk, cache, lh, committing, wrote, adding, stage, tail, panicked>>

\* A call has changed block b, whose buffer it keeps locked, to v. log_write() tests the
\* room, without log.lock.
LogWrite(o, b, v) ==
  /\ pc[o] = "in" /\ adding[o] = {}
  /\ \A q \in Ops : b \notin adding[q]
  /\ Cardinality(wrote[o] \cup {b}) <= MAXOPBLOCKS
  /\ cache' = [cache EXCEPT ![b] = v]
  /\ IF Len(lh) >= LOGSIZE \/ Len(lh) >= size - 1 \/ outstanding < 1
       THEN panicked' = TRUE /\ UNCHANGED adding
       ELSE adding' = [adding EXCEPT ![o] = {b}] /\ UNCHANGED panicked
  /\ UNCHANGED <<disk, lh, outstanding, committing, pc, wrote, stage, tail>>

\* log_write() under log.lock: the block goes into the header, unless it is there. Others
\* may have added theirs since the test.
LogAdd(o, b) ==
  /\ b \in adding[o] /\ adding' = [adding EXCEPT ![o] = {}]
  /\ lh' = IF b \in Logged THEN lh ELSE Append(lh, b)
  /\ wrote' = [wrote EXCEPT ![o] = @ \cup {b}]
  /\ UNCHANGED <<disk, cache, outstanding, committing, pc, stage, tail, panicked>>

\* Mutant: only the last call of a group wakes those who wait for room.
EndOpQuiet(o) ==
  /\ pc[o] = "in" /\ adding[o] = {}
  /\ outstanding' = outstanding - 1
  /\ wrote' = [wrote EXCEPT ![o] = {}]
  /\ committing' = (outstanding = 1)
  /\ stage' = IF outstanding = 1 THEN "log" ELSE stage
  /\ pc' = [pc EXCEPT ![o] = IF outstanding = 1 THEN "commit" ELSE "out"]
  /\ UNCHANGED <<disk, cache, lh, adding, tail, panicked>>

\* end_op(): the last call commits; another one wakes those who wait for room.
EndOp(o) ==
  /\ pc[o] = "in" /\ adding[o] = {}
  /\ outstanding' = outstanding - 1
  /\ wrote' = [wrote EXCEPT ![o] = {}]
  /\ \/ /\ committing
        /\ panicked' = TRUE
        /\ UNCHANGED <<committing, stage, pc>>
     \/ /\ ~committing /\ outstanding = 1
        /\ committing' = TRUE /\ stage' = "log"
        /\ pc' = [pc EXCEPT ![o] = "commit"]
        /\ UNCHANGED panicked
     \/ /\ ~committing /\ outstanding > 1
        /\ pc' = [Woken EXCEPT ![o] = "out"]
        /\ UNCHANGED <<committing, stage, panicked>>
  /\ UNCHANGED <<disk, cache, lh, adding, tail>>

-----------------------------------------------------------------------------
(* commit()                                                                *)

\* The blocks of the log are bread(log.start + i). In a log of LOGSIZE blocks, of which the
\* first is the header, the last one of log.lh is not the log's.
Slot(i) == IF i < size THEN slots[i] ELSE cache[Behind]
SetSlot(i, v) ==
  IF i < size
    THEN slots' = [slots EXCEPT ![i] = v] /\ UNCHANGED <<home, cache>>
    ELSE /\ home' = [home EXCEPT ![Behind] = v] /\ cache' = [cache EXCEPT ![Behind] = v]
         /\ UNCHANGED slots

\* The block's two buffers are one, and bread() waits for itself.
Stuck == tail + 1 >= size /\ lh[tail + 1] = Behind

\* Mutant: the header goes out before the blocks it names.
WriteLogHeadFirst ==
  /\ stage = "log"
  /\ IF tail < Len(lh)
       THEN /\ ~Stuck /\ SetSlot(tail + 1, cache[lh[tail + 1]])
            /\ head' = lh
            /\ tail' = tail + 1
            /\ UNCHANGED stage
       ELSE /\ stage' = IF lh = <<>> THEN "finish" ELSE "head"
            /\ tail' = 0
            /\ UNCHANGED <<home, slots, cache, head>>
  /\ UNCHANGED <<lh, outstanding, committing, pc, wrote, adding, panicked>>

\* write_log(): block by block from the cache to the log.
WriteLog ==
  /\ stage = "log"
  /\ IF tail < Len(lh)
       THEN /\ ~Stuck /\ SetSlot(tail + 1, cache[lh[tail + 1]])
            /\ tail' = tail + 1
            /\ UNCHANGED stage
       ELSE /\ stage' = IF lh = <<>> THEN "finish" ELSE "head"
            /\ tail' = 0
            /\ UNCHANGED <<home, slots, cache>>
  /\ UNCHANGED <<head, lh, outstanding, committing, pc, wrote, adding, panicked>>

\* Mutant: the blocks are not installed.
WriteHeadOnly ==
  /\ stage = "head"
  /\ head' = lh
  /\ stage' = "clear"
  /\ UNCHANGED <<home, slots, cache, lh, outstanding, committing, pc, wrote, adding, tail, panicked>>

\* write_head(): "the true point at which the current transaction commits".
WriteHead ==
  /\ stage = "head"
  /\ head' = lh
  /\ stage' = "install"
  /\ UNCHANGED <<home, slots, cache, lh, outstanding, committing, pc, wrote, adding, tail, panicked>>

\* install_trans(): block by block from the log to its home, by way of the
\* buffers, in commit() and in recovery.
InstallTrans ==
  /\ stage \in {"install", "recover"}
  /\ IF tail < Len(lh)
       THEN /\ ~Stuck
            /\ home' = [home EXCEPT ![lh[tail + 1]] = Slot(tail + 1)]
            /\ cache' = [cache EXCEPT ![lh[tail + 1]] = Slot(tail + 1)]
            /\ tail' = tail + 1
            /\ UNCHANGED stage
       ELSE /\ stage' = IF stage = "install" THEN "clear" ELSE "reset"
            /\ tail' = 0
            /\ UNCHANGED <<home, cache>>
  /\ UNCHANGED <<head, slots, lh, outstanding, committing, pc, wrote, adding, panicked>>

\* log.lh.n = 0; write_head().
ClearLog ==
  /\ stage \in {"clear", "reset"}
  /\ lh' = <<>> /\ head' = <<>>
  /\ stage' = IF stage = "clear" THEN "finish" ELSE "none"
  /\ UNCHANGED <<home, slots, cache, outstanding, committing, pc, wrote, adding, tail, panicked>>

\* The rest of end_op(): committing = 0, and everyone is woken.
Finish ==
  /\ stage = "finish" /\ stage' = "none"
  /\ committing' = FALSE
  /\ pc' = [o \in Ops |-> IF pc[o] = "commit" THEN "out" ELSE Woken[o]]
  /\ UNCHANGED <<disk, cache, lh, outstanding, wrote, adding, tail, panicked>>

-----------------------------------------------------------------------------
(* A crash, and initlog()                                                  *)

\* The memory is gone; the disk is as it is.
Crash ==
  /\ stage' = "boot"
  /\ cache' = home
  /\ lh' = <<>> /\ outstanding' = 0 /\ committing' = FALSE
  /\ pc' = [o \in Ops |-> "out"]
  /\ wrote' = [o \in Ops |-> {}] /\ adding' = wrote'
  /\ tail' = 0 /\ panicked' = FALSE
  /\ UNCHANGED disk

\* recover_from_log(): read_head().
ReadHead ==
  /\ stage = "boot" /\ stage' = "recover"
  /\ lh' = head
  /\ UNCHANGED <<disk, cache, outstanding, committing, pc, wrote, adding, tail, panicked>>

Call(o) ==
  \/ BeginOp(o) \/ EndOp(o)
  \/ \E b \in Blocks : LogAdd(o, b) \/ \E v \in Vals : LogWrite(o, b, v)

Kernel == WriteLog \/ WriteHead \/ InstallTrans \/ ClearLog \/ Finish \/ ReadHead

Next == (~panicked /\ (Kernel \/ \E o \in Ops : Call(o))) \/ Crash

Spec == Init /\ [][Next]_vars

\* While the machine stays up, the commit and every call go on; a call ends, as its loops
\* do, however often it is in log_write() when it might.
Fairness ==
  /\ WF_vars(~panicked /\ Kernel)
  /\ \A o \in Ops : SF_vars(~panicked /\ EndOp(o))
  /\ \A o \in Ops : WF_vars(~panicked /\ \E b \in Blocks : LogAdd(o, b))
  /\ \A o \in Ops : WF_vars(~panicked /\ pc[o] = "woken" /\ BeginOp(o))

FairSpec == Spec /\ Fairness

-----------------------------------------------------------------------------
(* Properties.                                                             *)

\* Every variable keeps its type, and the headers stay within their arrays.
TypeOK ==
  /\ home \in [Blocks -> Vals] /\ cache \in [Blocks -> Vals]
  /\ slots \in [1..LOGSIZE -> Vals]
  /\ head \in Seq(Blocks) /\ Len(head) <= LOGSIZE
  /\ lh \in Seq(Blocks) /\ Len(lh) <= LOGSIZE
  /\ outstanding \in 0..Cardinality(Ops)
  /\ committing \in BOOLEAN /\ panicked \in BOOLEAN
  /\ pc \in [Ops -> {"out", "asleep", "woken", "in", "commit"}]
  /\ wrote \in [Ops -> SUBSET Blocks] /\ adding \in [Ops -> SUBSET Blocks]
  /\ stage \in {"none", "log", "head", "install", "clear", "finish", "boot",
                "recover", "reset"}
  /\ tail \in 0..LOGSIZE

\* What the disk is after recovery.
Recovered ==
  [b \in Blocks |->
     LET at == {i \in 1..Len(head) : head[i] = b}
     IN  IF at = {} THEN home[b] ELSE slots[CHOOSE i \in at : TRUE]]

Active == {o \in Ops : pc[o] = "in"}

\* What the calls see: after a crash, what recovery is going to make of it.
View == IF Up THEN cache ELSE Recovered

ADisk == INSTANCE AtomicDisk
           WITH view <- View, durable <- Recovered, active <- Active

\* A log of more than LOGSIZE blocks makes the disk an atomic one: no crash, not even
\* one in recovery, leaves a part of a group of calls on the disk, or drops a group
\* that was committed.
ImplementsAtomicDisk == ADisk!Spec

\* The room begin_op() has reserved: log.lh.block[] has space left for everything the
\* calls under way may yet log, a block on its way from the test to the lock included.
MayWrite == {ok \in Active \X (1..MAXOPBLOCKS) : ok[2] > Cardinality(wrote[ok[1]])}

Reserved == Up => Len(lh) + Cardinality(MayWrite) <= LOGSIZE

\* The memory's log header has, or is about to get, every block that differs from its
\* home, so that nothing is lost when the cache lets go of the others. A panic has kept
\* out a block only if the log has no more than LOGSIZE blocks, its header included;
\* else the panic was over a block that is logged already.
DirtyIsLogged ==
  Up => \A b \in Blocks : cache[b] # home[b] =>
          \/ b \in Logged
          \/ \E o \in Ops : b \in adding[o]
          \/ panicked /\ size = LOGSIZE

\* The one panic there may be is "too big a transaction", in a log that is full. (It may
\* be, by a call within MAXOPBLOCKS: the tests do not look for the block in the log
\* first, and that against size - 1 is for less than begin_op() gives out.)
PanicsFull == panicked => Len(lh) >= LOGSIZE \/ Len(lh) >= size - 1

\* What is changed in memory is on its way to the disk, within the header's array,
\* although the room in it is looked at without the lock.
LogSound == TypeOK /\ Reserved /\ DirtyIsLogged /\ PanicsFull

\* A call asleep in begin_op() gets to try again: the calls under way end, the
\* last one commits, and the commit wakes everyone, unless log_write() panics.
SleepersWake ==
  \A o \in Ops : pc[o] = "asleep" ~> (pc[o] # "asleep" \/ panicked)

=============================================================================
