-------------------------------- MODULE Bcache --------------------------------
(***************************************************************************)
(* The buffer cache of bio.c, the sleep lock of each buffer (sleeplock.c), *)
(* and the disk driver's request queue of ide.c, used by several processes *)
(* and served by the disk's interrupt.                                     *)
(*                                                                         *)
(* A section under bcache.lock, b->lock.lk or idelock is one step, and     *)
(* sleep() gives its lock up and sleeps in the same step (NoTickMissed of  *)
(* Proc). Between those sections the steps of other processes, and the     *)
(* interrupt, come in any order.                                           *)
(***************************************************************************)
EXTENDS Integers, Sequences, FiniteSets, SequencesExt

CONSTANTS
  Procs,
  Blocks, Vals,   \* the disk's blocks, and what may be in them
  NBUF,           \* the number of buffers
  NoProc, NoBlock

ASSUME BcacheAssumption ==
  /\ IsFiniteSet(Procs) /\ NBUF \in Nat \ {0}
  /\ NoProc \notin Procs /\ NoBlock \notin Blocks

Bufs == 1..NBUF

VARIABLES
  disk,
  blockno, refcnt, valid, dirty, data,   \* struct buf
  mru,         \* the buffers from head.next on, most recently used first
  locker,      \* who has b->lock
  idequeue,
  request,     \* what idestart() has told the disk to do, <<>> if nothing
  pc,          \* where each process is
  want,        \* the block it has asked for
  buf,         \* the buffer bget() has found; 0 is none
  panicked     \* "bget: no buffers"

fields == <<blockno, refcnt, valid, dirty, data>>
mine   == <<want, buf>>
ide    == <<idequeue, request>>
vars   == <<disk, fields, mru, locker, ide, pc, mine, panicked>>

Init ==
  /\ disk \in [Blocks -> Vals]
  /\ blockno = [i \in Bufs |-> NoBlock]
  /\ refcnt = [i \in Bufs |-> 0]
  /\ valid = [i \in Bufs |-> FALSE] /\ dirty = [i \in Bufs |-> FALSE]
  /\ \E v \in Vals : data = [i \in Bufs |-> v]
  /\ mru = [i \in Bufs |-> NBUF + 1 - i]
  /\ locker = [i \in Bufs |-> NoProc]
  /\ idequeue = <<>> /\ request = <<>>
  /\ pc = [p \in Procs |-> "out"]
  /\ want = [p \in Procs |-> NoBlock]
  /\ buf = [p \in Procs |-> 0]
  /\ panicked = FALSE

Goto(p, from, to) == pc[p] = from /\ pc' = [pc EXCEPT ![p] = to]

\* wakeup() of those asleep at place over buffer i, after which p goes to there.
WakeAnd(p, i, place, woken, there) ==
  [q \in Procs |-> IF q = p THEN there
                   ELSE IF pc[q] = place /\ buf[q] = i THEN woken ELSE pc[q]]

-----------------------------------------------------------------------------
(* bget(), acquiresleep(), bread()                                         *)

\* Mutant: a buffer the log has changed may be recycled.
RecyclableDirty == {k \in 1..NBUF : refcnt[mru[k]] = 0}

\* The buffer to recycle: the least recently used one nobody refers to and the
\* log has not changed.
Recyclable == {k \in 1..NBUF : refcnt[mru[k]] = 0 /\ ~dirty[mru[k]]}
Victim == mru[CHOOSE k \in Recyclable : \A j \in Recyclable : j <= k]

\* Mutant: a miss is looked up without its lock, by one process too many.
BgetTwice(p, b) ==
  /\ Goto(p, "out", "lock")
  /\ want' = [want EXCEPT ![p] = b]
  /\ Recyclable # {}
  /\ buf' = [buf EXCEPT ![p] = Victim]
  /\ blockno' = [blockno EXCEPT ![Victim] = b]
  /\ refcnt' = [refcnt EXCEPT ![Victim] = 1]
  /\ valid' = [valid EXCEPT ![Victim] = FALSE]
  /\ dirty' = [dirty EXCEPT ![Victim] = FALSE]
  /\ UNCHANGED <<data, disk, mru, locker, ide, panicked>>

\* bget() under bcache.lock: the cached buffer, or a recycled one.
Bget(p, b) ==
  /\ want' = [want EXCEPT ![p] = b]
  /\ \/ \E i \in Bufs :
          /\ blockno[i] = b
          /\ Goto(p, "out", "lock")
          /\ buf' = [buf EXCEPT ![p] = i]
          /\ refcnt' = [refcnt EXCEPT ![i] = @ + 1]
          /\ UNCHANGED <<blockno, valid, dirty, panicked>>
     \/ /\ \A i \in Bufs : blockno[i] # b
        /\ Recyclable # {}
        /\ Goto(p, "out", "lock")
        /\ buf' = [buf EXCEPT ![p] = Victim]
        /\ blockno' = [blockno EXCEPT ![Victim] = b]
        /\ refcnt' = [refcnt EXCEPT ![Victim] = 1]
        /\ valid' = [valid EXCEPT ![Victim] = FALSE]
        /\ dirty' = [dirty EXCEPT ![Victim] = FALSE]
        /\ UNCHANGED panicked
     \/ /\ \A i \in Bufs : blockno[i] # b
        /\ Recyclable = {}
        /\ Goto(p, "out", "panic") /\ panicked' = TRUE
        /\ UNCHANGED <<buf, blockno, refcnt, valid, dirty>>
  /\ UNCHANGED <<data, disk, mru, locker, ide>>

\* acquiresleep(&b->lock): one turn of its loop.
Acquiresleep(p) ==
  LET free == locker[buf[p]] = NoProc IN
  /\ pc[p] \in {"lock", "unlocked"}
  /\ pc' = [pc EXCEPT ![p] = IF free THEN "bread" ELSE "locksleep"]
  /\ locker' = IF free THEN [locker EXCEPT ![buf[p]] = p] ELSE locker
  /\ UNCHANGED <<disk, fields, mru, ide, mine, panicked>>

\* bread(): the block is read if the buffer does not have it.
Bread(p) ==
  /\ Goto(p, "bread", IF valid[buf[p]] THEN "has" ELSE "iderw")
  /\ UNCHANGED <<disk, fields, mru, locker, ide, mine, panicked>>

-----------------------------------------------------------------------------
(* log_write(), bwrite(), brelse()                                         *)

\* The holder changes the block and hands it to the log, which pins it.
LogWrite(p, v) ==
  /\ pc[p] = "has"
  /\ data' = [data EXCEPT ![buf[p]] = v]
  /\ dirty' = [dirty EXCEPT ![buf[p]] = TRUE]
  /\ UNCHANGED <<disk, blockno, refcnt, valid, mru, locker, ide, pc, mine, panicked>>

\* The holder changes the block, or not, and writes it to the disk.
Bwrite(p, v) ==
  /\ Goto(p, "has", "iderw")
  /\ data' = [data EXCEPT ![buf[p]] = v]
  /\ dirty' = [dirty EXCEPT ![buf[p]] = TRUE]
  /\ UNCHANGED <<disk, blockno, refcnt, valid, mru, locker, ide, mine, panicked>>

\* Mutant: brelse() does not wake those who wait for the buffer.
BrelseSilently(p) ==
  /\ Goto(p, "has", "unref")
  /\ locker' = [locker EXCEPT ![buf[p]] = NoProc]
  /\ UNCHANGED <<disk, fields, mru, ide, mine, panicked>>

\* brelse(): releasesleep(&b->lock) ...
Brelse(p) ==
  /\ pc[p] = "has"
  /\ pc' = WakeAnd(p, buf[p], "locksleep", "unlocked", "unref")
  /\ locker' = [locker EXCEPT ![buf[p]] = NoProc]
  /\ UNCHANGED <<disk, fields, mru, ide, mine, panicked>>

\* The list with buffer i unlinked and put at its head.
ToFront(i) ==
  LET at == CHOOSE k \in 1..NBUF : mru[k] = i
  IN  [k \in 1..NBUF |-> IF k = 1 THEN i ELSE IF k <= at THEN mru[k - 1] ELSE mru[k]]

\* ... and, under bcache.lock, refcnt and the buffer's place in the list.
Unref(p) ==
  /\ Goto(p, "unref", "out")
  /\ refcnt' = [refcnt EXCEPT ![buf[p]] = @ - 1]
  /\ mru' = IF refcnt[buf[p]] = 1 THEN ToFront(buf[p]) ELSE mru
  /\ want' = [want EXCEPT ![p] = NoBlock] /\ buf' = [buf EXCEPT ![p] = 0]
  /\ UNCHANGED <<disk, blockno, valid, dirty, data, locker, ide, panicked>>

-----------------------------------------------------------------------------
(* ide.c                                                                   *)

\* idestart(i): the command, and for a write the data, go to the disk.
Idestart(i) == <<blockno[i], dirty[i], data[i]>>

\* iderw(): to the end of the queue, to the disk if that is free, and to sleep.
Iderw(p) ==
  /\ Goto(p, "iderw", "iosleep")
  /\ idequeue' = Append(idequeue, buf[p])
  /\ request' = IF idequeue = <<>> THEN Idestart(buf[p]) ELSE request
  /\ UNCHANGED <<disk, fields, mru, locker, mine, panicked>>

\* Mutant: only readers are woken.
IdeintrWakesReaders ==
  LET i == Head(idequeue)
      rest == Tail(idequeue)
  IN
  /\ request # <<>>
  /\ request' = IF rest = <<>> THEN <<>> ELSE Idestart(Head(rest))
  /\ idequeue' = rest
  /\ disk' = IF request[2] THEN [disk EXCEPT ![request[1]] = request[3]] ELSE disk
  /\ data' = IF dirty[i] THEN data ELSE [data EXCEPT ![i] = disk[request[1]]]
  /\ valid' = [valid EXCEPT ![i] = TRUE]
  /\ dirty' = [dirty EXCEPT ![i] = FALSE]
  /\ pc' = IF dirty[i] THEN pc ELSE WakeAnd(NoProc, i, "iosleep", "iowoken", "")
  /\ UNCHANGED <<blockno, refcnt, mru, locker, mine, panicked>>

\* The disk has done what it was told. ideintr() takes the first buffer off the
\* queue, fills it if it was to be read, wakes its process, and starts the next.
Ideintr ==
  LET i == Head(idequeue)
      rest == Tail(idequeue)
  IN
  /\ request # <<>>
  /\ request' = IF rest = <<>> THEN <<>> ELSE Idestart(Head(rest))
  /\ idequeue' = rest
  /\ disk' = IF request[2] THEN [disk EXCEPT ![request[1]] = request[3]] ELSE disk
  /\ data' = IF dirty[i] THEN data ELSE [data EXCEPT ![i] = disk[request[1]]]
  /\ valid' = [valid EXCEPT ![i] = TRUE]
  /\ dirty' = [dirty EXCEPT ![i] = FALSE]
  /\ pc' = WakeAnd(NoProc, i, "iosleep", "iowoken", "")
  /\ UNCHANGED <<blockno, refcnt, mru, locker, mine, panicked>>

\* An interrupt nobody waits for is ignored.
Spurious == idequeue = <<>> /\ UNCHANGED vars

\* iderw() goes on when its buffer is in order.
IderwDone(p) ==
  /\ Goto(p, "iowoken", IF valid[buf[p]] /\ ~dirty[buf[p]] THEN "has" ELSE "iosleep")
  /\ UNCHANGED <<disk, fields, mru, locker, ide, mine, panicked>>

-----------------------------------------------------------------------------

Step(p) ==
  \/ Acquiresleep(p) \/ Bread(p) \/ Brelse(p) \/ Unref(p) \/ Iderw(p) \/ IderwDone(p)

\* panic() stops the machine.
Frozen == panicked /\ UNCHANGED vars

Next ==
  \/ /\ ~panicked
     /\ \/ \E p \in Procs :
             \/ Step(p)
             \/ \E b \in Blocks : Bget(p, b)
             \/ \E v \in Vals : LogWrite(p, v) \/ Bwrite(p, v)
        \/ Ideintr \/ Spurious
  \/ Frozen

Spec == Init /\ [][Next]_vars

\* The disk answers, and a process in bread(), bwrite() or brelse() goes on.
FairSpec ==
  /\ Spec
  /\ WF_vars(~panicked /\ Ideintr)
  /\ \A p \in Procs : WF_vars(~panicked /\ Step(p))

-----------------------------------------------------------------------------
(* Properties.                                                             *)

Using(i) == {p \in Procs : buf[p] = i}

\* Every variable keeps its type, mru is a list of all the buffers, and refcnt
\* counts the processes that have the buffer.
TypeOK ==
  /\ disk \in [Blocks -> Vals] /\ data \in [Bufs -> Vals]
  /\ blockno \in [Bufs -> Blocks \cup {NoBlock}]
  /\ valid \in [Bufs -> BOOLEAN] /\ dirty \in [Bufs -> BOOLEAN]
  /\ refcnt \in [Bufs -> Nat] /\ \A i \in Bufs : refcnt[i] = Cardinality(Using(i))
  /\ mru \in [1..NBUF -> Bufs] /\ Range(mru) = Bufs
  /\ locker \in [Bufs -> Procs \cup {NoProc}]
  /\ idequeue \in Seq(Bufs)
  /\ pc \in [Procs -> {"out", "lock", "locksleep", "unlocked", "bread", "has",
                       "unref", "iderw", "iosleep", "iowoken", "panic"}]
  /\ want \in [Procs -> Blocks \cup {NoBlock}] /\ buf \in [Procs -> 0..NBUF]

\* A block is in one buffer at most, and a buffer keeps its block from bget() to
\* brelse(), so that two users of a block meet on one sleep lock.
OneBuffer ==
  /\ \A i, j \in Bufs : i # j /\ blockno[i] \in Blocks => blockno[i] # blockno[j]
  /\ \A p \in Procs : buf[p] # 0 => blockno[buf[p]] = want[p]

\* No request is lost or doubled: who waits for the disk has its buffer in the
\* queue, once, what is queued belongs to the holder of the buffer's lock, and
\* the disk is working on the first of them.
QueueSound ==
  /\ \A p \in Procs : pc[p] = "iosleep" => Contains(idequeue, buf[p])
  /\ IsInjective(idequeue)
  /\ \A k \in 1..Len(idequeue) :
       \E p \in Procs : locker[idequeue[k]] = p /\ pc[p] = "iosleep" /\ buf[p] = idequeue[k]
  /\ request = IF idequeue = <<>> THEN <<>> ELSE Idestart(Head(idequeue))

\* The cache's lists, counts and locks agree with those who use its buffers.
CacheSound == TypeOK /\ OneBuffer /\ QueueSound

\* No lost wakeup on a sleep lock: who sleeps for it sleeps while another has it.
LockSleepersHaveReason ==
  \A p \in Procs : pc[p] = "locksleep" => locker[buf[p]] \notin {NoProc, p}

\* The cache and the disk together are one store, whose blocks are changed by
\* their holder only; in particular recycling a buffer loses no change.
Holds(p, b) == want[p] = b /\ pc[p] \in {"bread", "has", "iderw", "iosleep", "iowoken"}

Store == INSTANCE BlockStore WITH
  val <- [b \in Blocks |->
            LET with == {i \in Bufs : blockno[i] = b /\ valid[i]}
            IN  IF with = {} THEN disk[b] ELSE data[CHOOSE i \in with : TRUE]],
  holder <- [b \in Blocks |->
               LET who == {p \in Procs : Holds(p, b)}
               IN  IF who = {} THEN NoProc ELSE CHOOSE p \in who : TRUE]

ImplementsStore == Store!Spec

\* Every request is answered: a process that waits for the disk gets its block.
RequestServed ==
  \A p \in Procs : pc[p] = "iosleep" ~> (pc[p] = "has" \/ panicked)

=============================================================================
