--------------------------------- MODULE Pipe ---------------------------------
(***************************************************************************)
(* A pipe of pipe.c: pipewrite(), piperead() and pipeclose() by several    *)
(* processes, which sleep and wake each other, may be killed at any time,  *)
(* and share the two ends by reference count (fileclose()).                *)
(*                                                                         *)
(* p->lock is kept from acquire() to release() or sleep(). sleep(chan,     *)
(* &p->lock) gives the lock up and sleeps in one step, which is what its   *)
(* use of ptable.lock is for (NoTickMissed of Proc). kill() takes          *)
(* ptable.lock only, so it may come between any two steps.                 *)
(***************************************************************************)
EXTENDS Integers, Sequences, FiniteSets

CONSTANTS
  Procs,       \* the processes
  Ends,        \* the ends each has a descriptor for when the pipe is made
  Bytes,       \* the values of a byte
  PIPESIZE,
  Wrap,        \* what the uint counters nread and nwrite wrap at
  Requests,    \* bound: the sizes read() and write() are called with
  NoProc, Eof, Nothing

ASSUME PipeAssumption ==
  /\ PIPESIZE \in Nat \ {0} /\ Wrap \in Nat
  /\ Wrap > PIPESIZE /\ Wrap % PIPESIZE = 0
  /\ Requests \subseteq Nat
  /\ Ends \in [Procs -> SUBSET {"r", "w"}]
  /\ NoProc \notin Procs /\ Eof \notin Bytes /\ Nothing \notin Bytes

VARIABLES
  lock,        \* who has p->lock
  data, nread, nwrite, readopen, writeopen,   \* struct pipe
  freed,       \* the pipe's page has been given back
  ends,        \* the ends each process has open
  pc,          \* where each process is
  left,        \* bytes its call has still to move
  got,         \* its read has copied a byte
  killed,
  heard        \* the byte, or end of file, a reader got last

ring == <<data, nread, nwrite>>
open == <<readopen, writeopen, freed, ends>>
vars == <<lock, ring, open, pc, left, got, killed, heard>>

\* As pipealloc() makes it.
Init ==
  /\ lock = NoProc
  /\ data \in [0..PIPESIZE - 1 -> Bytes]
  /\ nread = 0 /\ nwrite = 0
  /\ readopen = TRUE /\ writeopen = TRUE /\ freed = FALSE
  /\ ends = Ends
  /\ pc = [p \in Procs |-> "user"]
  /\ left = [p \in Procs |-> 0]
  /\ got = [p \in Procs |-> FALSE]
  /\ killed = [p \in Procs |-> FALSE]
  /\ heard = Nothing

Full == nwrite = (nread + PIPESIZE) % Wrap
Empty == nread = nwrite

\* wakeup() of those asleep at place ("rsleep" is on &p->nread, "wsleep" on
\* &p->nwrite), and p's move to there.
WakeAnd(p, place, woken, there) ==
  [q \in Procs |-> IF q = p THEN there ELSE IF pc[q] = place THEN woken ELSE pc[q]]

WakeReaders(p, there) == WakeAnd(p, "rsleep", "rwoken", there)
WakeWriters(p, there) == WakeAnd(p, "wsleep", "wwoken", there)

Goto(p, from, to) == pc[p] = from /\ pc' = [pc EXCEPT ![p] = to]
Locked(p) == lock = NoProc /\ lock' = p
Unlocked == lock' = NoProc

-----------------------------------------------------------------------------
(* pipewrite()                                                             *)

CallWrite(p, n) ==
  /\ "w" \in ends[p] /\ ~killed[p]
  /\ Goto(p, "user", "write") /\ Locked(p)
  /\ left' = [left EXCEPT ![p] = n]
  /\ UNCHANGED <<ring, open, got, killed, heard>>

WriteByte(p) ==
  /\ pc[p] = "write" /\ left[p] > 0 /\ ~Full
  /\ \E b \in Bytes : data' = [data EXCEPT ![nwrite % PIPESIZE] = b]
  /\ nwrite' = (nwrite + 1) % Wrap
  /\ left' = [left EXCEPT ![p] = @ - 1]
  /\ UNCHANGED <<lock, nread, open, pc, got, killed, heard>>

\* The pipe is full: the write fails if nobody can read or the writer has
\* been killed; otherwise it is going to wait.
WriteFull(p) ==
  /\ left[p] > 0 /\ Full
  /\ IF ~readopen \/ killed[p]
       THEN Goto(p, "write", "user") /\ Unlocked /\ left' = [left EXCEPT ![p] = 0]
       ELSE Goto(p, "write", "wfull") /\ UNCHANGED <<lock, left>>
  /\ UNCHANGED <<ring, open, got, killed, heard>>

\* Mutant: a writer that waits tells no reader of what it has written.
WriteWaitSilently(p) ==
  /\ Goto(p, "wfull", "wsleep")
  /\ Unlocked
  /\ UNCHANGED <<ring, open, left, got, killed, heard>>

\* wakeup(&p->nread); sleep(&p->nwrite, &p->lock).
WriteWait(p) ==
  /\ pc[p] = "wfull"
  /\ pc' = WakeReaders(p, "wsleep")
  /\ Unlocked
  /\ UNCHANGED <<ring, open, left, got, killed, heard>>

\* sleep() takes the lock again.
WriteAgain(p) ==
  /\ Goto(p, "wwoken", "write") /\ Locked(p)
  /\ UNCHANGED <<ring, open, left, got, killed, heard>>

WriteDone(p) ==
  /\ pc[p] = "write" /\ left[p] = 0
  /\ pc' = WakeReaders(p, "user")
  /\ Unlocked
  /\ UNCHANGED <<ring, open, left, got, killed, heard>>

-----------------------------------------------------------------------------
(* piperead()                                                              *)

CallRead(p, n) ==
  /\ "r" \in ends[p] /\ ~killed[p]
  /\ Goto(p, "user", "read") /\ Locked(p)
  /\ left' = [left EXCEPT ![p] = n]
  /\ UNCHANGED <<ring, open, got, killed, heard>>

\* The loop's test: wait while the pipe is empty and may still be written,
\* unless killed.
ReadTest(p) ==
  /\ IF ~(Empty /\ writeopen) THEN Goto(p, "read", "copy") /\ UNCHANGED lock
     ELSE IF killed[p] THEN Goto(p, "read", "user") /\ Unlocked
     ELSE Goto(p, "read", "rempty") /\ UNCHANGED lock
  /\ left' = [left EXCEPT ![p] = IF pc'[p] = "user" THEN 0 ELSE @]
  /\ UNCHANGED <<ring, open, got, killed, heard>>

ReadWait(p) ==
  /\ Goto(p, "rempty", "rsleep")
  /\ Unlocked
  /\ UNCHANGED <<ring, open, left, got, killed, heard>>

ReadAgain(p) ==
  /\ Goto(p, "rwoken", "read") /\ Locked(p)
  /\ UNCHANGED <<ring, open, left, got, killed, heard>>

\* Mutant: the reader's counter does not wrap with the buffer.
ReadByteShifted(p) ==
  /\ pc[p] = "copy" /\ left[p] > 0 /\ ~Empty
  /\ heard' = data[(nread + 1) % PIPESIZE]
  /\ nread' = (nread + 1) % Wrap
  /\ left' = [left EXCEPT ![p] = @ - 1]
  /\ got' = [got EXCEPT ![p] = TRUE]
  /\ UNCHANGED <<lock, data, nwrite, open, pc, killed>>

ReadByte(p) ==
  /\ pc[p] = "copy" /\ left[p] > 0 /\ ~Empty
  /\ heard' = data[nread % PIPESIZE]
  /\ nread' = (nread + 1) % Wrap
  /\ left' = [left EXCEPT ![p] = @ - 1]
  /\ got' = [got EXCEPT ![p] = TRUE]
  /\ UNCHANGED <<lock, data, nwrite, open, pc, killed>>

\* The read returns what it has; nothing, when more was asked for, is the end
\* of file.
ReadDone(p) ==
  /\ pc[p] = "copy" /\ (left[p] = 0 \/ Empty)
  /\ pc' = WakeWriters(p, "user")
  /\ heard' = IF ~got[p] /\ left[p] > 0 THEN Eof ELSE heard
  /\ left' = [left EXCEPT ![p] = 0]
  /\ got' = [got EXCEPT ![p] = FALSE]
  /\ Unlocked
  /\ UNCHANGED <<ring, open, killed>>

-----------------------------------------------------------------------------
(* close(), exit() and kill()                                              *)

\* Mutant: every close() of an end closes the pipe's end.
CloseUncounted(p, e) ==
  /\ e \in ends[p]
  /\ ends' = [ends EXCEPT ![p] = @ \ {e}]
  /\ Goto(p, "user", IF e = "w" THEN "wclose" ELSE "rclose")
  /\ UNCHANGED <<lock, ring, readopen, writeopen, freed, left, got, killed, heard>>

\* fileclose(): the last descriptor of an end goes on to pipeclose().
Close(p, e) ==
  /\ e \in ends[p]
  /\ ends' = [ends EXCEPT ![p] = @ \ {e}]
  /\ Goto(p, "user", IF \E q \in Procs \ {p} : e \in ends[q] THEN "user"
                     ELSE IF e = "w" THEN "wclose" ELSE "rclose")
  /\ UNCHANGED <<lock, ring, readopen, writeopen, freed, left, got, killed, heard>>

\* pipeclose(): the other side is woken; whoever finds both closed frees.
Pipeclose(p) ==
  /\ lock = NoProc
  /\ \/ /\ pc[p] = "wclose"
        /\ writeopen' = FALSE /\ pc' = WakeReaders(p, "user")
        /\ freed' = (freed \/ ~readopen) /\ UNCHANGED readopen
     \/ /\ pc[p] = "rclose"
        /\ readopen' = FALSE /\ pc' = WakeWriters(p, "user")
        /\ freed' = (freed \/ ~writeopen) /\ UNCHANGED writeopen
  /\ UNCHANGED <<lock, ring, ends, left, got, killed, heard>>

\* kill(), as often as anybody likes: marks the process, and wakes it if it is
\* asleep.
Kill(p) ==
  /\ killed' = [killed EXCEPT ![p] = TRUE]
  /\ pc' = [pc EXCEPT ![p] = CASE @ = "rsleep" -> "rwoken"
                               [] @ = "wsleep" -> "wwoken"
                               [] OTHER -> @]
  /\ UNCHANGED <<lock, ring, open, left, got, heard>>

\* A killed process closes its descriptors on its way through exit().
Exit(p) == killed[p] /\ \E e \in {"r", "w"} : Close(p, e)

Step(p) ==
  \/ WriteByte(p) \/ WriteFull(p) \/ WriteWait(p) \/ WriteAgain(p) \/ WriteDone(p)
  \/ ReadTest(p) \/ ReadWait(p) \/ ReadAgain(p) \/ ReadByte(p) \/ ReadDone(p)
  \/ Pipeclose(p) \/ Exit(p)

\* What a process does of its own will.
Call(p) ==
  \/ \E n \in Requests : CallWrite(p, n) \/ CallRead(p, n)
  \/ \E e \in {"r", "w"} : ~killed[p] /\ Close(p, e)

Next == \E p \in Procs : Step(p) \/ Call(p) \/ Kill(p)

Spec == Init /\ [][Next]_vars

-----------------------------------------------------------------------------
(* Properties.                                                             *)

Count == (nwrite - nread) % Wrap

\* Every variable keeps its type, and the ring never holds more than it can.
TypeOK ==
  /\ lock \in Procs \cup {NoProc}
  /\ data \in [0..PIPESIZE - 1 -> Bytes]
  /\ nread \in 0..Wrap - 1 /\ nwrite \in 0..Wrap - 1 /\ Count <= PIPESIZE
  /\ readopen \in BOOLEAN /\ writeopen \in BOOLEAN /\ freed \in BOOLEAN
  /\ ends \in [Procs -> SUBSET {"r", "w"}]
  /\ pc \in [Procs -> {"user", "write", "wfull", "wsleep", "wwoken", "read",
                       "rempty", "rsleep", "rwoken", "copy", "rclose", "wclose"}]
  /\ left \in [Procs -> Nat]
  /\ got \in [Procs -> BOOLEAN] /\ killed \in [Procs -> BOOLEAN]
  /\ heard \in Bytes \cup {Eof, Nothing}

\* No lost wakeup: while nobody has the lock, a sleeping writer has no room and
\* somebody who may make some, and a sleeping reader has nothing to read and
\* may yet get something. The one exception is a write cut short by kill().
SleepersHaveReason ==
  lock = NoProc =>
    \A p \in Procs :
      /\ pc[p] = "wsleep" => Full /\ readopen
      /\ pc[p] = "rsleep" => writeopen
      /\ pc[p] = "rsleep" /\ ~Empty => \E q \in Procs : killed[q] /\ "w" \in Ends[q]

\* The page is freed once both ends are closed for everyone, and by then no
\* process is in the pipe or can come back to it.
FreedWhenUnused ==
  /\ freed => \A p \in Procs : ends[p] = {} /\ pc[p] = "user"
  /\ freed \/ readopen \/ writeopen

\* The ring is within its bounds and the page is there as long as it is used.
PipeSound == TypeOK /\ FreedWhenUnused

\* The pipe is a FIFO channel, through every wrap of its counters.
Contents == [i \in 1..Count |-> data[(nread + i - 1) % PIPESIZE]]

AChannel == INSTANCE Channel WITH
  q <- Contents, Capacity <- PIPESIZE, wopen <- writeopen, ropen <- readopen

ImplementsChannel == AChannel!Spec

=============================================================================
