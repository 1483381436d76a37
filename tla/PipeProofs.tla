------------------------------- MODULE PipeProofs -------------------------------
(***************************************************************************)
(* Proofs about pipe.c for any processes, requests and size of the ring:   *)
(* the ring and the page are sound, no wakeup is lost, and the pipe        *)
(* implements Channel. And, at the end, about file.c for any processes and *)
(* sizes of its tables, whose counts are exact, and about the other ring,  *)
(* the console's, which implements Tty.                                    *)
(***************************************************************************)
EXTENDS Pipe, Descriptors, Terminal, FiniteSetTheorems, SequenceTheorems, WellFoundedInduction, TLAPS

-----------------------------------------------------------------------------
(* Remainders, which the counters and the slots of the ring are.           *)

LEMMA DivMod ==
  ASSUME NEW W \in Nat \ {0}, NEW x \in Int
  PROVE  /\ x \div W \in Int /\ x % W \in 0..W - 1
         /\ x = (W * (x \div W)) + (x % W)
BY SMT

LEMMA ModUnique ==
  ASSUME NEW W \in Nat \ {0}, NEW x \in Int, NEW q \in Int, NEW r \in 0..W - 1,
         x = (W * q) + r
  PROVE  x % W = r
BY SMT

LEMMA ModSmall ==
  ASSUME NEW W \in Nat \ {0}
  PROVE  /\ \A x, y \in 0..W - 1 :
              (y - x) % W = IF x <= y THEN y - x ELSE y - x + W
         /\ \A x \in 0..W - 1, k \in 0..W - 1 :
              (x + k) % W = IF x + k < W THEN x + k ELSE x + k - W
<1>1. ASSUME NEW x \in 0..W - 1, NEW y \in 0..W - 1
      PROVE  (y - x) % W = IF x <= y THEN y - x ELSE y - x + W
  <2>1. CASE x <= y
    BY <2>1
  <2>2. CASE ~(x <= y)
    BY <2>2
  <2> QED BY <2>1, <2>2
<1>2. ASSUME NEW x \in 0..W - 1, NEW k \in 0..W - 1
      PROVE  (x + k) % W = IF x + k < W THEN x + k ELSE x + k - W
  <2>1. CASE x + k < W
    BY <2>1
  <2>2. CASE ~(x + k < W)
    BY <2>2
  <2> QED BY <2>1, <2>2
<1> QED BY <1>1, <1>2

LEMMA ModShift ==
  ASSUME NEW W \in Nat \ {0}, NEW x \in Int, NEW V \in Int, V % W = 0
  PROVE  (x - V) % W = x % W
<1>1. x = (W * (x \div W)) + (x % W) /\ V = W * (V \div W)
  BY DivMod
<1>2. x \div W \in Int /\ V \div W \in Int /\ x % W \in 0..W - 1
  BY DivMod
<1>3. x - V = (W * ((x \div W) - (V \div W))) + (x % W)
  BY <1>1, <1>2, SMT
<1> DEFINE k == (x \div W) - (V \div W)
<1>4. k \in Int /\ x - V \in Int /\ x - V = (W * k) + (x % W)
  BY <1>2, <1>3
<1> HIDE DEF k
<1> QED BY <1>2, <1>4, ModUnique

LEMMA ModDistinct ==
  ASSUME NEW W \in Nat \ {0}, NEW x \in Int, NEW y \in Int, x < y, y < x + W
  PROVE  x % W # y % W
<1> SUFFICES ASSUME x % W = y % W PROVE FALSE
  OBVIOUS
<1>1. x = (W * (x \div W)) + (x % W) /\ y = (W * (y \div W)) + (y % W)
  BY DivMod
<1>2. x \div W \in Int /\ y \div W \in Int /\ x % W \in 0..W - 1
  BY DivMod
<1>3. y - x = W * ((y \div W) - (x \div W))
  BY <1>1, <1>2, SMT
<1> DEFINE k == (y \div W) - (x \div W)
<1>4. k \in Int /\ y - x = W * k
  BY <1>2, <1>3
<1> HIDE DEF k
<1>5. k >= 1
  BY <1>4, SMT
<1>6. W * k >= W
  BY <1>4, <1>5, SMT
<1> QED BY <1>4, <1>6

-----------------------------------------------------------------------------
(* The inductive invariant.                                                *)

Inside == {"write", "wfull", "read", "rempty", "copy"}
Writing == {"write", "wfull", "wsleep", "wwoken"}
Reading == {"read", "rempty", "rsleep", "rwoken", "copy"}

\* p->lock is whose process is inside of pipewrite()'s or piperead()'s
\* critical section.
LockHeld == \A p \in Procs : lock = p <=> pc[p] \in Inside

\* The pipe's end is open while a process has a descriptor of it; only the one
\* that has closed the last of them is on its way to pipeclose().
OpenWhileHeld(e, closing, isopen) ==
  /\ \A p \in Procs : e \in ends[p] => isopen
  /\ \A p \in Procs : pc[p] = closing =>
       isopen /\ \A q \in Procs : e \notin ends[q] /\ (pc[q] = closing => q = p)

EndsHeld ==
  /\ \A p \in Procs : /\ ends[p] \subseteq Ends[p]
                      /\ pc[p] \in Writing => "w" \in ends[p]
                      /\ pc[p] \in Reading => "r" \in ends[p]
  /\ OpenWhileHeld("w", "wclose", writeopen)
  /\ OpenWhileHeld("r", "rclose", readopen)
  /\ freed <=> ~readopen /\ ~writeopen

\* Why a writer that sleeps, or is about to, has not to be woken yet: a reader
\* that has made room still has the lock, and wakes it before it lets go.
WritersWait ==
  \A p \in Procs :
    /\ pc[p] = "wfull" => Full /\ readopen
    /\ pc[p] = "wsleep" =>
         readopen /\ (Full \/ \E q \in Procs : pc[q] = "copy" /\ got[q])

\* The same for readers: a writer that has written still has the lock, or was
\* killed before it could go on.
ReadersWait ==
  \A p \in Procs :
    /\ pc[p] = "rempty" => Empty /\ writeopen
    /\ pc[p] = "rsleep" => writeopen
    /\ pc[p] = "rsleep" /\ ~Empty =>
         \E q \in Procs : "w" \in Ends[q] /\ (killed[q] \/ pc[q] \in {"write", "wfull"})
    /\ pc[p] = "copy" => (Empty => ~writeopen \/ got[p])
    /\ got[p] => pc[p] = "copy"

IInv == TypeOK /\ LockHeld /\ EndsHeld /\ WritersWait /\ ReadersWait

\* What the counters say of the ring, without a remainder.
LEMMA Counters ==
  ASSUME TypeOK
  PROVE  /\ Wrap \in Nat \ {0} /\ PIPESIZE \in Nat \ {0}
         /\ Count = IF nread <= nwrite THEN nwrite - nread ELSE nwrite - nread + Wrap
         /\ Count \in 0..PIPESIZE
         /\ Empty <=> Count = 0
         /\ Full <=> Count = PIPESIZE
         /\ (nread + 1) % Wrap = IF nread + 1 = Wrap THEN 0 ELSE nread + 1
         /\ (nwrite + 1) % Wrap = IF nwrite + 1 = Wrap THEN 0 ELSE nwrite + 1
<1>1. Wrap \in Nat \ {0} /\ PIPESIZE \in Nat \ {0} /\ PIPESIZE < Wrap
  BY PipeAssumption
<1>2. nread \in 0..Wrap - 1 /\ nwrite \in 0..Wrap - 1 /\ Count <= PIPESIZE
  BY DEF TypeOK
<1>3. Count = IF nread <= nwrite THEN nwrite - nread ELSE nwrite - nread + Wrap
  BY <1>1, <1>2, ModSmall DEF Count
<1>4. ASSUME NEW x \in 0..Wrap - 1
      PROVE  (x + 1) % Wrap = IF x + 1 = Wrap THEN 0 ELSE x + 1
  <2>1. 1 \in 0..Wrap - 1
    BY <1>1
  <2>2. (x + 1) % Wrap = IF x + 1 < Wrap THEN x + 1 ELSE x + 1 - Wrap
    BY <1>1, <2>1, ModSmall
  <2> QED BY <1>1, <2>2
<1>5. (nread + PIPESIZE) % Wrap =
        IF nread + PIPESIZE < Wrap THEN nread + PIPESIZE ELSE nread + PIPESIZE - Wrap
  <2>1. PIPESIZE \in 0..Wrap - 1
    BY <1>1
  <2> QED BY <1>1, <1>2, <2>1, ModSmall
<1> QED BY <1>1, <1>2, <1>3, <1>4, <1>5 DEF Empty, Full

LEMMA InitIInv == Init => IInv
<1> SUFFICES ASSUME Init PROVE IInv
  OBVIOUS
<1>1. Wrap \in Nat \ {0} /\ 0 \in 0..Wrap - 1 /\ PIPESIZE \in Nat
  BY PipeAssumption
<1>2. Count = 0
  BY <1>1, ModSmall DEF Init, Count
<1>3. TypeOK
  <2>1. ends \in [Procs -> SUBSET {"r", "w"}]
    BY PipeAssumption DEF Init
  <2>2. /\ pc \in [Procs -> {"user"}] /\ left \in [Procs -> Nat]
        /\ got \in [Procs -> BOOLEAN] /\ killed \in [Procs -> BOOLEAN]
    BY DEF Init
  <2>3. /\ nread \in 0..Wrap - 1 /\ nwrite \in 0..Wrap - 1 /\ Count <= PIPESIZE
    BY <1>1, <1>2 DEF Init
  <2>4. pc \in [Procs -> {"user", "write", "wfull", "wsleep", "wwoken", "read",
                          "rempty", "rsleep", "rwoken", "copy", "rclose", "wclose"}]
    BY <2>2
  <2> QED BY <2>1, <2>2, <2>3, <2>4 DEF Init, TypeOK
<1>4. LockHeld /\ EndsHeld
  BY PipeAssumption DEF Init, LockHeld, EndsHeld, OpenWhileHeld, Inside, Writing, Reading
<1>5. WritersWait /\ ReadersWait
  BY DEF Init, WritersWait, ReadersWait
<1> QED BY <1>3, <1>4, <1>5 DEF IInv

LEMMA WriteByteIInv ==
  ASSUME IInv, NEW p \in Procs, WriteByte(p)
  PROVE  IInv'
<1>0. TypeOK
  BY DEF IInv
<1>1. TypeOK'
  <2>1. /\ nwrite' = IF nwrite + 1 = Wrap THEN 0 ELSE nwrite + 1
        /\ nread' = nread /\ Count # PIPESIZE
    BY <1>0, Counters DEF WriteByte
  <2>2. /\ Wrap \in Nat \ {0} /\ PIPESIZE \in Nat \ {0} /\ Count \in 0..PIPESIZE
        /\ Count = IF nread <= nwrite THEN nwrite - nread ELSE nwrite - nread + Wrap
        /\ nread \in 0..Wrap - 1 /\ nwrite \in 0..Wrap - 1
    BY <1>0, Counters DEF TypeOK
  <2>3. nread' \in 0..Wrap - 1 /\ nwrite' \in 0..Wrap - 1
    BY <2>1, <2>2
  <2>4. Count' = IF nread' <= nwrite' THEN nwrite' - nread' ELSE nwrite' - nread' + Wrap
    BY <2>2, <2>3, ModSmall DEF Count
  <2>5. Count' \in 0..PIPESIZE
    BY <2>1, <2>2, <2>3, <2>4
  <2>6. data' \in [0..PIPESIZE - 1 -> Bytes]
    BY <1>0 DEF WriteByte, TypeOK
  <2> QED BY <1>0, <2>3, <2>5, <2>6 DEF WriteByte, TypeOK, ring, open
<1> USE DEF IInv, WriteByte, open
<1>2. LockHeld'
  <2>1. NoProc \notin Procs
    BY PipeAssumption
  <2> QED BY <2>1 DEF TypeOK, LockHeld, Inside
<1>3. EndsHeld'
  BY DEF TypeOK, EndsHeld, OpenWhileHeld, LockHeld, Inside, Writing, Reading
<1>4. WritersWait'
  BY DEF TypeOK, WritersWait, EndsHeld, OpenWhileHeld, LockHeld, Inside, Writing, Reading
<1>5. ReadersWait'
  BY DEF TypeOK, ReadersWait, EndsHeld, OpenWhileHeld, LockHeld, Inside, Writing, Reading
<1> QED BY <1>1, <1>2, <1>3, <1>4, <1>5

LEMMA WriteFullIInv ==
  ASSUME IInv, NEW p \in Procs, WriteFull(p)
  PROVE  IInv'
<1> USE DEF IInv
<1>0. /\ Count' = Count /\ (Full' <=> Full) /\ (Empty' <=> Empty)
      /\ data' = data /\ nread' = nread /\ nwrite' = nwrite
  BY DEF WriteFull, ring, Count, Full, Empty
<1>1. CASE ~readopen \/ killed[p]
  <2>0. /\ pc[p] = "write" /\ pc' = [pc EXCEPT ![p] = "user"]
        /\ lock' = NoProc /\ left' = [left EXCEPT ![p] = 0]
        /\ got' = got /\ killed' = killed /\ heard' = heard
        /\ readopen' = readopen /\ writeopen' = writeopen /\ freed' = freed /\ ends' = ends
    BY <1>1 DEF WriteFull, Goto, Unlocked, open
  <2>1. TypeOK'
    BY <2>0, <1>0, IInv DEF TypeOK
  <2>2. LockHeld'
    <3>1. NoProc \notin Procs
      BY PipeAssumption
    <3> QED BY <2>0, <1>0, IInv, <3>1 DEF TypeOK, LockHeld, Inside
  <2>3. EndsHeld'
    BY <2>0, <1>0, IInv DEF TypeOK, EndsHeld, OpenWhileHeld, LockHeld, Inside, Writing, Reading
  <2>4. WritersWait'
    BY <2>0, <1>0, IInv DEF TypeOK, WritersWait, EndsHeld, OpenWhileHeld, LockHeld, Inside, Writing, Reading
  <2>5. ReadersWait'
    <3> SUFFICES ASSUME NEW x \in Procs
                 PROVE  /\ pc'[x] = "rempty" => Empty' /\ writeopen'
                        /\ pc'[x] = "rsleep" => writeopen'
                        /\ pc'[x] = "rsleep" /\ ~Empty' =>
                             \E q \in Procs : "w" \in Ends[q]
                               /\ (killed'[q] \/ pc'[q] \in {"write", "wfull"})
                        /\ pc'[x] = "copy" => (Empty' => ~writeopen' \/ got'[x])
                        /\ got'[x] => pc'[x] = "copy"
      BY DEF ReadersWait
    <3>1. ASSUME pc[x] = "rsleep", ~Empty
          PROVE  \E q \in Procs : "w" \in Ends[q] /\ killed[q]
      <4>1. PICK q \in Procs : "w" \in Ends[q] /\ (killed[q] \/ pc[q] \in {"write", "wfull"})
        BY <3>1 DEF ReadersWait
      <4>2. "r" \in ends[x] /\ readopen
        BY <3>1 DEF EndsHeld, OpenWhileHeld, Reading
      <4>3. pc[q] \in {"write", "wfull"} => q = p
        BY <2>0 DEF LockHeld, Inside
      <4> QED BY <1>1, <4>1, <4>2, <4>3
    <3>2. pc'[x] = IF x = p THEN "user" ELSE pc[x]
      BY <2>0 DEF TypeOK
    <3>3. pc[x] = "rsleep" /\ ~Empty => \E q \in Procs : "w" \in Ends[q] /\ killed'[q]
      BY <2>0, <3>1
    <3>4. /\ pc[x] = "rempty" => Empty /\ writeopen
          /\ pc[x] = "rsleep" => writeopen
          /\ pc[x] = "copy" => (Empty => ~writeopen \/ got[x])
          /\ got[x] => pc[x] = "copy"
      BY DEF ReadersWait
    <3> QED BY <2>0, <1>0, <3>2, <3>3, <3>4
  <2> QED BY <2>1, <2>2, <2>3, <2>4, <2>5
<1>2. CASE readopen /\ ~killed[p]
  <2>0. /\ pc[p] = "write" /\ pc' = [pc EXCEPT ![p] = "wfull"]
        /\ lock' = lock /\ left' = left
        /\ got' = got /\ killed' = killed /\ heard' = heard
        /\ readopen' = readopen /\ writeopen' = writeopen /\ freed' = freed /\ ends' = ends
        /\ Full
    BY <1>2 DEF WriteFull, Goto, Unlocked, open
  <2>1. TypeOK'
    BY <2>0, <1>0, IInv DEF TypeOK
  <2>2. LockHeld'
    <3>1. NoProc \notin Procs
      BY PipeAssumption
    <3> QED BY <2>0, <1>0, IInv, <3>1 DEF TypeOK, LockHeld, Inside
  <2>3. EndsHeld'
    BY <2>0, <1>0, IInv DEF TypeOK, EndsHeld, OpenWhileHeld, LockHeld, Inside, Writing, Reading
  <2>4. WritersWait'
    <3> SUFFICES ASSUME NEW x \in Procs
                 PROVE  /\ pc'[x] = "wfull" => Full' /\ readopen'
                        /\ pc'[x] = "wsleep" => readopen'
                             /\ (Full' \/ \E q \in Procs : pc'[q] = "copy" /\ got'[q])
      BY DEF WritersWait
    <3>1. pc'[x] = IF x = p THEN "wfull" ELSE pc[x]
      BY <2>0 DEF TypeOK
    <3> QED BY <1>2, <2>0, <1>0, <3>1 DEF WritersWait
  <2>5. ReadersWait'
    BY <2>0, <1>0, IInv DEF TypeOK, ReadersWait, EndsHeld, OpenWhileHeld, LockHeld, Inside, Writing, Reading
  <2> QED BY <2>1, <2>2, <2>3, <2>4, <2>5
<1> QED BY <1>1, <1>2 DEF TypeOK

LEMMA WriteWaitIInv ==
  ASSUME IInv, NEW p \in Procs, WriteWait(p)
  PROVE  IInv'
<1> USE DEF IInv, WriteWait, WakeAnd, WakeReaders, WakeWriters, Goto, Locked, Unlocked, ring, open
<1>0. Count' = Count /\ (Full' <=> Full) /\ (Empty' <=> Empty)
  BY DEF Count, Full, Empty
<1>1. TypeOK'
  BY <1>0 DEF TypeOK
<1>2. LockHeld'
  <2>1. NoProc \notin Procs
    BY PipeAssumption
  <2> QED BY <2>1 DEF TypeOK, LockHeld, Inside
<1>3. EndsHeld'
  BY <1>0 DEF TypeOK, EndsHeld, OpenWhileHeld, LockHeld, Inside, Writing, Reading
<1>4. WritersWait'
  BY <1>0 DEF TypeOK, WritersWait, EndsHeld, OpenWhileHeld, LockHeld, Inside, Writing, Reading
<1>5. ReadersWait'
  BY <1>0 DEF TypeOK, ReadersWait, EndsHeld, OpenWhileHeld, LockHeld, Inside, Writing, Reading
<1> QED BY <1>1, <1>2, <1>3, <1>4, <1>5

LEMMA WriteAgainIInv ==
  ASSUME IInv, NEW p \in Procs, WriteAgain(p)
  PROVE  IInv'
<1> USE DEF IInv, WriteAgain, WakeAnd, WakeReaders, WakeWriters, Goto, Locked, Unlocked, ring, open
<1>0. Count' = Count /\ (Full' <=> Full) /\ (Empty' <=> Empty)
  BY DEF Count, Full, Empty
<1>1. TypeOK'
  BY <1>0 DEF TypeOK
<1>2. LockHeld'
  <2>1. NoProc \notin Procs
    BY PipeAssumption
  <2> QED BY <2>1 DEF TypeOK, LockHeld, Inside
<1>3. EndsHeld'
  BY <1>0 DEF TypeOK, EndsHeld, OpenWhileHeld, LockHeld, Inside, Writing, Reading
<1>4. WritersWait'
  BY <1>0 DEF TypeOK, WritersWait, EndsHeld, OpenWhileHeld, LockHeld, Inside, Writing, Reading
<1>5. ReadersWait'
  BY <1>0 DEF TypeOK, ReadersWait, EndsHeld, OpenWhileHeld, LockHeld, Inside, Writing, Reading
<1> QED BY <1>1, <1>2, <1>3, <1>4, <1>5

LEMMA WriteDoneIInv ==
  ASSUME IInv, NEW p \in Procs, WriteDone(p)
  PROVE  IInv'
<1> USE DEF IInv, WriteDone, WakeAnd, WakeReaders, WakeWriters, Goto, Locked, Unlocked, ring, open
<1>0. Count' = Count /\ (Full' <=> Full) /\ (Empty' <=> Empty)
  BY DEF Count, Full, Empty
<1>1. TypeOK'
  BY <1>0 DEF TypeOK
<1>2. LockHeld'
  <2>1. NoProc \notin Procs
    BY PipeAssumption
  <2> QED BY <2>1 DEF TypeOK, LockHeld, Inside
<1>3. EndsHeld'
  BY <1>0 DEF TypeOK, EndsHeld, OpenWhileHeld, LockHeld, Inside, Writing, Reading
<1>4. WritersWait'
  BY <1>0 DEF TypeOK, WritersWait, EndsHeld, OpenWhileHeld, LockHeld, Inside, Writing, Reading
<1>5. ReadersWait'
  BY <1>0 DEF TypeOK, ReadersWait, EndsHeld, OpenWhileHeld, LockHeld, Inside, Writing, Reading
<1> QED BY <1>1, <1>2, <1>3, <1>4, <1>5

LEMMA ReadTestIInv ==
  ASSUME IInv, NEW p \in Procs, ReadTest(p)
  PROVE  IInv'
<1> USE DEF IInv, ReadTest, WakeAnd, WakeReaders, WakeWriters, Goto, Locked, Unlocked, ring, open
<1>0. Count' = Count /\ (Full' <=> Full) /\ (Empty' <=> Empty)
  BY DEF Count, Full, Empty
<1>1. TypeOK'
  BY <1>0 DEF TypeOK
<1>2. LockHeld'
  <2>1. NoProc \notin Procs
    BY PipeAssumption
  <2> QED BY <2>1 DEF TypeOK, LockHeld, Inside
<1>3. EndsHeld'
  <2>1. /\ pc[p] = "read" /\ pc'[p] \in {"copy", "user", "rempty"}
        /\ \A q \in Procs \ {p} : pc'[q] = pc[q]
        /\ readopen' = readopen /\ writeopen' = writeopen /\ freed' = freed /\ ends' = ends
    BY DEF TypeOK
  <2> HIDE DEF ReadTest
  <2> QED BY <2>1 DEF EndsHeld, OpenWhileHeld, Writing, Reading
<1>4. WritersWait'
  BY <1>0 DEF TypeOK, WritersWait, EndsHeld, OpenWhileHeld, LockHeld, Inside, Writing, Reading
<1>5. ReadersWait'
  BY <1>0 DEF TypeOK, ReadersWait, EndsHeld, OpenWhileHeld, LockHeld, Inside, Writing, Reading
<1> QED BY <1>1, <1>2, <1>3, <1>4, <1>5

LEMMA ReadWaitIInv ==
  ASSUME IInv, NEW p \in Procs, ReadWait(p)
  PROVE  IInv'
<1> USE DEF IInv, ReadWait, WakeAnd, WakeReaders, WakeWriters, Goto, Locked, Unlocked, ring, open
<1>0. Count' = Count /\ (Full' <=> Full) /\ (Empty' <=> Empty)
  BY DEF Count, Full, Empty
<1>1. TypeOK'
  BY <1>0 DEF TypeOK
<1>2. LockHeld'
  <2>1. NoProc \notin Procs
    BY PipeAssumption
  <2> QED BY <2>1 DEF TypeOK, LockHeld, Inside
<1>3. EndsHeld'
  BY <1>0 DEF TypeOK, EndsHeld, OpenWhileHeld, LockHeld, Inside, Writing, Reading
<1>4. WritersWait'
  BY <1>0 DEF TypeOK, WritersWait, EndsHeld, OpenWhileHeld, LockHeld, Inside, Writing, Reading
<1>5. ReadersWait'
  BY <1>0 DEF TypeOK, ReadersWait, EndsHeld, OpenWhileHeld, LockHeld, Inside, Writing, Reading
<1> QED BY <1>1, <1>2, <1>3, <1>4, <1>5

LEMMA ReadAgainIInv ==
  ASSUME IInv, NEW p \in Procs, ReadAgain(p)
  PROVE  IInv'
<1> USE DEF IInv, ReadAgain, WakeAnd, WakeReaders, WakeWriters, Goto, Locked, Unlocked, ring, open
<1>0. Count' = Count /\ (Full' <=> Full) /\ (Empty' <=> Empty)
  BY DEF Count, Full, Empty
<1>1. TypeOK'
  BY <1>0 DEF TypeOK
<1>2. LockHeld'
  <2>1. NoProc \notin Procs
    BY PipeAssumption
  <2> QED BY <2>1 DEF TypeOK, LockHeld, Inside
<1>3. EndsHeld'
  BY <1>0 DEF TypeOK, EndsHeld, OpenWhileHeld, LockHeld, Inside, Writing, Reading
<1>4. WritersWait'
  BY <1>0 DEF TypeOK, WritersWait, EndsHeld, OpenWhileHeld, LockHeld, Inside, Writing, Reading
<1>5. ReadersWait'
  BY <1>0 DEF TypeOK, ReadersWait, EndsHeld, OpenWhileHeld, LockHeld, Inside, Writing, Reading
<1> QED BY <1>1, <1>2, <1>3, <1>4, <1>5

LEMMA ReadByteIInv ==
  ASSUME IInv, NEW p \in Procs, ReadByte(p)
  PROVE  IInv'
<1>0. TypeOK
  BY DEF IInv
<1>1. TypeOK'
  <2>1. /\ nread' = IF nread + 1 = Wrap THEN 0 ELSE nread + 1
        /\ nwrite' = nwrite /\ Count # 0
    BY <1>0, Counters DEF ReadByte
  <2>2. /\ Wrap \in Nat \ {0} /\ PIPESIZE \in Nat \ {0} /\ Count \in 0..PIPESIZE
        /\ Count = IF nread <= nwrite THEN nwrite - nread ELSE nwrite - nread + Wrap
        /\ nread \in 0..Wrap - 1 /\ nwrite \in 0..Wrap - 1
    BY <1>0, Counters DEF TypeOK
  <2>3. nread' \in 0..Wrap - 1 /\ nwrite' \in 0..Wrap - 1
    BY <2>1, <2>2
  <2>4. Count' = IF nread' <= nwrite' THEN nwrite' - nread' ELSE nwrite' - nread' + Wrap
    BY <2>2, <2>3, ModSmall DEF Count
  <2>5. Count' \in 0..PIPESIZE
    BY <2>1, <2>2, <2>3, <2>4
  <2>6. nread % PIPESIZE \in 0..PIPESIZE - 1
    BY <2>2, DivMod
  <2>7. heard' \in Bytes
    BY <1>0, <2>6 DEF ReadByte, TypeOK
  <2> QED BY <1>0, <2>3, <2>5, <2>7 DEF ReadByte, TypeOK, open
<1> USE DEF IInv, ReadByte, open
<1>2. LockHeld'
  <2>1. NoProc \notin Procs
    BY PipeAssumption
  <2> QED BY <2>1 DEF TypeOK, LockHeld, Inside
<1>3. EndsHeld'
  BY DEF TypeOK, EndsHeld, OpenWhileHeld, LockHeld, Inside, Writing, Reading
<1>4. WritersWait'
  BY DEF TypeOK, WritersWait, EndsHeld, OpenWhileHeld, LockHeld, Inside, Writing, Reading
<1>5. ReadersWait'
  BY DEF TypeOK, ReadersWait, EndsHeld, OpenWhileHeld, LockHeld, Inside, Writing, Reading
<1> QED BY <1>1, <1>2, <1>3, <1>4, <1>5

LEMMA ReadDoneIInv ==
  ASSUME IInv, NEW p \in Procs, ReadDone(p)
  PROVE  IInv'
<1> USE DEF IInv, ReadDone, WakeAnd, WakeReaders, WakeWriters, Goto, Locked, Unlocked, ring, open
<1>0. Count' = Count /\ (Full' <=> Full) /\ (Empty' <=> Empty)
  BY DEF Count, Full, Empty
<1>1. TypeOK'
  BY <1>0 DEF TypeOK
<1>2. LockHeld'
  <2>1. NoProc \notin Procs
    BY PipeAssumption
  <2> QED BY <2>1 DEF TypeOK, LockHeld, Inside
<1>3. EndsHeld'
  BY <1>0 DEF TypeOK, EndsHeld, OpenWhileHeld, LockHeld, Inside, Writing, Reading
<1>4. WritersWait'
  BY <1>0 DEF TypeOK, WritersWait, EndsHeld, OpenWhileHeld, LockHeld, Inside, Writing, Reading
<1>5. ReadersWait'
  BY <1>0 DEF TypeOK, ReadersWait, EndsHeld, OpenWhileHeld, LockHeld, Inside, Writing, Reading
<1> QED BY <1>1, <1>2, <1>3, <1>4, <1>5

LEMMA PipecloseIInv ==
  ASSUME IInv, NEW p \in Procs, Pipeclose(p)
  PROVE  IInv'
<1> USE DEF IInv
<1>0. /\ Count' = Count /\ (Full' <=> Full) /\ (Empty' <=> Empty)
      /\ data' = data /\ nread' = nread /\ nwrite' = nwrite
      /\ lock = NoProc /\ lock' = lock /\ ends' = ends
      /\ left' = left /\ got' = got /\ killed' = killed /\ heard' = heard
  BY DEF Pipeclose, ring, Count, Full, Empty
<1>1. \A q \in Procs : pc[q] \notin Inside
  <2>1. NoProc \notin Procs
    BY PipeAssumption
  <2> QED BY <1>0, <2>1 DEF LockHeld
<1>2. CASE pc[p] = "wclose"
  <2>1. /\ writeopen' = FALSE /\ readopen' = readopen /\ freed' = (freed \/ ~readopen)
        /\ pc' = [q \in Procs |-> IF q = p THEN "user"
                                  ELSE IF pc[q] = "rsleep" THEN "rwoken" ELSE pc[q]]
    BY <1>2 DEF Pipeclose, WakeReaders, WakeAnd
  <2>2. TypeOK'
    BY <1>0, <2>1 DEF TypeOK
  <2>3. LockHeld'
    BY <1>0, <1>1, <1>2, <2>1 DEF LockHeld, Inside
  <2>4. EndsHeld'
    <3>1. writeopen /\ \A q \in Procs : "w" \notin ends[q] /\ (pc[q] = "wclose" => q = p)
      BY <1>2 DEF EndsHeld, OpenWhileHeld
    <3>2. freed' <=> ~readopen' /\ ~writeopen'
      BY <2>1, <3>1 DEF TypeOK, EndsHeld
    <3> QED BY <1>0, <1>2, <2>1, <3>1, <3>2 DEF EndsHeld, OpenWhileHeld, Writing, Reading
  <2>5. WritersWait'
    BY <1>0, <1>1, <1>2, <2>1 DEF WritersWait, Inside
  <2>6. ReadersWait'
    BY <1>0, <1>1, <1>2, <2>1 DEF ReadersWait, Inside
  <2> QED BY <2>2, <2>3, <2>4, <2>5, <2>6
<1>3. CASE pc[p] = "rclose"
  <2>1. /\ readopen' = FALSE /\ writeopen' = writeopen /\ freed' = (freed \/ ~writeopen)
        /\ pc' = [q \in Procs |-> IF q = p THEN "user"
                                  ELSE IF pc[q] = "wsleep" THEN "wwoken" ELSE pc[q]]
    BY <1>3 DEF Pipeclose, WakeWriters, WakeAnd
  <2>2. TypeOK'
    BY <1>0, <2>1 DEF TypeOK
  <2>3. LockHeld'
    BY <1>0, <1>1, <1>3, <2>1 DEF LockHeld, Inside
  <2>4. EndsHeld'
    <3>1. readopen /\ \A q \in Procs : "r" \notin ends[q] /\ (pc[q] = "rclose" => q = p)
      BY <1>3 DEF EndsHeld, OpenWhileHeld
    <3>2. freed' <=> ~readopen' /\ ~writeopen'
      BY <2>1, <3>1 DEF TypeOK, EndsHeld
    <3> QED BY <1>0, <1>3, <2>1, <3>1, <3>2 DEF EndsHeld, OpenWhileHeld, Writing, Reading
  <2>5. WritersWait'
    BY <1>0, <1>1, <1>3, <2>1 DEF WritersWait, Inside
  <2>6. ReadersWait'
    BY <1>0, <1>1, <1>3, <2>1 DEF ReadersWait, Inside
  <2> QED BY <2>2, <2>3, <2>4, <2>5, <2>6
<1> QED BY <1>2, <1>3 DEF Pipeclose

LEMMA KillIInv ==
  ASSUME IInv, NEW p \in Procs, Kill(p)
  PROVE  IInv'
<1> USE DEF IInv, Kill, WakeAnd, WakeReaders, WakeWriters, Goto, Locked, Unlocked, ring, open
<1>0. Count' = Count /\ (Full' <=> Full) /\ (Empty' <=> Empty)
  BY DEF Count, Full, Empty
<1>1. TypeOK'
  BY <1>0 DEF TypeOK
<1>2. LockHeld'
  <2>1. NoProc \notin Procs
    BY PipeAssumption
  <2> QED BY <2>1 DEF TypeOK, LockHeld, Inside
<1>3. EndsHeld'
  BY <1>0 DEF TypeOK, EndsHeld, OpenWhileHeld, LockHeld, Inside, Writing, Reading
<1>4. WritersWait'
  BY <1>0 DEF TypeOK, WritersWait, EndsHeld, OpenWhileHeld, LockHeld, Inside, Writing, Reading
<1>5. ReadersWait'
  BY <1>0 DEF TypeOK, ReadersWait, EndsHeld, OpenWhileHeld, LockHeld, Inside, Writing, Reading
<1> QED BY <1>1, <1>2, <1>3, <1>4, <1>5

LEMMA CallWriteIInv ==
  ASSUME IInv, NEW p \in Procs, NEW n \in Requests, CallWrite(p, n)
  PROVE  IInv'
<1> USE DEF IInv, CallWrite, WakeAnd, WakeReaders, WakeWriters, Goto, Locked, Unlocked, ring, open
<1>0. Count' = Count /\ (Full' <=> Full) /\ (Empty' <=> Empty)
  BY DEF Count, Full, Empty
<1>1. TypeOK'
  BY <1>0, PipeAssumption DEF TypeOK
<1>2. LockHeld'
  <2>1. NoProc \notin Procs
    BY PipeAssumption
  <2> QED BY <2>1 DEF TypeOK, LockHeld, Inside
<1>3. EndsHeld'
  BY <1>0 DEF TypeOK, EndsHeld, OpenWhileHeld, LockHeld, Inside, Writing, Reading
<1>4. WritersWait'
  BY <1>0 DEF TypeOK, WritersWait, EndsHeld, OpenWhileHeld, LockHeld, Inside, Writing, Reading
<1>5. ReadersWait'
  BY <1>0 DEF TypeOK, ReadersWait, EndsHeld, OpenWhileHeld, LockHeld, Inside, Writing, Reading
<1> QED BY <1>1, <1>2, <1>3, <1>4, <1>5

LEMMA CallReadIInv ==
  ASSUME IInv, NEW p \in Procs, NEW n \in Requests, CallRead(p, n)
  PROVE  IInv'
<1> USE DEF IInv, CallRead, WakeAnd, WakeReaders, WakeWriters, Goto, Locked, Unlocked, ring, open
<1>0. Count' = Count /\ (Full' <=> Full) /\ (Empty' <=> Empty)
  BY DEF Count, Full, Empty
<1>1. TypeOK'
  BY <1>0, PipeAssumption DEF TypeOK
<1>2. LockHeld'
  <2>1. NoProc \notin Procs
    BY PipeAssumption
  <2> QED BY <2>1 DEF TypeOK, LockHeld, Inside
<1>3. EndsHeld'
  BY <1>0 DEF TypeOK, EndsHeld, OpenWhileHeld, LockHeld, Inside, Writing, Reading
<1>4. WritersWait'
  BY <1>0 DEF TypeOK, WritersWait, EndsHeld, OpenWhileHeld, LockHeld, Inside, Writing, Reading
<1>5. ReadersWait'
  BY <1>0 DEF TypeOK, ReadersWait, EndsHeld, OpenWhileHeld, LockHeld, Inside, Writing, Reading
<1> QED BY <1>1, <1>2, <1>3, <1>4, <1>5

LEMMA CloseIInv ==
  ASSUME IInv, NEW p \in Procs, NEW e \in {"r", "w"}, Close(p, e)
  PROVE  IInv'
<1> USE DEF IInv, Close, WakeAnd, WakeReaders, WakeWriters, Goto, Locked, Unlocked, ring, open
<1>0. Count' = Count /\ (Full' <=> Full) /\ (Empty' <=> Empty)
  BY DEF Count, Full, Empty
<1>1. TypeOK'
  BY <1>0 DEF TypeOK
<1>2. LockHeld'
  <2>1. NoProc \notin Procs
    BY PipeAssumption
  <2> QED BY <2>1 DEF TypeOK, LockHeld, Inside
<1>3. EndsHeld'
  BY <1>0 DEF TypeOK, EndsHeld, OpenWhileHeld, LockHeld, Inside, Writing, Reading
<1>4. WritersWait'
  BY <1>0 DEF TypeOK, WritersWait, EndsHeld, OpenWhileHeld, LockHeld, Inside, Writing, Reading
<1>5. ReadersWait'
  BY <1>0 DEF TypeOK, ReadersWait, EndsHeld, OpenWhileHeld, LockHeld, Inside, Writing, Reading
<1> QED BY <1>1, <1>2, <1>3, <1>4, <1>5

LEMMA ExitIInv ==
  ASSUME IInv, NEW p \in Procs, Exit(p)
  PROVE  IInv'
BY CloseIInv DEF Exit

LEMMA StepIInv == IInv /\ [Next]_vars => IInv'
<1>1. ASSUME IInv, UNCHANGED vars PROVE IInv'
  BY <1>1 DEF vars, ring, open, IInv, TypeOK, Count, LockHeld, EndsHeld, OpenWhileHeld,
              WritersWait, ReadersWait, Full, Empty
<1>2. ASSUME IInv, NEW p \in Procs, Step(p) PROVE IInv'
  BY <1>2, WriteByteIInv, WriteFullIInv, WriteWaitIInv, WriteAgainIInv, WriteDoneIInv,
     ReadTestIInv, ReadWaitIInv, ReadAgainIInv, ReadByteIInv, ReadDoneIInv,
     PipecloseIInv, ExitIInv DEF Step
<1>3. ASSUME IInv, NEW p \in Procs, Call(p) PROVE IInv'
  BY <1>3, CallWriteIInv, CallReadIInv, CloseIInv DEF Call
<1> QED BY <1>1, <1>2, <1>3, KillIInv DEF Next

\* Every reachable state of the pipe satisfies the inductive invariant.
THEOREM Invariance == Spec => []IInv
BY InitIInv, StepIInv, PTL DEF Spec

\* The ring never holds more than PIPESIZE bytes through any wrap of the
\* counters, and pipeclose() frees the page exactly when both ends are closed
\* for everyone and no process is inside of the pipe.
THEOREM PipeIsSound == Spec => []PipeSound
<1>1. IInv => PipeSound
  <2> SUFFICES ASSUME IInv PROVE FreedWhenUnused
    BY DEF IInv, PipeSound
  <2>1. ASSUME freed, NEW p \in Procs PROVE ends[p] = {} /\ pc[p] = "user"
    <3>1. ~readopen /\ ~writeopen
      BY <2>1 DEF IInv, EndsHeld
    <3>2. ends[p] = {}
      BY <3>1 DEF IInv, TypeOK, EndsHeld, OpenWhileHeld
    <3> QED BY <3>1, <3>2 DEF IInv, TypeOK, EndsHeld, OpenWhileHeld, Writing, Reading
  <2> QED BY <2>1 DEF FreedWhenUnused, IInv, TypeOK, EndsHeld
<1> QED BY <1>1, Invariance, PTL

\* No wakeup is lost: whoever sleeps in pipewrite() or piperead() while nobody
\* has the lock has something to wait for.
THEOREM NoWakeupLost == Spec => []SleepersHaveReason
<1>1. IInv => SleepersHaveReason
  <2> SUFFICES ASSUME IInv, lock = NoProc PROVE SleepersHaveReason
    BY DEF SleepersHaveReason
  <2>1. \A q \in Procs : pc[q] \notin Inside
    BY PipeAssumption DEF IInv, LockHeld
  <2> QED BY <2>1 DEF SleepersHaveReason, IInv, WritersWait, ReadersWait, Inside
<1> QED BY <1>1, Invariance, PTL

-----------------------------------------------------------------------------
(* The pipe implements the channel.                                        *)

Slot(i) == (nread + i - 1) % PIPESIZE

ContentsInRing ==
  /\ Contents \in Seq(Bytes) /\ Len(Contents) = Count
  /\ \A i \in 1..Count : Slot(i) \in 0..PIPESIZE - 1 /\ Contents[i] = data[Slot(i)]

LEMMA ContentsSeq == TypeOK => ContentsInRing
<1> SUFFICES ASSUME TypeOK PROVE ContentsInRing
  OBVIOUS
<1>1. /\ Count \in Nat /\ nread \in Int /\ PIPESIZE \in Nat \ {0}
      /\ data \in [0..PIPESIZE - 1 -> Bytes]
  BY Counters DEF TypeOK
<1>2. ASSUME NEW i \in 1..Count PROVE Slot(i) \in 0..PIPESIZE - 1
  BY <1>1, DivMod DEF Slot
<1>3. Contents \in [1..Count -> Bytes]
  BY <1>1, <1>2 DEF Contents, Slot
<1> QED BY <1>1, <1>2, <1>3 DEF Contents, Slot, ContentsInRing

\* The slot pipewrite() fills is the one after the last of the contents.
LEMMA NextSlot ==
  ASSUME TypeOK
  PROVE  nwrite % PIPESIZE = (nread + Count) % PIPESIZE
<1>1. /\ Count \in 0..PIPESIZE /\ Wrap \in Nat /\ PIPESIZE \in Nat \ {0}
      /\ Count = IF nread <= nwrite THEN nwrite - nread ELSE nwrite - nread + Wrap
      /\ nread \in 0..Wrap - 1 /\ nwrite \in 0..Wrap - 1
  BY Counters DEF TypeOK
<1>2. Wrap % PIPESIZE = 0
  BY PipeAssumption
<1>3. CASE nread <= nwrite
  <2>1. nread + Count = nwrite
    BY <1>1, <1>3
  <2> QED BY <2>1
<1>4. CASE ~(nread <= nwrite)
  <2>1. (nread + Count) - Wrap = nwrite /\ nread + Count \in Int /\ Wrap \in Int
    BY <1>1, <1>4
  <2>2. ((nread + Count) - Wrap) % PIPESIZE = (nread + Count) % PIPESIZE
    BY <1>1, <1>2, <2>1, ModShift
  <2> QED BY <2>1, <2>2
<1> QED BY <1>3, <1>4

LEMMA WriteByteSends ==
  ASSUME IInv, IInv', ContentsInRing', NEW p \in Procs, WriteByte(p)
  PROVE  \E b \in Bytes : AChannel!Send(b)
<1>1. PICK b \in Bytes : data' = [data EXCEPT ![nwrite % PIPESIZE] = b]
  BY DEF WriteByte
<1>2. TypeOK /\ TypeOK'
  BY DEF IInv
<1>3. /\ PIPESIZE \in Nat \ {0} /\ Wrap \in Nat \ {0}
      /\ Count \in 0..PIPESIZE /\ Count # PIPESIZE
      /\ nread \in 0..Wrap - 1 /\ nread' = nread
  BY <1>2, Counters DEF WriteByte, TypeOK
<1>4. Count' = Count + 1
  <2>1. nwrite' = IF nwrite + 1 = Wrap THEN 0 ELSE nwrite + 1
    BY <1>2, Counters DEF WriteByte
  <2>2. /\ Count = IF nread <= nwrite THEN nwrite - nread ELSE nwrite - nread + Wrap
        /\ Count' = IF nread <= nwrite' THEN nwrite' - nread ELSE nwrite' - nread + Wrap
    <3>1. \A x, y \in 0..Wrap - 1 : (y - x) % Wrap = IF x <= y THEN y - x ELSE y - x + Wrap
      BY <1>3, ModSmall
    <3> QED BY <1>2, <1>3, <3>1 DEF TypeOK, Count
  <2>3. nwrite \in 0..Wrap - 1 /\ PIPESIZE < Wrap
    BY <1>2, PipeAssumption DEF TypeOK
  <2> QED BY <1>3, <2>1, <2>2, <2>3
<1>5. nwrite % PIPESIZE = Slot(Count + 1) /\ nwrite % PIPESIZE \in 0..PIPESIZE - 1
  <2>1. nread + (Count + 1) - 1 = nread + Count /\ nwrite \in Int
    BY <1>2, <1>3 DEF TypeOK
  <2>2. nwrite % PIPESIZE \in 0..PIPESIZE - 1
    BY <1>3, <2>1, DivMod
  <2> QED BY <1>2, <2>1, <2>2, NextSlot DEF Slot
<1>6. ASSUME NEW i \in 1..Count PROVE Slot(i) # Slot(Count + 1)
  <2>1. /\ nread + i - 1 \in Int /\ nread + (Count + 1) - 1 \in Int
        /\ nread + i - 1 < nread + (Count + 1) - 1
        /\ nread + (Count + 1) - 1 < (nread + i - 1) + PIPESIZE
    BY <1>3
  <2> QED BY <1>3, <2>1, ModDistinct DEF Slot
<1>7. \A i : Slot(i)' = Slot(i)
  BY <1>3 DEF Slot
<1>8. Contents' = Append(Contents, b)
  <2>1. /\ Contents \in Seq(Bytes) /\ Len(Contents) = Count
        /\ \A i \in 1..Count : Slot(i) \in 0..PIPESIZE - 1 /\ Contents[i] = data[Slot(i)]
    BY <1>2, ContentsSeq DEF ContentsInRing
  <2>2. /\ Contents' \in Seq(Bytes) /\ Len(Contents') = Count + 1
        /\ \A i \in 1..Count + 1 : Contents'[i] = data'[Slot(i)]
    BY <1>2, <1>4, <1>7 DEF ContentsInRing
  <2>3. /\ Append(Contents, b) \in Seq(Bytes) /\ Len(Append(Contents, b)) = Count + 1
        /\ \A i \in 1..Count : Append(Contents, b)[i] = Contents[i]
        /\ Append(Contents, b)[Count + 1] = b
    BY <2>1, AppendProperties
  <2>4. ASSUME NEW i \in 1..Count PROVE Contents'[i] = Append(Contents, b)[i]
    <3>1. data'[Slot(i)] = data[Slot(i)]
      BY <1>1, <1>2, <1>5, <1>6, <2>1 DEF TypeOK
    <3>2. i \in 1..Count + 1
      BY <1>3
    <3> QED BY <2>1, <2>2, <2>3, <3>1, <3>2
  <2>5. Contents'[Count + 1] = b
    <3>1. Count + 1 \in 1..Count + 1
      BY <1>3
    <3>2. data'[Slot(Count + 1)] = b
      BY <1>1, <1>2, <1>5 DEF TypeOK
    <3> QED BY <2>2, <3>1, <3>2
  <2>6. \A i \in 1..Count + 1 : Contents'[i] = Append(Contents, b)[i]
    BY <1>3, <2>3, <2>4, <2>5
  <2> QED BY <2>2, <2>3, <2>6, SeqEqual
<1>9. writeopen /\ Len(Contents) < PIPESIZE
  <2>1. writeopen
    BY DEF IInv, WriteByte, EndsHeld, OpenWhileHeld, Writing
  <2> QED BY <1>2, <1>3, <2>1, ContentsSeq DEF ContentsInRing
<1>10. writeopen' = writeopen /\ readopen' = readopen /\ heard' = heard
  BY DEF WriteByte, open
<1> QED BY <1>8, <1>9, <1>10 DEF AChannel!Send

LEMMA ReadByteReceives ==
  ASSUME IInv, IInv', ContentsInRing', NEW p \in Procs, ReadByte(p)
  PROVE  AChannel!Receive
<1>1. TypeOK /\ TypeOK'
  BY DEF IInv
<1>2. /\ PIPESIZE \in Nat \ {0} /\ Wrap \in Nat \ {0} /\ PIPESIZE < Wrap
      /\ Count \in 0..PIPESIZE /\ Count # 0
      /\ nread \in 0..Wrap - 1 /\ nwrite \in 0..Wrap - 1 /\ nwrite' = nwrite
      /\ nread' = IF nread + 1 = Wrap THEN 0 ELSE nread + 1
  BY <1>1, Counters, PipeAssumption DEF ReadByte, TypeOK
<1>3. Count' = Count - 1
  <2>1. /\ Count = IF nread <= nwrite THEN nwrite - nread ELSE nwrite - nread + Wrap
        /\ Count' = IF nread' <= nwrite THEN nwrite - nread' ELSE nwrite - nread' + Wrap
    <3>1. \A x, y \in 0..Wrap - 1 : (y - x) % Wrap = IF x <= y THEN y - x ELSE y - x + Wrap
      BY <1>2, ModSmall
    <3> QED BY <1>1, <1>2, <3>1 DEF TypeOK, Count
  <2> QED BY <1>2, <2>1
<1>4. ASSUME NEW i \in 1..Count - 1 PROVE Slot(i)' = Slot(i + 1)
  <2>1. nread' + i - 1 = nread + (i + 1) - 1 \/ nread' + i - 1 = (nread + (i + 1) - 1) - Wrap
    BY <1>2
  <2>2. nread + (i + 1) - 1 \in Int /\ Wrap \in Int /\ Wrap % PIPESIZE = 0
    BY <1>2, PipeAssumption
  <2>3. ((nread + (i + 1) - 1) - Wrap) % PIPESIZE = (nread + (i + 1) - 1) % PIPESIZE
    BY <1>2, <2>2, ModShift
  <2> QED BY <2>1, <2>3 DEF Slot
<1>5. /\ Contents \in Seq(Bytes) /\ Len(Contents) = Count
      /\ \A i \in 1..Count : Contents[i] = data[Slot(i)]
  BY <1>1, ContentsSeq DEF ContentsInRing
<1>6. /\ Contents' \in Seq(Bytes) /\ Len(Contents') = Count - 1
      /\ \A i \in 1..Count - 1 : Contents'[i] = data'[Slot(i)']
  BY <1>1, <1>3 DEF ContentsInRing
<1>7. Contents # <<>> /\ Head(Contents) = data[Slot(1)]
  <2>1. Contents # <<>>
    BY <1>2, <1>5
  <2>2. 1 \in 1..Count /\ Head(Contents) = Contents[1]
    BY <1>2, <1>5, <2>1
  <2> QED BY <1>5, <2>1, <2>2
<1>8. heard' = Head(Contents)
  <2>1. nread + 1 - 1 = nread
    BY <1>2
  <2> QED BY <1>7, <2>1 DEF Slot, ReadByte
<1>9. Contents' = Tail(Contents)
  <2>1. /\ Tail(Contents) \in Seq(Bytes) /\ Len(Tail(Contents)) = Count - 1
        /\ \A i \in 1..Count - 1 : Tail(Contents)[i] = Contents[i + 1]
    BY <1>5, <1>7, HeadTailProperties
  <2>2. ASSUME NEW i \in 1..Count - 1 PROVE Contents'[i] = Tail(Contents)[i]
    <3>1. data' = data /\ i + 1 \in 1..Count
      BY <1>2 DEF ReadByte
    <3> QED BY <1>4, <1>5, <1>6, <2>1, <3>1
  <2> QED BY <1>6, <2>1, <2>2, SeqEqual
<1>10. writeopen' = writeopen /\ readopen' = readopen
  BY DEF ReadByte, open
<1> QED BY <1>7, <1>8, <1>9, <1>10 DEF AChannel!Receive

LEMMA ReadDoneEnds ==
  ASSUME IInv, NEW p \in Procs, ReadDone(p)
  PROVE  AChannel!End \/ UNCHANGED <<Contents, writeopen, readopen, heard>>
<1>1. /\ Contents' = Contents
      /\ writeopen' = writeopen /\ readopen' = readopen
  BY DEF ReadDone, ring, open, Contents, Count
<1>2. CASE ~got[p] /\ left[p] > 0
  <2>1. heard' = Eof /\ Empty /\ pc[p] = "copy"
    BY <1>2 DEF IInv, TypeOK, ReadDone
  <2>2. ~writeopen
    BY <1>2, <2>1 DEF IInv, ReadersWait
  <2>3. Contents \in Seq(Bytes) /\ Len(Contents) = 0
    BY <2>1, ContentsSeq, Counters DEF IInv, ContentsInRing
  <2>4. Contents = <<>>
    BY <2>3, EmptySeq
  <2> QED BY <1>1, <2>1, <2>2, <2>4 DEF AChannel!End
<1>3. CASE ~(~got[p] /\ left[p] > 0)
  BY <1>1, <1>3 DEF ReadDone
<1> QED BY <1>2, <1>3

LEMMA PipecloseCloses ==
  ASSUME IInv, NEW p \in Procs, Pipeclose(p)
  PROVE  AChannel!Close
<1>1. Contents' = Contents /\ heard' = heard
  BY DEF Pipeclose, ring, Contents, Count
<1>2. CASE pc[p] = "wclose"
  <2>1. writeopen
    BY <1>2 DEF IInv, EndsHeld, OpenWhileHeld
  <2> QED BY <1>1, <1>2, <2>1 DEF Pipeclose, AChannel!Close
<1>3. CASE pc[p] = "rclose"
  <2>1. readopen
    BY <1>3 DEF IInv, EndsHeld, OpenWhileHeld
  <2> QED BY <1>1, <1>3, <2>1 DEF Pipeclose, AChannel!Close
<1> QED BY <1>2, <1>3 DEF Pipeclose

LEMMA ChannelStep ==
  ASSUME IInv, IInv', ContentsInRing', [Next]_vars
  PROVE  [AChannel!Next]_<<Contents, writeopen, readopen, heard>>
<1> DEFINE Same == UNCHANGED <<Contents, writeopen, readopen, heard>>
<1> USE DEF Contents, Count, ring, open
<1>1. ASSUME NEW p \in Procs, Step(p) PROVE AChannel!Next \/ Same
  <2>1. CASE WriteByte(p)
    BY <2>1, WriteByteSends DEF AChannel!Next
  <2>2. CASE ReadByte(p)
    BY <2>2, ReadByteReceives DEF AChannel!Next
  <2>3. CASE ReadDone(p)
    BY <2>3, ReadDoneEnds DEF AChannel!Next
  <2>4. CASE Pipeclose(p)
    BY <2>4, PipecloseCloses DEF AChannel!Next
  <2>5. CASE WriteFull(p) \/ WriteWait(p) \/ WriteAgain(p) \/ WriteDone(p)
    BY <2>5 DEF WriteFull, WriteWait, WriteAgain, WriteDone
  <2>6. CASE ReadTest(p) \/ ReadWait(p) \/ ReadAgain(p)
    BY <2>6 DEF ReadTest, ReadWait, ReadAgain
  <2>7. CASE Exit(p)
    BY <2>7 DEF Exit, Close
  <2> QED BY <1>1, <2>1, <2>2, <2>3, <2>4, <2>5, <2>6, <2>7 DEF Step
<1>2. ASSUME NEW p \in Procs, Call(p) PROVE Same
  BY <1>2 DEF Call, CallWrite, CallRead, Close
<1>3. ASSUME NEW p \in Procs, Kill(p) PROVE Same
  BY <1>3 DEF Kill
<1>4. ASSUME UNCHANGED vars PROVE Same
  BY <1>4 DEF vars
<1> QED BY <1>1, <1>2, <1>3, <1>4 DEF Next

\* The pipe implements the channel: a byte goes in at its end when pipewrite()
\* stores it, comes out at its head when piperead() copies it, and a reader is
\* told of the end of file only when nothing is left and no writer can come.
THEOREM PipeImplementsChannel == Spec => ImplementsChannel
<1>1. Init => AChannel!Init
  <2> SUFFICES ASSUME Init PROVE Contents = <<>>
    BY DEF Init, AChannel!Init
  <2>1. TypeOK /\ Empty
    BY InitIInv DEF IInv, Init, Empty
  <2>2. Contents \in Seq(Bytes) /\ Len(Contents) = 0
    BY <2>1, ContentsSeq, Counters DEF ContentsInRing
  <2> QED BY <2>2, EmptySeq
<1>2. IInv /\ IInv' /\ ContentsInRing' /\ [Next]_vars
        => [AChannel!Next]_<<Contents, writeopen, readopen, heard>>
  BY ChannelStep
<1>3. IInv => ContentsInRing
  BY ContentsSeq DEF IInv
<1> QED BY <1>1, <1>2, <1>3, Invariance, PTL DEF Spec, ImplementsChannel, AChannel!Spec

-----------------------------------------------------------------------------
(* Open files: the file table and the descriptors, whose pipe ends are the *)
(* ends that Pipe has processes hold and close.                            *)

Objects == {Fi!None} \cup {Fi!Inode(i) : i \in 1..NINODE}
             \cup {Fi!End(k, e) : k \in 1..NPIPE, e \in {"read", "write"}}

Opener == [pc : {"unused", "user", "exit", "open", "opened", "noroom", "dup", "pipe1", "pipe2", "pipe"},
           ofile : [Fi!Fds -> 0..NFILE], new : Seq(Nat), todo : Seq(Fi!Entries), rel : Objects]

FilesTyped ==
  /\ fiFtable \in [Fi!Entries -> [ref : Nat, obj : Objects]]
  /\ fiInode \in [1..NINODE -> Nat] /\ fiPipe \in [1..NPIPE -> SUBSET {"read", "write"}]
  /\ fiProc \in [Users -> Opener]

\* What the place of a process says of the rest of it: what it has got, and that it has
\* nothing to close before it goes on.
Inum(i) == i \in 1..NINODE
GotShape(r) ==
  /\ r.pc \in {"unused", "user", "exit"} => r.new = <<>>
  /\ r.pc \in {"open", "noroom"} => r.new = <<r.new[1]>> /\ Inum(r.new[1])
  /\ r.pc = "opened" => r.new = <<r.new[1], r.new[2]>> /\ Inum(r.new[1]) /\ r.new[2] \in Fi!Entries
  /\ r.pc = "dup" => /\ r.new = <<r.new[1], r.new[2]>> /\ r.new[1] \in Fi!Entries
                     /\ r.new[2] \in Fi!Fds /\ r.ofile[r.new[2]] = r.new[1]
                     /\ \E d \in Fi!Fds \ {r.new[2]} : r.ofile[d] = r.new[1]
  /\ r.pc = "pipe1" => r.new = <<r.new[1]>> /\ r.new[1] \in Fi!Entries
  /\ r.pc \in {"pipe2", "pipe"} => /\ r.new = <<r.new[1], r.new[2]>>
                                   /\ r.new[1] \in Fi!Entries /\ r.new[2] \in Fi!Entries
  /\ r.pc \notin {"user", "exit", "noroom"} => r.todo = <<>> /\ r.rel = Fi!None
  /\ r.pc = "unused" => \A d \in Fi!Fds : r.ofile[d] = 0
GotShapes == \A p \in Users : GotShape(fiProc[p])

\* What has been got and is not yet open on anything is nobody else's.
Blank == \A p \in Users : \A k \in Fi!Got(fiProc[p]) :
           LET f == fiFtable[fiProc[p].new[k]] IN
           IF fiProc[p].pc = "pipe" THEN f.obj # Fi!None ELSE f.ref = 1 /\ f.obj = Fi!None

FInv == FilesTyped /\ GotShapes /\ FilesExact /\ Blank

Eq(a, b) == IF a = b THEN 1 ELSE 0

\* A set of which one element may come or go.
LEMMA OneMoves ==
  ASSUME NEW S, IsFiniteSet(S), NEW A \in SUBSET S, NEW B \in SUBSET S, NEW x,
         A \ {x} = B \ {x}
  PROVE  /\ Cardinality(A) \in Nat /\ Cardinality(B) \in Nat
         /\ Cardinality(B) + (IF x \in A THEN 1 ELSE 0) = Cardinality(A) + (IF x \in B THEN 1 ELSE 0)
<1>1. IsFiniteSet(A) /\ IsFiniteSet(B) /\ Cardinality(A) \in Nat /\ Cardinality(B) \in Nat
  BY FS_Subset, FS_CardinalityType
<1>2. Cardinality(A \ {x}) = IF x \in A THEN Cardinality(A) - 1 ELSE Cardinality(A)
  BY <1>1, FS_RemoveElement
<1>3. Cardinality(B \ {x}) = IF x \in B THEN Cardinality(B) - 1 ELSE Cardinality(B)
  BY <1>1, FS_RemoveElement
<1> QED BY <1>1, <1>2, <1>3

LEMMA Labelled ==
  ASSUME NEW S, NEW t, IsFiniteSet(S)
  PROVE  IsFiniteSet({t} \X S) /\ Cardinality({t} \X S) = Cardinality(S) /\ Cardinality(S) \in Nat
<1>1. IsFiniteSet({t}) /\ Cardinality({t}) = 1
  BY FS_Singleton
<1>2. Cardinality(S) \in Nat
  BY FS_CardinalityType
<1>3. IsFiniteSet({t} \X S) /\ Cardinality({t} \X S) = Cardinality({t}) * Cardinality(S)
  BY <1>1, FS_Product
<1> QED BY <1>1, <1>2, <1>3

LEMMA ApartUnion ==
  ASSUME NEW S, NEW T, IsFiniteSet(S), IsFiniteSet(T), S \cap T = {}
  PROVE  IsFiniteSet(S \cup T) /\ Cardinality(S \cup T) = Cardinality(S) + Cardinality(T)
<1>1. Cardinality(S \cap T) = 0 /\ Cardinality(S) \in Nat /\ Cardinality(T) \in Nat
  BY FS_EmptySet, FS_CardinalityType
<1>2. IsFiniteSet(S \cup T)
      /\ Cardinality(S \cup T) = Cardinality(S) + Cardinality(T) - Cardinality(S \cap T)
  BY FS_Union
<1> QED BY <1>1, <1>2

\* The least of some numbers is one of them.
LEMMA MinIs ==
  ASSUME NEW S \in SUBSET Nat, S # {}
  PROVE  Fi!Min(S) \in S
<1>1. \E x \in S : \A y \in S : x <= y
  <2> DEFINE R == OpToRel(<, Nat)
  <2>1. IsWellFoundedOn(R, Nat)
    BY NatLessThanWellFounded
  <2>2. S \subseteq Nat
    OBVIOUS
  <2>3. PICK s \in S : \A t \in S : ~(<<t, s>> \in R)
    <3> HIDE DEF R
    <3> QED BY <2>1, <2>2, WFMin
  <2>4. \A t \in S : s <= t
    <3> SUFFICES ASSUME NEW t \in S PROVE s <= t
      OBVIOUS
    <3>1. ~(t < s)
      BY <2>2, <2>3 DEF OpToRel
    <3> QED BY <2>2, <3>1
  <2> QED BY <2>4
<1> QED BY <1>1 DEF Fi!Min

\* How often f is in a sequence of entries.
Times(q, s) == Cardinality({k \in DOMAIN q : q[k] = s})

LEMMA TodoFinite ==
  ASSUME NEW q \in Seq(Fi!Entries), NEW s
  PROVE  IsFiniteSet({k \in DOMAIN q : q[k] = s}) /\ Times(q, s) \in Nat
<1>1. DOMAIN q = 1..Len(q) /\ Len(q) \in Nat
  BY LenProperties
<1>2. IsFiniteSet(1..Len(q))
  BY <1>1, FS_Interval
<1>3. {k \in DOMAIN q : q[k] = s} \in SUBSET (1..Len(q))
  BY <1>1
<1>4. IsFiniteSet({k \in DOMAIN q : q[k] = s})
  BY <1>2, <1>3, FS_Subset
<1> QED BY <1>4, FS_CardinalityType DEF Times

\* A sequence without its k-th element has s once less if that was s.
LEMMA TodoWithout ==
  ASSUME NEW q \in Seq(Fi!Entries), NEW r \in Seq(Fi!Entries), NEW k \in 1..Len(q), NEW s,
         Len(r) = Len(q) - 1,
         \A j \in 1..Len(r) : r[j] = IF j < k THEN q[j] ELSE q[j + 1]
  PROVE  Times(q, s) = Times(r, s) + Eq(q[k], s)
<1> DEFINE Q == {j \in DOMAIN q : q[j] = s}
           R == {j \in DOMAIN r : r[j] = s}
           f == [j \in R |-> IF j < k THEN j ELSE j + 1]
<1>1. DOMAIN q = 1..Len(q) /\ DOMAIN r = 1..Len(r) /\ Len(q) \in Nat /\ Len(r) \in Nat
  BY LenProperties
<1>2. IsFiniteSet(Q) /\ IsFiniteSet(R) /\ Times(q, s) = Cardinality(Q) /\ Times(r, s) = Cardinality(R)
      /\ Times(r, s) \in Nat
  BY TodoFinite DEF Times
<1>3. f \in [R -> Q \ {k}]
  <2> SUFFICES ASSUME NEW j \in R PROVE f[j] \in Q \ {k}
    OBVIOUS
  <2> QED BY <1>1
<1>4. \A i, j \in R : f[i] = f[j] => i = j
  BY <1>1
<1>5. \A i \in Q \ {k} : \E j \in R : f[j] = i
  <2> SUFFICES ASSUME NEW i \in Q \ {k} PROVE \E j \in R : f[j] = i
    OBVIOUS
  <2>1. CASE i < k
    <3>1. i \in R /\ f[i] = i
      BY <1>1, <2>1
    <3> QED BY <3>1
  <2>2. CASE ~(i < k)
    <3>1. i - 1 \in 1..Len(r) /\ ~(i - 1 < k) /\ (i - 1) + 1 = i
      BY <1>1, <2>2
    <3>2. i - 1 \in R
      BY <1>1, <3>1
    <3>3. f[i - 1] = i
      BY <3>1, <3>2
    <3> QED BY <3>2, <3>3
  <2> QED BY <2>1, <2>2
<1>6. f \in Bijection(R, Q \ {k})
  BY <1>3, <1>4, <1>5 DEF Bijection, Injection, Surjection, IsInjective
<1>7. Cardinality(Q \ {k}) = Cardinality(R)
  <2> HIDE DEF f, Q, R
  <2>1. ExistsBijection(R, Q \ {k})
    BY <1>6 DEF ExistsBijection
  <2> QED BY <1>2, <2>1, FS_Bijection
<1>8. Cardinality(Q \ {k}) = IF k \in Q THEN Cardinality(Q) - 1 ELSE Cardinality(Q)
  BY <1>2, FS_RemoveElement
<1>9. Cardinality(Q) \in Nat
  BY <1>2, FS_CardinalityType
<1>10. k \in Q <=> q[k] = s
  BY <1>1
<1> QED BY <1>2, <1>7, <1>8, <1>9, <1>10 DEF Eq

LEMMA TodoEmpty == \A s : Times(<<>>, s) = 0
BY FS_EmptySet DEF Times

LEMMA TodoOne ==
  ASSUME NEW a \in Fi!Entries, NEW s
  PROVE  Times(<<a>>, s) = Eq(a, s)
<1>1. <<a>> \in Seq(Fi!Entries) /\ <<>> \in Seq(Fi!Entries) /\ Len(<<a>>) = 1 /\ Len(<<>>) = 0
  OBVIOUS
<1> DEFINE q == <<a>>
           r == <<>>
<1>2. /\ 1 \in 1..Len(q) /\ Len(r) = Len(q) - 1 /\ q[1] = a
      /\ \A j \in 1..Len(r) : r[j] = IF j < 1 THEN q[j] ELSE q[j + 1]
  BY <1>1
<1>3. Times(q, s) = Times(r, s) + Eq(q[1], s)
  <2> HIDE DEF q, r
  <2>1. q \in Seq(Fi!Entries) /\ r \in Seq(Fi!Entries)
    BY <1>1 DEF q, r
  <2> QED BY <1>2, <2>1, TodoWithout
<1> QED BY <1>2, <1>3, TodoEmpty DEF Eq

LEMMA TodoTwo ==
  ASSUME NEW a \in Fi!Entries, NEW b \in Fi!Entries, NEW s
  PROVE  Times(<<a, b>>, s) = Eq(a, s) + Eq(b, s)
<1>1. <<a, b>> \in Seq(Fi!Entries) /\ <<b>> \in Seq(Fi!Entries) /\ Len(<<a, b>>) = 2 /\ Len(<<b>>) = 1
  OBVIOUS
<1> DEFINE q == <<a, b>>
           r == <<b>>
<1>2. /\ 1 \in 1..Len(q) /\ Len(r) = Len(q) - 1 /\ q[1] = a
      /\ \A j \in 1..Len(r) : r[j] = IF j < 1 THEN q[j] ELSE q[j + 1]
  BY <1>1
<1>3. Times(q, s) = Times(r, s) + Eq(q[1], s)
  <2> HIDE DEF q, r
  <2>1. q \in Seq(Fi!Entries) /\ r \in Seq(Fi!Entries)
    BY <1>1 DEF q, r
  <2> QED BY <1>2, <2>1, TodoWithout
<1> QED BY <1>2, <1>3, TodoOne DEF Eq

LEMMA TodoTail ==
  ASSUME NEW q \in Seq(Fi!Entries), q # <<>>, NEW s
  PROVE  Times(q, s) = Times(Tail(q), s) + Eq(Head(q), s)
<1>1. /\ Tail(q) \in Seq(Fi!Entries) /\ Len(Tail(q)) = Len(q) - 1 /\ Head(q) = q[1]
      /\ \A i \in 1 .. Len(Tail(q)) : Tail(q)[i] = q[i+1]
  BY HeadTailProperties
<1>2. 1 \in 1..Len(q)
  BY LenProperties, EmptySeq
<1>3. \A j \in 1..Len(Tail(q)) : Tail(q)[j] = IF j < 1 THEN q[j] ELSE q[j + 1]
  BY <1>1, LenProperties
<1>4. Times(q, s) = Times(Tail(q), s) + Eq(q[1], s)
  BY <1>1, <1>2, <1>3, TodoWithout, ZenonT(60)
<1> QED BY <1>1, <1>4

\* The pointers of a process in state r to entry f, by where they are.
InOfile(r, f) == Cardinality({d \in Fi!Fds \ Fi!Early(r) : r.ofile[d] = f})
InNew(r, f) == IF r.pc = "opened" THEN Eq(r.new[2], f)
               ELSE IF r.pc = "pipe1" THEN Eq(r.new[1], f)
               ELSE IF r.pc \in {"pipe2", "pipe"} THEN Eq(r.new[1], f) + Eq(r.new[2], f) ELSE 0
PointerCount(r, f) == InOfile(r, f) + InNew(r, f) + Times(r.todo, f)
AllPointers(g, f) == UNION {{p} \X Fi!Pointers(g[p], f) : p \in Users}
OtherPointers(g, p, f) == UNION {{q} \X Fi!Pointers(g[q], f) : q \in Users \ {p}}

LEMMA FdsFinite == IsFiniteSet(Fi!Fds) /\ Fi!Fds \in SUBSET Nat /\ IsFiniteSet(Fi!Entries)
                     /\ Fi!Entries \in SUBSET Nat /\ 0 \notin Fi!Entries
<1>1. 0 \in Int /\ NOFILE - 1 \in Int /\ 1 \in Int /\ NFILE \in Int
  BY DescriptorsAssumption
<1>2. IsFiniteSet(0..NOFILE - 1) /\ IsFiniteSet(1..NFILE)
  BY <1>1, FS_Interval
<1> QED BY <1>2, DescriptorsAssumption DEF Fi!Fds, Fi!Entries

LEMMA OfileFinite ==
  ASSUME NEW r, NEW f
  PROVE  /\ IsFiniteSet({d \in Fi!Fds \ Fi!Early(r) : r.ofile[d] = f}) /\ InOfile(r, f) \in Nat
<1>1. {d \in Fi!Fds \ Fi!Early(r) : r.ofile[d] = f} \in SUBSET Fi!Fds
  OBVIOUS
<1>2. IsFiniteSet({d \in Fi!Fds \ Fi!Early(r) : r.ofile[d] = f})
  BY <1>1, FdsFinite, FS_Subset
<1> QED BY <1>2, FS_CardinalityType DEF InOfile

LEMMA NewCounted ==
  ASSUME NEW r, NEW f
  PROVE  /\ IsFiniteSet({k \in Fi!Got(r) : r.new[k] = f}) /\ InNew(r, f) \in Nat
         /\ Cardinality({k \in Fi!Got(r) : r.new[k] = f}) = InNew(r, f)
<1> DEFINE G == {k \in Fi!Got(r) : r.new[k] = f}
           One == IF r.new[1] = f THEN {1} ELSE {}
           Two == IF r.new[2] = f THEN {2} ELSE {}
<1>1. IsFiniteSet(One) /\ Cardinality(One) = Eq(r.new[1], f)
  BY FS_EmptySet, FS_Singleton DEF Eq
<1>2. IsFiniteSet(Two) /\ Cardinality(Two) = Eq(r.new[2], f)
  BY FS_EmptySet, FS_Singleton DEF Eq
<1>3. IsFiniteSet(One \cup Two) /\ Cardinality(One \cup Two) = Eq(r.new[1], f) + Eq(r.new[2], f)
  <2>1. One \cap Two = {}
    OBVIOUS
  <2> HIDE DEF One, Two
  <2> QED BY <1>1, <1>2, <2>1, ApartUnion
<1>4. Eq(r.new[1], f) \in Nat /\ Eq(r.new[2], f) \in Nat
  BY DEF Eq
<1>5. CASE r.pc = "opened"
  <2>1. G = Two
    BY <1>5 DEF Fi!Got
  <2> HIDE DEF G, Two
  <2> QED BY <1>2, <1>4, <1>5, <2>1 DEF InNew, G
<1>6. CASE r.pc = "pipe1"
  <2>1. G = One
    BY <1>6 DEF Fi!Got
  <2> HIDE DEF G, One
  <2> QED BY <1>1, <1>4, <1>6, <2>1 DEF InNew, G
<1>7. CASE r.pc \in {"pipe2", "pipe"}
  <2>1. G = One \cup Two
    BY <1>7 DEF Fi!Got
  <2> HIDE DEF G, One, Two
  <2> QED BY <1>3, <1>4, <1>7, <2>1 DEF InNew, G
<1>8. CASE r.pc \notin {"opened", "pipe1", "pipe2", "pipe"}
  <2>1. G = {}
    BY <1>8 DEF Fi!Got
  <2> HIDE DEF G
  <2> QED BY <1>8, <2>1, FS_EmptySet DEF InNew, G
<1> QED BY <1>5, <1>6, <1>7, <1>8

LEMMA PointersCounted ==
  ASSUME NEW r \in Opener, NEW f
  PROVE  /\ IsFiniteSet(Fi!Pointers(r, f)) /\ Cardinality(Fi!Pointers(r, f)) = PointerCount(r, f)
         /\ PointerCount(r, f) \in Nat
         /\ InOfile(r, f) \in Nat /\ InNew(r, f) \in Nat /\ Times(r.todo, f) \in Nat
<1> DEFINE A == {d \in Fi!Fds \ Fi!Early(r) : r.ofile[d] = f}
           B == {k \in Fi!Got(r) : r.new[k] = f}
           C == {k \in DOMAIN r.todo : r.todo[k] = f}
           X == {"ofile"} \X A
           Y == {"new"} \X B
           Z == {"todo"} \X C
<1>1. IsFiniteSet(A) /\ Cardinality(A) = InOfile(r, f) /\ InOfile(r, f) \in Nat
  BY OfileFinite DEF InOfile
<1>2. IsFiniteSet(B) /\ Cardinality(B) = InNew(r, f) /\ InNew(r, f) \in Nat
  BY NewCounted
<1>3. IsFiniteSet(C) /\ Cardinality(C) = Times(r.todo, f) /\ Times(r.todo, f) \in Nat
  <2>1. r.todo \in Seq(Fi!Entries)
    BY DEF Opener
  <2> QED BY <2>1, TodoFinite DEF Times
<1>4. Fi!Pointers(r, f) = (X \cup Y) \cup Z
  BY DEF Fi!Pointers
<1>5. X \cap Y = {} /\ (X \cup Y) \cap Z = {}
  OBVIOUS
<1>6. /\ IsFiniteSet(X) /\ Cardinality(X) = Cardinality(A)
      /\ IsFiniteSet(Y) /\ Cardinality(Y) = Cardinality(B)
      /\ IsFiniteSet(Z) /\ Cardinality(Z) = Cardinality(C)
  <2> HIDE DEF A, B, C
  <2> QED BY <1>1, <1>2, <1>3, Labelled
<1> HIDE DEF A, B, C, X, Y, Z
<1>7. IsFiniteSet(X \cup Y) /\ Cardinality(X \cup Y) = Cardinality(A) + Cardinality(B)
  BY <1>5, <1>6, ApartUnion
<1>8. IsFiniteSet((X \cup Y) \cup Z)
      /\ Cardinality((X \cup Y) \cup Z) = Cardinality(A) + Cardinality(B) + Cardinality(C)
  BY <1>5, <1>6, <1>7, ApartUnion
<1> QED BY <1>1, <1>2, <1>3, <1>4, <1>8 DEF PointerCount

\* The pointers of one process and those of the others.
LEMMA PointersSplit ==
  ASSUME NEW g \in [Users -> Opener], NEW p \in Users, NEW f
  PROVE  /\ IsFiniteSet(AllPointers(g, f)) /\ Cardinality(AllPointers(g, f)) \in Nat
         /\ Cardinality(OtherPointers(g, p, f)) \in Nat
         /\ Cardinality(AllPointers(g, f)) = PointerCount(g[p], f) + Cardinality(OtherPointers(g, p, f))
<1> DEFINE own == {p} \X Fi!Pointers(g[p], f)
           part(q) == {q} \X Fi!Pointers(g[q], f)
           parts == {part(q) : q \in Users \ {p}}
<1>1. AllPointers(g, f) = own \cup OtherPointers(g, p, f) /\ own \cap OtherPointers(g, p, f) = {}
  BY DEF AllPointers, OtherPointers
<1>2. \A q \in Users : IsFiniteSet(part(q))
  <2> SUFFICES ASSUME NEW q \in Users PROVE IsFiniteSet({q} \X Fi!Pointers(g[q], f))
    OBVIOUS
  <2>1. IsFiniteSet(Fi!Pointers(g[q], f))
    BY PointersCounted
  <2> QED BY <2>1, Labelled
<1>3. IsFiniteSet(own) /\ Cardinality(own) = PointerCount(g[p], f) /\ PointerCount(g[p], f) \in Nat
  <2>1. /\ IsFiniteSet(Fi!Pointers(g[p], f)) /\ Cardinality(Fi!Pointers(g[p], f)) = PointerCount(g[p], f)
        /\ PointerCount(g[p], f) \in Nat
    BY PointersCounted
  <2> QED BY <2>1, Labelled
<1>4. IsFiniteSet(parts)
  <2>1. IsFiniteSet(Users \ {p})
    BY DescriptorsAssumption, FS_RemoveElement
  <2>2. DEFINE h == [q \in Users \ {p} |-> part(q)]
  <2>3. h \in Surjection(Users \ {p}, parts)
    <3> HIDE DEF part
    <3> QED BY DEF Surjection
  <2> HIDE DEF h, parts
  <2> QED BY <2>1, <2>3, FS_Surjection
<1>5. IsFiniteSet(OtherPointers(g, p, f)) /\ Cardinality(OtherPointers(g, p, f)) \in Nat
  <2>1. \A P \in parts : IsFiniteSet(P)
    BY <1>2
  <2>2. OtherPointers(g, p, f) = UNION parts
    BY DEF OtherPointers
  <2> HIDE DEF parts
  <2> QED BY <1>4, <2>1, <2>2, FS_UNION, FS_CardinalityType
<1> HIDE DEF own
<1>6. /\ IsFiniteSet(own \cup OtherPointers(g, p, f))
      /\ Cardinality(own \cup OtherPointers(g, p, f)) = Cardinality(own) + Cardinality(OtherPointers(g, p, f))
  BY <1>1, <1>3, <1>5, ApartUnion
<1> QED BY <1>1, <1>3, <1>5, <1>6

LEMMA PointersMoved ==
  ASSUME NEW g \in [Users -> Opener], NEW h \in [Users -> Opener], NEW p \in Users,
         \A q \in Users \ {p} : h[q] = g[q], NEW f
  PROVE  /\ Cardinality(AllPointers(g, f)) \in Nat /\ Cardinality(AllPointers(h, f)) \in Nat
         /\ Cardinality(AllPointers(h, f)) + PointerCount(g[p], f)
              = Cardinality(AllPointers(g, f)) + PointerCount(h[p], f)
<1>1. OtherPointers(g, p, f) = OtherPointers(h, p, f)
  BY DEF OtherPointers
<1>2. /\ Cardinality(AllPointers(g, f)) \in Nat /\ Cardinality(OtherPointers(g, p, f)) \in Nat
      /\ Cardinality(AllPointers(g, f)) = PointerCount(g[p], f) + Cardinality(OtherPointers(g, p, f))
  BY PointersSplit
<1>3. /\ Cardinality(AllPointers(h, f)) \in Nat
      /\ Cardinality(AllPointers(h, f)) = PointerCount(h[p], f) + Cardinality(OtherPointers(h, p, f))
  BY PointersSplit
<1>4. PointerCount(g[p], f) \in Nat /\ PointerCount(h[p], f) \in Nat
  BY PointersCounted
<1> QED BY <1>1, <1>2, <1>3, <1>4

-----------------------------------------------------------------------------
\* What an object is says which it is.
LEMMA ObjectsApart ==
  /\ Fi!None \in Objects
  /\ \A i : Fi!Inode(i) # Fi!None
  /\ \A k, e : Fi!End(k, e) # Fi!None
  /\ \A i, j : Fi!Inode(i) = Fi!Inode(j) => i = j
  /\ \A i, k, e : Fi!Inode(i) # Fi!End(k, e)
  /\ \A k, e, l, d : Fi!End(k, e) = Fi!End(l, d) => k = l /\ e = d
BY DEF Objects, Fi!None, Fi!Inode, Fi!End

\* The descriptors of a process that are pointers to f, when one of them changes.
OpenFd(r, d, f) == IF d \notin Fi!Early(r) /\ r.ofile[d] = f THEN 1 ELSE 0

LEMMA FdMoved ==
  ASSUME NEW r, NEW s, NEW f, NEW d \in Fi!Fds,
         \A x \in Fi!Fds \ {d} : (x \notin Fi!Early(r) /\ r.ofile[x] = f) <=> (x \notin Fi!Early(s) /\ s.ofile[x] = f)
  PROVE  /\ InOfile(r, f) \in Nat /\ InOfile(s, f) \in Nat
         /\ InOfile(s, f) + OpenFd(r, d, f) = InOfile(r, f) + OpenFd(s, d, f)
<1> DEFINE A == {x \in Fi!Fds \ Fi!Early(r) : r.ofile[x] = f}
           B == {x \in Fi!Fds \ Fi!Early(s) : s.ofile[x] = f}
<1>1. A \in SUBSET Fi!Fds /\ B \in SUBSET Fi!Fds /\ A \ {d} = B \ {d}
  OBVIOUS
<1>2. (d \in A <=> d \notin Fi!Early(r) /\ r.ofile[d] = f) /\ (d \in B <=> d \notin Fi!Early(s) /\ s.ofile[d] = f)
  OBVIOUS
<1>3. Cardinality(A) = InOfile(r, f) /\ Cardinality(B) = InOfile(s, f)
  BY DEF InOfile
<1> HIDE DEF A, B
<1>4. /\ Cardinality(A) \in Nat /\ Cardinality(B) \in Nat
      /\ Cardinality(B) + (IF d \in A THEN 1 ELSE 0) = Cardinality(A) + (IF d \in B THEN 1 ELSE 0)
  BY <1>1, FdsFinite, OneMoves
<1> QED BY <1>2, <1>3, <1>4 DEF OpenFd

LEMMA FdSame ==
  ASSUME NEW r, NEW s, NEW f,
         \A x \in Fi!Fds : (x \notin Fi!Early(r) /\ r.ofile[x] = f) <=> (x \notin Fi!Early(s) /\ s.ofile[x] = f)
  PROVE  InOfile(r, f) \in Nat /\ InOfile(s, f) = InOfile(r, f)
<1>1. {x \in Fi!Fds \ Fi!Early(r) : r.ofile[x] = f} = {x \in Fi!Fds \ Fi!Early(s) : s.ofile[x] = f}
  OBVIOUS
<1> QED BY <1>1, OfileFinite DEF InOfile

\* A descriptor that is a pointer to f is counted.
LEMMA FdCounted ==
  ASSUME NEW r, NEW f, NEW d \in Fi!Fds, d \notin Fi!Early(r), r.ofile[d] = f
  PROVE  InOfile(r, f) \in Nat /\ InOfile(r, f) >= 1
<1> DEFINE A == {x \in Fi!Fds \ Fi!Early(r) : r.ofile[x] = f}
<1>1. IsFiniteSet(A) /\ InOfile(r, f) = Cardinality(A) /\ InOfile(r, f) \in Nat
  BY OfileFinite DEF InOfile
<1>2. d \in A
  OBVIOUS
<1> HIDE DEF A
<1>3. Cardinality(A) # 0
  BY <1>1, <1>2, FS_EmptySet
<1> QED BY <1>1, <1>3

-----------------------------------------------------------------------------
\* The owners of an object, by where they are.
Opens(ft, o) == {f \in Fi!Entries : ft[f].ref > 0 /\ ft[f].obj = o}
Letting(g, o) == {p \in Users : g[p].rel = o}
IsOpening(r, o) == r.pc \in {"open", "opened", "noroom"} /\ Fi!Inode(r.new[1]) = o
Opening(g, o) == {p \in Users : IsOpening(g[p], o)}
UsersOwn(g, o) == Cardinality(Letting(g, o)) + Cardinality(Opening(g, o))
OwnersOf(ft, g, o) == Cardinality(Opens(ft, o)) + UsersOwn(g, o)

\* How often one entry, and one process, owns it.
EntryOwns(e, o) == IF e.ref > 0 /\ e.obj = o THEN 1 ELSE 0
UserOwns(r, o) == Eq(r.rel, o) + (IF IsOpening(r, o) THEN 1 ELSE 0)

LEMMA OpensMoved ==
  ASSUME NEW ft, NEW fu, NEW f \in Fi!Entries, \A x \in Fi!Entries \ {f} : fu[x] = ft[x], NEW o
  PROVE  /\ Cardinality(Opens(ft, o)) \in Nat /\ Cardinality(Opens(fu, o)) \in Nat
         /\ Cardinality(Opens(fu, o)) + EntryOwns(ft[f], o) = Cardinality(Opens(ft, o)) + EntryOwns(fu[f], o)
<1>1. /\ Opens(ft, o) \in SUBSET Fi!Entries /\ Opens(fu, o) \in SUBSET Fi!Entries
      /\ Opens(ft, o) \ {f} = Opens(fu, o) \ {f}
      /\ f \in Opens(ft, o) <=> ft[f].ref > 0 /\ ft[f].obj = o
      /\ f \in Opens(fu, o) <=> fu[f].ref > 0 /\ fu[f].obj = o
  BY DEF Opens
<1>2. /\ Cardinality(Opens(ft, o)) \in Nat /\ Cardinality(Opens(fu, o)) \in Nat
      /\ Cardinality(Opens(fu, o)) + (IF f \in Opens(ft, o) THEN 1 ELSE 0)
           = Cardinality(Opens(ft, o)) + (IF f \in Opens(fu, o) THEN 1 ELSE 0)
  BY <1>1, FdsFinite, OneMoves
<1> QED BY <1>1, <1>2 DEF EntryOwns

LEMMA OwnersCounted ==
  ASSUME NEW ft, NEW g, NEW o
  PROVE  /\ Cardinality(Opens(ft, o)) \in Nat /\ Cardinality(Letting(g, o)) \in Nat
         /\ Cardinality(Opening(g, o)) \in Nat /\ UsersOwn(g, o) \in Nat /\ OwnersOf(ft, g, o) \in Nat
<1>1. /\ Opens(ft, o) \in SUBSET Fi!Entries /\ Letting(g, o) \in SUBSET Users
      /\ Opening(g, o) \in SUBSET Users
  BY DEF Opens, Letting, Opening
<1>2. /\ IsFiniteSet(Opens(ft, o)) /\ IsFiniteSet(Letting(g, o)) /\ IsFiniteSet(Opening(g, o))
  BY <1>1, FdsFinite, DescriptorsAssumption, FS_Subset
<1>3. /\ Cardinality(Opens(ft, o)) \in Nat /\ Cardinality(Letting(g, o)) \in Nat
      /\ Cardinality(Opening(g, o)) \in Nat
  BY <1>2, FS_CardinalityType
<1> QED BY <1>3 DEF OwnersOf, UsersOwn

\* One process may come to own an object, or not any more.
LEMMA UsersOwnMoved ==
  ASSUME NEW g, NEW h, NEW p \in Users, \A q \in Users \ {p} : h[q] = g[q], NEW o
  PROVE  /\ UsersOwn(g, o) \in Nat /\ UsersOwn(h, o) \in Nat
         /\ UsersOwn(h, o) + UserOwns(g[p], o) = UsersOwn(g, o) + UserOwns(h[p], o)
<1>1. /\ Letting(g, o) \in SUBSET Users /\ Letting(h, o) \in SUBSET Users
      /\ Letting(g, o) \ {p} = Letting(h, o) \ {p}
      /\ p \in Letting(g, o) <=> g[p].rel = o
      /\ p \in Letting(h, o) <=> h[p].rel = o
  BY DEF Letting
<1>2. /\ Opening(g, o) \in SUBSET Users /\ Opening(h, o) \in SUBSET Users
      /\ Opening(g, o) \ {p} = Opening(h, o) \ {p}
      /\ p \in Opening(g, o) <=> IsOpening(g[p], o)
      /\ p \in Opening(h, o) <=> IsOpening(h[p], o)
  BY DEF Opening
<1>3. Cardinality(Letting(h, o)) + (IF p \in Letting(g, o) THEN 1 ELSE 0)
        = Cardinality(Letting(g, o)) + (IF p \in Letting(h, o) THEN 1 ELSE 0)
  BY <1>1, DescriptorsAssumption, OneMoves
<1>4. Cardinality(Opening(h, o)) + (IF p \in Opening(g, o) THEN 1 ELSE 0)
        = Cardinality(Opening(g, o)) + (IF p \in Opening(h, o) THEN 1 ELSE 0)
  BY <1>2, DescriptorsAssumption, OneMoves
<1>5. /\ Cardinality(Letting(g, o)) \in Nat /\ Cardinality(Opening(g, o)) \in Nat /\ UsersOwn(g, o) \in Nat
      /\ Cardinality(Letting(h, o)) \in Nat /\ Cardinality(Opening(h, o)) \in Nat /\ UsersOwn(h, o) \in Nat
  BY OwnersCounted
<1>6. (p \in Letting(g, o) <=> g[p].rel = o) /\ (p \in Letting(h, o) <=> h[p].rel = o)
  BY <1>1
<1>7. (p \in Opening(g, o) <=> IsOpening(g[p], o)) /\ (p \in Opening(h, o) <=> IsOpening(h[p], o))
  BY <1>2
<1> QED BY <1>3, <1>4, <1>5, <1>6, <1>7 DEF UsersOwn, UserOwns, Eq

-----------------------------------------------------------------------------
\* What the counts say of the pointers a process has: an entry it points to is referred to,
\* and twice if somebody else points to it too.
LEMMA FiCardinality == \A S : Fi!Cardinality(S) = Cardinality(S)
BY DEF Fi!Cardinality, Cardinality

LEMMA RefIs ==
  ASSUME FInv
  PROVE  \A f \in Fi!Entries : /\ fiFtable[f].ref = Cardinality(AllPointers(fiProc, f))
                               /\ fiFtable[f].ref \in Nat
                               /\ fiFtable[f].ref = 0 => fiFtable[f].obj = Fi!None
BY FiCardinality DEF FInv, FilesExact, Fi!TableExact, AllPointers, FilesTyped

LEMMA PointsTo ==
  ASSUME FInv, NEW p \in Users, NEW f \in Fi!Entries
  PROVE  PointerCount(fiProc[p], f) \in Nat /\ PointerCount(fiProc[p], f) <= fiFtable[f].ref
<1>1. fiProc \in [Users -> Opener]
  BY DEF FInv, FilesTyped
<1>2. PointerCount(fiProc[p], f) \in Nat
  BY <1>1, PointersCounted
<1> QED BY <1>1, <1>2, RefIs, PointersSplit

LEMMA BothPointTo ==
  ASSUME FInv, NEW p \in Users, NEW q \in Users, p # q, NEW f \in Fi!Entries
  PROVE  /\ PointerCount(fiProc[p], f) \in Nat /\ PointerCount(fiProc[q], f) \in Nat
         /\ PointerCount(fiProc[p], f) + PointerCount(fiProc[q], f) <= fiFtable[f].ref
<1> DEFINE idle == [pc |-> "unused", ofile |-> [d \in Fi!Fds |-> 0], new |-> <<>>, todo |-> <<>>,
                    rel |-> Fi!None]
           h == [fiProc EXCEPT ![q] = idle]
<1>1. fiProc \in [Users -> Opener] /\ h \in [Users -> Opener]
  <2>1. fiProc \in [Users -> Opener]
    BY DEF FInv, FilesTyped
  <2>2. 0 \in 0..NFILE /\ <<>> \in Seq(Nat) /\ <<>> \in Seq(Fi!Entries) /\ Fi!None \in Objects
    BY DescriptorsAssumption, ObjectsApart
  <2>3. idle \in Opener
    BY <2>2 DEF Opener
  <2> HIDE DEF idle
  <2> QED BY <2>1, <2>3
<1>2. PointerCount(fiProc[p], f) \in Nat /\ PointerCount(fiProc[q], f) \in Nat /\ PointerCount(h[q], f) \in Nat
  BY <1>1, PointersCounted
<1>3. h[p] = fiProc[p] /\ \A x \in Users \ {q} : h[x] = fiProc[x]
  BY <1>1
<1> HIDE DEF h
<1>4. /\ Cardinality(AllPointers(fiProc, f)) \in Nat /\ Cardinality(AllPointers(h, f)) \in Nat
      /\ Cardinality(AllPointers(h, f)) + PointerCount(fiProc[q], f)
           = Cardinality(AllPointers(fiProc, f)) + PointerCount(h[q], f)
  BY <1>1, <1>3, PointersMoved
<1>5. Cardinality(OtherPointers(h, p, f)) \in Nat
      /\ Cardinality(AllPointers(h, f)) = PointerCount(h[p], f) + Cardinality(OtherPointers(h, p, f))
  BY <1>1, PointersSplit
<1>6. PointerCount(h[q], f) = 0
  <2>1. h[q] = idle
    BY <1>1 DEF h
  <2>2. {d \in Fi!Fds \ Fi!Early(idle) : idle.ofile[d] = f} = {}
    BY FdsFinite
  <2>3. InOfile(idle, f) = 0
    <3> HIDE DEF idle
    <3> QED BY <2>2, FS_EmptySet DEF InOfile
  <2>4. InNew(idle, f) = 0
    BY DEF InNew
  <2>5. Times(idle.todo, f) = 0
    BY TodoEmpty
  <2> HIDE DEF idle
  <2> QED BY <2>1, <2>3, <2>4, <2>5 DEF PointerCount
<1> QED BY <1>2, <1>3, <1>4, <1>5, <1>6, RefIs
-----------------------------------------------------------------------------
\* What a process can use is open on something; what it has got is blank.
FdsOpen(r, ft) == \A d \in Fi!Fds : r.ofile[d] # 0 => ft[r.ofile[d]].obj # Fi!None
BlankOf(r, ft) == \A k \in Fi!Got(r) : IF r.pc = "pipe" THEN ft[r.new[k]].obj # Fi!None
                                       ELSE ft[r.new[k]].ref = 1 /\ ft[r.new[k]].obj = Fi!None

LEMMA SlotTyped ==
  ASSUME FInv, NEW p \in Users
  PROVE  /\ fiProc[p] \in Opener /\ fiProc[p].ofile \in [Fi!Fds -> 0..NFILE] /\ fiProc[p].new \in Seq(Nat)
         /\ fiProc[p].todo \in Seq(Fi!Entries) /\ fiProc[p].rel \in Objects
         /\ GotShape(fiProc[p]) /\ FdsOpen(fiProc[p], fiFtable) /\ BlankOf(fiProc[p], fiFtable)
<1>1. fiProc[p] \in Opener /\ GotShape(fiProc[p])
  BY DEF FInv, FilesTyped, GotShapes
<1>2. FdsOpen(fiProc[p], fiFtable)
  BY DEF FInv, FilesExact, Fi!ObjectsExact, FdsOpen
<1>3. BlankOf(fiProc[p], fiFtable)
  BY DEF FInv, Blank, BlankOf
<1> QED BY <1>1, <1>2, <1>3 DEF Opener

LEMMA OfilePoints ==
  ASSUME FInv, NEW p \in Users, NEW d \in Fi!Fds, fiProc[p].ofile[d] # 0
  PROVE  fiProc[p].ofile[d] \in Fi!Entries /\ PointerCount(fiProc[p], fiProc[p].ofile[d]) >= 1
<1> DEFINE f == fiProc[p].ofile[d]
<1>1. f \in Fi!Entries
  BY SlotTyped, DescriptorsAssumption DEF Fi!Entries
<1>2. \E x \in Fi!Fds : x \notin Fi!Early(fiProc[p]) /\ fiProc[p].ofile[x] = f
  BY SlotTyped DEF GotShape, Fi!Early
<1> HIDE DEF f
<1>3. InOfile(fiProc[p], f) >= 1
  BY <1>2, FdCounted
<1>4. InOfile(fiProc[p], f) \in Nat /\ InNew(fiProc[p], f) \in Nat /\ Times(fiProc[p].todo, f) \in Nat
  BY SlotTyped, PointersCounted
<1> QED BY <1>1, <1>3, <1>4 DEF PointerCount, f

LEMMA GotPoints ==
  ASSUME FInv, NEW p \in Users, NEW k \in Fi!Got(fiProc[p])
  PROVE  fiProc[p].new[k] \in Fi!Entries /\ PointerCount(fiProc[p], fiProc[p].new[k]) >= 1
<1> DEFINE f == fiProc[p].new[k]
<1>1. f \in Fi!Entries
  BY SlotTyped DEF GotShape, Fi!Got
<1>2. InNew(fiProc[p], f) >= 1
  BY DEF InNew, Fi!Got, Eq
<1>3. InOfile(fiProc[p], f) \in Nat /\ InNew(fiProc[p], f) \in Nat /\ Times(fiProc[p].todo, f) \in Nat
  BY SlotTyped, PointersCounted
<1> HIDE DEF f
<1> QED BY <1>1, <1>2, <1>3 DEF PointerCount, f

LEMMA TodoPoints ==
  ASSUME FInv, NEW p \in Users, fiProc[p].todo # <<>>
  PROVE  Head(fiProc[p].todo) \in Fi!Entries /\ PointerCount(fiProc[p], Head(fiProc[p].todo)) >= 1
<1> DEFINE t == fiProc[p].todo
           f == Head(t)
<1>1. t \in Seq(Fi!Entries) /\ f \in Fi!Entries /\ Tail(t) \in Seq(Fi!Entries)
  BY SlotTyped
<1>2. Times(t, f) = Times(Tail(t), f) + Eq(f, f) /\ Times(Tail(t), f) \in Nat
  BY <1>1, TodoTail, TodoFinite
<1>3. InOfile(fiProc[p], f) \in Nat /\ InNew(fiProc[p], f) \in Nat
  BY SlotTyped, PointersCounted
<1> HIDE DEF f
<1> QED BY <1>1, <1>2, <1>3 DEF PointerCount, f, Eq

-----------------------------------------------------------------------------
\* A step of one process, put together. What it does to an entry that was in use, it does
\* to one that it points to; and it takes what an entry is open on only with the last reference.
Touched(p, f) ==
  \/ fiFtable'[f] = fiFtable[f]
  \/ fiFtable[f].ref = 0
  \/ /\ PointerCount(fiProc[p], f) >= 1
     /\ fiFtable'[f].obj # Fi!None \/ fiFtable[f].obj = Fi!None \/ fiFtable[f].ref = 1

LEMMA OthersKept ==
  ASSUME FInv, NEW p \in Users, NEW q \in Users, q # p, fiProc'[q] = fiProc[q],
         \A f \in Fi!Entries : Touched(p, f)
  PROVE  FdsOpen(fiProc'[q], fiFtable') /\ BlankOf(fiProc'[q], fiFtable')
<1>1. ASSUME NEW f \in Fi!Entries, PointerCount(fiProc[q], f) >= 1
      PROVE  /\ fiFtable[f].ref = 1 => fiFtable'[f] = fiFtable[f]
             /\ fiFtable[f].obj # Fi!None => fiFtable'[f].obj # Fi!None
  <2>1. /\ PointerCount(fiProc[p], f) \in Nat /\ PointerCount(fiProc[q], f) \in Nat
        /\ PointerCount(fiProc[p], f) + PointerCount(fiProc[q], f) <= fiFtable[f].ref
        /\ fiFtable[f].ref \in Nat
    BY BothPointTo, RefIs
  <2>2. Touched(p, f)
    OBVIOUS
  <2> QED BY <1>1, <2>1, <2>2 DEF Touched
<1>2. FdsOpen(fiProc'[q], fiFtable')
  <2> SUFFICES ASSUME NEW d \in Fi!Fds, fiProc[q].ofile[d] # 0
               PROVE  fiFtable'[fiProc[q].ofile[d]].obj # Fi!None
    BY DEF FdsOpen
  <2>1. fiFtable[fiProc[q].ofile[d]].obj # Fi!None
    BY SlotTyped DEF FdsOpen
  <2> QED BY <1>1, <2>1, OfilePoints
<1>3. BlankOf(fiProc'[q], fiFtable')
  <2> SUFFICES ASSUME NEW k \in Fi!Got(fiProc[q])
               PROVE  IF fiProc[q].pc = "pipe" THEN fiFtable'[fiProc[q].new[k]].obj # Fi!None
                      ELSE fiFtable'[fiProc[q].new[k]].ref = 1 /\ fiFtable'[fiProc[q].new[k]].obj = Fi!None
    BY DEF BlankOf
  <2>1. IF fiProc[q].pc = "pipe" THEN fiFtable[fiProc[q].new[k]].obj # Fi!None
        ELSE fiFtable[fiProc[q].new[k]].ref = 1 /\ fiFtable[fiProc[q].new[k]].obj = Fi!None
    BY SlotTyped DEF BlankOf
  <2> QED BY <1>1, <2>1, GotPoints
<1> QED BY <1>2, <1>3

\* The owners of everything that can be open are what the inodes and the pipes say.
OwnersRight(ft, g, ino, pip) ==
  /\ \A i \in 1..NINODE : ino[i] = OwnersOf(ft, g, Fi!Inode(i))
  /\ \A k \in 1..NPIPE, e \in {"read", "write"} :
       OwnersOf(ft, g, Fi!End(k, e)) = IF e \in pip[k] THEN 1 ELSE 0

LEMMA OwnersAre ==
  /\ \A o : Fi!Owners(o) = OwnersOf(fiFtable, fiProc, o)
  /\ \A o : Fi!Owners(o)' = OwnersOf(fiFtable', fiProc', o)
<1>1. ASSUME NEW ft, NEW g, NEW o
      PROVE  OwnersOf(ft, g, o)
               = Cardinality(Opens(ft, o)) + Cardinality(Letting(g, o)) + Cardinality(Opening(g, o))
  BY OwnersCounted DEF OwnersOf, UsersOwn
<1> QED BY <1>1, FiCardinality DEF Fi!Owners, Opens, Letting, Opening, IsOpening

LEMMA OwnersNow == FInv => OwnersRight(fiFtable, fiProc, fiInode, fiPipe)
BY OwnersAre DEF FInv, FilesExact, Fi!ObjectsExact, OwnersRight

LEMMA InvKept ==
  ASSUME FInv, NEW p \in Users, FilesTyped', \A q \in Users \ {p} : fiProc'[q] = fiProc[q],
         GotShape(fiProc'[p]), FdsOpen(fiProc'[p], fiFtable'), BlankOf(fiProc'[p], fiFtable'),
         \A q \in Users \ {p} : FdsOpen(fiProc'[q], fiFtable') /\ BlankOf(fiProc'[q], fiFtable'),
         \A f \in Fi!Entries :
           /\ fiFtable'[f].ref + PointerCount(fiProc[p], f) = fiFtable[f].ref + PointerCount(fiProc'[p], f)
           /\ fiFtable'[f].ref = 0 => fiFtable'[f].obj = Fi!None,
         OwnersRight(fiFtable', fiProc', fiInode', fiPipe')
  PROVE  FInv'
<1>1. GotShapes'
  BY DEF GotShapes, FInv
<1>2. \A q \in Users : FdsOpen(fiProc'[q], fiFtable') /\ BlankOf(fiProc'[q], fiFtable')
  OBVIOUS
<1>3. Fi!TableExact'
  <2> SUFFICES ASSUME NEW f \in Fi!Entries
               PROVE  fiFtable'[f].ref = Cardinality(AllPointers(fiProc', f))
    BY FiCardinality DEF Fi!TableExact, AllPointers
  <2>1. fiProc \in [Users -> Opener] /\ fiProc' \in [Users -> Opener] /\ fiFtable'[f].ref \in Nat
    BY DEF FInv, FilesTyped
  <2>2. /\ Cardinality(AllPointers(fiProc, f)) \in Nat /\ Cardinality(AllPointers(fiProc', f)) \in Nat
        /\ Cardinality(AllPointers(fiProc', f)) + PointerCount(fiProc[p], f)
             = Cardinality(AllPointers(fiProc, f)) + PointerCount(fiProc'[p], f)
    BY <2>1, PointersMoved
  <2>3. PointerCount(fiProc[p], f) \in Nat /\ PointerCount(fiProc'[p], f) \in Nat
    BY <2>1, PointersCounted
  <2>4. fiFtable'[f].ref + PointerCount(fiProc[p], f) = fiFtable[f].ref + PointerCount(fiProc'[p], f)
    OBVIOUS
  <2>5. fiFtable[f].ref = Cardinality(AllPointers(fiProc, f)) /\ fiFtable[f].ref \in Nat
    BY RefIs
  <2> QED BY ONLY <2>1, <2>2, <2>3, <2>4, <2>5
<1>4. Fi!ObjectsExact'
  <2>1. \A q \in Users, d \in Fi!Fds :
          fiProc'[q].ofile[d] # 0 => fiFtable'[fiProc'[q].ofile[d]].obj # Fi!None
    BY <1>2 DEF FdsOpen
  <2> QED BY <2>1, OwnersAre DEF Fi!ObjectsExact, OwnersRight
<1>5. Blank'
  BY <1>2 DEF Blank, BlankOf
<1> QED BY <1>1, <1>3, <1>4, <1>5 DEF FInv, FilesExact

LEMMA StepKept ==
  ASSUME FInv, NEW p \in Users, FilesTyped', \A q \in Users \ {p} : fiProc'[q] = fiProc[q],
         GotShape(fiProc'[p]), FdsOpen(fiProc'[p], fiFtable'), BlankOf(fiProc'[p], fiFtable'),
         \A f \in Fi!Entries :
           /\ Touched(p, f)
           /\ fiFtable'[f].ref + PointerCount(fiProc[p], f) = fiFtable[f].ref + PointerCount(fiProc'[p], f)
           /\ fiFtable'[f].ref = 0 => fiFtable'[f].obj = Fi!None,
         OwnersRight(fiFtable', fiProc', fiInode', fiPipe')
  PROVE  FInv'
<1>1. \A q \in Users \ {p} : FdsOpen(fiProc'[q], fiFtable') /\ BlankOf(fiProc'[q], fiFtable')
  BY OthersKept
<1> QED BY <1>1, InvKept

\* A step that hands an object over from one owner to another, or touches none.
LEMMA HandedOver ==
  ASSUME FInv, NEW p \in Users, \A q \in Users \ {p} : fiProc'[q] = fiProc[q],
         fiInode' = fiInode, fiPipe' = fiPipe,
         \A o \in Objects \ {Fi!None} :
           Cardinality(Opens(fiFtable', o)) + UserOwns(fiProc'[p], o)
             = Cardinality(Opens(fiFtable, o)) + UserOwns(fiProc[p], o)
  PROVE  OwnersRight(fiFtable', fiProc', fiInode', fiPipe')
<1>1. ASSUME NEW o \in Objects \ {Fi!None}
      PROVE  OwnersOf(fiFtable', fiProc', o) = OwnersOf(fiFtable, fiProc, o)
  <2>1. /\ UsersOwn(fiProc, o) \in Nat /\ UsersOwn(fiProc', o) \in Nat
        /\ UsersOwn(fiProc', o) + UserOwns(fiProc[p], o) = UsersOwn(fiProc, o) + UserOwns(fiProc'[p], o)
    BY UsersOwnMoved
  <2>2. Cardinality(Opens(fiFtable, o)) \in Nat /\ Cardinality(Opens(fiFtable', o)) \in Nat
    BY OwnersCounted
  <2>3. UserOwns(fiProc[p], o) \in Nat /\ UserOwns(fiProc'[p], o) \in Nat
    BY DEF UserOwns, Eq
  <2> QED BY <1>1, <2>1, <2>2, <2>3 DEF OwnersOf
<1>2. \A i \in 1..NINODE : Fi!Inode(i) \in Objects \ {Fi!None}
  BY SMTT(60), ObjectsApart DEF Objects
<1>3. \A k \in 1..NPIPE, e \in {"read", "write"} : Fi!End(k, e) \in Objects \ {Fi!None}
  BY SMTT(60), ObjectsApart DEF Objects
<1> QED BY <1>1, <1>2, <1>3, OwnersNow DEF OwnersRight
-----------------------------------------------------------------------------
\* An action leaves the other processes, and most of the state of its own, alone.
\* A descriptor becomes an entry to close, in close() and in exit().
LEMMA ClosingKeeps ==
  ASSUME FInv, NEW p \in Users, NEW d \in Fi!Fds, NEW place \in {"user", "exit"},
         fiProc[p].pc \in {"user", "exit"}, fiProc[p].todo = <<>>, fiProc[p].rel = Fi!None,
         fiProc[p].ofile[d] # 0, fiFtable' = fiFtable, fiInode' = fiInode, fiPipe' = fiPipe,
         fiProc' = [fiProc EXCEPT ![p] = [@ EXCEPT !.pc = place, !.ofile[d] = 0,
                                                   !.todo = <<fiProc[p].ofile[d]>>]]
  PROVE  FInv'
<1> DEFINE r == fiProc[p]
           s == fiProc'[p]
           c == r.ofile[d]
           x == [r EXCEPT !.pc = place, !.ofile[d] = 0, !.todo = <<c>>]
<1>1. /\ r.pc \in {"user", "exit"} /\ r.todo = <<>> /\ r.rel = Fi!None /\ c # 0
      /\ fiFtable' = fiFtable /\ fiInode' = fiInode /\ fiPipe' = fiPipe
      /\ fiProc' = [fiProc EXCEPT ![p] = x]
  OBVIOUS
<1>2. /\ r \in Opener /\ r.ofile \in [Fi!Fds -> 0..NFILE] /\ fiProc \in [Users -> Opener]
      /\ GotShape(r) /\ FdsOpen(r, fiFtable) /\ FilesTyped
  BY SlotTyped DEF FInv, FilesTyped
<1>3. c \in Fi!Entries
  BY <1>1, OfilePoints
<1>4. /\ s.pc = place /\ s.ofile = [r.ofile EXCEPT ![d] = 0] /\ s.new = r.new /\ s.todo = <<c>>
      /\ s.rel = Fi!None /\ s \in Opener /\ fiProc' \in [Users -> Opener]
      /\ \A q \in Users \ {p} : fiProc'[q] = fiProc[q]
  <2>1. 0 \in 0..NFILE /\ <<c>> \in Seq(Fi!Entries)
    BY <1>3, DescriptorsAssumption
  <2>2. /\ x \in Opener /\ x.pc = place /\ x.ofile = [r.ofile EXCEPT ![d] = 0] /\ x.new = r.new
        /\ x.todo = <<c>> /\ x.rel = r.rel
    <3> HIDE DEF r, c
    <3> QED BY <1>2, <2>1 DEF Opener
  <2> HIDE DEF x, c
  <2> QED BY <1>1, <1>2, <2>2
<1>5. r.new = <<>> /\ Fi!Got(s) = {} /\ Fi!Early(r) = {} /\ Fi!Early(s) = {}
  BY <1>1, <1>2, <1>4 DEF GotShape, Fi!Got, Fi!Early
<1>6. FilesTyped'
  BY <1>1, <1>2, <1>4 DEF FilesTyped
<1>7. GotShape(s)
  BY <1>4, <1>5 DEF GotShape
<1>8. FdsOpen(s, fiFtable')
  BY <1>1, <1>2, <1>4 DEF FdsOpen
<1>9. BlankOf(s, fiFtable')
  BY <1>5 DEF BlankOf
<1>10. ASSUME NEW f \in Fi!Entries PROVE PointerCount(s, f) = PointerCount(r, f)
  <2>1. InOfile(s, f) + OpenFd(r, d, f) = InOfile(r, f) + OpenFd(s, d, f)
    <3>1. \A y \in Fi!Fds \ {d} : (y \notin Fi!Early(r) /\ r.ofile[y] = f) <=> (y \notin Fi!Early(s) /\ s.ofile[y] = f)
      BY <1>2, <1>4, <1>5
    <3> HIDE DEF r, s
    <3> QED BY <3>1, FdMoved
  <2>2. OpenFd(r, d, f) = Eq(c, f) /\ OpenFd(s, d, f) = 0
    BY <1>2, <1>4, <1>5, FdsFinite DEF OpenFd, Eq
  <2>3. Times(s.todo, f) = Eq(c, f) /\ Times(r.todo, f) = 0
    BY <1>1, <1>3, <1>4, TodoOne, TodoEmpty
  <2>4. InNew(r, f) = 0 /\ InNew(s, f) = 0
    BY <1>1, <1>4 DEF InNew
  <2>5. InOfile(r, f) \in Nat /\ InOfile(s, f) \in Nat /\ Eq(c, f) \in Nat
    BY OfileFinite DEF Eq
  <2> HIDE DEF r, s, c
  <2> QED BY <2>1, <2>2, <2>3, <2>4, <2>5 DEF PointerCount
<1>11. \A o : UserOwns(s, o) = UserOwns(r, o)
  BY <1>1, <1>4 DEF UserOwns, IsOpening
<1>12. OwnersRight(fiFtable', fiProc', fiInode', fiPipe')
  BY <1>1, <1>4, <1>11, HandedOver
<1>13. ASSUME NEW f \in Fi!Entries
       PROVE  /\ Touched(p, f)
              /\ fiFtable'[f].ref + PointerCount(fiProc[p], f) = fiFtable[f].ref + PointerCount(fiProc'[p], f)
              /\ fiFtable'[f].ref = 0 => fiFtable'[f].obj = Fi!None
  BY <1>1, <1>10, RefIs DEF Touched
<1> QED BY <1>4, <1>6, <1>7, <1>8, <1>9, <1>12, <1>13, StepKept

LEMMA CloseKeeps ==
  ASSUME FInv, NEW p \in Users, NEW d \in Fi!Fds, Fi!Close(p, d)
  PROVE  FInv'
<1> DEFINE r == fiProc[p]
           c == r.ofile[d]
<1>1. /\ r.pc = "user" /\ r.todo = <<>> /\ r.rel = Fi!None /\ c # 0
      /\ fiFtable' = fiFtable /\ fiInode' = fiInode /\ fiPipe' = fiPipe
      /\ fiProc' = [fiProc EXCEPT ![p] = [@ EXCEPT !.ofile[d] = 0, !.todo = <<c>>]]
  BY DEF Fi!Close, Fi!At
<1>2. r \in Opener
  BY SlotTyped
<1>3. [r EXCEPT !.ofile[d] = 0, !.todo = <<c>>] = [r EXCEPT !.pc = "user", !.ofile[d] = 0, !.todo = <<c>>]
  <2> HIDE DEF r, c
  <2> QED BY <1>1, <1>2 DEF Opener
<1>4. fiProc' = [fiProc EXCEPT ![p] = [@ EXCEPT !.pc = "user", !.ofile[d] = 0, !.todo = <<c>>]]
  BY <1>1, <1>3
<1> QED BY <1>1, <1>4, ClosingKeeps

\* exit() ends when no file is left.
LEMMA ExitKeeps ==
  ASSUME FInv, NEW p \in Users, Fi!Exit(p)
  PROVE  FInv'
<1> DEFINE r == fiProc[p]
           s == fiProc'[p]
           held == {d \in Fi!Fds : r.ofile[d] # 0}
           x == [r EXCEPT !.pc = "unused"]
<1>1. /\ r.pc \in {"user", "exit"} /\ r.todo = <<>> /\ r.rel = Fi!None
      /\ fiFtable' = fiFtable /\ fiInode' = fiInode /\ fiPipe' = fiPipe
  BY DEF Fi!Exit, Fi!At
<1>2. CASE held # {}
  <2>1. Fi!Min(held) \in held
    BY <1>2, FdsFinite, MinIs
  <2>2. PICK d \in Fi!Fds : r.ofile[d] # 0 /\ d = Fi!Min(held)
    BY <2>1
  <2>3. fiProc' = [fiProc EXCEPT ![p] = [@ EXCEPT !.pc = "exit", !.ofile[Fi!Min(held)] = 0,
                                                  !.todo = <<r.ofile[Fi!Min(held)]>>]]
    BY <1>2 DEF Fi!Exit
  <2>4. fiProc' = [fiProc EXCEPT ![p] = [@ EXCEPT !.pc = "exit", !.ofile[d] = 0, !.todo = <<r.ofile[d]>>]]
    BY <2>2, <2>3
  <2> QED BY <1>1, <2>2, <2>4, ClosingKeeps
<1>3. CASE held = {}
  <2>1. fiProc' = [fiProc EXCEPT ![p] = x]
    BY <1>3 DEF Fi!Exit
  <2>2. /\ r \in Opener /\ fiProc \in [Users -> Opener] /\ GotShape(r) /\ FdsOpen(r, fiFtable) /\ FilesTyped
    BY SlotTyped DEF FInv, FilesTyped
  <2>3. /\ s.pc = "unused" /\ s.ofile = r.ofile /\ s.new = <<>> /\ s.todo = <<>>
        /\ s.rel = Fi!None /\ s \in Opener /\ fiProc' \in [Users -> Opener]
        /\ \A q \in Users \ {p} : fiProc'[q] = fiProc[q]
    <3>1. /\ x \in Opener /\ x.pc = "unused" /\ x.ofile = r.ofile /\ x.new = r.new /\ x.todo = r.todo
          /\ x.rel = r.rel
      <4> HIDE DEF r
      <4> QED BY <2>2 DEF Opener
    <3>2. r.new = <<>>
      BY <1>1, <2>2 DEF GotShape
    <3> HIDE DEF x
    <3> QED BY <1>1, <2>1, <2>2, <3>1, <3>2
  <2>4. Fi!Got(s) = {} /\ Fi!Early(r) = {} /\ Fi!Early(s) = {}
    BY <1>1, <2>3 DEF Fi!Got, Fi!Early
  <2>5. FilesTyped'
    BY <1>1, <2>2, <2>3 DEF FilesTyped
  <2>6. GotShape(s)
    BY <1>3, <2>3 DEF GotShape
  <2>7. FdsOpen(s, fiFtable') /\ BlankOf(s, fiFtable')
    BY <1>1, <2>2, <2>3, <2>4 DEF FdsOpen, BlankOf
  <2>8. ASSUME NEW f \in Fi!Entries PROVE PointerCount(s, f) = PointerCount(r, f)
    <3>1. InOfile(s, f) = InOfile(r, f)
      BY <2>3, <2>4, FdSame
    <3>2. InNew(s, f) = 0 /\ InNew(r, f) = 0
      BY <1>1, <2>3 DEF InNew
    <3> QED BY <1>1, <2>3, <3>1, <3>2 DEF PointerCount
  <2>9. \A o : UserOwns(s, o) = UserOwns(r, o)
    BY <1>1, <2>3 DEF UserOwns, IsOpening
  <2>10. OwnersRight(fiFtable', fiProc', fiInode', fiPipe')
    BY <1>1, <2>3, <2>9, HandedOver
  <2>11. ASSUME NEW f \in Fi!Entries
         PROVE  /\ Touched(p, f)
                /\ fiFtable'[f].ref + PointerCount(fiProc[p], f) = fiFtable[f].ref + PointerCount(fiProc'[p], f)
                /\ fiFtable'[f].ref = 0 => fiFtable'[f].obj = Fi!None
    BY <1>1, <2>8, RefIs DEF Touched
  <2> QED BY <2>3, <2>5, <2>6, <2>7, <2>10, <2>11, StepKept
<1> QED BY <1>2, <1>3

LEMMA DupKeeps ==
  ASSUME FInv, NEW p \in Users, NEW d \in Fi!Fds, Fi!Dup(p, d)
  PROVE  FInv'
<1> DEFINE r == fiProc[p]
           s == fiProc'[p]
           c == r.ofile[d]
           fd == Fi!Min(Fi!FreeFds(p))
<1>1. /\ r.pc = "user" /\ r.todo = <<>> /\ r.rel = Fi!None /\ c # 0 /\ Fi!FreeFds(p) # {}
      /\ fiFtable' = fiFtable /\ fiInode' = fiInode /\ fiPipe' = fiPipe
      /\ fiProc' = [fiProc EXCEPT ![p] = [@ EXCEPT !.pc = "dup", !.ofile[fd] = c, !.new = <<c, fd>>]]
  BY DEF Fi!Dup, Fi!At
<1>2. /\ r \in Opener /\ r.ofile \in [Fi!Fds -> 0..NFILE] /\ fiProc \in [Users -> Opener]
      /\ GotShape(r) /\ FdsOpen(r, fiFtable) /\ FilesTyped
  BY SlotTyped DEF FInv, FilesTyped
<1>3. c \in Fi!Entries /\ c \in 0..NFILE /\ c \in Nat
  BY <1>1, <1>2, OfilePoints, FdsFinite
<1>4. fd \in Fi!Fds /\ fd \in Nat /\ r.ofile[fd] = 0 /\ fd # d
  <2>1. Fi!FreeFds(p) \in SUBSET Nat
    BY FdsFinite DEF Fi!FreeFds
  <2>2. fd \in Fi!FreeFds(p)
    BY <1>1, <2>1, MinIs
  <2> HIDE DEF fd
  <2> QED BY <1>1, <2>1, <2>2 DEF Fi!FreeFds
<1> HIDE DEF fd, c
<1>5. /\ s.pc = "dup" /\ s.ofile = [r.ofile EXCEPT ![fd] = c] /\ s.new = <<c, fd>> /\ s.todo = <<>>
      /\ s.rel = Fi!None /\ s \in Opener /\ fiProc' \in [Users -> Opener]
      /\ \A q \in Users \ {p} : fiProc'[q] = fiProc[q]
  <2>1. <<c, fd>> \in Seq(Nat)
    BY <1>3, <1>4
  <2>2. [r EXCEPT !.pc = "dup", !.ofile[fd] = c, !.new = <<c, fd>>] \in Opener
    BY <1>2, <1>3, <2>1 DEF Opener
  <2>3. s = [r EXCEPT !.pc = "dup", !.ofile[fd] = c, !.new = <<c, fd>>]
    BY <1>1, <1>2
  <2>4. fiProc' \in [Users -> Opener] /\ \A q \in Users \ {p} : fiProc'[q] = fiProc[q]
    BY <1>1, <1>2, <2>2
  <2> QED BY <1>1, <1>2, <2>2, <2>3, <2>4 DEF Opener
<1>6. Fi!Got(s) = {} /\ Fi!Early(r) = {} /\ Fi!Early(s) = {fd}
  BY <1>1, <1>5 DEF Fi!Got, Fi!Early
<1>7. FilesTyped'
  BY <1>1, <1>2, <1>5 DEF FilesTyped
<1>8. GotShape(s)
  <2>1. s.new[1] = c /\ s.new[2] = fd
    BY <1>5
  <2>2. s.ofile[fd] = c /\ s.ofile[d] = c
    BY <1>2, <1>4, <1>5 DEF c
  <2> HIDE DEF s
  <2> QED BY <1>3, <1>4, <1>5, <2>1, <2>2 DEF GotShape
<1>9. FdsOpen(s, fiFtable')
  BY <1>1, <1>2, <1>4, <1>5 DEF FdsOpen, c
<1>10. BlankOf(s, fiFtable')
  BY <1>6 DEF BlankOf
<1>11. ASSUME NEW f \in Fi!Entries PROVE PointerCount(s, f) = PointerCount(r, f)
  <2>1. \A x \in Fi!Fds : (x \notin Fi!Early(r) /\ r.ofile[x] = f) <=> (x \notin Fi!Early(s) /\ s.ofile[x] = f)
    <3>1. \A x \in Fi!Fds : s.ofile[x] = IF x = fd THEN c ELSE r.ofile[x]
      BY <1>2, <1>4, <1>5
    <3>2. f # 0
      BY FdsFinite
    <3> HIDE DEF r, s
    <3> QED BY ONLY <1>4, <1>6, <3>1, <3>2
  <2>2. r.todo = s.todo /\ InNew(r, f) = 0 /\ InNew(s, f) = 0
    BY <1>1, <1>5 DEF InNew
  <2> HIDE DEF r, s
  <2>3. InOfile(s, f) = InOfile(r, f)
    BY <2>1, FdSame
  <2> QED BY <2>2, <2>3 DEF PointerCount
<1>12. \A o : UserOwns(s, o) = UserOwns(r, o)
  BY <1>1, <1>5 DEF UserOwns, IsOpening
<1>13. OwnersRight(fiFtable', fiProc', fiInode', fiPipe')
  BY <1>1, <1>5, <1>12, HandedOver
<1>14. ASSUME NEW f \in Fi!Entries
       PROVE  /\ Touched(p, f)
              /\ fiFtable'[f].ref + PointerCount(fiProc[p], f) = fiFtable[f].ref + PointerCount(fiProc'[p], f)
              /\ fiFtable'[f].ref = 0 => fiFtable'[f].obj = Fi!None
  BY <1>1, <1>11, RefIs DEF Touched
<1> QED BY <1>5, <1>7, <1>8, <1>9, <1>10, <1>13, <1>14, StepKept

LEMMA FiledupKeeps ==
  ASSUME FInv, NEW p \in Users, Fi!Filedup(p)
  PROVE  FInv'
<1> DEFINE r == fiProc[p]
           s == fiProc'[p]
           a == r.new[1]
           fd == r.new[2]
<1>1. /\ r.pc = "dup" /\ r.todo = <<>> /\ r.rel = Fi!None
      /\ fiFtable' = [fiFtable EXCEPT ![Head(r.new)].ref = @ + 1]
      /\ fiInode' = fiInode /\ fiPipe' = fiPipe
      /\ fiProc' = [fiProc EXCEPT ![p] = [@ EXCEPT !.pc = "user", !.new = <<>>]]
  BY DEF Fi!Filedup, Fi!At
<1>2. /\ r \in Opener /\ r.ofile \in [Fi!Fds -> 0..NFILE] /\ fiProc \in [Users -> Opener]
      /\ GotShape(r) /\ FdsOpen(r, fiFtable) /\ FilesTyped
      /\ fiFtable \in [Fi!Entries -> [ref : Nat, obj : Objects]]
  BY SlotTyped DEF FInv, FilesTyped
<1>3. /\ a \in Fi!Entries /\ fd \in Fi!Fds /\ r.ofile[fd] = a /\ Head(r.new) = a
      /\ \E x \in Fi!Fds \ {fd} : r.ofile[x] = a
  BY <1>1, <1>2 DEF GotShape
<1>4. /\ fiFtable' \in [Fi!Entries -> [ref : Nat, obj : Objects]]
      /\ fiFtable'[a].ref = fiFtable[a].ref + 1 /\ fiFtable'[a].obj = fiFtable[a].obj
      /\ \A f \in Fi!Entries \ {a} : fiFtable'[f] = fiFtable[f]
  <2> HIDE DEF a
  <2> QED BY <1>1, <1>2, <1>3
<1>5. /\ s.pc = "user" /\ s.ofile = r.ofile /\ s.new = <<>> /\ s.todo = <<>>
      /\ s.rel = Fi!None /\ s \in Opener /\ fiProc' \in [Users -> Opener]
      /\ \A q \in Users \ {p} : fiProc'[q] = fiProc[q]
  <2>0. <<>> \in Seq(Nat)
    OBVIOUS
  <2>1. [r EXCEPT !.pc = "user", !.new = <<>>] \in Opener
    BY <1>2, <2>0 DEF Opener
  <2>2. s = [r EXCEPT !.pc = "user", !.new = <<>>]
    BY <1>1, <1>2
  <2>3. fiProc' \in [Users -> Opener] /\ \A q \in Users \ {p} : fiProc'[q] = fiProc[q]
    BY <1>1, <1>2, <2>1
  <2> QED BY <1>1, <1>2, <2>1, <2>2, <2>3 DEF Opener
<1>6. Fi!Got(s) = {} /\ Fi!Early(r) = {fd} /\ Fi!Early(s) = {}
  BY <1>1, <1>5 DEF Fi!Got, Fi!Early
<1>7. FilesTyped'
  BY <1>1, <1>2, <1>4, <1>5 DEF FilesTyped
<1>8. GotShape(s)
  BY <1>5 DEF GotShape
<1>9. PointerCount(r, a) >= 1 /\ PointerCount(r, a) \in Nat /\ fiFtable[a].ref >= 1
      /\ fiFtable[a].ref \in Nat
  <2>1. PointerCount(r, a) >= 1
    BY <1>2, <1>3, OfilePoints, FdsFinite
  <2> QED BY <1>3, <2>1, PointsTo, RefIs
<1>10. FdsOpen(s, fiFtable')
  <2> SUFFICES ASSUME NEW d \in Fi!Fds, r.ofile[d] # 0
               PROVE  fiFtable'[r.ofile[d]].obj # Fi!None
    BY <1>5 DEF FdsOpen
  <2>1. r.ofile[d] \in Fi!Entries /\ fiFtable[r.ofile[d]].obj # Fi!None
    BY <1>2, OfilePoints DEF FdsOpen
  <2> QED BY <1>4, <2>1
<1>11. BlankOf(s, fiFtable')
  BY <1>6 DEF BlankOf
<1>12. ASSUME NEW f \in Fi!Entries PROVE PointerCount(s, f) = PointerCount(r, f) + Eq(a, f)
  <2>1. \A x \in Fi!Fds \ {fd} : (x \notin Fi!Early(r) /\ r.ofile[x] = f) <=> (x \notin Fi!Early(s) /\ s.ofile[x] = f)
    BY <1>5, <1>6
  <2>2. r.todo = s.todo /\ InNew(r, f) = 0 /\ InNew(s, f) = 0
    BY <1>1, <1>5 DEF InNew
  <2>3. OpenFd(r, fd, f) = 0 /\ OpenFd(s, fd, f) = Eq(a, f)
    BY <1>3, <1>5, <1>6 DEF OpenFd, Eq
  <2>4. Times(r.todo, f) \in Nat
    BY <1>2, PointersCounted
  <2>5. Eq(a, f) \in Nat
    BY DEF Eq
  <2> HIDE DEF r, s, a, fd
  <2>6. /\ InOfile(s, f) \in Nat /\ InOfile(r, f) \in Nat
        /\ InOfile(s, f) + OpenFd(r, fd, f) = InOfile(r, f) + OpenFd(s, fd, f)
    BY <1>3, <2>1, FdMoved
  <2> QED BY <2>2, <2>3, <2>4, <2>5, <2>6 DEF PointerCount
<1>13. \A o : UserOwns(s, o) = UserOwns(r, o)
  BY <1>1, <1>5 DEF UserOwns, IsOpening
<1>14. \A o : Opens(fiFtable', o) = Opens(fiFtable, o)
  BY <1>3, <1>4, <1>9 DEF Opens
<1>15. OwnersRight(fiFtable', fiProc', fiInode', fiPipe')
  BY <1>1, <1>5, <1>13, <1>14, HandedOver
<1>16. ASSUME NEW f \in Fi!Entries
       PROVE  /\ Touched(p, f)
              /\ fiFtable'[f].ref + PointerCount(fiProc[p], f) = fiFtable[f].ref + PointerCount(fiProc'[p], f)
              /\ fiFtable'[f].ref = 0 => fiFtable'[f].obj = Fi!None
  <2>1. PointerCount(r, f) \in Nat /\ fiFtable[f].ref \in Nat
        /\ (fiFtable[f].ref = 0 => fiFtable[f].obj = Fi!None)
    BY PointsTo, RefIs
  <2>2. CASE f = a
    BY <1>4, <1>9, <1>12, <2>1, <2>2 DEF Touched, Eq
  <2>3. CASE f # a
    BY <1>4, <1>12, <2>1, <2>3 DEF Touched, Eq
  <2> QED BY <2>2, <2>3
<1> QED BY <1>5, <1>7, <1>8, <1>10, <1>11, <1>15, <1>16, StepKept

LEMMA FilecloseKeeps ==
  ASSUME FInv, NEW p \in Users, Fi!Fileclose(p)
  PROVE  FInv'
<1> DEFINE r == fiProc[p]
           s == fiProc'[p]
           a == Head(r.todo)
           last == fiFtable[a].ref = 1
           o == IF last THEN fiFtable[a].obj ELSE Fi!None
           rest == Tail(r.todo)
           e == IF last THEN [ref |-> 0, obj |-> Fi!None] ELSE [fiFtable[a] EXCEPT !.ref = @ - 1]
           x == [r EXCEPT !.todo = Tail(@), !.rel = o]
<1>1. /\ r.todo # <<>> /\ r.rel = Fi!None
      /\ fiFtable' = [fiFtable EXCEPT ![a] = e]
      /\ fiInode' = fiInode /\ fiPipe' = fiPipe
      /\ fiProc' = [fiProc EXCEPT ![p] = x]
  BY DEF Fi!Fileclose
<1>2. /\ r \in Opener /\ r.ofile \in [Fi!Fds -> 0..NFILE] /\ fiProc \in [Users -> Opener]
      /\ GotShape(r) /\ FdsOpen(r, fiFtable) /\ FilesTyped /\ r.todo \in Seq(Fi!Entries)
      /\ fiFtable \in [Fi!Entries -> [ref : Nat, obj : Objects]]
  BY SlotTyped DEF FInv, FilesTyped
<1>3. /\ a \in Fi!Entries /\ rest \in Seq(Fi!Entries)
      /\ r.pc \in {"user", "exit", "noroom"} /\ o \in Objects
  BY <1>1, <1>2, ObjectsApart DEF GotShape
<1>4. fiFtable[a].ref >= 1 /\ fiFtable[a].ref \in Nat
  BY <1>1, <1>3, TodoPoints, PointsTo, RefIs
<1>5. /\ fiFtable' \in [Fi!Entries -> [ref : Nat, obj : Objects]]
      /\ fiFtable'[a].ref = fiFtable[a].ref - 1
      /\ fiFtable'[a].obj = IF last THEN Fi!None ELSE fiFtable[a].obj
      /\ \A f \in Fi!Entries \ {a} : fiFtable'[f] = fiFtable[f]
  <2>1. /\ e \in [ref : Nat, obj : Objects] /\ e.ref = fiFtable[a].ref - 1
        /\ e.obj = IF last THEN Fi!None ELSE fiFtable[a].obj
    <3> HIDE DEF a
    <3> QED BY SMTT(60), <1>2, <1>3, <1>4, ObjectsApart
  <2> HIDE DEF e, a, last
  <2> QED BY <1>1, <1>2, <1>3, <2>1
<1>6. /\ s.pc = r.pc /\ s.ofile = r.ofile /\ s.new = r.new /\ s.todo = rest
      /\ s.rel = o /\ s \in Opener /\ fiProc' \in [Users -> Opener]
      /\ \A q \in Users \ {p} : fiProc'[q] = fiProc[q]
  <2>1. /\ x \in Opener /\ x.pc = r.pc /\ x.ofile = r.ofile /\ x.new = r.new /\ x.todo = rest
        /\ x.rel = o
    <3> HIDE DEF r, o
    <3> QED BY <1>2, <1>3 DEF Opener
  <2> HIDE DEF x
  <2> QED BY <1>1, <1>2, <2>1
<1>7. Fi!Got(s) = {} /\ Fi!Early(r) = {} /\ Fi!Early(s) = {}
  BY <1>3, <1>6 DEF Fi!Got, Fi!Early
<1>8. FilesTyped'
  BY <1>1, <1>2, <1>5, <1>6 DEF FilesTyped
<1>9. GotShape(s)
  <2> HIDE DEF r, s
  <2> QED BY <1>2, <1>3, <1>6 DEF GotShape
<1>10. Times(r.todo, a) = Times(s.todo, a) + 1 /\ Times(s.todo, a) \in Nat
  BY <1>1, <1>2, <1>3, <1>6, TodoTail, TodoFinite DEF Eq
<1>11. FdsOpen(s, fiFtable')
  <2> SUFFICES ASSUME NEW d \in Fi!Fds, r.ofile[d] # 0
               PROVE  fiFtable'[r.ofile[d]].obj # Fi!None
    BY <1>6 DEF FdsOpen
  <2>1. r.ofile[d] \in Fi!Entries /\ fiFtable[r.ofile[d]].obj # Fi!None
    BY <1>2, OfilePoints DEF FdsOpen
  <2>2. CASE r.ofile[d] = a
    <3>1. InOfile(r, a) >= 1 /\ InOfile(r, a) \in Nat
      BY <1>7, <2>2, FdCounted
    <3>2. InNew(r, a) \in Nat
      BY <1>2, PointersCounted
    <3>3. PointerCount(r, a) <= fiFtable[a].ref /\ PointerCount(r, a) \in Nat
      BY <1>3, PointsTo
    <3>4. ~last
      <4> HIDE DEF r, s, a
      <4> QED BY <1>4, <1>10, <3>1, <3>2, <3>3 DEF PointerCount
    <3> QED BY <1>5, <2>1, <2>2, <3>4
  <2>3. CASE r.ofile[d] # a
    BY <1>5, <2>1, <2>3
  <2> QED BY <2>2, <2>3
<1>12. BlankOf(s, fiFtable')
  BY <1>7 DEF BlankOf
<1>13. ASSUME NEW f \in Fi!Entries PROVE PointerCount(r, f) = PointerCount(s, f) + Eq(a, f)
                                         /\ PointerCount(s, f) \in Nat
  <2>1. /\ Times(r.todo, f) = Times(s.todo, f) + Eq(a, f)
        /\ Times(s.todo, f) \in Nat
    <3>1. /\ r.todo \in Seq(Fi!Entries) /\ r.todo # <<>>
          /\ s.todo = Tail(r.todo) /\ s.todo \in Seq(Fi!Entries)
      BY <1>1, <1>2, <1>3, <1>6
    <3> HIDE DEF r, s
    <3>2. Times(r.todo, f) = Times(Tail(r.todo), f) + Eq(Head(r.todo), f)
      BY ONLY <3>1, TodoTail
    <3>3. Times(s.todo, f) \in Nat
      BY ONLY <3>1, TodoFinite
    <3> QED BY ONLY <3>1, <3>2, <3>3 DEF a
  <2>2. InNew(s, f) = InNew(r, f) /\ InNew(r, f) \in Nat
    BY <1>2, <1>6, PointersCounted DEF InNew
  <2>3. InOfile(s, f) = InOfile(r, f) /\ InOfile(r, f) \in Nat
    BY <1>6, <1>7, FdSame
  <2>4. Eq(a, f) \in Nat
    BY DEF Eq
  <2> HIDE DEF r, s, a
  <2> QED BY <2>1, <2>2, <2>3, <2>4 DEF PointerCount
<1>14. ASSUME NEW y \in Objects \ {Fi!None}
       PROVE  Cardinality(Opens(fiFtable', y)) + UserOwns(s, y) = Cardinality(Opens(fiFtable, y)) + UserOwns(r, y)
  <2>1. /\ Cardinality(Opens(fiFtable, y)) \in Nat /\ Cardinality(Opens(fiFtable', y)) \in Nat
        /\ Cardinality(Opens(fiFtable', y)) + EntryOwns(fiFtable[a], y)
             = Cardinality(Opens(fiFtable, y)) + EntryOwns(fiFtable'[a], y)
    <3>1. a \in Fi!Entries /\ \A f \in Fi!Entries \ {a} : fiFtable'[f] = fiFtable[f]
      BY <1>3, <1>5
    <3> HIDE DEF a
    <3> QED BY ONLY <3>1, OpensMoved, SMTT(60)
  <2>2. IsOpening(s, y) = IsOpening(r, y)
    BY <1>6 DEF IsOpening
  <2>3. /\ EntryOwns(fiFtable[a], y) = Eq(fiFtable[a].obj, y)
        /\ EntryOwns(fiFtable'[a], y) = IF last THEN 0 ELSE Eq(fiFtable[a].obj, y)
    BY <1>4, <1>5 DEF EntryOwns, Eq
  <2>4. Eq(s.rel, y) = (IF last THEN Eq(fiFtable[a].obj, y) ELSE 0) /\ Eq(r.rel, y) = 0
    BY <1>1, <1>6 DEF Eq
  <2>5. Eq(fiFtable[a].obj, y) \in Nat
    BY DEF Eq
  <2> HIDE DEF r, s, a, last
  <2> QED BY <2>1, <2>2, <2>3, <2>4, <2>5 DEF UserOwns
<1>15. OwnersRight(fiFtable', fiProc', fiInode', fiPipe')
  BY <1>1, <1>6, <1>14, HandedOver
<1>16. ASSUME NEW f \in Fi!Entries
       PROVE  /\ Touched(p, f)
              /\ fiFtable'[f].ref + PointerCount(fiProc[p], f) = fiFtable[f].ref + PointerCount(fiProc'[p], f)
              /\ fiFtable'[f].ref = 0 => fiFtable'[f].obj = Fi!None
  <2>1. fiFtable[f].ref \in Nat /\ (fiFtable[f].ref = 0 => fiFtable[f].obj = Fi!None)
    BY RefIs
  <2>2. PointerCount(r, a) >= 1
    BY <1>1, TodoPoints
  <2>3. CASE f = a
    <3>1. Touched(p, f)
      BY <1>5, <2>2, <2>3 DEF Touched
    <3>2. fiFtable'[f].ref = 0 => fiFtable'[f].obj = Fi!None
      BY <1>4, <1>5, <2>3
    <3> HIDE DEF a, r, s
    <3> QED BY <1>4, <1>5, <1>13, <2>3, <3>1, <3>2 DEF Eq, r, s
  <2>4. CASE f # a
    BY <1>5, <1>13, <2>1, <2>4 DEF Touched, Eq
  <2> QED BY <2>3, <2>4
<1> QED BY <1>6, <1>8, <1>9, <1>11, <1>12, <1>15, <1>16, StepKept

LEMMA OwnersShift ==
  ASSUME NEW p \in Users, \A q \in Users \ {p} : fiProc'[q] = fiProc[q], fiFtable' = fiFtable, NEW o
  PROVE  /\ OwnersOf(fiFtable, fiProc, o) \in Nat /\ OwnersOf(fiFtable', fiProc', o) \in Nat
         /\ OwnersOf(fiFtable', fiProc', o) + UserOwns(fiProc[p], o)
              = OwnersOf(fiFtable, fiProc, o) + UserOwns(fiProc'[p], o)
<1>1. /\ UsersOwn(fiProc, o) \in Nat /\ UsersOwn(fiProc', o) \in Nat
      /\ UsersOwn(fiProc', o) + UserOwns(fiProc[p], o) = UsersOwn(fiProc, o) + UserOwns(fiProc'[p], o)
  BY UsersOwnMoved
<1>2. Cardinality(Opens(fiFtable, o)) \in Nat
  BY OwnersCounted
<1>3. UserOwns(fiProc[p], o) \in Nat /\ UserOwns(fiProc'[p], o) \in Nat
  BY DEF UserOwns, Eq
<1>4. Opens(fiFtable', o) = Opens(fiFtable, o)
  OBVIOUS
<1> QED BY ONLY <1>1, <1>2, <1>3, <1>4 DEF OwnersOf

\* What can be open, by what it is.
LEMMA ObjectIs ==
  ASSUME NEW o \in Objects, o # Fi!None
  PROVE  \/ \E i \in 1..NINODE : o = Fi!Inode(i) /\ o[1] = "inode" /\ o[2] = i
         \/ \E k \in 1..NPIPE, e \in {"read", "write"} :
              o = Fi!End(k, e) /\ o[1] = "pipe" /\ o[2] = k /\ o[3] = e
<1>1. \/ \E i \in 1..NINODE : o = Fi!Inode(i)
      \/ \E k \in 1..NPIPE, e \in {"read", "write"} : o = Fi!End(k, e)
  BY DEF Objects
<1>2. \A i : Fi!Inode(i)[1] = "inode" /\ Fi!Inode(i)[2] = i
  BY DEF Fi!Inode
<1>3. \A k, e : Fi!End(k, e)[1] = "pipe" /\ Fi!End(k, e)[2] = k /\ Fi!End(k, e)[3] = e
  BY DEF Fi!End
<1> QED BY ONLY <1>1, <1>2, <1>3

LEMMA ReleaseKeeps ==
  ASSUME FInv, NEW p \in Users, Fi!Release(p)
  PROVE  FInv'
<1> DEFINE r == fiProc[p]
           s == fiProc'[p]
           o == r.rel
           x == [r EXCEPT !.rel = Fi!None]
<1>1. /\ o # Fi!None /\ fiFtable' = fiFtable
      /\ fiInode' = IF o[1] = "inode" THEN [fiInode EXCEPT ![o[2]] = @ - 1] ELSE fiInode
      /\ fiPipe' = IF o[1] = "pipe" THEN [fiPipe EXCEPT ![o[2]] = @ \ {o[3]}] ELSE fiPipe
      /\ fiProc' = [fiProc EXCEPT ![p].rel = Fi!None]
  BY DEF Fi!Release
<1>2. /\ r \in Opener /\ fiProc \in [Users -> Opener] /\ o \in Objects
      /\ GotShape(r) /\ FdsOpen(r, fiFtable) /\ FilesTyped
      /\ fiInode \in [1..NINODE -> Nat] /\ fiPipe \in [1..NPIPE -> SUBSET {"read", "write"}]
  BY SlotTyped DEF FInv, FilesTyped
<1>3. r.pc \in {"user", "exit", "noroom"}
  BY <1>1, <1>2 DEF GotShape
<1>4. /\ s.pc = r.pc /\ s.ofile = r.ofile /\ s.new = r.new /\ s.todo = r.todo
      /\ s.rel = Fi!None /\ s \in Opener /\ fiProc' \in [Users -> Opener]
      /\ \A q \in Users \ {p} : fiProc'[q] = fiProc[q]
  <2>1. /\ x \in Opener /\ x.pc = r.pc /\ x.ofile = r.ofile /\ x.new = r.new /\ x.todo = r.todo
        /\ x.rel = Fi!None
    <3> HIDE DEF r
    <3> QED BY <1>2, ObjectsApart DEF Opener
  <2>2. fiProc' = [fiProc EXCEPT ![p] = x]
    BY <1>1
  <2> HIDE DEF x
  <2> QED BY <1>2, <2>1, <2>2
<1>5. Fi!Got(s) = {} /\ Fi!Early(r) = {} /\ Fi!Early(s) = {}
  BY <1>3, <1>4 DEF Fi!Got, Fi!Early
<1>6. GotShape(s)
  <2> HIDE DEF r, s
  <2> QED BY <1>2, <1>3, <1>4 DEF GotShape
<1>7. FdsOpen(s, fiFtable')
  BY <1>1, <1>2, <1>4 DEF FdsOpen
<1>8. BlankOf(s, fiFtable')
  BY <1>5 DEF BlankOf
<1>9. ASSUME NEW f \in Fi!Entries PROVE PointerCount(s, f) = PointerCount(r, f)
  <2>1. InOfile(s, f) = InOfile(r, f)
    BY <1>4, <1>5, FdSame
  <2>2. InNew(s, f) = InNew(r, f)
    BY <1>4 DEF InNew
  <2> QED BY <1>4, <2>1, <2>2 DEF PointerCount
<1>10. ASSUME NEW f \in Fi!Entries
       PROVE  /\ Touched(p, f)
              /\ fiFtable'[f].ref + PointerCount(fiProc[p], f) = fiFtable[f].ref + PointerCount(fiProc'[p], f)
              /\ fiFtable'[f].ref = 0 => fiFtable'[f].obj = Fi!None
  BY <1>1, <1>9, RefIs DEF Touched
<1>11. ASSUME NEW y \in Objects \ {Fi!None}
       PROVE  /\ OwnersOf(fiFtable, fiProc, y) \in Nat /\ OwnersOf(fiFtable', fiProc', y) \in Nat
              /\ OwnersOf(fiFtable, fiProc, y) = OwnersOf(fiFtable', fiProc', y) + Eq(o, y)
  <2>1. /\ OwnersOf(fiFtable, fiProc, y) \in Nat /\ OwnersOf(fiFtable', fiProc', y) \in Nat
        /\ OwnersOf(fiFtable', fiProc', y) + UserOwns(r, y) = OwnersOf(fiFtable, fiProc, y) + UserOwns(s, y)
    BY <1>1, <1>4, OwnersShift
  <2>2. IsOpening(s, y) = IsOpening(r, y)
    BY <1>4 DEF IsOpening
  <2>3. Eq(s.rel, y) = 0 /\ Eq(o, y) \in Nat
    BY <1>4 DEF Eq
  <2> HIDE DEF r, s
  <2> QED BY <2>1, <2>2, <2>3 DEF UserOwns
<1>12. /\ \A i \in 1..NINODE : Fi!Inode(i) \in Objects \ {Fi!None}
       /\ \A k \in 1..NPIPE, e \in {"read", "write"} : Fi!End(k, e) \in Objects \ {Fi!None}
  BY SMTT(60), ObjectsApart DEF Objects
<1>13. OwnersRight(fiFtable, fiProc, fiInode, fiPipe)
  BY OwnersNow
<1> HIDE DEF o
<1>14. OwnersRight(fiFtable', fiProc', fiInode', fiPipe') /\ FilesTyped'
  <2>1. CASE \E i \in 1..NINODE : o = Fi!Inode(i) /\ o[1] = "inode" /\ o[2] = i
    <3>1. PICK i \in 1..NINODE : o = Fi!Inode(i) /\ o[1] = "inode" /\ o[2] = i
      BY <2>1
    <3>2. fiInode' = [fiInode EXCEPT ![i] = @ - 1] /\ fiPipe' = fiPipe
      BY <1>1, <3>1
    <3>3. fiInode[i] = OwnersOf(fiFtable', fiProc', Fi!Inode(i)) + 1
          /\ OwnersOf(fiFtable', fiProc', Fi!Inode(i)) \in Nat
      BY <1>11, <1>12, <1>13, <3>1 DEF OwnersRight, Eq
    <3>4. ASSUME NEW j \in 1..NINODE PROVE fiInode'[j] = OwnersOf(fiFtable', fiProc', Fi!Inode(j))
      <4>1. CASE j = i
        BY <1>2, <3>2, <3>3, <4>1
      <4>2. CASE j # i
        <5>1. Eq(o, Fi!Inode(j)) = 0
          BY <3>1, <4>2, ObjectsApart DEF Eq
        <5>2. fiInode'[j] = fiInode[j]
          BY <1>2, <3>2, <4>2
        <5> QED BY <1>11, <1>12, <1>13, <5>1, <5>2 DEF OwnersRight
      <4> QED BY <4>1, <4>2
    <3>5. ASSUME NEW k \in 1..NPIPE, NEW e \in {"read", "write"}
          PROVE  OwnersOf(fiFtable', fiProc', Fi!End(k, e)) = IF e \in fiPipe'[k] THEN 1 ELSE 0
      <4>1. Eq(o, Fi!End(k, e)) = 0
        BY <3>1, ObjectsApart DEF Eq
      <4>2. OwnersOf(fiFtable', fiProc', Fi!End(k, e)) = OwnersOf(fiFtable, fiProc, Fi!End(k, e))
        BY <1>11, <1>12, <4>1
      <4> QED BY <1>13, <3>2, <4>2 DEF OwnersRight
    <3>6. fiInode' \in [1..NINODE -> Nat]
      BY <1>2, <3>2, <3>3
    <3> QED BY <1>1, <1>2, <1>4, <3>2, <3>4, <3>5, <3>6 DEF OwnersRight, FilesTyped
  <2>2. CASE \E k \in 1..NPIPE, e \in {"read", "write"} :
               o = Fi!End(k, e) /\ o[1] = "pipe" /\ o[2] = k /\ o[3] = e
    <3>1. PICK k \in 1..NPIPE, e \in {"read", "write"} :
                 o = Fi!End(k, e) /\ o[1] = "pipe" /\ o[2] = k /\ o[3] = e
      BY <2>2
    <3>2. fiPipe' = [fiPipe EXCEPT ![k] = @ \ {e}] /\ fiInode' = fiInode
      BY <1>1, <3>1
    <3>3. fiPipe' \in [1..NPIPE -> SUBSET {"read", "write"}]
      BY <1>2, <3>2
    <3>4. ASSUME NEW i \in 1..NINODE PROVE fiInode'[i] = OwnersOf(fiFtable', fiProc', Fi!Inode(i))
      <4>1. Eq(o, Fi!Inode(i)) = 0
        BY <3>1, ObjectsApart DEF Eq
      <4> QED BY <1>11, <1>12, <1>13, <3>2, <4>1 DEF OwnersRight
    <3>5. ASSUME NEW l \in 1..NPIPE, NEW d \in {"read", "write"}
          PROVE  OwnersOf(fiFtable', fiProc', Fi!End(l, d)) = IF d \in fiPipe'[l] THEN 1 ELSE 0
      <4>1. /\ OwnersOf(fiFtable', fiProc', Fi!End(l, d)) \in Nat
            /\ (IF d \in fiPipe[l] THEN 1 ELSE 0)
                 = OwnersOf(fiFtable', fiProc', Fi!End(l, d)) + Eq(o, Fi!End(l, d))
        BY <1>11, <1>12, <1>13 DEF OwnersRight
      <4>2. CASE l = k /\ d = e
        <5>1. Eq(o, Fi!End(l, d)) = 1
          BY <3>1, <4>2 DEF Eq
        <5>2. d \notin fiPipe'[l]
          BY <1>2, <3>2, <4>2
        <5> QED BY <4>1, <5>1, <5>2
      <4>3. CASE ~(l = k /\ d = e)
        <5>1. Eq(o, Fi!End(l, d)) = 0
          BY <3>1, <4>3, ObjectsApart DEF Eq
        <5>2. d \in fiPipe'[l] <=> d \in fiPipe[l]
          BY <1>2, <3>2, <4>3
        <5> QED BY <4>1, <5>1, <5>2
      <4> QED BY <4>2, <4>3
    <3> QED BY <1>1, <1>2, <1>4, <3>2, <3>3, <3>4, <3>5 DEF OwnersRight, FilesTyped
  <2> QED BY <1>1, <1>2, <2>1, <2>2, ObjectIs
<1> QED BY <1>4, <1>6, <1>7, <1>8, <1>10, <1>14, StepKept

LEMMA OpenKeeps ==
  ASSUME FInv, NEW p \in Users, NEW i \in 1..NINODE, Fi!Open(p, i)
  PROVE  FInv'
<1> DEFINE r == fiProc[p]
           s == fiProc'[p]
           x == [r EXCEPT !.pc = "open", !.new = <<i>>]
<1>1. /\ r.pc = "user" /\ r.todo = <<>> /\ r.rel = Fi!None
      /\ fiFtable' = fiFtable /\ fiPipe' = fiPipe
      /\ fiInode' = [fiInode EXCEPT ![i] = @ + 1] /\ fiProc' = [fiProc EXCEPT ![p] = x]
  BY DEF Fi!Open, Fi!At
<1>2. /\ r \in Opener /\ fiProc \in [Users -> Opener]
      /\ GotShape(r) /\ FdsOpen(r, fiFtable) /\ FilesTyped
      /\ fiInode \in [1..NINODE -> Nat] /\ fiPipe \in [1..NPIPE -> SUBSET {"read", "write"}]
  BY SlotTyped DEF FInv, FilesTyped
<1>3. /\ s.pc = "open" /\ s.ofile = r.ofile /\ s.new = <<i>> /\ s.todo = <<>>
      /\ s.rel = Fi!None /\ s \in Opener /\ fiProc' \in [Users -> Opener]
      /\ \A q \in Users \ {p} : fiProc'[q] = fiProc[q]
  <2>1. <<i>> \in Seq(Nat)
    BY DescriptorsAssumption
  <2>2. /\ x \in Opener /\ x.pc = "open" /\ x.ofile = r.ofile /\ x.new = <<i>> /\ x.todo = r.todo
        /\ x.rel = r.rel
    <3> HIDE DEF r
    <3> QED BY <1>2, <2>1 DEF Opener
  <2> HIDE DEF x
  <2> QED BY <1>1, <1>2, <2>2
<1>4. Fi!Got(s) = {} /\ Fi!Early(r) = {} /\ Fi!Early(s) = {}
  BY <1>1, <1>3 DEF Fi!Got, Fi!Early
<1>5. FilesTyped'
  BY <1>1, <1>2, <1>3 DEF FilesTyped
<1>6. GotShape(s)
  <2> HIDE DEF s
  <2> QED BY <1>3 DEF GotShape, Inum
<1>7. FdsOpen(s, fiFtable') /\ BlankOf(s, fiFtable')
  BY <1>1, <1>2, <1>3, <1>4 DEF FdsOpen, BlankOf
<1>8. ASSUME NEW f \in Fi!Entries PROVE PointerCount(s, f) = PointerCount(r, f)
  <2>1. InOfile(s, f) = InOfile(r, f)
    BY <1>3, <1>4, FdSame
  <2>2. InNew(s, f) = 0 /\ InNew(r, f) = 0
    BY <1>1, <1>3 DEF InNew
  <2> QED BY <1>1, <1>3, <2>1, <2>2 DEF PointerCount
<1>9. ASSUME NEW f \in Fi!Entries
      PROVE  /\ Touched(p, f)
             /\ fiFtable'[f].ref + PointerCount(fiProc[p], f) = fiFtable[f].ref + PointerCount(fiProc'[p], f)
             /\ fiFtable'[f].ref = 0 => fiFtable'[f].obj = Fi!None
  BY <1>1, <1>8, RefIs DEF Touched
<1>10. ASSUME NEW y \in Objects \ {Fi!None}
       PROVE  /\ OwnersOf(fiFtable, fiProc, y) \in Nat /\ OwnersOf(fiFtable', fiProc', y) \in Nat
              /\ OwnersOf(fiFtable', fiProc', y) = OwnersOf(fiFtable, fiProc, y) + Eq(Fi!Inode(i), y)
  <2>1. /\ OwnersOf(fiFtable, fiProc, y) \in Nat /\ OwnersOf(fiFtable', fiProc', y) \in Nat
        /\ OwnersOf(fiFtable', fiProc', y) + UserOwns(r, y) = OwnersOf(fiFtable, fiProc, y) + UserOwns(s, y)
    BY <1>1, <1>3, OwnersShift
  <2>2. UserOwns(r, y) = 0
    BY <1>1 DEF UserOwns, Eq, IsOpening
  <2>3. UserOwns(s, y) = Eq(Fi!Inode(i), y) /\ Eq(Fi!Inode(i), y) \in Nat
    BY <1>3 DEF UserOwns, Eq, IsOpening
  <2> HIDE DEF r, s
  <2> QED BY <2>1, <2>2, <2>3
<1>11. /\ \A j \in 1..NINODE : Fi!Inode(j) \in Objects \ {Fi!None}
       /\ \A k \in 1..NPIPE, e \in {"read", "write"} : Fi!End(k, e) \in Objects \ {Fi!None}
  BY SMTT(60), ObjectsApart DEF Objects
<1>12. OwnersRight(fiFtable, fiProc, fiInode, fiPipe)
  BY OwnersNow
<1>13. OwnersRight(fiFtable', fiProc', fiInode', fiPipe')
  <2>1. ASSUME NEW j \in 1..NINODE PROVE fiInode'[j] = OwnersOf(fiFtable', fiProc', Fi!Inode(j))
    <3>1. Eq(Fi!Inode(i), Fi!Inode(j)) = IF j = i THEN 1 ELSE 0
      BY ObjectsApart DEF Eq
    <3>2. fiInode'[j] = fiInode[j] + (IF j = i THEN 1 ELSE 0)
      BY <1>1, <1>2
    <3> QED BY <1>10, <1>11, <1>12, <3>1, <3>2 DEF OwnersRight
  <2>2. ASSUME NEW k \in 1..NPIPE, NEW e \in {"read", "write"}
        PROVE  OwnersOf(fiFtable', fiProc', Fi!End(k, e)) = IF e \in fiPipe'[k] THEN 1 ELSE 0
    <3>1. Eq(Fi!Inode(i), Fi!End(k, e)) = 0
      BY ObjectsApart DEF Eq
    <3>2. OwnersOf(fiFtable', fiProc', Fi!End(k, e)) = OwnersOf(fiFtable, fiProc, Fi!End(k, e))
      BY <1>10, <1>11, <3>1
    <3> QED BY <1>1, <1>12, <3>2 DEF OwnersRight
  <2> QED BY <2>1, <2>2 DEF OwnersRight
<1> QED BY <1>3, <1>5, <1>6, <1>7, <1>9, <1>13, StepKept

\* The first free descriptor is one, and the first free entry is one.
LEMMA FirstFree ==
  ASSUME NEW p \in Users
  PROVE  /\ Fi!FreeFds(p) # {} => /\ Fi!Min(Fi!FreeFds(p)) \in Fi!Fds /\ Fi!Min(Fi!FreeFds(p)) \in Nat
                                  /\ fiProc[p].ofile[Fi!Min(Fi!FreeFds(p))] = 0
         /\ Fi!FreeEntries # {} => /\ Fi!Min(Fi!FreeEntries) \in Fi!Entries /\ Fi!Min(Fi!FreeEntries) \in Nat
                                   /\ fiFtable[Fi!Min(Fi!FreeEntries)].ref = 0
<1>1. Fi!FreeFds(p) \in SUBSET Nat /\ Fi!FreeEntries \in SUBSET Nat
  BY FdsFinite DEF Fi!FreeFds, Fi!FreeEntries
<1>2. Fi!FreeFds(p) # {} => Fi!Min(Fi!FreeFds(p)) \in Fi!FreeFds(p)
  BY <1>1, MinIs
<1>3. Fi!FreeEntries # {} => Fi!Min(Fi!FreeEntries) \in Fi!FreeEntries
  BY <1>1, MinIs
<1>4. /\ \A d \in Fi!FreeFds(p) : d \in Fi!Fds /\ fiProc[p].ofile[d] = 0
      /\ \A f \in Fi!FreeEntries : f \in Fi!Entries /\ fiFtable[f].ref = 0
  BY DEF Fi!FreeFds, Fi!FreeEntries
<1> QED BY ONLY <1>1, <1>2, <1>3, <1>4

LEMMA AppendOne ==
  ASSUME NEW a \in Nat, NEW b \in Nat
  PROVE  Append(<<a>>, b) = <<a, b>>
<1>1. /\ <<a>> \in Seq(Nat) /\ Len(<<a>>) = 1 /\ <<a>>[1] = a
      /\ Append(<<a>>, b) \in Seq(Nat) /\ Len(Append(<<a>>, b)) = 2
      /\ Append(<<a>>, b)[1] = a /\ Append(<<a>>, b)[2] = b
  BY AppendProperties
<1>2. <<a, b>> \in Seq(Nat) /\ Len(<<a, b>>) = 2 /\ <<a, b>>[1] = a /\ <<a, b>>[2] = b
  OBVIOUS
<1>3. \A i \in 1..2 : Append(<<a>>, b)[i] = <<a, b>>[i]
  BY <1>1, <1>2
<1> QED BY <1>1, <1>2, <1>3, SeqEqual

\* filealloc() adds an entry that is open on nothing to what a process has got.
LEMMA GotKeeps ==
  ASSUME FInv, NEW p \in Users, fiProc[p].todo = <<>>, fiProc[p].rel = Fi!None,
         NEW place \in {"opened", "pipe1", "pipe2"},
         fiProc[p].pc = IF place = "opened" THEN "open" ELSE IF place = "pipe1" THEN "user" ELSE "pipe1",
         Fi!FreeEntries # {}, NEW f, f = Fi!Min(Fi!FreeEntries),
         fiFtable' = [fiFtable EXCEPT ![f].ref = 1],
         fiProc' = [fiProc EXCEPT ![p] = [@ EXCEPT !.pc = place, !.new = Append(fiProc[p].new, f)]],
         fiInode' = fiInode, fiPipe' = fiPipe
  PROVE  FInv'
<1> DEFINE r == fiProc[p]
           s == fiProc'[p]
           new == Append(r.new, f)
           x == [r EXCEPT !.pc = place, !.new = new]
<1>1. /\ r \in Opener /\ r.ofile \in [Fi!Fds -> 0..NFILE] /\ fiProc \in [Users -> Opener]
      /\ GotShape(r) /\ FdsOpen(r, fiFtable) /\ BlankOf(r, fiFtable) /\ FilesTyped /\ r.new \in Seq(Nat)
      /\ fiFtable \in [Fi!Entries -> [ref : Nat, obj : Objects]]
  BY SlotTyped DEF FInv, FilesTyped
<1>2. f \in Fi!Entries /\ f \in Nat /\ fiFtable[f].ref = 0 /\ fiFtable[f].obj = Fi!None
  BY FirstFree, RefIs
<1>3. /\ fiFtable' \in [Fi!Entries -> [ref : Nat, obj : Objects]]
      /\ fiFtable'[f].ref = 1 /\ fiFtable'[f].obj = Fi!None
      /\ \A g \in Fi!Entries \ {f} : fiFtable'[g] = fiFtable[g]
  BY ONLY <1>1, <1>2, fiFtable' = [fiFtable EXCEPT ![f].ref = 1]
<1>4. /\ place = "opened" => new = <<new[1], new[2]>> /\ new[1] = r.new[1] /\ new[2] = f /\ Inum(new[1])
      /\ place = "pipe1" => new = <<new[1]>> /\ new[1] = f
      /\ place = "pipe2" => new = <<new[1], new[2]>> /\ new[1] = r.new[1] /\ new[2] = f
                            /\ new[1] \in Fi!Entries
  <2>1. CASE place = "opened"
    <3>1. r.new = <<r.new[1]>> /\ Inum(r.new[1])
      BY <1>1, <2>1 DEF GotShape
    <3>2. PICK i \in Nat : r.new = <<i>> /\ i = r.new[1]
      BY <3>1, FdsFinite, DescriptorsAssumption DEF Inum
    <3>3. new = <<i, f>>
      <4> HIDE DEF r
      <4> QED BY ONLY <1>2, <3>2, AppendOne
    <3> QED BY <2>1, <3>1, <3>2, <3>3
  <2>2. CASE place = "pipe1"
    <3>1. r.new = <<>>
      BY <1>1, <2>2 DEF GotShape
    <3>2. new = <<f>>
      BY <3>1
    <3> QED BY <2>2, <3>2
  <2>3. CASE place = "pipe2"
    <3>1. r.new = <<r.new[1]>> /\ r.new[1] \in Fi!Entries
      BY <1>1, <2>3 DEF GotShape
    <3>2. PICK i \in Nat : r.new = <<i>> /\ i = r.new[1]
      BY <3>1, FdsFinite, DescriptorsAssumption DEF Inum
    <3>3. new = <<i, f>>
      <4> HIDE DEF r
      <4> QED BY ONLY <1>2, <3>2, AppendOne
    <3> QED BY <2>3, <3>1, <3>2, <3>3
  <2> QED BY <2>1, <2>2, <2>3
<1>5. /\ s.pc = place /\ s.ofile = r.ofile /\ s.new = new /\ s.todo = <<>>
      /\ s.rel = Fi!None /\ s \in Opener /\ fiProc' \in [Users -> Opener]
      /\ \A q \in Users \ {p} : fiProc'[q] = fiProc[q]
  <2>1. new \in Seq(Nat)
    BY <1>1, <1>2
  <2>2. /\ x \in Opener /\ x.pc = place /\ x.ofile = r.ofile /\ x.new = new /\ x.todo = r.todo
        /\ x.rel = r.rel
    <3> HIDE DEF r, new
    <3> QED BY <1>1, <2>1 DEF Opener
  <2>3. fiProc' = [fiProc EXCEPT ![p] = x]
    OBVIOUS
  <2> HIDE DEF x, new
  <2> QED BY <1>1, <2>2, <2>3
<1> HIDE DEF new
<1>6. Fi!Early(r) = {} /\ Fi!Early(s) = {}
  BY <1>5 DEF Fi!Early
<1>7. FilesTyped'
  BY <1>1, <1>3, <1>5 DEF FilesTyped
<1>8. GotShape(s)
  <2> HIDE DEF s, r
  <2> QED BY <1>2, <1>4, <1>5 DEF GotShape
<1>9. FdsOpen(s, fiFtable')
  <2> SUFFICES ASSUME NEW d \in Fi!Fds, r.ofile[d] # 0
               PROVE  fiFtable'[r.ofile[d]].obj # Fi!None
    BY <1>5 DEF FdsOpen
  <2>1. r.ofile[d] \in Fi!Entries /\ fiFtable[r.ofile[d]].obj # Fi!None
    BY <1>1, OfilePoints DEF FdsOpen
  <2> QED BY <1>2, <1>3, <2>1
<1>10. BlankOf(s, fiFtable')
  <2>1. CASE place = "pipe2"
    <3>1. 1 \in Fi!Got(r) /\ Fi!Got(s) = {1, 2}
      BY <1>5, <2>1 DEF Fi!Got
    <3>2. fiFtable[r.new[1]].ref = 1 /\ fiFtable[r.new[1]].obj = Fi!None
      BY <1>1, <2>1, <3>1 DEF BlankOf
    <3>3. s.new[1] \in Fi!Entries \ {f} /\ s.new[1] = r.new[1] /\ s.new[2] = f
      BY <1>2, <1>4, <1>5, <2>1, <3>2
    <3> QED BY <1>3, <1>5, <2>1, <3>1, <3>2, <3>3 DEF BlankOf
  <2>2. CASE place # "pipe2"
    <3>1. \A k \in Fi!Got(s) : s.new[k] = f
      BY <1>4, <1>5, <2>2 DEF Fi!Got
    <3> QED BY <1>3, <1>5, <3>1 DEF BlankOf
  <2> QED BY <2>1, <2>2
<1>11. ASSUME NEW g \in Fi!Entries
       PROVE  PointerCount(s, g) = PointerCount(r, g) + Eq(f, g) /\ PointerCount(r, g) \in Nat
  <2>1. InOfile(s, g) = InOfile(r, g) /\ InOfile(r, g) \in Nat
    <3>1. \A d \in Fi!Fds : (d \notin Fi!Early(r) /\ r.ofile[d] = g) <=> (d \notin Fi!Early(s) /\ s.ofile[d] = g)
      BY <1>5, <1>6
    <3> HIDE DEF r, s
    <3> QED BY ONLY <3>1, FdSame
  <2>2. InNew(s, g) = InNew(r, g) + Eq(f, g) /\ InNew(r, g) \in Nat /\ Eq(f, g) \in Nat
    BY <1>4, <1>5 DEF InNew, Eq
  <2>3. s.todo = r.todo /\ Times(r.todo, g) \in Nat
    BY <1>1, <1>5, PointersCounted
  <2> HIDE DEF r, s
  <2> QED BY <2>1, <2>2, <2>3 DEF PointerCount
<1>12. ASSUME NEW y \in Objects \ {Fi!None}
       PROVE  Cardinality(Opens(fiFtable', y)) + UserOwns(s, y) = Cardinality(Opens(fiFtable, y)) + UserOwns(r, y)
  <2>1. Opens(fiFtable', y) = Opens(fiFtable, y)
    BY <1>2, <1>3 DEF Opens
  <2>2. IsOpening(s, y) <=> IsOpening(r, y)
    BY <1>4, <1>5 DEF IsOpening
  <2>3. s.rel = r.rel
    BY <1>5
  <2> HIDE DEF r, s
  <2> QED BY <2>1, <2>2, <2>3 DEF UserOwns
<1>13. OwnersRight(fiFtable', fiProc', fiInode', fiPipe')
  BY <1>5, <1>12, HandedOver
<1>14. ASSUME NEW g \in Fi!Entries
       PROVE  /\ Touched(p, g)
              /\ fiFtable'[g].ref + PointerCount(fiProc[p], g) = fiFtable[g].ref + PointerCount(fiProc'[p], g)
              /\ fiFtable'[g].ref = 0 => fiFtable'[g].obj = Fi!None
  BY <1>2, <1>3, <1>11, RefIs DEF Touched, Eq
<1> QED BY <1>5, <1>7, <1>8, <1>9, <1>10, <1>13, <1>14, StepKept
-----------------------------------------------------------------------------
\* What open() has of an inode goes back when there is no entry or no descriptor for it.
LEMMA GivesUpKeeps ==
  ASSUME FInv, NEW p \in Users, fiProc[p].pc \in {"open", "noroom"}, fiProc[p].todo = <<>>,
         fiProc[p].rel = Fi!None, fiFtable' = fiFtable, fiInode' = fiInode, fiPipe' = fiPipe,
         fiProc' = [fiProc EXCEPT ![p] = [@ EXCEPT !.pc = "user", !.new = <<>>,
                                                   !.rel = Fi!Inode(Head(fiProc[p].new))]]
  PROVE  FInv'
<1> DEFINE r == fiProc[p]
           s == fiProc'[p]
           o == Fi!Inode(Head(r.new))
           x == [r EXCEPT !.pc = "user", !.new = <<>>, !.rel = o]
<1>1. /\ r \in Opener /\ fiProc \in [Users -> Opener]
      /\ GotShape(r) /\ FdsOpen(r, fiFtable) /\ FilesTyped
  BY SlotTyped DEF FInv, FilesTyped
<1>2. o = Fi!Inode(r.new[1]) /\ o \in Objects
  <2>1. r.new = <<r.new[1]>> /\ Inum(r.new[1])
    BY <1>1 DEF GotShape
  <2>2. Head(r.new) = r.new[1]
    BY <2>1
  <2> QED BY <2>1, <2>2 DEF Objects, Inum
<1> HIDE DEF o
<1>3. /\ s.pc = "user" /\ s.ofile = r.ofile /\ s.new = <<>> /\ s.todo = <<>>
      /\ s.rel = o /\ s \in Opener /\ fiProc' \in [Users -> Opener]
      /\ \A q \in Users \ {p} : fiProc'[q] = fiProc[q]
  <2>1. <<>> \in Seq(Nat)
    OBVIOUS
  <2>2. /\ x \in Opener /\ x.pc = "user" /\ x.ofile = r.ofile /\ x.new = <<>> /\ x.todo = r.todo
        /\ x.rel = o
    <3> HIDE DEF r
    <3> QED BY <1>1, <1>2, <2>1 DEF Opener
  <2>3. fiProc' = [fiProc EXCEPT ![p] = x]
    BY DEF o
  <2> HIDE DEF x
  <2> QED BY <1>1, <2>2, <2>3
<1>4. Fi!Got(s) = {} /\ Fi!Early(r) = {} /\ Fi!Early(s) = {}
  BY <1>3 DEF Fi!Got, Fi!Early
<1>5. FilesTyped'
  BY <1>1, <1>3 DEF FilesTyped
<1>6. GotShape(s)
  BY <1>3 DEF GotShape
<1>7. FdsOpen(s, fiFtable') /\ BlankOf(s, fiFtable')
  BY <1>1, <1>3, <1>4 DEF FdsOpen, BlankOf
<1>8. ASSUME NEW f \in Fi!Entries PROVE PointerCount(s, f) = PointerCount(r, f)
  <2>1. InOfile(s, f) = InOfile(r, f)
    <3>1. \A y \in Fi!Fds : (y \notin Fi!Early(r) /\ r.ofile[y] = f) <=> (y \notin Fi!Early(s) /\ s.ofile[y] = f)
      BY <1>3, <1>4
    <3> HIDE DEF r, s
    <3> QED BY ONLY <3>1, FdSame
  <2>2. InNew(s, f) = 0 /\ InNew(r, f) = 0
    BY <1>3 DEF InNew
  <2> QED BY <1>3, <2>1, <2>2 DEF PointerCount
<1>9. ASSUME NEW y \in Objects \ {Fi!None}
      PROVE  Cardinality(Opens(fiFtable', y)) + UserOwns(s, y) = Cardinality(Opens(fiFtable, y)) + UserOwns(r, y)
  <2>1. UserOwns(s, y) = Eq(o, y) /\ UserOwns(r, y) = Eq(o, y)
    BY <1>2, <1>3 DEF UserOwns, Eq, IsOpening
  <2> QED BY <2>1
<1>10. OwnersRight(fiFtable', fiProc', fiInode', fiPipe')
  BY <1>3, <1>9, HandedOver
<1>11. ASSUME NEW f \in Fi!Entries
       PROVE  /\ Touched(p, f)
              /\ fiFtable'[f].ref + PointerCount(fiProc[p], f) = fiFtable[f].ref + PointerCount(fiProc'[p], f)
              /\ fiFtable'[f].ref = 0 => fiFtable'[f].obj = Fi!None
  BY <1>8, RefIs DEF Touched
<1> QED BY <1>3, <1>5, <1>6, <1>7, <1>10, <1>11, StepKept

\* An entry that open() has got is closed again when there is no descriptor for it.
LEMMA NoRoomKeeps ==
  ASSUME FInv, NEW p \in Users, fiProc[p].pc = "opened", fiProc[p].todo = <<>>,
         fiProc[p].rel = Fi!None, fiFtable' = fiFtable, fiInode' = fiInode, fiPipe' = fiPipe,
         fiProc' = [fiProc EXCEPT ![p] = [@ EXCEPT !.pc = "noroom", !.new = <<Head(fiProc[p].new)>>,
                                                   !.todo = <<fiProc[p].new[2]>>]]
  PROVE  FInv'
<1> DEFINE r == fiProc[p]
           s == fiProc'[p]
           i == Head(r.new)
           a == r.new[2]
           x == [r EXCEPT !.pc = "noroom", !.new = <<i>>, !.todo = <<a>>]
<1>1. /\ r \in Opener /\ fiProc \in [Users -> Opener]
      /\ GotShape(r) /\ FdsOpen(r, fiFtable) /\ FilesTyped
  BY SlotTyped DEF FInv, FilesTyped
<1>2. i = r.new[1] /\ Inum(i) /\ a \in Fi!Entries /\ i \in Nat
  <2>1. r.new = <<r.new[1], r.new[2]>> /\ Inum(r.new[1]) /\ a \in Fi!Entries
    BY <1>1 DEF GotShape
  <2>2. Head(r.new) = r.new[1]
    BY <2>1
  <2> QED BY <2>1, <2>2, DescriptorsAssumption DEF Inum
<1> HIDE DEF i, a
<1>3. /\ s.pc = "noroom" /\ s.ofile = r.ofile /\ s.new = <<i>> /\ s.todo = <<a>>
      /\ s.rel = Fi!None /\ s \in Opener /\ fiProc' \in [Users -> Opener]
      /\ \A q \in Users \ {p} : fiProc'[q] = fiProc[q]
  <2>1. <<i>> \in Seq(Nat) /\ <<a>> \in Seq(Fi!Entries)
    BY <1>2
  <2>2. /\ x \in Opener /\ x.pc = "noroom" /\ x.ofile = r.ofile /\ x.new = <<i>> /\ x.todo = <<a>>
        /\ x.rel = r.rel
    <3> HIDE DEF r
    <3> QED BY <1>1, <2>1 DEF Opener
  <2>3. fiProc' = [fiProc EXCEPT ![p] = x]
    BY DEF i, a
  <2> HIDE DEF x
  <2> QED BY <1>1, <2>2, <2>3
<1>4. Fi!Got(s) = {} /\ Fi!Early(r) = {} /\ Fi!Early(s) = {}
  BY <1>3 DEF Fi!Got, Fi!Early
<1>5. FilesTyped'
  BY <1>1, <1>3 DEF FilesTyped
<1>6. GotShape(s)
  <2> HIDE DEF s
  <2> QED BY <1>2, <1>3 DEF GotShape
<1>7. FdsOpen(s, fiFtable') /\ BlankOf(s, fiFtable')
  BY <1>1, <1>3, <1>4 DEF FdsOpen, BlankOf
<1>8. ASSUME NEW f \in Fi!Entries PROVE PointerCount(s, f) = PointerCount(r, f)
  <2>1. InOfile(s, f) = InOfile(r, f) /\ InOfile(r, f) \in Nat
    <3>1. \A y \in Fi!Fds : (y \notin Fi!Early(r) /\ r.ofile[y] = f) <=> (y \notin Fi!Early(s) /\ s.ofile[y] = f)
      BY <1>3, <1>4
    <3> HIDE DEF r, s
    <3> QED BY ONLY <3>1, FdSame
  <2>2. InNew(s, f) = 0 /\ InNew(r, f) = Eq(a, f) /\ Eq(a, f) \in Nat
    BY <1>3 DEF InNew, Eq, a
  <2>3. Times(s.todo, f) = Eq(a, f) /\ Times(r.todo, f) = 0
    BY <1>2, <1>3, TodoOne, TodoEmpty
  <2> HIDE DEF r, s
  <2> QED BY <2>1, <2>2, <2>3 DEF PointerCount
<1>9. \A o : UserOwns(s, o) = UserOwns(r, o)
  <2>1. s.new[1] = r.new[1]
    BY <1>2, <1>3
  <2> QED BY <1>3, <2>1 DEF UserOwns, IsOpening
<1>10. OwnersRight(fiFtable', fiProc', fiInode', fiPipe')
  BY <1>3, <1>9, HandedOver
<1>11. ASSUME NEW f \in Fi!Entries
       PROVE  /\ Touched(p, f)
              /\ fiFtable'[f].ref + PointerCount(fiProc[p], f) = fiFtable[f].ref + PointerCount(fiProc'[p], f)
              /\ fiFtable'[f].ref = 0 => fiFtable'[f].obj = Fi!None
  BY <1>8, RefIs DEF Touched
<1> QED BY <1>3, <1>5, <1>6, <1>7, <1>10, <1>11, StepKept

\* open() puts its entry behind a descriptor, and fills it in.
LEMMA FilledKeeps ==
  ASSUME FInv, NEW p \in Users, fiProc[p].pc = "opened", fiProc[p].todo = <<>>,
         fiProc[p].rel = Fi!None, fiInode' = fiInode, fiPipe' = fiPipe,
         NEW fd, fd \in Fi!Fds, fiProc[p].ofile[fd] = 0,
         fiFtable' = [fiFtable EXCEPT ![fiProc[p].new[2]].obj = Fi!Inode(Head(fiProc[p].new))],
         fiProc' = [fiProc EXCEPT ![p] = [@ EXCEPT !.pc = "user", !.new = <<>>,
                                                   !.ofile[fd] = fiProc[p].new[2]]]
  PROVE  FInv'
<1> DEFINE r == fiProc[p]
           s == fiProc'[p]
           o == Fi!Inode(Head(r.new))
           a == r.new[2]
           x == [r EXCEPT !.pc = "user", !.new = <<>>, !.ofile[fd] = a]
<1>1. /\ r \in Opener /\ fiProc \in [Users -> Opener] /\ r.ofile \in [Fi!Fds -> 0..NFILE]
      /\ GotShape(r) /\ FdsOpen(r, fiFtable) /\ BlankOf(r, fiFtable) /\ FilesTyped
      /\ fiFtable \in [Fi!Entries -> [ref : Nat, obj : Objects]]
  BY SlotTyped DEF FInv, FilesTyped
<1>2. o = Fi!Inode(r.new[1]) /\ o \in Objects /\ o # Fi!None /\ a \in Fi!Entries /\ a \in 0..NFILE
      /\ a # 0
  <2>1. r.new = <<r.new[1], r.new[2]>> /\ Inum(r.new[1]) /\ a \in Fi!Entries
    BY <1>1 DEF GotShape
  <2>2. Head(r.new) = r.new[1]
    BY <2>1
  <2>3. o = Fi!Inode(r.new[1]) /\ o \in Objects
    BY <2>1, <2>2 DEF Objects, Inum
  <2> QED BY <2>1, <2>3, ObjectsApart DEF Fi!Entries
<1>3. fiFtable[a].ref = 1 /\ fiFtable[a].obj = Fi!None /\ PointerCount(r, a) >= 1
  <2>1. 2 \in Fi!Got(r)
    BY DEF Fi!Got
  <2> QED BY <1>1, <2>1, GotPoints DEF BlankOf
<1>4. fiFtable' = [fiFtable EXCEPT ![a].obj = o]
  OBVIOUS
<1> HIDE DEF o
<1>5. /\ s.pc = "user" /\ s.ofile = [r.ofile EXCEPT ![fd] = a] /\ s.new = <<>> /\ s.todo = <<>>
      /\ s.rel = Fi!None /\ s \in Opener /\ fiProc' \in [Users -> Opener]
      /\ \A q \in Users \ {p} : fiProc'[q] = fiProc[q]
  <2>1. <<>> \in Seq(Nat)
    OBVIOUS
  <2>2. /\ x \in Opener /\ x.pc = "user" /\ x.ofile = [r.ofile EXCEPT ![fd] = a] /\ x.new = <<>>
        /\ x.todo = r.todo /\ x.rel = r.rel
    <3> HIDE DEF r, a
    <3> QED BY <1>1, <1>2, <2>1 DEF Opener
  <2>3. fiProc' = [fiProc EXCEPT ![p] = x]
    OBVIOUS
  <2> HIDE DEF x, a
  <2> QED BY <1>1, <2>2, <2>3
<1>6. /\ fiFtable' \in [Fi!Entries -> [ref : Nat, obj : Objects]]
      /\ fiFtable'[a].ref = 1 /\ fiFtable'[a].obj = o
      /\ \A g \in Fi!Entries \ {a} : fiFtable'[g] = fiFtable[g]
  <2> HIDE DEF a
  <2> QED BY ONLY <1>1, <1>2, <1>3, <1>4
<1>7. Fi!Got(s) = {} /\ Fi!Early(r) = {} /\ Fi!Early(s) = {}
  BY <1>5 DEF Fi!Got, Fi!Early
<1>8. FilesTyped'
  BY <1>1, <1>5, <1>6 DEF FilesTyped
<1>9. GotShape(s)
  BY <1>5 DEF GotShape
<1>10. BlankOf(s, fiFtable')
  BY <1>7 DEF BlankOf
<1>11. FdsOpen(s, fiFtable')
  <2> SUFFICES ASSUME NEW d \in Fi!Fds, s.ofile[d] # 0
               PROVE  fiFtable'[s.ofile[d]].obj # Fi!None
    BY DEF FdsOpen
  <2>1. CASE d = fd
    <3>1. s.ofile[d] = a
      BY <1>1, <1>5, <2>1
    <3> QED BY <1>2, <1>6, <3>1
  <2>2. CASE d # fd
    <3>1. s.ofile[d] = r.ofile[d] /\ r.ofile[d] # 0
      BY <1>1, <1>5, <2>2
    <3>2. r.ofile[d] \in Fi!Entries /\ fiFtable[r.ofile[d]].obj # Fi!None
      BY <1>1, <3>1, OfilePoints DEF FdsOpen
    <3>3. fiFtable'[r.ofile[d]].obj # Fi!None
      <4> HIDE DEF r, a, o
      <4> QED BY ONLY <1>3, <1>6, <3>2, SMTT(60)
    <3> HIDE DEF r, s
    <3> QED BY ONLY <3>1, <3>3
  <2> QED BY <2>1, <2>2
<1>12. ASSUME NEW f \in Fi!Entries PROVE PointerCount(s, f) = PointerCount(r, f)
  <2>1. /\ InOfile(s, f) \in Nat /\ InOfile(r, f) \in Nat
        /\ InOfile(s, f) + OpenFd(r, fd, f) = InOfile(r, f) + OpenFd(s, fd, f)
    <3>1. \A y \in Fi!Fds \ {fd} : (y \notin Fi!Early(r) /\ r.ofile[y] = f) <=> (y \notin Fi!Early(s) /\ s.ofile[y] = f)
      BY <1>1, <1>5, <1>7
    <3> HIDE DEF r, s
    <3> QED BY <3>1, FdMoved
  <2>2. OpenFd(r, fd, f) = 0 /\ OpenFd(s, fd, f) = Eq(a, f)
    <3>1. s.ofile[fd] = a /\ f # 0
      BY <1>1, <1>5, FdsFinite
    <3> QED BY <1>7, <3>1 DEF OpenFd, Eq
  <2>3. InNew(s, f) = 0 /\ InNew(r, f) = Eq(a, f) /\ Eq(a, f) \in Nat
    BY <1>5 DEF InNew, Eq
  <2>4. s.todo = r.todo /\ Times(r.todo, f) = 0
    BY <1>5, TodoEmpty
  <2> HIDE DEF r, s, a
  <2> QED BY <2>1, <2>2, <2>3, <2>4 DEF PointerCount
<1>13. ASSUME NEW y \in Objects \ {Fi!None}
       PROVE  Cardinality(Opens(fiFtable', y)) + UserOwns(s, y) = Cardinality(Opens(fiFtable, y)) + UserOwns(r, y)
  <2>1. /\ Cardinality(Opens(fiFtable, y)) \in Nat /\ Cardinality(Opens(fiFtable', y)) \in Nat
        /\ Cardinality(Opens(fiFtable', y)) + EntryOwns(fiFtable[a], y)
             = Cardinality(Opens(fiFtable, y)) + EntryOwns(fiFtable'[a], y)
    <3>1. a \in Fi!Entries /\ \A f \in Fi!Entries \ {a} : fiFtable'[f] = fiFtable[f]
      BY <1>2, <1>6
    <3> HIDE DEF a
    <3> QED BY ONLY <3>1, OpensMoved, SMTT(60)
  <2>2. EntryOwns(fiFtable[a], y) = 0 /\ EntryOwns(fiFtable'[a], y) = Eq(o, y)
    <3> HIDE DEF a, o
    <3> QED BY ONLY <1>3, <1>6, y \in Objects \ {Fi!None}, SMTT(60) DEF EntryOwns, Eq
  <2>3. UserOwns(s, y) = 0 /\ UserOwns(r, y) = Eq(o, y) /\ Eq(o, y) \in Nat
    BY <1>2, <1>5 DEF UserOwns, Eq, IsOpening
  <2> HIDE DEF r, s, a, o
  <2> QED BY ONLY <2>1, <2>2, <2>3
<1>14. OwnersRight(fiFtable', fiProc', fiInode', fiPipe')
  BY <1>5, <1>13, HandedOver
<1>15. ASSUME NEW f \in Fi!Entries
       PROVE  /\ Touched(p, f)
              /\ fiFtable'[f].ref + PointerCount(fiProc[p], f) = fiFtable[f].ref + PointerCount(fiProc'[p], f)
              /\ fiFtable'[f].ref = 0 => fiFtable'[f].obj = Fi!None
  <2>1. CASE f = a
    <3>1. Touched(p, a) /\ PointerCount(s, a) = PointerCount(r, a)
      <4> HIDE DEF a, r, s
      <4> QED BY <1>2, <1>3, <1>6, <1>12 DEF Touched, r
    <3>2. fiFtable'[a].ref = fiFtable[a].ref /\ fiFtable'[a].ref # 0
      <4> HIDE DEF a
      <4> QED BY ONLY <1>3, <1>6
    <3> HIDE DEF a
    <3> QED BY <2>1, <3>1, <3>2
  <2>2. CASE f # a
    BY <1>6, <1>12, <2>2, RefIs DEF Touched
  <2> QED BY <2>1, <2>2
<1> QED BY <1>5, <1>8, <1>9, <1>10, <1>11, <1>14, <1>15, StepKept

LEMMA OpenFileKeeps ==
  ASSUME FInv, NEW p \in Users, Fi!OpenFile(p)
  PROVE  FInv'
<1>1. fiInode' = fiInode /\ fiPipe' = fiPipe
  BY DEF Fi!OpenFile
<1>2. CASE Fi!At(p, "open")
  <2>1. fiProc[p].pc = "open" /\ fiProc[p].todo = <<>> /\ fiProc[p].rel = Fi!None
    BY <1>2 DEF Fi!At
  <2>2. CASE Fi!FreeEntries = {}
    <3>1. /\ fiFtable' = fiFtable
          /\ fiProc' = [fiProc EXCEPT ![p] = [@ EXCEPT !.pc = "user", !.new = <<>>,
                                                       !.rel = Fi!Inode(Head(fiProc[p].new))]]
      BY <2>1, <2>2 DEF Fi!OpenFile, Fi!Filealloc, Fi!At
    <3> QED BY <1>1, <2>1, <3>1, GivesUpKeeps
  <2>3. CASE Fi!FreeEntries # {}
    <3>1. /\ fiFtable' = [fiFtable EXCEPT ![Fi!Min(Fi!FreeEntries)].ref = 1]
          /\ fiProc' = [fiProc EXCEPT ![p] = [@ EXCEPT !.pc = "opened",
                                              !.new = Append(fiProc[p].new, Fi!Min(Fi!FreeEntries))]]
      BY <2>1, <2>3 DEF Fi!OpenFile, Fi!Filealloc, Fi!At
    <3> QED BY <1>1, <2>1, <2>3, <3>1, GotKeeps
  <2> QED BY <2>2, <2>3
<1>3. CASE Fi!At(p, "opened")
  <2>1. fiProc[p].pc = "opened" /\ fiProc[p].todo = <<>> /\ fiProc[p].rel = Fi!None
    BY <1>3 DEF Fi!At
  <2>2. CASE Fi!FreeFds(p) = {}
    <3>1. /\ fiFtable' = fiFtable
          /\ fiProc' = [fiProc EXCEPT ![p] = [@ EXCEPT !.pc = "noroom", !.new = <<Head(fiProc[p].new)>>,
                                                       !.todo = <<fiProc[p].new[2]>>]]
      BY <2>1, <2>2 DEF Fi!OpenFile, Fi!At
    <3> QED BY <1>1, <2>1, <3>1, NoRoomKeeps
  <2>3. CASE Fi!FreeFds(p) # {}
    <3>1. /\ fiFtable' = [fiFtable EXCEPT ![fiProc[p].new[2]].obj = Fi!Inode(Head(fiProc[p].new))]
          /\ fiProc' = [fiProc EXCEPT ![p] = [@ EXCEPT !.pc = "user", !.new = <<>>,
                                              !.ofile[Fi!Min(Fi!FreeFds(p))] = fiProc[p].new[2]]]
      BY <2>1, <2>3 DEF Fi!OpenFile, Fi!At
    <3>2. Fi!Min(Fi!FreeFds(p)) \in Fi!Fds /\ fiProc[p].ofile[Fi!Min(Fi!FreeFds(p))] = 0
      BY <2>3, FirstFree
    <3> QED BY <1>1, <2>1, <3>1, <3>2, FilledKeeps
  <2> QED BY <2>2, <2>3
<1>4. CASE Fi!At(p, "noroom")
  <2>1. fiProc[p].pc = "noroom" /\ fiProc[p].todo = <<>> /\ fiProc[p].rel = Fi!None
    BY <1>4 DEF Fi!At
  <2>2. /\ fiFtable' = fiFtable
        /\ fiProc' = [fiProc EXCEPT ![p] = [@ EXCEPT !.pc = "user", !.new = <<>>,
                                                     !.rel = Fi!Inode(Head(fiProc[p].new))]]
    BY <2>1 DEF Fi!OpenFile, Fi!At
  <2> QED BY <1>1, <2>1, <2>2, GivesUpKeeps
<1> QED BY <1>2, <1>3, <1>4 DEF Fi!OpenFile
-----------------------------------------------------------------------------
\* What the two entries of pipe() are, by what it has got.
LEMMA PairIs ==
  ASSUME FInv, NEW p \in Users, fiProc[p].pc \in {"pipe2", "pipe"}
  PROVE  /\ fiProc[p].new[1] \in Fi!Entries /\ fiProc[p].new[2] \in Fi!Entries
         /\ fiProc[p].new = <<fiProc[p].new[1], fiProc[p].new[2]>>
         /\ PointerCount(fiProc[p], fiProc[p].new[1]) >= 1 /\ PointerCount(fiProc[p], fiProc[p].new[2]) >= 1
         /\ fiProc[p].pc = "pipe2" => fiProc[p].new[1] # fiProc[p].new[2]
<1> DEFINE r == fiProc[p]
           a == r.new[1]
           b == r.new[2]
<1>1. Fi!Got(r) = {1, 2} /\ GotShape(r) /\ BlankOf(r, fiFtable) /\ r \in Opener
  BY SlotTyped DEF Fi!Got
<1>2. a \in Fi!Entries /\ b \in Fi!Entries /\ r.new = <<a, b>>
  BY <1>1 DEF GotShape
<1>3. PointerCount(r, a) >= 1 /\ PointerCount(r, b) >= 1
  BY <1>1, GotPoints
<1>4. ASSUME r.pc = "pipe2", a = b PROVE FALSE
  <2>1. fiFtable[a].ref = 1
    BY <1>1, <1>4 DEF BlankOf
  <2>2. InNew(r, a) = 2
    BY <1>4 DEF InNew, Eq
  <2>3. InOfile(r, a) \in Nat /\ Times(r.todo, a) \in Nat
    BY <1>1, PointersCounted
  <2>4. PointerCount(r, a) <= 1
    BY <1>2, <2>1, PointsTo
  <2> HIDE DEF r, a
  <2> QED BY <2>2, <2>3, <2>4 DEF PointerCount
<1> QED BY <1>2, <1>3, <1>4

\* pipealloc() without a second entry or a page, and pipe() without descriptors, close what
\* has been got.
LEMMA ClosesNewKeeps ==
  ASSUME FInv, NEW p \in Users, fiProc[p].pc \in {"pipe1", "pipe2", "pipe"}, fiProc[p].todo = <<>>,
         fiProc[p].rel = Fi!None, fiFtable' = fiFtable, fiInode' = fiInode, fiPipe' = fiPipe,
         fiProc' = [fiProc EXCEPT ![p] = [@ EXCEPT !.pc = "user", !.new = <<>>, !.todo = fiProc[p].new]]
  PROVE  FInv'
<1> DEFINE r == fiProc[p]
           s == fiProc'[p]
           x == [r EXCEPT !.pc = "user", !.new = <<>>, !.todo = r.new]
<1>1. /\ r \in Opener /\ fiProc \in [Users -> Opener]
      /\ GotShape(r) /\ FdsOpen(r, fiFtable) /\ FilesTyped
  BY SlotTyped DEF FInv, FilesTyped
<1>2. /\ r.pc = "pipe1" => r.new = <<r.new[1]>> /\ r.new[1] \in Fi!Entries
      /\ r.pc # "pipe1" => r.new = <<r.new[1], r.new[2]>> /\ r.new[1] \in Fi!Entries /\ r.new[2] \in Fi!Entries
  BY <1>1 DEF GotShape
<1>3. r.new \in Seq(Fi!Entries)
  <2>1. CASE r.pc = "pipe1"
    <3>1. PICK a \in Fi!Entries : r.new = <<a>>
      BY <1>2, <2>1
    <3> QED BY <3>1
  <2>2. CASE r.pc # "pipe1"
    <3>1. PICK a, b \in Fi!Entries : r.new = <<a, b>>
      BY <1>2, <2>2
    <3> QED BY <3>1
  <2> QED BY <2>1, <2>2
<1>4. /\ s.pc = "user" /\ s.ofile = r.ofile /\ s.new = <<>> /\ s.todo = r.new
      /\ s.rel = Fi!None /\ s \in Opener /\ fiProc' \in [Users -> Opener]
      /\ \A q \in Users \ {p} : fiProc'[q] = fiProc[q]
  <2>1. <<>> \in Seq(Nat)
    OBVIOUS
  <2>2. /\ x \in Opener /\ x.pc = "user" /\ x.ofile = r.ofile /\ x.new = <<>> /\ x.todo = r.new
        /\ x.rel = r.rel
    <3> HIDE DEF r
    <3> QED BY <1>1, <1>3, <2>1 DEF Opener
  <2>3. fiProc' = [fiProc EXCEPT ![p] = x]
    OBVIOUS
  <2> HIDE DEF x
  <2> QED BY <1>1, <2>2, <2>3
<1>5. Fi!Got(s) = {} /\ Fi!Early(r) = {} /\ Fi!Early(s) = {}
  BY <1>4 DEF Fi!Got, Fi!Early
<1>6. FilesTyped'
  BY <1>1, <1>4 DEF FilesTyped
<1>7. GotShape(s)
  BY <1>4 DEF GotShape
<1>8. FdsOpen(s, fiFtable') /\ BlankOf(s, fiFtable')
  BY <1>1, <1>4, <1>5 DEF FdsOpen, BlankOf
<1>9. ASSUME NEW f \in Fi!Entries PROVE PointerCount(s, f) = PointerCount(r, f)
  <2>1. InOfile(s, f) = InOfile(r, f) /\ InOfile(r, f) \in Nat
    <3>1. \A y \in Fi!Fds : (y \notin Fi!Early(r) /\ r.ofile[y] = f) <=> (y \notin Fi!Early(s) /\ s.ofile[y] = f)
      BY <1>4, <1>5
    <3> HIDE DEF r, s
    <3> QED BY ONLY <3>1, FdSame
  <2>2. Times(r.new, f) = InNew(r, f) /\ InNew(r, f) \in Nat
    <3>1. CASE r.pc = "pipe1"
      <4>1. Times(<<r.new[1]>>, f) = Eq(r.new[1], f) /\ r.new = <<r.new[1]>>
        BY <1>2, <3>1, TodoOne
      <4> QED BY <3>1, <4>1 DEF InNew, Eq
    <3>2. CASE r.pc # "pipe1"
      <4>1. /\ Times(<<r.new[1], r.new[2]>>, f) = Eq(r.new[1], f) + Eq(r.new[2], f)
            /\ r.new = <<r.new[1], r.new[2]>>
        BY <1>2, <3>2, TodoTwo
      <4> QED BY <3>2, <4>1 DEF InNew, Eq
    <3> QED BY <3>1, <3>2
  <2>3. InNew(s, f) = 0 /\ Times(r.todo, f) = 0 /\ s.todo = r.new
    BY <1>4, TodoEmpty DEF InNew
  <2> HIDE DEF r, s
  <2> QED BY <2>1, <2>2, <2>3 DEF PointerCount
<1>10. \A o : UserOwns(s, o) = UserOwns(r, o)
  BY <1>4 DEF UserOwns, IsOpening
<1>11. OwnersRight(fiFtable', fiProc', fiInode', fiPipe')
  BY <1>4, <1>10, HandedOver
<1>12. ASSUME NEW f \in Fi!Entries
       PROVE  /\ Touched(p, f)
              /\ fiFtable'[f].ref + PointerCount(fiProc[p], f) = fiFtable[f].ref + PointerCount(fiProc'[p], f)
              /\ fiFtable'[f].ref = 0 => fiFtable'[f].obj = Fi!None
  BY <1>9, RefIs DEF Touched
<1> QED BY <1>4, <1>6, <1>7, <1>8, <1>11, <1>12, StepKept

\* pipealloc() opens its two entries on the ends of a new pipe.
LEMMA EndsKeep ==
  ASSUME FInv, NEW p \in Users, fiProc[p].pc = "pipe2", fiProc[p].todo = <<>>,
         fiProc[p].rel = Fi!None, fiInode' = fiInode,
         NEW k \in 1..NPIPE, fiPipe[k] = {}, fiPipe' = [fiPipe EXCEPT ![k] = {"read", "write"}],
         fiFtable' = [fiFtable EXCEPT ![fiProc[p].new[1]].obj = Fi!End(k, "read"),
                                      ![fiProc[p].new[2]].obj = Fi!End(k, "write")],
         fiProc' = [fiProc EXCEPT ![p].pc = "pipe"]
  PROVE  FInv'
<1> DEFINE r == fiProc[p]
           s == fiProc'[p]
           a == r.new[1]
           b == r.new[2]
           u == Fi!End(k, "read")
           v == Fi!End(k, "write")
           x == [r EXCEPT !.pc = "pipe"]
           ft == [fiFtable EXCEPT ![a].obj = u]
<1>1. /\ r \in Opener /\ fiProc \in [Users -> Opener]
      /\ GotShape(r) /\ FdsOpen(r, fiFtable) /\ BlankOf(r, fiFtable) /\ FilesTyped
      /\ fiFtable \in [Fi!Entries -> [ref : Nat, obj : Objects]]
      /\ fiPipe \in [1..NPIPE -> SUBSET {"read", "write"}]
  BY SlotTyped DEF FInv, FilesTyped
<1>2. /\ a \in Fi!Entries /\ b \in Fi!Entries /\ a # b /\ r.new = <<a, b>>
      /\ PointerCount(r, a) >= 1 /\ PointerCount(r, b) >= 1
  BY PairIs
<1>3. /\ fiFtable[a].ref = 1 /\ fiFtable[a].obj = Fi!None
      /\ fiFtable[b].ref = 1 /\ fiFtable[b].obj = Fi!None
  <2>1. Fi!Got(r) = {1, 2}
    BY DEF Fi!Got
  <2> QED BY <1>1, <2>1 DEF BlankOf
<1>4. u \in Objects /\ v \in Objects /\ u # Fi!None /\ v # Fi!None /\ u # v
  BY SMTT(60), ObjectsApart DEF Objects
<1>5. /\ ft[a].ref = 1 /\ ft[a].obj = u /\ \A f \in Fi!Entries \ {a} : ft[f] = fiFtable[f]
      /\ ft \in [Fi!Entries -> [ref : Nat, obj : Objects]]
      /\ fiFtable' = [ft EXCEPT ![b].obj = v]
  <2>1. fiFtable' = [fiFtable EXCEPT ![a].obj = u, ![b].obj = v]
    OBVIOUS
  <2> HIDE DEF a, b, u, v
  <2> QED BY ONLY <1>1, <1>2, <1>3, <1>4, <2>1
<1> HIDE DEF u, v, ft
<1>6. /\ fiFtable'[b].ref = 1 /\ fiFtable'[b].obj = v /\ \A f \in Fi!Entries \ {b} : fiFtable'[f] = ft[f]
      /\ fiFtable' \in [Fi!Entries -> [ref : Nat, obj : Objects]]
  <2> HIDE DEF a, b
  <2> QED BY ONLY <1>2, <1>3, <1>4, <1>5
<1>7. /\ s.pc = "pipe" /\ s.ofile = r.ofile /\ s.new = r.new /\ s.todo = <<>>
      /\ s.rel = Fi!None /\ s \in Opener /\ fiProc' \in [Users -> Opener]
      /\ \A q \in Users \ {p} : fiProc'[q] = fiProc[q]
  <2>1. /\ x \in Opener /\ x.pc = "pipe" /\ x.ofile = r.ofile /\ x.new = r.new /\ x.todo = r.todo
        /\ x.rel = r.rel
    <3> HIDE DEF r
    <3> QED BY <1>1 DEF Opener
  <2>2. fiProc' = [fiProc EXCEPT ![p] = x]
    OBVIOUS
  <2> HIDE DEF x
  <2> QED BY <1>1, <2>1, <2>2
<1>8. Fi!Got(s) = {1, 2} /\ Fi!Early(r) = {} /\ Fi!Early(s) = {}
  BY <1>7 DEF Fi!Got, Fi!Early
<1>9. FilesTyped'
  <2>1. fiPipe' \in [1..NPIPE -> SUBSET {"read", "write"}]
    BY <1>1
  <2> QED BY <1>1, <1>6, <1>7, <2>1 DEF FilesTyped
<1>10. GotShape(s)
  <2>1. s.new[1] = a /\ s.new[2] = b
    BY <1>7
  <2> HIDE DEF s, r, a, b
  <2> QED BY <1>2, <1>7, <2>1 DEF GotShape
<1>11. BlankOf(s, fiFtable')
  <2>1. fiFtable'[a].obj # Fi!None /\ fiFtable'[b].obj # Fi!None
    BY <1>2, <1>4, <1>5, <1>6
  <2> QED BY <1>7, <1>8, <2>1 DEF BlankOf
<1>12. FdsOpen(s, fiFtable')
  <2> SUFFICES ASSUME NEW d \in Fi!Fds, r.ofile[d] # 0
               PROVE  fiFtable'[r.ofile[d]].obj # Fi!None
    BY <1>7 DEF FdsOpen
  <2>1. r.ofile[d] \in Fi!Entries /\ fiFtable[r.ofile[d]].obj # Fi!None
    BY <1>1, OfilePoints DEF FdsOpen
  <2> QED BY <1>3, <1>5, <1>6, <2>1
<1>13. ASSUME NEW f \in Fi!Entries PROVE PointerCount(s, f) = PointerCount(r, f)
  <2>1. InOfile(s, f) = InOfile(r, f)
    <3>1. \A y \in Fi!Fds : (y \notin Fi!Early(r) /\ r.ofile[y] = f) <=> (y \notin Fi!Early(s) /\ s.ofile[y] = f)
      BY <1>7, <1>8
    <3> HIDE DEF r, s
    <3> QED BY ONLY <3>1, FdSame
  <2>2. InNew(s, f) = InNew(r, f) /\ s.todo = r.todo
    BY <1>7 DEF InNew
  <2> QED BY <2>1, <2>2 DEF PointerCount
<1>14. ASSUME NEW y \in Objects \ {Fi!None}
       PROVE  /\ OwnersOf(fiFtable, fiProc, y) \in Nat
              /\ OwnersOf(fiFtable', fiProc', y) = OwnersOf(fiFtable, fiProc, y) + Eq(u, y) + Eq(v, y)
  <2>1. /\ Cardinality(Opens(fiFtable, y)) \in Nat /\ Cardinality(Opens(ft, y)) \in Nat
        /\ Cardinality(Opens(ft, y)) + EntryOwns(fiFtable[a], y)
             = Cardinality(Opens(fiFtable, y)) + EntryOwns(ft[a], y)
    <3>1. a \in Fi!Entries /\ \A f \in Fi!Entries \ {a} : ft[f] = fiFtable[f]
      BY <1>2, <1>5
    <3> HIDE DEF a
    <3> QED BY ONLY <3>1, OpensMoved, SMTT(60)
  <2>2. /\ Cardinality(Opens(fiFtable', y)) \in Nat
        /\ Cardinality(Opens(fiFtable', y)) + EntryOwns(ft[b], y)
             = Cardinality(Opens(ft, y)) + EntryOwns(fiFtable'[b], y)
    <3>1. b \in Fi!Entries /\ \A f \in Fi!Entries \ {b} : fiFtable'[f] = ft[f]
      BY <1>2, <1>6
    <3> HIDE DEF b
    <3> QED BY ONLY <3>1, OpensMoved, SMTT(60)
  <2>3. /\ EntryOwns(fiFtable[a], y) = 0 /\ EntryOwns(ft[a], y) = Eq(u, y)
        /\ EntryOwns(ft[b], y) = 0 /\ EntryOwns(fiFtable'[b], y) = Eq(v, y)
    <3>1. /\ fiFtable[a].obj = Fi!None /\ y # Fi!None /\ ft[a].ref = 1 /\ ft[a].obj = u
          /\ ft[b].obj = Fi!None /\ fiFtable'[b].ref = 1 /\ fiFtable'[b].obj = v
      BY ONLY <1>2, <1>3, <1>5, <1>6, y \in Objects \ {Fi!None}
    <3> HIDE DEF a, b
    <3> QED BY ONLY <3>1 DEF EntryOwns, Eq
  <2>4. /\ UsersOwn(fiProc, y) \in Nat /\ UsersOwn(fiProc', y) \in Nat
        /\ UsersOwn(fiProc', y) + UserOwns(r, y) = UsersOwn(fiProc, y) + UserOwns(s, y)
    <3>1. p \in Users /\ \A q \in Users \ {p} : fiProc'[q] = fiProc[q]
      BY <1>7
    <3> HIDE DEF r, s
    <3> QED BY ONLY <3>1, UsersOwnMoved, SMTT(60) DEF r, s
  <2>5. UserOwns(s, y) = 0 /\ UserOwns(r, y) = 0 /\ Eq(u, y) \in Nat /\ Eq(v, y) \in Nat
    BY <1>7 DEF UserOwns, Eq, IsOpening
  <2> HIDE DEF r, s, a, b
  <2> QED BY ONLY <2>1, <2>2, <2>3, <2>4, <2>5 DEF OwnersOf
<1>15. /\ \A j \in 1..NINODE : Fi!Inode(j) \in Objects \ {Fi!None}
       /\ \A l \in 1..NPIPE, e \in {"read", "write"} : Fi!End(l, e) \in Objects \ {Fi!None}
  BY SMTT(60), ObjectsApart DEF Objects
<1>16. OwnersRight(fiFtable, fiProc, fiInode, fiPipe)
  BY OwnersNow
<1>17. OwnersRight(fiFtable', fiProc', fiInode', fiPipe')
  <2>1. ASSUME NEW j \in 1..NINODE PROVE fiInode'[j] = OwnersOf(fiFtable', fiProc', Fi!Inode(j))
    <3>1. Eq(u, Fi!Inode(j)) = 0 /\ Eq(v, Fi!Inode(j)) = 0
      BY ObjectsApart DEF Eq, u, v
    <3>2. /\ OwnersOf(fiFtable, fiProc, Fi!Inode(j)) = fiInode[j] /\ fiInode' = fiInode
          /\ Fi!Inode(j) \in Objects \ {Fi!None}
      BY <1>15, <1>16 DEF OwnersRight
    <3>3. /\ OwnersOf(fiFtable, fiProc, Fi!Inode(j)) \in Nat
          /\ OwnersOf(fiFtable', fiProc', Fi!Inode(j))
               = OwnersOf(fiFtable, fiProc, Fi!Inode(j)) + Eq(u, Fi!Inode(j)) + Eq(v, Fi!Inode(j))
      BY ONLY <1>14, <3>2
    <3> QED BY ONLY <3>1, <3>2, <3>3
  <2>2. ASSUME NEW l \in 1..NPIPE, NEW e \in {"read", "write"}
        PROVE  OwnersOf(fiFtable', fiProc', Fi!End(l, e)) = IF e \in fiPipe'[l] THEN 1 ELSE 0
    <3>1. OwnersOf(fiFtable', fiProc', Fi!End(l, e))
            = (IF e \in fiPipe[l] THEN 1 ELSE 0) + Eq(u, Fi!End(l, e)) + Eq(v, Fi!End(l, e))
      BY <1>14, <1>15, <1>16 DEF OwnersRight
    <3>2. Eq(u, Fi!End(l, e)) + Eq(v, Fi!End(l, e)) = IF l = k THEN 1 ELSE 0
      BY ObjectsApart DEF Eq, u, v
    <3>3. Eq(u, Fi!End(l, e)) \in Nat /\ Eq(v, Fi!End(l, e)) \in Nat
      BY DEF Eq
    <3>4. CASE l = k
      <4>1. fiPipe'[l] = {"read", "write"} /\ fiPipe[l] = {}
        BY <1>1, <3>4
      <4> QED BY ONLY <3>1, <3>2, <3>3, <3>4, <4>1, e \in {"read", "write"}
    <3>5. CASE l # k
      <4>1. fiPipe'[l] = fiPipe[l]
        BY <1>1, <3>5
      <4> QED BY ONLY <3>1, <3>2, <3>3, <3>5, <4>1
    <3> QED BY <3>4, <3>5
  <2> QED BY <2>1, <2>2 DEF OwnersRight
<1>18. ASSUME NEW f \in Fi!Entries
       PROVE  /\ Touched(p, f)
              /\ fiFtable'[f].ref + PointerCount(fiProc[p], f) = fiFtable[f].ref + PointerCount(fiProc'[p], f)
              /\ fiFtable'[f].ref = 0 => fiFtable'[f].obj = Fi!None
  <2>1. CASE f = a
    <3>1. fiFtable'[a].ref = 1 /\ fiFtable'[a].obj = u /\ u # Fi!None
      BY ONLY <1>2, <1>4, <1>5, <1>6
    <3>2. Touched(p, f)
      BY <1>2, <2>1, <3>1 DEF Touched
    <3>3. PointerCount(s, f) = PointerCount(r, f)
      BY ONLY <1>13, f \in Fi!Entries
    <3>4. fiFtable'[f].ref = 1 /\ fiFtable[f].ref = 1
      BY ONLY <1>3, <2>1, <3>1
    <3> QED BY ONLY <3>2, <3>3, <3>4
  <2>2. CASE f = b
    <3>1. fiFtable'[b].ref = 1 /\ fiFtable'[b].obj = v /\ v # Fi!None
      BY ONLY <1>4, <1>6
    <3>2. Touched(p, f)
      BY <1>2, <2>2, <3>1 DEF Touched
    <3>3. PointerCount(s, f) = PointerCount(r, f)
      BY ONLY <1>13, f \in Fi!Entries
    <3>4. fiFtable'[f].ref = 1 /\ fiFtable[f].ref = 1
      BY ONLY <1>3, <2>2, <3>1
    <3> QED BY ONLY <3>2, <3>3, <3>4
  <2>3. CASE f # a /\ f # b
    BY <1>5, <1>6, <1>13, <2>3, RefIs DEF Touched
  <2> QED BY <2>1, <2>2, <2>3
<1> QED BY <1>7, <1>9, <1>10, <1>11, <1>12, <1>17, <1>18, StepKept

LEMMA PipeallocKeeps ==
  ASSUME FInv, NEW p \in Users, Fi!Pipealloc(p)
  PROVE  FInv'
<1> DEFINE pages == {k \in 1..NPIPE : fiPipe[k] = {}}
<1>1. fiInode' = fiInode
  BY DEF Fi!Pipealloc
<1>2. CASE Fi!At(p, "user")
  <2>1. fiProc[p].pc = "user" /\ fiProc[p].todo = <<>> /\ fiProc[p].rel = Fi!None
    BY <1>2 DEF Fi!At
  <2>2. /\ Fi!FreeEntries # {} /\ fiPipe' = fiPipe
        /\ fiFtable' = [fiFtable EXCEPT ![Fi!Min(Fi!FreeEntries)].ref = 1]
        /\ fiProc' = [fiProc EXCEPT ![p] = [@ EXCEPT !.pc = "pipe1",
                                            !.new = Append(fiProc[p].new, Fi!Min(Fi!FreeEntries))]]
    BY <2>1 DEF Fi!Pipealloc, Fi!Filealloc, Fi!At
  <2> QED BY <1>1, <2>1, <2>2, GotKeeps
<1>3. CASE Fi!At(p, "pipe1")
  <2>1. fiProc[p].pc = "pipe1" /\ fiProc[p].todo = <<>> /\ fiProc[p].rel = Fi!None
    BY <1>3 DEF Fi!At
  <2>2. fiPipe' = fiPipe
    BY <2>1 DEF Fi!Pipealloc, Fi!At
  <2>3. CASE Fi!FreeEntries = {}
    <3>1. /\ fiFtable' = fiFtable
          /\ fiProc' = [fiProc EXCEPT ![p] = [@ EXCEPT !.pc = "user", !.new = <<>>, !.todo = fiProc[p].new]]
      BY <2>1, <2>3 DEF Fi!Pipealloc, Fi!Filealloc, Fi!At
    <3> QED BY <1>1, <2>1, <2>2, <3>1, ClosesNewKeeps
  <2>4. CASE Fi!FreeEntries # {}
    <3>1. /\ fiFtable' = [fiFtable EXCEPT ![Fi!Min(Fi!FreeEntries)].ref = 1]
          /\ fiProc' = [fiProc EXCEPT ![p] = [@ EXCEPT !.pc = "pipe2",
                                              !.new = Append(fiProc[p].new, Fi!Min(Fi!FreeEntries))]]
      BY <2>1, <2>4 DEF Fi!Pipealloc, Fi!Filealloc, Fi!At
    <3> QED BY <1>1, <2>1, <2>2, <2>4, <3>1, GotKeeps
  <2> QED BY <2>3, <2>4
<1>4. CASE Fi!At(p, "pipe2")
  <2>1. fiProc[p].pc = "pipe2" /\ fiProc[p].todo = <<>> /\ fiProc[p].rel = Fi!None
    BY <1>4 DEF Fi!At
  <2>2. CASE pages = {}
    <3>1. /\ fiFtable' = fiFtable /\ fiPipe' = fiPipe
          /\ fiProc' = [fiProc EXCEPT ![p] = [@ EXCEPT !.pc = "user", !.new = <<>>, !.todo = fiProc[p].new]]
      BY <2>1, <2>2 DEF Fi!Pipealloc, Fi!At
    <3> QED BY <1>1, <2>1, <3>1, ClosesNewKeeps
  <2>3. CASE pages # {}
    <3>1. Fi!Min(pages) \in pages
      BY <2>3, DescriptorsAssumption, MinIs
    <3>2. PICK k \in 1..NPIPE : k = Fi!Min(pages) /\ fiPipe[k] = {}
      BY <3>1
    <3>3. /\ fiPipe' = [fiPipe EXCEPT ![Fi!Min(pages)] = {"read", "write"}]
          /\ fiFtable' = [fiFtable EXCEPT ![fiProc[p].new[1]].obj = Fi!End(Fi!Min(pages), "read"),
                                          ![fiProc[p].new[2]].obj = Fi!End(Fi!Min(pages), "write")]
          /\ fiProc' = [fiProc EXCEPT ![p].pc = "pipe"]
      BY <2>1, <2>3 DEF Fi!Pipealloc, Fi!At
    <3>4. /\ fiPipe' = [fiPipe EXCEPT ![k] = {"read", "write"}]
          /\ fiFtable' = [fiFtable EXCEPT ![fiProc[p].new[1]].obj = Fi!End(k, "read"),
                                          ![fiProc[p].new[2]].obj = Fi!End(k, "write")]
      BY <3>2, <3>3
    <3> QED BY <1>1, <2>1, <3>2, <3>3, <3>4, EndsKeep
  <2> QED BY <2>2, <2>3
<1> QED BY <1>2, <1>3, <1>4 DEF Fi!Pipealloc

\* pipe() puts its two entries behind two descriptors.
LEMMA BothFdsKeep ==
  ASSUME FInv, NEW p \in Users, fiProc[p].pc = "pipe", fiProc[p].todo = <<>>,
         fiProc[p].rel = Fi!None, fiFtable' = fiFtable, fiInode' = fiInode, fiPipe' = fiPipe,
         NEW c \in Fi!Fds, NEW d \in Fi!Fds, c # d, fiProc[p].ofile[c] = 0, fiProc[p].ofile[d] = 0,
         fiProc' = [fiProc EXCEPT ![p] = [@ EXCEPT !.pc = "user", !.new = <<>>,
                                                   !.ofile[c] = fiProc[p].new[1],
                                                   !.ofile[d] = fiProc[p].new[2]]]
  PROVE  FInv'
<1> DEFINE r == fiProc[p]
           s == fiProc'[p]
           a == r.new[1]
           b == r.new[2]
           of == [r.ofile EXCEPT ![c] = a]
           x == [r EXCEPT !.pc = "user", !.new = <<>>, !.ofile[c] = a, !.ofile[d] = b]
<1>1. /\ r \in Opener /\ fiProc \in [Users -> Opener] /\ r.ofile \in [Fi!Fds -> 0..NFILE]
      /\ GotShape(r) /\ FdsOpen(r, fiFtable) /\ BlankOf(r, fiFtable) /\ FilesTyped
  BY SlotTyped DEF FInv, FilesTyped
<1>2. /\ a \in Fi!Entries /\ b \in Fi!Entries /\ a \in 0..NFILE /\ b \in 0..NFILE
      /\ fiFtable[a].obj # Fi!None /\ fiFtable[b].obj # Fi!None
  <2>1. a \in Fi!Entries /\ b \in Fi!Entries
    BY PairIs
  <2>2. Fi!Got(r) = {1, 2}
    BY DEF Fi!Got
  <2>3. fiFtable[a].obj # Fi!None /\ fiFtable[b].obj # Fi!None
    BY <1>1, <2>2 DEF BlankOf
  <2> QED BY <2>1, <2>3 DEF Fi!Entries
<1>3. /\ s.pc = "user" /\ s.ofile = [of EXCEPT ![d] = b] /\ s.new = <<>> /\ s.todo = <<>>
      /\ s.rel = Fi!None /\ s \in Opener /\ fiProc' \in [Users -> Opener]
      /\ \A q \in Users \ {p} : fiProc'[q] = fiProc[q]
  <2>1. <<>> \in Seq(Nat)
    OBVIOUS
  <2>2. /\ x \in Opener /\ x.pc = "user" /\ x.ofile = [of EXCEPT ![d] = b] /\ x.new = <<>>
        /\ x.todo = r.todo /\ x.rel = r.rel
    <3> HIDE DEF r, a, b
    <3> QED BY <1>1, <1>2, <2>1 DEF Opener
  <2>3. fiProc' = [fiProc EXCEPT ![p] = x]
    OBVIOUS
  <2> HIDE DEF x, a, b, of
  <2> QED BY <1>1, <2>2, <2>3
<1>4. \A y \in Fi!Fds : s.ofile[y] = IF y = d THEN b ELSE IF y = c THEN a ELSE r.ofile[y]
  <2> HIDE DEF a, b
  <2> QED BY <1>1, <1>3
<1>5. Fi!Got(s) = {} /\ Fi!Early(r) = {} /\ Fi!Early(s) = {}
  BY <1>3 DEF Fi!Got, Fi!Early
<1>6. FilesTyped'
  BY <1>1, <1>3 DEF FilesTyped
<1>7. GotShape(s)
  BY <1>3 DEF GotShape
<1>8. FdsOpen(s, fiFtable') /\ BlankOf(s, fiFtable')
  BY SMTT(60), <1>1, <1>2, <1>4, <1>5 DEF FdsOpen, BlankOf
<1>9. ASSUME NEW f \in Fi!Entries PROVE PointerCount(s, f) = PointerCount(r, f)
  <2> DEFINE t == [r EXCEPT !.pc = "user", !.ofile = of]
  <2>1. t.ofile = of /\ Fi!Early(t) = {} /\ \A y \in Fi!Fds : t.ofile[y] = IF y = c THEN a ELSE r.ofile[y]
    <3>1. t.pc = "user" /\ t.ofile = of
      <4> HIDE DEF r, of
      <4> QED BY <1>1 DEF Opener
    <3>2. \A y \in Fi!Fds : of[y] = IF y = c THEN a ELSE r.ofile[y]
      BY <1>1
    <3> HIDE DEF t, of
    <3> QED BY <3>1, <3>2 DEF Fi!Early
  <2> HIDE DEF t
  <2>2. f # 0
    BY FdsFinite
  <2>3. /\ InOfile(t, f) \in Nat /\ InOfile(r, f) \in Nat
        /\ InOfile(t, f) + OpenFd(r, c, f) = InOfile(r, f) + OpenFd(t, c, f)
    <3>1. \A y \in Fi!Fds \ {c} : (y \notin Fi!Early(r) /\ r.ofile[y] = f) <=> (y \notin Fi!Early(t) /\ t.ofile[y] = f)
      BY <1>5, <2>1
    <3> HIDE DEF r
    <3> QED BY <3>1, FdMoved
  <2>4. /\ InOfile(s, f) \in Nat
        /\ InOfile(s, f) + OpenFd(t, d, f) = InOfile(t, f) + OpenFd(s, d, f)
    <3>1. \A y \in Fi!Fds \ {d} : (y \notin Fi!Early(t) /\ t.ofile[y] = f) <=> (y \notin Fi!Early(s) /\ s.ofile[y] = f)
      BY <1>4, <1>5, <2>1
    <3> HIDE DEF s
    <3> QED BY <3>1, FdMoved
  <2>5. OpenFd(r, c, f) = 0 /\ OpenFd(t, c, f) = Eq(a, f)
    BY <1>5, <2>1, <2>2 DEF OpenFd, Eq
  <2>6. OpenFd(t, d, f) = 0 /\ OpenFd(s, d, f) = Eq(b, f)
    BY <1>4, <1>5, <2>1, <2>2 DEF OpenFd, Eq
  <2>7. InNew(s, f) = 0 /\ InNew(r, f) = Eq(a, f) + Eq(b, f) /\ Eq(a, f) \in Nat /\ Eq(b, f) \in Nat
    BY <1>3 DEF InNew, Eq
  <2>8. s.todo = r.todo /\ Times(r.todo, f) = 0
    BY <1>3, TodoEmpty
  <2> HIDE DEF r, s, a, b
  <2> QED BY ONLY <2>3, <2>4, <2>5, <2>6, <2>7, <2>8 DEF PointerCount
<1>10. \A o : UserOwns(s, o) = UserOwns(r, o)
  BY <1>3 DEF UserOwns, IsOpening
<1>11. OwnersRight(fiFtable', fiProc', fiInode', fiPipe')
  BY <1>3, <1>10, HandedOver
<1>12. ASSUME NEW f \in Fi!Entries
       PROVE  /\ Touched(p, f)
              /\ fiFtable'[f].ref + PointerCount(fiProc[p], f) = fiFtable[f].ref + PointerCount(fiProc'[p], f)
              /\ fiFtable'[f].ref = 0 => fiFtable'[f].obj = Fi!None
  BY <1>9, RefIs DEF Touched
<1> QED BY <1>3, <1>6, <1>7, <1>8, <1>11, <1>12, StepKept

LEMMA PipeKeeps ==
  ASSUME FInv, NEW p \in Users, Fi!Pipe(p)
  PROVE  FInv'
<1> DEFINE free == Fi!FreeFds(p)
           one == Fi!Min(free)
           two == Fi!Min(free \ {one})
<1>1. /\ fiProc[p].pc = "pipe" /\ fiProc[p].todo = <<>> /\ fiProc[p].rel = Fi!None
      /\ fiFtable' = fiFtable /\ fiInode' = fiInode /\ fiPipe' = fiPipe
  BY DEF Fi!Pipe, Fi!At
<1>2. CASE Fi!Cardinality(free) < 2
  <2>1. fiProc' = [fiProc EXCEPT ![p] = [@ EXCEPT !.pc = "user", !.new = <<>>, !.todo = fiProc[p].new]]
    BY <1>2 DEF Fi!Pipe
  <2> QED BY <1>1, <2>1, ClosesNewKeeps
<1>3. CASE ~(Fi!Cardinality(free) < 2)
  <2>1. fiProc' = [fiProc EXCEPT ![p] = [@ EXCEPT !.pc = "user", !.new = <<>>,
                                                  !.ofile[one] = fiProc[p].new[1],
                                                  !.ofile[two] = fiProc[p].new[2]]]
    BY <1>3 DEF Fi!Pipe
  <2>2. \A d \in free : d \in Fi!Fds /\ d \in Nat /\ fiProc[p].ofile[d] = 0
    BY FdsFinite DEF Fi!FreeFds
  <2> HIDE DEF free
  <2>3. free # {} /\ free # {one}
    <3>1. Cardinality(free) # 0 /\ Cardinality(free) # 1
      BY ONLY <1>3, FiCardinality
    <3>2. Cardinality({}) = 0 /\ \A e : Cardinality({e}) = 1
      BY FS_EmptySet, FS_Singleton
    <3> HIDE DEF one
    <3> QED BY ONLY <3>1, <3>2
  <2>4. one \in free
    BY <2>2, <2>3, MinIs
  <2>5. two \in free \ {one}
    BY <2>2, <2>3, <2>4, MinIs
  <2> HIDE DEF one, two
  <2> QED BY <1>1, <2>1, <2>2, <2>4, <2>5, BothFdsKeep
<1> QED BY <1>2, <1>3

\* fork() refers to every file of the parent once more, for the child.
LEMMA ForkKeeps ==
  ASSUME FInv, NEW p \in Users, NEW q \in Users, Fi!Fork(p, q)
  PROVE  FInv'
<1> DEFINE r == fiProc[q]
           s == fiProc'[q]
           of == fiProc[p].ofile
           more(f) == Cardinality({d \in Fi!Fds : of[d] = f})
           x == [r EXCEPT !.pc = "user", !.ofile = of]
<1>1. /\ fiProc[p].pc = "user" /\ r.pc = "unused" /\ fiInode' = fiInode /\ fiPipe' = fiPipe
      /\ fiFtable' = [f \in Fi!Entries |->
                        [fiFtable[f] EXCEPT !.ref = @ + Fi!Cardinality({d \in Fi!Fds : of[d] = f})]]
      /\ fiProc' = [fiProc EXCEPT ![q] = x]
  BY DEF Fi!Fork, Fi!At
<1>2. /\ r \in Opener /\ fiProc \in [Users -> Opener] /\ of \in [Fi!Fds -> 0..NFILE]
      /\ GotShape(r) /\ FilesTyped /\ GotShape(fiProc[p])
      /\ fiFtable \in [Fi!Entries -> [ref : Nat, obj : Objects]]
  BY SlotTyped DEF FInv, FilesTyped
<1>3. Fi!Early(fiProc[p]) = {} /\ Fi!Early(r) = {} /\ Fi!Got(r) = {} /\ Fi!Got(fiProc[p]) = {} /\ p # q
  BY <1>1 DEF Fi!Early, Fi!Got
<1>4. \A f : more(f) = InOfile(fiProc[p], f) /\ more(f) \in Nat
  <2> SUFFICES ASSUME NEW f PROVE more(f) = InOfile(fiProc[p], f) /\ more(f) \in Nat
    OBVIOUS
  <2>1. {d \in Fi!Fds : of[d] = f} = {d \in Fi!Fds \ Fi!Early(fiProc[p]) : fiProc[p].ofile[d] = f}
    BY <1>3
  <2> QED BY <2>1, OfileFinite DEF InOfile
<1>5. /\ fiFtable' \in [Fi!Entries -> [ref : Nat, obj : Objects]]
      /\ \A f \in Fi!Entries : /\ fiFtable'[f].ref = fiFtable[f].ref + more(f)
                               /\ fiFtable'[f].obj = fiFtable[f].obj
  <2>1. fiFtable' = [f \in Fi!Entries |-> [fiFtable[f] EXCEPT !.ref = @ + more(f)]]
    BY <1>1, FiCardinality
  <2> HIDE DEF more
  <2> QED BY ONLY <1>2, <1>4, <2>1
<1> HIDE DEF more
<1>6. /\ s.pc = "user" /\ s.ofile = of /\ s.new = <<>> /\ s.todo = <<>>
      /\ s.rel = Fi!None /\ s \in Opener /\ fiProc' \in [Users -> Opener]
      /\ \A u \in Users \ {q} : fiProc'[u] = fiProc[u]
  <2>1. r.new = <<>> /\ r.todo = <<>> /\ r.rel = Fi!None
    BY <1>1, <1>2 DEF GotShape
  <2>2. /\ x \in Opener /\ x.pc = "user" /\ x.ofile = of /\ x.new = r.new /\ x.todo = r.todo
        /\ x.rel = r.rel
    <3> HIDE DEF r, of
    <3> QED BY <1>2 DEF Opener
  <2> HIDE DEF x
  <2> QED BY <1>1, <1>2, <2>1, <2>2
<1>7. Fi!Got(s) = {} /\ Fi!Early(s) = {}
  BY <1>6 DEF Fi!Got, Fi!Early
<1>8. FilesTyped'
  BY <1>1, <1>2, <1>5, <1>6 DEF FilesTyped
<1>9. GotShape(s)
  BY <1>6 DEF GotShape
<1>10. ASSUME NEW u \in Users, u # q PROVE FdsOpen(fiProc[u], fiFtable') /\ BlankOf(fiProc[u], fiFtable')
  <2>1. FdsOpen(fiProc[u], fiFtable')
    <3> SUFFICES ASSUME NEW d \in Fi!Fds, fiProc[u].ofile[d] # 0
                 PROVE  fiFtable'[fiProc[u].ofile[d]].obj # Fi!None
      BY DEF FdsOpen
    <3>1. fiProc[u].ofile[d] \in Fi!Entries /\ fiFtable[fiProc[u].ofile[d]].obj # Fi!None
      BY SlotTyped, OfilePoints DEF FdsOpen
    <3> QED BY <1>5, <3>1
  <2>2. BlankOf(fiProc[u], fiFtable')
    <3> SUFFICES ASSUME NEW k \in Fi!Got(fiProc[u])
                 PROVE  IF fiProc[u].pc = "pipe" THEN fiFtable'[fiProc[u].new[k]].obj # Fi!None
                        ELSE fiFtable'[fiProc[u].new[k]].ref = 1 /\ fiFtable'[fiProc[u].new[k]].obj = Fi!None
      BY DEF BlankOf
    <3> DEFINE f == fiProc[u].new[k]
    <3>1. f \in Fi!Entries /\ PointerCount(fiProc[u], f) >= 1 /\ u # p
      BY <1>3, GotPoints
    <3>2. IF fiProc[u].pc = "pipe" THEN fiFtable[f].obj # Fi!None
          ELSE fiFtable[f].ref = 1 /\ fiFtable[f].obj = Fi!None
      BY SlotTyped DEF BlankOf
    <3>3. fiFtable[f].ref = 1 => more(f) = 0
      <4>1. /\ PointerCount(fiProc[p], f) \in Nat /\ PointerCount(fiProc[u], f) \in Nat
            /\ PointerCount(fiProc[p], f) + PointerCount(fiProc[u], f) <= fiFtable[f].ref
        BY <3>1, BothPointTo
      <4>2. /\ InOfile(fiProc[p], f) \in Nat /\ InNew(fiProc[p], f) \in Nat
            /\ Times(fiProc[p].todo, f) \in Nat
        BY SlotTyped, PointersCounted
      <4>3. more(f) = InOfile(fiProc[p], f)
        BY <1>4
      <4>4. PointerCount(fiProc[u], f) >= 1
        BY <3>1
      <4> HIDE DEF f
      <4> QED BY ONLY <4>1, <4>2, <4>3, <4>4 DEF PointerCount
    <3>4. fiFtable'[f].ref = fiFtable[f].ref + more(f) /\ fiFtable'[f].obj = fiFtable[f].obj
      BY <1>5, <3>1
    <3> HIDE DEF f
    <3>5. IF fiProc[u].pc = "pipe" THEN fiFtable'[f].obj # Fi!None
          ELSE fiFtable'[f].ref = 1 /\ fiFtable'[f].obj = Fi!None
      BY ONLY <3>2, <3>3, <3>4
    <3> QED BY ONLY <3>5 DEF f
  <2> QED BY <2>1, <2>2
<1>11. FdsOpen(s, fiFtable') /\ BlankOf(s, fiFtable')
  BY <1>3, <1>6, <1>7, <1>10 DEF FdsOpen, BlankOf
<1>12. ASSUME NEW f \in Fi!Entries PROVE PointerCount(r, f) = 0 /\ PointerCount(s, f) = more(f)
  <2>1. InOfile(s, f) = more(f)
    <3>1. \A y \in Fi!Fds : (y \notin Fi!Early(fiProc[p]) /\ of[y] = f) <=> (y \notin Fi!Early(s) /\ s.ofile[y] = f)
      BY <1>3, <1>6, <1>7
    <3>2. InOfile(s, f) = InOfile(fiProc[p], f)
      <4> HIDE DEF s
      <4> QED BY <3>1, FdSame
    <3> QED BY <1>4, <3>2
  <2>2. InOfile(r, f) = 0
    <3>1. {d \in Fi!Fds \ Fi!Early(r) : r.ofile[d] = f} = {}
      BY <1>1, <1>2, FdsFinite DEF GotShape
    <3> QED BY <3>1, FS_EmptySet DEF InOfile
  <2>3. InNew(s, f) = 0 /\ InNew(r, f) = 0
    BY <1>1, <1>6 DEF InNew
  <2>4. Times(s.todo, f) = 0 /\ Times(r.todo, f) = 0
    BY <1>1, <1>2, <1>6, TodoEmpty DEF GotShape
  <2>5. more(f) \in Nat
    BY <1>4
  <2> HIDE DEF r, s
  <2> QED BY ONLY <2>1, <2>2, <2>3, <2>4, <2>5 DEF PointerCount
<1>13. ASSUME NEW f \in Fi!Entries
       PROVE  /\ fiFtable'[f].ref + PointerCount(fiProc[q], f) = fiFtable[f].ref + PointerCount(fiProc'[q], f)
              /\ fiFtable'[f].ref = 0 => fiFtable'[f].obj = Fi!None
              /\ fiFtable[f].ref = 0 => more(f) = 0
  <2>1. /\ fiFtable'[f].ref = fiFtable[f].ref + more(f) /\ fiFtable'[f].obj = fiFtable[f].obj
        /\ more(f) \in Nat /\ fiFtable[f].ref \in Nat
        /\ (fiFtable[f].ref = 0 => fiFtable[f].obj = Fi!None)
    BY <1>4, <1>5, RefIs
  <2>2. PointerCount(r, f) = 0 /\ PointerCount(s, f) = more(f)
    BY ONLY <1>12, f \in Fi!Entries
  <2>3. fiFtable[f].ref = 0 => more(f) = 0
    <3>1. PointerCount(fiProc[p], f) \in Nat /\ PointerCount(fiProc[p], f) <= fiFtable[f].ref
      BY PointsTo
    <3>2. /\ InOfile(fiProc[p], f) \in Nat /\ InNew(fiProc[p], f) \in Nat
          /\ Times(fiProc[p].todo, f) \in Nat /\ more(f) = InOfile(fiProc[p], f)
      BY <1>4, SlotTyped, PointersCounted
    <3> QED BY ONLY <2>1, <3>1, <3>2 DEF PointerCount
  <2> QED BY ONLY <2>1, <2>2, <2>3
<1>14. ASSUME NEW y \in Objects \ {Fi!None}
       PROVE  Cardinality(Opens(fiFtable', y)) + UserOwns(s, y) = Cardinality(Opens(fiFtable, y)) + UserOwns(r, y)
  <2>1. Opens(fiFtable', y) = Opens(fiFtable, y)
    <3>1. \A f \in Fi!Entries : /\ fiFtable'[f].ref = fiFtable[f].ref + more(f) /\ more(f) \in Nat
                                /\ fiFtable'[f].obj = fiFtable[f].obj /\ fiFtable[f].ref \in Nat
                                /\ (fiFtable[f].ref = 0 => more(f) = 0)
      BY <1>4, <1>5, <1>13, RefIs
    <3>2. \A f \in Fi!Entries : fiFtable'[f].ref > 0 <=> fiFtable[f].ref > 0
      BY ONLY <3>1
    <3> QED BY ONLY <3>1, <3>2 DEF Opens
  <2>2. UserOwns(s, y) = 0 /\ UserOwns(r, y) = 0
    BY <1>1, <1>2, <1>6 DEF UserOwns, Eq, IsOpening, GotShape
  <2> HIDE DEF r, s
  <2> QED BY ONLY <2>1, <2>2
<1>15. OwnersRight(fiFtable', fiProc', fiInode', fiPipe')
  BY <1>1, <1>6, <1>14, HandedOver
<1>16. \A u \in Users \ {q} : FdsOpen(fiProc'[u], fiFtable') /\ BlankOf(fiProc'[u], fiFtable')
  BY <1>6, <1>10
<1> QED BY <1>6, <1>8, <1>9, <1>11, <1>13, <1>15, <1>16, InvKept

-----------------------------------------------------------------------------

LEMMA FilesStart == Fi!Init => FInv
<1> SUFFICES ASSUME Fi!Init PROVE FInv
  OBVIOUS
<1> DEFINE idle == [pc |-> "unused", ofile |-> [d \in Fi!Fds |-> 0], new |-> <<>>, todo |-> <<>>,
                    rel |-> Fi!None]
           first == [idle EXCEPT !.pc = "user"]
<1>1. /\ fiFtable = [f \in Fi!Entries |-> [ref |-> 0, obj |-> Fi!None]]
      /\ fiInode = [i \in 1..NINODE |-> 0] /\ fiPipe = [k \in 1..NPIPE |-> {}]
      /\ fiProc = [p \in Users |-> IF p = FirstUser THEN first ELSE idle]
  BY DEF Fi!Init, Fi!Absent
<1>2. idle \in Opener /\ first \in Opener
  <2>1. 0 \in 0..NFILE /\ <<>> \in Seq(Nat) /\ <<>> \in Seq(Fi!Entries) /\ Fi!None \in Objects
    BY DescriptorsAssumption, ObjectsApart
  <2> QED BY <2>1 DEF Opener
<1>3. FilesTyped
  <2>1. Fi!None \in Objects
    BY ObjectsApart
  <2> HIDE DEF idle, first
  <2> QED BY <1>1, <1>2, <2>1 DEF FilesTyped
<1>4. \A p \in Users : /\ fiProc[p].pc \in {"unused", "user"} /\ fiProc[p].new = <<>>
                       /\ fiProc[p].todo = <<>> /\ fiProc[p].rel = Fi!None
                       /\ \A d \in Fi!Fds : fiProc[p].ofile[d] = 0
  BY <1>1
<1> HIDE DEF idle, first
<1>5. GotShapes
  BY <1>4 DEF GotShapes, GotShape
<1>6. Blank
  BY <1>4 DEF Blank, Fi!Got
<1>7. \A f \in Fi!Entries : fiFtable[f].ref = 0 /\ fiFtable[f].obj = Fi!None
  BY <1>1
<1>8. Fi!TableExact
  <2> SUFFICES ASSUME NEW f \in Fi!Entries PROVE Cardinality(AllPointers(fiProc, f)) = 0
    BY <1>7, FiCardinality DEF Fi!TableExact, AllPointers
  <2>1. ASSUME NEW p \in Users PROVE Fi!Pointers(fiProc[p], f) = {}
    <3>1. fiProc[p].todo = <<>> /\ Fi!Got(fiProc[p]) = {} /\ \A d \in Fi!Fds : fiProc[p].ofile[d] # f
      BY <1>4, FdsFinite DEF Fi!Got
    <3> QED BY <3>1 DEF Fi!Pointers
  <2>2. AllPointers(fiProc, f) = {}
    BY <2>1 DEF AllPointers
  <2> QED BY <2>2, FS_EmptySet
<1>9. Fi!ObjectsExact
  <2>1. ASSUME NEW o, o # Fi!None PROVE Fi!Owners(o) = 0
    <3>1. Opens(fiFtable, o) = {}
      BY <1>7 DEF Opens
    <3>2. Letting(fiProc, o) = {}
      BY <1>4, <2>1 DEF Letting
    <3>3. Opening(fiProc, o) = {}
      BY <1>4 DEF Opening, IsOpening
    <3> QED BY <3>1, <3>2, <3>3, OwnersAre, FS_EmptySet DEF OwnersOf, UsersOwn
  <2>2. \A i \in 1..NINODE : fiInode[i] = 0
    BY <1>1
  <2>3. \A k \in 1..NPIPE : fiPipe[k] = {}
    BY <1>1
  <2> QED BY <1>4, <2>1, <2>2, <2>3, ObjectsApart DEF Fi!ObjectsExact
<1> QED BY <1>3, <1>5, <1>6, <1>8, <1>9 DEF FInv, FilesExact

LEMMA FilesStep == FInv /\ [Fi!Next]_(Fi!vars) => FInv'
<1> SUFFICES ASSUME FInv, [Fi!Next]_(Fi!vars) PROVE FInv'
  OBVIOUS
<1>1. ASSUME NEW p \in Users, Fi!Fileclose(p) PROVE FInv'
  BY <1>1, FilecloseKeeps
<1>2. ASSUME NEW p \in Users, Fi!Release(p) PROVE FInv'
  BY <1>2, ReleaseKeeps
<1>3. ASSUME NEW p \in Users, NEW i \in 1..NINODE, Fi!Open(p, i) PROVE FInv'
  BY <1>3, OpenKeeps
<1>4. ASSUME NEW p \in Users, Fi!OpenFile(p) PROVE FInv'
  BY <1>4, OpenFileKeeps
<1>5. ASSUME NEW p \in Users, Fi!Filedup(p) PROVE FInv'
  BY <1>5, FiledupKeeps
<1>6. ASSUME NEW p \in Users, Fi!Pipealloc(p) PROVE FInv'
  BY <1>6, PipeallocKeeps
<1>7. ASSUME NEW p \in Users, Fi!Pipe(p) PROVE FInv'
  BY <1>7, PipeKeeps
<1>8. ASSUME NEW p \in Users, Fi!Exit(p) PROVE FInv'
  BY <1>8, ExitKeeps
<1>9. ASSUME NEW p \in Users, NEW d \in Fi!Fds, Fi!Close(p, d) PROVE FInv'
  BY <1>9, CloseKeeps
<1>10. ASSUME NEW p \in Users, NEW d \in Fi!Fds, Fi!Dup(p, d) PROVE FInv'
  BY <1>10, DupKeeps
<1>11. ASSUME NEW p \in Users, NEW q \in Users, Fi!Fork(p, q) PROVE FInv'
  BY <1>11, ForkKeeps
<1>12. CASE UNCHANGED Fi!vars
  <2>1. fiFtable' = fiFtable /\ fiInode' = fiInode /\ fiPipe' = fiPipe /\ fiProc' = fiProc
    BY <1>12 DEF Fi!vars
  <2>2. \A o : Fi!Owners(o)' = Fi!Owners(o)
    BY <2>1, OwnersAre
  <2> QED BY <2>1, <2>2 DEF FInv, FilesTyped, GotShapes, Blank, FilesExact, Fi!TableExact, Fi!ObjectsExact
<1>13. CASE Fi!Next
  BY <1>1, <1>2, <1>3, <1>4, <1>5, <1>6, <1>7, <1>8, <1>9, <1>10, <1>11, <1>13 DEF Fi!Next
<1> QED BY <1>12, <1>13

\* The file table, for every number of processes, entries, descriptors, inodes and pipes: ref
\* (file.c) counts the pointers to an entry through every failing path of open(), pipe() and
\* dup(), fork() and exit() included, and what an entry was open on is let go by fileclose()
\* exactly once, by the last to close it: an inode has as many references as owners, an open
\* end of a pipe one.
THEOREM DescriptorsExact == Fi!Spec => []FilesExact
<1>1. FInv => FilesExact
  BY DEF FInv
<1> QED BY <1>1, FilesStart, FilesStep, PTL DEF Fi!Spec

-----------------------------------------------------------------------------
(* The console: a ring again, of which a part is a line that may still be  *)
(* taken back.                                                             *)

Glyphs == Letters \cup {"nl", "eof", 0}

Gap(a, b) == (b - a) % UINT
Due(in) == Gap(in.r, in.w)
Filled(in) == Gap(in.r, in.e)
Place(in, k) == in.buf[(in.r + k - 1) % INPUT_BUF]

RingTyped(in) ==
  /\ in \in [buf : [0..INPUT_BUF - 1 -> Glyphs], r : 0..UINT - 1, w : 0..UINT - 1, e : 0..UINT - 1]
  /\ Due(in) + Gap(in.w, in.e) = Filled(in) /\ Filled(in) <= INPUT_BUF

\* The counters go round.
LEMMA Round ==
  /\ \A a, b \in 0..UINT - 1 : Gap(a, b) = IF a <= b THEN b - a ELSE b - a + UINT
  /\ \A a \in 0..UINT - 1, k \in 0..INPUT_BUF :
       /\ Co!Plus(a, k) = IF a + k < UINT THEN a + k ELSE a + k - UINT
       /\ Co!Minus(a, k) = IF k <= a THEN a - k ELSE a - k + UINT
<1>1. UINT \in Nat \ {0} /\ INPUT_BUF \in 0..UINT - 1
  BY TerminalAssumption
<1>2. \A a, b \in 0..UINT - 1 : Gap(a, b) = IF a <= b THEN b - a ELSE b - a + UINT
  BY <1>1, ModSmall DEF Gap
<1>3. ASSUME NEW a \in 0..UINT - 1, NEW k \in 0..INPUT_BUF
      PROVE  /\ Co!Plus(a, k) = IF a + k < UINT THEN a + k ELSE a + k - UINT
             /\ Co!Minus(a, k) = IF k <= a THEN a - k ELSE a - k + UINT
  <2>1. k \in 0..UINT - 1
    BY <1>1
  <2> QED BY <1>1, <2>1, ModSmall DEF Co!Plus, Co!Minus
<1> QED BY <1>2, <1>3

\* A place in the ring does not depend on how often a counter went round.
LEMMA SamePlace ==
  ASSUME NEW x \in Int
  PROVE  (x - UINT) % INPUT_BUF = x % INPUT_BUF /\ x % INPUT_BUF \in 0..INPUT_BUF - 1
<1>1. INPUT_BUF \in Nat \ {0} /\ UINT \in Int /\ UINT % INPUT_BUF = 0
  BY TerminalAssumption
<1> QED BY <1>1, ModShift, DivMod

LEMMA CrossPlace ==
  ASSUME NEW a \in 0..UINT - 1, NEW k \in 0..INPUT_BUF
  PROVE  Co!Plus(a, k) \in 0..UINT - 1 /\ Co!Plus(a, k) % INPUT_BUF = (a + k) % INPUT_BUF
<1>1. UINT \in Nat \ {0} /\ INPUT_BUF \in 0..UINT - 1 /\ a + k \in Int
  BY TerminalAssumption
<1>2. Co!Plus(a, k) = IF a + k < UINT THEN a + k ELSE a + k - UINT
  BY Round
<1>3. Co!Plus(a, k) \in 0..UINT - 1
  BY ONLY <1>1, <1>2
<1>4. Co!Plus(a, k) = a + k \/ Co!Plus(a, k) = (a + k) - UINT
  <2>1. a + k - UINT = (a + k) - UINT
    BY <1>1
  <2> QED BY ONLY <1>2, <2>1, Zenon
<1>5. ((a + k) - UINT) % INPUT_BUF = (a + k) % INPUT_BUF
  BY <1>1, SamePlace
<1> QED BY ONLY <1>3, <1>4, <1>5

\* What is in the ring, as two sequences.
QueueIs(in, q) ==
  q \in Seq(Glyphs) /\ Len(q) = Due(in) /\ \A k \in 1..Due(in) : q[k] = Place(in, k)
LineIs(in, l) ==
  /\ l \in Seq(Glyphs) /\ Len(l) = Filled(in) - Due(in)
  /\ \A k \in 1..Filled(in) - Due(in) : l[k] = Place(in, Due(in) + k)

FromOf(in, a, b) == [k \in 1..Gap(a, b) |-> in.buf[Co!Plus(a, k - 1) % INPUT_BUF]]

LEMMA RingIs ==
  ASSUME NEW in, RingTyped(in)
  PROVE  /\ Due(in) \in 0..INPUT_BUF /\ Filled(in) \in Due(in)..INPUT_BUF
         /\ Gap(in.w, in.e) = Filled(in) - Due(in)
         /\ \A k \in Int : (in.r + k - 1) % INPUT_BUF \in 0..INPUT_BUF - 1 /\ Place(in, k) \in Glyphs
<1>1. in.r \in 0..UINT - 1 /\ in.w \in 0..UINT - 1 /\ in.e \in 0..UINT - 1
      /\ in.buf \in [0..INPUT_BUF - 1 -> Glyphs]
      /\ Due(in) + Gap(in.w, in.e) = Filled(in) /\ Filled(in) <= INPUT_BUF
  BY DEF RingTyped
<1>2. UINT \in Nat \ {0} /\ INPUT_BUF \in 0..UINT - 1
  BY TerminalAssumption
<1>3. Due(in) \in Nat /\ Gap(in.w, in.e) \in Nat /\ Filled(in) \in Nat
  <2>1. \A a, b \in 0..UINT - 1 : Gap(a, b) \in Nat
    <3> SUFFICES ASSUME NEW a \in 0..UINT - 1, NEW b \in 0..UINT - 1 PROVE Gap(a, b) \in Nat
      OBVIOUS
    <3>1. Gap(a, b) = IF a <= b THEN b - a ELSE b - a + UINT
      BY Round
    <3> QED BY ONLY <1>2, <3>1
  <2> QED BY <1>1, <2>1 DEF Due, Filled
<1>4. ASSUME NEW k \in Int
      PROVE  (in.r + k - 1) % INPUT_BUF \in 0..INPUT_BUF - 1 /\ Place(in, k) \in Glyphs
  <2>1. in.r + k - 1 \in Int
    BY <1>1
  <2>2. (in.r + k - 1) % INPUT_BUF \in 0..INPUT_BUF - 1
    BY <2>1, SamePlace
  <2> QED BY <1>1, <2>2 DEF Place
<1>5. Due(in) \in 0..INPUT_BUF /\ Filled(in) \in Due(in)..INPUT_BUF
      /\ Gap(in.w, in.e) = Filled(in) - Due(in)
  BY ONLY <1>1, <1>2, <1>3
<1> QED BY <1>4, <1>5

LEMMA QueueAndLine ==
  ASSUME NEW in, RingTyped(in)
  PROVE  QueueIs(in, FromOf(in, in.r, in.w)) /\ LineIs(in, FromOf(in, in.w, in.e))
<1> DEFINE q == Due(in)
           n == Filled(in) - Due(in)
<1>1. in.r \in 0..UINT - 1 /\ in.w \in 0..UINT - 1 /\ in.e \in 0..UINT - 1
      /\ in.buf \in [0..INPUT_BUF - 1 -> Glyphs]
  BY DEF RingTyped
<1>2. /\ q \in 0..INPUT_BUF /\ n \in 0..INPUT_BUF /\ q + n <= INPUT_BUF
      /\ Gap(in.r, in.w) = q /\ Gap(in.w, in.e) = n
      /\ UINT \in Nat \ {0} /\ INPUT_BUF \in 0..UINT - 1
  BY TerminalAssumption, RingIs DEF Due
<1>3. in.w = Co!Plus(in.r, q)
  <2>1. q = IF in.r <= in.w THEN in.w - in.r ELSE in.w - in.r + UINT
    BY <1>1, Round DEF Due
  <2>2. Co!Plus(in.r, q) = IF in.r + q < UINT THEN in.r + q ELSE in.r + q - UINT
    BY <1>1, <1>2, Round
  <2> HIDE DEF q
  <2> QED BY ONLY <1>1, <1>2, <2>1, <2>2
<1> HIDE DEF q, n
<1>4. ASSUME NEW k \in 1..q PROVE in.buf[Co!Plus(in.r, k - 1) % INPUT_BUF] = Place(in, k)
  <2>1. k - 1 \in 0..INPUT_BUF /\ in.r + (k - 1) = in.r + k - 1
    BY <1>1, <1>2
  <2> QED BY <1>1, <2>1, CrossPlace DEF Place
<1>5. ASSUME NEW k \in 1..n PROVE in.buf[Co!Plus(in.w, k - 1) % INPUT_BUF] = Place(in, q + k)
  <2>1. k - 1 \in 0..INPUT_BUF /\ q + k - 1 \in 0..INPUT_BUF
        /\ in.r + (q + k - 1) = in.r + (q + k) - 1
    BY <1>1, <1>2
  <2>2. Co!Plus(in.w, k - 1) % INPUT_BUF = (in.w + (k - 1)) % INPUT_BUF
    BY <1>1, <2>1, CrossPlace
  <2>3. in.w = in.r + q \/ in.w = in.r + q - UINT
    BY <1>1, <1>2, <1>3, Round
  <2>4. ((in.r + (q + k) - 1) - UINT) % INPUT_BUF = (in.r + (q + k) - 1) % INPUT_BUF
    <3>1. in.r + (q + k) - 1 \in Int
      BY <1>1, <1>2
    <3> QED BY <3>1, SamePlace
  <2>5. in.w + (k - 1) = in.r + (q + k) - 1 \/ in.w + (k - 1) = (in.r + (q + k) - 1) - UINT
    BY ONLY <1>1, <1>2, <2>3, k \in 1..n
  <2> QED BY ONLY <2>2, <2>4, <2>5 DEF Place
<1>6. FromOf(in, in.r, in.w) = [k \in 1..q |-> Place(in, k)]
  BY <1>2, <1>4 DEF FromOf
<1>7. FromOf(in, in.w, in.e) = [k \in 1..n |-> Place(in, q + k)]
  BY <1>2, <1>5 DEF FromOf
<1>8. \A k \in Int : Place(in, k) \in Glyphs
  BY RingIs
<1>9. \A k \in 1..q : k \in Int
  BY <1>2
<1>10. \A k \in 1..n : q + k \in Int
  BY <1>2
<1>11. [k \in 1..q |-> Place(in, k)] \in Seq(Glyphs) /\ Len([k \in 1..q |-> Place(in, k)]) = q
  BY <1>2, <1>8, <1>9
<1>12. [k \in 1..n |-> Place(in, q + k)] \in Seq(Glyphs) /\ Len([k \in 1..n |-> Place(in, q + k)]) = n
  BY <1>2, <1>8, <1>10
<1> QED BY <1>6, <1>7, <1>11, <1>12 DEF QueueIs, LineIs, q, n

LEMMA Opposite ==
  ASSUME NEW a \in 0..UINT - 1, NEW b \in 0..UINT - 1, NEW k \in 0..INPUT_BUF
  PROVE  Gap(a, b) = k <=> b = Co!Plus(a, k)
<1>1. UINT \in Nat \ {0} /\ INPUT_BUF \in 0..UINT - 1
  BY TerminalAssumption
<1>2. /\ Gap(a, b) = IF a <= b THEN b - a ELSE b - a + UINT
      /\ Co!Plus(a, k) = IF a + k < UINT THEN a + k ELSE a + k - UINT
  BY Round
<1> QED BY <1>1, <1>2

EnterGives(in, c, stops, out) ==
  /\ RingTyped(out) /\ Filled(out) = Filled(in) + 1
  /\ Due(out) = (IF stops THEN Filled(in) + 1 ELSE Due(in))
  /\ \A k \in 1..Filled(in) : Place(out, k) = Place(in, k)
  /\ Place(out, Filled(in) + 1) = c
  /\ stops => out.w = out.e

\* consoleintr() stores a byte, of which the line may end.
LEMMA RingEnter ==
  ASSUME NEW in, RingTyped(in), NEW c \in Glyphs, Filled(in) < INPUT_BUF, NEW stops \in BOOLEAN, NEW out,
         out = [in EXCEPT !.buf[in.e % INPUT_BUF] = c, !.e = Co!Plus(in.e, 1),
                          !.w = IF stops THEN Co!Plus(in.e, 1) ELSE @]
  PROVE  EnterGives(in, c, stops, out)
<1> DEFINE r == in.r
           w == in.w
           e == in.e
           e1 == Co!Plus(in.e, 1)
           n == Filled(in)
           q == Due(in)
<1>1. r \in 0..UINT - 1 /\ w \in 0..UINT - 1 /\ e \in 0..UINT - 1
      /\ in.buf \in [0..INPUT_BUF - 1 -> Glyphs]
      /\ UINT \in Nat \ {0} /\ INPUT_BUF \in 0..UINT - 1 /\ INPUT_BUF \in Nat \ {0}
  BY TerminalAssumption DEF RingTyped
<1>2. n \in 0..INPUT_BUF - 1 /\ q \in 0..n /\ Gap(r, w) = q /\ Gap(w, e) = n - q /\ Gap(r, e) = n
  <2>1. q \in 0..INPUT_BUF /\ n \in q..INPUT_BUF /\ Gap(w, e) = n - q
    BY RingIs
  <2>2. n < INPUT_BUF /\ Gap(r, w) = q /\ Gap(r, e) = n
    BY DEF Due, Filled
  <2> HIDE DEF n, q, r, w, e
  <2> QED BY ONLY <1>1, <2>1, <2>2
<1>3. /\ out.buf = [in.buf EXCEPT ![e % INPUT_BUF] = c] /\ out.r = r /\ out.e = e1
      /\ out.w = IF stops THEN e1 ELSE w
  BY DEF RingTyped
<1>4. out \in [buf : [0..INPUT_BUF - 1 -> Glyphs], r : 0..UINT - 1, w : 0..UINT - 1, e : 0..UINT - 1]
  <2>1. e1 \in 0..UINT - 1
    <3>1. 1 \in 0..INPUT_BUF
      BY <1>1
    <3> QED BY <1>1, <3>1, CrossPlace
  <2> DEFINE buf == [in.buf EXCEPT ![in.e % INPUT_BUF] = c]
             v == IF stops THEN e1 ELSE w
  <2>2. out = [buf |-> buf, r |-> r, w |-> v, e |-> e1]
    BY DEF RingTyped
  <2>3. buf \in [0..INPUT_BUF - 1 -> Glyphs]
    BY <1>1
  <2>4. v \in 0..UINT - 1
    <3> HIDE DEF e1, w
    <3> QED BY <1>1, <2>1
  <2> HIDE DEF buf, v, r, e1
  <2> QED BY ONLY <1>1, <2>1, <2>2, <2>3, <2>4
<1> HIDE DEF r, w, e, e1, n, q
<1>5. e1 = (IF e + 1 < UINT THEN e + 1 ELSE e + 1 - UINT) /\ e1 \in 0..UINT - 1
  <2>1. 1 \in 0..INPUT_BUF
    BY <1>1
  <2> QED BY <1>1, <2>1, Round, CrossPlace DEF e1, e
<1>6. Gap(r, e1) = n + 1 /\ Gap(w, e1) = n - q + 1 /\ Gap(e1, e1) = 0
  <2>1. /\ Gap(r, e1) = IF r <= e1 THEN e1 - r ELSE e1 - r + UINT
        /\ Gap(w, e1) = IF w <= e1 THEN e1 - w ELSE e1 - w + UINT
        /\ Gap(e1, e1) = IF e1 <= e1 THEN e1 - e1 ELSE e1 - e1 + UINT
        /\ Gap(r, e) = IF r <= e THEN e - r ELSE e - r + UINT
        /\ Gap(w, e) = IF w <= e THEN e - w ELSE e - w + UINT
    BY <1>1, <1>5, Round
  <2> QED BY ONLY <1>1, <1>2, <1>5, <2>1
<1>7. Due(out) = (IF stops THEN n + 1 ELSE q) /\ Filled(out) = n + 1
      /\ Gap(out.w, out.e) = IF stops THEN 0 ELSE n - q + 1
  BY <1>2, <1>3, <1>6 DEF Due, Filled
<1>8. RingTyped(out)
  <2>1. Due(out) + Gap(out.w, out.e) = Filled(out) /\ Filled(out) <= INPUT_BUF
    BY ONLY <1>1, <1>2, <1>7
  <2> QED BY <1>4, <2>1 DEF RingTyped
<1>9. e % INPUT_BUF = (r + n) % INPUT_BUF
  <2>1. n \in 0..INPUT_BUF
    BY ONLY <1>1, <1>2
  <2>2. e = Co!Plus(r, n)
    BY <1>1, <1>2, <2>1, Opposite
  <2> QED BY <1>1, <2>1, <2>2, CrossPlace
<1>10. \A k \in 1..n : Place(out, k) = Place(in, k)
  <2> SUFFICES ASSUME NEW k \in 1..n PROVE Place(out, k) = Place(in, k)
    OBVIOUS
  <2> DEFINE x == r + k - 1
             y == r + n
  <2>1. x \in Int /\ y \in Int /\ x < y /\ y < x + INPUT_BUF
    BY ONLY <1>1, <1>2, k \in 1..n
  <2>2. x % INPUT_BUF # y % INPUT_BUF /\ x % INPUT_BUF \in 0..INPUT_BUF - 1
    <3> HIDE DEF x, y
    <3> QED BY <1>1, <2>1, ModDistinct, SamePlace
  <2> HIDE DEF x
  <2>3. out.buf[x % INPUT_BUF] = in.buf[x % INPUT_BUF]
    BY <1>1, <1>3, <1>9, <2>2
  <2> QED BY <1>3, <2>3 DEF Place, x, r
<1>11. Place(out, n + 1) = c
  <2>1. r + (n + 1) - 1 = r + n /\ r + n \in Int
    BY ONLY <1>1, <1>2
  <2>2. e % INPUT_BUF \in 0..INPUT_BUF - 1
    BY <1>9, <2>1, SamePlace
  <2>3. out.buf[e % INPUT_BUF] = c
    BY <1>1, <1>3, <2>2
  <2> QED BY <1>3, <1>9, <2>1, <2>3 DEF Place
<1>12. stops => out.w = out.e
  BY <1>3
<1> QED BY <1>7, <1>8, <1>10, <1>11, <1>12 DEF EnterGives, n, q

EraseGives(in, k, out) ==
  /\ RingTyped(out) /\ Filled(out) = Filled(in) - k /\ Due(out) = Due(in)
  /\ out.w = in.w /\ out.r = in.r
  /\ \A l \in Int : Place(out, l) = Place(in, l)

\* consoleintr() takes k bytes back.
LEMMA RingErase ==
  ASSUME NEW in, RingTyped(in), NEW k \in 0..Filled(in) - Due(in), NEW out,
         out = [in EXCEPT !.e = Co!Minus(@, k)]
  PROVE  EraseGives(in, k, out)
<1> DEFINE r == in.r
           w == in.w
           e == in.e
           f == Co!Minus(in.e, k)
           n == Filled(in)
           q == Due(in)
<1>1. r \in 0..UINT - 1 /\ w \in 0..UINT - 1 /\ e \in 0..UINT - 1
      /\ UINT \in Nat \ {0} /\ INPUT_BUF \in 0..UINT - 1 /\ INPUT_BUF \in Nat \ {0}
  BY TerminalAssumption DEF RingTyped
<1>2. q \in 0..INPUT_BUF /\ n \in q..INPUT_BUF /\ Gap(w, e) = n - q
      /\ Gap(r, w) = q /\ Gap(r, e) = n
  BY RingIs DEF Due, Filled
<1>3. out.buf = in.buf /\ out.r = r /\ out.e = f /\ out.w = w
  BY DEF RingTyped
<1>4. in \in [buf : [0..INPUT_BUF - 1 -> Glyphs], r : 0..UINT - 1, w : 0..UINT - 1, e : 0..UINT - 1]
  BY DEF RingTyped
<1>5. k \in 0..INPUT_BUF /\ k \in 0..n - q
  <2>1. k \in 0..n - q
    OBVIOUS
  <2> HIDE DEF n, q
  <2> QED BY ONLY <1>1, <1>2, <2>1
<1>6. f = (IF k <= e THEN e - k ELSE e - k + UINT)
  BY <1>1, <1>5, Round
<1>7. f \in 0..UINT - 1
  <2> HIDE DEF f, e
  <2> QED BY ONLY <1>1, <1>5, <1>6
<1>8. out \in [buf : [0..INPUT_BUF - 1 -> Glyphs], r : 0..UINT - 1, w : 0..UINT - 1, e : 0..UINT - 1]
  <2> HIDE DEF f
  <2> QED BY <1>4, <1>7 DEF f
<1> HIDE DEF r, w, e, f, n, q
<1>9. Gap(r, f) = n - k /\ Gap(w, f) = n - q - k
  <2>1. /\ Gap(r, f) = IF r <= f THEN f - r ELSE f - r + UINT
        /\ Gap(w, f) = IF w <= f THEN f - w ELSE f - w + UINT
        /\ Gap(r, e) = IF r <= e THEN e - r ELSE e - r + UINT
        /\ Gap(w, e) = IF w <= e THEN e - w ELSE e - w + UINT
    BY <1>1, <1>7, Round
  <2> QED BY ONLY <1>1, <1>2, <1>5, <1>6, <2>1
<1>10. Due(out) = q /\ Filled(out) = n - k /\ Gap(out.w, out.e) = n - q - k
  BY <1>2, <1>3, <1>9 DEF Due, Filled
<1>11. RingTyped(out)
  <2>1. Due(out) + Gap(out.w, out.e) = Filled(out) /\ Filled(out) <= INPUT_BUF
    BY ONLY <1>1, <1>2, <1>5, <1>10
  <2> QED BY <1>8, <2>1 DEF RingTyped
<1>12. \A l \in Int : Place(out, l) = Place(in, l)
  BY <1>3 DEF Place, r
<1> QED BY <1>3, <1>10, <1>11, <1>12 DEF EraseGives, n, q, r, w

TakeGives(in, k, out) ==
  /\ RingTyped(out) /\ Filled(out) = Filled(in) - k /\ Due(out) = Due(in) - k
  /\ out.w = in.w /\ out.e = in.e
  /\ \A l \in 1..INPUT_BUF : Place(out, l) = Place(in, k + l)

\* consoleread() takes k bytes.
LEMMA RingRead ==
  ASSUME NEW in, RingTyped(in), NEW k \in 0..Due(in), NEW out,
         out = [in EXCEPT !.r = Co!Plus(@, k)]
  PROVE  TakeGives(in, k, out)
<1> DEFINE r == in.r
           w == in.w
           e == in.e
           s == Co!Plus(in.r, k)
           n == Filled(in)
           q == Due(in)
<1>1. r \in 0..UINT - 1 /\ w \in 0..UINT - 1 /\ e \in 0..UINT - 1
      /\ UINT \in Nat \ {0} /\ INPUT_BUF \in 0..UINT - 1 /\ INPUT_BUF \in Nat \ {0}
  BY TerminalAssumption DEF RingTyped
<1>2. q \in 0..INPUT_BUF /\ n \in q..INPUT_BUF /\ Gap(w, e) = n - q
      /\ Gap(r, w) = q /\ Gap(r, e) = n
  BY RingIs DEF Due, Filled
<1>3. out.buf = in.buf /\ out.r = s /\ out.e = e /\ out.w = w
  BY DEF RingTyped
<1>4. in \in [buf : [0..INPUT_BUF - 1 -> Glyphs], r : 0..UINT - 1, w : 0..UINT - 1, e : 0..UINT - 1]
  BY DEF RingTyped
<1>5. k \in 0..INPUT_BUF /\ k \in 0..q
  <2>1. k \in 0..q
    OBVIOUS
  <2> HIDE DEF n, q
  <2> QED BY ONLY <1>1, <1>2, <2>1
<1>6. s = (IF r + k < UINT THEN r + k ELSE r + k - UINT)
  BY <1>1, <1>5, Round
<1>7. s \in 0..UINT - 1 /\ s % INPUT_BUF = (r + k) % INPUT_BUF
  BY <1>1, <1>5, CrossPlace
<1>8. out \in [buf : [0..INPUT_BUF - 1 -> Glyphs], r : 0..UINT - 1, w : 0..UINT - 1, e : 0..UINT - 1]
  <2> HIDE DEF s
  <2> QED BY <1>4, <1>7 DEF s
<1> HIDE DEF r, w, e, s, n, q
<1>9. Gap(s, w) = q - k /\ Gap(s, e) = n - k
  <2>1. /\ Gap(s, w) = IF s <= w THEN w - s ELSE w - s + UINT
        /\ Gap(s, e) = IF s <= e THEN e - s ELSE e - s + UINT
        /\ Gap(r, e) = IF r <= e THEN e - r ELSE e - r + UINT
        /\ Gap(r, w) = IF r <= w THEN w - r ELSE w - r + UINT
    BY <1>1, <1>7, Round
  <2> QED BY ONLY <1>1, <1>2, <1>5, <1>6, <2>1
<1>10. Due(out) = q - k /\ Filled(out) = n - k /\ Gap(out.w, out.e) = n - q
  BY <1>2, <1>3, <1>9 DEF Due, Filled
<1>11. RingTyped(out)
  <2>1. Due(out) + Gap(out.w, out.e) = Filled(out) /\ Filled(out) <= INPUT_BUF
    BY ONLY <1>1, <1>2, <1>5, <1>10
  <2> QED BY <1>8, <2>1 DEF RingTyped
<1>12. ASSUME NEW l \in 1..INPUT_BUF PROVE Place(out, l) = Place(in, k + l)
  <2>1. r + k + l - 1 = r + (k + l) - 1 /\ r + (k + l) - 1 \in Int
    BY ONLY <1>1, <1>5, l \in 1..INPUT_BUF
  <2>2. s + l - 1 = r + (k + l) - 1 \/ s + l - 1 = (r + (k + l) - 1) - UINT
    BY ONLY <1>1, <1>5, <1>6, l \in 1..INPUT_BUF
  <2>3. (s + l - 1) % INPUT_BUF = (r + (k + l) - 1) % INPUT_BUF
    BY <2>1, <2>2, SamePlace
  <2> QED BY <1>3, <2>3 DEF Place, r
<1> QED BY <1>3, <1>10, <1>11, <1>12 DEF TakeGives, n, q, w, e

\* The ends that consoleread() and ^U look for.
LEMMA LeastIs ==
  ASSUME NEW S \in SUBSET Nat, S # {}
  PROVE  \E x \in S : \A y \in S : x <= y
<1> DEFINE R == OpToRel(<, Nat)
<1>1. IsWellFoundedOn(R, Nat)
  BY NatLessThanWellFounded
<1>2. S \subseteq Nat
  OBVIOUS
<1>3. PICK s \in S : \A t \in S : ~(<<t, s>> \in R)
  <2> HIDE DEF R
  <2> QED BY <1>1, <1>2, WFMin
<1>4. \A t \in S : s <= t
  <2> SUFFICES ASSUME NEW t \in S PROVE s <= t
    OBVIOUS
  <2>1. ~(t < s)
    BY <1>2, <1>3 DEF OpToRel
  <2> QED BY <1>2, <2>1
<1> QED BY <1>4

LEMMA FirstIs ==
  ASSUME NEW S \in SUBSET Nat, S # {}
  PROVE  Co!Min(S) \in S /\ \A y \in S : Co!Min(S) <= y
<1>1. \E x \in S : \A y \in S : x <= y
  BY LeastIs
<1> QED BY <1>1 DEF Co!Min

LEMMA LastIs ==
  ASSUME NEW n \in Nat, NEW S \in SUBSET (0..n), S # {}
  PROVE  Co!Max(S) \in S
<1> DEFINE R == {n - k : k \in S}
<1>1. R \in SUBSET Nat /\ R # {}
  <2>1. \A k \in S : n - k \in Nat
    <3> SUFFICES ASSUME NEW k \in S PROVE n - k \in Nat
      OBVIOUS
    <3>1. k \in 0..n
      OBVIOUS
    <3> QED BY <3>1
  <2> QED BY <2>1
<1>2. PICK x \in R : \A y \in R : x <= y
  <2> HIDE DEF R
  <2> QED BY <1>1, LeastIs
<1>3. PICK k \in S : x = n - k
  OBVIOUS
<1>4. ASSUME NEW l \in S PROVE k >= l
  <2>1. n - l \in R
    OBVIOUS
  <2>2. n - k <= n - l
    BY <1>2, <1>3, <2>1
  <2> QED BY <2>2
<1>5. \E a \in S : \A b \in S : a >= b
  BY <1>4
<1> QED BY <1>5 DEF Co!Max

-----------------------------------------------------------------------------

\* Inductive: the three counters are in order and no further apart than the ring is long,
\* and a reader that goes on has not come to the end of a line.
TermInv ==
  /\ RingTyped(coInput)
  /\ coProc \in [TtyUsers -> [pc : {"user", "ready", "asleep"}, n : Int]]
  /\ coGot \in [TtyUsers -> Seq(Glyphs)]
  /\ \A p \in TtyUsers : coProc[p].pc # "user" /\ coGot[p] # <<>> => coGot[p][Len(coGot[p])] # "nl"
  /\ Co!InputSound

RingNow ==
  QueueIs(coInput, Co!From(coInput.r, coInput.w)) /\ LineIs(coInput, Co!From(coInput.w, coInput.e))

LEMMA RingIsNow == RingTyped(coInput) => RingNow
<1> SUFFICES ASSUME RingTyped(coInput) PROVE RingNow
  OBVIOUS
<1>1. \A a, b : Co!From(a, b) = FromOf(coInput, a, b)
  BY DEF Co!From, FromOf, Co!Minus, Gap
<1> QED BY <1>1, QueueAndLine DEF RingNow

LEMMA RingIsNext == RingTyped(coInput)' => RingNow'
BY RingIsNow, PTL

LEMMA TermStarts == ASSUME Co!Init PROVE TermInv /\ Co!T!Init
<1> DEFINE z == [k \in 0..INPUT_BUF - 1 |-> 0]
<1>1. coInput = [buf |-> z, r |-> 0, w |-> 0, e |-> 0]
      /\ coProc = [p \in TtyUsers |-> [pc |-> "user", n |-> 0]] /\ coGot = [p \in TtyUsers |-> <<>>]
  BY DEF Co!Init
<1>2. z \in [0..INPUT_BUF - 1 -> Glyphs] /\ 0 \in 0..UINT - 1 /\ INPUT_BUF \in Nat \ {0}
  BY TerminalAssumption DEF Glyphs
<1>3. Gap(0, 0) = 0
  BY <1>2, Round
<1> HIDE DEF z
<1>4. Due(coInput) = 0 /\ Filled(coInput) = 0 /\ Gap(coInput.w, coInput.e) = 0
  BY <1>1, <1>3 DEF Due, Filled
<1>5. RingTyped(coInput)
  BY <1>1, <1>2, <1>4 DEF RingTyped
<1>6. Co!InputSound
  BY <1>1 DEF Co!InputSound
<1>7. TermInv
  <2>1. <<>> \in Seq(Glyphs)
    OBVIOUS
  <2> QED BY <1>1, <1>5, <1>6, <2>1 DEF TermInv
<1>8. Co!From(coInput.r, coInput.w) = <<>> /\ Co!From(coInput.w, coInput.e) = <<>>
  <2>1. RingNow
    BY <1>5, RingIsNow
  <2> QED BY <1>4, <2>1, EmptySeq DEF RingNow, QueueIs, LineIs
<1> QED BY <1>1, <1>7, <1>8 DEF Co!T!Init

\* A byte after the line.
LEMMA MoreIs ==
  ASSUME NEW in, RingTyped(in), NEW q, QueueIs(in, q), NEW l, LineIs(in, l), NEW c \in Glyphs
  PROVE  /\ Append(l, c) \in Seq(Glyphs) /\ Len(Append(l, c)) = Filled(in) - Due(in) + 1
         /\ \A k \in 1..Filled(in) - Due(in) : Append(l, c)[k] = Place(in, Due(in) + k)
         /\ Append(l, c)[Filled(in) - Due(in) + 1] = c
         /\ q \o Append(l, c) \in Seq(Glyphs) /\ Len(q \o Append(l, c)) = Filled(in) + 1
         /\ \A k \in 1..Filled(in) : (q \o Append(l, c))[k] = Place(in, k)
         /\ (q \o Append(l, c))[Filled(in) + 1] = c
<1> DEFINE n == Filled(in)
           d == Due(in)
           more == Append(l, c)
           all == q \o more
<1>1. d \in Nat /\ n \in Nat /\ d <= n
  <2>1. d \in 0..INPUT_BUF /\ n \in d..INPUT_BUF /\ INPUT_BUF \in Nat
    BY RingIs, TerminalAssumption
  <2> HIDE DEF d, n
  <2> QED BY ONLY <2>1
<1>2. q \in Seq(Glyphs) /\ Len(q) = d /\ \A k \in 1..d : q[k] = Place(in, k)
  BY DEF QueueIs
<1>3. l \in Seq(Glyphs) /\ Len(l) = n - d /\ \A k \in 1..n - d : l[k] = Place(in, d + k)
  BY DEF LineIs
<1> HIDE DEF d, n
<1>4. /\ more \in Seq(Glyphs) /\ Len(more) = n - d + 1
      /\ \A k \in 1..n - d : more[k] = Place(in, d + k)
      /\ more[n - d + 1] = c
  BY <1>3, AppendProperties
<1> HIDE DEF more
<1>5. /\ all \in Seq(Glyphs) /\ Len(all) = d + (n - d + 1)
      /\ \A k \in 1..d + (n - d + 1) : all[k] = IF k <= d THEN q[k] ELSE more[k - d]
  <2>1. q \in Seq(Glyphs) /\ more \in Seq(Glyphs) /\ Len(q) = d /\ Len(more) = n - d + 1
    BY <1>2, <1>4
  <2>2. /\ q \o more \in Seq(Glyphs) /\ Len(q \o more) = Len(q) + Len(more)
        /\ \A k \in 1..Len(q) + Len(more) :
             (q \o more)[k] = IF k <= Len(q) THEN q[k] ELSE more[k - Len(q)]
    BY ONLY <2>1, ConcatProperties
  <2> QED BY ONLY <2>1, <2>2 DEF all
<1> HIDE DEF all
<1>6. d + (n - d + 1) = n + 1
  BY ONLY <1>1
<1>7. ASSUME NEW k \in 1..n PROVE all[k] = Place(in, k)
  <2>1. k \in 1..n + 1
    BY ONLY <1>1, k \in 1..n
  <2>2. CASE k <= d
    <3>1. k \in 1..d
      BY ONLY <1>1, <2>2, k \in 1..n
    <3> QED BY <1>2, <1>5, <1>6, <2>1, <2>2, <3>1
  <2>3. CASE ~(k <= d)
    <3>1. k - d \in 1..n - d /\ d + (k - d) = k
      BY ONLY <1>1, <2>3, k \in 1..n
    <3>2. more[k - d] = Place(in, d + (k - d))
      BY <1>4, <3>1
    <3> QED BY <1>5, <1>6, <2>1, <2>3, <3>1, <3>2
  <2> QED BY <2>2, <2>3
<1>8. all[n + 1] = c
  <2>1. n + 1 \in Int
    BY ONLY <1>1
  <2>2. ASSUME NEW k \in Int, k = n + 1 PROVE all[k] = c
    <3>1. k \in 1..d + (n - d + 1) /\ ~(k <= d) /\ k - d = n - d + 1
      BY ONLY <1>1, <2>2
    <3>2. all[k] = more[k - d]
      BY <1>5, <3>1
    <3> QED BY <1>4, <3>1, <3>2
  <2> QED BY ONLY <2>1, <2>2, Zenon
<1> QED BY <1>4, <1>5, <1>6, <1>7, <1>8 DEF more, all, n, d

\* The state of Tty.
TQueue == Co!From(coInput.r, coInput.w)
TLine == Co!From(coInput.w, coInput.e)

\* Each handler keeps TermInv and is a step of Tty, or none.
LEMMA EnterGoes ==
  ASSUME TermInv, NEW c \in Co!Bytes, Co!Enter(c)
  PROVE  TermInv' /\ Co!T!Enter(c)
<1> DEFINE e1 == Co!Plus(coInput.e, 1)
           stops == c \in {"nl", "eof"} \/ e1 = Co!Plus(coInput.r, INPUT_BUF)
           n == Filled(coInput)
           d == Due(coInput)
           more == Append(TLine, c)
           all == TQueue \o more
<1>1. RingTyped(coInput) /\ QueueIs(coInput, TQueue) /\ LineIs(coInput, TLine)
  BY RingIsNow DEF TermInv, RingNow, TQueue, TLine
<1>2. d \in 0..INPUT_BUF /\ n \in d..INPUT_BUF /\ INPUT_BUF \in Nat \ {0} /\ c \in Glyphs
  BY <1>1, RingIs, TerminalAssumption DEF Co!Bytes, Co!Newline, Co!Eof, Glyphs
<1>3. n < INPUT_BUF
  BY DEF Co!Enter, Co!Minus, Filled, Gap
<1>4. coInput' = [coInput EXCEPT !.buf[coInput.e % INPUT_BUF] = c, !.e = e1,
                                 !.w = IF stops THEN e1 ELSE @]
      /\ coProc' = (IF stops THEN Co!Wakeup ELSE coProc) /\ coGot' = coGot
  BY DEF Co!Enter, Co!Newline, Co!Eof
<1>5. stops \in BOOLEAN
  OBVIOUS
<1> HIDE DEF stops
<1>6. /\ RingTyped(coInput') /\ Filled(coInput') = n + 1
      /\ Due(coInput') = (IF stops THEN n + 1 ELSE d)
      /\ \A k \in 1..n : Place(coInput', k) = Place(coInput, k)
      /\ Place(coInput', n + 1) = c
      /\ stops => coInput'.w = coInput'.e
  <2>1. coInput' = [coInput EXCEPT !.buf[coInput.e % INPUT_BUF] = c, !.e = Co!Plus(coInput.e, 1),
                                   !.w = IF stops THEN Co!Plus(coInput.e, 1) ELSE @]
    BY <1>4
  <2>2. c \in Glyphs /\ Filled(coInput) < INPUT_BUF
    BY <1>2, <1>3
  <2> HIDE DEF e1, n, d
  <2>3. CASE stops
    <3>1. coInput' = [coInput EXCEPT !.buf[coInput.e % INPUT_BUF] = c, !.e = Co!Plus(coInput.e, 1),
                                     !.w = IF TRUE THEN Co!Plus(coInput.e, 1) ELSE @]
      BY <2>1, <2>3
    <3>2. EnterGives(coInput, c, TRUE, coInput')
      BY ONLY <1>1, <2>2, <3>1, RingEnter
    <3> QED BY <2>3, <3>2 DEF EnterGives, n, d
  <2>4. CASE ~stops
    <3>1. coInput' = [coInput EXCEPT !.buf[coInput.e % INPUT_BUF] = c, !.e = Co!Plus(coInput.e, 1),
                                     !.w = IF FALSE THEN Co!Plus(coInput.e, 1) ELSE @]
      BY <2>1, <2>4
    <3>2. EnterGives(coInput, c, FALSE, coInput')
      BY ONLY <1>1, <2>2, <3>1, RingEnter
    <3> QED BY <2>4, <3>2 DEF EnterGives, n, d
  <2> QED BY <2>3, <2>4
<1>7. coInput'.e = e1 /\ coInput'.r = coInput.r /\ (~stops => coInput'.w = coInput.w)
  BY <1>1, <1>4 DEF RingTyped
<1>8. stops <=> c \in {"nl", "eof"} \/ n + 1 = INPUT_BUF
  <2>1. coInput.r \in 0..UINT - 1 /\ e1 \in 0..UINT - 1
    BY <1>1, <1>6, <1>7 DEF RingTyped
  <2>2. INPUT_BUF \in 0..INPUT_BUF
    BY <1>2
  <2>3. Gap(coInput.r, e1) = n + 1
    BY <1>6, <1>7 DEF Filled
  <2>4. Gap(coInput.r, e1) = INPUT_BUF <=> e1 = Co!Plus(coInput.r, INPUT_BUF)
    <3> HIDE DEF e1
    <3> QED BY <2>1, <2>2, Opposite
  <2> QED BY <2>3, <2>4 DEF stops
<1>9. /\ TQueue' \in Seq(Glyphs) /\ Len(TQueue') = Due(coInput')
      /\ \A k \in 1..Due(coInput') : TQueue'[k] = Place(coInput', k)
      /\ TLine' \in Seq(Glyphs) /\ Len(TLine') = Filled(coInput') - Due(coInput')
      /\ \A k \in 1..Filled(coInput') - Due(coInput') : TLine'[k] = Place(coInput', Due(coInput') + k)
  BY <1>6, RingIsNext DEF RingNow, TQueue, TLine, QueueIs, LineIs
<1>10. /\ more \in Seq(Glyphs) /\ Len(more) = n - d + 1
       /\ \A k \in 1..n - d : more[k] = Place(coInput, d + k)
       /\ more[n - d + 1] = c
       /\ all \in Seq(Glyphs) /\ Len(all) = n + 1
       /\ \A k \in 1..n : all[k] = Place(coInput, k)
       /\ all[n + 1] = c
  <2> HIDE DEF TQueue, TLine
  <2> QED BY ONLY <1>1, <1>2, MoreIs DEF more, all, n, d
<1> HIDE DEF e1, n, d, more, all
<1>11. ASSUME stops PROVE TQueue' = all /\ TLine' = <<>> /\ (c \in {"nl", "eof"} \/ Len(all) = INPUT_BUF)
  <2>0. Filled(coInput') = n + 1 /\ Due(coInput') = n + 1
    BY <1>6, <1>11
  <2>1. TQueue' = all
    <3>1. TQueue' \in Seq(Glyphs) /\ Len(TQueue') = n + 1 /\ \A k \in 1..n + 1 : TQueue'[k] = Place(coInput', k)
      BY ONLY <1>9, <2>0
    <3>2. ASSUME NEW k \in 1..n + 1 PROVE TQueue'[k] = all[k]
      <4>1. k \in 1..n \/ k = n + 1
        BY ONLY <1>2, k \in 1..n + 1
      <4> QED BY <1>6, <1>10, <3>1, <4>1
    <3> QED BY <1>10, <3>1, <3>2, SeqEqual
  <2>2. TLine' = <<>>
    <3>1. Filled(coInput') - Due(coInput') = 0
      BY <1>2, <2>0
    <3>2. TLine' \in Seq(Glyphs) /\ Len(TLine') = 0
      BY ONLY <1>9, <3>1
    <3> QED BY <3>2, EmptySeq
  <2>3. c \in {"nl", "eof"} \/ Len(all) = INPUT_BUF
    BY <1>8, <1>10, <1>11
  <2> QED BY <2>1, <2>2, <2>3
<1>12. ASSUME ~stops PROVE TQueue' = TQueue /\ TLine' = more /\ ~(c \in {"nl", "eof"} \/ Len(all) = INPUT_BUF)
  <2>0. Filled(coInput') = n + 1 /\ Due(coInput') = d
    BY <1>6, <1>12
  <2>1. TQueue' = TQueue
    <3>1. TQueue' \in Seq(Glyphs) /\ Len(TQueue') = d /\ \A k \in 1..d : TQueue'[k] = Place(coInput', k)
      BY ONLY <1>9, <2>0
    <3>2. TQueue \in Seq(Glyphs) /\ Len(TQueue) = d /\ \A k \in 1..d : TQueue[k] = Place(coInput, k)
      BY <1>1 DEF QueueIs, d
    <3>3. \A k \in 1..d : k \in 1..n
      BY ONLY <1>2
    <3>4. \A k \in 1..d : TQueue'[k] = TQueue[k]
      BY <1>6, <3>1, <3>2, <3>3
    <3> QED BY <3>1, <3>2, <3>4, SeqEqual
  <2>2. TLine' = more
    <3>0. Filled(coInput') - Due(coInput') = n + 1 - d
      BY <1>2, <2>0
    <3>1. /\ TLine' \in Seq(Glyphs) /\ Len(TLine') = n + 1 - d
          /\ \A k \in 1..n + 1 - d : TLine'[k] = Place(coInput', d + k)
      BY ONLY <1>9, <2>0, <3>0
    <3>2. ASSUME NEW k \in 1..n + 1 - d PROVE TLine'[k] = more[k]
      <4>1. k \in 1..n - d \/ k = n - d + 1
        BY ONLY <1>2, k \in 1..n + 1 - d
      <4>2. CASE k \in 1..n - d
        <5>1. d + k \in 1..n
          BY ONLY <1>2, <4>2
        <5> QED BY <1>6, <1>10, <3>1, <4>2, <5>1
      <4>3. CASE k = n - d + 1
        <5>1. d + k = n + 1
          BY ONLY <1>2, <4>3
        <5> QED BY <1>6, <1>10, <3>1, <4>3, <5>1
      <4> QED BY <4>1, <4>2, <4>3
    <3>3. n + 1 - d = n - d + 1
      BY ONLY <1>2
    <3> QED BY <1>10, <3>1, <3>2, <3>3, SeqEqual
  <2>3. ~(c \in {"nl", "eof"} \/ Len(all) = INPUT_BUF)
    BY <1>8, <1>10, <1>12
  <2> QED BY <2>1, <2>2, <2>3
<1>13. Co!T!Enter(c)
  <2>1. Len(all) <= INPUT_BUF
    BY <1>2, <1>3, <1>10
  <2>2. coGot' = coGot
    BY <1>4
  <2>3. IF c \in {"nl", "eof"} \/ Len(all) = INPUT_BUF
        THEN TQueue' = all /\ TLine' = <<>> ELSE TLine' = more /\ TQueue' = TQueue
    <3>1. CASE stops
      BY <1>8, <1>10, <1>11, <3>1
    <3>2. CASE ~stops
      BY <1>8, <1>10, <1>12, <3>2
    <3> QED BY <3>1, <3>2
  <2> QED BY <2>1, <2>2, <2>3 DEF Co!T!Enter, all, more, TQueue, TLine, Co!Newline, Co!Eof
<1>14. TermInv'
  <2>1. RingTyped(coInput)'
    BY <1>6
  <2>2. /\ coProc' \in [TtyUsers -> [pc : {"user", "ready", "asleep"}, n : Int]]
        /\ \A p \in TtyUsers : /\ coProc'[p].pc = "user" <=> coProc[p].pc = "user"
                               /\ coProc'[p].pc = "asleep" => coProc[p].pc = "asleep" /\ ~stops
    BY <1>4 DEF Co!Wakeup, TermInv
  <2>3. Co!InputSound'
    <3>1. ASSUME NEW p \in TtyUsers, coProc'[p].pc = "asleep" PROVE coInput'.r = coInput'.w
      BY <1>7, <2>2, <3>1 DEF TermInv, Co!InputSound
    <3>2. ASSUME (coInput'.e - coInput'.r) % UINT = INPUT_BUF PROVE coInput'.w = coInput'.e
      <4>1. n + 1 = INPUT_BUF
        BY <1>6, <3>2 DEF Filled, Gap
      <4> QED BY <1>6, <1>8, <4>1
    <3> QED BY <3>1, <3>2 DEF Co!InputSound, Co!Minus
  <2>4. coGot' \in [TtyUsers -> Seq(Glyphs)]
        /\ \A p \in TtyUsers : coProc'[p].pc # "user" /\ coGot'[p] # <<>> => coGot'[p][Len(coGot'[p])] # "nl"
    BY <1>4, <2>2 DEF TermInv
  <2> QED BY <2>1, <2>2, <2>3, <2>4 DEF TermInv
<1> QED BY <1>13, <1>14

LEMMA EraseGoes ==
  ASSUME TermInv, NEW key, Co!Erase(key)
  PROVE  TermInv' /\ ((\E j \in 0..Len(TLine) - 1 : Co!T!Erase(j)) \/ UNCHANGED Co!T!vars)
<1> DEFINE n == Filled(coInput)
           d == Due(coInput)
           S == {0} \cup {k \in 1..Len(TLine) : TLine[k] = "nl"}
           kept == Co!Max(S)
           k == IF key = "bs" THEN 1 ELSE Len(TLine) - kept
<1>1. RingTyped(coInput) /\ QueueIs(coInput, TQueue) /\ LineIs(coInput, TLine)
  BY RingIsNow DEF TermInv, RingNow, TQueue, TLine
<1>2. /\ d \in 0..INPUT_BUF /\ n \in d..INPUT_BUF /\ INPUT_BUF \in Nat \ {0}
      /\ Gap(coInput.w, coInput.e) = n - d /\ Len(TLine) = n - d
  BY <1>1, RingIs, TerminalAssumption DEF LineIs
<1>3. coInput' = [coInput EXCEPT !.e = Co!Minus(@, k)] /\ coInput.e # coInput.w
      /\ coProc' = coProc /\ coGot' = coGot
  BY DEF Co!Erase, Co!Newline, TLine
<1>4. n - d # 0
  <2>1. coInput.w \in 0..UINT - 1 /\ coInput.e \in 0..UINT - 1 /\ UINT \in Nat
    BY <1>1, TerminalAssumption DEF RingTyped
  <2>2. Gap(coInput.w, coInput.e) =
          IF coInput.w <= coInput.e THEN coInput.e - coInput.w ELSE coInput.e - coInput.w + UINT
    BY <2>1, Round
  <2> HIDE DEF n, d
  <2> QED BY <1>2, <1>3, <2>1, <2>2
<1> HIDE DEF n, d
<1>5. n - d \in Nat /\ S \in SUBSET (0..n - d) /\ S # {}
  BY <1>2
<1>6. kept \in 0..n - d
  <2> HIDE DEF S
  <2> QED BY <1>5, LastIs
<1> HIDE DEF kept
<1>7. k \in 0..n - d
  BY <1>2, <1>4, <1>5, <1>6
<1> HIDE DEF k
<1>8. /\ RingTyped(coInput') /\ Filled(coInput') = n - k /\ Due(coInput') = d
      /\ coInput'.w = coInput.w /\ coInput'.r = coInput.r
      /\ \A l \in Int : Place(coInput', l) = Place(coInput, l)
  <2>1. coInput' = [coInput EXCEPT !.e = Co!Minus(@, k)] /\ k \in 0..Filled(coInput) - Due(coInput)
    BY <1>3, <1>7 DEF n, d
  <2>2. EraseGives(coInput, k, coInput')
    BY ONLY <1>1, <2>1, RingErase
  <2> QED BY <2>2 DEF EraseGives, n, d
<1>9. /\ TQueue' \in Seq(Glyphs) /\ Len(TQueue') = d
      /\ \A l \in 1..d : TQueue'[l] = Place(coInput', l)
      /\ TLine' \in Seq(Glyphs) /\ Len(TLine') = n - k - d
      /\ \A l \in 1..n - k - d : TLine'[l] = Place(coInput', d + l)
  BY <1>8, RingIsNext DEF RingNow, TQueue, TLine, QueueIs, LineIs
<1>10. /\ TQueue \in Seq(Glyphs) /\ Len(TQueue) = d
       /\ \A l \in 1..d : TQueue[l] = Place(coInput, l)
       /\ TLine \in Seq(Glyphs) /\ Len(TLine) = n - d
       /\ \A l \in 1..n - d : TLine[l] = Place(coInput, d + l)
  BY <1>1 DEF QueueIs, LineIs, n, d
<1>11. TQueue' = TQueue
  <2>1. \A l \in 1..d : l \in Int
    BY <1>2
  <2>2. \A l \in 1..d : TQueue'[l] = TQueue[l]
    BY <1>8, <1>9, <1>10, <2>1
  <2> QED BY <1>9, <1>10, <2>2, SeqEqual
<1>12. TLine' = SubSeq(TLine, 1, n - d - k)
  <2> DEFINE m == n - d - k
             s == SubSeq(TLine, 1, m)
  <2>1. m \in Nat /\ m <= n - d /\ m = n - k - d /\ (1 <= m \/ m = 0)
    BY ONLY <1>2, <1>7
  <2> HIDE DEF m
  <2>2. \A l \in 1..m : l \in 1..n - d
    BY ONLY <1>2, <2>1
  <2>3. \A l \in 1..m : TLine[l] \in Glyphs
    BY <1>10, <2>2, <1>2
  <2>4. s \in Seq(Glyphs) /\ Len(s) = (IF 1 <= m THEN m - 1 + 1 ELSE 0)
        /\ \A l \in 1..m - 1 + 1 : s[l] = TLine[1 + l - 1]
    <3>1. 1 \in Int /\ m \in Int
      BY <2>1
    <3> QED BY <2>3, <3>1, SubSeqProperties
  <2> HIDE DEF s
  <2>5. Len(s) = m
    BY <2>1, <2>4
  <2>6. ASSUME NEW l \in 1..m PROVE TLine'[l] = s[l]
    <3>1. l \in 1..m - 1 + 1 /\ 1 + l - 1 = l /\ d + l \in Int /\ l \in 1..n - k - d
      BY ONLY <1>2, <2>1, l \in 1..m
    <3>2. s[l] = TLine[l]
      BY <2>4, <3>1
    <3> QED BY <1>8, <1>9, <1>10, <2>2, <3>1, <3>2
  <2>7. TLine' = s
    <3>1. Len(TLine') = m
      BY <1>9, <2>1
    <3> QED BY <1>9, <2>4, <2>5, <2>6, <3>1, SeqEqual
  <2> QED BY <2>7 DEF s, m
<1>13. (\E j \in 0..Len(TLine) - 1 : Co!T!Erase(j)) \/ UNCHANGED Co!T!vars
  <2>1. CASE k = 0
    <3>1. n - d - k = Len(TLine)
      BY <1>2, <1>10, <2>1
    <3>2. SubSeq(TLine, 1, Len(TLine)) = TLine
      BY <1>10, SubSeqFull
    <3>3. TLine' = TLine
      BY <1>12, <3>1, <3>2
    <3> QED BY <1>3, <1>11, <3>3 DEF Co!T!vars, TQueue, TLine
  <2>2. CASE k # 0
    <3>1. n - d - k \in 0..Len(TLine) - 1
      BY <1>2, <1>7, <1>10, <2>2
    <3>2. Co!T!Erase(n - d - k)
      BY <1>3, <1>11, <1>12 DEF Co!T!Erase, TQueue, TLine
    <3> QED BY <3>1, <3>2
  <2> QED BY <2>1, <2>2
<1>14. TermInv'
  <2>1. RingTyped(coInput)'
    BY <1>8
  <2>2. Co!InputSound'
    <3>1. ASSUME NEW p \in TtyUsers, coProc'[p].pc = "asleep" PROVE coInput'.r = coInput'.w
      BY <1>3, <1>8, <3>1 DEF TermInv, Co!InputSound
    <3>2. (coInput'.e - coInput'.r) % UINT # INPUT_BUF
      <4> SUFFICES ASSUME (coInput'.e - coInput'.r) % UINT = INPUT_BUF PROVE FALSE
        OBVIOUS
      <4>1. n - k = INPUT_BUF
        BY <1>8 DEF Filled, Gap
      <4>2. n = INPUT_BUF
        BY <1>2, <1>7, <4>1
      <4> QED BY <1>3, <4>2 DEF TermInv, Co!InputSound, Co!Minus, n, Filled, Gap
    <3> QED BY <3>1, <3>2 DEF Co!InputSound, Co!Minus
  <2> QED BY <1>3, <2>1, <2>2 DEF TermInv
<1> QED BY <1>13, <1>14

\* The counter of the readers goes on by m bytes.
LEMMA TakeIs ==
  ASSUME TermInv, NEW m \in 0..Due(coInput), coInput' = [coInput EXCEPT !.r = Co!Plus(@, m)]
  PROVE  /\ RingTyped(coInput') /\ TQueue' = SubSeq(TQueue, m + 1, Len(TQueue)) /\ TLine' = TLine
         /\ (coInput'.e - coInput'.r) % UINT = INPUT_BUF => coInput'.w = coInput'.e
<1> DEFINE n == Filled(coInput)
           d == Due(coInput)
           s == SubSeq(TQueue, m + 1, Len(TQueue))
<1>1. RingTyped(coInput) /\ QueueIs(coInput, TQueue) /\ LineIs(coInput, TLine)
  BY RingIsNow DEF TermInv, RingNow, TQueue, TLine
<1>2. d \in 0..INPUT_BUF /\ n \in d..INPUT_BUF /\ INPUT_BUF \in Nat \ {0}
  BY <1>1, RingIs, TerminalAssumption
<1>3. m \in 0..d
  OBVIOUS
<1>4. TakeGives(coInput, m, coInput')
  BY ONLY <1>1, RingRead, m \in 0..Due(coInput), coInput' = [coInput EXCEPT !.r = Co!Plus(@, m)]
<1>5. /\ RingTyped(coInput') /\ Filled(coInput') = n - m /\ Due(coInput') = d - m
      /\ coInput'.w = coInput.w /\ coInput'.e = coInput.e
      /\ \A l \in 1..INPUT_BUF : Place(coInput', l) = Place(coInput, m + l)
  BY <1>4 DEF TakeGives
<1> HIDE DEF n, d
<1>6. n - m - (d - m) = n - d
  BY ONLY <1>2, <1>3
<1>7. /\ TQueue' \in Seq(Glyphs) /\ Len(TQueue') = d - m
      /\ \A l \in 1..d - m : TQueue'[l] = Place(coInput', l)
      /\ TLine' \in Seq(Glyphs) /\ Len(TLine') = n - d
      /\ \A l \in 1..n - d : TLine'[l] = Place(coInput', d - m + l)
  BY <1>5, <1>6, RingIsNext DEF RingNow, TQueue, TLine, QueueIs, LineIs
<1>8. /\ TQueue \in Seq(Glyphs) /\ Len(TQueue) = d
      /\ \A l \in 1..d : TQueue[l] = Place(coInput, l)
      /\ TLine \in Seq(Glyphs) /\ Len(TLine) = n - d
      /\ \A l \in 1..n - d : TLine[l] = Place(coInput, d + l)
  BY <1>1 DEF QueueIs, LineIs, n, d
<1>9. TQueue' = s
  <2>1. m + 1 \in Int /\ Len(TQueue) \in Int
    BY ONLY <1>2, <1>3, <1>8
  <2>2. \A l \in m + 1..Len(TQueue) : TQueue[l] \in Glyphs
    <3>1. \A l \in m + 1..Len(TQueue) : l \in 1..Len(TQueue)
      BY ONLY <1>2, <1>3, <1>8
    <3> QED BY <1>8, <3>1
  <2>3. /\ s \in Seq(Glyphs) /\ Len(s) = (IF m + 1 <= Len(TQueue) THEN Len(TQueue) - (m + 1) + 1 ELSE 0)
        /\ \A l \in 1..Len(TQueue) - (m + 1) + 1 : s[l] = TQueue[m + 1 + l - 1]
    BY <2>1, <2>2, SubSeqProperties
  <2> HIDE DEF s
  <2>4. Len(s) = d - m
    BY <1>2, <1>3, <1>8, <2>3
  <2>5. ASSUME NEW l \in 1..d - m PROVE TQueue'[l] = s[l]
    <3>1. l \in 1..d - (m + 1) + 1 /\ m + 1 + l - 1 = m + l /\ l \in 1..INPUT_BUF /\ m + l \in 1..d
      BY ONLY <1>2, <1>3, l \in 1..d - m
    <3>2. s[l] = TQueue[m + l]
      BY <1>8, <2>3, <3>1
    <3> QED BY <1>5, <1>7, <1>8, <3>1, <3>2
  <2> QED BY <1>7, <2>3, <2>4, <2>5, SeqEqual
<1>10. TLine' = TLine
  <2>1. ASSUME NEW l \in 1..n - d PROVE TLine'[l] = TLine[l]
    <3>1. d - m + l \in 1..INPUT_BUF /\ m + (d - m + l) = d + l
      BY ONLY <1>2, <1>3, l \in 1..n - d
    <3>2. TLine'[l] = Place(coInput', d - m + l)
      BY ONLY <1>7, l \in 1..n - d
    <3>3. Place(coInput', d - m + l) = Place(coInput, m + (d - m + l))
      BY ONLY <1>5, <3>1
    <3>4. TLine[l] = Place(coInput, d + l)
      BY ONLY <1>8, l \in 1..n - d
    <3>5. Place(coInput, m + (d - m + l)) = Place(coInput, d + l)
      BY ONLY <3>1
    <3> QED BY ONLY <3>2, <3>3, <3>4, <3>5
  <2> QED BY <1>7, <1>8, <2>1, SeqEqual
<1>11. ASSUME (coInput'.e - coInput'.r) % UINT = INPUT_BUF PROVE coInput'.w = coInput'.e
  <2>1. n - m = INPUT_BUF
    BY <1>5, <1>11 DEF Filled, Gap
  <2>2. n = INPUT_BUF
    BY ONLY <1>2, <1>3, <2>1
  <2> QED BY <1>5, <2>2 DEF TermInv, Co!InputSound, Co!Minus, n, Filled, Gap
<1> QED BY <1>5, <1>9, <1>10, <1>11 DEF s

\* The end of a reader's bytes.
LEMMA TakenIs ==
  ASSUME TermInv, NEW p \in TtyUsers, coProc[p].pc = "ready", NEW j \in 0..Len(TQueue),
         \A i \in 1..j : TQueue[i] # "eof" /\ (TQueue[i] = "nl" => i = j)
  PROVE  /\ coGot[p] \o SubSeq(TQueue, 1, j) \in Seq(Glyphs)
         /\ coGot[p] \o SubSeq(TQueue, 1, j) = <<>> => coGot[p] = <<>> /\ j = 0
         /\ \A i \in 1..j : SubSeq(TQueue, 1, j)[i] # "eof" /\ (SubSeq(TQueue, 1, j)[i] = "nl" => i = j)
         /\ (j > 0 /\ coGot[p] # <<>>) => coGot[p][Len(coGot[p])] # "nl"
         /\ \/ j > 0 /\ TQueue[j] = "nl"
            \/ LET new == coGot[p] \o SubSeq(TQueue, 1, j) IN new # <<>> => new[Len(new)] # "nl"
<1> DEFINE s == SubSeq(TQueue, 1, j)
           new == coGot[p] \o s
<1>1. coGot[p] \in Seq(Glyphs) /\ TQueue \in Seq(Glyphs)
      /\ (coGot[p] # <<>> => coGot[p][Len(coGot[p])] # "nl")
  BY RingIsNow DEF TermInv, RingNow, TQueue, QueueIs
<1>2. j \in Nat /\ j <= Len(TQueue) /\ Len(TQueue) \in Nat
  BY <1>1
<1>3. s \in Seq(Glyphs) /\ Len(s) = j /\ \A i \in 1..j : s[i] = TQueue[i]
  <2>1. \A i \in 1..j : TQueue[i] \in Glyphs
    BY <1>1, <1>2
  <2>2. /\ s \in Seq(Glyphs) /\ Len(s) = (IF 1 <= j THEN j - 1 + 1 ELSE 0)
        /\ \A i \in 1..j - 1 + 1 : s[i] = TQueue[1 + i - 1]
    BY <1>2, <2>1, SubSeqProperties
  <2> HIDE DEF s
  <2>3. Len(s) = j
    BY ONLY <1>2, <2>2
  <2>4. ASSUME NEW i \in 1..j PROVE s[i] = TQueue[i]
    <3>1. i \in 1..j - 1 + 1 /\ 1 + i - 1 = i
      BY ONLY <1>2, i \in 1..j
    <3> QED BY <2>2, <3>1
  <2> QED BY <2>2, <2>3, <2>4
<1> HIDE DEF s
<1>4. /\ new \in Seq(Glyphs) /\ Len(new) = Len(coGot[p]) + Len(s)
      /\ \A i \in 1..Len(coGot[p]) + Len(s) :
           new[i] = IF i <= Len(coGot[p]) THEN coGot[p][i] ELSE s[i - Len(coGot[p])]
  BY ONLY <1>1, <1>3, ConcatProperties DEF new
<1>5. Len(coGot[p]) \in Nat /\ (coGot[p] # <<>> => Len(coGot[p]) > 0) /\ (new # <<>> => Len(new) \in Nat \ {0})
  <2> HIDE DEF new
  <2> QED BY <1>1, <1>4, EmptySeq
<1> HIDE DEF new
<1>6. new = <<>> => coGot[p] = <<>> /\ j = 0
  <2> SUFFICES ASSUME new = <<>> PROVE coGot[p] = <<>> /\ j = 0
    OBVIOUS
  <2>1. Len(coGot[p]) + j = 0
    BY <1>3, <1>4
  <2> QED BY <1>2, <1>5, <2>1
<1>7. ASSUME new # <<>>, ~(j > 0 /\ TQueue[j] = "nl") PROVE new[Len(new)] # "nl"
  <2>1. CASE j > 0
    <3> DEFINE k == Len(coGot[p]) + j
    <3>1. k \in 1..Len(coGot[p]) + Len(s) /\ ~(k <= Len(coGot[p])) /\ k - Len(coGot[p]) = j /\ j \in 1..j
      BY <1>2, <1>3, <1>5, <2>1
    <3> HIDE DEF k
    <3>2. new[k] = s[j] /\ s[j] = TQueue[j]
      BY <1>3, <1>4, <3>1
    <3> QED BY <1>3, <1>4, <1>7, <2>1, <3>2 DEF k
  <2>2. CASE j = 0
    <3> DEFINE k == Len(coGot[p])
    <3>1. k \in 1..k + Len(s) /\ k <= k /\ Len(new) = k
      BY <1>2, <1>3, <1>4, <1>5, <1>7, <2>2
    <3>2. new[k] = coGot[p][k]
      BY <1>4, <3>1
    <3>3. coGot[p] # <<>>
      BY <1>5, <3>1
    <3> QED BY <1>1, <3>1, <3>2, <3>3
  <2> QED BY <1>2, <2>1, <2>2
<1>8. \A i \in 1..j : s[i] # "eof" /\ (s[i] = "nl" => i = j)
  BY <1>3
<1> QED BY <1>1, <1>4, <1>6, <1>7, <1>8 DEF new, s

\* The loop of consoleread() meets the end of its request, or of a line.
LEMMA ReadEnds ==
  ASSUME TermInv, NEW p \in TtyUsers, coProc[p].pc = "ready", NEW stops \in SUBSET (1..Len(TQueue)), stops # {},
         \A i \in 1..Len(TQueue) : TQueue[i] \in {"nl", "eof"} => i \in stops,
         NEW last, last = Co!Min(stops), NEW j, j = (IF TQueue[last] = "eof" THEN last - 1 ELSE last),
         NEW copied, copied = coGot[p] \o SubSeq(TQueue, 1, j),
         coInput' = [coInput EXCEPT !.r = Co!Plus(@, IF TQueue[last] = "eof" /\ copied # <<>> THEN last - 1 ELSE last)],
         coGot' = [coGot EXCEPT ![p] = copied],
         coProc' = [coProc EXCEPT ![p] = [pc |-> "user", n |-> 0]]
  PROVE  TermInv' /\ \E k \in 0..Len(TQueue) : Co!T!Get(p, k)
<1> DEFINE d == Due(coInput)
           m == IF TQueue[last] = "eof" /\ copied # <<>> THEN last - 1 ELSE last
<1>1. RingTyped(coInput) /\ TQueue \in Seq(Glyphs) /\ Len(TQueue) = d
  BY RingIsNow DEF TermInv, RingNow, TQueue, QueueIs
<1>2. d \in Nat
  BY <1>1
<1>3. last \in stops /\ \A y \in stops : last <= y
  <2>1. stops \in SUBSET Nat
    BY <1>1
  <2> QED BY <2>1, FirstIs
<1>4. last \in 1..d
  BY <1>1, <1>3
<1> HIDE DEF d
<1>5. j \in 0..Len(TQueue) /\ j <= last
      /\ (TQueue[last] # "eof" => j = last) /\ (TQueue[last] = "eof" => j = last - 1)
  BY <1>1, <1>2, <1>4
<1>6. \A i \in 1..j : TQueue[i] # "eof" /\ (TQueue[i] = "nl" => i = j)
  <2> SUFFICES ASSUME NEW i \in 1..j PROVE TQueue[i] # "eof" /\ (TQueue[i] = "nl" => i = j)
    OBVIOUS
  <2>1. i \in 1..Len(TQueue) /\ (i < last \/ i = last)
    BY <1>1, <1>4, <1>5
  <2>2. CASE i < last
    <3>1. i \notin stops
      BY <1>3, <1>4, <2>1, <2>2
    <3> QED BY <2>1, <3>1
  <2>3. CASE i = last
    <3>1. TQueue[last] # "eof"
      <4> SUFFICES ASSUME TQueue[last] = "eof" PROVE FALSE
        OBVIOUS
      <4>1. i \in 1..last - 1
        BY <1>5
      <4> QED BY <1>4, <2>3, <4>1
    <3> QED BY <1>5, <2>3, <3>1
  <2> QED BY <2>1, <2>2, <2>3
<1>7. coInput' = [coInput EXCEPT !.r = Co!Plus(@, m)]
  OBVIOUS
<1>8. /\ copied \in Seq(Glyphs)
      /\ copied = <<>> => coGot[p] = <<>> /\ j = 0
      /\ \A i \in 1..j : SubSeq(TQueue, 1, j)[i] # "eof" /\ (SubSeq(TQueue, 1, j)[i] = "nl" => i = j)
      /\ (j > 0 /\ coGot[p] # <<>>) => coGot[p][Len(coGot[p])] # "nl"
  BY <1>5, <1>6, TakenIs
<1>9. m \in 0..d /\ (j = m \/ (j = 0 /\ m = 1 /\ copied = <<>> /\ TQueue[1] = "eof"))
  <2>1. CASE TQueue[last] # "eof"
    BY <1>1, <1>2, <1>4, <1>5, <2>1
  <2>2. CASE TQueue[last] = "eof" /\ copied # <<>>
    BY <1>1, <1>2, <1>4, <1>5, <2>2
  <2>3. CASE TQueue[last] = "eof" /\ copied = <<>>
    <3>1. j = last - 1 /\ m = last /\ j = 0
      BY <1>5, <1>8, <2>3
    <3>2. last = 1
      BY <1>4, <3>1
    <3> QED BY <1>2, <1>4, <2>3, <3>1, <3>2
  <2> QED BY <2>1, <2>2, <2>3
<1> HIDE DEF m
<1>10. /\ RingTyped(coInput') /\ TQueue' = SubSeq(TQueue, m + 1, Len(TQueue)) /\ TLine' = TLine
       /\ (coInput'.e - coInput'.r) % UINT = INPUT_BUF => coInput'.w = coInput'.e
  <2>1. m \in 0..Due(coInput)
    BY <1>9 DEF d
  <2> QED BY <1>7, <2>1, TakeIs
<1>11. Co!T!Get(p, j)
  <2>1. \/ TQueue' = SubSeq(TQueue, j + 1, Len(TQueue))
        \/ j = 0 /\ coGot[p] = <<>> /\ TQueue # <<>> /\ Head(TQueue) = "eof" /\ TQueue' = Tail(TQueue)
    <3>1. CASE j = m
      BY <1>10, <3>1
    <3>2. CASE j = 0 /\ m = 1 /\ copied = <<>> /\ TQueue[1] = "eof"
      <4>1. Head(TQueue) = TQueue[1] /\ Tail(TQueue) = SubSeq(TQueue, m + 1, Len(TQueue)) /\ TQueue # <<>>
        BY <1>1, <1>2, <1>4, <3>2
      <4> QED BY <1>8, <1>10, <3>2, <4>1
    <3> QED BY <1>9, <3>1, <3>2
  <2> QED BY <1>8, <1>10, <2>1 DEF Co!T!Get, Co!T!Last, TQueue, TLine, Co!Newline, Co!Eof
<1>12. \E k \in 0..Len(TQueue) : Co!T!Get(p, k)
  BY <1>5, <1>11
<1>13. TermInv'
  <2>1. /\ coProc' \in [TtyUsers -> [pc : {"user", "ready", "asleep"}, n : Int]]
        /\ coGot' \in [TtyUsers -> Seq(Glyphs)]
        /\ coProc'[p].pc = "user" /\ \A q \in TtyUsers \ {p} : coProc'[q] = coProc[q] /\ coGot'[q] = coGot[q]
    BY <1>8 DEF TermInv
  <2>2. ASSUME NEW q \in TtyUsers, coProc'[q].pc # "user", coGot'[q] # <<>> PROVE coGot'[q][Len(coGot'[q])] # "nl"
    BY <2>1, <2>2 DEF TermInv
  <2>3. ASSUME NEW q \in TtyUsers, coProc'[q].pc = "asleep" PROVE FALSE
    <3>1. coProc[q].pc = "asleep"
      BY <2>1, <2>3
    <3>2. coInput.r = coInput.w /\ coInput.r \in 0..UINT - 1
      BY <1>1, <3>1 DEF TermInv, Co!InputSound, RingTyped
    <3>3. d = 0
      <4>1. Gap(coInput.r, coInput.r) = IF coInput.r <= coInput.r THEN coInput.r - coInput.r ELSE coInput.r - coInput.r + UINT
        BY <3>2, Round
      <4> QED BY <3>2, <4>1, TerminalAssumption DEF d, Due
    <3> QED BY <1>4, <3>3
  <2>4. Co!InputSound'
    BY <1>10, <2>3 DEF Co!InputSound, Co!Minus
  <2> QED BY <1>10, <2>1, <2>2, <2>4 DEF TermInv
<1> QED BY <1>12, <1>13

\* The loop of consoleread() runs out of bytes.
LEMMA ReadDrains ==
  ASSUME TermInv, NEW p \in TtyUsers, coProc[p].pc = "ready",
         \A i \in 1..Len(TQueue) : TQueue[i] \notin {"nl", "eof"},
         coInput' = [coInput EXCEPT !.r = coInput.w],
         coGot' = [coGot EXCEPT ![p] = @ \o TQueue],
         NEW next, coProc' = [coProc EXCEPT ![p] = next], next \in [pc : {"user", "asleep"}, n : Int]
  PROVE  TermInv' /\ \E k \in 0..Len(TQueue) : Co!T!Get(p, k)
<1> DEFINE d == Due(coInput)
           new == coGot[p] \o TQueue
<1>1. RingTyped(coInput) /\ TQueue \in Seq(Glyphs) /\ Len(TQueue) = d
  BY RingIsNow DEF TermInv, RingNow, TQueue, QueueIs
<1>2. d \in 0..INPUT_BUF /\ INPUT_BUF \in Nat /\ Len(TQueue) \in 0..Len(TQueue)
      /\ SubSeq(TQueue, 1, Len(TQueue)) = TQueue
  <2>1. d \in 0..INPUT_BUF /\ INPUT_BUF \in Nat
    BY <1>1, RingIs, TerminalAssumption
  <2>2. SubSeq(TQueue, 1, Len(TQueue)) = TQueue
    BY <1>1, SubSeqFull
  <2> QED BY <1>1, <2>1, <2>2
<1>3. coInput' = [coInput EXCEPT !.r = Co!Plus(@, d)]
  <2>1. coInput.r \in 0..UINT - 1 /\ coInput.w \in 0..UINT - 1 /\ Gap(coInput.r, coInput.w) = d
    BY <1>1 DEF RingTyped, Due
  <2>2. coInput.w = Co!Plus(coInput.r, d)
    BY <1>2, <2>1, Opposite
  <2> QED BY <2>2
<1>4. /\ RingTyped(coInput') /\ TQueue' = SubSeq(TQueue, Len(TQueue) + 1, Len(TQueue)) /\ TLine' = TLine
      /\ (coInput'.e - coInput'.r) % UINT = INPUT_BUF => coInput'.w = coInput'.e
  <2>1. d \in 0..Due(coInput)
    BY <1>2
  <2> HIDE DEF d
  <2> QED BY <1>1, <1>3, <2>1, TakeIs
<1>5. \A i \in 1..Len(TQueue) : TQueue[i] # "eof" /\ (TQueue[i] = "nl" => i = Len(TQueue))
  OBVIOUS
<1>6. /\ new \in Seq(Glyphs)
      /\ (Len(TQueue) > 0 /\ coGot[p] # <<>>) => coGot[p][Len(coGot[p])] # "nl"
      /\ new # <<>> => new[Len(new)] # "nl"
  <2>1. coGot[p] \o SubSeq(TQueue, 1, Len(TQueue)) = new
    BY <1>2
  <2>2. /\ coGot[p] \o SubSeq(TQueue, 1, Len(TQueue)) \in Seq(Glyphs)
        /\ (Len(TQueue) > 0 /\ coGot[p] # <<>>) => coGot[p][Len(coGot[p])] # "nl"
        /\ \/ Len(TQueue) > 0 /\ TQueue[Len(TQueue)] = "nl"
           \/ LET done == coGot[p] \o SubSeq(TQueue, 1, Len(TQueue)) IN done # <<>> => done[Len(done)] # "nl"
    BY <1>2, <1>5, TakenIs
  <2>3. ~(Len(TQueue) > 0 /\ TQueue[Len(TQueue)] = "nl")
    <3> SUFFICES ASSUME Len(TQueue) > 0, TQueue[Len(TQueue)] = "nl" PROVE FALSE
      OBVIOUS
    <3>1. Len(TQueue) \in 1..Len(TQueue)
      BY <1>1, <1>2
    <3> QED BY <3>1
  <2> QED BY <2>1, <2>2, <2>3
<1>7. Co!T!Get(p, Len(TQueue))
  BY <1>2, <1>4, <1>5, <1>6 DEF Co!T!Get, Co!T!Last, TQueue, TLine, Co!Newline, Co!Eof
<1>8. \E k \in 0..Len(TQueue) : Co!T!Get(p, k)
  BY <1>2, <1>7
<1>9. TermInv'
  <2>1. coGot' = [coGot EXCEPT ![p] = new]
    BY DEF TermInv
  <2> HIDE DEF new
  <2>2. /\ coProc' \in [TtyUsers -> [pc : {"user", "ready", "asleep"}, n : Int]]
        /\ coGot' \in [TtyUsers -> Seq(Glyphs)] /\ coGot'[p] = new
        /\ \A q \in TtyUsers \ {p} : coProc'[q] = coProc[q] /\ coGot'[q] = coGot[q]
    BY <1>6, <2>1 DEF TermInv
  <2>3. ASSUME NEW q \in TtyUsers, coProc'[q].pc # "user", coGot'[q] # <<>> PROVE coGot'[q][Len(coGot'[q])] # "nl"
    <3>1. CASE q = p
      BY <1>6, <2>2, <2>3, <3>1
    <3>2. CASE q # p
      BY <2>2, <2>3, <3>2 DEF TermInv
    <3> QED BY <3>1, <3>2
  <2>4. coInput'.r = coInput'.w
    BY <1>1 DEF RingTyped
  <2>5. Co!InputSound'
    BY <1>4, <2>4 DEF Co!InputSound, Co!Minus
  <2> QED BY <1>4, <2>2, <2>3, <2>5 DEF TermInv
<1> QED BY <1>8, <1>9

LEMMA ReadGoes ==
  ASSUME TermInv, NEW p \in TtyUsers, Co!Read(p)
  PROVE  TermInv' /\ \E k \in 0..Len(TQueue) : Co!T!Get(p, k)
<1> DEFINE n == coProc[p].n
           stops == {k \in 1..Len(TQueue) : TQueue[k] \in {"nl", "eof"} \/ k = n}
           last == Co!Min(stops)
           j == IF TQueue[last] = "eof" THEN last - 1 ELSE last
           copied == coGot[p] \o SubSeq(TQueue, 1, j)
<1>1. coProc[p].pc = "ready"
  BY DEF Co!Read
<1>2. CASE stops # {}
  <2>1. /\ coInput' = [coInput EXCEPT !.r = Co!Plus(@, IF TQueue[last] = "eof" /\ copied # <<>> THEN last - 1 ELSE last)]
        /\ coGot' = [coGot EXCEPT ![p] = copied]
        /\ coProc' = [coProc EXCEPT ![p] = [pc |-> "user", n |-> 0]]
    BY <1>2 DEF Co!Read, TQueue, Co!Newline, Co!Eof
  <2>2. stops \in SUBSET (1..Len(TQueue)) /\ \A i \in 1..Len(TQueue) : TQueue[i] \in {"nl", "eof"} => i \in stops
    OBVIOUS
  <2>3. last = Co!Min(stops) /\ j = (IF TQueue[last] = "eof" THEN last - 1 ELSE last)
        /\ copied = coGot[p] \o SubSeq(TQueue, 1, j)
    OBVIOUS
  <2> HIDE DEF copied, j, last, stops
  <2> QED BY <1>1, <1>2, <2>1, <2>2, <2>3, ReadEnds
<1>3. CASE stops = {}
  <2>1. /\ coInput' = [coInput EXCEPT !.r = coInput.w]
        /\ coGot' = [coGot EXCEPT ![p] = @ \o TQueue]
        /\ \/ coProc' = [coProc EXCEPT ![p] = [pc |-> "user", n |-> 0]]
           \/ coProc' = [coProc EXCEPT ![p] = [pc |-> "asleep", n |-> n - Len(TQueue)]]
    BY <1>3 DEF Co!Read, TQueue, Co!Newline, Co!Eof
  <2>2. \A i \in 1..Len(TQueue) : TQueue[i] \notin {"nl", "eof"}
    BY <1>3
  <2>3. [pc |-> "user", n |-> 0] \in [pc : {"user", "asleep"}, n : Int]
        /\ [pc |-> "asleep", n |-> n - Len(TQueue)] \in [pc : {"user", "asleep"}, n : Int]
    <3>1. n \in Int /\ Len(TQueue) \in Int
      <4>1. TQueue \in Seq(Glyphs)
        BY RingIsNow DEF TermInv, RingNow, TQueue, QueueIs
      <4> QED BY <4>1 DEF TermInv
    <3> HIDE DEF n
    <3> QED BY <3>1
  <2> HIDE DEF n
  <2>4. CASE coProc' = [coProc EXCEPT ![p] = [pc |-> "user", n |-> 0]]
    BY <1>1, <2>1, <2>2, <2>3, <2>4, ReadDrains
  <2>5. CASE coProc' = [coProc EXCEPT ![p] = [pc |-> "asleep", n |-> n - Len(TQueue)]]
    BY <1>1, <2>1, <2>2, <2>3, <2>5, ReadDrains
  <2> QED BY <2>1, <2>4, <2>5
<1> QED BY <1>2, <1>3

LEMMA CallGoes ==
  ASSUME TermInv, NEW p \in TtyUsers, NEW n \in 1..MaxRead, Co!Call(p, n)
  PROVE  TermInv' /\ Co!T!Call(p)
<1>1. /\ coProc[p].pc = "user" /\ coProc' = [coProc EXCEPT ![p] = [pc |-> "ready", n |-> n]]
      /\ coGot' = [coGot EXCEPT ![p] = <<>>] /\ coInput' = coInput
  BY DEF Co!Call
<1>2. n \in Int
  BY TerminalAssumption
<1>3. TQueue' = TQueue /\ TLine' = TLine
  BY <1>1 DEF TQueue, TLine, Co!From, Co!Plus, Co!Minus
<1>4. Co!T!Call(p)
  BY <1>1, <1>3 DEF Co!T!Call, TQueue, TLine
<1>5. TermInv'
  <2>1. /\ coProc' \in [TtyUsers -> [pc : {"user", "ready", "asleep"}, n : Int]]
        /\ coProc'[p].pc = "ready" /\ coGot'[p] = <<>>
        /\ \A q \in TtyUsers \ {p} : coProc'[q] = coProc[q] /\ coGot'[q] = coGot[q]
    BY <1>1, <1>2 DEF TermInv
  <2>2. coGot' \in [TtyUsers -> Seq(Glyphs)]
    <3>1. <<>> \in Seq(Glyphs)
      OBVIOUS
    <3> QED BY <1>1, <3>1 DEF TermInv
  <2>3. ASSUME NEW q \in TtyUsers, coProc'[q].pc # "user", coGot'[q] # <<>> PROVE coGot'[q][Len(coGot'[q])] # "nl"
    BY <2>1, <2>3 DEF TermInv
  <2>4. Co!InputSound'
    BY <1>1, <2>1 DEF TermInv, Co!InputSound, Co!Minus
  <2> QED BY <1>1, <2>1, <2>2, <2>3, <2>4 DEF TermInv
<1> QED BY <1>4, <1>5

LEMMA KillGoes ==
  ASSUME TermInv, NEW p \in TtyUsers, Co!Kill(p)
  PROVE  TermInv' /\ UNCHANGED Co!T!vars
<1>1. /\ coProc' = [coProc EXCEPT ![p].pc = IF @ = "asleep" THEN "ready" ELSE @]
      /\ coGot' = coGot /\ coInput' = coInput
  BY DEF Co!Kill
<1>2. /\ coProc' \in [TtyUsers -> [pc : {"user", "ready", "asleep"}, n : Int]]
      /\ \A q \in TtyUsers : /\ coProc'[q].pc = "user" => coProc[q].pc = "user"
                             /\ coProc'[q].pc = "asleep" => coProc[q].pc = "asleep"
                             /\ coProc'[q].pc # "user" => coProc[q].pc # "user"
  BY <1>1 DEF TermInv
<1>3. Co!InputSound'
  BY <1>1, <1>2 DEF TermInv, Co!InputSound, Co!Minus
<1>4. TermInv'
  BY <1>1, <1>2, <1>3 DEF TermInv
<1>5. UNCHANGED Co!T!vars
  BY <1>1 DEF Co!T!vars, Co!From, Co!Plus, Co!Minus
<1> QED BY <1>4, <1>5

LEMMA TermSteps == ASSUME TermInv, [Co!Next]_(Co!vars) PROVE TermInv' /\ [Co!T!Next]_(Co!T!vars)
<1>1. ASSUME NEW c \in Co!Bytes, Co!Enter(c) PROVE TermInv' /\ Co!T!Next
  <2>1. TermInv' /\ Co!T!Enter(c)
    BY <1>1, EnterGoes
  <2> QED BY <2>1 DEF Co!T!Next, Co!Bytes
<1>2. ASSUME NEW key, Co!Erase(key) PROVE TermInv' /\ [Co!T!Next]_(Co!T!vars)
  <2>1. TermInv' /\ ((\E j \in 0..Len(TLine) - 1 : Co!T!Erase(j)) \/ UNCHANGED Co!T!vars)
    BY <1>2, EraseGoes
  <2> QED BY <2>1 DEF Co!T!Next, TLine
<1>3. ASSUME NEW p \in TtyUsers, Co!Read(p) PROVE TermInv' /\ Co!T!Next
  <2>1. TermInv' /\ \E k \in 0..Len(TQueue) : Co!T!Get(p, k)
    BY <1>3, ReadGoes
  <2> QED BY <2>1 DEF Co!T!Next, TQueue
<1>4. ASSUME NEW p \in TtyUsers, Co!Kill(p) PROVE TermInv' /\ UNCHANGED Co!T!vars
  BY <1>4, KillGoes
<1>5. ASSUME NEW p \in TtyUsers, NEW n \in 1..MaxRead, Co!Call(p, n) PROVE TermInv' /\ Co!T!Next
  <2>1. TermInv' /\ Co!T!Call(p)
    BY <1>5, CallGoes
  <2> QED BY <2>1 DEF Co!T!Next
<1>6. ASSUME UNCHANGED Co!vars PROVE TermInv' /\ UNCHANGED Co!T!vars
  <2>1. coInput' = coInput /\ coProc' = coProc /\ coGot' = coGot
    BY <1>6 DEF Co!vars
  <2>2. TermInv'
    BY <2>1 DEF TermInv, Co!InputSound, Co!Minus
  <2>3. UNCHANGED Co!T!vars
    BY <2>1 DEF Co!T!vars, Co!From, Co!Plus, Co!Minus
  <2> QED BY <2>2, <2>3
<1> QED BY <1>1, <1>2, <1>3, <1>4, <1>5, <1>6 DEF Co!Next

\* The ring of console.c, whose counters wrap around, is a line under edit and a queue of
\* the bytes entered, which the readers take in order, a line at most in one call; and no
\* reader sleeps beside bytes that it could have, whatever the size of the ring, the
\* number of readers and the lengths they ask for.
THEOREM TerminalIsTty == Co!Spec => ImplementsTty
<1>1. Co!Init => TermInv /\ Co!T!Init
  BY TermStarts
<1>2. TermInv /\ [Co!Next]_(Co!vars) => TermInv' /\ [Co!T!Next]_(Co!T!vars)
  BY TermSteps
<1>3. TermInv => Co!InputSound
  BY DEF TermInv
<1>4. Co!Spec => []TermInv
  BY <1>1, <1>2, PTL DEF Co!Spec
<1>5. Co!Spec => Co!T!Spec
  BY <1>1, <1>2, <1>4, PTL DEF Co!Spec, Co!T!Spec
<1> QED BY <1>3, <1>4, <1>5, PTL DEF ImplementsTty, Co!ImplementsTty

=============================================================================
