------------------------------ MODULE BcacheProofs ------------------------------
(***************************************************************************)
(* Proofs about bio.c, sleeplock.c and ide.c for any processes, blocks and *)
(* buffers: a block is in one buffer at most, no request to the disk is    *)
(* lost or doubled, no wakeup of a sleep lock is lost, and cache and disk  *)
(* together are one store.                                                 *)
(***************************************************************************)
EXTENDS Bcache, SequenceTheorems, FiniteSetTheorems, WellFoundedInduction, TLAPS

\* Where a process has its buffer's sleep lock.
Held == {"bread", "has", "iderw", "iosleep", "iowoken"}

\* Who has a buffer, and for which block.
Places ==
  /\ \A p \in Procs : buf[p] = 0 <=> pc[p] \in {"out", "panic"}
  /\ \A p \in Procs : buf[p] # 0 => want[p] \in Blocks
  /\ \A p \in Procs : pc[p] = "panic" => panicked

\* A sleep lock is had by one of those who have the buffer.
Holders ==
  /\ \A p \in Procs : pc[p] \in Held => locker[buf[p]] = p
  /\ \A i \in Bufs : locker[i] # NoProc => buf[locker[i]] = i /\ pc[locker[i]] \in Held

\* What the flags of a buffer say of its data, and where its holder stands.
Contents ==
  /\ \A i \in Bufs : dirty[i] => valid[i]
  /\ \A i \in Bufs : valid[i] => blockno[i] \in Blocks
  /\ \A i \in Bufs : valid[i] /\ ~dirty[i] => data[i] = disk[blockno[i]]
  /\ \A p \in Procs : pc[p] = "has" => valid[buf[p]]
  /\ \A p \in Procs : pc[p] = "iowoken" => valid[buf[p]] /\ ~dirty[buf[p]]
  /\ \A p \in Procs : pc[p] \in {"iderw", "iosleep"} => dirty[buf[p]] \/ ~valid[buf[p]]

IInv ==
  /\ TypeOK /\ OneBuffer /\ Places /\ Holders /\ Contents
  /\ QueueSound /\ LockSleepersHaveReason

-----------------------------------------------------------------------------
(* The victim and the list.                                                *)

LEMMA Largest ==
  ASSUME NEW N \in Nat, NEW R \in SUBSET (1..N), R # {}
  PROVE  \E k \in R : \A j \in R : j <= k
<1> DEFINE T == {N - k : k \in R}
<1>1. T \in SUBSET Nat /\ T # {}
  <2>1. \A k \in R : N - k \in Nat
    OBVIOUS
  <2> QED BY <2>1
<1>2. PICK m \in T : \A n \in T : ~(<<n, m>> \in OpToRel(<, Nat))
  BY <1>1, NatLessThanWellFounded, WFMin
<1>3. \A n \in T : ~(n < m)
  BY <1>1, <1>2 DEF OpToRel
<1>4. PICK k \in R : m = N - k
  OBVIOUS
<1>5. ASSUME NEW j \in R PROVE j <= k
  <2>1. N - j \in T
    OBVIOUS
  <2>2. ~(N - j < N - k)
    BY <1>3, <1>4, <2>1
  <2>3. j \in Nat /\ k \in Nat
    OBVIOUS
  <2> HIDE DEF T
  <2> QED BY <2>2, <2>3
<1> QED BY <1>5

LEMMA VictimFree ==
  ASSUME IInv, Recyclable # {}
  PROVE  /\ Victim \in Bufs /\ refcnt[Victim] = 0 /\ ~dirty[Victim]
         /\ \A q \in Procs : buf[q] # Victim
         /\ locker[Victim] = NoProc
<1> DEFINE k == CHOOSE n \in Recyclable : \A j \in Recyclable : j <= n
<1>1. Recyclable \in SUBSET (1..NBUF) /\ NBUF \in Nat
  BY BcacheAssumption DEF Recyclable
<1>2. k \in Recyclable
  BY <1>1, Largest
<1>3. Victim \in Bufs /\ refcnt[Victim] = 0 /\ ~dirty[Victim]
  BY <1>2 DEF Recyclable, Victim, IInv, TypeOK
<1> HIDE DEF k
<1>4. Using(Victim) = {}
  <2>1. IsFiniteSet(Using(Victim))
    BY BcacheAssumption, FS_Subset DEF Using
  <2>2. Cardinality(Using(Victim)) = 0
    BY <1>3 DEF IInv, TypeOK
  <2> QED BY <2>1, <2>2, FS_EmptySet
<1>5. \A q \in Procs : buf[q] # Victim
  BY <1>4 DEF Using
<1>6. locker[Victim] = NoProc
  BY <1>3, <1>5 DEF IInv, TypeOK, Holders
<1> QED BY <1>3, <1>5, <1>6

LEMMA ToFrontKeepsAll ==
  ASSUME NEW i \in Bufs, mru \in [1..NBUF -> Bufs], Range(mru) = Bufs
  PROVE  ToFront(i) \in [1..NBUF -> Bufs] /\ Range(ToFront(i)) = Bufs
<1> DEFINE at == CHOOSE k \in 1..NBUF : mru[k] = i
<1>1. at \in 1..NBUF /\ mru[at] = i
  BY DEF Range
<1> HIDE DEF at
<1>2. ToFront(i) =
        [k \in 1..NBUF |-> IF k = 1 THEN i ELSE IF k <= at THEN mru[k - 1] ELSE mru[k]]
  BY DEF ToFront, at
<1>3. ASSUME NEW k \in 1..NBUF PROVE ToFront(i)[k] \in Bufs
  <2>1. k # 1 => k - 1 \in 1..NBUF
    BY BcacheAssumption
  <2> QED BY <1>2, <2>1
<1>4. ToFront(i) \in [1..NBUF -> Bufs]
  BY <1>2, <1>3
<1>5. ASSUME NEW b \in Bufs PROVE \E k \in 1..NBUF : ToFront(i)[k] = b
  <2>1. PICK j \in 1..NBUF : mru[j] = b
    BY DEF Range
  <2>2. CASE j = at
    <3>1. 1 \in 1..NBUF /\ ToFront(i)[1] = i
      BY <1>2, BcacheAssumption
    <3> QED BY <1>1, <2>1, <2>2, <3>1
  <2>3. CASE j < at
    <3>1. j + 1 \in 1..NBUF /\ j + 1 # 1 /\ j + 1 <= at /\ (j + 1) - 1 = j
      BY <1>1, <2>3, BcacheAssumption
    <3>2. ToFront(i)[j + 1] = mru[(j + 1) - 1]
      BY <1>2, <3>1
    <3> QED BY <2>1, <3>1, <3>2
  <2>4. CASE j > at
    <3>1. j # 1 /\ ~(j <= at)
      BY <1>1, <2>4
    <3> QED BY <1>2, <2>1, <3>1
  <2> QED BY <1>1, <2>2, <2>3, <2>4
<1> QED BY <1>4, <1>5 DEF Range

-----------------------------------------------------------------------------
(* What a step needs to leave alone.                                       *)

LEMMA UsingKept ==
  ASSUME IInv, buf' = buf, refcnt' = refcnt
  PROVE  \A i \in Bufs : refcnt'[i] = Cardinality(Using(i)')
BY DEF IInv, TypeOK, Using

LEMMA UsingGrows ==
  ASSUME IInv, NEW p \in Procs, buf[p] = 0, NEW i \in Bufs, buf' = [buf EXCEPT ![p] = i],
         refcnt' = [refcnt EXCEPT ![i] = refcnt[i] + 1]
  PROVE  refcnt' \in [Bufs -> Nat] /\ \A j \in Bufs : refcnt'[j] = Cardinality(Using(j)')
<1>1. buf \in [Procs -> 0..NBUF] /\ refcnt \in [Bufs -> Nat] /\ 0 \notin Bufs
  BY DEF IInv, TypeOK, Bufs
<1>2. p \notin Using(i) /\ Using(i)' = Using(i) \cup {p}
  BY <1>1 DEF Using
<1>3. \A j \in Bufs : j # i => Using(j)' = Using(j)
  BY <1>1 DEF Using
<1>4. Cardinality(Using(i)') = Cardinality(Using(i)) + 1
  <2>1. IsFiniteSet(Using(i))
    BY BcacheAssumption, FS_Subset DEF Using
  <2> QED BY <1>2, <2>1, FS_AddElement
<1>5. refcnt'[i] = Cardinality(Using(i)')
  BY <1>1, <1>4 DEF IInv, TypeOK
<1>6. \A j \in Bufs : j # i => refcnt'[j] = Cardinality(Using(j)')
  BY <1>1, <1>3 DEF IInv, TypeOK
<1>7. refcnt' \in [Bufs -> Nat]
  BY <1>1
<1> QED BY <1>5, <1>6, <1>7

LEMMA UsingShrinks ==
  ASSUME IInv, NEW p \in Procs, buf[p] \in Bufs, buf' = [buf EXCEPT ![p] = 0],
         refcnt' = [refcnt EXCEPT ![buf[p]] = refcnt[buf[p]] - 1]
  PROVE  refcnt' \in [Bufs -> Nat] /\ \A j \in Bufs : refcnt'[j] = Cardinality(Using(j)')
<1> DEFINE i == buf[p]
<1>1. buf \in [Procs -> 0..NBUF] /\ refcnt \in [Bufs -> Nat] /\ 0 \notin Bufs
  BY DEF IInv, TypeOK, Bufs
<1>2. \A j \in Bufs : {q \in Procs : buf'[q] = j} = IF j = i THEN Using(j) \ {p} ELSE Using(j)
  BY <1>1 DEF Using
<1>3. p \in Using(i) /\ IsFiniteSet(Using(i))
  BY BcacheAssumption, FS_Subset DEF Using
<1>4. /\ Cardinality(Using(i) \ {p}) = Cardinality(Using(i)) - 1
      /\ Cardinality(Using(i) \ {p}) \in Nat
  BY <1>3, FS_RemoveElement, FS_CardinalityType
<1>5. \A j \in Bufs : refcnt[j] = Cardinality(Using(j))
  BY DEF IInv, TypeOK
<1>6. refcnt[i] - 1 \in Nat
  BY <1>4, <1>5
<1>7. refcnt' \in [Bufs -> Nat]
  BY <1>1, <1>6
<1>8. ASSUME NEW j \in Bufs PROVE refcnt'[j] = Cardinality({q \in Procs : buf'[q] = j})
  <2>1. CASE j = i
    BY <1>1, <1>2, <1>4, <1>5, <2>1
  <2>2. CASE j # i
    BY <1>1, <1>2, <1>5, <2>2
  <2> QED BY <2>1, <2>2
<1> QED BY <1>7, <1>8 DEF Using

\* A step that neither queues nor answers a request, and leaves alone the
\* buffers that are queued, keeps the queue sound.
LEMMA QueueKept ==
  ASSUME IInv, idequeue' = idequeue, request' = request,
         \A q \in Procs : pc'[q] = "iosleep" <=> pc[q] = "iosleep",
         \A q \in Procs : pc[q] = "iosleep" =>
           /\ buf'[q] = buf[q] /\ locker'[buf[q]] = locker[buf[q]]
           /\ blockno'[buf[q]] = blockno[buf[q]] /\ dirty'[buf[q]] = dirty[buf[q]]
           /\ data'[buf[q]] = data[buf[q]]
  PROVE  QueueSound'
<1>1. /\ \A q \in Procs : pc[q] = "iosleep" => Contains(idequeue, buf[q])
      /\ IsInjective(idequeue)
      /\ \A k \in 1..Len(idequeue) :
           \E q \in Procs : locker[idequeue[k]] = q /\ pc[q] = "iosleep" /\ buf[q] = idequeue[k]
      /\ request = IF idequeue = <<>> THEN <<>> ELSE Idestart(Head(idequeue))
  BY DEF IInv, QueueSound
<1>2. \A q \in Procs : pc'[q] = "iosleep" => Contains(idequeue', buf'[q])
  BY <1>1
<1>3. \A k \in 1..Len(idequeue') :
        \E q \in Procs : locker'[idequeue'[k]] = q /\ pc'[q] = "iosleep" /\ buf'[q] = idequeue'[k]
  BY <1>1
<1>4. request' = IF idequeue' = <<>> THEN <<>>
                 ELSE <<blockno'[Head(idequeue')], dirty'[Head(idequeue')], data'[Head(idequeue')]>>
  <2>1. CASE idequeue = <<>>
    BY <1>1, <2>1
  <2>2. CASE idequeue # <<>>
    <3>1. 1 \in 1..Len(idequeue) /\ Head(idequeue) = idequeue[1]
      BY <2>2, EmptySeq DEF IInv, TypeOK
    <3>2. PICK q \in Procs : pc[q] = "iosleep" /\ buf[q] = Head(idequeue)
      BY <1>1, <3>1
    <3> QED BY <1>1, <2>2, <3>2 DEF Idestart
  <2> QED BY <2>1, <2>2
<1> QED BY <1>1, <1>2, <1>3, <1>4 DEF QueueSound, Idestart

-----------------------------------------------------------------------------

LEMMA InitIInv == Init => IInv
<1> SUFFICES ASSUME Init PROVE IInv
  OBVIOUS
<1>1. \A i \in Bufs : refcnt[i] = Cardinality(Using(i))
  <2>1. \A i \in Bufs : Using(i) = {}
    BY DEF Init, Using, Bufs
  <2> QED BY <2>1, FS_EmptySet DEF Init
<1>2. mru \in [1..NBUF -> Bufs] /\ Range(mru) = Bufs
  <2>1. mru \in [1..NBUF -> Bufs]
    BY BcacheAssumption DEF Init, Bufs
  <2>2. ASSUME NEW i \in Bufs PROVE NBUF + 1 - i \in 1..NBUF /\ mru[NBUF + 1 - i] = i
    BY BcacheAssumption DEF Init, Bufs
  <2> QED BY <2>1, <2>2 DEF Range
<1>3. /\ pc \in [Procs -> {"out", "lock", "locksleep", "unlocked", "bread", "has",
                           "unref", "iderw", "iosleep", "iowoken", "panic"}]
      /\ want \in [Procs -> Blocks \cup {NoBlock}] /\ buf \in [Procs -> 0..NBUF]
  BY BcacheAssumption DEF Init
<1>4. /\ blockno \in [Bufs -> Blocks \cup {NoBlock}] /\ refcnt \in [Bufs -> Nat]
      /\ valid \in [Bufs -> BOOLEAN] /\ dirty \in [Bufs -> BOOLEAN]
      /\ locker \in [Bufs -> Procs \cup {NoProc}] /\ data \in [Bufs -> Vals]
  BY DEF Init
<1>5. idequeue = <<>> /\ idequeue \in Seq(Bufs) /\ Len(idequeue) = 0
  BY EmptySeq DEF Init
<1>6. TypeOK
  BY <1>1, <1>2, <1>3, <1>4, <1>5 DEF Init, TypeOK
<1>7. OneBuffer
  BY BcacheAssumption DEF Init, OneBuffer
<1>8. Places /\ Holders /\ Contents
  BY DEF Init, Places, Holders, Contents, Held
<1>9. QueueSound /\ LockSleepersHaveReason
  BY <1>5 DEF Init, QueueSound, LockSleepersHaveReason, IsInjective
<1> QED BY <1>6, <1>7, <1>8, <1>9 DEF IInv

LEMMA StutterIInv == IInv /\ UNCHANGED vars => IInv'
<1> SUFFICES ASSUME IInv, UNCHANGED vars PROVE IInv'
  OBVIOUS
<1>1. UNCHANGED <<disk, blockno, refcnt, valid, dirty, data, mru, locker, idequeue, request,
                  pc, want, buf, panicked>>
  BY DEF vars, fields, ide, mine
<1>2. QueueSound'
  BY <1>1, QueueKept
<1>3. TypeOK'
  BY <1>1, UsingKept DEF IInv, TypeOK
<1> QED BY <1>1, <1>2, <1>3 DEF IInv, OneBuffer, Places, Holders, Contents,
                                LockSleepersHaveReason

\* bget() finds the block.
LEMMA HitIInv ==
  ASSUME IInv, NEW p \in Procs, NEW b \in Blocks, NEW i \in Bufs, blockno[i] = b,
         pc[p] = "out", pc' = [pc EXCEPT ![p] = "lock"],
         want' = [want EXCEPT ![p] = b], buf' = [buf EXCEPT ![p] = i],
         refcnt' = [refcnt EXCEPT ![i] = refcnt[i] + 1],
         UNCHANGED <<disk, blockno, valid, dirty, data, mru, locker, idequeue, request, panicked>>
  PROVE  IInv'
<1>1. /\ pc \in [Procs -> {"out", "lock", "locksleep", "unlocked", "bread", "has",
                           "unref", "iderw", "iosleep", "iowoken", "panic"}]
      /\ want \in [Procs -> Blocks \cup {NoBlock}] /\ buf \in [Procs -> 0..NBUF]
      /\ buf[p] = 0 /\ 0 \notin Bufs /\ i \in 0..NBUF
  BY DEF IInv, TypeOK, Places, Bufs
<1>2. QueueSound'
  BY <1>1, QueueKept
<1>3. TypeOK'
  BY <1>1, UsingGrows DEF IInv, TypeOK
<1>4. OneBuffer'
  BY <1>1 DEF IInv, OneBuffer
<1>5. Places'
  BY <1>1 DEF IInv, Places
<1>6. Holders'
  BY <1>1 DEF IInv, Holders, Held, TypeOK
<1>7. Contents'
  BY <1>1 DEF IInv, Contents
<1>8. LockSleepersHaveReason'
  BY <1>1 DEF IInv, LockSleepersHaveReason
<1> QED BY <1>2, <1>3, <1>4, <1>5, <1>6, <1>7, <1>8 DEF IInv

\* bget() recycles a buffer nobody has.
LEMMA MissIInv ==
  ASSUME IInv, NEW p \in Procs, NEW b \in Blocks, \A i \in Bufs : blockno[i] # b,
         Recyclable # {},
         pc[p] = "out", pc' = [pc EXCEPT ![p] = "lock"],
         want' = [want EXCEPT ![p] = b], buf' = [buf EXCEPT ![p] = Victim],
         blockno' = [blockno EXCEPT ![Victim] = b],
         refcnt' = [refcnt EXCEPT ![Victim] = 1],
         valid' = [valid EXCEPT ![Victim] = FALSE], dirty' = [dirty EXCEPT ![Victim] = FALSE],
         UNCHANGED <<disk, data, mru, locker, idequeue, request, panicked>>
  PROVE  IInv'
<1>1. /\ pc \in [Procs -> {"out", "lock", "locksleep", "unlocked", "bread", "has",
                           "unref", "iderw", "iosleep", "iowoken", "panic"}]
      /\ want \in [Procs -> Blocks \cup {NoBlock}] /\ buf \in [Procs -> 0..NBUF]
      /\ blockno \in [Bufs -> Blocks \cup {NoBlock}] /\ refcnt \in [Bufs -> Nat]
      /\ valid \in [Bufs -> BOOLEAN] /\ dirty \in [Bufs -> BOOLEAN]
      /\ buf[p] = 0 /\ 0 \notin Bufs /\ Bufs \subseteq 0..NBUF
  BY DEF IInv, TypeOK, Places, Bufs
<1> DEFINE v == Victim
<1>2. /\ v \in Bufs /\ refcnt[v] = 0
      /\ \A q \in Procs : buf[q] # v
      /\ locker[v] = NoProc
  BY VictimFree
<1> HIDE DEF v
<1>3. /\ buf' = [buf EXCEPT ![p] = v] /\ blockno' = [blockno EXCEPT ![v] = b]
      /\ refcnt' = [refcnt EXCEPT ![v] = refcnt[v] + 1]
      /\ valid' = [valid EXCEPT ![v] = FALSE] /\ dirty' = [dirty EXCEPT ![v] = FALSE]
  BY <1>2 DEF v
<1>4. /\ \A q \in Procs : q # p => /\ pc'[q] = pc[q] /\ buf'[q] = buf[q] /\ want'[q] = want[q]
                                   /\ buf[q] # v
      /\ \A j \in Bufs : j # v => /\ blockno'[j] = blockno[j] /\ valid'[j] = valid[j]
                                  /\ dirty'[j] = dirty[j]
      /\ pc'[p] = "lock" /\ buf'[p] = v /\ want'[p] = b /\ blockno'[v] = b /\ ~valid'[v] /\ ~dirty'[v]
  BY <1>1, <1>2, <1>3
<1>5. \A q \in Procs : buf[q] # 0 => buf[q] \in Bufs
  BY <1>1 DEF Bufs
<1>6. QueueSound'
  <2>1. \A q \in Procs : pc[q] = "iosleep" => q # p /\ buf[q] \in Bufs /\ buf[q] # v
    BY <1>2, <1>5 DEF IInv, Places
  <2> QED BY <1>4, <2>1, QueueKept
<1>7. TypeOK'
  <2>1. refcnt' \in [Bufs -> Nat] /\ \A j \in Bufs : refcnt'[j] = Cardinality(Using(j)')
    BY <1>1, <1>2, <1>3, UsingGrows
  <2> QED BY <1>1, <1>2, <1>3, <2>1 DEF IInv, TypeOK
<1>8. OneBuffer'
  BY <1>2, <1>4, <1>5 DEF IInv, OneBuffer
<1>9. Places'
  BY <1>1, <1>2, <1>4 DEF IInv, Places
<1>10. Holders'
  BY <1>2, <1>4, <1>5 DEF IInv, Holders, Held, TypeOK
<1>11. Contents'
  <2>1. \A q \in Procs : q # p => buf[q] \in Bufs \/ pc[q] \in {"out", "panic"}
    BY <1>5 DEF IInv, Places
  <2> QED BY <1>2, <1>4, <1>5, <2>1 DEF IInv, Contents
<1>12. LockSleepersHaveReason'
  BY <1>4 DEF IInv, LockSleepersHaveReason
<1> QED BY <1>6, <1>7, <1>8, <1>9, <1>10, <1>11, <1>12 DEF IInv

LEMMA BgetIInv ==
  ASSUME IInv, NEW p \in Procs, NEW b \in Blocks, Bget(p, b)
  PROVE  IInv'
<1>1. /\ UNCHANGED <<disk, data, mru, locker, idequeue, request>> /\ pc[p] = "out"
      /\ want' = [want EXCEPT ![p] = b]
  BY DEF Bget, Goto, ide
<1>2. CASE \E i \in Bufs :
             /\ blockno[i] = b
             /\ pc' = [pc EXCEPT ![p] = "lock"]
             /\ buf' = [buf EXCEPT ![p] = i]
             /\ refcnt' = [refcnt EXCEPT ![i] = refcnt[i] + 1]
             /\ UNCHANGED <<blockno, valid, dirty, panicked>>
  BY <1>1, <1>2, HitIInv
<1>3. CASE /\ \A i \in Bufs : blockno[i] # b
           /\ Recyclable # {}
           /\ pc' = [pc EXCEPT ![p] = "lock"]
           /\ buf' = [buf EXCEPT ![p] = Victim]
           /\ blockno' = [blockno EXCEPT ![Victim] = b]
           /\ refcnt' = [refcnt EXCEPT ![Victim] = 1]
           /\ valid' = [valid EXCEPT ![Victim] = FALSE]
           /\ dirty' = [dirty EXCEPT ![Victim] = FALSE]
           /\ UNCHANGED panicked
  BY <1>1, <1>3, MissIInv
<1>4. CASE /\ pc' = [pc EXCEPT ![p] = "panic"] /\ panicked' = TRUE
           /\ UNCHANGED <<buf, blockno, refcnt, valid, dirty>>
  <2>1. /\ pc \in [Procs -> {"out", "lock", "locksleep", "unlocked", "bread", "has",
                             "unref", "iderw", "iosleep", "iowoken", "panic"}]
        /\ want \in [Procs -> Blocks \cup {NoBlock}] /\ buf[p] = 0
    BY <1>1 DEF IInv, TypeOK, Places
  <2>2. QueueSound'
    BY <1>1, <1>4, <2>1, QueueKept
  <2>3. TypeOK'
    BY <1>1, <1>4, <2>1, UsingKept DEF IInv, TypeOK
  <2>4. OneBuffer'
    BY <1>1, <1>4, <2>1 DEF IInv, OneBuffer
  <2>5. Places'
    BY <1>1, <1>4, <2>1 DEF IInv, Places
  <2>6. Holders'
    BY <1>1, <1>4, <2>1 DEF IInv, Holders, Held, TypeOK
  <2>7. Contents'
    BY <1>1, <1>4, <2>1 DEF IInv, Contents
  <2>8. LockSleepersHaveReason'
    BY <1>1, <1>4, <2>1 DEF IInv, LockSleepersHaveReason
  <2> QED BY <2>2, <2>3, <2>4, <2>5, <2>6, <2>7, <2>8 DEF IInv
<1> QED BY <1>2, <1>3, <1>4 DEF Bget, Goto

-----------------------------------------------------------------------------

\* The types most steps need.
LEMMA Types ==
  ASSUME IInv
  PROVE  /\ pc \in [Procs -> {"out", "lock", "locksleep", "unlocked", "bread", "has",
                              "unref", "iderw", "iosleep", "iowoken", "panic"}]
         /\ want \in [Procs -> Blocks \cup {NoBlock}] /\ buf \in [Procs -> 0..NBUF]
         /\ locker \in [Bufs -> Procs \cup {NoProc}]
         /\ blockno \in [Bufs -> Blocks \cup {NoBlock}]
         /\ valid \in [Bufs -> BOOLEAN] /\ dirty \in [Bufs -> BOOLEAN]
         /\ data \in [Bufs -> Vals] /\ disk \in [Blocks -> Vals]
         /\ \A q \in Procs : pc[q] \notin {"out", "panic"} => buf[q] \in Bufs
BY DEF IInv, TypeOK, Places, Bufs

LEMMA AcquiresleepIInv ==
  ASSUME IInv, NEW p \in Procs, Acquiresleep(p)
  PROVE  IInv'
<1>1. /\ pc[p] \in {"lock", "unlocked"}
      /\ UNCHANGED <<disk, blockno, refcnt, valid, dirty, data, mru, idequeue, request,
                     want, buf, panicked>>
  BY DEF Acquiresleep, fields, ide, mine
<1>2. buf[p] \in Bufs
  BY <1>1, Types
<1>3. CASE locker[buf[p]] = NoProc
  <2>1. pc' = [pc EXCEPT ![p] = "bread"] /\ locker' = [locker EXCEPT ![buf[p]] = p]
    BY <1>3 DEF Acquiresleep
  <2>2. \A q \in Procs : pc[q] \in Held => buf[q] # buf[p]
    BY <1>3, BcacheAssumption DEF IInv, Holders
  <2>3. QueueSound'
    <3>1. \A q \in Procs : pc[q] = "iosleep" => q # p /\ buf[q] # buf[p] /\ buf[q] \in Bufs
      BY <1>1, <2>2, Types DEF Held
    <3> QED BY <1>1, <2>1, <3>1, Types, QueueKept
  <2>4. TypeOK'
    BY <1>1, <1>2, <2>1, UsingKept DEF IInv, TypeOK
  <2>5. OneBuffer' /\ Places'
    BY <1>1, <2>1, Types DEF IInv, OneBuffer, Places
  <2>6. Holders'
    BY <1>1, <1>2, <2>1, <2>2, Types DEF IInv, Holders, Held
  <2>7. Contents'
    BY <1>1, <2>1, Types DEF IInv, Contents
  <2>8. LockSleepersHaveReason'
    BY <1>1, <1>2, <2>1, Types, BcacheAssumption DEF IInv, LockSleepersHaveReason
  <2> QED BY <2>3, <2>4, <2>5, <2>6, <2>7, <2>8 DEF IInv
<1>4. CASE locker[buf[p]] # NoProc
  <2>1. pc' = [pc EXCEPT ![p] = "locksleep"] /\ locker' = locker
    BY <1>4 DEF Acquiresleep
  <2>2. QueueSound'
    BY <1>1, <2>1, Types, QueueKept
  <2>3. TypeOK'
    BY <1>1, <2>1, UsingKept DEF IInv, TypeOK
  <2>4. OneBuffer' /\ Places'
    BY <1>1, <2>1, Types DEF IInv, OneBuffer, Places
  <2>5. Holders'
    BY <1>1, <2>1, Types DEF IInv, Holders, Held
  <2>6. Contents'
    BY <1>1, <2>1, Types DEF IInv, Contents
  <2>7. locker[buf[p]] # p
    BY <1>1, <1>2, BcacheAssumption DEF IInv, Holders, Held
  <2>8. LockSleepersHaveReason'
    BY <1>1, <1>4, <2>1, <2>7, Types DEF IInv, LockSleepersHaveReason
  <2> QED BY <2>2, <2>3, <2>4, <2>5, <2>6, <2>8 DEF IInv
<1> QED BY <1>3, <1>4

\* bread() and iderw() look at the flags of the buffer they have locked.
LEMMA LookIInv ==
  ASSUME IInv, NEW p \in Procs, Bread(p) \/ IderwDone(p)
  PROVE  IInv'
<1>1. /\ UNCHANGED <<disk, blockno, refcnt, valid, dirty, data, mru, locker, idequeue, request,
                     want, buf, panicked>>
      /\ pc[p] \in {"bread", "iowoken"}
  BY DEF Bread, IderwDone, Goto, fields, ide, mine
<1>2. \/ pc' = [pc EXCEPT ![p] = "has"] /\ valid[buf[p]]
      \/ pc' = [pc EXCEPT ![p] = "iderw"] /\ ~valid[buf[p]]
  BY Types DEF Bread, IderwDone, Goto, IInv, Contents
<1>3. QueueSound'
  BY <1>1, <1>2, Types, QueueKept
<1>4. TypeOK'
  BY <1>1, <1>2, UsingKept DEF IInv, TypeOK
<1>5. OneBuffer' /\ Places'
  BY <1>1, <1>2, Types DEF IInv, OneBuffer, Places
<1>6. Holders'
  BY <1>1, <1>2, Types DEF IInv, Holders, Held
<1>7. Contents'
  BY <1>1, <1>2, Types DEF IInv, Contents
<1>8. LockSleepersHaveReason'
  BY <1>1, <1>2, Types DEF IInv, LockSleepersHaveReason
<1> QED BY <1>3, <1>4, <1>5, <1>6, <1>7, <1>8 DEF IInv

\* The holder changes its block.
LEMMA WriteIInv ==
  ASSUME IInv, NEW p \in Procs, NEW v \in Vals, LogWrite(p, v) \/ Bwrite(p, v)
  PROVE  IInv'
<1>1. /\ UNCHANGED <<disk, blockno, refcnt, valid, mru, locker, idequeue, request,
                     want, buf, panicked>>
      /\ pc[p] = "has" /\ buf[p] \in Bufs /\ valid[buf[p]]
      /\ data' = [data EXCEPT ![buf[p]] = v] /\ dirty' = [dirty EXCEPT ![buf[p]] = TRUE]
      /\ pc' = pc \/ pc' = [pc EXCEPT ![p] = "iderw"]
  BY Types DEF LogWrite, Bwrite, Goto, ide, mine, IInv, Contents
<1>2. \A q \in Procs : q # p /\ pc[q] \in Held => buf[q] # buf[p] /\ buf[q] \in Bufs
  BY <1>1, Types DEF IInv, Holders, Held
<1>3. QueueSound'
  <2>1. \A q \in Procs : pc[q] = "iosleep" => buf[q] # buf[p] /\ buf[q] \in Bufs
    BY <1>1, <1>2 DEF Held
  <2> QED BY <1>1, <2>1, Types, QueueKept
<1>4. TypeOK'
  BY <1>1, UsingKept DEF IInv, TypeOK
<1>5. OneBuffer' /\ Places'
  BY <1>1, Types DEF IInv, OneBuffer, Places
<1>6. Holders'
  BY <1>1, Types DEF IInv, Holders, Held
<1>7. Contents'
  <2>1. \A i \in Bufs : i # buf[p] => data'[i] = data[i] /\ dirty'[i] = dirty[i]
    BY <1>1, Types
  <2>2. dirty'[buf[p]]
    BY <1>1, Types
  <2>3. \A q \in Procs : q # p => pc'[q] = pc[q]
    BY <1>1, Types
  <2>4. pc'[p] \in {"has", "iderw"}
    BY <1>1, Types
  <2> QED BY <1>1, <1>2, <2>1, <2>2, <2>3, <2>4 DEF IInv, Contents, Held
<1>8. LockSleepersHaveReason'
  BY <1>1, Types DEF IInv, LockSleepersHaveReason
<1> QED BY <1>3, <1>4, <1>5, <1>6, <1>7, <1>8 DEF IInv

LEMMA BrelseIInv ==
  ASSUME IInv, NEW p \in Procs, Brelse(p)
  PROVE  IInv'
<1>1. /\ UNCHANGED <<disk, blockno, refcnt, valid, dirty, data, mru, idequeue, request,
                     want, buf, panicked>>
      /\ pc[p] = "has" /\ buf[p] \in Bufs
      /\ locker' = [locker EXCEPT ![buf[p]] = NoProc]
      /\ pc' = WakeAnd(p, buf[p], "locksleep", "unlocked", "unref")
  BY Types DEF Brelse, fields, ide, mine
<1>2. \A q \in Procs : q # p /\ pc[q] \in Held => buf[q] # buf[p] /\ buf[q] \in Bufs
  BY <1>1, Types DEF IInv, Holders, Held
<1>3. /\ \A q \in Procs : q # p =>
           \/ pc'[q] = pc[q] /\ ~(pc[q] = "locksleep" /\ buf[q] = buf[p])
           \/ pc'[q] = "unlocked" /\ pc[q] = "locksleep" /\ buf[q] = buf[p]
      /\ pc'[p] = "unref"
      /\ pc' \in [Procs -> {"out", "lock", "locksleep", "unlocked", "bread", "has",
                            "unref", "iderw", "iosleep", "iowoken", "panic"}]
  BY <1>1, Types DEF WakeAnd
<1>4. locker'[buf[p]] = NoProc /\ \A i \in Bufs : i # buf[p] => locker'[i] = locker[i]
  BY <1>1, Types
<1>5. QueueSound'
  <2>1. \A q \in Procs : pc[q] = "iosleep" => buf[q] # buf[p] /\ buf[q] \in Bufs
    BY <1>1, <1>2 DEF Held
  <2>2. \A q \in Procs : pc'[q] = "iosleep" <=> pc[q] = "iosleep"
    BY <1>1, <1>3
  <2> QED BY <1>1, <1>4, <2>1, <2>2, QueueKept
<1>6. TypeOK'
  BY <1>1, <1>3, UsingKept DEF IInv, TypeOK
<1>7. OneBuffer' /\ Places'
  BY <1>1, <1>3 DEF IInv, OneBuffer, Places
<1>8. Holders'
  <2>1. ASSUME NEW q \in Procs, pc'[q] \in Held PROVE locker'[buf'[q]] = q
    <3>1. q # p /\ pc[q] \in Held
      BY <1>3, <2>1 DEF Held
    <3> QED BY <1>1, <1>2, <1>4, <3>1 DEF IInv, Holders
  <2>2. ASSUME NEW i \in Bufs, locker'[i] # NoProc
        PROVE  buf'[locker'[i]] = i /\ pc'[locker'[i]] \in Held
    <3>1. i # buf[p] /\ locker'[i] = locker[i] /\ locker[i] \in Procs
      BY <1>4, <2>2, Types
    <3>2. buf[locker[i]] = i /\ pc[locker[i]] \in Held /\ locker[i] # p
      BY <2>2, <3>1 DEF IInv, Holders
    <3>3. pc'[locker[i]] = pc[locker[i]]
      BY <1>3, <3>1, <3>2 DEF Held
    <3> QED BY <1>1, <3>1, <3>2, <3>3
  <2> QED BY <2>1, <2>2 DEF Holders
<1>9. Contents'
  BY <1>1, <1>3 DEF IInv, Contents
<1>10. LockSleepersHaveReason'
  <2>1. \A q \in Procs : pc'[q] = "locksleep" => q # p /\ pc[q] = "locksleep" /\ buf[q] # buf[p]
                                                 /\ buf[q] \in Bufs
    BY <1>3, Types
  <2> QED BY <1>1, <1>4, <2>1 DEF IInv, LockSleepersHaveReason
<1> QED BY <1>5, <1>6, <1>7, <1>8, <1>9, <1>10 DEF IInv

LEMMA UnrefIInv ==
  ASSUME IInv, NEW p \in Procs, Unref(p)
  PROVE  IInv'
<1>1. /\ UNCHANGED <<disk, blockno, valid, dirty, data, locker, idequeue, request, panicked>>
      /\ pc[p] = "unref" /\ buf[p] \in Bufs /\ pc' = [pc EXCEPT ![p] = "out"]
      /\ refcnt' = [refcnt EXCEPT ![buf[p]] = refcnt[buf[p]] - 1]
      /\ want' = [want EXCEPT ![p] = NoBlock] /\ buf' = [buf EXCEPT ![p] = 0]
      /\ mru' = mru \/ mru' = ToFront(buf[p])
  BY Types DEF Unref, Goto, ide
<1>2. QueueSound'
  <2>1. \A q \in Procs : q # p => buf'[q] = buf[q] /\ pc'[q] = pc[q]
    BY <1>1, Types
  <2> QED BY <1>1, <2>1, Types, QueueKept
<1>3. mru' \in [1..NBUF -> Bufs] /\ Range(mru') = Bufs
  BY <1>1, ToFrontKeepsAll DEF IInv, TypeOK
<1>4. TypeOK'
  <2>1. refcnt' \in [Bufs -> Nat] /\ \A j \in Bufs : refcnt'[j] = Cardinality(Using(j)')
    BY <1>1, UsingShrinks
  <2>2. buf' \in [Procs -> 0..NBUF] /\ want' \in [Procs -> Blocks \cup {NoBlock}]
    BY <1>1, Types, BcacheAssumption
  <2> QED BY <1>1, <1>3, <2>1, <2>2 DEF IInv, TypeOK
<1>5. OneBuffer' /\ Places'
  BY <1>1, Types DEF IInv, OneBuffer, Places
<1>6. Holders'
  BY <1>1, Types DEF IInv, Holders, Held
<1>7. Contents'
  BY <1>1, Types DEF IInv, Contents
<1>8. LockSleepersHaveReason'
  BY <1>1, Types DEF IInv, LockSleepersHaveReason
<1> QED BY <1>2, <1>4, <1>5, <1>6, <1>7, <1>8 DEF IInv

-----------------------------------------------------------------------------
(* The driver.                                                             *)

LEMMA IderwIInv ==
  ASSUME IInv, NEW p \in Procs, Iderw(p)
  PROVE  IInv'
<1>1. /\ UNCHANGED <<disk, blockno, refcnt, valid, dirty, data, mru, locker, want, buf, panicked>>
      /\ pc[p] = "iderw" /\ buf[p] \in Bufs /\ pc' = [pc EXCEPT ![p] = "iosleep"]
      /\ idequeue' = Append(idequeue, buf[p])
      /\ request' = IF idequeue = <<>> THEN Idestart(buf[p]) ELSE request
  BY Types DEF Iderw, Goto, fields, mine
<1>2. locker[buf[p]] = p
  BY <1>1 DEF IInv, Holders, Held
<1>3. /\ idequeue \in Seq(Bufs) /\ Len(idequeue) \in Nat
      /\ idequeue' \in Seq(Bufs) /\ Len(idequeue') = Len(idequeue) + 1
      /\ \A k \in 1..Len(idequeue) : idequeue'[k] = idequeue[k]
      /\ idequeue'[Len(idequeue) + 1] = buf[p]
      /\ idequeue' # <<>>
      /\ Head(idequeue') = IF idequeue = <<>> THEN buf[p] ELSE Head(idequeue)
  BY <1>1, AppendProperties, HeadTailAppend, LenProperties DEF IInv, TypeOK
<1>4. \A k \in 1..Len(idequeue') : k \in 1..Len(idequeue) \/ k = Len(idequeue) + 1
  BY <1>3
<1>5. Len(idequeue) + 1 \in 1..Len(idequeue') /\ 1..Len(idequeue) \subseteq 1..Len(idequeue')
  BY <1>3
<1>6. \A k \in 1..Len(idequeue) : idequeue[k] # buf[p]
  BY <1>1, <1>2 DEF IInv, QueueSound
<1>7. TypeOK'
  BY <1>1, <1>3, UsingKept DEF IInv, TypeOK
<1>8. OneBuffer' /\ Places'
  BY <1>1, Types DEF IInv, OneBuffer, Places
<1>9. Holders'
  BY <1>1, Types DEF IInv, Holders, Held
<1>10. Contents'
  BY <1>1, Types DEF IInv, Contents
<1>11. LockSleepersHaveReason'
  BY <1>1, Types DEF IInv, LockSleepersHaveReason
<1>12. QueueSound'
  <2>1. ASSUME NEW q \in Procs, pc'[q] = "iosleep"
        PROVE  \E k \in 1..Len(idequeue') : idequeue'[k] = buf'[q]
    <3>1. CASE q = p
      BY <1>1, <1>3, <1>5, <3>1
    <3>2. CASE q # p
      <4>1. pc[q] = "iosleep"
        BY <1>1, <2>1, <3>2, Types
      <4>2. PICK k \in 1..Len(idequeue) : idequeue[k] = buf[q]
        BY <4>1 DEF IInv, QueueSound, Contains
      <4> QED BY <1>1, <1>3, <1>5, <4>2
    <3> QED BY <3>1, <3>2
  <2>2. DOMAIN idequeue' = 1..Len(idequeue') /\ DOMAIN idequeue = 1..Len(idequeue)
    BY <1>3, LenProperties
  <2>3. ASSUME NEW j \in 1..Len(idequeue'), NEW k \in 1..Len(idequeue'),
               idequeue'[j] = idequeue'[k]
        PROVE  j = k
    <3>1. CASE j \in 1..Len(idequeue) /\ k \in 1..Len(idequeue)
      BY <1>3, <2>2, <2>3, <3>1 DEF IInv, QueueSound, IsInjective
    <3>2. CASE ~(j \in 1..Len(idequeue) /\ k \in 1..Len(idequeue))
      BY <1>3, <1>4, <1>6, <2>3, <3>2
    <3> QED BY <3>1, <3>2
  <2>4. ASSUME NEW k \in 1..Len(idequeue')
        PROVE  \E q \in Procs : locker'[idequeue'[k]] = q /\ pc'[q] = "iosleep"
                                /\ buf'[q] = idequeue'[k]
    <3>1. CASE k = Len(idequeue) + 1
      BY <1>1, <1>2, <1>3, <3>1, Types
    <3>2. CASE k \in 1..Len(idequeue)
      <4>1. PICK q \in Procs : locker[idequeue[k]] = q /\ pc[q] = "iosleep" /\ buf[q] = idequeue[k]
        BY <3>2 DEF IInv, QueueSound
      <4>2. q # p
        BY <1>1, <4>1
      <4> QED BY <1>1, <1>3, <3>2, <4>1, <4>2, Types
    <3> QED BY <1>4, <3>1, <3>2
  <2>5. request' = <<blockno'[Head(idequeue')], dirty'[Head(idequeue')], data'[Head(idequeue')]>>
    <3>1. CASE idequeue = <<>>
      BY <1>1, <1>3, <3>1 DEF Idestart
    <3>2. CASE idequeue # <<>>
      BY <1>1, <1>3, <3>2 DEF IInv, QueueSound, Idestart
    <3> QED BY <3>1, <3>2
  <2>6. IsInjective(idequeue')
    BY <2>2, <2>3 DEF IsInjective
  <2>7. \A q \in Procs : pc'[q] = "iosleep" => Contains(idequeue', buf'[q])
    BY <2>1 DEF Contains
  <2> QED BY <1>3, <2>4, <2>5, <2>6, <2>7 DEF QueueSound, Idestart
<1> QED BY <1>7, <1>8, <1>9, <1>10, <1>11, <1>12 DEF IInv

\* What the interrupt finds: the head of the queue, and its one process.
LEMMA Served ==
  ASSUME IInv, Ideintr
  PROVE  \E p \in Procs :
           /\ idequeue # <<>> /\ Len(idequeue) \in Nat \ {0} /\ idequeue \in Seq(Bufs)
           /\ Head(idequeue) = idequeue[1] /\ Head(idequeue) \in Bufs
           /\ pc[p] = "iosleep" /\ buf[p] = Head(idequeue) /\ blockno[Head(idequeue)] \in Blocks
           /\ \A q \in Procs : pc[q] \in Held /\ buf[q] = Head(idequeue) => q = p
           /\ request = Idestart(Head(idequeue))
           /\ DOMAIN idequeue = 1..Len(idequeue)
<1>1. idequeue # <<>> /\ request = Idestart(Head(idequeue))
  BY DEF Ideintr, IInv, QueueSound
<1>2. /\ Len(idequeue) \in Nat \ {0} /\ Head(idequeue) = idequeue[1] /\ Head(idequeue) \in Bufs
      /\ idequeue \in Seq(Bufs)
  BY <1>1, EmptySeq, HeadTailProperties DEF IInv, TypeOK
<1>3. DOMAIN idequeue = 1..Len(idequeue)
  BY <1>2, LenProperties
<1>4. 1 \in 1..Len(idequeue)
  BY <1>2
<1>5. PICK p \in Procs : pc[p] = "iosleep" /\ buf[p] = Head(idequeue)
  BY <1>2, <1>4 DEF IInv, QueueSound
<1>6. \A q \in Procs : pc[q] \in Held /\ buf[q] = Head(idequeue) => q = p
  BY <1>5 DEF IInv, Holders, Held
<1>7. blockno[Head(idequeue)] \in Blocks
  BY <1>5 DEF IInv, Places, OneBuffer
<1> QED BY <1>1, <1>2, <1>3, <1>5, <1>6, <1>7

LEMMA IdeintrIInv == IInv /\ Ideintr => IInv'
<1> SUFFICES ASSUME IInv, Ideintr PROVE IInv'
  OBVIOUS
<1> DEFINE i == Head(idequeue)
           rest == Tail(idequeue)
<1>1. PICK p \in Procs :
        /\ idequeue # <<>> /\ Len(idequeue) \in Nat \ {0} /\ idequeue \in Seq(Bufs)
        /\ i = idequeue[1] /\ i \in Bufs
        /\ pc[p] = "iosleep" /\ buf[p] = i /\ blockno[i] \in Blocks
        /\ \A q \in Procs : pc[q] \in Held /\ buf[q] = i => q = p
        /\ request = Idestart(i)
        /\ DOMAIN idequeue = 1..Len(idequeue)
  BY Served
<1>2. /\ rest \in Seq(Bufs) /\ Len(rest) = Len(idequeue) - 1
      /\ \A k \in 1..Len(rest) : rest[k] = idequeue[k + 1]
      /\ rest # <<>> => Len(rest) \in Nat \ {0} /\ Head(rest) = rest[1]
      /\ DOMAIN rest = 1..Len(rest)
  BY <1>1, HeadTailProperties, EmptySeq, LenProperties
<1>3. /\ UNCHANGED <<blockno, refcnt, mru, locker, want, buf, panicked>>
      /\ request' = IF rest = <<>> THEN <<>> ELSE Idestart(Head(rest))
      /\ idequeue' = rest
      /\ disk' = IF dirty[i] THEN [disk EXCEPT ![blockno[i]] = data[i]] ELSE disk
      /\ data' = IF dirty[i] THEN data ELSE [data EXCEPT ![i] = disk[blockno[i]]]
      /\ valid' = [valid EXCEPT ![i] = TRUE] /\ dirty' = [dirty EXCEPT ![i] = FALSE]
      /\ pc' = WakeAnd(NoProc, i, "iosleep", "iowoken", "")
  BY <1>1 DEF Ideintr, mine, Idestart
<1> HIDE DEF i, rest
<1>4. /\ pc' \in [Procs -> {"out", "lock", "locksleep", "unlocked", "bread", "has",
                            "unref", "iderw", "iosleep", "iowoken", "panic"}]
      /\ pc'[p] = "iowoken" /\ \A q \in Procs : q # p => pc'[q] = pc[q]
      /\ \A q \in Procs : q # p /\ pc[q] \in Held => buf[q] # i
  BY <1>1, <1>3, BcacheAssumption, Types DEF WakeAnd, Held
<1>5. /\ valid'[i] /\ ~dirty'[i] /\ data'[i] = disk'[blockno[i]]
      /\ \A j \in Bufs : j # i => valid'[j] = valid[j] /\ dirty'[j] = dirty[j] /\ data'[j] = data[j]
      /\ \A b \in Blocks : b # blockno[i] => disk'[b] = disk[b]
  <2>1. CASE dirty[i]
    BY <1>1, <1>3, <2>1, Types
  <2>2. CASE ~dirty[i]
    BY <1>1, <1>3, <2>2, Types
  <2> QED BY <2>1, <2>2
<1>6. disk' \in [Blocks -> Vals] /\ data' \in [Bufs -> Vals]
  <2>1. CASE dirty[i]
    BY <1>1, <1>3, <2>1, Types
  <2>2. CASE ~dirty[i]
    BY <1>1, <1>3, <2>2, Types
  <2> QED BY <2>1, <2>2
<1>7. TypeOK'
  <2>1. valid' \in [Bufs -> BOOLEAN] /\ dirty' \in [Bufs -> BOOLEAN]
    BY <1>3, Types
  <2> QED BY <1>2, <1>3, <1>4, <1>6, <2>1, UsingKept DEF IInv, TypeOK
<1>8. OneBuffer' /\ Places'
  BY <1>1, <1>3, <1>4 DEF IInv, OneBuffer, Places
<1>9. Holders'
  <2>1. \A q \in Procs : pc'[q] \in Held => pc[q] \in Held
    BY <1>1, <1>4 DEF Held
  <2>2. \A q \in Procs : pc[q] \in Held => pc'[q] \in Held
    BY <1>4 DEF Held
  <2>3. \A j \in Bufs : locker[j] # NoProc => locker[j] \in Procs
    BY Types
  <2> QED BY <1>3, <2>1, <2>2, <2>3 DEF IInv, Holders
<1>10. Contents'
  <2>1. \A j \in Bufs : (dirty'[j] => valid'[j]) /\ (valid'[j] => blockno'[j] \in Blocks)
    BY <1>1, <1>3, <1>5 DEF IInv, Contents
  <2>2. ASSUME NEW j \in Bufs, valid'[j], ~dirty'[j] PROVE data'[j] = disk'[blockno'[j]]
    <3>1. CASE j = i
      BY <1>3, <1>5, <3>1
    <3>2. CASE j # i
      <4>1. data[j] = disk[blockno[j]] /\ blockno[j] \in Blocks
        BY <1>5, <2>2, <3>2 DEF IInv, Contents
      <4>2. blockno[j] # blockno[i]
        BY <1>1, <3>2, <4>1 DEF IInv, OneBuffer
      <4> QED BY <1>3, <1>5, <3>2, <4>1, <4>2
    <3> QED BY <3>1, <3>2
  <2>3. ASSUME NEW q \in Procs, q # p, pc'[q] \in Held
        PROVE  /\ pc[q] = pc'[q] /\ buf'[q] = buf[q]
               /\ valid'[buf[q]] = valid[buf[q]] /\ dirty'[buf[q]] = dirty[buf[q]]
    <3>1. pc[q] = pc'[q] /\ buf'[q] = buf[q] /\ buf[q] # i
      BY <1>3, <1>4, <2>3
    <3>2. buf[q] \in Bufs
      BY <2>3, <3>1, Types DEF Held
    <3> QED BY <1>5, <3>1, <3>2
  <2>4. \A q \in Procs : pc'[q] = "has" => valid'[buf'[q]]
    BY <1>4, <2>3 DEF IInv, Contents, Held
  <2>5. \A q \in Procs : pc'[q] = "iowoken" => valid'[buf'[q]] /\ ~dirty'[buf'[q]]
    <3>1. valid'[buf'[p]] /\ ~dirty'[buf'[p]]
      BY <1>1, <1>3, <1>5
    <3> QED BY <2>3, <3>1 DEF IInv, Contents, Held
  <2>6. \A q \in Procs : pc'[q] \in {"iderw", "iosleep"} => dirty'[buf'[q]] \/ ~valid'[buf'[q]]
    BY <1>4, <2>3 DEF IInv, Contents, Held
  <2> QED BY <2>1, <2>2, <2>4, <2>5, <2>6 DEF Contents
<1>11. LockSleepersHaveReason'
  BY <1>3, <1>4 DEF IInv, LockSleepersHaveReason
<1>12. QueueSound'
  <2>1. ASSUME NEW q \in Procs, pc'[q] = "iosleep"
        PROVE  \E k \in 1..Len(rest) : rest[k] = buf'[q]
    <3>1. pc[q] = "iosleep" /\ buf[q] # i
      BY <1>4, <2>1 DEF Held
    <3>2. PICK k \in 1..Len(idequeue) : idequeue[k] = buf[q]
      BY <3>1 DEF IInv, QueueSound, Contains
    <3>3. k # 1 /\ k - 1 \in 1..Len(rest) /\ (k - 1) + 1 = k
      BY <1>1, <1>2, <3>1, <3>2
    <3>4. rest[k - 1] = idequeue[(k - 1) + 1]
      BY <1>2, <3>3
    <3> QED BY <1>3, <3>2, <3>3, <3>4
  <2>2. \A k \in 1..Len(rest) : k + 1 \in 1..Len(idequeue) /\ k + 1 # 1
    BY <1>1, <1>2
  <2>3. IsInjective(rest)
    <3> SUFFICES ASSUME NEW j \in 1..Len(rest), NEW k \in 1..Len(rest), rest[j] = rest[k]
                 PROVE  j = k
      BY <1>2 DEF IsInjective
    <3>1. idequeue[j + 1] = idequeue[k + 1]
      BY <1>2
    <3>2. j + 1 = k + 1
      BY <1>1, <2>2, <3>1 DEF IInv, QueueSound, IsInjective
    <3> QED BY <1>1, <1>2, <3>2
  <2>4. \A k \in 1..Len(rest) : rest[k] # i /\ rest[k] \in Bufs
    <3>1. 1 \in 1..Len(idequeue)
      BY <1>1
    <3>2. ASSUME NEW k \in 1..Len(rest), rest[k] = i PROVE FALSE
      <4>1. k + 1 \in 1..Len(idequeue) /\ idequeue[k + 1] = idequeue[1]
        BY <1>1, <1>2, <2>2, <3>2
      <4>2. k + 1 = 1
        BY <3>1, <4>1 DEF IInv, QueueSound, IsInjective
      <4> QED BY <2>2, <4>2
    <3> QED BY <1>2, <3>2, ElementOfSeq
  <2>5. ASSUME NEW k \in 1..Len(rest)
        PROVE  \E q \in Procs : locker'[rest[k]] = q /\ pc'[q] = "iosleep" /\ buf'[q] = rest[k]
    <3>1. PICK q \in Procs : /\ locker[rest[k]] = q /\ pc[q] = "iosleep" /\ buf[q] = rest[k]
      BY <1>2, <2>2 DEF IInv, QueueSound
    <3>2. q # p
      BY <1>1, <2>4, <3>1
    <3> QED BY <1>3, <1>4, <3>1, <3>2
  <2>6. request' = IF rest = <<>> THEN <<>>
                   ELSE <<blockno'[Head(rest)], dirty'[Head(rest)], data'[Head(rest)]>>
    <3>1. CASE rest = <<>>
      BY <1>3, <3>1
    <3>2. CASE rest # <<>>
      <4>1. Head(rest) # i /\ Head(rest) \in Bufs
        BY <1>2, <2>4, <3>2
      <4> QED BY <1>3, <1>5, <3>2, <4>1 DEF Idestart
    <3> QED BY <3>1, <3>2
  <2>7. \A q \in Procs : pc'[q] = "iosleep" => Contains(idequeue', buf'[q])
    BY <1>3, <2>1 DEF Contains
  <2> QED BY <1>3, <2>3, <2>5, <2>6, <2>7 DEF QueueSound, Idestart
<1> QED BY <1>7, <1>8, <1>9, <1>10, <1>11, <1>12 DEF IInv

LEMMA StepIInv == IInv /\ [Next]_vars => IInv'
<1> SUFFICES ASSUME IInv, [Next]_vars PROVE IInv'
  OBVIOUS
<1>1. CASE UNCHANGED vars
  BY <1>1, StutterIInv
<1>2. ASSUME NEW p \in Procs, Step(p) PROVE IInv'
  BY <1>2, AcquiresleepIInv, LookIInv, BrelseIInv, UnrefIInv, IderwIInv DEF Step
<1>3. ASSUME NEW p \in Procs, NEW b \in Blocks, Bget(p, b) PROVE IInv'
  BY <1>3, BgetIInv
<1>4. ASSUME NEW p \in Procs, NEW v \in Vals, LogWrite(p, v) \/ Bwrite(p, v) PROVE IInv'
  BY <1>4, WriteIInv
<1>5. CASE Ideintr
  BY <1>5, IdeintrIInv
<1> QED BY <1>1, <1>2, <1>3, <1>4, <1>5 DEF Next, Spurious, Frozen

\* What the cache, its users and the driver keep true together.
THEOREM Invariance == Spec => []IInv
<1>1. Init => IInv
  BY InitIInv
<1>2. IInv /\ [Next]_vars => IInv'
  BY StepIInv
<1> QED BY <1>1, <1>2, PTL DEF Spec

\* Whoever shares the cache: a block is never in two buffers, a buffer is never
\* recycled under a process that has it, and every process that waits for the
\* disk has its one request in the queue.
THEOREM CacheIsSound == Spec => []CacheSound
<1>1. IInv => CacheSound
  BY DEF IInv, CacheSound
<1> QED BY <1>1, Invariance, PTL

\* No process sleeps in acquiresleep() on a lock that is free, or its own.
THEOREM NoSleeperForgotten == Spec => []LockSleepersHaveReason
<1>1. IInv => LockSleepersHaveReason
  BY DEF IInv
<1> QED BY <1>1, Invariance, PTL

-----------------------------------------------------------------------------
(* One store.                                                              *)

\* What the store of Bcache holds, and who has it, of any state.
ValOf(dk, bn, vl, dt) ==
  [b \in Blocks |->
     LET with == {i \in Bufs : bn[i] = b /\ vl[i]}
     IN  IF with = {} THEN dk[b] ELSE dt[CHOOSE i \in with : TRUE]]

HolderOf(w, c) ==
  [b \in Blocks |->
     LET who == {p \in Procs : w[p] = b /\ c[p] \in Held}
     IN  IF who = {} THEN NoProc ELSE CHOOSE p \in who : TRUE]

Val == ValOf(disk, blockno, valid, data)
Holder == HolderOf(want, pc)
svars == <<Val, Holder>>

LEMMA StorePrimed ==
  /\ Val' = ValOf(disk', blockno', valid', data')
  /\ Holder' = HolderOf(want', pc')
BY DEF Val, Holder

LEMMA ValCached ==
  ASSUME NEW dk, NEW bn, NEW vl, NEW dt, NEW b \in Blocks, NEW i \in Bufs,
         bn[i] = b, vl[i], \A j \in Bufs : j # i => bn[j] # b
  PROVE  ValOf(dk, bn, vl, dt)[b] = dt[i]
<1> DEFINE with == {j \in Bufs : bn[j] = b /\ vl[j]}
<1>1. with = {i}
  OBVIOUS
<1>2. (CHOOSE j \in with : TRUE) = i /\ with # {}
  BY <1>1
<1>3. ValOf(dk, bn, vl, dt)[b] = IF with = {} THEN dk[b] ELSE dt[CHOOSE j \in with : TRUE]
  BY DEF ValOf
<1> QED BY <1>2, <1>3

LEMMA ValOnDisk ==
  ASSUME NEW dk, NEW bn, NEW vl, NEW dt, NEW b \in Blocks,
         \A j \in Bufs : ~(bn[j] = b /\ vl[j])
  PROVE  ValOf(dk, bn, vl, dt)[b] = dk[b]
BY DEF ValOf

LEMMA ValIs ==
  ASSUME NEW dk, NEW bn, NEW vl, NEW dt, NEW f, f = [b \in Blocks |-> f[b]],
         \A b \in Blocks : ValOf(dk, bn, vl, dt)[b] = f[b]
  PROVE  ValOf(dk, bn, vl, dt) = f
<1>1. ValOf(dk, bn, vl, dt) = [b \in Blocks |-> ValOf(dk, bn, vl, dt)[b]]
  BY DEF ValOf
<1>2. [b \in Blocks |-> ValOf(dk, bn, vl, dt)[b]] = [b \in Blocks |-> f[b]]
  OBVIOUS
<1> QED BY <1>1, <1>2

LEMMA ValFunction == Val = [b \in Blocks |-> Val[b]]
BY DEF Val, ValOf

LEMMA HolderIs ==
  ASSUME NEW w, NEW c, NEW b \in Blocks, NEW p \in Procs, w[p] = b, c[p] \in Held,
         \A q \in Procs : w[q] = b /\ c[q] \in Held => q = p
  PROVE  HolderOf(w, c)[b] = p
<1> DEFINE who == {q \in Procs : w[q] = b /\ c[q] \in Held}
<1>1. who = {p}
  OBVIOUS
<1>2. (CHOOSE q \in who : TRUE) = p /\ who # {}
  BY <1>1
<1>3. HolderOf(w, c)[b] = IF who = {} THEN NoProc ELSE CHOOSE q \in who : TRUE
  BY DEF HolderOf
<1> QED BY <1>2, <1>3

LEMMA HolderNone ==
  ASSUME NEW w, NEW c, NEW b \in Blocks, \A q \in Procs : ~(w[q] = b /\ c[q] \in Held)
  PROVE  HolderOf(w, c)[b] = NoProc
BY DEF HolderOf

\* Two processes that have a block locked are one.
LEMMA OneHolder ==
  ASSUME IInv, NEW p \in Procs, NEW q \in Procs, pc[p] \in Held, pc[q] \in Held,
         want[p] = want[q]
  PROVE  p = q /\ want[p] \in Blocks /\ buf[p] \in Bufs /\ blockno[buf[p]] = want[p]
<1>1. buf[p] \in Bufs /\ buf[q] \in Bufs /\ 0 \notin Bufs
  BY Types DEF Held, Bufs
<1>2. /\ blockno[buf[p]] = want[p] /\ blockno[buf[q]] = want[q]
      /\ want[p] \in Blocks
  BY <1>1 DEF IInv, OneBuffer, Places
<1>3. buf[p] = buf[q]
  BY <1>1, <1>2 DEF IInv, OneBuffer
<1> QED BY <1>1, <1>2, <1>3 DEF IInv, Holders

LEMMA HolderFunction == Holder = [b \in Blocks |-> Holder[b]]
BY DEF Holder, HolderOf

LEMMA HolderSame ==
  ASSUME IInv,
         \A q \in Procs : pc[q] \in Held \/ pc'[q] \in Held =>
           pc[q] \in Held /\ pc'[q] \in Held /\ want'[q] = want[q]
  PROVE  Holder' = Holder
<1>1. ASSUME NEW b \in Blocks PROVE HolderOf(want', pc')[b] = HolderOf(want, pc)[b]
  <2>1. CASE \E p \in Procs : want[p] = b /\ pc[p] \in Held
    <3>1. PICK p \in Procs : want[p] = b /\ pc[p] \in Held
      BY <2>1
    <3>2. \A q \in Procs : want[q] = b /\ pc[q] \in Held => q = p
      BY <3>1, OneHolder
    <3>3. HolderOf(want, pc)[b] = p
      BY <3>1, <3>2, HolderIs
    <3>4. want'[p] = b /\ pc'[p] \in Held /\ \A q \in Procs : want'[q] = b /\ pc'[q] \in Held => q = p
      BY <3>1, <3>2
    <3>5. HolderOf(want', pc')[b] = p
      BY <3>4, HolderIs
    <3> QED BY <3>3, <3>5
  <2>2. CASE \A p \in Procs : ~(want[p] = b /\ pc[p] \in Held)
    <3>1. \A p \in Procs : ~(want'[p] = b /\ pc'[p] \in Held)
      BY <2>2
    <3> QED BY <2>2, <3>1, HolderNone
  <2> QED BY <2>1, <2>2
<1>2. HolderOf(want', pc') = HolderOf(want, pc)
  BY <1>1 DEF HolderOf
<1> QED BY <1>2, StorePrimed DEF Holder

LEMMA InitStore == Init => Store!Init
<1> SUFFICES ASSUME Init PROVE Store!Init
  OBVIOUS
<1>1. Val = disk
  <2>1. \A b \in Blocks : Val[b] = disk[b]
    BY ValOnDisk DEF Init, Val
  <2>2. disk = [b \in Blocks |-> disk[b]]
    BY DEF Init
  <2> HIDE DEF Init
  <2> QED BY <2>1, <2>2, ValIs DEF Val
<1>2. Holder = [b \in Blocks |-> NoProc]
  <2>1. \A b \in Blocks : Holder[b] = NoProc
    BY HolderNone DEF Init, Holder, Held
  <2> QED BY <2>1 DEF Holder, HolderOf
<1>3. Val \in [Blocks -> Vals]
  BY <1>1 DEF Init
<1> QED BY <1>2, <1>3 DEF Store!Init, Val, Holder, ValOf, HolderOf, Holds, Held

LEMMA StutterStore == IInv /\ UNCHANGED vars => UNCHANGED svars
<1> SUFFICES ASSUME IInv, UNCHANGED vars PROVE UNCHANGED svars
  OBVIOUS
<1>1. UNCHANGED <<disk, blockno, valid, data, want, pc>>
  BY DEF vars, fields, mine
<1> QED BY <1>1, StorePrimed DEF svars, Val, Holder

\* Taking a buffer over for another block loses nothing: it is on the disk.
LEMMA BgetStore ==
  ASSUME IInv, NEW p \in Procs, NEW b \in Blocks, Bget(p, b)
  PROVE  UNCHANGED svars
<1>1. /\ UNCHANGED <<disk, data>> /\ pc[p] = "out" /\ want' = [want EXCEPT ![p] = b]
      /\ pc' = [pc EXCEPT ![p] = "lock"] \/ pc' = [pc EXCEPT ![p] = "panic"]
  BY DEF Bget, Goto
<1>2. Holder' = Holder
  BY <1>1, Types, HolderSame DEF Held
<1>3. CASE UNCHANGED <<blockno, valid>>
  BY <1>1, <1>2, <1>3, StorePrimed DEF svars, Val
<1>4. CASE /\ \A i \in Bufs : blockno[i] # b
           /\ Recyclable # {}
           /\ blockno' = [blockno EXCEPT ![Victim] = b]
           /\ valid' = [valid EXCEPT ![Victim] = FALSE]
  <2> DEFINE v == Victim
  <2>1. v \in Bufs /\ ~dirty[v]
    BY <1>4, VictimFree
  <2> HIDE DEF v
  <2>2. /\ blockno'[v] = b /\ ~valid'[v]
        /\ \A j \in Bufs : j # v => blockno'[j] = blockno[j] /\ valid'[j] = valid[j]
    BY <1>4, <2>1, Types DEF v
  <2>3. ASSUME NEW c \in Blocks PROVE ValOf(disk, blockno', valid', data)[c] = Val[c]
    <3>1. CASE \E i \in Bufs : i # v /\ blockno[i] = c /\ valid[i]
      <4>1. PICK i \in Bufs : i # v /\ blockno[i] = c /\ valid[i]
        BY <3>1
      <4>2. \A j \in Bufs : j # i => blockno[j] # c
        BY <4>1 DEF IInv, OneBuffer
      <4>3. Val[c] = data[i]
        BY <4>1, <4>2, ValCached DEF Val
      <4>4. b # c
        BY <1>4, <4>1
      <4>5. \A j \in Bufs : j # i => blockno'[j] # c
        BY <2>2, <4>2, <4>4
      <4>6. blockno'[i] = c /\ valid'[i]
        BY <2>2, <4>1
      <4>7. ValOf(disk, blockno', valid', data)[c] = data[i]
        BY <4>5, <4>6, ValCached
      <4> QED BY <4>3, <4>7
    <3>2. CASE ~\E i \in Bufs : i # v /\ blockno[i] = c /\ valid[i]
      <4>1. ValOf(disk, blockno', valid', data)[c] = disk[c]
        BY <2>2, <3>2, ValOnDisk
      <4>2. Val[c] = disk[c]
        <5>1. CASE blockno[v] = c /\ valid[v]
          <6>1. \A j \in Bufs : j # v => blockno[j] # c
            BY <2>1, <5>1 DEF IInv, OneBuffer
          <6>2. Val[c] = data[v]
            BY <2>1, <5>1, <6>1, ValCached DEF Val
          <6> QED BY <2>1, <5>1, <6>2 DEF IInv, Contents
        <5>2. CASE ~(blockno[v] = c /\ valid[v])
          BY <3>2, <5>2, ValOnDisk DEF Val
        <5> QED BY <5>1, <5>2
      <4> QED BY <4>1, <4>2
    <3> QED BY <3>1, <3>2
  <2>4. Val' = Val
    BY <1>1, <2>3, ValFunction, ValIs, StorePrimed
  <2> QED BY <1>2, <2>4 DEF svars
<1> QED BY <1>3, <1>4 DEF Bget

LEMMA AcquiresleepStore ==
  ASSUME IInv, NEW p \in Procs, Acquiresleep(p)
  PROVE  UNCHANGED svars \/ Store!Take(p, want[p])
<1>1. /\ pc[p] \in {"lock", "unlocked"}
      /\ UNCHANGED <<disk, blockno, valid, data, want>> /\ buf[p] \in Bufs
      /\ pc' = [pc EXCEPT ![p] = IF locker[buf[p]] = NoProc THEN "bread" ELSE "locksleep"]
  BY Types DEF Acquiresleep, fields, mine
<1>2. Val' = Val
  BY <1>1, StorePrimed DEF Val
<1>3. CASE locker[buf[p]] # NoProc
  <2>1. Holder' = Holder
    BY <1>1, <1>3, Types, HolderSame DEF Held
  <2> QED BY <1>2, <2>1 DEF svars
<1>4. CASE locker[buf[p]] = NoProc
  <2> DEFINE b == want[p]
  <2>1. b \in Blocks /\ blockno[buf[p]] = b /\ 0 \notin Bufs
    BY <1>1 DEF IInv, Places, OneBuffer, Bufs
  <2>2. ASSUME NEW q \in Procs, want[q] = b, pc[q] \in Held PROVE FALSE
    <3>1. buf[q] \in Bufs /\ blockno[buf[q]] = b /\ locker[buf[q]] = q
      BY <2>1, <2>2, Types DEF IInv, OneBuffer, Held, Holders
    <3>2. buf[q] = buf[p]
      BY <1>1, <2>1, <3>1 DEF IInv, OneBuffer
    <3> QED BY <1>4, <3>1, <3>2, BcacheAssumption
  <2>3. Holder[b] = NoProc
    BY <2>1, <2>2, HolderNone DEF Holder
  <2>4. /\ pc'[p] \in Held /\ \A q \in Procs : q # p => pc'[q] = pc[q]
        /\ pc[p] \notin Held
    BY <1>1, <1>4, Types DEF Held
  <2>5. Holder' = [Holder EXCEPT ![b] = p]
    <3>1. ASSUME NEW c \in Blocks
          PROVE  HolderOf(want, pc')[c] = IF c = b THEN p ELSE HolderOf(want, pc)[c]
      <4>1. CASE c = b
        BY <2>1, <2>2, <2>4, <4>1, HolderIs
      <4>2. CASE c # b /\ \E q \in Procs : want[q] = c /\ pc[q] \in Held
        <5>1. PICK q \in Procs : want[q] = c /\ pc[q] \in Held
          BY <4>2
        <5>2. \A r \in Procs : want[r] = c /\ pc[r] \in Held => r = q
          BY <5>1, OneHolder
        <5>3. HolderOf(want, pc)[c] = q
          BY <5>1, <5>2, HolderIs
        <5>4. pc'[q] \in Held /\ \A r \in Procs : want[r] = c /\ pc'[r] \in Held => r = q
          BY <2>4, <4>2, <5>1, <5>2
        <5>5. HolderOf(want, pc')[c] = q
          BY <5>1, <5>4, HolderIs
        <5> QED BY <4>2, <5>3, <5>5
      <4>3. CASE c # b /\ \A q \in Procs : ~(want[q] = c /\ pc[q] \in Held)
        <5>1. \A q \in Procs : ~(want[q] = c /\ pc'[q] \in Held)
          BY <2>4, <4>3
        <5> QED BY <4>3, <5>1, HolderNone
      <4> QED BY <4>1, <4>2, <4>3
    <3>2. HolderOf(want, pc') = [c \in Blocks |-> IF c = b THEN p ELSE HolderOf(want, pc)[c]]
      BY <3>1 DEF HolderOf
    <3> HIDE DEF b
    <3>3. Holder' = [c \in Blocks |-> IF c = b THEN p ELSE Holder[c]]
      BY <1>1, <3>2, StorePrimed DEF Holder
    <3> QED BY <3>3, HolderFunction
  <2>6. Store!Take(p, b)
    BY <1>2, <2>3, <2>5 DEF Store!Take, Val, Holder, ValOf, HolderOf, Holds, Held
  <2> QED BY <2>6
<1> QED BY <1>3, <1>4

LEMMA BrelseStore ==
  ASSUME IInv, NEW p \in Procs, Brelse(p)
  PROVE  Store!Give(p, want[p])
<1> DEFINE b == want[p]
<1>1. /\ pc[p] = "has" /\ UNCHANGED <<disk, blockno, valid, data, want>>
      /\ pc' = WakeAnd(p, buf[p], "locksleep", "unlocked", "unref")
  BY DEF Brelse, fields, mine
<1>2. b \in Blocks /\ pc[p] \in Held
  BY <1>1, OneHolder DEF Held
<1>3. pc'[p] \notin Held /\ \A q \in Procs : q # p => (pc'[q] \in Held <=> pc[q] \in Held)
  BY <1>1, Types DEF WakeAnd, Held
<1>4. Val' = Val
  BY <1>1, StorePrimed DEF Val
<1>5. \A q \in Procs : want[q] = b /\ pc[q] \in Held => q = p
  BY <1>2, OneHolder
<1>6. Holder[b] = p
  BY <1>2, <1>5, HolderIs DEF Holder
<1>7. Holder' = [Holder EXCEPT ![b] = NoProc]
  <2>1. ASSUME NEW c \in Blocks
        PROVE  HolderOf(want, pc')[c] = IF c = b THEN NoProc ELSE HolderOf(want, pc)[c]
    <3>1. CASE c = b
      BY <1>2, <1>3, <1>5, <3>1, HolderNone
    <3>2. CASE c # b /\ \E q \in Procs : want[q] = c /\ pc[q] \in Held
      <4>1. PICK q \in Procs : want[q] = c /\ pc[q] \in Held
        BY <3>2
      <4>2. \A r \in Procs : want[r] = c /\ pc[r] \in Held => r = q
        BY <4>1, OneHolder
      <4>3. HolderOf(want, pc)[c] = q
        BY <4>1, <4>2, HolderIs
      <4>4. pc'[q] \in Held /\ \A r \in Procs : want[r] = c /\ pc'[r] \in Held => r = q
        BY <1>3, <3>2, <4>1, <4>2
      <4>5. HolderOf(want, pc')[c] = q
        BY <4>1, <4>4, HolderIs
      <4> QED BY <3>2, <4>3, <4>5
    <3>3. CASE c # b /\ \A q \in Procs : ~(want[q] = c /\ pc[q] \in Held)
      <4>1. \A q \in Procs : ~(want[q] = c /\ pc'[q] \in Held)
        BY <1>3, <3>3
      <4> QED BY <3>3, <4>1, HolderNone
    <3> QED BY <3>1, <3>2, <3>3
  <2>2. HolderOf(want, pc') = [c \in Blocks |-> IF c = b THEN NoProc ELSE HolderOf(want, pc)[c]]
    BY <2>1 DEF HolderOf
  <2> HIDE DEF b
  <2>3. Holder' = [c \in Blocks |-> IF c = b THEN NoProc ELSE Holder[c]]
    BY <1>1, <2>2, StorePrimed DEF Holder
  <2> QED BY <2>3, HolderFunction
<1> QED BY <1>4, <1>6, <1>7 DEF Store!Give, Val, Holder, ValOf, HolderOf, Holds, Held

\* Only the holder of a block changes it.
LEMMA WriteStore ==
  ASSUME IInv, NEW p \in Procs, NEW v \in Vals, LogWrite(p, v) \/ Bwrite(p, v),
         NEW b \in Blocks, want[p] = b
  PROVE  Store!Change(p, b, v)
<1> DEFINE i == buf[p]
<1>1. /\ UNCHANGED <<disk, blockno, valid, want>> /\ pc[p] = "has"
      /\ data' = [data EXCEPT ![i] = v]
      /\ pc' = pc \/ pc' = [pc EXCEPT ![p] = "iderw"]
  BY DEF LogWrite, Bwrite, Goto, mine
<1>2. /\ b \in Blocks /\ i \in Bufs /\ blockno[i] = b /\ valid[i] /\ pc[p] \in Held
      /\ \A q \in Procs : want[q] = b /\ pc[q] \in Held => q = p
  BY <1>1, OneHolder DEF Held, IInv, Contents
<1>3. Holder' = Holder
  BY <1>1, Types, HolderSame DEF Held
<1>4. Holder[b] = p
  BY <1>2, HolderIs DEF Holder
<1>5. Val' = [Val EXCEPT ![b] = v]
  <2>1. ASSUME NEW c \in Blocks
        PROVE  ValOf(disk, blockno, valid, data')[c] = IF c = b THEN v ELSE Val[c]
    <3>1. CASE c = b
      <4>1. \A j \in Bufs : j # i => blockno[j] # b
        BY <1>2 DEF IInv, OneBuffer
      <4>2. ValOf(disk, blockno, valid, data')[b] = data'[i]
        BY <1>2, <4>1, ValCached
      <4>3. data'[i] = v
        BY <1>1, <1>2, Types
      <4> QED BY <3>1, <4>2, <4>3
    <3>2. CASE c # b /\ \E j \in Bufs : blockno[j] = c /\ valid[j]
      <4>1. PICK j \in Bufs : blockno[j] = c /\ valid[j]
        BY <3>2
      <4>2. \A k \in Bufs : k # j => blockno[k] # c
        BY <4>1 DEF IInv, OneBuffer
      <4>3. ValOf(disk, blockno, valid, data')[c] = data'[j] /\ Val[c] = data[j]
        BY <4>1, <4>2, ValCached DEF Val
      <4>4. data'[j] = data[j]
        BY <1>1, <1>2, <3>2, <4>1, Types
      <4> QED BY <3>2, <4>3, <4>4
    <3>3. CASE c # b /\ \A j \in Bufs : ~(blockno[j] = c /\ valid[j])
      BY <3>3, ValOnDisk DEF Val
    <3> QED BY <3>1, <3>2, <3>3
  <2>2. ValOf(disk, blockno, valid, data') = [c \in Blocks |-> IF c = b THEN v ELSE Val[c]]
    BY <2>1 DEF ValOf
  <2>3. Val' = [c \in Blocks |-> IF c = b THEN v ELSE Val[c]]
    BY <1>1, <2>2, StorePrimed
  <2> QED BY <2>3, ValFunction
<1> QED BY <1>3, <1>4, <1>5 DEF Store!Change, Val, Holder, ValOf, HolderOf, Holds, Held

\* The rest is between the cache and the disk.
LEMMA InnerStore ==
  ASSUME IInv, NEW p \in Procs, Bread(p) \/ IderwDone(p) \/ Iderw(p) \/ Unref(p)
  PROVE  UNCHANGED svars
<1>1. UNCHANGED <<disk, blockno, valid, data>>
  BY DEF Bread, IderwDone, Iderw, Unref, fields
<1>2. Val' = Val
  BY <1>1, StorePrimed DEF Val
<1>3. CASE Unref(p)
  <2>1. /\ pc[p] = "unref" /\ pc' = [pc EXCEPT ![p] = "out"]
        /\ want' = [want EXCEPT ![p] = NoBlock]
    BY <1>3 DEF Unref, Goto
  <2>2. Holder' = Holder
    BY <2>1, Types, HolderSame DEF Held
  <2> QED BY <1>2, <2>2 DEF svars
<1>4. CASE Bread(p) \/ IderwDone(p) \/ Iderw(p)
  <2>1. /\ pc[p] \in Held /\ want' = want
        /\ \E to \in Held : pc' = [pc EXCEPT ![p] = to]
    BY <1>4 DEF Bread, IderwDone, Iderw, Goto, mine, Held
  <2>2. Holder' = Holder
    BY <2>1, Types, HolderSame
  <2> QED BY <1>2, <2>2 DEF svars
<1> QED BY <1>3, <1>4

\* The disk's answer makes the buffer and its block on the disk agree.
LEMMA IdeintrStore == IInv /\ Ideintr => UNCHANGED svars
<1> SUFFICES ASSUME IInv, Ideintr PROVE UNCHANGED svars
  OBVIOUS
<1> DEFINE i == Head(idequeue)
<1>1. PICK p \in Procs :
        /\ i \in Bufs /\ pc[p] = "iosleep" /\ buf[p] = i /\ blockno[i] \in Blocks
        /\ request = Idestart(i)
  BY Served
<1>2. /\ UNCHANGED <<blockno, want>>
      /\ disk' = IF dirty[i] THEN [disk EXCEPT ![blockno[i]] = data[i]] ELSE disk
      /\ data' = IF dirty[i] THEN data ELSE [data EXCEPT ![i] = disk[blockno[i]]]
      /\ valid' = [valid EXCEPT ![i] = TRUE]
      /\ pc' = WakeAnd(NoProc, i, "iosleep", "iowoken", "")
  BY <1>1 DEF Ideintr, mine, Idestart
<1> HIDE DEF i
<1>3. Holder' = Holder
  <2>1. \A q \in Procs : pc[q] \in Held \/ pc'[q] \in Held => pc[q] \in Held /\ pc'[q] \in Held
    BY <1>2, BcacheAssumption, Types DEF WakeAnd, Held
  <2> QED BY <1>2, <2>1, HolderSame
<1>4. /\ dirty[i] => valid[i] /\ data'[i] = data[i]
      /\ ~dirty[i] => ~valid[i] /\ data'[i] = disk[blockno[i]]
      /\ valid'[i]
      /\ \A j \in Bufs : j # i => valid'[j] = valid[j] /\ data'[j] = data[j]
      /\ \A b \in Blocks : b # blockno[i] => disk'[b] = disk[b]
  <2>1. CASE dirty[i]
    BY <1>1, <1>2, <2>1, Types DEF IInv, Contents
  <2>2. CASE ~dirty[i]
    BY <1>1, <1>2, <2>2, Types DEF IInv, Contents
  <2> QED BY <2>1, <2>2
<1>5. ASSUME NEW c \in Blocks PROVE ValOf(disk', blockno, valid', data')[c] = Val[c]
  <2>1. CASE c = blockno[i]
    <3>1. \A j \in Bufs : j # i => blockno[j] # c
      BY <1>1, <2>1 DEF IInv, OneBuffer
    <3>2. ValOf(disk', blockno, valid', data')[c] = data'[i]
      BY <1>1, <1>4, <2>1, <3>1, ValCached
    <3>3. CASE dirty[i]
      <4>1. Val[c] = data[i]
        BY <1>1, <1>4, <2>1, <3>1, <3>3, ValCached DEF Val
      <4> QED BY <1>4, <3>2, <3>3, <4>1
    <3>4. CASE ~dirty[i]
      <4>1. Val[c] = disk[c]
        BY <1>1, <1>4, <2>1, <3>1, <3>4, ValOnDisk DEF Val
      <4> QED BY <1>4, <2>1, <3>2, <3>4, <4>1
    <3> QED BY <3>3, <3>4
  <2>2. CASE c # blockno[i] /\ \E j \in Bufs : blockno[j] = c /\ valid[j]
    <3>1. PICK j \in Bufs : blockno[j] = c /\ valid[j]
      BY <2>2
    <3>2. j # i /\ \A k \in Bufs : k # j => blockno[k] # c
      BY <2>2, <3>1 DEF IInv, OneBuffer
    <3>3. Val[c] = data[j]
      BY <3>1, <3>2, ValCached DEF Val
    <3>4. ValOf(disk', blockno, valid', data')[c] = data'[j]
      BY <1>4, <3>1, <3>2, ValCached
    <3> QED BY <1>4, <3>2, <3>3, <3>4
  <2>3. CASE c # blockno[i] /\ \A j \in Bufs : ~(blockno[j] = c /\ valid[j])
    <3>1. \A j \in Bufs : ~(blockno[j] = c /\ valid'[j])
      BY <1>4, <2>3
    <3>2. ValOf(disk', blockno, valid', data')[c] = disk'[c] /\ Val[c] = disk[c]
      BY <2>3, <3>1, ValOnDisk DEF Val
    <3> QED BY <1>4, <2>3, <3>2
  <2> QED BY <2>1, <2>2, <2>3
<1>6. Val' = Val
  <2>1. ValOf(disk', blockno, valid', data') = Val
    BY <1>5, ValFunction, ValIs
  <2>2. blockno' = blockno
    BY <1>2
  <2> QED BY <2>1, <2>2, StorePrimed
<1> QED BY <1>3, <1>6 DEF svars

LEMMA WantedBlock ==
  ASSUME IInv, NEW p \in Procs, pc[p] \notin {"out", "panic"}
  PROVE  want[p] \in Blocks
BY DEF IInv, Places

\* Cache and disk together are one store, whose blocks only their holder
\* changes: recycling a buffer, the queue and the interrupt are not seen.
THEOREM CacheImplementsStore == Spec => ImplementsStore
<1>1. Init => Store!Init
  BY InitStore
<1>2. IInv /\ [Next]_vars => [Store!Next]_svars
  <2> SUFFICES ASSUME IInv, [Next]_vars PROVE Store!Next \/ UNCHANGED svars
    OBVIOUS
  <2>1. CASE UNCHANGED vars
    BY <2>1, StutterStore
  <2>2. ASSUME NEW p \in Procs, Acquiresleep(p) PROVE Store!Next \/ UNCHANGED svars
    <3>1. want[p] \in Blocks
      BY <2>2, WantedBlock DEF Acquiresleep
    <3> QED BY <2>2, <3>1, AcquiresleepStore DEF Store!Next
  <2>3. ASSUME NEW p \in Procs, Brelse(p) PROVE Store!Next \/ UNCHANGED svars
    <3>1. want[p] \in Blocks
      BY <2>3, WantedBlock DEF Brelse
    <3> QED BY <2>3, <3>1, BrelseStore DEF Store!Next
  <2>4. ASSUME NEW p \in Procs, NEW v \in Vals, LogWrite(p, v) \/ Bwrite(p, v)
        PROVE  Store!Next \/ UNCHANGED svars
    <3>1. PICK b \in Blocks : want[p] = b
      BY <2>4, WantedBlock DEF LogWrite, Bwrite, Goto
    <3>2. Store!Change(p, b, v)
      BY <2>4, <3>1, WriteStore
    <3> QED BY <3>2 DEF Store!Next
  <2>5. ASSUME NEW p \in Procs, Bread(p) \/ IderwDone(p) \/ Iderw(p) \/ Unref(p)
        PROVE  UNCHANGED svars
    BY <2>5, InnerStore
  <2>6. ASSUME NEW p \in Procs, NEW b \in Blocks, Bget(p, b) PROVE UNCHANGED svars
    BY <2>6, BgetStore
  <2>7. CASE Ideintr
    BY <2>7, IdeintrStore
  <2> QED BY <2>1, <2>2, <2>3, <2>4, <2>5, <2>6, <2>7 DEF Next, Step, Spurious, Frozen
<1> QED BY <1>1, <1>2, Invariance, PTL
        DEF Spec, ImplementsStore, Store!Spec, svars, Val, Holder, ValOf, HolderOf, Holds, Held

=============================================================================
