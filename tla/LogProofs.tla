------------------------------- MODULE LogProofs -------------------------------
(***************************************************************************)
(* Proofs about log.c for any calls, blocks and sizes: the header in memory*)
(* has the room begin_op() reserved, nothing changed is forgotten, and a   *)
(* log of more than LOGSIZE blocks makes the disk an atomic one. And, at   *)
(* the end, about the blocks of fs.c for any inodes, files and sizes: a    *)
(* block has one use, a call fits in the room it reserves of the log, and  *)
(* files are sequences of bytes.                                           *)
(***************************************************************************)
EXTENDS Log, Storage, SequenceTheorems, FiniteSetTheorems, TLAPS

Distinct(s) == \A i, j \in 1..Len(s) : s[i] = s[j] => i = j

\* While a call is under way no commit is, and the log knows what it wrote. A call adds
\* one block at a time, within what it reserved.
Calls ==
  /\ outstanding = Cardinality(Active)
  /\ stage # "none" => Active = {}
  /\ committing <=> stage \in {"log", "head", "install", "clear", "finish"}
  /\ panicked => stage = "none"
  /\ \A o \in Ops : IsFiniteSet(wrote[o])
  /\ \A o \in Ops \ Active : wrote[o] = {} /\ adding[o] = {}
  /\ \A o \in Active : wrote[o] \subseteq Logged
  /\ \A o \in Active : \A b \in adding[o] :
       adding[o] = {b} /\ Cardinality(wrote[o] \cup {b}) <= MAXOPBLOCKS

\* The first n blocks of the log header are in the log as the cache has them; they are
\* at home as the cache has them, and as the log has them.
Copied(n) == \A i \in 1..n : slots[i] = cache[lh[i]]
Settled(n) == \A i \in 1..n : home[lh[i]] = cache[lh[i]]
Installed(n) == \A i \in 1..n : home[lh[i]] = slots[i]

\* What each step of the commit, and of the recovery, finds done; of the log's blocks
\* where they all are its own.
Stages ==
  /\ Distinct(lh) /\ Distinct(head)
  /\ tail <= Len(lh)
  /\ stage \notin {"log", "install", "recover"} => tail = 0
  /\ stage \in {"none", "log", "head", "finish"} => head = <<>>
  /\ stage \in {"install", "clear", "recover", "reset"} => head = lh
  /\ stage \in {"boot", "finish"} => lh = <<>>
  /\ stage = "install" => Settled(tail)
  /\ stage = "clear" => Settled(Len(lh))
  /\ stage \in {"boot", "recover", "reset"} => cache = home

InLog ==
  /\ size > LOGSIZE
  /\ stage = "log" => Copied(tail)
  /\ stage \in {"head", "install", "clear"} => Copied(Len(lh))
  /\ stage \in {"install", "recover"} => Installed(tail)
  /\ stage \in {"clear", "reset"} => Installed(Len(lh))

IInv == TypeOK /\ Calls /\ Stages /\ Reserved /\ DirtyIsLogged /\ PanicsFull

-----------------------------------------------------------------------------
(* Counting.                                                               *)

LEMMA ActiveFinite ==
  /\ IsFiniteSet(Active) /\ Cardinality(Active) \in 0..Cardinality(Ops)
  /\ Cardinality(Ops) \in Nat
<1>1. Active \subseteq Ops
  BY DEF Active
<1> QED BY <1>1, LogAssumption, FS_Subset, FS_CardinalityType

LEMMA MayWriteFinite ==
  /\ IsFiniteSet(MayWrite) /\ Cardinality(MayWrite) \in Nat
  /\ Cardinality(MayWrite) <= Cardinality(Active) * MAXOPBLOCKS
<1>1. IsFiniteSet(1..MAXOPBLOCKS) /\ Cardinality(1..MAXOPBLOCKS) = MAXOPBLOCKS
  BY LogAssumption, FS_Interval
<1>2. /\ IsFiniteSet(Active \X (1..MAXOPBLOCKS))
      /\ Cardinality(Active \X (1..MAXOPBLOCKS)) = Cardinality(Active) * MAXOPBLOCKS
  BY <1>1, ActiveFinite, FS_Product
<1>3. MayWrite \subseteq Active \X (1..MAXOPBLOCKS)
  BY DEF MayWrite
<1> QED BY <1>2, <1>3, FS_Subset, FS_CardinalityType

LEMMA Lengths ==
  ASSUME TypeOK
  PROVE  /\ Len(lh) \in Nat /\ Len(head) \in Nat /\ LOGSIZE \in Nat
         /\ \A i \in 1..Len(lh) : lh[i] \in Blocks
         /\ \A i \in 1..Len(head) : head[i] \in Blocks
BY LogAssumption, LenProperties, ElementOfSeq DEF TypeOK

-----------------------------------------------------------------------------

LEMMA InitIInv == Init => IInv
<1> SUFFICES ASSUME Init PROVE IInv
  OBVIOUS
<1>1. Active = {} /\ Cardinality(Active) = 0 /\ MayWrite = {} /\ Cardinality(MayWrite) = 0
  BY FS_EmptySet DEF Init, Active, MayWrite
<1>2. Len(<<>>) = 0 /\ <<>> \in Seq(Blocks)
  BY EmptySeq
<1>3. TypeOK
  <2>1. 0 \in 0..Cardinality(Ops) /\ 0 \in 0..LOGSIZE /\ 0 <= LOGSIZE
    BY ActiveFinite, LogAssumption
  <2>2. /\ pc \in [Ops -> {"out", "asleep", "woken", "in", "commit"}]
        /\ wrote \in [Ops -> SUBSET Blocks] /\ adding \in [Ops -> SUBSET Blocks]
    BY DEF Init
  <2>3. slots \in [1..LOGSIZE -> Vals]
    BY DEF Init
  <2> QED BY <1>2, <2>1, <2>2, <2>3 DEF Init, TypeOK
<1>4. Calls
  BY <1>1, FS_EmptySet DEF Init, Calls, Active
<1>5. Stages
  BY <1>2 DEF Init, Stages, Distinct
<1>6. Reserved /\ DirtyIsLogged /\ PanicsFull
  BY <1>1, <1>2, LogAssumption DEF Init, Reserved, DirtyIsLogged, PanicsFull
<1> QED BY <1>3, <1>4, <1>5, <1>6 DEF IInv

\* A step that leaves the calls alone keeps the room reserved, unless it
\* lengthens the log's header.
LEMMA CallsAlone ==
  ASSUME IInv, UNCHANGED <<pc, wrote, adding>>
  PROVE  Active' = Active /\ MayWrite' = MayWrite
BY DEF Active, MayWrite

LEMMA CrashIInv == IInv /\ Crash => IInv'
<1> SUFFICES ASSUME IInv, Crash PROVE IInv'
  OBVIOUS
<1> USE DEF IInv, Crash, disk
<1>1. Active' = {} /\ Cardinality(Active') = 0
  BY FS_EmptySet DEF Active
<1>2. Len(<<>>) = 0 /\ <<>> \in Seq(Blocks)
  BY EmptySeq
<1>3. TypeOK'
  <2>1. 0 \in 0..Cardinality(Ops) /\ 0 \in 0..LOGSIZE /\ 0 <= LOGSIZE
    BY ActiveFinite, LogAssumption
  <2>2. /\ pc' \in [Ops -> {"out", "asleep", "woken", "in", "commit"}]
        /\ wrote' \in [Ops -> SUBSET Blocks] /\ adding' \in [Ops -> SUBSET Blocks]
    OBVIOUS
  <2> QED BY <1>2, <2>1, <2>2 DEF TypeOK
<1>4. Calls'
  BY <1>1, FS_EmptySet DEF Calls, Active
<1>5. Stages'
  BY <1>2 DEF Stages, Distinct
<1>6. Reserved' /\ DirtyIsLogged' /\ PanicsFull'
  BY DEF Reserved, DirtyIsLogged, Up, PanicsFull
<1> QED BY <1>3, <1>4, <1>5, <1>6

LEMMA ReadHeadIInv == IInv /\ ReadHead => IInv'
<1> SUFFICES ASSUME IInv, ReadHead PROVE IInv'
  OBVIOUS
<1> USE DEF IInv, ReadHead, disk
<1>1. Active' = Active
  BY CallsAlone
<1>3. TypeOK'
  BY DEF TypeOK
<1>4. Calls'
  BY <1>1 DEF Calls, Logged
<1>5. Stages'
  BY Lengths DEF Stages, Distinct
<1>6. Reserved' /\ DirtyIsLogged' /\ PanicsFull'
  BY DEF Reserved, DirtyIsLogged, Up, PanicsFull, Calls
<1> QED BY <1>3, <1>4, <1>5, <1>6

LEMMA WriteLogIInv == IInv /\ WriteLog => IInv'
<1> SUFFICES ASSUME IInv, WriteLog PROVE IInv'
  OBVIOUS
<1>1. Active' = Active /\ MayWrite' = MayWrite
  BY CallsAlone DEF WriteLog
<1>2. /\ stage = "log" /\ tail \in 0..LOGSIZE /\ Len(lh) \in Nat /\ Len(lh) <= LOGSIZE
      /\ LOGSIZE \in Nat /\ \A i \in 1..Len(lh) : lh[i] \in Blocks
      /\ home \in [Blocks -> Vals] /\ cache \in [Blocks -> Vals] /\ slots \in [1..LOGSIZE -> Vals]
      /\ head' = head /\ lh' = lh
      /\ outstanding' = outstanding /\ committing' = committing /\ pc' = pc
      /\ wrote' = wrote /\ adding' = adding /\ panicked' = panicked
  BY Lengths DEF WriteLog, IInv, TypeOK
<1>3. Calls' /\ PanicsFull'
  BY <1>1, <1>2 DEF WriteLog, IInv, Calls, Logged, PanicsFull
<1>4. CASE tail < Len(lh)
  <2> DEFINE v == cache[lh[tail + 1]]
  <2>1. SetSlot(tail + 1, v) /\ tail' = tail + 1 /\ stage' = stage
    BY <1>4 DEF WriteLog
  <2>2. tail + 1 \in 1..Len(lh) /\ tail + 1 \in 1..LOGSIZE /\ v \in Vals
    BY <1>2, <1>4
  <2> HIDE DEF v
  <2>3. /\ home' \in [Blocks -> Vals] /\ cache' \in [Blocks -> Vals]
        /\ slots' \in [1..LOGSIZE -> Vals]
        /\ \A b \in Blocks : cache'[b] # home'[b] => cache[b] # home[b]
    BY <1>2, <2>1, <2>2, LogAssumption DEF SetSlot
  <2>4. TypeOK'
    BY <1>2, <2>1, <2>2, <2>3 DEF IInv, TypeOK
  <2>5. Stages'
    BY <1>2, <2>1, <2>2 DEF IInv, Stages, Distinct
  <2>6. DirtyIsLogged'
    BY <1>2, <2>1, <2>3 DEF IInv, DirtyIsLogged, Up, Logged
  <2> QED BY <1>1, <1>2, <1>3, <2>1, <2>4, <2>5, <2>6 DEF IInv, Reserved, Up
<1>5. CASE ~(tail < Len(lh))
  <2>1. /\ slots' = slots /\ home' = home /\ cache' = cache /\ tail' = 0
        /\ stage' = IF lh = <<>> THEN "finish" ELSE "head"
    BY <1>5 DEF WriteLog
  <2>2. TypeOK'
    BY <1>2, <2>1 DEF IInv, TypeOK
  <2>3. Stages'
    BY <1>2, <2>1 DEF IInv, Stages, Distinct
  <2> QED BY <1>1, <1>2, <1>3, <2>1, <2>2, <2>3 DEF IInv, Reserved, DirtyIsLogged, Up, Logged
<1> QED BY <1>4, <1>5

LEMMA WriteHeadIInv == IInv /\ WriteHead => IInv'
<1> SUFFICES ASSUME IInv, WriteHead PROVE IInv'
  OBVIOUS
<1> USE DEF IInv, WriteHead
<1>1. Active' = Active /\ MayWrite' = MayWrite
  BY CallsAlone
<1>2. TypeOK'
  BY DEF TypeOK
<1>3. Calls'
  BY <1>1 DEF Calls, Logged
<1>4. Stages'
  BY Lengths DEF Stages, Distinct, Settled, TypeOK
<1>5. Reserved' /\ DirtyIsLogged' /\ PanicsFull'
  BY <1>1 DEF Reserved, DirtyIsLogged, Up, Logged, PanicsFull
<1> QED BY <1>2, <1>3, <1>4, <1>5

LEMMA InstallTransIInv == IInv /\ InstallTrans => IInv'
<1> SUFFICES ASSUME IInv, InstallTrans PROVE IInv'
  OBVIOUS
<1>1. Active' = Active /\ MayWrite' = MayWrite
  BY CallsAlone DEF InstallTrans
<1>2. /\ stage \in {"install", "recover"} /\ tail \in 0..LOGSIZE /\ Len(lh) \in Nat
      /\ Len(lh) <= LOGSIZE /\ LOGSIZE \in Nat /\ \A i \in 1..Len(lh) : lh[i] \in Blocks
      /\ head' = head /\ slots' = slots /\ lh' = lh /\ panicked' = panicked
      /\ outstanding' = outstanding /\ committing' = committing /\ pc' = pc /\ wrote' = wrote
      /\ adding' = adding
      /\ home \in [Blocks -> Vals] /\ cache \in [Blocks -> Vals]
      /\ slots \in [1..LOGSIZE -> Vals]
  BY Lengths DEF InstallTrans, IInv, TypeOK
<1>3. PanicsFull'
  BY <1>2 DEF IInv, PanicsFull
<1>4. CASE tail < Len(lh)
  <2> DEFINE b == lh[tail + 1]
             v == Slot(tail + 1)
  <2>1. /\ home' = [home EXCEPT ![b] = v] /\ cache' = [cache EXCEPT ![b] = v]
        /\ tail' = tail + 1 /\ stage' = stage
    BY <1>4 DEF InstallTrans
  <2>2. tail + 1 \in 1..Len(lh) /\ tail + 1 \in 1..LOGSIZE /\ b \in Blocks /\ v \in Vals
    BY <1>2, <1>4, LogAssumption DEF Slot
  <2>3. \A i \in 1..Len(lh) : i # tail + 1 => lh[i] # b
    BY <2>2 DEF IInv, Stages, Distinct
  <2> HIDE DEF v
  <2>4. TypeOK'
    BY <1>2, <2>1, <2>2 DEF IInv, TypeOK
  <2>5. Calls'
    BY <1>1, <1>2, <2>1 DEF IInv, Calls, Logged
  <2>6. /\ cache'[b] = home'[b]
        /\ \A c \in Blocks : c # b => cache'[c] = cache[c] /\ home'[c] = home[c]
    BY <1>2, <2>1, <2>2
  <2>7. stage = "install" => Settled(tail)'
    <3> SUFFICES ASSUME stage = "install", NEW i \in 1..tail + 1
                 PROVE  home'[lh[i]] = cache'[lh[i]]
      BY <1>2, <2>1 DEF Settled
    <3>1. i = tail + 1 \/ (i \in 1..tail /\ i \in 1..Len(lh) /\ i # tail + 1)
      BY <1>2, <1>4
    <3>2. i \in 1..tail => home[lh[i]] = cache[lh[i]]
      BY DEF IInv, Stages, Settled
    <3> QED BY <1>2, <2>3, <2>6, <3>1, <3>2
  <2>8. stage = "recover" => cache' = home'
    <3>1. stage = "recover" => cache = home
      BY DEF IInv, Stages
    <3> QED BY <2>1, <3>1
  <2>9. Stages'
    BY <1>2, <2>1, <2>2, <2>7, <2>8 DEF IInv, Stages, Distinct
  <2>10. DirtyIsLogged'
    BY <1>2, <2>1, <2>6 DEF IInv, DirtyIsLogged, Up, Logged
  <2> QED BY <1>1, <1>2, <1>3, <2>1, <2>4, <2>5, <2>9, <2>10 DEF IInv, Reserved, Up
<1>5. CASE ~(tail < Len(lh))
  <2>1. /\ home' = home /\ cache' = cache /\ tail' = 0
        /\ stage' = IF stage = "install" THEN "clear" ELSE "reset"
    BY <1>5 DEF InstallTrans
  <2>2. tail = Len(lh)
    BY <1>2, <1>5 DEF IInv, Stages
  <2>3. TypeOK'
    BY <1>2, <2>1 DEF IInv, TypeOK
  <2>4. Calls'
    BY <1>1, <1>2, <2>1 DEF IInv, Calls, Logged
  <2>5. Stages'
    BY <1>2, <2>1, <2>2 DEF IInv, Stages, Distinct, Settled
  <2> QED BY <1>1, <1>2, <1>3, <2>1, <2>3, <2>4, <2>5 DEF IInv, Reserved, DirtyIsLogged, Up, Logged
<1> QED BY <1>4, <1>5

LEMMA ClearLogIInv == IInv /\ ClearLog => IInv'
<1> SUFFICES ASSUME IInv, ClearLog PROVE IInv'
  OBVIOUS
<1> USE DEF IInv, ClearLog
<1>1. Active' = Active /\ MayWrite' = MayWrite /\ Active = {} /\ MayWrite = {}
  BY CallsAlone DEF Calls, MayWrite
<1>2. Len(<<>>) = 0 /\ <<>> \in Seq(Blocks) /\ Cardinality(MayWrite) = 0
  BY <1>1, EmptySeq, FS_EmptySet
<1>3. TypeOK'
  BY <1>2, LogAssumption DEF TypeOK
<1>4. Calls' /\ PanicsFull'
  BY <1>1 DEF Calls, Logged, PanicsFull
<1>5. Stages'
  BY <1>2 DEF Stages, Distinct, TypeOK
<1>6. Reserved'
  BY <1>1, <1>2, LogAssumption DEF Reserved
<1>7. \A b \in Blocks : cache[b] = home[b]
  <2> SUFFICES ASSUME NEW b \in Blocks, cache[b] # home[b] PROVE FALSE
    OBVIOUS
  <2>1. stage # "reset" /\ ~panicked
    BY DEF Stages, Calls
  <2>2. PICK i \in 1..Len(lh) : lh[i] = b
    BY <1>1, <2>1 DEF DirtyIsLogged, Up, Logged, Calls
  <2> QED BY <2>1, <2>2 DEF Stages, Settled
<1>8. DirtyIsLogged'
  BY <1>7 DEF DirtyIsLogged
<1> QED BY <1>3, <1>4, <1>5, <1>6, <1>8

LEMMA FinishIInv == IInv /\ Finish => IInv'
<1> SUFFICES ASSUME IInv, Finish PROVE IInv'
  OBVIOUS
<1> USE DEF IInv, Finish, disk
<1>1. Active = {} /\ Active' = Active /\ MayWrite' = MayWrite
  BY DEF Calls, Active, MayWrite, Woken, TypeOK
<1>2. TypeOK'
  BY DEF TypeOK, Woken
<1>3. Calls'
  BY <1>1 DEF Calls, Logged
<1>4. Stages'
  BY DEF Stages, Distinct
<1>5. Reserved' /\ DirtyIsLogged' /\ PanicsFull'
  BY <1>1 DEF Reserved, DirtyIsLogged, Up, Logged, PanicsFull
<1> QED BY <1>2, <1>3, <1>4, <1>5

LEMMA BeginOpIInv ==
  ASSUME IInv, ~panicked, NEW o \in Ops, BeginOp(o)
  PROVE  IInv'
<1>1. /\ pc[o] \in {"out", "woken"} /\ Up /\ o \notin Active
      /\ UNCHANGED <<home, head, slots, cache, lh, committing, wrote, adding, stage, tail, panicked>>
  BY DEF BeginOp, disk, Active
<1>2. Stages'
  BY <1>1 DEF IInv, Stages, Settled
<1>3. DirtyIsLogged' /\ PanicsFull'
  BY <1>1 DEF IInv, DirtyIsLogged, Up, Logged, PanicsFull
<1>4. CASE committing \/ NoRoom
  <2>1. pc' = [pc EXCEPT ![o] = "asleep"] /\ outstanding' = outstanding
    BY <1>4 DEF BeginOp
  <2>2. Active' = Active
    BY <1>1, <2>1 DEF IInv, TypeOK, Active
  <2>3. MayWrite' = MayWrite
    BY <1>1, <2>2 DEF MayWrite
  <2>4. TypeOK'
    BY <1>1, <2>1 DEF IInv, TypeOK
  <2>5. Calls'
    <3>1. Logged' = Logged
      BY <1>1 DEF Logged
    <3> QED BY <1>1, <2>1, <2>2, <3>1 DEF IInv, Calls
  <2> QED BY <1>1, <1>2, <1>3, <2>3, <2>4, <2>5 DEF IInv, Reserved, Up
<1>5. CASE ~(committing \/ NoRoom)
  <2>1. /\ pc' = [pc EXCEPT ![o] = "in"] /\ outstanding' = outstanding + 1
        /\ ~committing /\ ~NoRoom
    BY <1>5 DEF BeginOp
  <2>2. Active' = Active \cup {o}
    BY <1>1, <2>1 DEF IInv, TypeOK, Active
  <2>3. Cardinality(Active') = Cardinality(Active) + 1 /\ Cardinality(Active) \in Nat
    BY <1>1, <2>2, ActiveFinite, FS_AddElement, FS_CardinalityType
  <2>4. outstanding' = Cardinality(Active')
    BY <2>1, <2>3 DEF IInv, Calls
  <2>5. Cardinality(Active') \in 0..Cardinality(Ops)
    <3>1. Active' \subseteq Ops
      BY DEF Active
    <3> QED BY <3>1, ActiveFinite, LogAssumption, FS_Subset, FS_CardinalityType
  <2>6. TypeOK'
    BY <1>1, <2>1, <2>4, <2>5 DEF IInv, TypeOK
  <2>7. stage = "none"
    BY <1>1, <2>1 DEF IInv, TypeOK, Calls, Up
  <2>8. Calls'
    <3>1. /\ wrote[o] = {} /\ adding[o] = {} /\ \A q \in Active : wrote[q] \subseteq Logged
          /\ Logged' = Logged
      BY <1>1 DEF IInv, Calls, Logged
    <3>2. \A q \in Active' : wrote'[q] \subseteq Logged'
      BY <1>1, <2>2, <3>1
    <3> QED BY <1>1, <2>2, <2>4, <2>7, <3>2 DEF IInv, Calls
  <2>9. Reserved'
    <3>1. Len(lh) + (outstanding + 1) * MAXOPBLOCKS <= LOGSIZE
      <4>1. (outstanding + 1) * MAXOPBLOCKS \in Nat
        BY LogAssumption, ActiveFinite DEF IInv, Calls
      <4> QED BY <2>1, <4>1, Lengths DEF NoRoom, IInv
    <3>2. /\ Cardinality(MayWrite') \in Nat
          /\ Cardinality(MayWrite') <= Cardinality(Active') * MAXOPBLOCKS
      <4>1. IsFiniteSet(1..MAXOPBLOCKS) /\ Cardinality(1..MAXOPBLOCKS) = MAXOPBLOCKS
        BY LogAssumption, FS_Interval
      <4>2. IsFiniteSet(Active')
        BY <2>2, ActiveFinite, FS_AddElement
      <4>3. /\ IsFiniteSet(Active' \X (1..MAXOPBLOCKS))
            /\ Cardinality(Active' \X (1..MAXOPBLOCKS)) = Cardinality(Active') * MAXOPBLOCKS
        BY <4>1, <4>2, FS_Product
      <4>4. MayWrite' \subseteq Active' \X (1..MAXOPBLOCKS)
        BY DEF MayWrite
      <4> QED BY <4>3, <4>4, FS_Subset, FS_CardinalityType
    <3>3. Cardinality(Active') * MAXOPBLOCKS = (outstanding + 1) * MAXOPBLOCKS
      BY <2>1, <2>4
    <3>4. /\ Len(lh) \in Nat /\ LOGSIZE \in Nat
          /\ (outstanding + 1) * MAXOPBLOCKS \in Nat
      BY LogAssumption, ActiveFinite, Lengths DEF IInv, Calls
    <3>5. Len(lh) + Cardinality(MayWrite') <= LOGSIZE
      BY <3>1, <3>2, <3>3, <3>4
    <3> QED BY <1>1, <3>5 DEF Reserved
  <2> QED BY <1>2, <1>3, <2>6, <2>8, <2>9 DEF IInv
<1> QED BY <1>4, <1>5

\* What a call may yet write shrinks with every block it writes.
LEMMA MayWriteLess ==
  ASSUME IInv, NEW o \in Active, NEW b \in Blocks,
         Cardinality(wrote[o] \cup {b}) <= MAXOPBLOCKS,
         wrote' = [wrote EXCEPT ![o] = @ \cup {b}], Active' = Active
  PROVE  /\ MayWrite' \subseteq MayWrite
         /\ IsFiniteSet(wrote[o] \cup {b})
         /\ b \notin wrote[o] => /\ <<o, Cardinality(wrote[o]) + 1>> \in MayWrite
                                 /\ <<o, Cardinality(wrote[o]) + 1>> \notin MayWrite'
<1> DEFINE c == Cardinality(wrote[o])
<1>1. o \in Ops /\ IsFiniteSet(wrote[o]) /\ wrote \in [Ops -> SUBSET Blocks]
  BY DEF Active, IInv, TypeOK, Calls
<1>2. /\ c \in Nat /\ IsFiniteSet(wrote[o] \cup {b})
      /\ Cardinality(wrote[o] \cup {b}) = IF b \in wrote[o] THEN c ELSE c + 1
  BY <1>1, FS_AddElement, FS_CardinalityType
<1>3. wrote'[o] = wrote[o] \cup {b} /\ \A q \in Ops \ {o} : wrote'[q] = wrote[q]
  BY <1>1
<1> HIDE DEF c
<1>4. Cardinality(wrote'[o]) = IF b \in wrote[o] THEN c ELSE c + 1
  BY <1>2, <1>3
<1>5. ASSUME NEW ok \in MayWrite' PROVE ok \in MayWrite
  <2>1. ok \in Active \X (1..MAXOPBLOCKS) /\ ok[2] > Cardinality(wrote'[ok[1]])
    BY <1>5 DEF MayWrite
  <2>2. CASE ok[1] = o
    BY <1>2, <1>4, <2>1, <2>2 DEF MayWrite, c
  <2>3. CASE ok[1] # o
    BY <1>3, <2>1, <2>3 DEF MayWrite, Active
  <2> QED BY <2>2, <2>3
<1>6. ASSUME b \notin wrote[o]
      PROVE  <<o, c + 1>> \in MayWrite /\ <<o, c + 1>> \notin MayWrite'
  <2>1. c + 1 \in 1..MAXOPBLOCKS /\ c + 1 > c
    BY <1>2, <1>6, LogAssumption
  <2>2. <<o, c + 1>> \in Active \X (1..MAXOPBLOCKS)
    BY <2>1
  <2>3. <<o, c + 1>> \in MayWrite
    BY <2>1, <2>2 DEF MayWrite, c
  <2>4. <<o, c + 1>>[2] = c + 1 /\ <<o, c + 1>>[1] = o
    OBVIOUS
  <2>5. ~(c + 1 > Cardinality(wrote'[o]))
    BY <1>2, <1>4, <1>6
  <2> QED BY <2>3, <2>4, <2>5 DEF MayWrite
<1> QED BY <1>2, <1>5, <1>6 DEF c

\* A panic in a log of more than LOGSIZE blocks: everyone has logged all it may, so that
\* the block is in the log.
LEMMA LogWriteIInv ==
  ASSUME IInv, ~panicked, NEW o \in Ops, NEW b \in Blocks, NEW v \in Vals, LogWrite(o, b, v)
  PROVE  IInv'
<1>1. /\ pc[o] = "in" /\ o \in Active /\ adding[o] = {}
      /\ Cardinality(wrote[o] \cup {b}) <= MAXOPBLOCKS
      /\ cache' = [cache EXCEPT ![b] = v]
      /\ UNCHANGED <<home, head, slots, lh, outstanding, committing, pc, wrote, stage, tail>>
  BY DEF LogWrite, disk, Active
<1>2. Active' = Active /\ MayWrite' = MayWrite /\ Logged' = Logged
  BY <1>1 DEF Active, MayWrite, Logged
<1>3. stage = "none" /\ head = <<>> /\ tail = 0
  BY <1>1 DEF IInv, Calls, Stages
<1>4. /\ wrote \in [Ops -> SUBSET Blocks] /\ cache \in [Blocks -> Vals]
      /\ adding \in [Ops -> SUBSET Blocks]
      /\ Len(lh) \in Nat /\ LOGSIZE \in Nat /\ size \in Nat /\ size >= LOGSIZE
  BY Lengths, LogAssumption DEF IInv, TypeOK
<1>5. outstanding \in Nat /\ outstanding >= 1
  <2>1. Cardinality(Active) # 0
    BY <1>1, ActiveFinite, FS_EmptySet
  <2>2. outstanding = Cardinality(Active) /\ Cardinality(Active) \in Nat
    BY ActiveFinite DEF IInv, Calls
  <2> QED BY <2>1, <2>2
<1>6. Reserved' /\ Len(lh) + Cardinality(MayWrite) <= LOGSIZE
  BY <1>1, <1>2, <1>3 DEF IInv, Reserved, Up
<1>7. /\ \A c \in Blocks : c # b => cache'[c] = cache[c]
      /\ \A c \in Blocks : cache[c] # home[c] => c \in Logged \/ \E q \in Ops : c \in adding[q]
  BY <1>1, <1>3, <1>4 DEF IInv, DirtyIsLogged, Up
<1>8. Stages'
  BY <1>1, <1>3 DEF IInv, Stages
<1>9. CASE Len(lh) >= LOGSIZE \/ Len(lh) >= size - 1 \/ outstanding < 1
  <2>1. panicked' = TRUE /\ adding' = adding
    BY <1>9 DEF LogWrite
  <2>2. TypeOK'
    BY <1>1, <1>4, <2>1 DEF IInv, TypeOK
  <2>3. Calls'
    BY <1>1, <1>2, <1>3, <2>1 DEF IInv, Calls
  <2>4. PanicsFull'
    BY <1>1, <1>5, <1>9 DEF PanicsFull
  <2>5. size # LOGSIZE => b \in Logged
    <3> SUFFICES ASSUME size # LOGSIZE, b \notin wrote[o] PROVE FALSE
      BY <1>1 DEF IInv, Calls
    <3>1. Len(lh) >= LOGSIZE
      BY <1>4, <1>5, <1>9
    <3>2. MayWrite = {}
      <4>1. Cardinality(MayWrite) = 0
        BY <1>4, <1>6, <3>1, MayWriteFinite
      <4> QED BY <4>1, MayWriteFinite, FS_EmptySet
    <3>3. IsFiniteSet(wrote[o]) /\ Cardinality(wrote[o]) \in Nat
      BY <1>1, FS_CardinalityType DEF IInv, Calls
    <3>4. Cardinality(wrote[o] \cup {b}) = Cardinality(wrote[o]) + 1
      BY <3>3, FS_AddElement
    <3>5. Cardinality(wrote[o]) + 1 \in 1..MAXOPBLOCKS
      BY <1>1, <3>3, <3>4, LogAssumption
    <3> DEFINE x == <<o, Cardinality(wrote[o]) + 1>>
    <3>6. x \in Active \X (1..MAXOPBLOCKS) /\ x[2] > Cardinality(wrote[x[1]])
      BY <1>1, <3>3, <3>5
    <3> QED BY <3>2, <3>6 DEF MayWrite
  <2>6. DirtyIsLogged'
    BY <1>1, <1>2, <1>7, <2>1, <2>5 DEF DirtyIsLogged
  <2> QED BY <1>6, <1>8, <2>2, <2>3, <2>4, <2>6 DEF IInv
<1>10. CASE ~(Len(lh) >= LOGSIZE \/ Len(lh) >= size - 1 \/ outstanding < 1)
  <2>1. panicked' = panicked /\ adding' = [adding EXCEPT ![o] = {b}]
    BY <1>10 DEF LogWrite
  <2>2. adding'[o] = {b} /\ \A q \in Ops \ {o} : adding'[q] = adding[q]
    BY <1>4, <2>1
  <2>3. TypeOK'
    BY <1>1, <1>4, <2>1 DEF IInv, TypeOK
  <2>4. Calls'
    <3>1. \A q \in Active : \A c \in adding'[q] :
            adding'[q] = {c} /\ Cardinality(wrote[q] \cup {c}) <= MAXOPBLOCKS
      BY <1>1, <2>2 DEF IInv, Calls, Active
    <3>2. \A q \in Ops \ Active : adding'[q] = {}
      BY <1>1, <2>2 DEF IInv, Calls
    <3> QED BY <1>1, <1>2, <1>3, <2>1, <3>1, <3>2 DEF IInv, Calls
  <2>5. PanicsFull'
    BY <2>1 DEF PanicsFull
  <2>6. DirtyIsLogged'
    <3>1. ASSUME NEW c \in Blocks, NEW q \in Ops, c \in adding[q] PROVE c \in adding'[q]
      BY <1>1, <2>2, <3>1
    <3>2. b \in adding'[o]
      BY <2>2
    <3> QED BY <1>1, <1>2, <1>7, <3>1, <3>2 DEF DirtyIsLogged
  <2> QED BY <1>6, <1>8, <2>3, <2>4, <2>5, <2>6 DEF IInv
<1> QED BY <1>9, <1>10

\* The room is there under the lock too, whatever the others have added.
LEMMA LogAddIInv ==
  ASSUME IInv, ~panicked, NEW o \in Ops, NEW b \in Blocks, LogAdd(o, b)
  PROVE  IInv' /\ o \in Active /\ stage = "none"
<1>1. /\ b \in adding[o] /\ o \in Active
      /\ Cardinality(wrote[o] \cup {b}) <= MAXOPBLOCKS
      /\ adding' = [adding EXCEPT ![o] = {}]
      /\ wrote' = [wrote EXCEPT ![o] = @ \cup {b}]
      /\ lh' = IF b \in Logged THEN lh ELSE Append(lh, b)
      /\ UNCHANGED <<home, head, slots, cache, outstanding, committing, pc, stage, tail, panicked>>
  BY DEF LogAdd, disk, IInv, Calls
<1>2. Active' = Active
  BY <1>1 DEF Active
<1>3. stage = "none" /\ head = <<>> /\ tail = 0
  BY <1>1 DEF IInv, Calls, Stages
<1>4. /\ MayWrite' \subseteq MayWrite
      /\ IsFiniteSet(wrote[o] \cup {b})
      /\ b \notin wrote[o] => /\ <<o, Cardinality(wrote[o]) + 1>> \in MayWrite
                              /\ <<o, Cardinality(wrote[o]) + 1>> \notin MayWrite'
  BY <1>1, <1>2, MayWriteLess
<1>5. /\ wrote \in [Ops -> SUBSET Blocks] /\ adding \in [Ops -> SUBSET Blocks]
      /\ Len(lh) \in Nat /\ LOGSIZE \in Nat /\ lh \in Seq(Blocks) /\ Len(lh) <= LOGSIZE
  BY Lengths DEF IInv, TypeOK
<1>6. /\ IsFiniteSet(MayWrite) /\ Cardinality(MayWrite) \in Nat
      /\ Cardinality(MayWrite') \in Nat /\ Cardinality(MayWrite') <= Cardinality(MayWrite)
      /\ Len(lh) + Cardinality(MayWrite) <= LOGSIZE
  <2>1. Len(lh) + Cardinality(MayWrite) <= LOGSIZE
    BY <1>3 DEF IInv, Reserved, Up
  <2> QED BY <1>4, <2>1, MayWriteFinite, FS_Subset, FS_CardinalityType
<1>7. /\ lh' \in Seq(Blocks) /\ Len(lh') + Cardinality(MayWrite') <= LOGSIZE
      /\ Len(lh') \in Nat
      /\ Logged' = Logged \cup {b} /\ Distinct(lh')
  <2>1. CASE b \in Logged
    <3>1. lh' = lh
      BY <1>1, <2>1
    <3> QED BY <1>5, <1>6, <2>1, <3>1 DEF Logged, IInv, Stages, Distinct
  <2>2. CASE b \notin Logged
    <3>1. /\ lh' \in Seq(Blocks) /\ Len(lh') = Len(lh) + 1
          /\ \A i \in 1..Len(lh) : lh'[i] = lh[i]
          /\ lh'[Len(lh) + 1] = b
      BY <1>1, <1>5, <2>2, AppendProperties
    <3>2. \A i : i \in 1..Len(lh') <=> i \in 1..Len(lh) \/ i = Len(lh) + 1
      BY <1>5, <3>1
    <3>3. Logged' = Logged \cup {b}
      BY <3>1, <3>2 DEF Logged
    <3>4. \A i \in 1..Len(lh) : lh[i] # b
      BY <2>2 DEF Logged
    <3>5. Distinct(lh')
      BY <3>1, <3>2, <3>4 DEF IInv, Stages, Distinct
    <3>6. Len(lh') + Cardinality(MayWrite') <= LOGSIZE
      <4>1. b \notin wrote[o]
        BY <1>1, <2>2 DEF IInv, Calls
      <4> DEFINE x == <<o, Cardinality(wrote[o]) + 1>>
      <4>2. x \in MayWrite /\ x \notin MayWrite'
        BY <1>4, <4>1
      <4> HIDE DEF x
      <4>3. MayWrite' \subseteq MayWrite \ {x}
        BY <1>4, <4>2
      <4>4. /\ IsFiniteSet(MayWrite \ {x})
            /\ Cardinality(MayWrite \ {x}) = Cardinality(MayWrite) - 1
        BY <1>6, <4>2, FS_RemoveElement
      <4>5. Cardinality(MayWrite') <= Cardinality(MayWrite) - 1
        BY <4>3, <4>4, FS_Subset
      <4> QED BY <1>5, <1>6, <3>1, <4>5
    <3> QED BY <1>5, <3>1, <3>3, <3>5, <3>6
  <2> QED BY <2>1, <2>2
<1>8. TypeOK'
  <2>1. Len(lh') <= LOGSIZE
    BY <1>5, <1>6, <1>7
  <2>2. /\ wrote' \in [Ops -> SUBSET Blocks] /\ adding' \in [Ops -> SUBSET Blocks]
    BY <1>1, <1>5
  <2> QED BY <1>1, <1>7, <2>1, <2>2 DEF IInv, TypeOK
<1>9. Calls'
  <2>1. /\ wrote'[o] = wrote[o] \cup {b} /\ adding'[o] = {}
        /\ \A q \in Ops \ {o} : wrote'[q] = wrote[q] /\ adding'[q] = adding[q]
    BY <1>1, <1>5
  <2>2. /\ \A q \in Ops : IsFiniteSet(wrote'[q])
        /\ \A q \in Ops \ Active : wrote'[q] = {} /\ adding'[q] = {}
    BY <1>1, <1>4, <2>1 DEF IInv, Calls, Active
  <2>3. \A q \in Active : wrote'[q] \subseteq Logged'
    BY <1>7, <2>1 DEF IInv, Calls, Active
  <2>4. \A q \in Active : \A c \in adding'[q] :
          adding'[q] = {c} /\ Cardinality(wrote'[q] \cup {c}) <= MAXOPBLOCKS
    BY <2>1 DEF IInv, Calls, Active
  <2> QED BY <1>1, <1>2, <1>3, <2>2, <2>3, <2>4 DEF IInv, Calls
<1>10. Stages'
  <2>1. tail' <= Len(lh')
    BY <1>1, <1>3, <1>7
  <2> QED BY <1>1, <1>3, <1>7, <2>1 DEF IInv, Stages
<1>11. Reserved' /\ PanicsFull'
  BY <1>1, <1>7 DEF Reserved, PanicsFull
<1>12. DirtyIsLogged'
  <2>1. \A c \in Blocks : cache[c] # home[c] => c \in Logged \/ \E q \in Ops : c \in adding[q]
    BY <1>3 DEF IInv, DirtyIsLogged, Up
  <2>2. ASSUME NEW c, NEW q \in Ops, c \in adding[q] PROVE c = b \/ c \in adding'[q]
    <3>1. CASE q = o
      BY <1>1, <2>2, <3>1 DEF IInv, Calls
    <3>2. CASE q # o
      BY <1>1, <1>5, <2>2, <3>2
    <3> QED BY <3>1, <3>2
  <2> QED BY <1>1, <1>7, <2>1, <2>2 DEF DirtyIsLogged
<1> QED BY <1>1, <1>3, <1>8, <1>9, <1>10, <1>11, <1>12 DEF IInv

LEMMA EndOpIInv ==
  ASSUME IInv, ~panicked, NEW o \in Ops, EndOp(o)
  PROVE  IInv' /\ Active' = Active \ {o} /\ o \in Active /\ stage = "none" /\ Up'
<1>1. /\ pc[o] = "in" /\ o \in Active /\ adding[o] = {}
      /\ outstanding' = outstanding - 1
      /\ wrote' = [wrote EXCEPT ![o] = {}]
      /\ UNCHANGED <<home, head, slots, cache, lh, adding, tail>>
  BY DEF EndOp, disk, Active
<1>2. stage = "none" /\ head = <<>> /\ tail = 0 /\ ~committing
  BY <1>1 DEF IInv, Calls, Stages
<1>3. /\ pc \in [Ops -> {"out", "asleep", "woken", "in", "commit"}]
      /\ wrote \in [Ops -> SUBSET Blocks]
  BY DEF IInv, TypeOK
<1>4. /\ Active' = Active \ {o} /\ panicked' = panicked
      /\ pc' \in [Ops -> {"out", "asleep", "woken", "in", "commit"}]
      /\ \/ committing' = TRUE /\ stage' = "log" /\ outstanding = 1
         \/ committing' = FALSE /\ stage' = "none" /\ outstanding > 1
  <2>1. CASE outstanding = 1
    <3>1. /\ committing' = TRUE /\ stage' = "log" /\ pc' = [pc EXCEPT ![o] = "commit"]
          /\ panicked' = panicked
      BY <1>2, <2>1 DEF EndOp
    <3> QED BY <1>3, <2>1, <3>1 DEF Active
  <2>2. CASE outstanding # 1
    <3>1. /\ committing' = committing /\ stage' = stage /\ pc' = [Woken EXCEPT ![o] = "out"]
          /\ panicked' = panicked /\ outstanding > 1
      BY <1>2, <2>2 DEF EndOp
    <3>2. committing' = FALSE
      BY <1>2, <3>1 DEF IInv, TypeOK
    <3> QED BY <1>2, <1>3, <3>1, <3>2 DEF Active, Woken
  <2> QED BY <2>1, <2>2
<1>5. /\ Cardinality(Active') = Cardinality(Active) - 1
      /\ Cardinality(Active) \in 0..Cardinality(Ops) /\ Cardinality(Ops) \in Nat
      /\ outstanding = Cardinality(Active)
  BY <1>1, <1>4, ActiveFinite, FS_RemoveElement DEF IInv, Calls
<1>6. outstanding = 1 => Active' = {}
  <2>1. IsFiniteSet(Active')
    BY <1>4, ActiveFinite, FS_RemoveElement
  <2> QED BY <1>5, <2>1, FS_EmptySet
<1>7. TypeOK'
  <2>1. outstanding' \in 0..Cardinality(Ops)
    BY <1>1, <1>4, <1>5
  <2>2. committing' \in BOOLEAN /\ stage' \in {"none", "log"} /\ panicked' \in BOOLEAN
    BY <1>4 DEF IInv, TypeOK
  <2>3. wrote' \in [Ops -> SUBSET Blocks]
    BY <1>1, <1>3
  <2> QED BY <1>1, <1>4, <2>1, <2>2, <2>3 DEF IInv, TypeOK
<1>8. Calls'
  <2>1. /\ \A q \in Ops : IsFiniteSet(wrote'[q])
        /\ \A q \in Ops \ Active' : wrote'[q] = {} /\ adding[q] = {}
        /\ \A q \in Active' : wrote'[q] = wrote[q] /\ q \in Active
    BY <1>1, <1>3, <1>4, FS_EmptySet DEF IInv, Calls, Active
  <2>2. \A q \in Active' : wrote'[q] \subseteq Logged'
    BY <1>1, <2>1 DEF IInv, Calls, Logged
  <2>3. outstanding' = Cardinality(Active')
    BY <1>1, <1>5
  <2>4. panicked' = FALSE
    BY <1>4 DEF IInv, TypeOK
  <2>5. \A q \in Active' : \A c \in adding[q] :
          adding[q] = {c} /\ Cardinality(wrote'[q] \cup {c}) <= MAXOPBLOCKS
    BY <2>1 DEF IInv, Calls
  <2> QED BY <1>1, <1>4, <1>6, <2>1, <2>2, <2>3, <2>4, <2>5 DEF Calls
<1>9. Stages'
  BY <1>1, <1>2, <1>4 DEF IInv, Stages
<1>10. Reserved'
  <2>1. MayWrite' \subseteq MayWrite
    BY <1>1, <1>3, <1>4 DEF MayWrite, Active
  <2>2. /\ Cardinality(MayWrite') <= Cardinality(MayWrite) /\ Cardinality(MayWrite') \in Nat
        /\ Cardinality(MayWrite) \in Nat /\ Len(lh) \in Nat /\ LOGSIZE \in Nat
    BY <2>1, MayWriteFinite, FS_Subset, FS_CardinalityType, Lengths DEF IInv
  <2>3. Len(lh) + Cardinality(MayWrite) <= LOGSIZE
    BY <1>2 DEF IInv, Reserved, Up
  <2> QED BY <1>1, <2>2, <2>3 DEF Reserved
<1>11. DirtyIsLogged' /\ PanicsFull'
  BY <1>1, <1>2, <1>4 DEF IInv, DirtyIsLogged, PanicsFull, Up, Logged
<1> QED BY <1>1, <1>2, <1>4, <1>7, <1>8, <1>9, <1>10, <1>11 DEF IInv, Up

LEMMA StepIInv == IInv /\ [Next]_vars => IInv'
<1> SUFFICES ASSUME IInv, [Next]_vars PROVE IInv'
  OBVIOUS
<1>1. CASE Crash
  BY <1>1, CrashIInv
<1>2. CASE ~panicked /\ Kernel
  BY <1>2, WriteLogIInv, WriteHeadIInv, InstallTransIInv, ClearLogIInv, FinishIInv,
     ReadHeadIInv DEF Kernel
<1>3. ASSUME ~panicked, NEW o \in Ops, Call(o) PROVE IInv'
  <2>1. CASE BeginOp(o)
    BY <1>3, <2>1, BeginOpIInv
  <2>2. CASE EndOp(o)
    BY <1>3, <2>2, EndOpIInv
  <2>3. CASE \E b \in Blocks, v \in Vals : LogWrite(o, b, v)
    BY <1>3, <2>3, LogWriteIInv
  <2>4. CASE \E b \in Blocks : LogAdd(o, b)
    BY <1>3, <2>4, LogAddIInv
  <2> QED BY <1>3, <2>1, <2>2, <2>3, <2>4 DEF Call
<1>4. CASE UNCHANGED vars
  BY <1>4 DEF vars, disk, IInv, TypeOK, Calls, Stages, Reserved, DirtyIsLogged, PanicsFull, Logged,
     Settled, Active, MayWrite, Up
<1> QED BY <1>1, <1>2, <1>3, <1>4 DEF Next

\* What the calls, the commit and recovery keep true together.
THEOREM Invariance == Spec => []IInv
<1>1. Init => IInv
  BY InitIInv
<1>2. IInv /\ [Next]_vars => IInv'
  BY StepIInv
<1> QED BY <1>1, <1>2, PTL DEF Spec

\* However many calls share the log, and although log_write() looks at the room without the
\* lock: log.lh.block[] never overflows, each block that differs from the disk is in it or on
\* its way there, and log_write() panics only in a full log; in one of more than LOGSIZE
\* blocks, only over a block that is in it.
THEOREM LogIsSound == Spec => []LogSound
<1>1. IInv => LogSound
  BY DEF IInv, LogSound
<1> QED BY <1>1, Invariance, PTL

-----------------------------------------------------------------------------
(* The atomic disk.                                                        *)

LEMMA InitInLog == Init /\ size > LOGSIZE => InLog
BY DEF Init, InLog

\* The blocks of the header are all the log's own.
LEMMA OwnSlots ==
  ASSUME IInv, InLog, tail < Len(lh)
  PROVE  /\ tail + 1 \in 1..Len(lh) /\ tail + 1 \in 1..LOGSIZE /\ lh[tail + 1] \in Blocks
         /\ Slot(tail + 1) = slots[tail + 1]
         /\ \A v : SetSlot(tail + 1, v) =>
              slots' = [slots EXCEPT ![tail + 1] = v] /\ home' = home /\ cache' = cache
<1>1. tail \in Nat /\ Len(lh) \in Nat /\ LOGSIZE \in Nat /\ Len(lh) <= LOGSIZE
      /\ size > LOGSIZE /\ size \in Nat /\ \A i \in 1..Len(lh) : lh[i] \in Blocks
  BY Lengths, LogAssumption DEF IInv, TypeOK, InLog
<1>2. tail + 1 \in 1..Len(lh) /\ tail + 1 \in 1..LOGSIZE /\ tail + 1 < size
  BY <1>1
<1> QED BY <1>1, <1>2 DEF Slot, SetSlot

LEMMA WriteLogInLog == IInv /\ InLog /\ WriteLog => InLog'
<1> SUFFICES ASSUME IInv, InLog, WriteLog PROVE InLog'
  OBVIOUS
<1>1. /\ stage = "log" /\ lh' = lh /\ size > LOGSIZE /\ tail \in Nat /\ Len(lh) \in Nat
      /\ Copied(tail) /\ slots \in [1..LOGSIZE -> Vals]
  BY Lengths DEF WriteLog, IInv, TypeOK, InLog
<1>2. CASE tail < Len(lh)
  <2>1. /\ tail + 1 \in 1..LOGSIZE /\ stage' = stage /\ tail' = tail + 1 /\ cache' = cache
        /\ slots' = [slots EXCEPT ![tail + 1] = cache[lh[tail + 1]]]
    BY <1>2, OwnSlots DEF WriteLog
  <2>2. \A i \in 1..tail + 1 : i \in 1..tail \/ i = tail + 1
    BY <1>1
  <2>3. Copied(tail)'
    BY <1>1, <2>1, <2>2 DEF Copied
  <2> QED BY <1>1, <2>1, <2>3 DEF InLog
<1>3. CASE ~(tail < Len(lh))
  <2>1. /\ slots' = slots /\ home' = home /\ cache' = cache
        /\ stage' = IF lh = <<>> THEN "finish" ELSE "head"
    BY <1>3 DEF WriteLog
  <2>2. tail = Len(lh)
    BY <1>1, <1>3 DEF IInv, Stages
  <2> QED BY <1>1, <2>1, <2>2 DEF InLog, Copied
<1> QED BY <1>2, <1>3

LEMMA InstallTransInLog == IInv /\ InLog /\ InstallTrans => InLog'
<1> SUFFICES ASSUME IInv, InLog, InstallTrans PROVE InLog'
  OBVIOUS
<1>1. /\ stage \in {"install", "recover"} /\ lh' = lh /\ slots' = slots /\ size > LOGSIZE
      /\ tail \in Nat /\ Len(lh) \in Nat /\ Installed(tail)
      /\ (stage = "install" => Copied(Len(lh)))
      /\ home \in [Blocks -> Vals] /\ cache \in [Blocks -> Vals]
      /\ \A i \in 1..Len(lh) : lh[i] \in Blocks
  BY Lengths DEF InstallTrans, IInv, TypeOK, InLog
<1>2. CASE tail < Len(lh)
  <2> DEFINE b == lh[tail + 1]
  <2>1. /\ home' = [home EXCEPT ![b] = slots[tail + 1]]
        /\ cache' = [cache EXCEPT ![b] = slots[tail + 1]]
        /\ tail' = tail + 1 /\ stage' = stage /\ tail + 1 \in 1..Len(lh) /\ b \in Blocks
    BY <1>2, OwnSlots DEF InstallTrans
  <2>2. \A i \in 1..Len(lh) : i # tail + 1 => lh[i] # b
    BY <2>1 DEF IInv, Stages, Distinct
  <2>3. Installed(tail)'
    <3> SUFFICES ASSUME NEW i \in 1..tail + 1 PROVE home'[lh[i]] = slots[i]
      BY <1>1, <2>1 DEF Installed
    <3>1. i = tail + 1 \/ (i \in 1..tail /\ i \in 1..Len(lh) /\ i # tail + 1)
      BY <1>1, <1>2
    <3>2. CASE i = tail + 1
      BY <1>1, <2>1, <3>2
    <3>3. CASE i \in 1..tail /\ i \in 1..Len(lh) /\ i # tail + 1
      <4>1. home[lh[i]] = slots[i] /\ lh[i] # b /\ lh[i] \in Blocks
        BY <1>1, <2>2, <3>3 DEF Installed
      <4> QED BY <1>1, <2>1, <4>1
    <3> QED BY <3>1, <3>2, <3>3
  <2>4. stage = "install" => Copied(Len(lh))'
    <3> SUFFICES ASSUME stage = "install", NEW i \in 1..Len(lh) PROVE slots[i] = cache'[lh[i]]
      BY <1>1 DEF Copied
    <3>1. slots[i] = cache[lh[i]] /\ lh[i] \in Blocks
      BY <1>1 DEF Copied
    <3> QED BY <1>1, <2>1, <2>2, <3>1
  <2> QED BY <1>1, <2>1, <2>3, <2>4 DEF InLog
<1>3. CASE ~(tail < Len(lh))
  <2>1. /\ home' = home /\ cache' = cache
        /\ stage' = IF stage = "install" THEN "clear" ELSE "reset"
    BY <1>3 DEF InstallTrans
  <2>2. tail = Len(lh)
    BY <1>1, <1>3 DEF IInv, Stages
  <2> QED BY <1>1, <2>1, <2>2 DEF InLog, Copied, Installed
<1> QED BY <1>2, <1>3

LEMMA StepInLog == IInv /\ InLog /\ [Next]_vars => InLog'
<1> SUFFICES ASSUME IInv, InLog, [Next]_vars PROVE InLog'
  OBVIOUS
<1>1. CASE Crash
  BY <1>1 DEF Crash, InLog
<1>2. CASE WriteHead
  <2>1. tail = 0 /\ stage = "head" /\ stage' = "install" /\ UNCHANGED <<slots, cache, lh, tail, home>>
    BY <1>2 DEF WriteHead, IInv, Stages
  <2> QED BY <2>1 DEF InLog, Copied, Installed
<1>3. CASE ClearLog \/ Finish
  BY <1>3 DEF ClearLog, Finish, InLog
<1>4. CASE ReadHead
  <2>1. tail = 0 /\ stage' = "recover" /\ tail' = tail
    BY <1>4 DEF ReadHead, IInv, Stages
  <2> QED BY <2>1 DEF InLog, Installed
<1>5. ASSUME ~panicked, NEW o \in Ops, Call(o) PROVE InLog'
  <2>1. CASE BeginOp(o)
    <3>1. UNCHANGED <<home, slots, cache, lh, stage, tail>>
      BY <2>1 DEF BeginOp, disk
    <3> QED BY <3>1 DEF InLog, Copied, Installed
  <2>2. CASE EndOp(o)
    <3>1. stage = "none" /\ tail = 0 /\ UNCHANGED tail /\ stage' \in {"none", "log"}
      BY <1>5, <2>2, EndOpIInv DEF EndOp, IInv, Stages
    <3> QED BY <3>1 DEF InLog, Copied
  <2>3. CASE \E b \in Blocks : LogAdd(o, b)
    BY <1>5, <2>3, LogAddIInv DEF LogAdd, InLog
  <2>4. CASE \E b \in Blocks, v \in Vals : LogWrite(o, b, v)
    <3>1. o \in Active /\ stage' = stage
      BY <2>4 DEF LogWrite, Active
    <3> QED BY <3>1 DEF InLog, IInv, Calls
  <2> QED BY <1>5, <2>1, <2>2, <2>3, <2>4 DEF Call
<1>6. CASE UNCHANGED vars
  <2>1. UNCHANGED <<home, slots, cache, lh, stage, tail>>
    BY <1>6 DEF vars, disk
  <2> QED BY <2>1 DEF InLog, Copied, Installed
<1> QED BY <1>1, <1>2, <1>3, <1>4, <1>5, <1>6, WriteLogInLog, InstallTransInLog DEF Next, Kernel

\* What recovery makes of a disk: Recovered, of any homes, header and slots.
After(hm, hd, sl) ==
  [b \in Blocks |->
     LET at == {i \in 1..Len(hd) : hd[i] = b}
     IN  IF at = {} THEN hm[b] ELSE sl[CHOOSE i \in at : TRUE]]

LEMMA RecoveredAfter ==
  /\ Recovered = After(home, head, slots)
  /\ Recovered' = After(home', head', slots')
BY DEF Recovered, After

LEMMA AfterOutside ==
  ASSUME NEW hm, NEW hd, NEW sl, NEW b \in Blocks, \A i \in 1..Len(hd) : hd[i] # b
  PROVE  After(hm, hd, sl)[b] = hm[b]
BY DEF After

LEMMA AfterInside ==
  ASSUME NEW hm, NEW hd, NEW sl, Distinct(hd), NEW i \in 1..Len(hd), hd[i] \in Blocks
  PROVE  After(hm, hd, sl)[hd[i]] = sl[i]
<1> DEFINE at == {j \in 1..Len(hd) : hd[j] = hd[i]}
<1>1. at = {i}
  BY DEF Distinct
<1>2. (CHOOSE j \in at : TRUE) = i /\ at # {}
  BY <1>1
<1>3. After(hm, hd, sl)[hd[i]] = IF at = {} THEN hm[hd[i]] ELSE sl[CHOOSE j \in at : TRUE]
  BY DEF After
<1> QED BY <1>2, <1>3

\* Two disks recover alike when each block does.
LEMMA AfterSame ==
  ASSUME NEW hm, NEW hd, NEW sl, NEW f, f = [b \in Blocks |-> f[b]],
         \A b \in Blocks : After(hm, hd, sl)[b] = f[b]
  PROVE  After(hm, hd, sl) = f
<1>1. After(hm, hd, sl) = [b \in Blocks |-> After(hm, hd, sl)[b]]
  BY DEF After
<1>2. [b \in Blocks |-> After(hm, hd, sl)[b]] = [b \in Blocks |-> f[b]]
  OBVIOUS
<1> QED BY <1>1, <1>2

LEMMA AfterEmpty ==
  ASSUME NEW hm \in [Blocks -> Vals], NEW sl
  PROVE  After(hm, <<>>, sl) = hm
<1>1. Len(<<>>) = 0
  BY EmptySeq
<1>2. \A b \in Blocks : After(hm, <<>>, sl)[b] = hm[b]
  BY <1>1, AfterOutside
<1> QED BY <1>2, AfterSame

avars == <<View, Recovered, Active>>

LEMMA AfterTypes ==
  ASSUME IInv
  PROVE  /\ home \in [Blocks -> Vals] /\ cache \in [Blocks -> Vals]
         /\ Distinct(lh) /\ Distinct(head)
         /\ \A i \in 1..Len(lh) : lh[i] \in Blocks
         /\ stage = "none" \/ Active = {}
BY Lengths DEF IInv, TypeOK, Stages, Calls

LEMMA InitAtomic == Init => ADisk!Init
<1> SUFFICES ASSUME Init PROVE ADisk!Init
  OBVIOUS
<1>1. Recovered = home /\ View = home
  BY RecoveredAfter, AfterEmpty DEF Init, View, Up
<1>2. Active = {}
  BY DEF Init, Active
<1> QED BY <1>1, <1>2 DEF Init, ADisk!Init

\* Writing the log's blocks changes nothing as long as the header is empty.
LEMMA WriteLogAtomic == IInv /\ InLog /\ WriteLog => UNCHANGED avars
<1> SUFFICES ASSUME IInv, InLog, WriteLog PROVE UNCHANGED avars
  OBVIOUS
<1>1. /\ head = <<>> /\ head' = head /\ home' = home /\ cache' = cache /\ pc' = pc
      /\ stage = "log" /\ stage' \in {"log", "finish", "head"}
  BY OwnSlots DEF WriteLog, IInv, Stages
<1>2. Recovered' = Recovered
  BY <1>1, RecoveredAfter, AfterEmpty, AfterTypes
<1>3. View' = View /\ Active' = Active
  BY <1>1 DEF View, Up, Active
<1> QED BY <1>2, <1>3 DEF avars

\* The header written by write_head() is the point where the calls commit.
LEMMA WriteHeadAtomic == IInv /\ InLog /\ WriteHead => ADisk!Commit
<1> SUFFICES ASSUME IInv, InLog, WriteHead PROVE ADisk!Commit
  OBVIOUS
<1>1. /\ stage = "head" /\ stage' = "install" /\ head' = lh
      /\ UNCHANGED <<home, cache, slots, pc, lh>> /\ Active = {} /\ ~panicked
  BY DEF WriteHead, IInv, Calls
<1>2. ASSUME NEW b \in Blocks PROVE After(home, lh, slots)[b] = cache[b]
  <2>1. CASE \E i \in 1..Len(lh) : lh[i] = b
    <3>1. PICK i \in 1..Len(lh) : lh[i] = b
      BY <2>1
    <3>2. After(home, lh, slots)[lh[i]] = slots[i]
      BY AfterInside, AfterTypes
    <3>3. slots[i] = cache[lh[i]]
      BY <1>1 DEF InLog, Copied
    <3> QED BY <3>1, <3>2, <3>3
  <2>2. CASE ~\E i \in 1..Len(lh) : lh[i] = b
    <3>1. cache[b] = home[b]
      BY <1>1, <2>2 DEF IInv, DirtyIsLogged, Up, Logged, Calls
    <3> QED BY <2>2, <3>1, AfterOutside
  <2> QED BY <2>1, <2>2
<1>3. Recovered' = cache
  BY <1>1, <1>2, RecoveredAfter, AfterSame, AfterTypes
<1>4. View = cache /\ View' = cache /\ Active' = Active
  BY <1>1 DEF View, Up, Active
<1> QED BY <1>1, <1>3, <1>4 DEF ADisk!Commit

\* Installing a block of a committed log changes what nobody looks at.
LEMMA InstallTransAtomic == IInv /\ InLog /\ InstallTrans => UNCHANGED avars
<1> SUFFICES ASSUME IInv, InLog, InstallTrans PROVE UNCHANGED avars
  OBVIOUS
<1>1. /\ stage \in {"install", "recover"} /\ head' = lh /\ head = lh
      /\ UNCHANGED <<slots, lh, pc>> /\ Len(lh) \in Nat /\ tail \in Nat
  BY Lengths DEF InstallTrans, IInv, TypeOK, Stages
<1>2. Active' = Active
  BY <1>1 DEF Active
<1>3. CASE tail < Len(lh)
  <2> DEFINE b == lh[tail + 1]
  <2>1. /\ home' = [home EXCEPT ![b] = slots[tail + 1]]
        /\ cache' = [cache EXCEPT ![b] = slots[tail + 1]] /\ stage' = stage
    BY <1>3, OwnSlots DEF InstallTrans
  <2>2. tail + 1 \in 1..Len(lh) /\ b \in Blocks
    BY <1>1, <1>3, AfterTypes
  <2>3. ASSUME NEW c \in Blocks
        PROVE  After(home', lh, slots)[c] = After(home, lh, slots)[c]
    <3>1. CASE \E i \in 1..Len(lh) : lh[i] = c
      <4>1. PICK i \in 1..Len(lh) : lh[i] = c
        BY <3>1
      <4>2. After(home', lh, slots)[lh[i]] = slots[i] /\ After(home, lh, slots)[lh[i]] = slots[i]
        BY AfterInside, AfterTypes
      <4> QED BY <4>1, <4>2
    <3>2. CASE ~\E i \in 1..Len(lh) : lh[i] = c
      <4>1. c # b /\ home'[c] = home[c]
        BY <2>1, <2>2, <3>2, AfterTypes
      <4> QED BY <3>2, <4>1, AfterOutside
    <3> QED BY <3>1, <3>2
  <2>4. Recovered' = Recovered
    <3>1. After(home, lh, slots) = [c \in Blocks |-> After(home, lh, slots)[c]]
      BY DEF After
    <3> QED BY <1>1, <2>3, <3>1, AfterSame, RecoveredAfter
  <2>5. View' = View
    <3>1. CASE stage = "install"
      <4>1. cache[b] = slots[tail + 1]
        BY <2>2, <3>1 DEF InLog, Copied
      <4>2. cache' = cache
        BY <2>1, <4>1, AfterTypes
      <4> QED BY <2>1, <3>1, <4>2 DEF View, Up
    <3>2. CASE stage = "recover"
      BY <2>1, <2>4, <3>2 DEF View, Up
    <3> QED BY <1>1, <3>1, <3>2
  <2> QED BY <1>2, <2>4, <2>5 DEF avars
<1>4. CASE ~(tail < Len(lh))
  <2>1. /\ home' = home /\ cache' = cache
        /\ stage' = IF stage = "install" THEN "clear" ELSE "reset"
    BY <1>4 DEF InstallTrans
  <2>2. Recovered' = Recovered
    BY <1>1, <2>1, RecoveredAfter
  <2>3. View' = View
    BY <1>1, <2>1, <2>2 DEF View, Up
  <2> QED BY <1>2, <2>2, <2>3 DEF avars
<1> QED BY <1>3, <1>4

\* The header goes when everything it names is at home.
LEMMA ClearLogAtomic == IInv /\ InLog /\ ClearLog => UNCHANGED avars
<1> SUFFICES ASSUME IInv, InLog, ClearLog PROVE UNCHANGED avars
  OBVIOUS
<1>1. /\ stage \in {"clear", "reset"} /\ head' = <<>> /\ head = lh
      /\ stage' = IF stage = "clear" THEN "finish" ELSE "none"
      /\ UNCHANGED <<home, cache, slots, pc>> /\ Installed(Len(lh))
      /\ (stage = "reset" => cache = home)
  BY DEF ClearLog, IInv, Stages, InLog
<1>2. \A c \in Blocks : After(home, lh, slots)[c] = home[c]
  <2> TAKE c \in Blocks
  <2>1. CASE \E i \in 1..Len(lh) : lh[i] = c
    <3>1. PICK i \in 1..Len(lh) : lh[i] = c
      BY <2>1
    <3>2. After(home, lh, slots)[lh[i]] = slots[i]
      BY AfterInside, AfterTypes
    <3>3. slots[i] = home[lh[i]]
      BY <1>1 DEF Installed
    <3> QED BY <3>1, <3>2, <3>3
  <2>2. CASE ~\E i \in 1..Len(lh) : lh[i] = c
    BY <2>2, AfterOutside
  <2> QED BY <2>1, <2>2
<1>3. Recovered = home /\ Recovered' = home
  BY <1>1, <1>2, AfterSame, AfterEmpty, AfterTypes, RecoveredAfter
<1>4. View' = View /\ Active' = Active
  BY <1>1, <1>3 DEF View, Up, Active
<1> QED BY <1>3, <1>4 DEF avars

LEMMA OthersAtomic == IInv /\ (Finish \/ ReadHead \/ UNCHANGED vars) => UNCHANGED avars
<1> SUFFICES ASSUME IInv, Finish \/ ReadHead \/ UNCHANGED vars PROVE UNCHANGED avars
  OBVIOUS
<1>1. UNCHANGED <<home, head, slots, cache>> /\ Up' = Up
  BY DEF Finish, ReadHead, vars, disk, Up
<1>2. Active' = Active
  BY DEF IInv, TypeOK, Finish, ReadHead, vars, disk, Active, Woken
<1>3. Recovered' = Recovered
  BY <1>1, RecoveredAfter
<1>4. View' = View
  BY <1>1, <1>3 DEF View
<1> QED BY <1>2, <1>3, <1>4 DEF avars

LEMMA CrashAtomic == IInv /\ Crash => ADisk!Crash
<1> SUFFICES ASSUME IInv, Crash PROVE ADisk!Crash
  OBVIOUS
<1>1. Recovered' = Recovered
  BY RecoveredAfter DEF Crash, disk
<1>2. View' = Recovered /\ Active' = {}
  BY <1>1 DEF Crash, View, Up, Active
<1> QED BY <1>1, <1>2 DEF ADisk!Crash

LEMMA CallAtomic ==
  ASSUME IInv, ~panicked, NEW o \in Ops, Call(o)
  PROVE  ADisk!Next \/ UNCHANGED avars
<1>1. UNCHANGED <<home, head, slots>>
  BY DEF Call, BeginOp, EndOp, LogWrite, LogAdd, disk
<1>2. Recovered' = Recovered
  BY <1>1, RecoveredAfter
<1>3. CASE BeginOp(o)
  <2>1. cache' = cache /\ Up' = Up /\ o \notin Active
    BY <1>3 DEF BeginOp, Up, Active
  <2>2. View' = View
    BY <1>2, <2>1 DEF View
  <2>3. Active' = Active \/ Active' = Active \cup {o}
    BY <1>3 DEF IInv, TypeOK, BeginOp, Active
  <2>4. ADisk!Begin(o) \/ UNCHANGED avars
    BY <1>2, <2>1, <2>2, <2>3 DEF ADisk!Begin, avars
  <2> QED BY <2>4 DEF ADisk!Next
<1>4. CASE EndOp(o)
  <2>1. Active' = Active \ {o} /\ o \in Active /\ Up /\ Up' /\ cache' = cache
    BY <1>4, EndOpIInv DEF EndOp, Up
  <2>2. ADisk!End(o)
    BY <1>2, <2>1 DEF ADisk!End, View
  <2> QED BY <2>2 DEF ADisk!Next
<1>5. CASE \E b \in Blocks, v \in Vals : LogWrite(o, b, v)
  <2>1. PICK b \in Blocks, v \in Vals : LogWrite(o, b, v)
    BY <1>5
  <2>2. o \in Active /\ Active' = Active /\ Up /\ Up' /\ cache' = [cache EXCEPT ![b] = v]
    BY <2>1, AfterTypes DEF LogWrite, Active, Up
  <2>3. ADisk!Write(b, v)
    BY <1>2, <2>2 DEF ADisk!Write, View
  <2> QED BY <2>3 DEF ADisk!Next
<1>6. CASE \E b \in Blocks : LogAdd(o, b)
  <2>1. cache' = cache /\ Up' = Up /\ Active' = Active
    BY <1>6 DEF LogAdd, Up, Active
  <2> QED BY <1>2, <2>1 DEF avars, View
<1> QED BY <1>3, <1>4, <1>5, <1>6 DEF Call

\* No crash, not even one in the middle of recovery, leaves a part of a group of
\* calls on the disk, nor loses a group whose header was written, if the log has more
\* than LOGSIZE blocks: where it has just that many, as mkfs.c makes it, the last block
\* that a full header names is not the log's.
THEOREM LogMakesDiskAtomic == Spec /\ size > LOGSIZE => ImplementsAtomicDisk
<1>1. Init => ADisk!Init
  BY InitAtomic
<1>2. IInv /\ InLog /\ [Next]_vars => [ADisk!Next]_avars
  <2> SUFFICES ASSUME IInv, InLog, [Next]_vars PROVE ADisk!Next \/ UNCHANGED avars
    OBVIOUS
  <2>1. CASE Crash
    BY <2>1, CrashAtomic DEF ADisk!Next
  <2>2. CASE ~panicked /\ Kernel
    BY <2>2, WriteLogAtomic, WriteHeadAtomic, InstallTransAtomic, ClearLogAtomic,
       OthersAtomic DEF Kernel, ADisk!Next
  <2>3. CASE \E o \in Ops : ~panicked /\ Call(o)
    BY <2>3, CallAtomic
  <2>4. CASE UNCHANGED vars
    BY <2>4, OthersAtomic
  <2> QED BY <2>1, <2>2, <2>3, <2>4 DEF Next
<1> QED BY <1>1, <1>2, Invariance, InitInLog, StepInLog, PTL
       DEF Spec, ImplementsAtomicDisk, ADisk!Spec, avars

-----------------------------------------------------------------------------
(* Blocks: that the bitmap and the addresses of inodes agree, and that files *)
(* are sequences of bytes.                                                   *)

\* The address in slot k of inode i, of inodes in and blocks d.
AddrIn(in, d, i, k) ==
  IF k <= NDIRECT THEN in[i].addrs[k]
  ELSE IF in[i].addrs[NDIRECT] = 0 THEN 0 ELSE d[in[i].addrs[NDIRECT]][k - NDIRECT - 1]

Cells == Int \cup Writers

\* An address is in one slot of one inode.
OneSlot(in, d) ==
  \A i, j \in Inums, k, l \in Bl!Slots :
    AddrIn(in, d, i, k) # 0 /\ AddrIn(in, d, i, k) = AddrIn(in, d, j, l) => i = j /\ k = l

\* The blocks in use are those with an address.
InUse(in, d) == {b \in Bl!BlockNos : \E i \in Inums, k \in Bl!Slots : AddrIn(in, d, i, k) = b}

InodesTyped ==
  /\ blInode \in [Inums -> [addrs : [0..NDIRECT -> 0..NDATA], size : 0..Bl!MAXFILE * BytesPerBlock]]
  /\ blDisk \in [Bl!BlockNos -> [0..BytesPerBlock - 1 -> Cells]]
  /\ \A i \in Inums, k \in Bl!Slots : AddrIn(blInode, blDisk, i, k) \in 0..NDATA

CallsTyped ==
  /\ blOff \in [Bl!Files -> Nat]
  /\ blProc \in [Writers -> [f : Bl!Files, n : Int, c : Writers]]
  /\ \A p \in Writers : blProc[p].c = p
  /\ blGot \in [Writers -> Seq(Cells)]

\* A file has the blocks of its size.
SizesRight ==
  \A i \in Inums : {k \in Bl!Slots : AddrIn(blInode, blDisk, i, k) # 0} = Bl!SlotsOf(0, blInode[i].size)

StoreInv ==
  /\ InodesTyped /\ CallsTyped
  /\ OneSlot(blInode, blDisk) /\ blBitmap = InUse(blInode, blDisk) /\ SizesRight
  /\ blPanicked # "freeing free block" /\ Bl!TransactionFits

LEMMA AddrIs == \A i, k : Bl!Addr(i, k) = AddrIn(blInode, blDisk, i, k)
BY DEF Bl!Addr, AddrIn

LEMMA BlCardinality == \A S : Bl!Cardinality(S) = Cardinality(S)
BY DEF Bl!Cardinality, Cardinality

LEMMA SlotsAre ==
  /\ Bl!Slots = 0..NDIRECT + NINDIRECT /\ Bl!MAXFILE = NDIRECT + NINDIRECT
  /\ Bl!MAXFILE \in Nat \ {0} /\ BytesPerBlock \in Nat \ {0} /\ NDIRECT \in Nat
  /\ NDIRECT \in Bl!Slots /\ Bl!MAXFILE * BytesPerBlock \in Nat \ {0}
<1>1. /\ Bl!Slots = 0..NDIRECT + NINDIRECT /\ Bl!MAXFILE = NDIRECT + NINDIRECT
      /\ Bl!MAXFILE \in Nat \ {0} /\ BytesPerBlock \in Nat \ {0} /\ NDIRECT \in Nat
      /\ NDIRECT \in Bl!Slots
  BY StorageAssumption DEF Bl!Slots, Bl!MAXFILE
<1>2. \A x, y \in Nat \ {0} : x * y \in Nat \ {0}
  OBVIOUS
<1> QED BY <1>1, <1>2

-----------------------------------------------------------------------------
(* Bytes, blocks and slots.                                                *)

LEMMA Division ==
  ASSUME NEW x \in Nat, NEW w \in Nat \ {0}
  PROVE  /\ x \div w \in Nat /\ x % w \in 0..w - 1 /\ x = (w * (x \div w)) + (x % w)
BY SMT

\* The block of a byte is below m if the byte is below m blocks.
LEMMA BlockOfByte ==
  ASSUME NEW x \in Nat, NEW w \in Nat \ {0}, NEW m \in Nat, x < m * w
  PROVE  x \div w \in 0..m - 1
<1> DEFINE q == x \div w
<1>1. q \in Nat /\ w * q <= x
  BY Division
<1>2. SUFFICES ASSUME q >= m PROVE FALSE
  BY <1>1
<1> HIDE DEF q
<1>3. w * q >= w * m
  BY <1>1, <1>2, SMT
<1> QED BY <1>1, <1>3, SMT

LEMMA DivisionGrows ==
  ASSUME NEW x \in Nat, NEW y \in Nat, NEW w \in Nat \ {0}, x <= y
  PROVE  x \div w \in Nat /\ y \div w \in Nat /\ x \div w <= y \div w
<1> DEFINE p == x \div w
           q == y \div w
<1>1. p \in Nat
  BY Division
<1>2. q \in Nat /\ y < (q + 1) * w
  <2>1. q \in Nat /\ y % w \in 0..w - 1 /\ y = (w * q) + (y % w)
    BY Division
  <2> DEFINE r == y % w
             u == w * q
  <2>2. (q + 1) * w = u + w /\ u \in Nat
    <3>1. q \in Nat
      BY <2>1
    <3> HIDE DEF q
    <3> QED BY <3>1, SMT
  <2>3. r \in 0..w - 1 /\ y = u + r
    BY <2>1
  <2> HIDE DEF r, u
  <2>4. y < u + w
    BY <2>2, <2>3
  <2> QED BY <2>1, <2>2, <2>4
<1>3. q + 1 \in Nat /\ x < (q + 1) * w
  <2> DEFINE v == (q + 1) * w
  <2>1. v \in Nat
    <3> HIDE DEF q
    <3> QED BY <1>2
  <2> HIDE DEF v
  <2>2. x < v
    BY <1>2, <2>1 DEF v
  <2> QED BY <1>2, <2>2 DEF v
<1> DEFINE e == q + 1
<1> HIDE DEF e
<1>4. p \in 0..e - 1
  BY <1>3, BlockOfByte DEF e
<1> QED BY <1>1, <1>2, <1>4 DEF e

LEMMA SlotsOfAre ==
  \A a, b, k : k \in Bl!SlotsOf(a, b) <=>
     \E x \in a..b - 1 : \/ k = Bl!Slot(x \div BytesPerBlock)
                         \/ x \div BytesPerBlock >= NDIRECT /\ k = NDIRECT
BY DEF Bl!SlotsOf

\* A slot stands for one block of the file; NDIRECT for none.
LEMMA SlotOne ==
  ASSUME NEW m \in Nat, NEW n \in Nat
  PROVE  /\ Bl!Slot(m) \in Nat \ {NDIRECT}
         /\ Bl!Slot(m) = Bl!Slot(n) => m = n
         /\ m >= NDIRECT <=> Bl!Slot(m) > NDIRECT
         /\ m < NDIRECT + NINDIRECT <=> Bl!Slot(m) <= NDIRECT + NINDIRECT
BY StorageAssumption DEF Bl!Slot

LEMMA SlotsWithin ==
  ASSUME NEW a \in Nat, NEW b \in Nat, b <= Bl!MAXFILE * BytesPerBlock
  PROVE  Bl!SlotsOf(a, b) \in SUBSET Bl!Slots
<1> SUFFICES ASSUME NEW k \in Bl!SlotsOf(a, b) PROVE k \in Bl!Slots
  OBVIOUS
<1>1. PICK x \in a..b - 1 : \/ k = Bl!Slot(x \div BytesPerBlock)
                            \/ x \div BytesPerBlock >= NDIRECT /\ k = NDIRECT
  BY SlotsOfAre
<1>2. x \div BytesPerBlock \in 0..Bl!MAXFILE - 1
  <2> DEFINE m == Bl!MAXFILE * BytesPerBlock
  <2>1. m \in Nat
    BY SlotsAre
  <2> HIDE DEF m
  <2>2. x \in Nat /\ x < m
    BY <2>1 DEF m
  <2> QED BY <2>2, SlotsAre, BlockOfByte DEF m
<1> DEFINE q == x \div BytesPerBlock
<1>3. q \in Nat /\ q < NDIRECT + NINDIRECT
  BY <1>2, SlotsAre, StorageAssumption
<1>4. k = Bl!Slot(q) \/ k = NDIRECT
  BY <1>1
<1> HIDE DEF q
<1>5. Bl!Slot(q) \in Nat /\ Bl!Slot(q) <= NDIRECT + NINDIRECT
  BY <1>3, SlotOne
<1> QED BY <1>4, <1>5, SlotsAre, StorageAssumption

LEMMA SlotsGrow ==
  ASSUME NEW z \in Nat, NEW a \in Nat, NEW b \in Nat, a <= z, a <= b
  PROVE  Bl!SlotsOf(0, z) \cup Bl!SlotsOf(a, b) = Bl!SlotsOf(0, IF b > z THEN b ELSE z)
<1> DEFINE y == IF b > z THEN b ELSE z
<1>1. (0..z - 1) \cup (a..b - 1) = 0..y - 1
  OBVIOUS
<1> HIDE DEF y
<1>2. ASSUME NEW k
      PROVE  k \in Bl!SlotsOf(0, z) \/ k \in Bl!SlotsOf(a, b) <=> k \in Bl!SlotsOf(0, y)
  <2> DEFINE P(x) == \/ k = Bl!Slot(x \div BytesPerBlock)
                     \/ x \div BytesPerBlock >= NDIRECT /\ k = NDIRECT
  <2>1. /\ k \in Bl!SlotsOf(0, z) <=> \E x \in 0..z - 1 : P(x)
        /\ k \in Bl!SlotsOf(a, b) <=> \E x \in a..b - 1 : P(x)
        /\ k \in Bl!SlotsOf(0, y) <=> \E x \in 0..y - 1 : P(x)
    BY SlotsOfAre
  <2> HIDE DEF P
  <2> QED BY ONLY <1>1, <2>1
<1>3. Bl!SlotsOf(0, z) \cup Bl!SlotsOf(a, b) = Bl!SlotsOf(0, y)
  BY ONLY <1>2, Zenon
<1> QED BY <1>3 DEF y

-----------------------------------------------------------------------------
(* The blocks balloc() finds: by its rank, a set has one element for each    *)
(* number below its size.                                                    *)

LEMMA ImageSmall ==
  ASSUME NEW S, IsFiniteSet(S), NEW f
  PROVE  /\ IsFiniteSet({f[x] : x \in S}) /\ Cardinality({f[x] : x \in S}) \in Nat
         /\ Cardinality({f[x] : x \in S}) <= Cardinality(S)
         /\ (\A x, y \in S : f[x] = f[y] => x = y) => Cardinality({f[x] : x \in S}) = Cardinality(S)
<1> DEFINE T == {f[x] : x \in S}
           g == [x \in S |-> f[x]]
<1>1. g \in Surjection(S, T)
  BY DEF Surjection
<1>2. IsFiniteSet(T) /\ Cardinality(T) <= Cardinality(S) /\ Cardinality(T) \in Nat
      /\ (Cardinality(T) = Cardinality(S) <=> g \in Injection(S, T))
  <2> HIDE DEF T, g
  <2> QED BY <1>1, FS_Surjection, FS_CardinalityType
<1>3. (\A x, y \in S : f[x] = f[y] => x = y) => g \in Injection(S, T)
  BY DEF Injection, IsInjective
<1> QED BY <1>2, <1>3

LEMMA RankIs ==
  ASSUME NEW S \in SUBSET Int, IsFiniteSet(S), NEW b \in S
  PROVE  /\ Bl!Below(b, S) \in 0..Cardinality(S) - 1
         /\ \A c \in S : Bl!Below(b, S) = Bl!Below(c, S) => b = c
<1> DEFINE L(c) == {y \in S : y < c}
<1>1. \A c : Bl!Below(c, S) = Cardinality(L(c))
  BY BlCardinality DEF Bl!Below
<1>2. \A c \in S : /\ IsFiniteSet(L(c)) /\ Cardinality(L(c)) \in Nat
                   /\ Cardinality(L(c)) < Cardinality(S)
  <2> SUFFICES ASSUME NEW c \in S
               PROVE  /\ IsFiniteSet(L(c)) /\ Cardinality(L(c)) \in Nat
                      /\ Cardinality(L(c)) < Cardinality(S)
    OBVIOUS
  <2>1. L(c) \in SUBSET S /\ c \notin L(c)
    OBVIOUS
  <2> HIDE DEF L
  <2>2. IsFiniteSet(L(c)) /\ Cardinality(L(c)) <= Cardinality(S) /\ Cardinality(L(c)) # Cardinality(S)
    BY <2>1, FS_Subset
  <2> QED BY <2>2, FS_CardinalityType
<1>3. ASSUME NEW c \in S, NEW d \in S, c < d
      PROVE  Cardinality(L(c)) # Cardinality(L(d))
  <2>0. c \in Int /\ d \in Int /\ \A y \in S : y \in Int
    BY S \in SUBSET Int
  <2>1. L(c) \in SUBSET L(d) /\ c \in L(d) /\ c \notin L(c)
    <3>1. \A x, y : y \in L(x) <=> y \in S /\ y < x
      OBVIOUS
    <3> HIDE DEF L
    <3>2. c \in L(d) /\ c \notin L(c)
      BY <1>3, <2>0, <3>1
    <3>3. ASSUME NEW y \in L(c) PROVE y \in L(d)
      <4>1. y \in S /\ y < c /\ y \in Int
        BY <2>0, <3>1
      <4>2. y < d
        BY ONLY <4>1, <2>0, <1>3
      <4> QED BY ONLY <4>1, <4>2, <3>1
    <3> QED BY <3>2, <3>3
  <2> HIDE DEF L
  <2> QED BY <2>1, <1>2, FS_Subset
<1>4. ASSUME NEW c \in S, Cardinality(L(b)) = Cardinality(L(c)) PROVE b = c
  <2> HIDE DEF L
  <2>1. b \in Int /\ c \in Int
    OBVIOUS
  <2> QED BY <1>3, <1>4, <2>1
<1>5. Cardinality(S) \in Nat
  BY FS_CardinalityType
<1> HIDE DEF L
<1> QED BY <1>1, <1>2, <1>4, <1>5

LEMMA RankFound ==
  ASSUME NEW S \in SUBSET Int, IsFiniteSet(S), NEW r \in 0..Cardinality(S) - 1
  PROVE  \E b \in S : Bl!Below(b, S) = r
<1> DEFINE g == [b \in S |-> Bl!Below(b, S)]
           T == {g[b] : b \in S}
           n == Cardinality(S)
<1>1. n \in Nat
  BY FS_CardinalityType
<1>2. \A b \in S : g[b] \in 0..n - 1
  BY RankIs
<1>3. \A b, c \in S : g[b] = g[c] => b = c
  BY RankIs
<1>4. T \in SUBSET (0..n - 1)
  BY <1>2
<1>5. Cardinality(T) = n
  <2> HIDE DEF g
  <2> QED BY <1>3, ImageSmall
<1>6. IsFiniteSet(0..n - 1) /\ Cardinality(0..n - 1) = n
  BY <1>1, FS_Interval
<1>7. T = 0..n - 1
  <2> HIDE DEF T, n
  <2> QED BY <1>4, <1>5, <1>6, FS_Subset
<1>8. r \in T
  BY <1>7
<1> QED BY <1>8

\* What bmap() gives the missing slots: blocks that are free, each its own.
LEMMA PlacedApart ==
  ASSUME NEW i, NEW free \in SUBSET Int, IsFiniteSet(free), free = Bl!BlockNos \ blBitmap,
         NEW missing \in SUBSET Bl!Slots, IsFiniteSet(missing), Cardinality(missing) <= Cardinality(free)
  PROVE  /\ \A k \in missing : Bl!Placed(i, missing)[k] \in free
         /\ \A k, l \in missing : Bl!Placed(i, missing)[k] = Bl!Placed(i, missing)[l] => k = l
         /\ \A k \in Bl!Slots \ missing : Bl!Placed(i, missing)[k] = Bl!Addr(i, k)
<1> DEFINE at == Bl!Placed(i, missing)
<1>1. /\ \A k \in missing : at[k] = CHOOSE b \in free : Bl!Below(b, free) = Bl!Below(k, missing)
      /\ \A k \in Bl!Slots \ missing : at[k] = Bl!Addr(i, k)
  BY DEF Bl!Placed
<1> HIDE DEF at
<1>2. missing \in SUBSET Int
  BY SlotsAre
<1>3. Cardinality(free) \in Nat /\ Cardinality(missing) \in Nat
  BY FS_CardinalityType
<1>4. ASSUME NEW k \in missing
      PROVE  at[k] \in free /\ Bl!Below(at[k], free) = Bl!Below(k, missing)
  <2>1. Bl!Below(k, missing) \in 0..Cardinality(free) - 1
    BY <1>2, <1>3, RankIs
  <2>2. \E b \in free : Bl!Below(b, free) = Bl!Below(k, missing)
    BY <2>1, RankFound
  <2> QED BY <1>1, <2>2
<1>5. ASSUME NEW k \in missing, NEW l \in missing, at[k] = at[l] PROVE k = l
  <2>1. Bl!Below(k, missing) = Bl!Below(l, missing)
    BY <1>4, <1>5
  <2> QED BY <1>2, <2>1, RankIs
<1> QED BY <1>1, <1>4, <1>5 DEF at

-----------------------------------------------------------------------------
(* What writei() does, with the addresses that bmap() has placed.            *)

Old(i, k) == AddrIn(blInode, blDisk, i, k)
Missing(i, a, b) == {k \in Bl!SlotsOf(a, b) : Bl!Addr(i, k) = 0}
Fresh(addr, i, a, b) == {addr[k] : k \in Missing(i, a, b)}

Placing(addr, i, a, b) ==
  /\ addr \in [Bl!Slots -> 0..NDATA]
  /\ \A k \in Missing(i, a, b) : addr[k] \in Bl!BlockNos \ blBitmap
  /\ \A k, l \in Missing(i, a, b) : addr[k] = addr[l] => k = l
  /\ \A k \in Bl!Slots \ Missing(i, a, b) : addr[k] = Old(i, k)

LEMMA BlocksFinite ==
  /\ IsFiniteSet(Bl!BlockNos) /\ Cardinality(Bl!BlockNos) = NDATA /\ Bl!BlockNos \in SUBSET Int
  /\ IsFiniteSet(Bl!Slots) /\ Bl!Slots \in SUBSET Int
  /\ IsFiniteSet(InUse(blInode, blDisk))
<1>1. IsFiniteSet(1..NDATA) /\ Cardinality(1..NDATA) = NDATA
  BY StorageAssumption, FS_Interval
<1>2. IsFiniteSet(0..NDIRECT + NINDIRECT)
  BY StorageAssumption, FS_Interval
<1>3. InUse(blInode, blDisk) \in SUBSET Bl!BlockNos
  BY DEF InUse
<1>4. IsFiniteSet(InUse(blInode, blDisk))
  BY <1>1, <1>3, FS_Subset DEF Bl!BlockNos
<1> QED BY <1>1, <1>2, <1>4, SlotsAre DEF Bl!BlockNos

LEMMA WriteiDoes ==
  ASSUME StoreInv, NEW i \in Inums, NEW c, NEW a \in Nat, NEW n \in Nat,
         a + n <= Bl!MAXFILE * BytesPerBlock, Bl!Writei(i, c, a, n)
  PROVE  \/ /\ blPanicked' = "out of blocks"
            /\ UNCHANGED <<blBitmap, blDisk, blInode, blLogged>>
         \/ \E addr : Placing(addr, i, a, a + n) /\ Bl!Put(i, c, a, a + n, addr)
<1> DEFINE b == a + n
           missing == Missing(i, a, b)
           free == Bl!BlockNos \ blBitmap
           addr == Bl!Placed(i, missing)
<1>1. b \in Nat /\ Bl!SlotsOf(a, b) \in SUBSET Bl!Slots
  BY SlotsWithin
<1>2. missing \in SUBSET Bl!Slots /\ missing = {k \in Bl!SlotsOf(a, b) : Bl!Addr(i, k) = 0}
  BY <1>1 DEF Missing
<1>3. CASE Bl!Cardinality(missing) > NDATA - Bl!Cardinality(blBitmap)
  BY <1>2, <1>3 DEF Bl!Writei
<1>4. CASE ~(Bl!Cardinality(missing) > NDATA - Bl!Cardinality(blBitmap))
  <2>1. Bl!Put(i, c, a, b, addr)
    <3> HIDE DEF missing
    <3> QED BY <1>2, <1>4 DEF Bl!Writei
  <2>2. /\ blBitmap \in SUBSET Bl!BlockNos /\ IsFiniteSet(blBitmap)
        /\ Cardinality(free) = NDATA - Cardinality(blBitmap)
        /\ free \in SUBSET Int /\ IsFiniteSet(free)
    <3>1. blBitmap \in SUBSET Bl!BlockNos /\ IsFiniteSet(blBitmap)
      <4>1. blBitmap = InUse(blInode, blDisk)
        BY ONLY StoreInv DEF StoreInv
      <4>2. InUse(blInode, blDisk) \in SUBSET Bl!BlockNos
        BY ONLY DEF InUse
      <4> QED BY ONLY <4>1, <4>2, BlocksFinite
    <3>2. Bl!BlockNos \cap blBitmap = blBitmap
      BY <3>1
    <3>3. IsFiniteSet(free) /\ Cardinality(free) = NDATA - Cardinality(Bl!BlockNos \cap blBitmap)
      <4>1. IsFiniteSet(Bl!BlockNos) /\ Cardinality(Bl!BlockNos) = NDATA
        BY BlocksFinite
      <4> QED BY ONLY <4>1, FS_Difference
    <3>4. free \in SUBSET Int
      <4>1. Bl!BlockNos \in SUBSET Int
        BY BlocksFinite
      <4> QED BY ONLY <4>1
    <3> HIDE DEF free
    <3> QED BY ONLY <3>1, <3>2, <3>3, <3>4
  <2>3. IsFiniteSet(missing) /\ Cardinality(missing) \in Nat /\ Cardinality(free) \in Nat
    BY <1>2, <2>2, BlocksFinite, FS_Subset, FS_CardinalityType
  <2>4. Cardinality(missing) <= Cardinality(free)
    <3>1. ~(Cardinality(missing) > NDATA - Cardinality(blBitmap))
      BY <1>4, BlCardinality
    <3> HIDE DEF missing, free
    <3>2. NDATA - Cardinality(blBitmap) = Cardinality(free)
      BY <2>2
    <3> QED BY ONLY <2>3, <3>1, <3>2
  <2>5. /\ \A k \in missing : addr[k] \in free
        /\ \A k, l \in missing : addr[k] = addr[l] => k = l
        /\ \A k \in Bl!Slots \ missing : addr[k] = Bl!Addr(i, k)
    <3>1. free = Bl!BlockNos \ blBitmap /\ missing \in SUBSET Bl!Slots
      BY <1>2
    <3> HIDE DEF missing, free
    <3> QED BY <3>1, <2>2, <2>3, <2>4, PlacedApart
  <2>6. addr \in [Bl!Slots -> 0..NDATA]
    <3>1. DOMAIN addr = Bl!Slots /\ addr = [k \in Bl!Slots |-> addr[k]]
      BY DEF Bl!Placed
    <3>2. \A k \in Bl!Slots : addr[k] \in 0..NDATA
      <4>1. \A k \in Bl!Slots : Bl!Addr(i, k) \in 0..NDATA
        BY AddrIs DEF StoreInv, InodesTyped
      <4>2. \A x \in free : x \in 0..NDATA
        BY DEF Bl!BlockNos
      <4> HIDE DEF addr, missing, free
      <4> QED BY <2>5, <4>1, <4>2
    <3> HIDE DEF addr
    <3> QED BY <3>1, <3>2
  <2>7. Placing(addr, i, a, b)
    <3> HIDE DEF addr
    <3> QED BY <2>5, <2>6, AddrIs DEF Placing, Old
  <2> HIDE DEF addr
  <2> QED BY <2>1, <2>7
<1> QED BY <1>3, <1>4

LEMMA PutApart ==
  ASSUME StoreInv, NEW i \in Inums, NEW a \in Nat, NEW b \in Nat, b <= Bl!MAXFILE * BytesPerBlock,
         NEW addr, Placing(addr, i, a, b)
  PROVE  /\ Missing(i, a, b) \in SUBSET Bl!Slots
         /\ \A k \in Bl!Slots : addr[k] \in 0..NDATA
         /\ \A k, l \in Bl!Slots : addr[k] # 0 /\ addr[k] = addr[l] => k = l
         /\ \A j \in Inums \ {i}, k, l \in Bl!Slots : addr[k] # 0 => addr[k] # Old(j, l)
         /\ \A k \in Bl!Slots : addr[k] # 0 <=> k \in Missing(i, a, b) \/ Old(i, k) # 0
         /\ \A k \in Bl!Slots : addr[k] \in Fresh(addr, i, a, b) <=> k \in Missing(i, a, b)
<1> DEFINE m == Missing(i, a, b)
<1>1. m \in SUBSET Bl!Slots
  BY SlotsWithin DEF Missing
<1>2. \A k \in m : addr[k] \in 1..NDATA /\ addr[k] \notin blBitmap
  BY DEF Placing, Bl!BlockNos
<1>3. \A j \in Inums, k \in Bl!Slots : Old(j, k) \in 0..NDATA /\ (Old(j, k) # 0 => Old(j, k) \in blBitmap)
  <2>1. \A j \in Inums, k \in Bl!Slots : Old(j, k) \in 0..NDATA
    BY DEF StoreInv, InodesTyped, Old
  <2>2. blBitmap = {x \in 1..NDATA : \E j \in Inums, k \in Bl!Slots : Old(j, k) = x}
    BY DEF StoreInv, InUse, Bl!BlockNos, Old
  <2> QED BY <2>1, <2>2, StorageAssumption
<1>4. \A k \in Bl!Slots \ m : addr[k] = Old(i, k)
  BY DEF Placing
<1>5. \A k, l \in m : addr[k] = addr[l] => k = l
  BY DEF Placing
<1>6. \A j, h \in Inums, k, l \in Bl!Slots : Old(j, k) # 0 /\ Old(j, k) = Old(h, l) => j = h /\ k = l
  BY DEF StoreInv, OneSlot, Old
<1>7. Fresh(addr, i, a, b) = {addr[k] : k \in m}
  BY DEF Fresh
<1> HIDE DEF m
<1>8. addr \in [Bl!Slots -> 0..NDATA]
  BY DEF Placing
<1>9. \A k \in Bl!Slots : addr[k] \in 0..NDATA
  BY <1>8
<1>10. \A k, l \in Bl!Slots : addr[k] # 0 /\ addr[k] = addr[l] => k = l
  <2> SUFFICES ASSUME NEW k \in Bl!Slots, NEW l \in Bl!Slots, addr[k] # 0, addr[k] = addr[l]
               PROVE  k = l
    OBVIOUS
  <2>1. CASE k \in m /\ l \in m
    BY <1>5, <2>1
  <2>2. CASE k \notin m /\ l \notin m
    BY <1>4, <1>6, <2>2
  <2>3. CASE k \in m /\ l \notin m
    BY <1>2, <1>3, <1>4, <2>3
  <2>4. CASE k \notin m /\ l \in m
    BY <1>2, <1>3, <1>4, <2>4
  <2> QED BY <2>1, <2>2, <2>3, <2>4
<1>11. \A j \in Inums \ {i}, k, l \in Bl!Slots : addr[k] # 0 => addr[k] # Old(j, l)
  <2> SUFFICES ASSUME NEW j \in Inums \ {i}, NEW k \in Bl!Slots, NEW l \in Bl!Slots, addr[k] # 0,
                      addr[k] = Old(j, l)
               PROVE  FALSE
    OBVIOUS
  <2>1. CASE k \in m
    BY <1>2, <1>3, <2>1
  <2>2. CASE k \notin m
    BY <1>4, <1>6, <2>2
  <2> QED BY <2>1, <2>2
<1>12. \A k \in Bl!Slots : addr[k] # 0 <=> k \in m \/ Old(i, k) # 0
  <2> SUFFICES ASSUME NEW k \in Bl!Slots PROVE addr[k] # 0 <=> k \in m \/ Old(i, k) # 0
    OBVIOUS
  <2>1. CASE k \in m
    BY <1>2, <2>1
  <2> QED BY <1>4, <2>1
<1>13. \A k \in Bl!Slots : addr[k] \in Fresh(addr, i, a, b) <=> k \in m
  <2> SUFFICES ASSUME NEW k \in Bl!Slots, NEW l \in m, addr[k] = addr[l] PROVE k \in m
    BY <1>7
  <2>1. addr[k] # 0
    BY <1>2
  <2> QED BY <1>1, <1>10, <2>1
<1> QED BY <1>1, <1>9, <1>10, <1>11, <1>12, <1>13 DEF m

\* The bytes from a to b - 1 of inode i are c, in the blocks addr.
Putting(i, c, a, b, addr) ==
  /\ StoreInv /\ i \in Inums /\ c \in Writers
  /\ a \in Nat /\ b \in Nat /\ b <= Bl!MAXFILE * BytesPerBlock
  /\ Placing(addr, i, a, b) /\ Bl!Put(i, c, a, b, addr)

\* Block by block, and inode by inode.
LEMMA PutDoes ==
  ASSUME NEW i, NEW c, NEW a, NEW b, NEW addr, Putting(i, c, a, b, addr)
  PROVE  /\ \A k \in 0..NDIRECT : blInode'[i].addrs[k] = addr[k]
         /\ blInode'[i].size = IF b > blInode[i].size THEN b ELSE blInode[i].size
         /\ blInode' \in [Inums -> [addrs : [0..NDIRECT -> 0..NDATA], size : 0..Bl!MAXFILE * BytesPerBlock]]
         /\ \A j \in Inums \ {i} : blInode'[j] = blInode[j]
         /\ blBitmap' = blBitmap \cup Fresh(addr, i, a, b)
         /\ blPanicked' = blPanicked
<1>0. /\ StoreInv /\ i \in Inums /\ c \in Writers
      /\ a \in Nat /\ b \in Nat /\ b <= Bl!MAXFILE * BytesPerBlock
      /\ Placing(addr, i, a, b) /\ Bl!Put(i, c, a, b, addr)
  BY DEF Putting
<1> USE <1>0
<1>1. blInode' = [blInode EXCEPT ![i] = [addrs |-> [k \in 0..NDIRECT |-> addr[k]],
                                         size |-> IF b > blInode[i].size THEN b ELSE blInode[i].size]]
      /\ blBitmap' = blBitmap \cup Fresh(addr, i, a, b) /\ blPanicked' = blPanicked
  BY DEF Bl!Put, Fresh, Missing
<1>2. blInode \in [Inums -> [addrs : [0..NDIRECT -> 0..NDATA], size : 0..Bl!MAXFILE * BytesPerBlock]]
  BY DEF StoreInv, InodesTyped
<1>3. \A k \in 0..NDIRECT : addr[k] \in 0..NDATA
  BY SlotsAre, StorageAssumption DEF Placing
<1> DEFINE z == IF b > blInode[i].size THEN b ELSE blInode[i].size
           e == [addrs |-> [k \in 0..NDIRECT |-> addr[k]], size |-> z]
<1>4. z \in 0..Bl!MAXFILE * BytesPerBlock
  BY <1>2, SlotsAre
<1>5. /\ e \in [addrs : [0..NDIRECT -> 0..NDATA], size : 0..Bl!MAXFILE * BytesPerBlock]
      /\ e.size = z /\ \A k \in 0..NDIRECT : e.addrs[k] = addr[k]
  <2> HIDE DEF z
  <2> QED BY <1>3, <1>4
<1>6. blInode' = [blInode EXCEPT ![i] = e]
  BY <1>1
<1>7. /\ blInode'[i] = e /\ \A j \in Inums \ {i} : blInode'[j] = blInode[j]
      /\ blInode' \in [Inums -> [addrs : [0..NDIRECT -> 0..NDATA], size : 0..Bl!MAXFILE * BytesPerBlock]]
  <2> HIDE DEF e, z
  <2> QED BY <1>2, <1>5, <1>6
<1> HIDE DEF e
<1> QED BY <1>1, <1>5, <1>7

LEMMA PutBlocks ==
  ASSUME NEW i, NEW c, NEW a, NEW b, NEW addr, Putting(i, c, a, b, addr)
  PROVE  /\ blDisk' \in [Bl!BlockNos -> [0..BytesPerBlock - 1 -> Cells]]
         /\ \A x \in Bl!BlockNos, k \in 0..BytesPerBlock - 1 :
              LET old == IF x \in Fresh(addr, i, a, b) THEN 0 ELSE blDisk[x][k] IN
              blDisk'[x][k] =
                IF x \in Bl!Touched(addr, a, b)
                THEN IF k \in Bl!Within(addr, a, b, x) THEN c ELSE old
                ELSE IF x = addr[NDIRECT]
                THEN IF NDIRECT + 1 + k \in Bl!SlotsOf(a, b) THEN addr[NDIRECT + 1 + k] ELSE old
                ELSE blDisk[x][k]
<1>0. /\ StoreInv /\ i \in Inums /\ c \in Writers
      /\ a \in Nat /\ b \in Nat /\ b <= Bl!MAXFILE * BytesPerBlock
      /\ Placing(addr, i, a, b) /\ Bl!Put(i, c, a, b, addr)
  BY DEF Putting
<1> USE <1>0
<1> DEFINE fresh == Fresh(addr, i, a, b)
           clean == Bl!Bzero(blDisk, fresh)
           data == Bl!Touched(addr, a, b)
           entries == {k \in Bl!SlotsOf(a, b) : k > NDIRECT}
           D(x) == IF x \in data
                   THEN [k \in 0..BytesPerBlock - 1 |-> IF k \in Bl!Within(addr, a, b, x) THEN c ELSE clean[x][k]]
                   ELSE IF x = addr[NDIRECT]
                   THEN [k \in 0..BytesPerBlock - 1 |-> IF NDIRECT + 1 + k \in entries THEN addr[NDIRECT + 1 + k]
                                                        ELSE clean[x][k]]
                   ELSE blDisk[x]
<1>1. blDisk' = [x \in Bl!BlockNos |-> D(x)]
  BY DEF Bl!Put, Fresh, Missing
<1>2. blDisk \in [Bl!BlockNos -> [0..BytesPerBlock - 1 -> Cells]]
  BY DEF StoreInv, InodesTyped
<1>3. \A x \in Bl!BlockNos, k \in 0..BytesPerBlock - 1 :
        clean[x][k] = (IF x \in fresh THEN 0 ELSE blDisk[x][k]) /\ clean[x][k] \in Cells
  <2> HIDE DEF fresh
  <2> SUFFICES ASSUME NEW x \in Bl!BlockNos, NEW k \in 0..BytesPerBlock - 1
               PROVE  clean[x][k] = (IF x \in fresh THEN 0 ELSE blDisk[x][k]) /\ clean[x][k] \in Cells
    OBVIOUS
  <2>1. clean[x] = IF x \in fresh THEN Bl!Zeroes ELSE blDisk[x]
    BY DEF Bl!Bzero
  <2>2. Bl!Zeroes[k] = 0 /\ 0 \in Cells
    BY DEF Bl!Zeroes, Cells
  <2>3. blDisk[x][k] \in Cells
    BY <1>2
  <2> HIDE DEF clean
  <2> QED BY <2>1, <2>2, <2>3
<1>4. \A k \in 0..BytesPerBlock - 1 :
        /\ NDIRECT + 1 + k \in entries <=> NDIRECT + 1 + k \in Bl!SlotsOf(a, b)
        /\ NDIRECT + 1 + k \in entries => addr[NDIRECT + 1 + k] \in Cells
  <2>1. Bl!SlotsOf(a, b) \in SUBSET Bl!Slots
    BY SlotsWithin
  <2>2. \A k \in Bl!Slots : addr[k] \in Cells
    BY PutApart DEF Cells
  <2>3. \A k \in 0..BytesPerBlock - 1 : NDIRECT + 1 + k > NDIRECT
    BY SlotsAre
  <2> QED BY <2>1, <2>2, <2>3
<1>5. c \in Cells
  BY DEF Cells
<1> HIDE DEF fresh, clean, data, entries
<1>6. ASSUME NEW x \in Bl!BlockNos
      PROVE  /\ D(x) \in [0..BytesPerBlock - 1 -> Cells]
             /\ \A k \in 0..BytesPerBlock - 1 :
                  LET old == IF x \in fresh THEN 0 ELSE blDisk[x][k] IN
                  D(x)[k] = IF x \in data
                            THEN IF k \in Bl!Within(addr, a, b, x) THEN c ELSE old
                            ELSE IF x = addr[NDIRECT]
                            THEN IF NDIRECT + 1 + k \in Bl!SlotsOf(a, b) THEN addr[NDIRECT + 1 + k] ELSE old
                            ELSE blDisk[x][k]
  <2>1. CASE x \in data
    BY <1>3, <1>5, <2>1
  <2>2. CASE x \notin data /\ x = addr[NDIRECT]
    BY <1>3, <1>4, <2>2
  <2>3. CASE x \notin data /\ x # addr[NDIRECT]
    BY <1>2, <2>3
  <2> QED BY <2>1, <2>2, <2>3
<1> HIDE DEF D
<1>7. blDisk' \in [Bl!BlockNos -> [0..BytesPerBlock - 1 -> Cells]] /\ \A x \in Bl!BlockNos : blDisk'[x] = D(x)
  BY <1>1, <1>6
<1> QED BY <1>6, <1>7 DEF fresh, data

\* A slot behind the indirect block is looked at only together with that block's.
LEMMA IndirectLooked ==
  ASSUME NEW a \in Nat, NEW b \in Nat, NEW k \in Bl!SlotsOf(a, b), k > NDIRECT
  PROVE  NDIRECT \in Bl!SlotsOf(a, b)
<1>1. PICK x \in a..b - 1 : \/ k = Bl!Slot(x \div BytesPerBlock)
                            \/ x \div BytesPerBlock >= NDIRECT /\ k = NDIRECT
  BY SlotsOfAre
<1> DEFINE q == x \div BytesPerBlock
<1>2. q \in Nat
  <2>1. x \in Nat
    OBVIOUS
  <2> QED BY <2>1, SlotsAre, Division
<1>3. k = Bl!Slot(q)
  BY <1>1, SlotsAre
<1>4. q >= NDIRECT
  <2> HIDE DEF q
  <2> QED BY <1>2, <1>3, SlotOne
<1> QED BY <1>4, SlotsOfAre

LEMMA AddrNow ==
  ASSUME StoreInv, NEW i \in Inums, NEW k \in Bl!Slots
  PROVE  /\ Old(i, k) \in 0..NDATA
         /\ k <= NDIRECT => Old(i, k) = blInode[i].addrs[k]
         /\ k > NDIRECT /\ Old(i, NDIRECT) = 0 => Old(i, k) = 0
         /\ k > NDIRECT /\ Old(i, NDIRECT) # 0 => /\ Old(i, k) = blDisk[Old(i, NDIRECT)][k - NDIRECT - 1]
                                                  /\ k - NDIRECT - 1 \in 0..BytesPerBlock - 1
<1>1. Old(i, k) \in 0..NDATA
  BY DEF StoreInv, InodesTyped, Old
<1>2. k \in Int /\ NDIRECT \in Nat /\ k <= NDIRECT + NINDIRECT /\ NINDIRECT <= BytesPerBlock
      /\ NINDIRECT \in Nat /\ BytesPerBlock \in Nat
  BY SlotsAre, StorageAssumption
<1>3. Old(i, NDIRECT) = blInode[i].addrs[NDIRECT]
  BY <1>2 DEF Old, AddrIn
<1>4. k > NDIRECT => k - NDIRECT - 1 \in 0..BytesPerBlock - 1 /\ ~(k <= NDIRECT)
  BY ONLY <1>2
<1> QED BY <1>1, <1>3, <1>4 DEF Old, AddrIn

LEMMA PutAddr ==
  ASSUME NEW i, NEW c, NEW a, NEW b, NEW addr, Putting(i, c, a, b, addr), NEW k \in Bl!Slots
  PROVE  /\ AddrIn(blInode', blDisk', i, k) = addr[k]
         /\ \A j \in Inums \ {i} : AddrIn(blInode', blDisk', j, k) = Old(j, k)
<1>0. /\ StoreInv /\ i \in Inums /\ c \in Writers
      /\ a \in Nat /\ b \in Nat /\ b <= Bl!MAXFILE * BytesPerBlock
      /\ Placing(addr, i, a, b) /\ Bl!Put(i, c, a, b, addr)
  BY DEF Putting
<1> USE <1>0
<1> DEFINE q == k - NDIRECT - 1
           data == Bl!Touched(addr, a, b)
           m == Missing(i, a, b)
<1>1. /\ \A l \in 0..NDIRECT : blInode'[i].addrs[l] = addr[l]
      /\ \A j \in Inums \ {i} : blInode'[j] = blInode[j]
  <2> HIDE DEF q, data, m
  <2> QED BY PutDoes
<1>2. /\ \A l \in Bl!Slots : addr[l] \in 0..NDATA
      /\ \A l, h \in Bl!Slots : addr[l] # 0 /\ addr[l] = addr[h] => l = h
      /\ \A j \in Inums \ {i}, l, h \in Bl!Slots : addr[l] # 0 => addr[l] # Old(j, h)
      /\ \A l \in Bl!Slots : addr[l] # 0 <=> l \in m \/ Old(i, l) # 0
      /\ \A l \in Bl!Slots : addr[l] \in Fresh(addr, i, a, b) <=> l \in m
  BY PutApart
<1>3. /\ m = {l \in Bl!SlotsOf(a, b) : Old(i, l) = 0}
      /\ Bl!SlotsOf(a, b) \in SUBSET Bl!Slots
      /\ \A l \in Bl!Slots \ m : addr[l] = Old(i, l)
  BY SlotsWithin, AddrIs DEF Missing, Old, Placing
<1>4. NDIRECT \in Bl!Slots /\ k \in Int /\ NDIRECT \in Nat /\ NDIRECT \in 0..NDIRECT /\ k >= 0
  BY SlotsAre
<1>5. data = {addr[l] : l \in Bl!SlotsOf(a, b) \ {NDIRECT}}
  BY DEF Bl!Touched
<1> HIDE DEF q
<1>6. \A x \in Bl!BlockNos, l \in 0..BytesPerBlock - 1 :
        x \notin data =>
          blDisk'[x][l] = IF x = addr[NDIRECT]
                          THEN IF NDIRECT + 1 + l \in Bl!SlotsOf(a, b) THEN addr[NDIRECT + 1 + l]
                               ELSE IF x \in Fresh(addr, i, a, b) THEN 0 ELSE blDisk[x][l]
                          ELSE blDisk[x][l]
  <2>1. \A x \in Bl!BlockNos, l \in 0..BytesPerBlock - 1 :
              LET old == IF x \in Fresh(addr, i, a, b) THEN 0 ELSE blDisk[x][l] IN
              blDisk'[x][l] =
                IF x \in Bl!Touched(addr, a, b)
                THEN IF l \in Bl!Within(addr, a, b, x) THEN c ELSE old
                ELSE IF x = addr[NDIRECT]
                THEN IF NDIRECT + 1 + l \in Bl!SlotsOf(a, b) THEN addr[NDIRECT + 1 + l] ELSE old
                ELSE blDisk[x][l]
    <3> HIDE DEF data, m
    <3> QED BY PutBlocks
  <2> HIDE DEF m
  <2> QED BY <2>1 DEF data
<1> HIDE DEF data, m
<1> USE DEF q
<1>7. addr[NDIRECT] # 0 => addr[NDIRECT] \in Bl!BlockNos /\ addr[NDIRECT] \notin data
  <2> SUFFICES ASSUME addr[NDIRECT] # 0
               PROVE  addr[NDIRECT] \in Bl!BlockNos /\ addr[NDIRECT] \notin data
    OBVIOUS
  <2>1. addr[NDIRECT] \in Bl!BlockNos
    <3>1. addr[NDIRECT] \in 0..NDATA
      BY <1>2, <1>4
    <3> QED BY <3>1, StorageAssumption DEF Bl!BlockNos
  <2>2. ASSUME NEW l \in Bl!SlotsOf(a, b) \ {NDIRECT} PROVE addr[l] # addr[NDIRECT]
    <3>1. l \in Bl!Slots /\ l # NDIRECT
      BY <1>3
    <3> QED BY <1>2, <1>4, <3>1
  <2> QED BY <1>5, <2>1, <2>2
<1>8. AddrIn(blInode', blDisk', i, k) = addr[k]
  <2>1. CASE k <= NDIRECT
    BY <1>1, <1>4, <2>1 DEF AddrIn
  <2>2. CASE k > NDIRECT /\ addr[NDIRECT] = 0
    <3>1. AddrIn(blInode', blDisk', i, k) = 0
      BY <1>1, <1>4, <2>2 DEF AddrIn
    <3>2. NDIRECT \notin m /\ Old(i, NDIRECT) = 0
      BY <1>2, <1>4, <2>2
    <3>3. k \notin Bl!SlotsOf(a, b)
      BY <1>3, <3>2, <2>2, IndirectLooked
    <3>4. Old(i, k) = 0
      BY <2>2, <3>2, AddrNow
    <3> QED BY <1>3, <3>1, <3>3, <3>4
  <2>3. CASE k > NDIRECT /\ addr[NDIRECT] # 0
    <3>1. AddrIn(blInode', blDisk', i, k) = blDisk'[addr[NDIRECT]][q]
      BY <1>1, <1>4, <2>3 DEF AddrIn
    <3>2. q \in 0..BytesPerBlock - 1 /\ NDIRECT + 1 + q = k
      BY <1>4, <2>3, SlotsAre, StorageAssumption
    <3> HIDE DEF q
    <3>3. CASE k \in Bl!SlotsOf(a, b)
      BY <1>6, <1>7, <2>3, <3>1, <3>2, <3>3
    <3>4. CASE k \notin Bl!SlotsOf(a, b)
      <4>1. addr[k] = Old(i, k)
        BY <1>3, <3>4
      <4>2. CASE NDIRECT \in m
        <5>1. Old(i, NDIRECT) = 0 /\ addr[NDIRECT] \in Fresh(addr, i, a, b)
          BY <1>2, <1>3, <1>4, <4>2
        <5>2. Old(i, k) = 0
          BY <5>1, <2>3, AddrNow
        <5> QED BY <1>6, <1>7, <2>3, <3>1, <3>2, <3>4, <4>1, <5>1, <5>2
      <4>3. CASE NDIRECT \notin m
        <5>1. addr[NDIRECT] = Old(i, NDIRECT) /\ addr[NDIRECT] \notin Fresh(addr, i, a, b)
          BY <1>2, <1>3, <1>4, <4>3
        <5>2. Old(i, k) = blDisk[addr[NDIRECT]][q]
          BY <5>1, <2>3, AddrNow DEF q
        <5> QED BY <1>6, <1>7, <2>3, <3>1, <3>2, <3>4, <4>1, <5>1, <5>2
      <4> QED BY <4>2, <4>3
    <3> QED BY <3>3, <3>4
  <2> QED BY <1>4, <2>1, <2>2, <2>3
<1>9. ASSUME NEW j \in Inums \ {i} PROVE AddrIn(blInode', blDisk', j, k) = Old(j, k)
  <2>1. blInode'[j] = blInode[j]
    BY <1>1
  <2>2. CASE k <= NDIRECT
    BY <2>1, <2>2 DEF AddrIn, Old
  <2>3. CASE k > NDIRECT /\ Old(j, NDIRECT) = 0
    <3>1. blInode[j].addrs[NDIRECT] = 0
      BY <1>4, <2>3 DEF AddrIn, Old
    <3> QED BY <1>4, <2>1, <2>3, <3>1 DEF AddrIn, Old
  <2>4. CASE k > NDIRECT /\ Old(j, NDIRECT) # 0
    <3>1. blInode[j].addrs[NDIRECT] = Old(j, NDIRECT)
      BY <1>4 DEF AddrIn, Old
    <3>2. AddrIn(blInode', blDisk', j, k) = blDisk'[Old(j, NDIRECT)][q]
      BY <1>4, <2>1, <2>4, <3>1 DEF AddrIn
    <3>3. Old(j, k) = blDisk[Old(j, NDIRECT)][q] /\ q \in 0..BytesPerBlock - 1
      BY <2>4, AddrNow
    <3>4. Old(j, NDIRECT) \in Bl!BlockNos
      <4>1. Old(j, NDIRECT) \in 0..NDATA
        BY <1>4, AddrNow
      <4> QED BY <4>1, <2>4, StorageAssumption DEF Bl!BlockNos
    <3>5. Old(j, NDIRECT) \notin data /\ Old(j, NDIRECT) # addr[NDIRECT]
      BY <1>2, <1>3, <1>4, <1>5, <2>4
    <3> HIDE DEF q
    <3> QED BY <1>6, <3>2, <3>3, <3>4, <3>5
  <2> QED BY <1>4, <2>2, <2>3, <2>4
<1> QED BY <1>8, <1>9

\* What Put() leaves of the invariant.
LEMMA PutKeeps ==
  ASSUME NEW i, NEW c, NEW a, NEW b, NEW addr, Putting(i, c, a, b, addr),
         a <= blInode[i].size, a <= b
  PROVE  /\ InodesTyped' /\ OneSlot(blInode', blDisk') /\ blBitmap' = InUse(blInode', blDisk')
         /\ SizesRight'
<1> DEFINE Now(j, k) == AddrIn(blInode', blDisk', j, k)
           m == Missing(i, a, b)
           z == blInode[i].size
           y == IF b > z THEN b ELSE z
<1>0. /\ StoreInv /\ i \in Inums /\ c \in Writers
      /\ a \in Nat /\ b \in Nat /\ b <= Bl!MAXFILE * BytesPerBlock
      /\ Placing(addr, i, a, b) /\ Bl!Put(i, c, a, b, addr)
  BY DEF Putting
<1>1. /\ m \in SUBSET Bl!Slots
      /\ \A l \in Bl!Slots : addr[l] \in 0..NDATA
      /\ \A l, h \in Bl!Slots : addr[l] # 0 /\ addr[l] = addr[h] => l = h
      /\ \A j \in Inums \ {i}, l, h \in Bl!Slots : addr[l] # 0 => addr[l] # Old(j, h)
      /\ \A l \in Bl!Slots : addr[l] # 0 <=> l \in m \/ Old(i, l) # 0
  <2> HIDE DEF m
  <2> QED BY <1>0, PutApart DEF m
<1>2. m = {l \in Bl!SlotsOf(a, b) : Old(i, l) = 0}
  BY AddrIs DEF Missing, Old
<1>3. /\ Bl!SlotsOf(a, b) \in SUBSET Bl!Slots
      /\ \A l \in Bl!Slots \ m : addr[l] = Old(i, l)
  BY <1>0, SlotsWithin DEF Placing
<1>4. \A k \in Bl!Slots : Now(i, k) = addr[k] /\ \A j \in Inums \ {i} : Now(j, k) = Old(j, k)
  <2> HIDE DEF m, z
  <2> QED BY PutAddr
<1>5. \A j \in Inums, k \in Bl!Slots : Old(j, k) \in 0..NDATA
  BY <1>0, AddrNow
<1>6. InodesTyped'
  <2>1. blInode' \in [Inums -> [addrs : [0..NDIRECT -> 0..NDATA], size : 0..Bl!MAXFILE * BytesPerBlock]]
    <3> HIDE DEF m, z
    <3> QED BY PutDoes
  <2>2. blDisk' \in [Bl!BlockNos -> [0..BytesPerBlock - 1 -> Cells]]
    <3> HIDE DEF m, z
    <3> QED BY PutBlocks
  <2>3. \A j \in Inums, k \in Bl!Slots : Now(j, k) \in 0..NDATA
    <3> HIDE DEF Now, m
    <3> QED BY <1>1, <1>4, <1>5
  <2> QED BY <2>1, <2>2, <2>3 DEF InodesTyped, Bl!BlockNos, Bl!Slots, Bl!MAXFILE, Cells
<1>7. \A j, h \in Inums, k, l \in Bl!Slots : Old(j, k) # 0 /\ Old(j, k) = Old(h, l) => j = h /\ k = l
  BY <1>0 DEF StoreInv, OneSlot, Old
<1>8. OneSlot(blInode', blDisk')
  <2> HIDE DEF Now, m
  <2>1. \A j, h \in Inums, k, l \in Bl!Slots : Now(j, k) # 0 /\ Now(j, k) = Now(h, l) => j = h /\ k = l
    <3> SUFFICES ASSUME NEW j \in Inums, NEW h \in Inums, NEW k \in Bl!Slots, NEW l \in Bl!Slots,
                        Now(j, k) # 0, Now(j, k) = Now(h, l)
                 PROVE  j = h /\ k = l
      OBVIOUS
    <3>1. CASE j = i /\ h = i
      BY <1>1, <1>4, <3>1
    <3>2. CASE j = i /\ h # i
      BY <1>1, <1>4, <3>2
    <3>3. CASE j # i /\ h = i
      BY <1>1, <1>4, <3>3
    <3>4. CASE j # i /\ h # i
      BY <1>4, <1>7, <3>4
    <3> QED BY <3>1, <3>2, <3>3, <3>4
  <2> QED BY <2>1 DEF OneSlot, Now
<1>9. blBitmap' = InUse(blInode', blDisk')
  <2>1. blBitmap' = blBitmap \cup Fresh(addr, i, a, b)
    <3> HIDE DEF m, z
    <3> QED BY PutDoes
  <2>2. blBitmap = {x \in Bl!BlockNos : \E j \in Inums, k \in Bl!Slots : Old(j, k) = x}
    BY <1>0 DEF StoreInv, InUse, Old
  <2>3. Fresh(addr, i, a, b) = {addr[k] : k \in m}
    BY DEF Fresh
  <2>4. \A l \in m : addr[l] \in Bl!BlockNos
    BY <1>0 DEF Placing
  <2> HIDE DEF Now, m
  <2>5. ASSUME NEW x \in Bl!BlockNos
        PROVE  x \in blBitmap' <=> \E j \in Inums, k \in Bl!Slots : Now(j, k) = x
    <3>0. x # 0
      BY DEF Bl!BlockNos
    <3>1. ASSUME NEW k \in m, addr[k] = x PROVE \E j \in Inums, l \in Bl!Slots : Now(j, l) = x
      BY <1>0, <1>1, <1>4, <3>1
    <3>2. ASSUME NEW j \in Inums, NEW k \in Bl!Slots, Old(j, k) = x
          PROVE  \E h \in Inums, l \in Bl!Slots : Now(h, l) = x
      <4>1. k \notin m \/ j # i
        BY <1>2, <3>0, <3>2
      <4>2. Now(j, k) = x
        BY <1>3, <1>4, <3>2, <4>1
      <4> QED BY <4>2
    <3>3. ASSUME NEW j \in Inums, NEW k \in Bl!Slots, Now(j, k) = x
          PROVE  x \in blBitmap'
      <4>1. CASE j # i
        BY <1>4, <2>1, <2>2, <3>3, <4>1
      <4>2. CASE j = i /\ k \in m
        BY <1>4, <2>1, <2>3, <3>3, <4>2
      <4>3. CASE j = i /\ k \notin m
        BY <1>3, <1>4, <2>1, <2>2, <3>3, <4>3
      <4> QED BY <4>1, <4>2, <4>3
    <3> QED BY <2>1, <2>2, <2>3, <3>1, <3>2, <3>3
  <2>6. blBitmap' \subseteq Bl!BlockNos
    BY <2>1, <2>2, <2>3, <2>4
  <2> QED BY <2>5, <2>6 DEF InUse, Now
<1>10. SizesRight'
  <2>1. \A j \in Inums : {k \in Bl!Slots : Old(j, k) # 0} = Bl!SlotsOf(0, blInode[j].size)
    BY <1>0 DEF StoreInv, SizesRight, Old
  <2>2. /\ blInode'[i].size = y
        /\ \A j \in Inums \ {i} : blInode'[j] = blInode[j]
    <3> HIDE DEF m
    <3> QED BY PutDoes
  <2>3. z \in Nat
    <3>1. blInode[i].size \in 0..Bl!MAXFILE * BytesPerBlock
      BY <1>0 DEF StoreInv, InodesTyped
    <3> QED BY <3>1, SlotsAre
  <2>4. Bl!SlotsOf(0, z) \cup Bl!SlotsOf(a, b) = Bl!SlotsOf(0, y)
    <3> HIDE DEF m
    <3>1. a <= z
      OBVIOUS
    <3> HIDE DEF z
    <3> QED BY <1>0, <2>3, <3>1, SlotsGrow
  <2> HIDE DEF Now, m, z, y
  <2>5. {k \in Bl!Slots : Now(i, k) # 0} = Bl!SlotsOf(0, y)
    <3>1. ASSUME NEW k \in Bl!Slots PROVE Now(i, k) # 0 <=> k \in Bl!SlotsOf(0, z) \cup Bl!SlotsOf(a, b)
      <4>1. Now(i, k) # 0 <=> k \in m \/ Old(i, k) # 0
        BY <1>1, <1>4
      <4>2. k \in Bl!SlotsOf(0, z) <=> Old(i, k) # 0
        BY <1>0, <2>1 DEF z
      <4> QED BY <1>2, <4>1, <4>2
    <3>2. Bl!SlotsOf(0, z) \in SUBSET Bl!Slots
      BY <1>0, <2>1 DEF z
    <3> QED BY <1>3, <2>4, <3>1, <3>2
  <2>6. ASSUME NEW j \in Inums \ {i} PROVE {k \in Bl!Slots : Now(j, k) # 0} = Bl!SlotsOf(0, blInode'[j].size)
    BY <1>4, <2>1, <2>2
  <2>7. \A j \in Inums : {k \in Bl!Slots : Now(j, k) # 0} = Bl!SlotsOf(0, blInode'[j].size)
    BY <1>0, <2>2, <2>5, <2>6
  <2> QED BY <2>7 DEF SizesRight, Now, Bl!Slots, Bl!SlotsOf, Bl!Slot, Bl!MAXFILE
<1> QED BY <1>6, <1>8, <1>9, <1>10

-----------------------------------------------------------------------------
(* What a transaction of write() changes.                                  *)

LEMMA Interval ==
  ASSUME NEW x \in Int, NEW y \in Int, NEW n \in Nat, y < x + n
  PROVE  IsFiniteSet(x..y) /\ Cardinality(x..y) <= n
<1>1. IsFiniteSet(x..y) /\ Cardinality(x..y) = IF x > y THEN 0 ELSE y - x + 1
  BY FS_Interval
<1> QED BY <1>1

\* The slots of some blocks of a file, and the indirect one.
LEMMA SlotsOfBlocks ==
  ASSUME NEW x \in Nat, NEW y \in Int, NEW n \in Nat, y < x + n
  PROVE  LET S == {Bl!Slot(q) : q \in x..y} \cup {NDIRECT} IN
         IsFiniteSet(S) /\ Cardinality(S) <= n + 1
<1> DEFINE D == x..y
           f == [q \in D |-> Bl!Slot(q)]
           T == {f[q] : q \in D}
<1>1. IsFiniteSet(D) /\ Cardinality(D) <= n /\ Cardinality(D) \in Nat
  <2>1. IsFiniteSet(D) /\ Cardinality(D) <= n
    <3>1. x \in Int
      OBVIOUS
    <3> QED BY <3>1, Interval
  <2> HIDE DEF D
  <2> QED BY <2>1, FS_CardinalityType
<1>2. IsFiniteSet(T) /\ Cardinality(T) \in Nat /\ Cardinality(T) <= Cardinality(D)
  <2> HIDE DEF f, D
  <2> QED BY <1>1, ImageSmall
<1>3. T = {Bl!Slot(q) : q \in x..y}
  OBVIOUS
<1> HIDE DEF T, D
<1>4. IsFiniteSet(T \cup {NDIRECT}) /\ Cardinality(T \cup {NDIRECT}) <= Cardinality(T) + 1
      /\ Cardinality(T \cup {NDIRECT}) \in Nat
  <2>1. /\ IsFiniteSet(T \cup {NDIRECT})
        /\ Cardinality(T \cup {NDIRECT}) = Cardinality(T) \/ Cardinality(T \cup {NDIRECT}) = Cardinality(T) + 1
    BY <1>2, FS_AddElement
  <2> QED BY <1>2, <2>1
<1>5. Cardinality(T \cup {NDIRECT}) <= n + 1
  BY <1>1, <1>2, <1>4
<1> QED BY <1>3, <1>4, <1>5 DEF D

\* The blocks of at most n blocks' worth of bytes: those from the first on are one more,
\* unless it starts with a byte of the first.
LEMMA SlotsFew ==
  ASSUME NEW a \in Nat, NEW b \in Nat, NEW n \in Nat, a < b, b - a <= n * BytesPerBlock
  PROVE  LET first == a \div BytesPerBlock
             rest == Bl!SlotsOf(a, b) \ {Bl!Slot(first)} IN
         /\ first \in Nat
         /\ IsFiniteSet(Bl!SlotsOf(a, b))
         /\ Cardinality(Bl!SlotsOf(a, b)) <= n + 2
         /\ a % BytesPerBlock = 0 => Cardinality(Bl!SlotsOf(a, b)) <= n + 1
         /\ Cardinality(rest) <= n + 1
<1> DEFINE w == BytesPerBlock
           first == a \div w
           last == (b - 1) \div w
           all == Bl!SlotsOf(a, b)
<1>1. w \in Nat \ {0}
  BY SlotsAre
<1> HIDE DEF w
<1>2. /\ first \in Nat /\ last \in Nat /\ a % w \in 0..w - 1
      /\ a = (w * first) + (a % w)
  <2>1. b - 1 \in Nat
    OBVIOUS
  <2> QED BY <1>1, <2>1, Division
<1>3. first + 1 \in Nat /\ (w * (first + 1)) = (w * first) + w /\ a < w * (first + 1)
  <2> HIDE DEF first
  <2>1. (w * (first + 1)) = (w * first) + w
    BY <1>1, <1>2, SMT
  <2> DEFINE u == w * first
             v == w * (first + 1)
  <2>2. u \in Nat /\ v \in Nat /\ v = u + w
    BY <1>1, <1>2, <2>1
  <2>3. a = u + (a % w) /\ a % w \in 0..w - 1
    BY <1>2
  <2> DEFINE r == a % w
  <2> HIDE DEF u, v, r
  <2>4. a < v
    BY <2>2, <2>3, <1>1 DEF r
  <2> QED BY <1>2, <2>1, <2>4 DEF v
<1>4. last < first + 1 + n
  <2>1. b - 1 < (first + 1 + n) * w
    <3> HIDE DEF first, last
    <3>1. (first + 1 + n) * w = (w * (first + 1)) + (n * w)
      BY <1>1, <1>2, SMT
    <3> DEFINE u == w * (first + 1)
               v == n * w
    <3>2. u \in Nat /\ v \in Nat
      BY <1>1, <1>3
    <3>3. a < u /\ b - a <= v
      BY <1>3 DEF w
    <3> HIDE DEF u, v
    <3>4. b - 1 < u + v
      BY <3>2, <3>3
    <3> QED BY <3>1, <3>4 DEF u, v
  <2>2. first + 1 + n \in Nat /\ b - 1 \in Nat
    BY <1>2
  <2> DEFINE e == first + 1 + n
  <2> HIDE DEF e, first
  <2>3. last \in 0..e - 1
    BY <1>1, <2>1, <2>2, BlockOfByte DEF e
  <2> QED BY <1>2, <2>2, <2>3 DEF e
<1>5. ASSUME a % w = 0 PROVE last < first + n
  <2>0. a = w * first
    <3> DEFINE u == w * first
               r == a % w
    <3>1. u \in Nat /\ a = u + r /\ r = 0
      BY <1>1, <1>2, <1>5
    <3> HIDE DEF u, r
    <3>2. a = u
      BY <3>1
    <3> QED BY <3>2 DEF u
  <2>1. b - 1 < (first + n) * w
    <3> HIDE DEF first, last
    <3>1. (first + n) * w = (w * first) + (n * w)
      BY <1>1, <1>2, SMT
    <3> DEFINE u == w * first
               v == n * w
    <3>2. u \in Nat /\ v \in Nat
      BY <1>1, <1>2
    <3>3. a = u /\ b - a <= v
      BY <2>0 DEF w
    <3> HIDE DEF u, v
    <3>4. b - 1 < u + v
      BY <3>2, <3>3
    <3> QED BY <3>1, <3>4 DEF u, v
  <2>2. first + n \in Nat /\ b - 1 \in Nat
    BY <1>2
  <2> DEFINE e == first + n
  <2> HIDE DEF e, first
  <2>3. last \in 0..e - 1
    BY <1>1, <2>1, <2>2, BlockOfByte DEF e
  <2> QED BY <1>2, <2>2, <2>3 DEF e
<1>6. \A x \in a..b - 1 : x \div w \in first..last
  <2> SUFFICES ASSUME NEW x \in a..b - 1 PROVE x \div w \in first..last
    OBVIOUS
  <2>1. x \in Nat /\ a <= x /\ x <= b - 1 /\ b - 1 \in Nat
    OBVIOUS
  <2>2. x \div w \in Nat /\ first <= x \div w
    BY <1>1, <2>1, DivisionGrows
  <2> DEFINE e == b - 1
             l == e \div w
  <2>3. l = last
    OBVIOUS
  <2> HIDE DEF e, last
  <2>4. x \div w <= l
    BY <1>1, <2>1, DivisionGrows DEF e
  <2> QED BY <1>2, <2>2, <2>3, <2>4
<1>7. all \subseteq {Bl!Slot(q) : q \in first..last} \cup {NDIRECT}
  <2> SUFFICES ASSUME NEW s \in all PROVE s \in {Bl!Slot(q) : q \in first..last} \cup {NDIRECT}
    OBVIOUS
  <2>1. PICK x \in a..b - 1 : s = Bl!Slot(x \div w) \/ s = NDIRECT
    BY SlotsOfAre DEF w
  <2> HIDE DEF first, last
  <2> QED BY <1>6, <2>1
<1>8. IsFiniteSet(all) /\ Cardinality(all) <= n + 2 /\ (a % w = 0 => Cardinality(all) <= n + 1)
  <2> DEFINE S == {Bl!Slot(q) : q \in first..last} \cup {NDIRECT}
  <2>0. last \in Int /\ first \in Nat /\ n + 1 \in Nat /\ last < first + (n + 1)
    <3> HIDE DEF first, last
    <3> QED BY <1>2, <1>4
  <2>1. IsFiniteSet(S) /\ Cardinality(S) <= (n + 1) + 1
    <3> HIDE DEF first, last
    <3> QED BY <2>0, SlotsOfBlocks
  <2>2. ASSUME a % w = 0 PROVE Cardinality(S) <= n + 1
    <3>1. last < first + n
      BY <2>2, <1>5
    <3> HIDE DEF first, last
    <3> QED BY <2>0, <3>1, SlotsOfBlocks
  <2>3. IsFiniteSet(all) /\ Cardinality(all) <= Cardinality(S) /\ Cardinality(all) \in Nat /\ Cardinality(S) \in Nat
    <3> HIDE DEF S, all
    <3> QED BY <1>7, <2>1, FS_Subset, FS_CardinalityType DEF S
  <2> HIDE DEF S, all, first, last
  <2> QED BY <2>1, <2>2, <2>3
<1>9. Cardinality(all \ {Bl!Slot(first)}) <= n + 1
  <2> DEFINE S == {Bl!Slot(q) : q \in first + 1..last} \cup {NDIRECT}
             rest == all \ {Bl!Slot(first)}
  <2>0. last \in Int /\ first + 1 \in Nat /\ last < (first + 1) + n
    <3> HIDE DEF first, last
    <3> QED BY <1>2, <1>4
  <2>1. IsFiniteSet(S) /\ Cardinality(S) <= n + 1
    <3> HIDE DEF first, last
    <3> QED BY <2>0, SlotsOfBlocks
  <2>2. rest \subseteq S
    <3> SUFFICES ASSUME NEW s \in rest PROVE s \in S
      OBVIOUS
    <3>1. s = NDIRECT \/ \E q \in first..last : s = Bl!Slot(q) /\ q # first
      <4> HIDE DEF first, last
      <4> QED BY <1>7
    <3> HIDE DEF first, last
    <3>2. \A q \in first..last : q # first => q \in first + 1..last
      BY <1>2
    <3> QED BY <3>1, <3>2
  <2>3. Cardinality(rest) <= Cardinality(S) /\ Cardinality(rest) \in Nat /\ Cardinality(S) \in Nat
    <3> HIDE DEF S, rest
    <3> QED BY <2>1, <2>2, FS_Subset, FS_CardinalityType
  <2> HIDE DEF S, rest
  <2>4. Cardinality(rest) <= n + 1
    BY <2>1, <2>3
  <2> QED BY <2>4 DEF rest
<1> QED BY <1>2, <1>8, <1>9 DEF w

\* In the block of a byte that is not its first there is one before it.
LEMMA ByteBefore ==
  ASSUME NEW a \in Nat, NEW z \in Nat, a <= z, a % BytesPerBlock # 0
  PROVE  \E x \in 0..z - 1 : x \div BytesPerBlock = a \div BytesPerBlock
<1> DEFINE w == BytesPerBlock
           q == a \div w
           r == a % w
           u == w * q
<1>1. w \in Nat \ {0}
  BY SlotsAre
<1>2. q \in Nat /\ r \in 0..w - 1 /\ a = u + r /\ r # 0
  BY <1>1, Division
<1>3. u \in Nat
  BY <1>1, <1>2
<1>4. u \div w = q
  <2> HIDE DEF w, q
  <2>1. q \in Nat
    BY <1>2
  <2> QED BY <1>1, <2>1, SMT
<1>5. u \in 0..z - 1
  <2> HIDE DEF u, r, q, w
  <2> QED BY <1>1, <1>2, <1>3
<1> QED BY <1>4, <1>5

\* A set that is as big as another at most.
LEMMA Smaller ==
  ASSUME NEW S, IsFiniteSet(S), NEW T \in SUBSET S, NEW n \in Nat, Cardinality(S) <= n
  PROVE  IsFiniteSet(T) /\ Cardinality(T) <= n /\ Cardinality(T) \in Nat
BY FS_Subset, FS_CardinalityType

LEMMA Together ==
  ASSUME NEW S, IsFiniteSet(S), NEW T, IsFiniteSet(T), NEW m \in Nat, Cardinality(S) <= m,
         NEW n \in Nat, Cardinality(T) <= n
  PROVE  IsFiniteSet(S \cup T) /\ Cardinality(S \cup T) <= m + n
<1>1. /\ Cardinality(S) \in Nat /\ Cardinality(T) \in Nat /\ Cardinality(S \cap T) \in Nat
      /\ IsFiniteSet(S \cup T)
      /\ Cardinality(S \cup T) = Cardinality(S) + Cardinality(T) - Cardinality(S \cap T)
  BY FS_Union, FS_Intersection, FS_CardinalityType
<1> QED BY <1>1

\* The blocks of the bitmap, and the blocks, that n slots have.
LEMMA BlocksOfSlots ==
  ASSUME NEW addr, NEW S, IsFiniteSet(S), NEW n \in Nat, Cardinality(S) <= n
  PROVE  LET B == {addr[k] : k \in S} IN
         /\ IsFiniteSet(Bl!BitmapBlocks(B)) /\ Cardinality(Bl!BitmapBlocks(B)) <= n
         /\ IsFiniteSet(Bl!DataBlocks(B)) /\ Cardinality(Bl!DataBlocks(B)) <= n
<1> DEFINE f == [k \in S |-> <<"bitmap", addr[k] \div BPB>>]
           g == [k \in S |-> <<"block", addr[k]>>]
           B == {addr[k] : k \in S}
           F == {f[k] : k \in S}
           G == {g[k] : k \in S}
<1>0. Cardinality(S) \in Nat
  BY FS_CardinalityType
<1>1. Bl!BitmapBlocks(B) = F /\ Bl!DataBlocks(B) = G
  BY DEF Bl!BitmapBlocks, Bl!DataBlocks
<1> HIDE DEF f, g, B
<1>2. IsFiniteSet(F) /\ Cardinality(F) <= Cardinality(S) /\ Cardinality(F) \in Nat
  BY ImageSmall
<1>3. IsFiniteSet(G) /\ Cardinality(G) <= Cardinality(S) /\ Cardinality(G) \in Nat
  BY ImageSmall
<1> HIDE DEF F, G
<1> QED BY <1>0, <1>1, <1>2, <1>3 DEF B

LEMMA PutFits ==
  ASSUME NEW i, NEW c, NEW a, NEW b, NEW addr, Putting(i, c, a, b, addr),
         a <= blInode[i].size, a < b, b - a <= ((OPBLOCKS - 1 - 1 - 2) \div 2) * BytesPerBlock
  PROVE  Cardinality(blLogged') <= OPBLOCKS
<1> DEFINE n == (OPBLOCKS - 1 - 1 - 2) \div 2
           all == Bl!SlotsOf(a, b)
           m == Missing(i, a, b)
           first == a \div BytesPerBlock
           entries == {k \in all : k > NDIRECT}
           fresh == Fresh(addr, i, a, b)
           data == Bl!Touched(addr, a, b)
           B == {addr[k] : k \in all}
           grown == b > blInode[i].size
<1>0. /\ StoreInv /\ i \in Inums /\ c \in Writers
      /\ a \in Nat /\ b \in Nat /\ b <= Bl!MAXFILE * BytesPerBlock
      /\ Placing(addr, i, a, b) /\ Bl!Put(i, c, a, b, addr)
  BY DEF Putting
<1>1. n \in Nat /\ n + n + 4 <= OPBLOCKS
  BY StorageAssumption
<1>2. /\ first \in Nat
      /\ IsFiniteSet(all) /\ Cardinality(all) <= n + 2
      /\ a % BytesPerBlock = 0 => Cardinality(all) <= n + 1
      /\ Cardinality(all \ {Bl!Slot(first)}) <= n + 1
  <2>1. b - a <= n * BytesPerBlock
    OBVIOUS
  <2> HIDE DEF n
  <2> QED BY <1>0, <1>1, <2>1, SlotsFew
<1>3. m = {k \in all : Old(i, k) = 0} /\ all \in SUBSET Bl!Slots
  BY <1>0, SlotsWithin, AddrIs DEF Missing, Old
<1>4. ASSUME a % BytesPerBlock # 0 PROVE Bl!Slot(first) \notin m
  <2>1. blInode[i].size \in Nat
    <3>1. blInode[i].size \in 0..Bl!MAXFILE * BytesPerBlock
      BY <1>0 DEF StoreInv, InodesTyped
    <3> QED BY <3>1, SlotsAre
  <2>2. PICK x \in 0..blInode[i].size - 1 : x \div BytesPerBlock = first
    BY <1>0, <1>4, <2>1, ByteBefore
  <2>3. Bl!Slot(first) \in Bl!SlotsOf(0, blInode[i].size)
    <3> HIDE DEF first
    <3> QED BY <2>2, SlotsOfAre
  <2>4. {k \in Bl!Slots : Old(i, k) # 0} = Bl!SlotsOf(0, blInode[i].size)
    BY <1>0 DEF StoreInv, SizesRight, Old
  <2> HIDE DEF m, first
  <2> QED BY <1>3, <2>3, <2>4
<1>5. IsFiniteSet(m) /\ Cardinality(m) <= n + 1 /\ (a % BytesPerBlock = 0 => Cardinality(all) <= n + 1)
  <2> HIDE DEF m, all, n
  <2>1. CASE a % BytesPerBlock = 0
    <3>1. m \in SUBSET all /\ n + 1 \in Nat
      BY <1>1, <1>3
    <3> QED BY <1>2, <2>1, <3>1, Smaller
  <2>2. CASE a % BytesPerBlock # 0
    <3>1. m \in SUBSET (all \ {Bl!Slot(first)}) /\ n + 1 \in Nat
      BY <1>1, <1>3, <1>4, <2>2
    <3>2. IsFiniteSet(all \ {Bl!Slot(first)})
      BY <1>2, FS_Subset
    <3> QED BY <1>2, <2>2, <3>1, <3>2, Smaller
  <2> QED BY <2>1, <2>2
<1>6. /\ IsFiniteSet(Bl!BitmapBlocks(fresh)) /\ Cardinality(Bl!BitmapBlocks(fresh)) <= n + 1
      /\ IsFiniteSet(Bl!DataBlocks(B)) /\ Cardinality(Bl!DataBlocks(B)) <= n + 2
  <2>1. fresh = {addr[k] : k \in m}
    BY DEF Fresh
  <2>2. n + 1 \in Nat /\ n + 2 \in Nat
    BY <1>1
  <2> HIDE DEF m, all, n, fresh
  <2>3. IsFiniteSet(Bl!BitmapBlocks(fresh)) /\ Cardinality(Bl!BitmapBlocks(fresh)) <= n + 1
    BY <1>5, <2>1, <2>2, BlocksOfSlots
  <2>4. IsFiniteSet(Bl!DataBlocks(B)) /\ Cardinality(Bl!DataBlocks(B)) <= n + 2
    BY <1>2, <2>2, BlocksOfSlots
  <2> QED BY <2>3, <2>4
<1>7. blLogged' \subseteq (Bl!BitmapBlocks(fresh) \cup Bl!DataBlocks(B)) \cup {<<"inode", i>>}
  <2>1. blLogged' = Bl!BitmapBlocks(fresh) \cup Bl!DataBlocks(fresh \cup data)
                      \cup (IF m \cap entries # {} THEN Bl!DataBlocks({addr[NDIRECT]}) ELSE {})
                      \cup (IF grown THEN {<<"inode", i>>} ELSE {})
    BY <1>0 DEF Bl!Put, Fresh, Missing
  <2>2. fresh \cup data \subseteq B
    BY DEF Fresh, Missing, Bl!Touched
  <2>3. m \cap entries # {} => addr[NDIRECT] \in B
    <3> SUFFICES ASSUME NEW k \in all, k > NDIRECT PROVE addr[NDIRECT] \in B
      BY <1>3
    <3>1. NDIRECT \in all
      BY <1>0, IndirectLooked
    <3> QED BY <3>1
  <2> HIDE DEF m, entries, fresh, data, B, all, grown
  <2>4. Bl!DataBlocks(fresh \cup data) \subseteq Bl!DataBlocks(B)
    BY <2>2 DEF Bl!DataBlocks
  <2>5. m \cap entries # {} => Bl!DataBlocks({addr[NDIRECT]}) \subseteq Bl!DataBlocks(B)
    BY <2>3 DEF Bl!DataBlocks
  <2> QED BY <2>1, <2>4, <2>5
<1>8. LET T == (Bl!BitmapBlocks(fresh) \cup Bl!DataBlocks(B)) \cup {<<"inode", i>>} IN
      IsFiniteSet(T) /\ Cardinality(T) <= OPBLOCKS
  <2> HIDE DEF n, fresh, B
  <2> DEFINE U == Bl!BitmapBlocks(fresh) \cup Bl!DataBlocks(B)
             one == {<<"inode", i>>}
  <2>1. n + 1 \in Nat /\ n + 2 \in Nat /\ (n + 1) + (n + 2) \in Nat /\ OPBLOCKS \in Nat
    BY <1>1, StorageAssumption
  <2>2. IsFiniteSet(U) /\ Cardinality(U) <= (n + 1) + (n + 2)
    BY <1>6, <2>1, Together
  <2>3. IsFiniteSet(one) /\ Cardinality(one) <= 1 /\ 1 \in Nat
    <3>1. IsFiniteSet(one) /\ Cardinality(one) = 1
      BY FS_Singleton, Zenon
    <3> HIDE DEF one
    <3> QED BY <3>1
  <2> DEFINE M == (n + 1) + (n + 2)
  <2> HIDE DEF U, one, M
  <2>4. IsFiniteSet(U \cup one) /\ Cardinality(U \cup one) <= M + 1
    <3>1. M \in Nat /\ Cardinality(U) <= M
      BY <2>1, <2>2 DEF M
    <3> QED BY <2>2, <2>3, <3>1, Together
  <2>5. Cardinality(U \cup one) \in Nat
    BY <2>4, FS_CardinalityType
  <2>6. Cardinality(U \cup one) <= OPBLOCKS
    BY <1>1, <2>1, <2>4, <2>5 DEF M
  <2> QED BY <2>4, <2>6 DEF U, one
<1> HIDE DEF fresh, B, n
<1>9. OPBLOCKS \in Nat
  BY StorageAssumption
<1> QED BY <1>7, <1>8, <1>9, Smaller

-----------------------------------------------------------------------------
(* The last iput(), and what a step does to the rest.                      *)

\* The address of every block a file has is in use.
LEMMA AddressesInUse ==
  ASSUME StoreInv, NEW j \in Inums, NEW k \in Bl!Slots, Old(j, k) # 0
  PROVE  Old(j, k) \in blBitmap
<1>1. Old(j, k) \in 0..NDATA
  BY AddrNow
<1>2. Old(j, k) \in Bl!BlockNos
  BY <1>1, StorageAssumption DEF Bl!BlockNos
<1> QED BY <1>2 DEF StoreInv, InUse, Old

LEMMA ItruncKeeps ==
  ASSUME StoreInv, NEW i \in Inums, Bl!Itrunc(i), blDisk' = blDisk
  PROVE  /\ InodesTyped' /\ OneSlot(blInode', blDisk') /\ blBitmap' = InUse(blInode', blDisk')
         /\ SizesRight'
         /\ blPanicked' = blPanicked
         /\ blInode'[i].size = 0 /\ \A j \in Inums \ {i} : blInode'[j] = blInode[j]
         /\ \A j \in Inums \ {i}, k \in Bl!Slots : AddrIn(blInode', blDisk', j, k) = Old(j, k)
<1> DEFINE B == {Bl!Addr(i, k) : k \in Bl!Slots} \ {0}
           e == [addrs |-> [k \in 0..NDIRECT |-> 0], size |-> 0]
           Now(j, k) == AddrIn(blInode', blDisk', j, k)
<1>1. B = {Old(i, k) : k \in Bl!Slots} \ {0}
  BY AddrIs DEF Old
<1>2. B \subseteq blBitmap
  BY <1>1, AddressesInUse
<1>3. blBitmap' = blBitmap \ B /\ blInode' = [blInode EXCEPT ![i] = e] /\ blPanicked' = blPanicked
  BY <1>2 DEF Bl!Itrunc
<1>4. e \in [addrs : [0..NDIRECT -> 0..NDATA], size : 0..Bl!MAXFILE * BytesPerBlock]
  <2>1. 0 \in 0..Bl!MAXFILE * BytesPerBlock /\ 0 \in 0..NDATA
    BY SlotsAre, StorageAssumption
  <2> QED BY <2>1
<1>5. /\ blInode' \in [Inums -> [addrs : [0..NDIRECT -> 0..NDATA], size : 0..Bl!MAXFILE * BytesPerBlock]]
      /\ blInode'[i] = e /\ \A j \in Inums \ {i} : blInode'[j] = blInode[j]
  <2> HIDE DEF e
  <2> QED BY <1>3, <1>4 DEF StoreInv, InodesTyped
<1>6. \A k \in Bl!Slots : Now(i, k) = 0 /\ \A j \in Inums \ {i} : Now(j, k) = Old(j, k)
  <2>1. NDIRECT \in 0..NDIRECT /\ Bl!Slots \subseteq Nat /\ NDIRECT \in Nat
    BY SlotsAre
  <2> QED BY <1>5, <2>1 DEF AddrIn, Old
<1>7. \A j \in Inums, k \in Bl!Slots : Old(j, k) \in 0..NDATA
  BY AddrNow
<1>8. InodesTyped'
  <2>1. \A j \in Inums, k \in Bl!Slots : Now(j, k) \in 0..NDATA
    <3>1. 0 \in 0..NDATA
      BY StorageAssumption
    <3> HIDE DEF Now
    <3> QED BY <1>6, <1>7, <3>1
  <2>2. blDisk' \in [Bl!BlockNos -> [0..BytesPerBlock - 1 -> Cells]]
    BY DEF StoreInv, InodesTyped
  <2> QED BY <1>5, <2>1, <2>2 DEF InodesTyped, Bl!BlockNos, Bl!Slots, Bl!MAXFILE, Cells
<1>9. \A j, h \in Inums, k, l \in Bl!Slots : Old(j, k) # 0 /\ Old(j, k) = Old(h, l) => j = h /\ k = l
  BY DEF StoreInv, OneSlot, Old
<1>10. OneSlot(blInode', blDisk')
  <2> HIDE DEF Now
  <2>1. \A j, h \in Inums, k, l \in Bl!Slots : Now(j, k) # 0 /\ Now(j, k) = Now(h, l) => j = h /\ k = l
    BY <1>6, <1>9
  <2> QED BY <2>1 DEF OneSlot, Now
<1>11. blBitmap' = InUse(blInode', blDisk')
  <2>1. blBitmap = {x \in Bl!BlockNos : \E j \in Inums, k \in Bl!Slots : Old(j, k) = x}
    BY DEF StoreInv, InUse, Old
  <2> HIDE DEF Now, B
  <2>2. ASSUME NEW x \in Bl!BlockNos
        PROVE  x \in blBitmap' <=> \E j \in Inums, k \in Bl!Slots : Now(j, k) = x
    <3>0. x # 0
      BY DEF Bl!BlockNos
    <3>1. ASSUME NEW j \in Inums, NEW k \in Bl!Slots, Now(j, k) = x PROVE x \in blBitmap'
      <4>1. j # i /\ Old(j, k) = x
        BY <1>6, <3>0, <3>1
      <4>2. x \notin B
        BY <1>1, <1>9, <3>0, <4>1
      <4> QED BY <1>3, <2>1, <4>1, <4>2
    <3>2. ASSUME x \in blBitmap' PROVE \E j \in Inums, k \in Bl!Slots : Now(j, k) = x
      <4>1. PICK j \in Inums, k \in Bl!Slots : Old(j, k) = x
        BY <1>3, <2>1, <3>2
      <4>2. j # i
        BY <1>1, <1>3, <3>0, <3>2, <4>1
      <4> QED BY <1>6, <4>1, <4>2
    <3> QED BY <3>1, <3>2
  <2>3. blBitmap' \subseteq Bl!BlockNos
    BY <1>3, <2>1
  <2> QED BY <2>2, <2>3 DEF InUse, Now
<1>12. SizesRight'
  <2>1. \A j \in Inums : {k \in Bl!Slots : Old(j, k) # 0} = Bl!SlotsOf(0, blInode[j].size)
    BY DEF StoreInv, SizesRight, Old
  <2>2. Bl!SlotsOf(0, 0) = {}
    BY SlotsOfAre
  <2> HIDE DEF Now
  <2>3. {k \in Bl!Slots : Now(i, k) # 0} = Bl!SlotsOf(0, blInode'[i].size)
    BY <1>5, <1>6, <2>2
  <2>4. ASSUME NEW j \in Inums \ {i} PROVE {k \in Bl!Slots : Now(j, k) # 0} = Bl!SlotsOf(0, blInode'[j].size)
    BY <1>5, <1>6, <2>1
  <2>5. \A j \in Inums : {k \in Bl!Slots : Now(j, k) # 0} = Bl!SlotsOf(0, blInode'[j].size)
    BY <2>3, <2>4
  <2> QED BY <2>5 DEF SizesRight, Now, Bl!Slots, Bl!SlotsOf, Bl!Slot, Bl!MAXFILE
<1> QED BY <1>3, <1>5, <1>6, <1>8, <1>10, <1>11, <1>12

\* It changes the bitmap at most in every block of it.
LEMMA ItruncFits ==
  ASSUME StoreInv, NEW i \in Inums, Bl!Itrunc(i)
  PROVE  Cardinality(blLogged') <= OPBLOCKS
<1> DEFINE n == NDATA \div BPB
           B == {Bl!Addr(i, k) : k \in Bl!Slots} \ {0}
           g == [q \in 0..n |-> <<"bitmap", q>>]
           G == {g[q] : q \in 0..n}
           one == {<<"inode", i>>}
<1>1. n \in Nat /\ n + 2 <= OPBLOCKS /\ OPBLOCKS \in Nat
  <2>1. NDATA \in Nat /\ BPB \in Nat \ {0}
    BY StorageAssumption
  <2>2. n \in Nat
    BY <2>1, Division
  <2> QED BY <2>2, StorageAssumption
<1>2. B \in SUBSET Bl!BlockNos /\ B \subseteq blBitmap
  <2>1. B = {Old(i, k) : k \in Bl!Slots} \ {0}
    BY AddrIs DEF Old
  <2>2. B \subseteq blBitmap
    BY <2>1, AddressesInUse
  <2> QED BY <2>2 DEF StoreInv, InUse
<1>3. blLogged' = Bl!BitmapBlocks(B) \cup one
  BY <1>2 DEF Bl!Itrunc
<1>4. Bl!BitmapBlocks(B) \subseteq G
  <2> HIDE DEF B
  <2> SUFFICES ASSUME NEW x \in B PROVE x \div BPB \in 0..n
    BY DEF Bl!BitmapBlocks
  <2>1. x \in Nat /\ NDATA \in Nat /\ x <= NDATA /\ BPB \in Nat \ {0}
    BY <1>2, StorageAssumption DEF Bl!BlockNos
  <2>2. x \div BPB \in Nat /\ x \div BPB <= n
    BY <2>1, DivisionGrows
  <2> QED BY <1>1, <2>2
<1>5. IsFiniteSet(0..n) /\ Cardinality(0..n) <= n + 1 /\ n + 1 \in Nat
  <2> HIDE DEF n
  <2>1. 0 \in Int /\ n \in Int /\ n + 1 \in Nat /\ n < 0 + (n + 1)
    BY <1>1
  <2> QED BY <2>1, Interval
<1>6. IsFiniteSet(G) /\ Cardinality(G) <= n + 1
  <2> DEFINE D == 0..n
  <2>1. IsFiniteSet(D) /\ Cardinality(D) \in Nat
    BY <1>5, FS_CardinalityType
  <2> HIDE DEF g, D
  <2>2. IsFiniteSet({g[q] : q \in D}) /\ Cardinality({g[q] : q \in D}) <= Cardinality(D)
        /\ Cardinality({g[q] : q \in D}) \in Nat
    BY <2>1, ImageSmall
  <2> DEFINE T == {g[q] : q \in D}
  <2>3. T = G
    BY DEF D
  <2>4. Cardinality(D) <= n + 1 /\ n \in Nat
    BY <1>1, <1>5 DEF D
  <2>5. IsFiniteSet(T) /\ Cardinality(T) <= Cardinality(D) /\ Cardinality(T) \in Nat
    BY <2>2
  <2> HIDE DEF T, G, n
  <2> QED BY <2>1, <2>3, <2>4, <2>5
<1>7. IsFiniteSet(one) /\ Cardinality(one) <= 1 /\ 1 \in Nat
  <2>1. IsFiniteSet(one) /\ Cardinality(one) = 1
    BY FS_Singleton, Zenon
  <2> HIDE DEF one
  <2> QED BY <2>1
<1> HIDE DEF G, one, n, B
<1>8. IsFiniteSet(G \cup one) /\ Cardinality(G \cup one) <= (n + 1) + 1
  BY <1>5, <1>6, <1>7, Together
<1>9. Cardinality(G \cup one) <= OPBLOCKS
  <2>1. Cardinality(G \cup one) \in Nat
    BY <1>8, FS_CardinalityType
  <2> QED BY <1>1, <1>8, <2>1
<1>10. blLogged' \subseteq G \cup one
  BY <1>3, <1>4
<1> QED BY <1>1, <1>8, <1>9, <1>10, Smaller

LEMMA MinIs ==
  ASSUME NEW x \in Int, NEW y \in Int
  PROVE  Bl!Min({x, y}) = IF x <= y THEN x ELSE y
<1> DEFINE m == IF x <= y THEN x ELSE y
<1>1. m \in {x, y} /\ \A z \in {x, y} : m <= z
  OBVIOUS
<1>2. \A u, v \in {x, y} : (\A z \in {x, y} : u <= z) /\ (\A z \in {x, y} : v <= z) => u = v
  OBVIOUS
<1> HIDE DEF m
<1> QED BY <1>1, <1>2 DEF Bl!Min, m

LEMMA MaxIs ==
  ASSUME NEW x \in Int, NEW y \in Int
  PROVE  Bl!Max({x, y}) = IF x <= y THEN y ELSE x
<1> DEFINE m == IF x <= y THEN y ELSE x
<1>1. m \in {x, y} /\ \A z \in {x, y} : m >= z
  OBVIOUS
<1>2. \A u, v \in {x, y} : (\A z \in {x, y} : u >= z) /\ (\A z \in {x, y} : v >= z) => u = v
  OBVIOUS
<1> HIDE DEF m
<1> QED BY <1>1, <1>2 DEF Bl!Max, m

LEMMA ChunkIs == Bl!MaxChunk = ((OPBLOCKS - 1 - 1 - 2) \div 2) * BytesPerBlock /\ Bl!MaxChunk \in Nat \ {0}
<1> DEFINE n == (OPBLOCKS - 1 - 1 - 2) \div 2
<1>1. n \in Nat \ {0}
  BY StorageAssumption
<1>2. \A x, y \in Nat \ {0} : x * y \in Nat \ {0}
  OBVIOUS
<1> QED BY <1>1, <1>2, SlotsAre DEF Bl!MaxChunk

LEMMA FilesAre == Bl!Files # {} /\ \A f \in Bl!Files : FileInum[f] \in Inums
<1>1. FileInum \in Seq(Inums) /\ FileInum # <<>>
  BY StorageAssumption
<1>2. Len(FileInum) \in Nat /\ DOMAIN FileInum = 1..Len(FileInum) /\ Len(FileInum) # 0
      /\ \A f \in 1..Len(FileInum) : FileInum[f] \in Inums
  BY <1>1, EmptySeq, ElementOfSeq, LenProperties
<1>3. 1 \in 1..Len(FileInum)
  BY <1>2
<1> QED BY <1>2, <1>3 DEF Bl!Files

\* What does not touch the files' inodes and blocks.
LEMMA StoreFrame ==
  ASSUME StoreInv, UNCHANGED <<blBitmap, blDisk, blInode>>
  PROVE  /\ InodesTyped' /\ OneSlot(blInode', blDisk') /\ blBitmap' = InUse(blInode', blDisk')
         /\ SizesRight'
<1>1. blBitmap' = blBitmap /\ blDisk' = blDisk /\ blInode' = blInode
  OBVIOUS
<1>2. InodesTyped'
  <2>1. InodesTyped
    BY DEF StoreInv
  <2> QED BY <1>1, <2>1 DEF InodesTyped, Bl!BlockNos, Bl!Slots, Bl!MAXFILE, Cells
<1>3. SizesRight'
  <2>1. SizesRight
    BY DEF StoreInv
  <2> QED BY <1>1, <2>1 DEF SizesRight, Bl!SlotsOf, Bl!Slots, Bl!Slot, Bl!MAXFILE
<1>4. OneSlot(blInode', blDisk') /\ blBitmap' = InUse(blInode', blDisk')
  BY <1>1 DEF StoreInv
<1> QED BY <1>2, <1>3, <1>4

LEMMA StoreStarts == ASSUME Bl!Init PROVE StoreInv
<1>0. NDIRECT \in 0..NDIRECT /\ Bl!Slots \subseteq Nat /\ NDIRECT \in Nat /\ 0 \in 0..NDATA
      /\ 0 \in 0..Bl!MAXFILE * BytesPerBlock
  <2>1. 0 \in 0..Bl!MAXFILE * BytesPerBlock
    BY SlotsAre
  <2>2. NDIRECT \in 0..NDIRECT /\ NDIRECT \in Nat /\ 0 \in 0..NDATA
    BY StorageAssumption
  <2>3. Bl!Slots \subseteq Nat
    BY SlotsAre, StorageAssumption
  <2> QED BY <2>1, <2>2, <2>3
<1> DEFINE e == [addrs |-> [s \in 0..NDIRECT |-> 0], size |-> 0]
<1>1. /\ blInode = [i \in Inums |-> e] /\ blDisk = [b \in Bl!BlockNos |-> Bl!Zeroes] /\ blBitmap = {}
      /\ blLogged = {} /\ blPanicked = ""
      /\ blOff = [f \in Bl!Files |-> 0] /\ blGot = [p \in Writers |-> <<>>]
      /\ blProc = [p \in Writers |-> [f |-> CHOOSE f \in Bl!Files : TRUE, n |-> 0, c |-> p]]
  BY DEF Bl!Init
<1>2. e \in [addrs : [0..NDIRECT -> 0..NDATA], size : 0..Bl!MAXFILE * BytesPerBlock]
      /\ e.size = 0 /\ \A k \in 0..NDIRECT : e.addrs[k] = 0
  BY <1>0
<1> HIDE DEF e
<1>3. \A i \in Inums : blInode[i] = e
  BY <1>1
<1>4. \A i \in Inums, k \in Bl!Slots : Old(i, k) = 0
  <2> SUFFICES ASSUME NEW i \in Inums, NEW k \in Bl!Slots PROVE Old(i, k) = 0
    OBVIOUS
  <2>1. blInode[i].addrs[NDIRECT] = 0
    BY ONLY <1>0, <1>2, <1>3, i \in Inums
  <2>2. CASE k <= NDIRECT
    <3>1. k \in 0..NDIRECT
      BY <1>0, <2>2
    <3>2. blInode[i].addrs[k] = 0
      BY ONLY <1>2, <1>3, <3>1, i \in Inums
    <3> QED BY ONLY <2>2, <3>2 DEF Old, AddrIn
  <2>3. CASE ~(k <= NDIRECT)
    BY ONLY <2>1, <2>3 DEF Old, AddrIn
  <2> QED BY <2>2, <2>3
<1>5. InodesTyped
  <2>1. Bl!Zeroes \in [0..BytesPerBlock - 1 -> Cells]
    BY DEF Bl!Zeroes, Cells
  <2>2. blDisk \in [Bl!BlockNos -> [0..BytesPerBlock - 1 -> Cells]]
    BY <1>1, <2>1
  <2>3. blInode \in [Inums -> [addrs : [0..NDIRECT -> 0..NDATA], size : 0..Bl!MAXFILE * BytesPerBlock]]
    BY <1>1, <1>2
  <2> QED BY <1>0, <1>4, <2>2, <2>3 DEF InodesTyped, Old
<1>6. CallsTyped
  <2>1. (CHOOSE f \in Bl!Files : TRUE) \in Bl!Files
    BY FilesAre
  <2>2. <<>> \in Seq(Cells)
    OBVIOUS
  <2> DEFINE g == CHOOSE f \in Bl!Files : TRUE
  <2>3. blProc = [p \in Writers |-> [f |-> g, n |-> 0, c |-> p]] /\ g \in Bl!Files
    BY <1>1, <2>1
  <2> HIDE DEF g
  <2>4. blProc \in [Writers -> [f : Bl!Files, n : Int, c : Writers]] /\ \A p \in Writers : blProc[p].c = p
    BY <2>3
  <2> QED BY <1>1, <2>2, <2>4 DEF CallsTyped
<1>7. OneSlot(blInode, blDisk) /\ blBitmap = InUse(blInode, blDisk)
  <2>1. \A x \in Bl!BlockNos : x # 0
    BY DEF Bl!BlockNos
  <2> QED BY <1>1, <1>4, <2>1 DEF OneSlot, InUse, Old
<1>8. SizesRight
  <2>1. Bl!SlotsOf(0, 0) = {}
    BY SlotsOfAre
  <2> QED BY <1>2, <1>3, <1>4, <2>1 DEF SizesRight, Old
<1>9. Bl!TransactionFits
  <2>1. Cardinality({}) = 0
    BY FS_EmptySet
  <2>2. Bl!Cardinality(blLogged) = 0
    BY <1>1, <2>1, BlCardinality
  <2> QED BY <2>2, StorageAssumption DEF Bl!TransactionFits
<1> QED BY <1>1, <1>5, <1>6, <1>7, <1>8, <1>9 DEF StoreInv

\* One round of the loop of write(): a call that has failed, a disk that is full, or the bytes.
LEMMA ChunkDoes ==
  ASSUME StoreInv, NEW p \in Writers, Bl!WriteChunk(p)
  PROVE  LET f == blProc[p].f
             n == Bl!Min({blProc[p].n, Bl!MaxChunk})
             i == FileInum[f] IN
         /\ f \in Bl!Files /\ i \in Inums /\ blOff[f] \in Nat
         /\ n \in 1..Bl!MaxChunk /\ blProc[p].c = p
         /\ \/ /\ blProc' = [blProc EXCEPT ![p].n = -1] /\ blOff' = blOff
               /\ UNCHANGED <<blBitmap, blDisk, blInode, blLogged, blPanicked>>
            \/ /\ blProc' = [blProc EXCEPT ![p].n = @ - n] /\ blOff' = blOff
               /\ UNCHANGED <<blBitmap, blDisk, blInode, blLogged>>
               /\ blPanicked' = "out of blocks"
            \/ /\ blProc' = [blProc EXCEPT ![p].n = @ - n]
               /\ blOff' = [blOff EXCEPT ![f] = @ + n]
               /\ blOff[f] <= blInode[i].size
               /\ \E addr : Putting(i, p, blOff[f], blOff[f] + n, addr)
         /\ UNCHANGED <<blGot, blCalls>>
<1> DEFINE f == blProc[p].f
           n == Bl!Min({blProc[p].n, Bl!MaxChunk})
           i == FileInum[f]
<1>1. f \in Bl!Files /\ i \in Inums /\ blOff[f] \in Nat /\ blProc[p].c = p /\ blProc[p].n \in Int
  BY FilesAre DEF StoreInv, CallsTyped
<1>2. n \in 1..Bl!MaxChunk
  <2>1. blProc[p].n > 0
    BY DEF Bl!WriteChunk
  <2>2. Bl!MaxChunk \in Nat \ {0}
    BY ChunkIs
  <2> QED BY <1>1, <2>1, <2>2, MinIs
<1>3. blPanicked = "" /\ UNCHANGED <<blGot, blCalls>>
  BY DEF Bl!WriteChunk
<1>4. CASE blOff[f] > blInode[i].size \/ blOff[f] + n > Bl!MAXFILE * BytesPerBlock
  <2>1. /\ blProc' = [blProc EXCEPT ![p].n = -1]
        /\ UNCHANGED <<blBitmap, blDisk, blInode, blOff, blLogged, blPanicked>>
    <3> HIDE DEF n
    <3> QED BY <1>4 DEF Bl!WriteChunk, n
  <2> HIDE DEF n
  <2> QED BY <1>1, <1>2, <1>3, <2>1 DEF n
<1>5. CASE ~(blOff[f] > blInode[i].size \/ blOff[f] + n > Bl!MAXFILE * BytesPerBlock)
  <2>1. /\ Bl!Writei(i, p, blOff[f], n)
        /\ blOff' = [blOff EXCEPT ![f] = IF blPanicked' = "" THEN @ + n ELSE @]
        /\ blProc' = [blProc EXCEPT ![p].n = @ - n]
    <3>1. /\ Bl!Writei(i, blProc[p].c, blOff[f], n)
          /\ blOff' = [blOff EXCEPT ![f] = IF blPanicked' = "" THEN @ + n ELSE @]
          /\ blProc' = [blProc EXCEPT ![p].n = @ - n]
      <4> HIDE DEF n
      <4> QED BY <1>5 DEF Bl!WriteChunk, n
    <3> QED BY <1>1, <3>1
  <2> DEFINE a == blOff[f]
             z == Bl!MAXFILE * BytesPerBlock
  <2>2. blInode[i].size \in Nat /\ z \in Nat
    <3>1. blInode[i].size \in 0..Bl!MAXFILE * BytesPerBlock
      BY <1>1 DEF StoreInv, InodesTyped
    <3> QED BY <3>1, SlotsAre
  <2>3. n \in Nat /\ a + n \in Nat /\ a + n <= z /\ a <= blInode[i].size
    <3>1. n \in Nat /\ a \in Nat
      BY <1>1, <1>2, ChunkIs
    <3> HIDE DEF n, a, z
    <3> QED BY <1>5, <2>2, <3>1 DEF a, z
  <2> HIDE DEF n
  <2>4. \/ /\ blPanicked' = "out of blocks"
           /\ UNCHANGED <<blBitmap, blDisk, blInode, blLogged>>
        \/ \E addr : Placing(addr, i, a, a + n) /\ Bl!Put(i, p, a, a + n, addr)
    BY <1>1, <2>1, <2>3, WriteiDoes
  <2>5. CASE \E addr : Placing(addr, i, a, a + n) /\ Bl!Put(i, p, a, a + n, addr)
    <3>1. PICK addr : Placing(addr, i, a, a + n) /\ Bl!Put(i, p, a, a + n, addr)
      BY <2>5
    <3>2. Putting(i, p, a, a + n, addr)
      BY <1>1, <2>3, <3>1 DEF Putting
    <3>3. blPanicked' = ""
      BY <1>3, <3>1 DEF Bl!Put
    <3>4. blOff' = [blOff EXCEPT ![f] = @ + n]
      BY <2>1, <3>3
    <3> QED BY <1>1, <1>2, <1>3, <2>1, <2>3, <3>2, <3>4 DEF n
  <2>6. CASE /\ blPanicked' = "out of blocks"
             /\ UNCHANGED <<blBitmap, blDisk, blInode, blLogged>>
    <3>1. blOff' = blOff
      BY <1>1, <2>1, <2>6 DEF StoreInv, CallsTyped
    <3> QED BY <1>1, <1>2, <1>3, <2>1, <2>6, <3>1 DEF n
  <2> QED BY <2>4, <2>5, <2>6
<1> QED BY <1>4, <1>5

\* A byte of a file is in a block it has.
LEMMA ByteIs ==
  ASSUME StoreInv, NEW i \in Inums, NEW x \in 0..blInode[i].size - 1
  PROVE  LET k == Bl!Slot(x \div BytesPerBlock) IN
         /\ k \in Bl!Slots /\ k # NDIRECT /\ Old(i, k) \in Bl!BlockNos /\ Bl!Addr(i, k) = Old(i, k)
         /\ x % BytesPerBlock \in 0..BytesPerBlock - 1
         /\ blDisk[Old(i, k)][x % BytesPerBlock] \in Cells
<1> DEFINE q == x \div BytesPerBlock
           k == Bl!Slot(q)
<1>1. x \in Nat /\ BytesPerBlock \in Nat \ {0}
  BY SlotsAre
<1>2. q \in Nat /\ x % BytesPerBlock \in 0..BytesPerBlock - 1
  BY <1>1, Division
<1>3. k \in Bl!SlotsOf(0, blInode[i].size)
  BY SlotsOfAre
<1>4. {l \in Bl!Slots : Old(i, l) # 0} = Bl!SlotsOf(0, blInode[i].size)
  BY DEF StoreInv, SizesRight, Old
<1>5. k # NDIRECT
  <2> HIDE DEF q
  <2> QED BY <1>2, SlotOne
<1> HIDE DEF q, k
<1>6. k \in Bl!Slots /\ Old(i, k) # 0
  BY <1>3, <1>4
<1>7. Old(i, k) \in Bl!BlockNos
  BY <1>6, AddressesInUse DEF StoreInv, InUse
<1>8. blDisk[Old(i, k)][x % BytesPerBlock] \in Cells
  BY <1>2, <1>7 DEF StoreInv, InodesTyped
<1> QED BY <1>2, <1>5, <1>6, <1>7, <1>8, AddrIs DEF k, q, Old

\* How many bytes, m, a call that asks for n of them gets from the offset at of a file of z.
Upto(i, at, n, z, m) ==
  z = blInode[i].size /\ m = IF at >= z THEN 0 ELSE IF at + n <= z THEN n ELSE z - at

Byte(in, d, i, x) == d[AddrIn(in, d, i, Bl!Slot(x \div BytesPerBlock))][x % BytesPerBlock]

ReadGives(i, at, n, z, m) ==
  /\ z \in Nat /\ z <= Bl!MAXFILE * BytesPerBlock /\ m \in Nat
  /\ Bl!Readi(i, at, n) \in Seq(Cells) /\ Len(Bl!Readi(i, at, n)) = m
  /\ \A k \in 1..m : Bl!Readi(i, at, n)[k] = Byte(blInode, blDisk, i, at + k - 1)

\* The bytes readi() returns.
LEMMA ReadiIs ==
  ASSUME StoreInv, NEW i \in Inums, NEW at \in Nat, NEW n \in Nat, NEW z, NEW m, Upto(i, at, n, z, m)
  PROVE  ReadGives(i, at, n, z, m)
<1> DEFINE cell(x) == blDisk[Bl!Addr(i, Bl!Slot(x \div BytesPerBlock))][x % BytesPerBlock]
<1>1. z \in Nat /\ z <= Bl!MAXFILE * BytesPerBlock
  <2>1. z \in 0..Bl!MAXFILE * BytesPerBlock
    BY DEF StoreInv, InodesTyped, Upto
  <2> DEFINE y == Bl!MAXFILE * BytesPerBlock
  <2>2. y \in Nat
    BY SlotsAre
  <2> HIDE DEF y
  <2> QED BY <2>1, <2>2 DEF y
<1>2. m \in Nat /\ Bl!Max({0, Bl!Min({n, z - at})}) = m
  <2>1. Bl!Min({n, z - at}) = IF n <= z - at THEN n ELSE z - at
    BY <1>1, MinIs
  <2> DEFINE l == IF n <= z - at THEN n ELSE z - at
  <2>2. l \in Int
    BY <1>1
  <2>3. Bl!Max({0, l}) = IF 0 <= l THEN l ELSE 0
    <3> HIDE DEF l
    <3> QED BY <2>2, MaxIs
  <2>4. (IF 0 <= l THEN l ELSE 0) = m /\ m \in Nat
    BY <1>1 DEF Upto
  <2> QED BY <2>1, <2>3, <2>4
<1>3. Bl!Readi(i, at, n) = [k \in 1..m |-> cell(at + k - 1)]
  <2>1. blInode[i].size = z
    BY DEF Upto
  <2> QED BY <1>2, <2>1 DEF Bl!Readi
<1>4. \A k \in 1..m : at + k - 1 \in 0..z - 1
  BY <1>1 DEF Upto
<1>5. \A x \in 0..z - 1 : cell(x) \in Cells /\ cell(x) = Byte(blInode, blDisk, i, x)
  <2>1. blInode[i].size = z
    BY DEF Upto
  <2> QED BY <2>1, ByteIs DEF Byte, Old
<1> HIDE DEF cell
<1>6. \A k \in 1..m : cell(at + k - 1) \in Cells
                     /\ cell(at + k - 1) = Byte(blInode, blDisk, i, at + k - 1)
  BY ONLY <1>4, <1>5
<1>7. [k \in 1..m |-> cell(at + k - 1)] \in Seq(Cells) /\ Len([k \in 1..m |-> cell(at + k - 1)]) = m
  BY <1>2, <1>6
<1>8. \A k \in 1..m : Bl!Readi(i, at, n)[k] = Byte(blInode, blDisk, i, at + k - 1)
  BY ONLY <1>3, <1>6
<1> QED BY <1>1, <1>2, <1>3, <1>7, <1>8 DEF ReadGives

LEMMA StoreKept == ASSUME StoreInv, [Bl!Next]_(Bl!vars) PROVE StoreInv'
<1>0. /\ blPanicked # "freeing free block" /\ Cardinality(blLogged) <= OPBLOCKS
      /\ CallsTyped
  BY BlCardinality DEF StoreInv, Bl!TransactionFits
<1>1. ASSUME NEW p \in Writers, Bl!WriteChunk(p) PROVE StoreInv'
  <2> DEFINE f == blProc[p].f
             n == Bl!Min({blProc[p].n, Bl!MaxChunk})
             i == FileInum[f]
  <2>1. /\ f \in Bl!Files /\ i \in Inums /\ blOff[f] \in Nat
        /\ n \in 1..Bl!MaxChunk /\ blProc[p].c = p
        /\ \/ /\ blProc' = [blProc EXCEPT ![p].n = -1] /\ blOff' = blOff
              /\ UNCHANGED <<blBitmap, blDisk, blInode, blLogged, blPanicked>>
           \/ /\ blProc' = [blProc EXCEPT ![p].n = @ - n] /\ blOff' = blOff
              /\ UNCHANGED <<blBitmap, blDisk, blInode, blLogged>>
              /\ blPanicked' = "out of blocks"
           \/ /\ blProc' = [blProc EXCEPT ![p].n = @ - n]
              /\ blOff' = [blOff EXCEPT ![f] = @ + n]
              /\ blOff[f] <= blInode[i].size
              /\ \E addr : Putting(i, p, blOff[f], blOff[f] + n, addr)
        /\ blGot' = blGot
    BY <1>1, ChunkDoes
  <2> HIDE DEF n, i
  <2>2. n \in Nat /\ blProc[p].n - n \in Int /\ -1 \in Int
    <3>1. n \in 1..Bl!MaxChunk
      BY <2>1, Zenon
    <3>2. Bl!MaxChunk \in Nat
      BY ChunkIs
    <3>3. blProc[p].n \in Int
      BY <1>0 DEF CallsTyped
    <3> QED BY ONLY <3>1, <3>2, <3>3
  <2>3. CallsTyped'
    <3> DEFINE next(m) == [blProc EXCEPT ![p].n = m]
    <3>1. ASSUME NEW m \in Int
          PROVE  /\ next(m) \in [Writers -> [f : Bl!Files, n : Int, c : Writers]]
                 /\ \A q \in Writers : next(m)[q].c = q
      <4>1. /\ blProc \in [Writers -> [f : Bl!Files, n : Int, c : Writers]]
            /\ \A q \in Writers : blProc[q].c = q
        BY <1>0 DEF CallsTyped
      <4> QED BY <4>1
    <3>2. blProc' = next(-1) \/ blProc' = next(blProc[p].n - n)
      BY <2>1, Zenon
    <3>3. blOff' \in [Bl!Files -> Nat]
      <4>1. blOff' = blOff \/ blOff' = [blOff EXCEPT ![f] = @ + n]
        BY <2>1, Zenon
      <4>2. blOff \in [Bl!Files -> Nat]
        BY <1>0 DEF CallsTyped
      <4> HIDE DEF f
      <4> QED BY <2>2, <4>1, <4>2
    <3> HIDE DEF next
    <3>4. /\ blProc' \in [Writers -> [f : Bl!Files, n : Int, c : Writers]]
          /\ \A q \in Writers : blProc'[q].c = q
      BY <2>2, <3>1, <3>2
    <3>5. blGot' \in [Writers -> Seq(Cells)]
      <4>1. blGot' = blGot
        BY <2>1, Zenon
      <4> QED BY <1>0, <4>1 DEF CallsTyped
    <3> QED BY <3>3, <3>4, <3>5 DEF CallsTyped, Bl!Files, Cells
  <2>4. CASE UNCHANGED <<blBitmap, blDisk, blInode, blLogged>>
             /\ (blPanicked' = blPanicked \/ blPanicked' = "out of blocks")
    BY <1>0, <2>3, <2>4, StoreFrame, BlCardinality DEF StoreInv, Bl!TransactionFits
  <2>5. CASE blOff[f] <= blInode[i].size /\ \E addr : Putting(i, p, blOff[f], blOff[f] + n, addr)
    <3> DEFINE a == blOff[f]
               b == blOff[f] + n
    <3>1. PICK addr : Putting(i, p, a, b, addr)
      BY <2>5
    <3>2. a <= blInode[i].size /\ a < b /\ a <= b /\ b - a <= Bl!MaxChunk
      <4>1. a \in Nat /\ b = a + n /\ n \in 1..Bl!MaxChunk /\ Bl!MaxChunk \in Nat /\ a <= blInode[i].size
        BY <2>1, <2>5, ChunkIs
      <4> HIDE DEF a, b
      <4> QED BY <4>1
    <3> HIDE DEF a, b, f
    <3>3. InodesTyped' /\ OneSlot(blInode', blDisk') /\ blBitmap' = InUse(blInode', blDisk') /\ SizesRight'
      BY <3>1, <3>2, PutKeeps
    <3>4. Cardinality(blLogged') <= OPBLOCKS
      BY <3>1, <3>2, PutFits, ChunkIs
    <3>5. blPanicked' = blPanicked
      BY <3>1, PutDoes
    <3> QED BY <1>0, <2>3, <3>3, <3>4, <3>5, BlCardinality DEF StoreInv, Bl!TransactionFits
  <2> QED BY <2>1, <2>4, <2>5
<1>2. ASSUME NEW p \in Writers, NEW f \in Bl!Files, NEW n \in CallSizes, Bl!Filewrite(p, f, n, p) PROVE StoreInv'
  <2>1. /\ blProc' = [blProc EXCEPT ![p] = [f |-> f, n |-> n, c |-> p]]
        /\ UNCHANGED <<blBitmap, blDisk, blInode, blOff, blGot, blLogged, blPanicked>>
    BY <1>2 DEF Bl!Filewrite
  <2>2. n \in Int
    BY StorageAssumption
  <2>3. CallsTyped'
    BY <1>0, <2>1, <2>2 DEF CallsTyped, Bl!Files, Cells
  <2> QED BY <1>0, <2>1, <2>3, StoreFrame, BlCardinality DEF StoreInv, Bl!TransactionFits
<1>3. ASSUME NEW p \in Writers, NEW f \in Bl!Files, NEW n \in CallSizes, Bl!Fileread(p, f, n) PROVE StoreInv'
  <2>1. /\ blGot' = [blGot EXCEPT ![p] = Bl!Readi(FileInum[f], blOff[f], n)]
        /\ blOff' = [blOff EXCEPT ![f] = @ + Len(blGot'[p])]
        /\ UNCHANGED <<blBitmap, blDisk, blInode, blProc, blLogged, blPanicked>>
    BY <1>3 DEF Bl!Fileread
  <2>2. blOff' \in [Bl!Files -> Nat] /\ blGot' \in [Writers -> Seq(Cells)]
    <3> DEFINE read == Bl!Readi(FileInum[f], blOff[f], n)
    <3>1. blOff[f] \in Nat /\ blOff \in [Bl!Files -> Nat] /\ FileInum[f] \in Inums /\ n \in Nat
          /\ blGot \in [Writers -> Seq(Cells)]
      BY <1>0, FilesAre, StorageAssumption DEF CallsTyped
    <3>2. read \in Seq(Cells)
      <4> DEFINE z == blInode[FileInum[f]].size
                 m == IF blOff[f] >= z THEN 0 ELSE IF blOff[f] + n <= z THEN n ELSE z - blOff[f]
      <4>1. Upto(FileInum[f], blOff[f], n, z, m)
        BY DEF Upto
      <4> HIDE DEF z, m
      <4>2. ReadGives(FileInum[f], blOff[f], n, z, m)
        BY <3>1, <4>1, ReadiIs
      <4> QED BY ONLY <4>2 DEF ReadGives
    <3> HIDE DEF read
    <3>3. blGot'[p] = read /\ blGot' \in [Writers -> Seq(Cells)] /\ Len(read) \in Nat
      BY <2>1, <3>1, <3>2 DEF read
    <3> QED BY <2>1, <3>1, <3>3
  <2>3. CallsTyped'
    BY <1>0, <2>1, <2>2 DEF CallsTyped, Bl!Files, Cells
  <2> QED BY <1>0, <2>1, <2>3, StoreFrame, BlCardinality DEF StoreInv, Bl!TransactionFits
<1>4. ASSUME NEW i \in Inums, Bl!Iput(i) PROVE StoreInv'
  <2>1. /\ Bl!Itrunc(i) /\ blDisk' = blDisk /\ blProc' = blProc /\ blGot' = blGot
        /\ blOff' = [f \in Bl!Files |-> IF FileInum[f] = i /\ blPanicked' = "" THEN 0 ELSE blOff[f]]
    BY <1>4 DEF Bl!Iput
  <2>2. CallsTyped'
    BY <1>0, <2>1 DEF CallsTyped, Bl!Files, Cells
  <2>3. /\ InodesTyped' /\ OneSlot(blInode', blDisk') /\ blBitmap' = InUse(blInode', blDisk') /\ SizesRight'
        /\ blPanicked' = blPanicked
    BY <2>1, ItruncKeeps
  <2>4. Cardinality(blLogged') <= OPBLOCKS
    BY <2>1, ItruncFits
  <2> QED BY <1>0, <2>2, <2>3, <2>4, BlCardinality DEF StoreInv, Bl!TransactionFits
<1>5. CASE UNCHANGED Bl!vars
  <2>1. UNCHANGED <<blBitmap, blDisk, blInode, blOff, blProc, blGot, blLogged, blPanicked>>
    BY <1>5 DEF Bl!vars
  <2>2. CallsTyped'
    BY <1>0, <2>1 DEF CallsTyped, Bl!Files, Cells
  <2> QED BY <1>0, <2>1, <2>2, StoreFrame, BlCardinality DEF StoreInv, Bl!TransactionFits
<1> QED BY <1>1, <1>2, <1>3, <1>4, <1>5 DEF Bl!Next

\* The blocks in use are as many as the slots that hold one.
LEMMA StoreExact == ASSUME StoreInv PROVE BlocksExact
<1> DEFINE refs == {r \in Inums \X Bl!Slots : Bl!Addr(r[1], r[2]) # 0}
           at == [r \in refs |-> Bl!Addr(r[1], r[2])]
           T == {at[r] : r \in refs}
<1>1. \A r \in refs : /\ r[1] \in Inums /\ r[2] \in Bl!Slots /\ r = <<r[1], r[2]>>
                      /\ at[r] = Old(r[1], r[2]) /\ at[r] # 0
  BY AddrIs DEF Old
<1>2. \A i \in Inums, k \in Bl!Slots : Old(i, k) # 0 => <<i, k>> \in refs /\ at[<<i, k>>] = Old(i, k)
  BY AddrIs DEF Old
<1>3. \A x \in Bl!BlockNos : x # 0
  BY DEF Bl!BlockNos
<1>4. blBitmap = {x \in Bl!BlockNos : \E i \in Inums, k \in Bl!Slots : Old(i, k) = x}
  BY DEF StoreInv, InUse, Old
<1>5. T = {Bl!Addr(r[1], r[2]) : r \in refs}
  OBVIOUS
<1> HIDE DEF refs, at
<1>6. blBitmap = T
  <2>1. ASSUME NEW x \in blBitmap PROVE x \in T
    <3>1. PICK i \in Inums, k \in Bl!Slots : Old(i, k) = x
      BY <1>4
    <3> QED BY <1>2, <1>3, <1>4, <3>1
  <2>2. ASSUME NEW r \in refs PROVE at[r] \in blBitmap
    BY <1>1, AddressesInUse
  <2> QED BY <2>1, <2>2
<1>7. \A r, s \in refs : at[r] = at[s] => r = s
  <2>1. \A i, j \in Inums, k, l \in Bl!Slots : Old(i, k) # 0 /\ Old(i, k) = Old(j, l) => i = j /\ k = l
    BY DEF StoreInv, OneSlot, Old
  <2> SUFFICES ASSUME NEW r \in refs, NEW s \in refs, at[r] = at[s] PROVE r = s
    OBVIOUS
  <2>2. r[1] = s[1] /\ r[2] = s[2]
    BY <1>1, <2>1
  <2> QED BY <1>1, <2>2
<1>8. IsFiniteSet(refs)
  <2>1. IsFiniteSet(Inums \X Bl!Slots)
    BY StorageAssumption, BlocksFinite, FS_Product
  <2> QED BY <2>1, FS_Subset DEF refs
<1>9. Cardinality(T) = Cardinality(refs)
  BY <1>7, <1>8, ImageSmall
<1>10. Bl!Cardinality(blBitmap) = Bl!Cardinality(refs)
  <2> HIDE DEF T
  <2> QED BY <1>6, <1>9, BlCardinality
<1>11. \A i \in Inums : {k \in Bl!Slots : Bl!Addr(i, k) # 0} = Bl!SlotsOf(0, blInode[i].size)
  BY AddrIs DEF StoreInv, SizesRight
<1>12. blPanicked # "freeing free block" /\ Bl!TransactionFits
  BY DEF StoreInv
<1>13. blBitmap = {Bl!Addr(r[1], r[2]) : r \in refs}
  BY <1>5, <1>6
<1>14. /\ blBitmap = {Bl!Addr(r[1], r[2]) : r \in {r \in Inums \X Bl!Slots : Bl!Addr(r[1], r[2]) # 0}}
       /\ Bl!Cardinality(blBitmap) = Bl!Cardinality({r \in Inums \X Bl!Slots : Bl!Addr(r[1], r[2]) # 0})
  BY <1>10, <1>13, Zenon DEF refs
<1> QED BY <1>11, <1>12, <1>14, Zenon DEF BlocksExact, Bl!BlocksExact

\* A block has one use, and a call fits in what it reserves of the log.
THEOREM StorageExact == Bl!Spec => []BlocksExact
<1>1. Bl!Init => StoreInv
  BY StoreStarts
<1>2. StoreInv /\ [Bl!Next]_(Bl!vars) => StoreInv'
  BY StoreKept
<1>3. StoreInv => BlocksExact
  BY StoreExact
<1> QED BY <1>1, <1>2, <1>3, PTL DEF Bl!Spec

-----------------------------------------------------------------------------
(* Files are sequences of bytes.                                           *)

ContentRight(i) ==
  /\ blInode[i].size \in Nat /\ blInode[i].size <= Bl!MAXFILE * BytesPerBlock
  /\ Bl!Content(i) \in Seq(Cells) /\ Len(Bl!Content(i)) = blInode[i].size
  /\ \A k \in 1..blInode[i].size : Bl!Content(i)[k] = Byte(blInode, blDisk, i, k - 1)

LEMMA ContentsNow == ASSUME NEW i \in Inums PROVE StoreInv => ContentRight(i)
<1> SUFFICES ASSUME StoreInv PROVE ContentRight(i)
  OBVIOUS
<1> DEFINE z == blInode[i].size
<1>1. z \in Nat
  <2> DEFINE y == Bl!MAXFILE * BytesPerBlock
  <2>1. z \in 0..y
    BY DEF StoreInv, InodesTyped
  <2>2. y \in Nat
    BY SlotsAre
  <2> HIDE DEF y, z
  <2> QED BY ONLY <2>1, <2>2
<1>2. Upto(i, 0, z, z, z)
  <2> DEFINE y == blInode[i].size
  <2>1. y = z
    OBVIOUS
  <2> HIDE DEF z
  <2> QED BY ONLY <1>1, <2>1 DEF Upto
<1>3. Bl!Content(i) = Bl!Readi(i, 0, z)
  BY DEF Bl!Content
<1>4. blInode[i].size = z
  OBVIOUS
<1> HIDE DEF z
<1>5. ReadGives(i, 0, z, z, z)
  BY <1>1, <1>2, ReadiIs
<1>6. \A k \in 1..z : Bl!Readi(i, 0, z)[k] = Byte(blInode, blDisk, i, k - 1)
  <2>1. \A k \in 1..z : 0 + k - 1 = k - 1
    BY ONLY <1>1
  <2> QED BY ONLY <1>5, <2>1 DEF ReadGives
<1> QED BY ONLY <1>1, <1>3, <1>4, <1>5, <1>6 DEF ContentRight, ReadGives

ContentsRight == \A i \in Inums : ContentRight(i)

LEMMA ContentsRightNow == StoreInv => ContentsRight
BY ContentsNow DEF ContentsRight

LEMMA ContentsRightNext == StoreInv' => ContentsRight'
BY ContentsRightNow, PTL

LEMMA ContentsNext ==
  ASSUME NEW i \in Inums, StoreInv'
  PROVE  /\ blInode'[i].size \in Nat
         /\ Bl!Content(i)' \in Seq(Cells) /\ Len(Bl!Content(i)') = blInode'[i].size
         /\ \A k \in 1..blInode'[i].size : Bl!Content(i)'[k] = Byte(blInode', blDisk', i, k - 1)
BY ContentsRightNext DEF ContentsRight, ContentRight, Cells

\* A file is the same whose size and bytes are.
LEMMA ContentSame ==
  ASSUME StoreInv, StoreInv', NEW i \in Inums, blInode'[i].size = blInode[i].size,
         \A x \in 0..blInode[i].size - 1 : Byte(blInode', blDisk', i, x) = Byte(blInode, blDisk, i, x)
  PROVE  Bl!Content(i)' = Bl!Content(i)
<1> DEFINE z == blInode[i].size
<1>1. /\ z \in Nat /\ Bl!Content(i) \in Seq(Cells) /\ Len(Bl!Content(i)) = z
      /\ \A k \in 1..z : Bl!Content(i)[k] = Byte(blInode, blDisk, i, k - 1)
  BY ContentsNow DEF ContentRight
<1>2. /\ Bl!Content(i)' \in Seq(Cells) /\ Len(Bl!Content(i)') = z
      /\ \A k \in 1..z : Bl!Content(i)'[k] = Byte(blInode', blDisk', i, k - 1)
  BY ContentsNext
<1> HIDE DEF z
<1>3. \A k \in 1..z : k - 1 \in 0..z - 1
  BY <1>1
<1>4. \A k \in 1..z : Bl!Content(i)'[k] = Bl!Content(i)[k]
  BY <1>1, <1>2, <1>3 DEF z
<1> QED BY <1>1, <1>2, <1>4, SeqEqual

\* A write leaves the other files as they are.
LEMMA PutOther ==
  ASSUME NEW i, NEW c, NEW a, NEW b, NEW addr, Putting(i, c, a, b, addr), StoreInv', NEW j \in Inums \ {i}
  PROVE  Bl!Content(j)' = Bl!Content(j)
<1>1. StoreInv /\ i \in Inums /\ a \in Nat /\ b \in Nat /\ b <= Bl!MAXFILE * BytesPerBlock
      /\ Placing(addr, i, a, b)
  BY DEF Putting
<1>2. blInode'[j] = blInode[j]
  BY PutDoes
<1>3. ASSUME NEW x \in 0..blInode[j].size - 1
      PROVE  Byte(blInode', blDisk', j, x) = Byte(blInode, blDisk, j, x)
  <2> DEFINE k == Bl!Slot(x \div BytesPerBlock)
             o == Old(j, k)
             r == x % BytesPerBlock
  <2>1. k \in Bl!Slots /\ o \in Bl!BlockNos /\ r \in 0..BytesPerBlock - 1
    BY <1>1, ByteIs
  <2> HIDE DEF k, r
  <2>2. AddrIn(blInode', blDisk', j, k) = o
    BY <2>1, PutAddr
  <2>3. \A l \in Bl!Slots : addr[l] # o
    <3>1. \A l \in Bl!Slots : addr[l] # 0 => addr[l] # o
      BY <1>1, <2>1, PutApart
    <3>2. o # 0
      BY <2>1 DEF Bl!BlockNos
    <3> QED BY <3>1, <3>2
  <2> HIDE DEF o
  <2>4. o \notin Bl!Touched(addr, a, b) /\ o # addr[NDIRECT]
    <3>1. Bl!SlotsOf(a, b) \in SUBSET Bl!Slots /\ NDIRECT \in Bl!Slots
      BY <1>1, SlotsWithin, SlotsAre
    <3> QED BY <2>3, <3>1 DEF Bl!Touched
  <2>5. blDisk'[o][r] = blDisk[o][r]
    BY <2>1, <2>4, PutBlocks
  <2> QED BY <2>2, <2>5 DEF Byte, k, o, r, Old
<1> QED BY <1>1, <1>2, <1>3, ContentSame

\* The byte at x of the file that is written.
LEMMA PutByte ==
  ASSUME NEW i, NEW c, NEW a, NEW b, NEW addr, Putting(i, c, a, b, addr),
         a <= blInode[i].size, a <= b, NEW x \in Nat, x < b \/ x < blInode[i].size
  PROVE  Byte(blInode', blDisk', i, x) = IF x \in a..b - 1 THEN c ELSE Byte(blInode, blDisk, i, x)
<1> DEFINE q == x \div BytesPerBlock
           k == Bl!Slot(q)
           r == x % BytesPerBlock
           z == blInode[i].size
<1>1. StoreInv /\ i \in Inums /\ a \in Nat /\ b \in Nat /\ b <= Bl!MAXFILE * BytesPerBlock
      /\ Placing(addr, i, a, b)
  BY DEF Putting
<1>2. q \in Nat /\ r \in 0..BytesPerBlock - 1 /\ BytesPerBlock \in Nat \ {0} /\ x = (BytesPerBlock * q) + r
  BY SlotsAre, Division
<1>3. k # NDIRECT
  <2> HIDE DEF q
  <2> QED BY <1>2, SlotOne
<1>4. Bl!SlotsOf(a, b) \in SUBSET Bl!Slots /\ NDIRECT \in Bl!Slots
  BY <1>1, SlotsWithin, SlotsAre
<1>5. /\ \A l \in Bl!Slots : addr[l] \in 0..NDATA
      /\ \A l, h \in Bl!Slots : addr[l] # 0 /\ addr[l] = addr[h] => l = h
      /\ \A l \in Bl!Slots : addr[l] # 0 <=> l \in Missing(i, a, b) \/ Old(i, l) # 0
      /\ \A l \in Bl!Slots : addr[l] \in Fresh(addr, i, a, b) <=> l \in Missing(i, a, b)
  BY <1>1, PutApart
<1>6. z \in Nat
  BY <1>1, ContentsNow DEF ContentRight
<1>7. CASE x \in a..b - 1
  <2>1. k \in Bl!SlotsOf(a, b) /\ k \in Bl!Slots
    BY <1>4, <1>7, SlotsOfAre
  <2>2. addr[k] # 0 /\ addr[k] \in Bl!BlockNos
    <3>1. k \in Missing(i, a, b) \/ Old(i, k) # 0
      BY <2>1, AddrIs DEF Missing, Old
    <3>2. addr[k] # 0 /\ addr[k] \in 0..NDATA
      BY <1>5, <2>1, <3>1
    <3> QED BY <3>2, StorageAssumption DEF Bl!BlockNos
  <2>3. addr[k] \in Bl!Touched(addr, a, b)
    BY <1>3, <2>1 DEF Bl!Touched
  <2>4. r \in Bl!Within(addr, a, b, addr[k])
    BY <1>7 DEF Bl!Within
  <2>5. AddrIn(blInode', blDisk', i, k) = addr[k]
    BY <2>1, PutAddr
  <2> HIDE DEF k, r
  <2>6. blDisk'[addr[k]][r] = c
    BY <1>2, <2>2, <2>3, <2>4, PutBlocks
  <2> QED BY <1>7, <2>5, <2>6 DEF Byte, k, r
<1>8. CASE x \notin a..b - 1
  <2>1. x \in 0..z - 1
    <3> HIDE DEF z
    <3>1. x < z
      BY <1>1, <1>6, <1>8 DEF z
    <3> QED BY <1>6, <3>1
  <2>2. k \in Bl!Slots /\ Old(i, k) \in Bl!BlockNos
    BY <1>1, <2>1, ByteIs
  <2>3. k \notin Missing(i, a, b) /\ addr[k] = Old(i, k) /\ addr[k] # 0
    <3>1. Old(i, k) # 0
      BY <2>2 DEF Bl!BlockNos
    <3>2. k \notin Missing(i, a, b)
      BY <3>1, AddrIs DEF Missing, Old
    <3> HIDE DEF k
    <3> QED BY <1>1, <2>2, <3>1, <3>2 DEF Placing
  <2>4. addr[k] \notin Fresh(addr, i, a, b) /\ addr[k] # addr[NDIRECT]
    <3> HIDE DEF k
    <3> QED BY <1>3, <1>4, <1>5, <2>2, <2>3
  <2>5. r \notin Bl!Within(addr, a, b, addr[k])
    <3> SUFFICES ASSUME NEW y \in a..b - 1, addr[Bl!Slot(y \div BytesPerBlock)] = addr[k],
                        y % BytesPerBlock = r
                 PROVE  FALSE
      BY DEF Bl!Within
    <3> DEFINE p == y \div BytesPerBlock
    <3>1. y \in Nat
      BY <1>1
    <3>2. p \in Nat /\ y = (BytesPerBlock * p) + r
      BY <1>2, <3>1, Division
    <3>3. Bl!Slot(p) \in Bl!SlotsOf(a, b)
      BY SlotsOfAre
    <3>4. Bl!Slot(p) = k
      <4>1. addr[Bl!Slot(p)] = addr[k]
        OBVIOUS
      <4> HIDE DEF k, p
      <4> QED BY <1>4, <1>5, <2>2, <2>3, <3>3, <4>1
    <3>5. p = q
      <4> HIDE DEF p, q
      <4> QED BY <1>2, <3>2, <3>4, SlotOne DEF k
    <3>6. y = x
      <4> HIDE DEF p, q, r
      <4> QED BY <1>2, <3>2, <3>5
    <3> QED BY <1>8, <3>6
  <2>6. AddrIn(blInode', blDisk', i, k) = addr[k]
    <3> HIDE DEF k
    <3> QED BY <2>2, PutAddr
  <2>7. blDisk'[addr[k]][r] = blDisk[addr[k]][r]
    <3> DEFINE o == addr[k]
    <3>1. o \in Bl!BlockNos
      BY <2>2, <2>3
    <3>2. o \notin Fresh(addr, i, a, b) /\ o # addr[NDIRECT] /\ r \notin Bl!Within(addr, a, b, o)
          /\ r \in 0..BytesPerBlock - 1
      BY <1>2, <2>4, <2>5
    <3> HIDE DEF o, k, q, r, z
    <3>3. blDisk'[o][r] = blDisk[o][r]
      BY <3>1, <3>2, PutBlocks
    <3> QED BY <3>3 DEF o
  <2>8. Byte(blInode', blDisk', i, x) = blDisk'[addr[k]][r] /\ Byte(blInode, blDisk, i, x) = blDisk[addr[k]][r]
    BY <2>3, <2>6 DEF Byte, Old
  <2> HIDE DEF k, r
  <2> QED BY <1>8, <2>7, <2>8
<1> QED BY <1>7, <1>8

LEMMA FMinMax ==
  ASSUME NEW x \in Int, NEW y \in Int
  PROVE  /\ Bl!F!Min({x, y}) = IF x <= y THEN x ELSE y
         /\ Bl!F!Max({x, y}) = IF x <= y THEN y ELSE x
<1> DEFINE m == IF x <= y THEN x ELSE y
           n == IF x <= y THEN y ELSE x
<1>1. /\ m \in {x, y} /\ \A z \in {x, y} : m <= z
      /\ n \in {x, y} /\ \A z \in {x, y} : n >= z
  OBVIOUS
<1>2. /\ \A u, v \in {x, y} : (\A z \in {x, y} : u <= z) /\ (\A z \in {x, y} : v <= z) => u = v
      /\ \A u, v \in {x, y} : (\A z \in {x, y} : u >= z) /\ (\A z \in {x, y} : v >= z) => u = v
  OBVIOUS
<1> HIDE DEF m, n
<1>3. Bl!F!Min({x, y}) = m
  BY <1>1, <1>2 DEF Bl!F!Min
<1>4. Bl!F!Max({x, y}) = n
  BY <1>1, <1>2 DEF Bl!F!Max
<1> QED BY <1>3, <1>4 DEF m, n

Written(i, c, a, b) ==
  [k \in 1..Bl!F!Max({Len(Bl!Content(i)), b}) |-> IF k \in a + 1..b THEN c ELSE Bl!Content(i)[k]]

\* The file that is written holds what it held, and the new bytes over it or after it.
LEMMA PutSelf ==
  ASSUME NEW i, NEW c, NEW a, NEW b, NEW addr, Putting(i, c, a, b, addr), StoreInv',
         a <= blInode[i].size, a <= b
  PROVE  Bl!Content(i)' = Written(i, c, a, b)
<1> DEFINE z == blInode[i].size
           y == IF z <= b THEN b ELSE z
           new(k) == IF k \in a + 1..b THEN c ELSE Bl!Content(i)[k]
<1>1. StoreInv /\ i \in Inums /\ a \in Nat /\ b \in Nat
  BY DEF Putting
<1>2. /\ z \in Nat /\ Len(Bl!Content(i)) = z
      /\ \A k \in 1..z : Bl!Content(i)[k] = Byte(blInode, blDisk, i, k - 1)
  BY <1>1, ContentsNow DEF ContentRight
<1>3. y \in Nat /\ Bl!F!Max({Len(Bl!Content(i)), b}) = y
  <2>1. Len(Bl!Content(i)) = z /\ z \in Int /\ b \in Int
    BY <1>1, <1>2
  <2> HIDE DEF z
  <2>2. Bl!F!Max({z, b}) = y
    BY <2>1, FMinMax
  <2>3. y \in Nat
    BY <1>1, <1>2
  <2> HIDE DEF y
  <2> QED BY <2>1, <2>2, <2>3
<1>4. blInode'[i].size = y
  <2>1. blInode'[i].size = IF b > z THEN b ELSE z
    BY PutDoes
  <2> HIDE DEF z
  <2> QED BY <1>1, <1>2, <2>1
<1>5. /\ Bl!Content(i)' \in Seq(Cells) /\ Len(Bl!Content(i)') = y
      /\ \A k \in 1..y : Bl!Content(i)'[k] = Byte(blInode', blDisk', i, k - 1)
  <2> HIDE DEF y
  <2> QED BY <1>1, <1>4, ContentsNext
<1>6. ASSUME NEW k \in 1..y PROVE Byte(blInode', blDisk', i, k - 1) = new(k)
  <2> DEFINE x == k - 1
  <2>1. x \in Nat /\ (x < b \/ x < z)
    <3> HIDE DEF z
    <3> QED BY <1>1, <1>2
  <2>2. x \in a..b - 1 <=> k \in a + 1..b
    BY <1>1, <1>3
  <2>3. Byte(blInode', blDisk', i, x) = IF x \in a..b - 1 THEN c ELSE Byte(blInode, blDisk, i, x)
    <3> HIDE DEF x
    <3> QED BY <2>1, PutByte
  <2>4. k \notin a + 1..b => k \in 1..z
    <3> HIDE DEF z
    <3>1. a <= z
      BY DEF z
    <3> QED BY <1>1, <1>2, <3>1
  <2> HIDE DEF z
  <2> QED BY <1>2, <2>2, <2>3, <2>4
<1> HIDE DEF y, new
<1>7. Bl!Content(i)' = [k \in 1..y |-> Bl!Content(i)'[k]]
  BY <1>5
<1>8. Bl!Content(i)' = [k \in 1..y |-> new(k)]
  BY <1>5, <1>6, <1>7
<1> QED BY <1>3, <1>8 DEF new, Written

\* A step that changes no file, no offset and nothing that was read.
LEMMA FilesStay ==
  ASSUME blDisk' = blDisk, blInode' = blInode, blOff' = blOff, blGot' = blGot, StoreInv, StoreInv'
  PROVE  UNCHANGED Bl!F!vars
<1>1. \A i \in Inums : Bl!Content(i)' = Bl!Content(i)
  BY ContentSame
<1> QED BY <1>1 DEF Bl!F!vars

LEMMA PutIsWrite ==
  ASSUME StoreInv, StoreInv', NEW p \in Writers, NEW f \in Bl!Files, NEW n \in Nat, NEW a \in Nat,
         NEW i \in Inums, a = blOff[f], i = FileInum[f], a <= blInode[i].size,
         NEW addr, Putting(i, p, a, a + n, addr),
         blOff' = [blOff EXCEPT ![f] = @ + n], blGot' = blGot
  PROVE  Bl!F!Write(p, f, n)
<1> DEFINE b == a + n
           content == [j \in Inums |-> Bl!Content(j)]
           new == [k \in 1..Bl!F!Max({Len(content[i]), a + n}) |->
                     IF k \in a + 1..a + n THEN p ELSE content[i][k]]
<1>1. a <= b
  OBVIOUS
<1>2. \A j \in Inums \ {i} : Bl!Content(j)' = Bl!Content(j)
  <2> HIDE DEF b
  <2> QED BY PutOther DEF b
<1>3. Bl!Content(i)' = Written(i, p, a, b)
  <2>1. Putting(i, p, a, b, addr)
    OBVIOUS
  <2> HIDE DEF b
  <2> QED BY <1>1, <2>1, PutSelf
<1>4. Bl!Content(i)' = new
  <2>1. content[i] = Bl!Content(i)
    OBVIOUS
  <2> QED BY <1>3, <2>1 DEF Written
<1>5. [j \in Inums |-> Bl!Content(j)'] = [content EXCEPT ![i] = new]
  <2> HIDE DEF new
  <2> QED BY <1>2, <1>4
<1>6. b <= Bl!MAXFILE * BytesPerBlock
  BY DEF Putting
<1>7. content' = [content EXCEPT ![FileInum[f]] =
                    [k \in 1..Bl!F!Max({Len(content[FileInum[f]]), blOff[f] + n}) |->
                       IF k \in blOff[f] + 1..blOff[f] + n THEN p ELSE content[FileInum[f]][k]]]
  <2> HIDE DEF content
  <2>1. content' = [content EXCEPT ![i] = new]
    BY <1>5 DEF content
  <2> QED BY <2>1
<1> HIDE DEF content
<1> QED BY <1>6, <1>7 DEF Bl!F!Write, content

LEMMA WriteIsWrite ==
  ASSUME StoreInv, StoreInv', NEW p \in Writers, Bl!WriteChunk(p)
  PROVE  [Bl!F!Next]_(Bl!F!vars)
<1>1. PICK f \in Bl!Files, n \in 1..Bl!MaxChunk, a \in Nat, i \in Inums :
        /\ a = blOff[f] /\ i = FileInum[f]
        /\ \/ blOff' = blOff /\ UNCHANGED <<blBitmap, blDisk, blInode, blLogged>>
           \/ /\ blOff' = [blOff EXCEPT ![f] = @ + n]
              /\ a <= blInode[i].size
              /\ \E addr : Putting(i, p, a, a + n, addr)
        /\ blGot' = blGot
  BY ChunkDoes, Zenon
<1>2. n \in Nat
  BY ChunkIs
<1>3. CASE blOff' = blOff /\ UNCHANGED <<blBitmap, blDisk, blInode, blLogged>>
  BY <1>1, <1>3, FilesStay
<1>4. CASE /\ blOff' = [blOff EXCEPT ![f] = @ + n]
           /\ a <= blInode[i].size
           /\ \E addr : Putting(i, p, a, a + n, addr)
  <2>1. PICK addr : Putting(i, p, a, a + n, addr)
    BY <1>4
  <2>2. Bl!F!Write(p, f, n)
    BY <1>1, <1>2, <1>4, <2>1, PutIsWrite
  <2> QED BY <2>2 DEF Bl!F!Next, Bl!Files
<1> QED BY <1>1, <1>3, <1>4, Zenon

\* What there is from the offset on, as far as the call asked.
LEMMA ReadIsRead ==
  ASSUME StoreInv, StoreInv', NEW p \in Writers, NEW f \in Bl!Files, NEW n \in CallSizes, Bl!Fileread(p, f, n)
  PROVE  [Bl!F!Next]_(Bl!F!vars)
<1> DEFINE i == FileInum[f]
           a == blOff[f]
           z == blInode[i].size
           all == Bl!Content(i)
           big == Bl!MAXFILE * BytesPerBlock
           l == IF n <= big THEN n ELSE big
           m == IF a >= z THEN 0 ELSE IF a + n <= z THEN n ELSE z - a
           read == Bl!Readi(i, a, n)
<1>1. i \in Inums /\ a \in Nat /\ n \in Nat \ {0} /\ blOff \in [Bl!Files -> Nat]
      /\ blGot \in [Writers -> Seq(Cells)]
  BY FilesAre, StorageAssumption DEF StoreInv, CallsTyped
<1>2. /\ blGot' = [blGot EXCEPT ![p] = read]
      /\ blOff' = [blOff EXCEPT ![f] = @ + Len(blGot'[p])]
      /\ UNCHANGED <<blDisk, blInode>>
  BY DEF Bl!Fileread
<1>3. /\ z \in Nat /\ z <= big /\ m \in Nat
      /\ read \in Seq(Cells) /\ Len(read) = m
      /\ \A k \in 1..m : read[k] = Byte(blInode, blDisk, i, a + k - 1)
  <2>1. i \in Inums /\ a \in Nat /\ n \in Nat
    BY <1>1
  <2>2. Upto(i, a, n, z, m)
    BY DEF Upto
  <2> HIDE DEF i, a, z, m, big, read
  <2>3. ReadGives(i, a, n, z, m)
    BY ONLY StoreInv, <2>1, <2>2, ReadiIs
  <2> QED BY ONLY <2>3 DEF ReadGives, big, read
<1>4. /\ all \in Seq(Cells) /\ Len(all) = z
      /\ \A k \in 1..z : all[k] = Byte(blInode, blDisk, i, k - 1)
  BY <1>1, ContentsNow DEF ContentRight
<1>5. big \in Nat \ {0} /\ l \in 1..big
  <2>1. big \in Nat \ {0}
    BY SlotsAre
  <2> HIDE DEF big
  <2> QED BY ONLY <1>1, <2>1 DEF l
<1> HIDE DEF i, a, z, big, all, read
<1>6. Bl!F!Min({a + l, Bl!F!Max({a, Len(all)})}) = a + m
  <2> DEFINE u == IF a <= z THEN z ELSE a
  <2>1. Bl!F!Max({a, Len(all)}) = u
    <3>1. a \in Int /\ z \in Int
      BY <1>1, <1>3
    <3>2. Bl!F!Max({a, z}) = u
      BY <3>1, FMinMax
    <3> HIDE DEF u
    <3> QED BY <1>4, <3>2
  <2>2. u \in Nat /\ a + l \in Nat
    BY <1>1, <1>3, <1>5
  <2>3. Bl!F!Min({a + l, u}) = IF a + l <= u THEN a + l ELSE u
    <3> HIDE DEF u, l
    <3> QED BY <2>2, FMinMax
  <2>4. (IF a + l <= u THEN a + l ELSE u) = a + m
    BY <1>1, <1>3, <1>5
  <2> QED BY <2>1, <2>3, <2>4
<1> HIDE DEF l
<1>7. read = SubSeq(all, a + 1, a + m)
  <2>0. \A k \in 1..m : a + k \in 1..z /\ (a + k) - 1 = a + k - 1 /\ a + 1 + k - 1 = a + k
    BY <1>1, <1>3
  <2> HIDE DEF m
  <2>1. \A k \in a + 1..a + m : all[k] \in Cells
    <3>1. \A k \in a + 1..a + m : k \in 1..z
      <4> SUFFICES ASSUME NEW k \in a + 1..a + m PROVE k \in 1..z
        OBVIOUS
      <4>1. k - a \in 1..m /\ a + (k - a) = k
        BY <1>1, <1>3
      <4> QED BY <2>0, <4>1
    <3> QED BY <1>4, <3>1, ElementOfSeq
  <2>2. a + 1 \in Int /\ a + m \in Int
    BY <1>1, <1>3
  <2> DEFINE s == SubSeq(all, a + 1, a + m)
             e == a + 1
             g == a + m
  <2>3. /\ s \in Seq(Cells) /\ Len(s) = (IF e <= g THEN g - e + 1 ELSE 0)
        /\ \A k \in 1..g - e + 1 : s[k] = all[e + k - 1]
    <3>1. s = SubSeq(all, e, g) /\ e \in Int /\ g \in Int /\ \A k \in e..g : all[k] \in Cells
      BY <2>1, <2>2
    <3> HIDE DEF s, e, g
    <3> QED BY <3>1, SubSeqProperties
  <2>4. Len(s) = m /\ g - e + 1 = m
    <3>1. Len(s) = (IF e <= g THEN g - e + 1 ELSE 0)
      BY <2>3
    <3> HIDE DEF s
    <3> QED BY <1>1, <1>3, <3>1
  <2>5. \A k \in 1..m : s[k] = read[k]
    <3> SUFFICES ASSUME NEW k \in 1..m PROVE s[k] = read[k]
      OBVIOUS
    <3> DEFINE x == a + k - 1
    <3>1. s[k] = all[a + k]
      <4>1. s[k] = all[e + k - 1]
        <5> HIDE DEF s, e, g
        <5> QED BY <2>3, <2>4
      <4> HIDE DEF s
      <4> QED BY <2>0, <4>1
    <3>2. all[a + k] = Byte(blInode, blDisk, i, x)
      BY <1>4, <2>0
    <3>3. read[k] = Byte(blInode, blDisk, i, x)
      BY <1>3
    <3> HIDE DEF x, s
    <3> QED BY <3>1, <3>2, <3>3
  <2> HIDE DEF s, e, g
  <2>6. read = s
    BY <1>3, <2>3, <2>4, <2>5, SeqEqual
  <2> QED BY <2>6 DEF s
<1> HIDE DEF m
<1>8. /\ blGot' = [blGot EXCEPT ![p] = SubSeq(all, a + 1, a + m)]
      /\ blOff' = [blOff EXCEPT ![f] = a + m] /\ blOff'[f] = a + m
  <2>1. blGot'[p] = read
    BY <1>1, <1>2
  <2>2. blOff[f] + Len(read) = a + m
    BY <1>3 DEF a
  <2> QED BY <1>1, <1>2, <1>7, <2>1, <2>2
<1>9. \A j \in Inums : Bl!Content(j)' = Bl!Content(j)
  BY <1>2, ContentSame
<1>10. Bl!F!Read(p, f, l)
  <2> DEFINE content == [j \in Inums |-> Bl!Content(j)]
  <2>1. content[FileInum[f]] = all /\ blOff[f] = a
    BY <1>1 DEF i, a, all
  <2>2. [j \in Inums |-> Bl!Content(j)'] = content
    BY <1>9
  <2>3. blOff' = [blOff EXCEPT ![f] = Bl!F!Min({a + l, Bl!F!Max({a, Len(all)})})]
    BY <1>6, <1>8
  <2>4. blGot' = [blGot EXCEPT ![p] = SubSeq(all, a + 1, blOff'[f])]
    BY <1>8
  <2> QED BY <2>1, <2>2, <2>3, <2>4 DEF Bl!F!Read
<1>11. l \in 1..Bl!MAXFILE * BytesPerBlock
  BY <1>5 DEF big
<1> QED BY <1>10, <1>11 DEF Bl!F!Next, Bl!Files

LEMMA IputIsRenew ==
  ASSUME StoreInv, StoreInv', NEW i \in Inums, Bl!Iput(i)
  PROVE  [Bl!F!Next]_(Bl!F!vars)
<1> DEFINE content == [j \in Inums |-> Bl!Content(j)]
<1>1. /\ Bl!Itrunc(i) /\ blDisk' = blDisk /\ blGot' = blGot /\ blPanicked = ""
      /\ blOff' = [f \in Bl!Files |-> IF FileInum[f] = i /\ blPanicked' = "" THEN 0 ELSE blOff[f]]
  BY DEF Bl!Iput
<1>2. /\ blPanicked' = blPanicked
      /\ blInode'[i].size = 0 /\ \A j \in Inums \ {i} : blInode'[j] = blInode[j]
      /\ \A j \in Inums \ {i}, k \in Bl!Slots : AddrIn(blInode', blDisk', j, k) = Old(j, k)
  BY <1>1, ItruncKeeps
<1>3. Bl!Content(i)' = <<>>
  <2>1. Bl!Content(i)' \in Seq(Cells) /\ Len(Bl!Content(i)') = 0
    BY <1>2, ContentsNext
  <2> QED BY <2>1, EmptySeq
<1>4. ASSUME NEW j \in Inums \ {i} PROVE Bl!Content(j)' = Bl!Content(j)
  <2>1. ASSUME NEW x \in 0..blInode[j].size - 1
        PROVE  Byte(blInode', blDisk', j, x) = Byte(blInode, blDisk, j, x)
    <3> DEFINE k == Bl!Slot(x \div BytesPerBlock)
    <3>1. k \in Bl!Slots
      BY ByteIs
    <3> HIDE DEF k
    <3>2. AddrIn(blInode', blDisk', j, k) = AddrIn(blInode, blDisk, j, k)
      BY <1>2, <3>1 DEF Old
    <3> QED BY <1>1, <3>2 DEF Byte, k
  <2>2. blInode'[j].size = blInode[j].size
    BY <1>2
  <2> QED BY <2>1, <2>2, ContentSame
<1>5. [j \in Inums |-> Bl!Content(j)'] = [content EXCEPT ![i] = <<>>]
  BY <1>3, <1>4
<1>6. blOff' = [f \in DOMAIN FileInum |-> IF FileInum[f] = i THEN 0 ELSE blOff[f]]
  BY <1>1, <1>2 DEF Bl!Files
<1>7. Bl!F!Renew(i)
  BY <1>1, <1>5, <1>6 DEF Bl!F!Renew
<1> QED BY <1>7 DEF Bl!F!Next

\* What is read is what was written last, two writers of one open file never write over
\* each other, and a file made anew shows nothing of the old one.
THEOREM StorageIsFiles == Bl!Spec => ImplementsFileStore
<1>1. ASSUME Bl!Init PROVE StoreInv /\ Bl!F!Init
  <2>1. StoreInv
    BY <1>1, StoreStarts
  <2>2. ASSUME NEW i \in Inums PROVE Bl!Content(i) = <<>>
    <3>1. blInode[i].size = 0
      BY <1>1 DEF Bl!Init
    <3>2. Bl!Content(i) \in Seq(Cells) /\ Len(Bl!Content(i)) = 0
      BY <2>1, <3>1, ContentsNow DEF ContentRight
    <3> QED BY <3>2, EmptySeq
  <2>3. blOff = [f \in DOMAIN FileInum |-> 0] /\ blGot = [p \in Writers |-> <<>>]
    BY <1>1 DEF Bl!Init, Bl!Files
  <2>4. [i \in Inums |-> Bl!Content(i)] = [i \in Inums |-> <<>>]
    BY <2>2
  <2> QED BY <2>1, <2>3, <2>4 DEF Bl!F!Init
<1>2. ASSUME StoreInv, [Bl!Next]_(Bl!vars) PROVE StoreInv' /\ [Bl!F!Next]_(Bl!F!vars)
  <2>1. StoreInv'
    BY <1>2, StoreKept
  <2>2. ASSUME NEW p \in Writers, Bl!WriteChunk(p) PROVE [Bl!F!Next]_(Bl!F!vars)
    BY <1>2, <2>1, <2>2, WriteIsWrite
  <2>3. ASSUME NEW p \in Writers, NEW f \in Bl!Files, NEW n \in CallSizes, Bl!Filewrite(p, f, n, p)
        PROVE  [Bl!F!Next]_(Bl!F!vars)
    <3>1. blDisk' = blDisk /\ blInode' = blInode /\ blOff' = blOff /\ blGot' = blGot
      BY <2>3 DEF Bl!Filewrite
    <3> QED BY <1>2, <2>1, <3>1, FilesStay
  <2>4. ASSUME NEW p \in Writers, NEW f \in Bl!Files, NEW n \in CallSizes, Bl!Fileread(p, f, n)
        PROVE  [Bl!F!Next]_(Bl!F!vars)
    BY <1>2, <2>1, <2>4, ReadIsRead
  <2>5. ASSUME NEW i \in Inums, Bl!Iput(i) PROVE [Bl!F!Next]_(Bl!F!vars)
    BY <1>2, <2>1, <2>5, IputIsRenew
  <2>6. CASE UNCHANGED Bl!vars
    <3>1. blDisk' = blDisk /\ blInode' = blInode /\ blOff' = blOff /\ blGot' = blGot
      BY <2>6 DEF Bl!vars
    <3> QED BY <1>2, <2>1, <3>1, FilesStay
  <2> QED BY <1>2, <2>1, <2>2, <2>3, <2>4, <2>5, <2>6 DEF Bl!Next
<1> QED BY <1>1, <1>2, PTL DEF Bl!Spec, Bl!F!Spec, ImplementsFileStore

=============================================================================
