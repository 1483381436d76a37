---------------------------- MODULE SpinlockProofs ----------------------------
(***************************************************************************)
(* Proofs about spinlock.c: mutual exclusion, no panic, the interrupt flag *)
(* and the implementation of LockService, for any number of CPUs and       *)
(* locks.                                                                  *)
(***************************************************************************)
EXTENDS Spinlock, FiniteSetTheorems, TLAPS

USE SpinlockAssumption

LEMMA HeldFinite ==
  ASSUME TypeOK, NEW c \in Cpus
  PROVE  /\ HeldNow(c) \subseteq Locks
         /\ IsFiniteSet(HeldNow(c))
         /\ Cardinality(HeldNow(c)) \in Nat
         /\ Cardinality(HeldNow(c)) = 0 <=> HeldNow(c) = {}
<1>1. HeldNow(c) \subseteq Locks
  BY DEF TypeOK, HeldNow, Running, Code
<1>2. IsFiniteSet(HeldNow(c))
  BY <1>1, FS_Subset
<1> QED BY <1>1, <1>2, FS_CardinalityType, FS_EmptySet

\* The state of CPU d that only d itself changes is as it was.
SameCpu(d) ==
  /\ pc'[d] = pc[d] /\ lk'[d] = lk[d] /\ eflags'[d] = eflags[d]
  /\ ints'[d] = ints[d] /\ ncli'[d] = ncli[d] /\ intena'[d] = intena[d]
  /\ intr'[d] = intr[d] /\ held'[d] = held[d]

LEMMA SameCpuInv ==
  ASSUME NEW d \in Cpus, SameCpu(d)
  PROVE  /\ HeldNow(d)' = HeldNow(d)
         /\ Owned(d)' = Owned(d) /\ Named(d)' = Named(d)
         /\ CpuInv(d) => CpuInv(d)'
<1>1. HeldNow(d)' = HeldNow(d)
  BY DEF SameCpu, HeldNow, Running
<1>2. Owned(d)' = Owned(d) /\ Named(d)' = Named(d)
  BY <1>1 DEF SameCpu, Owned, Named
<1>3. CpuInv(d) => CpuInv(d)'
  BY <1>1 DEF SameCpu, CpuInv
<1> QED BY <1>1, <1>2, <1>3

LEMMA OthersSame ==
  ASSUME TypeOK, NEW c \in Cpus, CpuStep(c)
  PROVE  \A d \in Cpus \ {c} : SameCpu(d)
<1> TAKE d \in Cpus \ {c}
<1> USE DEF TypeOK, SameCpu, Goto
<1>1. ASSUME NEW l \in Locks, CallAcquire(c, l) PROVE SameCpu(d)
  BY <1>1 DEF CallAcquire
<1>2. ASSUME NEW l \in Locks, CallRelease(c, l) PROVE SameCpu(d)
  BY <1>2 DEF CallRelease
<1>3. CASE Cli(c)
  BY <1>3 DEF Cli
<1>4. CASE AcquireLocked(c)
  BY <1>4 DEF AcquireLocked
<1>5. CASE AcquireMine(c)
  BY <1>5 DEF AcquireMine
<1>6. CASE Xchg(c)
  BY <1>6 DEF Xchg
<1>7. CASE SetCpu(c)
  BY <1>7 DEF SetCpu
<1>8. CASE ReleaseLocked(c)
  BY <1>8 DEF ReleaseLocked
<1>9. CASE ReleaseMine(c)
  BY <1>9 DEF ReleaseMine
<1>10. CASE GiveUp(c)
  BY <1>10 DEF GiveUp
<1>11. CASE Popcli(c)
  BY <1>11 DEF Popcli
<1>12. CASE Interrupt(c)
  BY <1>12 DEF Interrupt
<1>13. CASE Iret(c)
  BY <1>13 DEF Iret
<1> QED BY <1>1, <1>2, <1>3, <1>4, <1>5, <1>6, <1>7, <1>8, <1>9, <1>10, <1>11,
           <1>12, <1>13 DEF CpuStep

-----------------------------------------------------------------------------
(* A step of CPU c is fine if c's own part of the invariant holds after it *)
(* and the locks c owns are accounted for.                                 *)

Accounted(c) ==
  \/ UNCHANGED <<locked, owner>> /\ Owned(c)' = Owned(c) /\ Named(c)' = Named(c)
  \/ \E l \in Locks :
       /\ ~locked[l] /\ locked' = [locked EXCEPT ![l] = TRUE] /\ owner' = owner
       /\ Owned(c)' = Owned(c) \cup {l} /\ Named(c)' = Named(c)
  \/ \E l \in Owned(c) :
       /\ l \in Locks /\ owner' = [owner EXCEPT ![l] = c] /\ locked' = locked
       /\ Owned(c)' = Owned(c) /\ Named(c)' = Named(c) \cup {l}
  \/ \E l \in Named(c) :
       /\ l \in Locks /\ owner' = [owner EXCEPT ![l] = NoCpu] /\ locked' = locked
       /\ Owned(c)' = Owned(c) /\ Named(c)' = Named(c) \ {l}
  \/ \E l \in Owned(c) \ Named(c) :
       /\ l \in Locks /\ locked' = [locked EXCEPT ![l] = FALSE] /\ owner' = owner
       /\ Owned(c)' = Owned(c) \ {l} /\ Named(c)' = Named(c)

LEMMA OwnedTypes ==
  ASSUME TypeOK, NEW c \in Cpus, CpuInv(c)
  PROVE  Owned(c) \subseteq Locks /\ Named(c) \subseteq Owned(c)
BY HeldFinite DEF CpuInv, Owned, Named, Releasing

LEMMA LockInvStep ==
  ASSUME TypeOK, \A d \in Cpus : CpuInv(d), LockInv, NEW c \in Cpus,
         \A d \in Cpus \ {c} : Owned(d)' = Owned(d) /\ Named(d)' = Named(d),
         Accounted(c)
  PROVE  LockInv'
<1> DEFINE Disjoint == \A d, e \in Cpus : d # e => Owned(d) \cap Owned(e) = {}
           Set == \A d \in Cpus : \A m \in Owned(d) : locked[m]
           Had == \A m \in Locks : locked[m] => \E d \in Cpus : m \in Owned(d)
           Ids == \A d \in Cpus, m \in Locks : owner[m] = d <=> m \in Named(d)
<1>1. Disjoint /\ Set /\ Had /\ Ids
  BY DEF LockInv
<1>2. \A d \in Cpus : Owned(d) \subseteq Locks /\ Named(d) \subseteq Owned(d)
  BY OwnedTypes
<1>3. locked \in [Locks -> BOOLEAN] /\ owner \in [Locks -> Cpus \cup {NoCpu}]
  BY DEF TypeOK
<1>4. CASE UNCHANGED <<locked, owner>> /\ Owned(c)' = Owned(c) /\ Named(c)' = Named(c)
  <2>1. \A d \in Cpus : Owned(d)' = Owned(d) /\ Named(d)' = Named(d)
    BY <1>4
  <2>2. Disjoint' /\ Set'
    BY <1>1, <1>4, <2>1
  <2>3. Had' /\ Ids'
    BY <1>1, <1>4, <2>1
  <2> QED BY <2>2, <2>3 DEF LockInv
<1>5. ASSUME NEW l \in Locks, ~locked[l], locked' = [locked EXCEPT ![l] = TRUE],
             owner' = owner, Owned(c)' = Owned(c) \cup {l}, Named(c)' = Named(c)
      PROVE  LockInv'
  <2>1. \A d \in Cpus : l \notin Owned(d)
    BY <1>1, <1>5
  <2>2. \A m \in Locks : locked'[m] = IF m = l THEN TRUE ELSE locked[m]
    BY <1>3, <1>5
  <2>3. Disjoint'
    BY <1>1, <1>5, <2>1
  <2>4. Set' /\ Had'
    <3>1. Set'
      <4> SUFFICES ASSUME NEW d \in Cpus, NEW m \in Owned(d)' PROVE locked'[m]
        OBVIOUS
      <4>1. m = l \/ m \in Owned(d)
        BY <1>5
      <4> QED BY <1>1, <1>2, <2>2, <4>1
    <3>2. Had'
      BY <1>1, <1>5, <2>2
    <3> QED BY <3>1, <3>2
  <2>5. Ids'
    BY <1>1, <1>5
  <2> QED BY <2>3, <2>4, <2>5 DEF LockInv
<1>6. ASSUME NEW l \in Owned(c), l \in Locks, owner' = [owner EXCEPT ![l] = c],
             locked' = locked, Owned(c)' = Owned(c), Named(c)' = Named(c) \cup {l}
      PROVE  LockInv'
  <2>1. \A d \in Cpus : Owned(d)' = Owned(d)
    BY <1>6
  <2>2. Disjoint' /\ Set'
    <3>1. Disjoint'
      BY <1>1, <2>1
    <3>2. Set'
      <4> SUFFICES ASSUME NEW d \in Cpus, NEW m \in Owned(d)' PROVE locked'[m]
        OBVIOUS
      <4>1. m \in Owned(d) /\ locked' = locked
        BY <1>6, <2>1
      <4> QED BY <1>1, <4>1
    <3> QED BY <3>1, <3>2
  <2>3. Had'
    BY <1>1, <1>6, <2>1
  <2>4. Ids'
    <3>1. \A m \in Locks : owner'[m] = IF m = l THEN c ELSE owner[m]
      BY <1>3, <1>6
    <3>2. \A d \in Cpus \ {c} : l \notin Named(d)
      BY <1>1, <1>2, <1>6
    <3> SUFFICES ASSUME NEW d \in Cpus, NEW m \in Locks
                 PROVE  owner'[m] = d <=> m \in Named(d)'
      OBVIOUS
    <3>3. CASE d = c
      BY <1>1, <1>6, <3>1, <3>3
    <3>4. CASE d # c
      BY <1>1, <3>1, <3>2, <3>4
    <3> QED BY <3>3, <3>4
  <2> QED BY <2>2, <2>3, <2>4 DEF LockInv
<1>7. ASSUME NEW l \in Named(c), l \in Locks, owner' = [owner EXCEPT ![l] = NoCpu],
             locked' = locked, Owned(c)' = Owned(c), Named(c)' = Named(c) \ {l}
      PROVE  LockInv'
  <2>1. \A d \in Cpus : Owned(d)' = Owned(d)
    BY <1>7
  <2>2. Disjoint' /\ Set'
    BY <1>1, <1>7, <2>1
  <2>3. Had'
    BY <1>1, <1>7, <2>1
  <2>4. Ids'
    <3>1. \A m \in Locks : owner'[m] = IF m = l THEN NoCpu ELSE owner[m]
      BY <1>3, <1>7
    <3>2. \A d \in Cpus \ {c} : l \notin Named(d)
      BY <1>1, <1>2, <1>7
    <3> SUFFICES ASSUME NEW d \in Cpus, NEW m \in Locks
                 PROVE  owner'[m] = d <=> m \in Named(d)'
      OBVIOUS
    <3>3. CASE d = c
      BY <1>1, <1>7, <3>1, <3>3
    <3>4. CASE d # c
      BY <1>1, <3>1, <3>2, <3>4
    <3> QED BY <3>3, <3>4
  <2> QED BY <2>2, <2>3, <2>4 DEF LockInv
<1>8. ASSUME NEW l \in Owned(c) \ Named(c), l \in Locks, owner' = owner,
             locked' = [locked EXCEPT ![l] = FALSE],
             Owned(c)' = Owned(c) \ {l}, Named(c)' = Named(c)
      PROVE  LockInv'
  <2>1. \A d \in Cpus \ {c} : l \notin Owned(d)
    BY <1>1, <1>8
  <2>2. \A m \in Locks : locked'[m] = IF m = l THEN FALSE ELSE locked[m]
    BY <1>3, <1>8
  <2>3. Disjoint'
    BY <1>1, <1>8
  <2>4. Set'
    <3> SUFFICES ASSUME NEW d \in Cpus, NEW m \in Owned(d)' PROVE locked'[m]
      OBVIOUS
    <3>1. m \in Owned(d) /\ m # l
      BY <1>8, <2>1
    <3> QED BY <1>1, <1>2, <2>2, <3>1
  <2>5. Had'
    <3> SUFFICES ASSUME NEW m \in Locks, locked'[m]
                 PROVE  \E d \in Cpus : m \in Owned(d)'
      OBVIOUS
    <3>1. m # l /\ locked[m]
      BY <2>2
    <3>2. PICK d \in Cpus : m \in Owned(d)
      BY <1>1, <3>1
    <3>3. m \in Owned(d)'
      BY <1>8, <3>1, <3>2
    <3> QED BY <3>3
  <2>6. Ids'
    BY <1>1, <1>8
  <2> QED BY <2>3, <2>4, <2>5, <2>6 DEF LockInv
<1> QED BY <1>4, <1>5, <1>6, <1>7, <1>8 DEF Accounted

-----------------------------------------------------------------------------
(* The steps of CPU c.                                                     *)

\* What has to be shown of each of them.
Fine(c) == TypeOK' /\ pc'[c] # "panic" /\ CpuInv(c)' /\ Accounted(c)

LEMMA NotBelowItself ==
  ASSUME NEW S, NEW l \in Locks, \A m \in S : m < l
  PROVE  l \notin S
<1> SUFFICES ASSUME l \in S PROVE FALSE
  OBVIOUS
<1>1. l < l /\ l \in Nat
  OBVIOUS
<1> QED BY <1>1

\* ncli counts the locks held, and the one being taken or given back.
LEMMA Counts ==
  ASSUME IInv, NEW c \in Cpus
  PROVE  /\ pc[c] \in Counted => ncli[c] = Cardinality(HeldNow(c)) + 1
         /\ pc[c] \notin Counted => ncli[c] = Cardinality(HeldNow(c))
         /\ Cardinality(HeldNow(c)) \in Nat
         /\ Cardinality(HeldNow(c)) = 0 <=> HeldNow(c) = {}
<1>1. /\ Cardinality(HeldNow(c)) \in Nat
      /\ Cardinality(HeldNow(c)) = 0 <=> HeldNow(c) = {}
  BY HeldFinite DEF IInv
<1>2. ncli[c] = Cardinality(HeldNow(c)) + (IF pc[c] \in Counted THEN 1 ELSE 0)
  BY DEF IInv, CpuInv
<1> QED BY <1>1, <1>2

LEMMA CallAcquireFine ==
  ASSUME IInv, NEW c \in Cpus, NEW l \in Locks, CallAcquire(c, l)
  PROVE  Fine(c)
<1> USE DEF IInv, TypeOK
<1>1. /\ pc[c] = "out" /\ pc'[c] = "cli" /\ lk'[c] = l /\ eflags'[c] = ints[c]
      /\ \A m \in HeldNow(c) : m < l
      /\ UNCHANGED <<locked, owner, ints, ncli, intena, intr, held>>
  BY DEF CallAcquire, Goto
<1>2. TypeOK'
  BY DEF CallAcquire, Goto, PCs
<1>3. HeldNow(c)' = HeldNow(c)
  BY <1>1 DEF HeldNow, Running
<1>4. CpuInv(c)'
  BY <1>1, <1>3 DEF CpuInv, Acquiring, Releasing, Counted
<1>5. Accounted(c)
  BY <1>1, <1>3 DEF Accounted, Owned, Named, Releasing
<1> QED BY <1>1, <1>2, <1>4, <1>5 DEF Fine

LEMMA CliFine ==
  ASSUME IInv, NEW c \in Cpus, Cli(c)
  PROVE  Fine(c)
<1> USE DEF IInv, TypeOK
<1>1. /\ pc[c] = "cli" /\ pc'[c] = "held?" /\ ints'[c] = FALSE
      /\ intena'[c] = IF ncli[c] = 0 THEN eflags[c] ELSE intena[c]
      /\ ncli'[c] = ncli[c] + 1
      /\ UNCHANGED <<locked, owner, lk, eflags, intr, held>>
  BY DEF Cli, Goto
<1>2. TypeOK'
  BY DEF Cli, Goto, PCs
<1>3. HeldNow(c)' = HeldNow(c)
  BY <1>1 DEF HeldNow, Running
<1>4. CpuInv(c)'
  <2>1. /\ CpuInv(c) /\ Cardinality(HeldNow(c)) \in Nat
        /\ Cardinality(HeldNow(c)) = 0 <=> HeldNow(c) = {}
    BY HeldFinite
  <2>2. ncli[c] = Cardinality(HeldNow(c)) /\ lk[c] \in Locks
    BY <1>1, <2>1 DEF CpuInv, Counted
  <2>3. intena'[c] <=> ~intr[c].on
    <3>1. CASE ncli[c] = 0
      <4>1. HeldNow(c) = {}
        BY <2>1, <2>2, <3>1
      <4>2. eflags[c] = ints[c] /\ (ints[c] <=> ~intr[c].on)
        BY <1>1, <2>1, <4>1 DEF CpuInv
      <4> QED BY <1>1, <3>1, <4>2
    <3>2. CASE ncli[c] # 0
      BY <1>1, <2>1, <2>2, <3>2 DEF CpuInv
    <3> QED BY <3>1, <3>2
  <2>4. \A m \in HeldNow(c) : m < lk[c]
    BY <1>1, <2>1 DEF CpuInv, Acquiring
  <2> QED BY <1>1, <1>3, <2>1, <2>2, <2>3, <2>4
          DEF CpuInv, Acquiring, Releasing, Counted
<1>5. Accounted(c)
  BY <1>1, <1>3 DEF Accounted, Owned, Named, Releasing
<1> QED BY <1>1, <1>2, <1>4, <1>5 DEF Fine

\* holding() in acquire() answers 0.
LEMMA AcquireTestFine ==
  ASSUME IInv, NEW c \in Cpus, AcquireLocked(c) \/ AcquireMine(c)
  PROVE  Fine(c)
<1> USE DEF IInv, TypeOK
<1>1. /\ pc[c] \in {"held?", "mine?"} /\ pc'[c] \in {"mine?", "spin"}
      /\ UNCHANGED <<locked, owner, lk, eflags, ints, ncli, intena, intr, held>>
      /\ pc' = [pc EXCEPT ![c] = pc'[c]]
  <2>1. CASE AcquireLocked(c)
    BY <2>1 DEF AcquireLocked, Goto
  <2>2. CASE AcquireMine(c)
    <3>1. pc[c] = "mine?" /\ lk[c] \in Locks /\ \A m \in HeldNow(c) : m < lk[c]
      BY <2>2 DEF AcquireMine, Goto, CpuInv, Acquiring
    <3>2. lk[c] \notin HeldNow(c)
      BY <3>1, NotBelowItself
    <3>3. lk[c] \notin Named(c)
      BY <3>1, <3>2 DEF Named, Releasing
    <3>4. owner[lk[c]] # c
      BY <3>1, <3>3 DEF LockInv
    <3> QED BY <2>2, <3>4 DEF AcquireMine, Goto
  <2> QED BY <2>1, <2>2
<1>2. TypeOK'
  BY <1>1 DEF PCs
<1>3. HeldNow(c)' = HeldNow(c)
  BY <1>1 DEF HeldNow, Running
<1>4. CpuInv(c)'
  BY <1>1, <1>3 DEF CpuInv, Acquiring, Releasing, Counted
<1>5. Accounted(c)
  BY <1>1, <1>3 DEF Accounted, Owned, Named, Releasing
<1> QED BY <1>1, <1>2, <1>4, <1>5 DEF Fine

LEMMA XchgFine ==
  ASSUME IInv, NEW c \in Cpus, Xchg(c)
  PROVE  Fine(c)
<1> USE DEF IInv, TypeOK
<1>1. /\ pc[c] = "spin" /\ pc'[c] = "own" /\ ~locked[lk[c]]
      /\ locked' = [locked EXCEPT ![lk[c]] = TRUE]
      /\ UNCHANGED <<owner, lk, eflags, ints, ncli, intena, intr, held>>
  BY DEF Xchg, Goto
<1>2. lk[c] \in Locks
  BY <1>1 DEF CpuInv
<1>3. TypeOK'
  BY <1>2 DEF Xchg, Goto, PCs
<1>4. HeldNow(c)' = HeldNow(c)
  BY <1>1 DEF HeldNow, Running
<1>5. CpuInv(c)'
  BY <1>1, <1>4 DEF CpuInv, Acquiring, Releasing, Counted
<1>6. Owned(c)' = Owned(c) \cup {lk[c]} /\ Named(c)' = Named(c)
  BY <1>1, <1>4 DEF Owned, Named, Releasing
<1>7. Accounted(c)
  BY <1>1, <1>2, <1>6 DEF Accounted
<1> QED BY <1>1, <1>3, <1>5, <1>7 DEF Fine

LEMMA SetCpuFine ==
  ASSUME IInv, NEW c \in Cpus, SetCpu(c)
  PROVE  Fine(c)
<1> USE DEF IInv, TypeOK
<1>1. /\ pc[c] = "own" /\ pc'[c] = "out"
      /\ owner' = [owner EXCEPT ![lk[c]] = c]
      /\ held' = [held EXCEPT ![c][Running(c)] = @ \cup {lk[c]}]
      /\ UNCHANGED <<locked, lk, eflags, ints, ncli, intena, intr>>
  BY DEF SetCpu, Goto
<1>2. lk[c] \in Locks /\ \A m \in HeldNow(c) : m < lk[c]
  BY <1>1 DEF CpuInv, Acquiring
<1>3. lk[c] \notin HeldNow(c)
  BY <1>2, NotBelowItself
<1>4. Running(c) \in Code /\ Running(c)' = Running(c)
  BY <1>1 DEF Running, Code
<1>5. TypeOK'
  BY <1>2, <1>4 DEF SetCpu, Goto, PCs
<1>6. /\ HeldNow(c)' = HeldNow(c) \cup {lk[c]}
      /\ \A x \in Code : x # Running(c) => held'[c][x] = held[c][x]
  BY <1>1, <1>4 DEF HeldNow
<1>7. Cardinality(HeldNow(c)') = Cardinality(HeldNow(c)) + 1
  BY <1>3, <1>6, HeldFinite, FS_AddElement
<1>8. CpuInv(c)'
  <2>1. ncli'[c] = Cardinality(HeldNow(c)') + 0
    BY <1>1, <1>7, HeldFinite DEF CpuInv, Counted
  <2>2. ~intr[c].on => held'[c]["handler"] = {}
    BY <1>6 DEF CpuInv, Running, Code
  <2>3. intr[c].on => held'[c]["kernel"] = {}
    BY <1>6 DEF CpuInv, Running, Code
  <2>4. ~ints[c] /\ HeldNow(c)' # {}
    BY <1>1, <1>6 DEF CpuInv
  <2> QED BY <1>1, <2>1, <2>2, <2>3, <2>4 DEF CpuInv, Acquiring, Releasing, Counted
<1>9. /\ Owned(c)' = Owned(c) /\ lk[c] \in Owned(c)
      /\ Named(c)' = Named(c) \cup {lk[c]}
  BY <1>1, <1>6 DEF Owned, Named, Releasing
<1>10. Accounted(c)
  BY <1>1, <1>2, <1>9 DEF Accounted
<1> QED BY <1>1, <1>5, <1>8, <1>10 DEF Fine

LEMMA CallReleaseFine ==
  ASSUME IInv, NEW c \in Cpus, NEW l \in Locks, CallRelease(c, l)
  PROVE  Fine(c)
<1> USE DEF IInv, TypeOK
<1>1. /\ pc[c] = "out" /\ pc'[c] = "locked?" /\ lk'[c] = l /\ l \in HeldNow(c)
      /\ held' = [held EXCEPT ![c][Running(c)] = @ \ {l}]
      /\ UNCHANGED <<locked, owner, eflags, ints, ncli, intena, intr>>
  BY DEF CallRelease, Goto
<1>2. Running(c) \in Code /\ Running(c)' = Running(c)
  BY <1>1 DEF Running, Code
<1>3. TypeOK'
  BY <1>2 DEF CallRelease, Goto, PCs
<1>4. /\ HeldNow(c)' = HeldNow(c) \ {l}
      /\ \A x \in Code : x # Running(c) => held'[c][x] = held[c][x]
  BY <1>1, <1>2 DEF HeldNow
<1>5. Cardinality(HeldNow(c)') = Cardinality(HeldNow(c)) - 1
  <2> DEFINE S == HeldNow(c)
  <2>1. IsFiniteSet(S) /\ l \in S
    BY <1>1, HeldFinite
  <2> HIDE DEF S
  <2>2. Cardinality(S \ {l}) = Cardinality(S) - 1
    BY <2>1, FS_RemoveElement
  <2> QED BY <1>4, <2>2 DEF S
<1>6. CpuInv(c)'
  <2>1. ncli'[c] = Cardinality(HeldNow(c)') + 1
    <3>1. "out" \notin Counted
      BY DEF Counted
    <3>2. ncli[c] = Cardinality(HeldNow(c)) /\ Cardinality(HeldNow(c)) \in Nat
      BY <1>1, <3>1, Counts
    <3> QED BY <1>1, <1>5, <3>2
  <2>2. ~intr[c].on => held'[c]["handler"] = {}
    BY <1>1, <1>4 DEF CpuInv, Running, Code, HeldNow
  <2>3. intr[c].on => held'[c]["kernel"] = {}
    BY <1>4 DEF CpuInv, Running, Code
  <2>4. ~ints[c]
    BY <1>1 DEF CpuInv
  <2>5. intena[c] <=> ~intr[c].on
    <3>1. Cardinality(HeldNow(c)) # 0
      BY <1>1, HeldFinite
    <3> QED BY <1>1, <3>1, HeldFinite DEF CpuInv, Counted
  <2> QED BY <1>1, <1>4, <2>1, <2>2, <2>3, <2>4, <2>5
          DEF CpuInv, Acquiring, Releasing, Counted
<1>7. Owned(c)' = Owned(c) /\ Named(c)' = Named(c)
  BY <1>1, <1>4 DEF Owned, Named, Releasing
<1>8. Accounted(c)
  BY <1>1, <1>7 DEF Accounted
<1> QED BY <1>1, <1>3, <1>6, <1>8 DEF Fine

\* holding() in release() answers 1.
LEMMA ReleaseTestFine ==
  ASSUME IInv, NEW c \in Cpus, ReleaseLocked(c) \/ ReleaseMine(c)
  PROVE  Fine(c)
<1> USE DEF IInv, TypeOK
<1>1. /\ pc[c] \in {"locked?", "owned?"} /\ pc'[c] \in {"owned?", "disown"}
      /\ UNCHANGED <<locked, owner, lk, eflags, ints, ncli, intena, intr, held>>
      /\ pc' = [pc EXCEPT ![c] = pc'[c]]
  <2>1. CASE ReleaseLocked(c)
    <3>1. pc[c] = "locked?" /\ lk[c] \in Owned(c)
      BY <2>1 DEF ReleaseLocked, Goto, Owned, Releasing
    <3>2. locked[lk[c]]
      BY <3>1 DEF LockInv
    <3> QED BY <2>1, <3>2 DEF ReleaseLocked, Goto
  <2>2. CASE ReleaseMine(c)
    <3>1. pc[c] = "owned?" /\ lk[c] \in Named(c) /\ lk[c] \in Locks
      BY <2>2 DEF ReleaseMine, Goto, Named, Releasing, CpuInv
    <3>2. owner[lk[c]] = c
      BY <3>1 DEF LockInv
    <3> QED BY <2>2, <3>2 DEF ReleaseMine, Goto
  <2> QED BY <2>1, <2>2
<1>2. TypeOK'
  BY <1>1 DEF PCs
<1>3. HeldNow(c)' = HeldNow(c)
  BY <1>1 DEF HeldNow, Running
<1>4. CpuInv(c)'
  BY <1>1, <1>3 DEF CpuInv, Acquiring, Releasing, Counted
<1>5. Accounted(c)
  BY <1>1, <1>3 DEF Accounted, Owned, Named, Releasing
<1> QED BY <1>1, <1>2, <1>4, <1>5 DEF Fine

LEMMA GiveUpFine ==
  ASSUME IInv, NEW c \in Cpus, GiveUp(c)
  PROVE  Fine(c)
<1> USE DEF IInv, TypeOK
<1>1. UNCHANGED <<lk, eflags, ints, ncli, intena, intr, held>>
  BY DEF GiveUp
<1>2. pc[c] \in {"disown", "clear"} /\ lk[c] \in Locks /\ lk[c] \notin HeldNow(c)
  BY DEF GiveUp, Goto, CpuInv, Releasing
<1>3. TypeOK'
  BY <1>2 DEF GiveUp, Goto, PCs
<1>4. HeldNow(c)' = HeldNow(c)
  BY <1>1 DEF HeldNow, Running
<1>5. CASE /\ pc[c] = "disown" /\ pc'[c] = "clear" /\ locked' = locked
           /\ owner' = [owner EXCEPT ![lk[c]] = NoCpu]
  <2>1. CpuInv(c)'
    BY <1>1, <1>4, <1>5 DEF CpuInv, Acquiring, Releasing, Counted
  <2>2. /\ Owned(c)' = Owned(c) /\ lk[c] \in Named(c)
        /\ Named(c)' = Named(c) \ {lk[c]}
    BY <1>1, <1>2, <1>4, <1>5 DEF Owned, Named, Releasing
  <2>3. Accounted(c)
    BY <1>2, <1>5, <2>2 DEF Accounted
  <2> QED BY <1>3, <1>5, <2>1, <2>3 DEF Fine
<1>6. CASE /\ pc[c] = "clear" /\ pc'[c] = "popcli" /\ owner' = owner
           /\ locked' = [locked EXCEPT ![lk[c]] = FALSE]
  <2>1. CpuInv(c)'
    BY <1>1, <1>4, <1>6 DEF CpuInv, Acquiring, Releasing, Counted
  <2>2. /\ Owned(c)' = Owned(c) \ {lk[c]} /\ lk[c] \in Owned(c) \ Named(c)
        /\ Named(c)' = Named(c)
    BY <1>1, <1>2, <1>4, <1>6 DEF Owned, Named, Releasing
  <2>3. Accounted(c)
    BY <1>2, <1>6, <2>2 DEF Accounted
  <2> QED BY <1>3, <1>6, <2>1, <2>3 DEF Fine
<1> QED BY <1>5, <1>6 DEF GiveUp, Goto

LEMMA PopcliFine ==
  ASSUME IInv, NEW c \in Cpus, Popcli(c)
  PROVE  Fine(c)
<1> USE DEF IInv, TypeOK
<1>1. pc[c] = "popcli" /\ UNCHANGED <<locked, owner, lk, eflags, intena, intr, held>>
  BY DEF Popcli, Goto
<1>2. /\ Cardinality(HeldNow(c)) \in Nat /\ ncli[c] = Cardinality(HeldNow(c)) + 1
      /\ Cardinality(HeldNow(c)) = 0 <=> HeldNow(c) = {}
      /\ ~ints[c] /\ (intena[c] <=> ~intr[c].on)
  <2>1. /\ Cardinality(HeldNow(c)) \in Nat
        /\ Cardinality(HeldNow(c)) = 0 <=> HeldNow(c) = {}
    BY HeldFinite
  <2>2. ncli[c] = Cardinality(HeldNow(c)) + 1
    BY <1>1, Counts DEF Counted
  <2>3. ncli[c] > 0
    BY <2>1, <2>2
  <2> QED BY <1>1, <2>1, <2>2, <2>3 DEF CpuInv
<1>3. /\ pc'[c] = "out" /\ ncli'[c] = Cardinality(HeldNow(c))
      /\ ints'[c] = (HeldNow(c) = {} /\ ~intr[c].on)
      /\ ncli' = [ncli EXCEPT ![c] = Cardinality(HeldNow(c))]
      /\ pc' = [pc EXCEPT ![c] = "out"]
  <2>1. ncli[c] - 1 = Cardinality(HeldNow(c))
    BY <1>2
  <2>2. pc' = [pc EXCEPT ![c] = "out"]
    <3>1. ~(ints[c] \/ ncli[c] - 1 < 0)
      BY <1>2, <2>1
    <3> QED BY <3>1 DEF Popcli, Goto
  <2>3. ncli' = [ncli EXCEPT ![c] = Cardinality(HeldNow(c))]
    BY <2>1 DEF Popcli
  <2>4. ints'[c] = IF HeldNow(c) = {} /\ intena[c] THEN TRUE ELSE ints[c]
    BY <1>2, <2>1 DEF Popcli
  <2> QED BY <1>2, <2>2, <2>3, <2>4
<1>4. TypeOK'
  <2>1. ints' \in [Cpus -> BOOLEAN]
    BY DEF Popcli
  <2> QED BY <1>1, <1>2, <1>3, <2>1 DEF PCs
<1>5. HeldNow(c)' = HeldNow(c)
  BY <1>1 DEF HeldNow, Running
<1>6. CpuInv(c)'
  BY <1>1, <1>2, <1>3, <1>5 DEF CpuInv, Acquiring, Releasing, Counted
<1>7. Accounted(c)
  BY <1>1, <1>3, <1>5 DEF Accounted, Owned, Named, Releasing
<1> QED BY <1>3, <1>4, <1>6, <1>7 DEF Fine

LEMMA InterruptFine ==
  ASSUME IInv, NEW c \in Cpus, Interrupt(c)
  PROVE  Fine(c)
<1> USE DEF IInv, TypeOK
<1>1. /\ ints[c] /\ ~intr[c].on
      /\ intr'[c] = [on |-> TRUE, pc |-> pc[c], lk |-> lk[c], eflags |-> eflags[c]]
      /\ ints'[c] = FALSE /\ pc'[c] = "out"
      /\ UNCHANGED <<locked, owner, lk, eflags, ncli, intena, held>>
  BY DEF Interrupt
<1>2. /\ HeldNow(c) = {} /\ held[c]["handler"] = {} /\ held[c]["kernel"] = {}
      /\ pc[c] \in {"out", "cli"} /\ ncli[c] = 0
      /\ pc[c] = "cli" => lk[c] \in Locks /\ eflags[c]
  <2>1. HeldNow(c) = {} /\ pc[c] \in {"out", "cli"}
    BY <1>1 DEF CpuInv
  <2>2. ncli[c] = 0
    BY <2>1, Counts, FS_EmptySet DEF Counted
  <2>3. pc[c] = "cli" => lk[c] \in Locks /\ eflags[c]
    BY <1>1 DEF CpuInv
  <2>4. held[c]["handler"] = {} /\ held[c]["kernel"] = {}
    BY <1>1, <2>1 DEF CpuInv, HeldNow, Running
  <2> QED BY <2>1, <2>2, <2>3, <2>4
<1>3. TypeOK'
  BY DEF Interrupt, PCs
<1>4. HeldNow(c)' = {}
  BY <1>1, <1>2 DEF HeldNow, Running
<1>5. CpuInv(c)'
  BY <1>1, <1>2, <1>4, FS_EmptySet DEF CpuInv, Acquiring, Releasing, Counted
<1>6. Accounted(c)
  BY <1>1, <1>2, <1>4 DEF Accounted, Owned, Named, Releasing
<1> QED BY <1>1, <1>3, <1>5, <1>6 DEF Fine

LEMMA IretFine ==
  ASSUME IInv, NEW c \in Cpus, Iret(c)
  PROVE  Fine(c)
<1> USE DEF IInv, TypeOK
<1>1. /\ intr[c].on /\ pc[c] = "out" /\ HeldNow(c) = {}
      /\ pc'[c] = intr[c].pc /\ lk'[c] = intr[c].lk /\ eflags'[c] = intr[c].eflags
      /\ ints'[c] = TRUE /\ intr'[c] = NoIntr
      /\ UNCHANGED <<locked, owner, ncli, intena, held>>
  BY DEF Iret
<1>2. /\ held[c]["handler"] = {} /\ held[c]["kernel"] = {} /\ ncli[c] = 0
      /\ intr[c].pc \in {"out", "cli"}
      /\ intr[c].pc = "cli" => intr[c].lk \in Locks /\ intr[c].eflags
  <2>1. ncli[c] = 0
    BY <1>1, Counts, FS_EmptySet DEF Counted
  <2>2. held[c]["handler"] = {} /\ held[c]["kernel"] = {}
    BY <1>1 DEF CpuInv, HeldNow, Running
  <2> QED BY <1>1, <2>1, <2>2 DEF CpuInv
<1>3. TypeOK'
  BY DEF Iret, PCs, NoIntr
<1>4. HeldNow(c)' = {} /\ ~intr'[c].on
  BY <1>1, <1>2 DEF HeldNow, Running, NoIntr
<1>5. CpuInv(c)'
  <2>1. Cardinality(HeldNow(c)') = 0
    BY <1>4, FS_EmptySet
  <2>2. ncli'[c] = 0 /\ pc'[c] \in {"out", "cli"} /\ ints'[c] = TRUE
    BY <1>1, <1>2
  <2>3. pc'[c] = "cli" => lk'[c] \in Locks /\ eflags'[c] = TRUE
    BY <1>1, <1>2
  <2>4. pc'[c] \notin Counted /\ pc'[c] \notin Releasing
    BY <2>2 DEF Counted, Releasing
  <2>5. held'[c]["handler"] = {}
    BY <1>1, <1>2
  <2>6. \A m \in HeldNow(c)' : m < lk'[c]
    BY <1>4
  <2>7. /\ ncli'[c] = Cardinality(HeldNow(c)') + (IF pc'[c] \in Counted THEN 1 ELSE 0)
        /\ ~(ncli'[c] > 0)
    BY <2>1, <2>2, <2>4
  <2>8. ints'[c] <=> ~intr'[c].on /\ HeldNow(c)' = {} /\ pc'[c] \in {"out", "cli"}
    BY <1>4, <2>2
  <2>9. pc'[c] = "cli" => eflags'[c] = ints'[c]
    BY <2>2, <2>3
  <2>10. pc'[c] # "out" => lk'[c] \in Locks
    BY <2>2, <2>3
  <2> QED BY <1>4, <2>4, <2>5, <2>6, <2>7, <2>8, <2>9, <2>10 DEF CpuInv
<1>6. Accounted(c)
  BY <1>1, <1>2, <1>4 DEF Accounted, Owned, Named, Releasing
<1> QED BY <1>1, <1>2, <1>3, <1>5, <1>6 DEF Fine

LEMMA CpuStepFine ==
  ASSUME IInv, NEW c \in Cpus, CpuStep(c)
  PROVE  Fine(c)
BY CallAcquireFine, CallReleaseFine, CliFine, AcquireTestFine, XchgFine, SetCpuFine,
   ReleaseTestFine, GiveUpFine, PopcliFine, InterruptFine, IretFine DEF CpuStep

-----------------------------------------------------------------------------
(* The theorems.                                                           *)

LEMMA InitIInv == Init => IInv
<1> SUFFICES ASSUME Init PROVE IInv
  OBVIOUS
<1>1. TypeOK
  BY DEF Init, TypeOK, NoIntr, PCs, Code
<1>2. \A c \in Cpus : /\ ~intr[c].on /\ HeldNow(c) = {} /\ Owned(c) = {}
                       /\ Named(c) = {} /\ held[c]["handler"] = {}
  BY DEF Init, NoIntr, HeldNow, Running, Code, Owned, Named, Releasing
<1>3. \A c \in Cpus : CpuInv(c)
  <2> TAKE c \in Cpus
  <2>1. /\ pc[c] = "out" /\ ints[c] = TRUE /\ ncli[c] = 0
        /\ Cardinality(HeldNow(c)) = 0
    BY <1>2, FS_EmptySet DEF Init
  <2> QED BY <1>2, <2>1 DEF CpuInv, Acquiring, Releasing, Counted
<1>4. LockInv
  BY <1>2 DEF Init, LockInv
<1>5. NoPanic
  BY DEF Init, NoPanic
<1> QED BY <1>1, <1>3, <1>4, <1>5 DEF IInv

LEMMA StepIInv == IInv /\ [Next]_vars => IInv'
<1> SUFFICES ASSUME IInv, [Next]_vars PROVE IInv'
  OBVIOUS
<1>1. ASSUME NEW c \in Cpus, CpuStep(c) PROVE IInv'
  <2>1. Fine(c)
    BY <1>1, CpuStepFine
  <2>2. \A d \in Cpus \ {c} : SameCpu(d)
    BY <1>1, OthersSame DEF IInv
  <2>3. \A d \in Cpus : CpuInv(d)'
    BY <2>1, <2>2, SameCpuInv DEF Fine, IInv
  <2>4. \A d \in Cpus \ {c} : Owned(d)' = Owned(d) /\ Named(d)' = Named(d)
    BY <2>2, SameCpuInv
  <2>5. LockInv'
    BY <2>1, <2>4, LockInvStep DEF Fine, IInv
  <2>6. NoPanic'
    BY <2>1, <2>2 DEF Fine, SameCpu, NoPanic, IInv
  <2> QED BY <2>1, <2>3, <2>5, <2>6 DEF Fine, IInv
<1>2. CASE UNCHANGED vars
  <2>1. \A d \in Cpus : SameCpu(d)
    BY <1>2 DEF vars, SameCpu
  <2>2. \A d \in Cpus : /\ CpuInv(d)' /\ Owned(d)' = Owned(d)
                         /\ Named(d)' = Named(d)
    BY <2>1, SameCpuInv DEF IInv
  <2>3. LockInv'
    BY <1>2, <2>2 DEF vars, LockInv, IInv
  <2>4. TypeOK' /\ NoPanic'
    BY <1>2 DEF vars, TypeOK, NoPanic, IInv
  <2> QED BY <2>2, <2>3, <2>4 DEF IInv
<1> QED BY <1>1, <1>2 DEF Next

\* The inductive invariant holds in every state of the spin locks.
THEOREM Invariance == Spec => []IInv
BY InitIInv, StepIInv, PTL DEF Spec

\* No lock is held in two places, be it two CPUs or a handler and the code it
\* interrupted.
THEOREM LocksExclude == Spec => []MutualExclusion
<1>1. IInv => MutualExclusion
  <2> SUFFICES ASSUME IInv, NEW c \in Cpus, NEW d \in Cpus, NEW x \in Code,
                      NEW y \in Code, <<c, x>> # <<d, y>>
               PROVE  held[c][x] \cap held[d][y] = {}
    BY DEF MutualExclusion
  <2>1. \A e \in Cpus : held[e]["kernel"] = {} \/ held[e]["handler"] = {}
    BY DEF IInv, CpuInv
  <2>2. \A e \in Cpus : \A z \in Code : held[e][z] \subseteq HeldNow(e)
    BY DEF IInv, CpuInv, HeldNow, Running, Code
  <2>3. CASE c = d
    BY <2>1, <2>3 DEF Code
  <2>4. CASE c # d
    <3>1. Owned(c) \cap Owned(d) = {}
      BY <2>4 DEF IInv, LockInv
    <3>2. HeldNow(c) \cap HeldNow(d) = {}
      BY <3>1 DEF Owned
    <3> QED BY <2>2, <3>2
  <2> QED BY <2>3, <2>4
<1> QED BY <1>1, Invariance, PTL

\* None of the panics of spinlock.c is reached.
THEOREM PanicsUnreachable == Spec => []NoPanic
<1>1. IInv => NoPanic
  BY DEF IInv
<1> QED BY <1>1, Invariance, PTL

\* A CPU that holds a lock has its interrupts off.
THEOREM InterruptsOffWhileHeld == Spec => []HeldWithInterruptsOff
<1>1. IInv => HeldWithInterruptsOff
  BY DEF IInv, CpuInv, HeldWithInterruptsOff, HeldNow, Running
<1> QED BY <1>1, Invariance, PTL

\* Locks exclude each other's critical sections, no panic of spinlock.c is reached, and
\* a holder cannot be interrupted.
THEOREM LocksSafe == Spec => []Safe
<1>1. IInv => TypeOK
  BY DEF IInv
<1>2. TypeOK /\ MutualExclusion /\ NoPanic /\ HeldWithInterruptsOff => Safe
  BY DEF Safe
<1> QED BY <1>1, <1>2, Invariance, LocksExclude, PanicsUnreachable, InterruptsOffWhileHeld, PTL

\* The interrupt flag comes back as it was with the last release.
THEOREM InterruptsRestored == Spec => []FlagRestored
<1>1. IInv => FlagRestored
  <2> SUFFICES ASSUME IInv, NEW c \in Cpus, pc[c] = "out", HeldNow(c) = {}
               PROVE  ncli[c] = 0 /\ (ints[c] <=> ~intr[c].on)
    BY DEF FlagRestored
  <2>1. ncli[c] = 0
    BY Counts, FS_EmptySet DEF Counted
  <2> QED BY <2>1 DEF IInv, CpuInv
<1> QED BY <1>1, Invariance, PTL

-----------------------------------------------------------------------------
(* The spin locks implement LockService.                                   *)

\* HolderOf(l) is the CPU that owns l.
HolderIsOwner ==
  \A l \in Locks : /\ \A c \in Cpus : HolderOf(l) = c <=> l \in Owned(c)
                   /\ HolderOf(l) = NoCpu <=> \A c \in Cpus : l \notin Owned(c)

LEMMA HolderKnown == IInv => HolderIsOwner
<1> SUFFICES ASSUME IInv, NEW l \in Locks
             PROVE  /\ \A c \in Cpus : HolderOf(l) = c <=> l \in Owned(c)
                    /\ HolderOf(l) = NoCpu <=> \A c \in Cpus : l \notin Owned(c)
  BY DEF HolderIsOwner
<1>1. CASE \E c \in Cpus : l \in Owned(c)
  <2>1. PICK c \in Cpus : l \in Owned(c)
    BY <1>1
  <2>2. \A d \in Cpus : l \in Owned(d) => d = c
    BY <2>1 DEF IInv, LockInv
  <2>3. HolderOf(l) \in Cpus /\ l \in Owned(HolderOf(l))
    BY <1>1 DEF HolderOf
  <2>4. HolderOf(l) = c
    BY <2>2, <2>3
  <2> QED BY <2>1, <2>2, <2>4
<1>2. CASE \A c \in Cpus : l \notin Owned(c)
  BY <1>2 DEF HolderOf
<1> QED BY <1>1, <1>2

LEMMA ServiceStep ==
  ASSUME IInv, HolderIsOwner, HolderIsOwner', [Next]_vars
  PROVE  [Service!Next]_([l \in Locks |-> HolderOf(l)])
<1> DEFINE holder == [l \in Locks |-> HolderOf(l)]
<1>1. ASSUME \A c \in Cpus : Owned(c)' = Owned(c)
      PROVE  holder' = holder
  <2> SUFFICES ASSUME NEW l \in Locks PROVE HolderOf(l)' = HolderOf(l)
    OBVIOUS
  <2>1. \A c \in Cpus : HolderOf(l)' = c <=> HolderOf(l) = c
    BY <1>1 DEF HolderIsOwner
  <2>2. HolderOf(l)' = NoCpu <=> HolderOf(l) = NoCpu
    BY <1>1 DEF HolderIsOwner
  <2>3. HolderOf(l) \in Cpus \cup {NoCpu}
    BY DEF HolderIsOwner
  <2> QED BY <2>1, <2>2, <2>3
<1>2. ASSUME NEW c \in Cpus, CpuStep(c) PROVE Service!Next \/ holder' = holder
  <2>1. Accounted(c) /\ CpuInv(c)'
    BY <1>2, CpuStepFine DEF Fine
  <2>2. \A d \in Cpus \ {c} : Owned(d)' = Owned(d)
    <3>1. \A d \in Cpus \ {c} : SameCpu(d)
      BY <1>2, OthersSame DEF IInv
    <3> QED BY <3>1, SameCpuInv
  <2>3. CASE Owned(c)' = Owned(c)
    BY <1>1, <2>2, <2>3
  <2>4. ASSUME NEW l \in Locks, ~locked[l], Owned(c)' = Owned(c) \cup {l}
        PROVE  Service!Next
    <3>1. \A d \in Cpus : l \notin Owned(d)
      BY <2>4 DEF IInv, LockInv
    <3>2. HolderOf(l) = NoCpu
      BY <3>1 DEF HolderIsOwner
    <3>3. HolderOf(l)' = c
      BY <2>4 DEF HolderIsOwner
    <3>4. ASSUME NEW m \in Locks, m # l PROVE HolderOf(m)' = HolderOf(m)
      <4>1. \A d \in Cpus : m \in Owned(d)' <=> m \in Owned(d)
        BY <2>2, <2>4, <3>4
      <4>2. \A d \in Cpus : HolderOf(m)' = d <=> HolderOf(m) = d
        BY <4>1 DEF HolderIsOwner
      <4>3. HolderOf(m)' = NoCpu <=> HolderOf(m) = NoCpu
        BY <4>1 DEF HolderIsOwner
      <4>4. HolderOf(m) \in Cpus \cup {NoCpu}
        BY DEF HolderIsOwner
      <4> QED BY <4>2, <4>3, <4>4
    <3>5. holder' = [holder EXCEPT ![l] = c]
      BY <3>3, <3>4
    <3>6. Service!Grant(c, l)
      BY <3>2, <3>5 DEF Service!Grant
    <3> QED BY <3>6 DEF Service!Next
  <2>5. ASSUME NEW l \in Locks, l \in Owned(c), Owned(c)' = Owned(c) \ {l}
        PROVE  Service!Next
    <3>1. HolderOf(l) = c
      BY <2>5 DEF HolderIsOwner
    <3>2. \A d \in Cpus : l \notin Owned(d)'
      BY <2>2, <2>5 DEF IInv, LockInv
    <3>3. HolderOf(l)' = NoCpu
      BY <3>2 DEF HolderIsOwner
    <3>4. ASSUME NEW m \in Locks, m # l PROVE HolderOf(m)' = HolderOf(m)
      <4>1. \A d \in Cpus : m \in Owned(d)' <=> m \in Owned(d)
        BY <2>2, <2>5, <3>4
      <4>2. \A d \in Cpus : HolderOf(m)' = d <=> HolderOf(m) = d
        BY <4>1 DEF HolderIsOwner
      <4>3. HolderOf(m)' = NoCpu <=> HolderOf(m) = NoCpu
        BY <4>1 DEF HolderIsOwner
      <4>4. HolderOf(m) \in Cpus \cup {NoCpu}
        BY DEF HolderIsOwner
      <4> QED BY <4>2, <4>3, <4>4
    <3>5. holder' = [holder EXCEPT ![l] = NoCpu]
      BY <3>3, <3>4
    <3>6. Service!GiveBack(c, l)
      BY <3>1, <3>5 DEF Service!GiveBack
    <3> QED BY <3>6 DEF Service!Next
  <2> QED BY <2>1, <2>3, <2>4, <2>5 DEF Accounted
<1>3. CASE UNCHANGED vars
  <2>1. \A c \in Cpus : Owned(c)' = Owned(c)
    BY <1>3 DEF vars, Owned, HeldNow, Running
  <2> QED BY <1>1, <2>1
<1> QED BY <1>2, <1>3 DEF Next

\* The spin locks implement the abstract lock service: every step of
\* spinlock.c grants one free lock, gives back one lock of its holder, or
\* changes nothing a caller can see.
THEOREM SpinlockImplementsService == Spec => ImplementsService
<1>1. Init => Service!Init
  <2> SUFFICES ASSUME Init, NEW l \in Locks PROVE HolderOf(l) = NoCpu
    BY DEF Service!Init
  <2>1. \A c \in Cpus : l \notin Owned(c)
    BY DEF Init, NoIntr, HeldNow, Running, Code, Owned, Releasing
  <2> QED BY <2>1 DEF HolderOf
<1>2. IInv /\ HolderIsOwner /\ HolderIsOwner' /\ [Next]_vars
        => [Service!Next]_([l \in Locks |-> HolderOf(l)])
  BY ServiceStep
<1>3. Spec => []HolderIsOwner
  BY HolderKnown, Invariance, PTL
<1> QED BY <1>1, <1>2, <1>3, Invariance, PTL DEF Spec, ImplementsService, Service!Spec

=============================================================================
