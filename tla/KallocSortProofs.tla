--------------------------- MODULE KallocSortProofs ---------------------------
(***************************************************************************)
(* Proofs about the page allocator of v2-sort/kalloc.c, for tables and     *)
(* memories of every size and any set of processes.                        *)
(***************************************************************************)
EXTENDS KallocSort, SequenceTheorems, FiniteSetTheorems, TLAPS

\* freerange() prepends a descending run of pages to the free list.
LEMMA FreeRangeType ==
  ASSUME NEW lo \in Nat, NEW hi \in Nat, lo <= hi, hi <= NPages,
         NEW list \in Seq(Pages)
  PROVE  /\ FreeRange(lo, hi, list) \in Seq(Pages)
         /\ Len(FreeRange(lo, hi, list)) = (hi - lo) + Len(list)
         /\ \A j \in 1 .. (hi - lo) : FreeRange(lo, hi, list)[j] = hi - j
<1> DEFINE run == [k \in 1 .. (hi - lo) |-> hi - k]
<1>1. hi - lo \in Nat
  OBVIOUS
<1>2. \A k \in 1 .. (hi - lo) : hi - k \in Pages
  BY KallocAssumption DEF Pages
<1>3. run \in Seq(Pages) /\ Len(run) = hi - lo
  <2>1. run \in [1 .. (hi - lo) -> Pages]
    BY <1>2
  <2>2. run \in Seq(Pages)
    BY <2>1, <1>1, SeqDef
  <2>3. DOMAIN run = 1 .. Len(run) /\ Len(run) \in Nat
    BY <2>2, LenProperties
  <2>4. DOMAIN run = 1 .. (hi - lo)
    OBVIOUS
  <2> HIDE DEF run
  <2>5. Len(run) = hi - lo
    BY <2>3, <2>4, <1>1
  <2> QED BY <2>2, <2>5
<1>4. \A j \in 1 .. (hi - lo) : run[j] = hi - j
  OBVIOUS
<1>5. FreeRange(lo, hi, list) = run \o list
  BY DEF FreeRange
<1> HIDE DEF run
<1>6. /\ run \o list \in Seq(Pages)
      /\ Len(run \o list) = Len(run) + Len(list)
      /\ \A i \in 1 .. Len(run) + Len(list) :
           (run \o list)[i] = IF i <= Len(run) THEN run[i] ELSE list[i - Len(run)]
  BY <1>3, ConcatProperties
<1>7. Len(list) \in Nat
  BY LenProperties
<1> QED BY <1>1, <1>3, <1>4, <1>5, <1>6, <1>7

LEMMA InitIInv == Init => IInv
<1> SUFFICES ASSUME Init PROVE IInv
  OBVIOUS
<1>1. <<>> \in Seq(Pages) /\ <<>> \in Seq(Pages \X (Labels \cup {FREE, 0}))
  BY EmptySeq
<1>2. TypeOK
  <2>1. /\ phase \in {"start", "low", "up"}
        /\ freelist \in Seq(Pages)
        /\ bootPages \subseteq Pages /\ reissued \subseteq Pages
        /\ exhausted \in BOOLEAN /\ quiet \in BOOLEAN
    BY <1>1 DEF Init
  <2>2. /\ framePid \in [Frames -> Labels \cup {FREE, 0}]
        /\ framePfn \in [Frames -> Pages \cup {NULL}]
        /\ holds \in [Labels -> SUBSET Pages]
    BY DEF Init
  <2>3. 0 \in 0 .. MaxReport /\ 0 \in 0 .. NFrames
    BY KallocAssumption
  <2>4. dump \in DumpStates
    BY <1>1, <2>3 DEF Init, NoDump, DumpStates
  <2> QED BY <2>1, <2>2, <2>4 DEF TypeOK
<1>3. BootOrder /\ NothingBeforeTable /\ DumpInside
  BY DEF Init, BootOrder, NothingBeforeTable, DumpInside, NoDump
<1>4. NoForeignNeighbour
  BY KallocAssumption DEF Init, NoForeignNeighbour, Frames
<1>5. TableExact
  BY DEF Init, TableExact
<1> QED BY <1>2, <1>3, <1>4, <1>5 DEF IInv, Init

-----------------------------------------------------------------------------
(* Boot.                                                                   *)

LEMMA Kinit1IInv == IInv /\ Kinit1 => IInv'
<1> SUFFICES ASSUME IInv, Kinit1 PROVE IInv'
  OBVIOUS
<1> USE KallocAssumption
<1>1. /\ freelist' \in Seq(Pages)
      /\ Len(freelist') = LowPages
      /\ \A j \in 1 .. LowPages : freelist'[j] = LowPages - j
  <2>1. freelist = <<>> /\ freelist' = FreeRange(0, LowPages, freelist)
    BY DEF Kinit1, IInv, BootOrder
  <2>2. freelist \in Seq(Pages)
    BY <2>1, EmptySeq
  <2>6. Len(freelist) = 0
    BY <2>1, EmptySeq
  <2> DEFINE lo == 0
              list == FreeRange(lo, LowPages, freelist)
  <2>0. lo = 0
    OBVIOUS
  <2>3. lo \in Nat /\ lo <= LowPages /\ LowPages <= NPages
    OBVIOUS
  <2> HIDE DEF lo
  <2>4. /\ list \in Seq(Pages)
        /\ Len(list) = (LowPages - lo) + Len(freelist)
        /\ \A j \in 1 .. (LowPages - lo) : list[j] = LowPages - j
    BY <2>2, <2>3, FreeRangeType
  <2>5. freelist' = list
    BY <2>1 DEF lo
  <2> HIDE DEF list
  <2> QED BY <2>0, <2>4, <2>5, <2>6
<1>2. TypeOK'
  BY <1>1 DEF Kinit1, IInv, TypeOK
<1>3. BootOrder'
  <2>1. bootPages' = LowPages .. LowPages - 1
    <3>1. LowPages .. LowPages - 1 = {}
      OBVIOUS
    <3>2. bootPages' = {}
      BY DEF Kinit1, IInv, BootOrder
    <3> QED BY <3>1, <3>2
  <2>2. phase' = "low"
    BY DEF Kinit1
  <2> QED BY <1>1, <2>1, <2>2 DEF BootOrder
<1>4. NothingBeforeTable' /\ DumpInside'
  BY DEF Kinit1, IInv, NothingBeforeTable, DumpInside
<1>5. NoForeignNeighbour' /\ TableExact'
  BY DEF Kinit1, IInv, NoForeignNeighbour, TableExact
<1> QED BY <1>2, <1>3, <1>4, <1>5 DEF IInv, Kinit1

LEMMA BootAllocIInv == IInv /\ BootAlloc => IInv'
<1> SUFFICES ASSUME IInv, BootAlloc PROVE IInv'
  OBVIOUS
<1> USE KallocAssumption
<1>1. PICK k \in 0 .. LowPages :
        /\ Len(freelist) = k
        /\ \A j \in 1 .. k : freelist[j] = k - j
        /\ bootPages = k .. LowPages - 1
  BY DEF IInv, BootOrder, BootAlloc
<1>2. freelist \in Seq(Pages) /\ freelist # <<>>
  BY DEF IInv, TypeOK, BootAlloc
<1>3. /\ freelist' \in Seq(Pages)
      /\ Len(freelist') = k - 1
      /\ \A j \in 1 .. k - 1 : freelist'[j] = freelist[j + 1]
  BY <1>1, <1>2, HeadTailProperties DEF BootAlloc
<1>4. k \in 1 .. LowPages
  BY <1>1, <1>2, EmptySeq
<1>5. Head(freelist) = k - 1
  BY <1>1, <1>2, <1>4
<1>6. bootPages' = k - 1 .. LowPages - 1
  BY <1>1, <1>4, <1>5 DEF BootAlloc
<1>7. BootOrder'
  <2>1. /\ k - 1 \in 0 .. LowPages
        /\ Len(freelist') = k - 1
        /\ \A j \in 1 .. k - 1 : freelist'[j] = (k - 1) - j
        /\ bootPages' = k - 1 .. LowPages - 1
    BY <1>1, <1>3, <1>4, <1>6
  <2>2. phase' = "low"
    BY DEF BootAlloc
  <2> QED BY <2>1, <2>2 DEF BootOrder
<1>8. TypeOK'
  <2>1. Head(freelist) \in Pages
    BY <1>2, HeadTailProperties
  <2> QED BY <1>3, <2>1 DEF BootAlloc, IInv, TypeOK
<1>9. /\ NothingBeforeTable' /\ DumpInside' /\ NoForeignNeighbour'
      /\ TableExact' /\ (~exhausted => reissued = {})'
  BY DEF BootAlloc, IInv, NothingBeforeTable, DumpInside, NoForeignNeighbour,
         TableExact
<1> QED BY <1>7, <1>8, <1>9 DEF IInv

LEMMA Kinit2IInv == IInv /\ Kinit2 => IInv'
<1> SUFFICES ASSUME IInv, Kinit2 PROVE IInv'
  OBVIOUS
<1> USE KallocAssumption
<1>1. /\ freelist' \in Seq(Pages)
      /\ Len(freelist') = (NPages - LowPages) + Len(freelist)
      /\ \A j \in 1 .. (NPages - LowPages) : freelist'[j] = NPages - j
  <2>1. freelist \in Seq(Pages)
    BY DEF IInv, TypeOK
  <2>2. freelist' = FreeRange(LowPages, NPages, freelist)
    BY DEF Kinit2
  <2>3. LowPages <= NPages /\ NPages <= NPages
    OBVIOUS
  <2> DEFINE list == FreeRange(LowPages, NPages, freelist)
  <2>4. /\ list \in Seq(Pages)
        /\ Len(list) = (NPages - LowPages) + Len(freelist)
        /\ \A j \in 1 .. (NPages - LowPages) : list[j] = NPages - j
    BY <2>1, <2>3, FreeRangeType
  <2> HIDE DEF list
  <2> QED BY <2>2, <2>4 DEF list
<1>2. Len(freelist) \in Nat
  BY LenProperties DEF IInv, TypeOK
<1>3. \A i \in Frames : i + 1 \in 1 .. (NPages - LowPages)
  BY DEF Frames
<1>4. \A i \in Frames : framePfn'[i] = NPages - 1 - i
  BY <1>1, <1>3 DEF Kinit2, Frames
<1>5. \A i \in Frames : framePid'[i] = FREE
  BY DEF Kinit2
<1>6. TypeOK'
  <2>1. framePid' \in [Frames -> Labels \cup {FREE, 0}]
    BY DEF Kinit2
  <2>2. framePfn' \in [Frames -> Pages \cup {NULL}]
    <3>1. \A i \in Frames : NPages - 1 - i \in Pages
      BY DEF Frames, Pages
    <3> QED BY <1>4, <3>1 DEF Kinit2
  <2> QED BY <1>1, <2>1, <2>2 DEF Kinit2, IInv, TypeOK
<1>7. BootOrder'
  <2>1. freelist' # <<>>
    BY <1>1, <1>2, EmptySeq
  <2>2. bootPages' \subseteq 0 .. LowPages - 1
    BY DEF Kinit2, IInv, BootOrder
  <2>3. phase' = "up"
    BY DEF Kinit2
  <2> QED BY <1>4, <1>5, <2>1, <2>2, <2>3 DEF BootOrder
<1>8. NothingBeforeTable' /\ DumpInside'
  BY DEF Kinit2, IInv, NothingBeforeTable, DumpInside
<1>9. NoForeignNeighbour'
  BY <1>5 DEF NoForeignNeighbour, FREE, Frames
<1>10. TableExact'
  <2>1. \A l \in Labels : holds'[l] = {}
    BY DEF Kinit2, IInv, NothingBeforeTable
  <2>2. FREE \notin Labels
    BY DEF FREE, Labels, UNKNOWN
  <2> QED BY <1>5, <2>1, <2>2 DEF TableExact
<1> QED BY <1>6, <1>7, <1>8, <1>9, <1>10 DEF IInv, Kinit2

-----------------------------------------------------------------------------
(* Allocation and release.                                                 *)

\* What every allocation and release leaves alone.
Rest == UNCHANGED <<phase, freelist, framePfn, bootPages, dump>>

\* The labels are no frame states: FREE, 0 and the labels are all distinct.
LEMMA LabelsDistinct ==
  /\ FREE \notin Labels /\ FREE \notin Pids /\ UNKNOWN \notin Pids
  /\ FREE # UNKNOWN /\ UNKNOWN \in Labels /\ Pids \subseteq Labels
BY KallocAssumption DEF FREE, UNKNOWN, Labels

\* Taking a free frame whose neighbours the label may have keeps the invariant.
LEMMA TakeIInv ==
  ASSUME IInv, phase = "up", NEW label \in Labels, NEW c \in Frames,
         framePid[c] = FREE, Take(c, label), quiet' = FALSE, Rest,
         label \in Pids =>
           \A i \in Frames : i = c - 1 \/ i = c + 1
             => framePid[i] \in {label, FREE, UNKNOWN}
  PROVE  IInv'
<1> USE KallocAssumption, LabelsDistinct
<1>1. /\ framePid' = [framePid EXCEPT ![c] = label]
      /\ holds' = [holds EXCEPT ![label] = @ \cup {framePfn[c]}]
      /\ exhausted' = exhausted
      /\ reissued' = IF \E l \in Labels : framePfn[c] \in holds[l]
                       THEN reissued \cup {framePfn[c]} ELSE reissued
  BY DEF Take, Return
<1>2. /\ phase' = phase /\ freelist' = freelist /\ framePfn' = framePfn
      /\ bootPages' = bootPages /\ dump' = dump
  BY DEF Rest
<1>3. /\ framePid \in [Frames -> Labels \cup {FREE, 0}]
      /\ holds \in [Labels -> SUBSET Pages]
      /\ \A i \in Frames : framePfn[i] = NPages - 1 - i
  BY DEF IInv, TypeOK, BootOrder
<1>4. \A i \in Frames : NPages - 1 - i \in Pages
  BY DEF Frames, Pages
<1>5. /\ \A i \in Frames : framePid'[i] = IF i = c THEN label ELSE framePid[i]
      /\ \A l \in Labels :
           holds'[l] = IF l = label THEN holds[l] \cup {framePfn[c]} ELSE holds[l]
  BY <1>1, <1>3
<1>6. \A i, j \in Frames : framePfn[i] = framePfn[j] => i = j
  BY <1>3 DEF Frames
<1>7. TypeOK'
  <2>1. framePid' \in [Frames -> Labels \cup {FREE, 0}]
    BY <1>1, <1>3
  <2>2. framePfn[c] \in Pages
    BY <1>3, <1>4
  <2>3. holds' \in [Labels -> SUBSET Pages] /\ reissued' \subseteq Pages
    BY <1>1, <1>3, <2>2 DEF IInv, TypeOK
  <2> QED BY <1>1, <1>2, <2>1, <2>3 DEF IInv, TypeOK
<1>8. BootOrder' /\ NothingBeforeTable' /\ DumpInside'
  BY <1>2, <1>5 DEF IInv, BootOrder, NothingBeforeTable, DumpInside
<1>9. NoForeignNeighbour'
  <2> SUFFICES ASSUME NEW i \in 0 .. NFrames - 2,
                      framePid'[i] \in Pids, framePid'[i + 1] \in Pids
               PROVE  framePid'[i] = framePid'[i + 1]
    BY DEF NoForeignNeighbour
  <2>1. i \in Frames /\ i + 1 \in Frames /\ i # i + 1
    BY DEF Frames
  <2>2. CASE i = c
    <3>1. framePid'[i] = label /\ framePid'[i + 1] = framePid[i + 1]
      BY <1>5, <2>1, <2>2
    <3>2. framePid[i + 1] \in {label, FREE, UNKNOWN}
      BY <2>1, <2>2, <3>1
    <3> QED BY <3>1, <3>2
  <2>3. CASE i + 1 = c
    <3>1. framePid'[i + 1] = label /\ framePid'[i] = framePid[i]
      BY <1>5, <2>1, <2>3
    <3>2. i = c - 1
      BY <2>3 DEF Frames
    <3>3. framePid[i] \in {label, FREE, UNKNOWN}
      BY <2>1, <3>1, <3>2
    <3> QED BY <3>1, <3>3
  <2>4. CASE i # c /\ i + 1 # c
    BY <1>5, <2>1, <2>4 DEF IInv, NoForeignNeighbour
  <2> QED BY <2>2, <2>3, <2>4
<1>10. TableExact'
  <2> SUFFICES ASSUME ~exhausted
               PROVE  /\ \A i \in Frames, l \in Labels :
                           framePid'[i] = l <=> framePfn[i] \in holds'[l]
                      /\ \A l \in Labels : \A p \in holds'[l] :
                           \E i \in Frames : framePfn[i] = p
    BY <1>1, <1>2 DEF TableExact
  <2>1. /\ \A i \in Frames, l \in Labels :
             framePid[i] = l <=> framePfn[i] \in holds[l]
        /\ \A l \in Labels : \A p \in holds[l] : \E i \in Frames : framePfn[i] = p
    BY DEF IInv, TableExact
  <2>2. ASSUME NEW i \in Frames, NEW l \in Labels
        PROVE  framePid'[i] = l <=> framePfn[i] \in holds'[l]
    <3>0. framePid[i] = l <=> framePfn[i] \in holds[l]
      BY <2>1
    <3>1. framePfn[i] \in holds'[l]
            <=> framePfn[i] \in holds[l] \/ (l = label /\ framePfn[i] = framePfn[c])
      BY <1>5
    <3>2. framePfn[i] = framePfn[c] <=> i = c
      BY <1>6
    <3>3. framePid'[i] = IF i = c THEN label ELSE framePid[i]
      BY <1>5
    <3>4. CASE i = c
      BY <3>0, <3>1, <3>3, <3>4
    <3>5. CASE i # c
      BY <3>0, <3>1, <3>2, <3>3, <3>5
    <3> QED BY <3>4, <3>5
  <2>3. ASSUME NEW l \in Labels, NEW p \in holds'[l]
        PROVE  \E i \in Frames : framePfn[i] = p
    <3>1. p \in holds[l] \/ p = framePfn[c]
      BY <1>5
    <3> QED BY <2>1, <3>1
  <2> QED BY <2>2, <2>3
<1>11. ~exhausted' => reissued' = {}
  BY <1>1 DEF IInv, TableExact
<1> QED BY <1>7, <1>8, <1>9, <1>10, <1>11 DEF IInv

\* A call that finds no frame disturbs only what holds before any such call.
LEMMA FallThroughIInv ==
  ASSUME IInv, phase = "up", NEW label \in Labels,
         FallThrough(label), quiet' = FALSE, Rest
  PROVE  IInv'
<1>1. freelist \in Seq(Pages) /\ freelist # <<>>
  BY DEF IInv, TypeOK, BootOrder
<1>2. Head(freelist) \in Pages
  BY <1>1, HeadTailProperties
<1>3. /\ exhausted' = TRUE /\ framePid' = framePid
      /\ phase' = phase /\ freelist' = freelist /\ framePfn' = framePfn
      /\ bootPages' = bootPages /\ dump' = dump
  BY DEF FallThrough, Rest
<1>4. holds' \in [Labels -> SUBSET Pages] /\ reissued' \subseteq Pages
  BY <1>2 DEF FallThrough, Return, IInv, TypeOK
<1>5. TypeOK'
  BY <1>3, <1>4 DEF IInv, TypeOK
<1>6. /\ BootOrder' /\ NothingBeforeTable' /\ DumpInside' /\ NoForeignNeighbour'
      /\ TableExact'
  BY <1>3 DEF IInv, BootOrder, NothingBeforeTable, DumpInside,
              NoForeignNeighbour, TableExact
<1> QED BY <1>3, <1>5, <1>6 DEF IInv

LEMMA KallocIInv == IInv /\ Kalloc => IInv'
<1> SUFFICES ASSUME IInv, Kalloc PROVE IInv'
  OBVIOUS
<1>1. phase = "up" /\ quiet' = FALSE /\ Rest
  BY DEF Kalloc, Rest
<1>2. UNKNOWN \in Labels /\ UNKNOWN \notin Pids
  BY LabelsDistinct
<1>3. ASSUME NEW c \in Frames, IsFree(c), Take(c, UNKNOWN) PROVE IInv'
  BY <1>1, <1>2, <1>3, TakeIInv DEF IsFree
<1>4. ASSUME FallThrough(UNKNOWN) PROVE IInv'
  BY <1>1, <1>2, <1>4, FallThroughIInv
<1> QED BY <1>3, <1>4 DEF Kalloc

\* A frame that suits a process is free and has no foreign neighbour.
LEMMA SuitsSound ==
  ASSUME IInv, phase = "up", NEW label \in Labels, NEW c \in Frames,
         NEW beside \in Beside, Suits(c, label, beside)
  PROVE  /\ framePid[c] = FREE
         /\ label \in Pids =>
              \A i \in Frames : i = c - 1 \/ i = c + 1
                => framePid[i] \in {label, FREE, UNKNOWN}
<1> USE KallocAssumption
<1>1. framePid[c] = FREE
  BY DEF Suits
<1>2. ASSUME label \in Pids, NEW i \in Frames, i = c - 1 \/ i = c + 1
      PROVE  framePid[i] \in {label, FREE, UNKNOWN}
  <2>1. PidAt(i, beside) = framePid[i]
    BY DEF PidAt, Frames
  <2>2. label # UNKNOWN
    BY <1>2, LabelsDistinct
  <2>3. CASE c = 0 /\ PidAt(c + 1, beside) = FREE
    <3>1. i = c + 1
      BY <1>2, <2>3 DEF Frames
    <3> QED BY <2>1, <2>3, <3>1
  <2>4. CASE /\ Admissible(PidAt(c - 1, beside), label)
             /\ Admissible(PidAt(c + 1, beside), label)
    BY <1>2, <2>1, <2>4 DEF Admissible
  <2> QED BY <2>2, <2>3, <2>4 DEF Suits
<1> QED BY <1>1, <1>2

LEMMA Kalloc2IInv == IInv /\ (\E l \in Labels : Kalloc2(l)) => IInv'
<1> SUFFICES ASSUME IInv, NEW label \in Labels, Kalloc2(label) PROVE IInv'
  OBVIOUS
<1>1. phase = "up" /\ quiet' = FALSE /\ Rest
  BY DEF Kalloc2, Rest
<1>2. ASSUME NEW beside \in Beside, NEW c \in Frames,
             Suits(c, label, beside), Take(c, label)
      PROVE  IInv'
  <2>1. /\ framePid[c] = FREE
        /\ label \in Pids =>
             \A i \in Frames : i = c - 1 \/ i = c + 1
               => framePid[i] \in {label, FREE, UNKNOWN}
    BY <1>1, <1>2, SuitsSound
  <2> QED BY <1>1, <1>2, <2>1, TakeIInv
<1>3. ASSUME FallThrough(label) PROVE IInv'
  BY <1>1, <1>3, FallThroughIInv
<1> QED BY <1>2, <1>3 DEF Kalloc2

LEMMA KfreeIInv == IInv /\ (\E l \in Labels, p \in Pages : Kfree(l, p)) => IInv'
<1> SUFFICES ASSUME IInv, NEW label \in Labels, NEW page \in Pages,
                    Kfree(label, page)
             PROVE  IInv'
  OBVIOUS
<1> USE KallocAssumption, LabelsDistinct
<1>1. /\ phase = "up" /\ phase' = phase /\ freelist' = freelist
      /\ framePfn' = framePfn /\ bootPages' = bootPages /\ dump' = dump
      /\ exhausted' = exhausted /\ reissued' = reissued /\ quiet' = FALSE
      /\ page \in holds[label]
      /\ holds' = [holds EXCEPT ![label] = @ \ {page}]
  BY DEF Kfree
<1>2. /\ framePid \in [Frames -> Labels \cup {FREE, 0}]
      /\ holds \in [Labels -> SUBSET Pages]
      /\ \A i \in Frames : framePfn[i] = NPages - 1 - i
  BY <1>1 DEF IInv, TypeOK, BootOrder
<1>3. \A i, j \in Frames : framePfn[i] = framePfn[j] => i = j
  BY <1>2 DEF Frames
<1>4. \A l \in Labels : holds'[l] = IF l = label THEN holds[l] \ {page} ELSE holds[l]
  BY <1>1, <1>2
<1>5. framePid' \in [Frames -> Labels \cup {FREE, 0}]
  <2>1. CASE framePid' = framePid
    BY <1>2, <2>1
  <2>2. ASSUME NEW i \in Frames, framePid' = [framePid EXCEPT ![i] = FREE]
        PROVE  framePid' \in [Frames -> Labels \cup {FREE, 0}]
    BY <1>2, <2>2
  <2> QED BY <2>1, <2>2 DEF Kfree, Lookup
<1>6. \A i \in Frames :
        framePid'[i] = IF framePfn[i] = page THEN FREE ELSE framePid[i]
  <2>1. CASE Lookup(page) = {} /\ framePid' = framePid
    BY <2>1 DEF Lookup
  <2>2. ASSUME NEW k \in Lookup(page), framePid' = [framePid EXCEPT ![k] = FREE]
        PROVE  \A i \in Frames :
                 framePid'[i] = IF framePfn[i] = page THEN FREE ELSE framePid[i]
    <3>1. k \in Frames /\ framePfn[k] = page
      BY DEF Lookup
    <3>2. \A i \in Frames : framePfn[i] = page <=> i = k
      BY <1>3, <3>1
    <3> QED BY <1>2, <2>2, <3>1, <3>2
  <2> QED BY <2>1, <2>2 DEF Kfree
<1>7. TypeOK'
  <2>1. holds' \in [Labels -> SUBSET Pages]
    BY <1>1, <1>2
  <2> QED BY <1>1, <1>5, <2>1 DEF IInv, TypeOK
<1>8. BootOrder' /\ NothingBeforeTable' /\ DumpInside'
  BY <1>1, <1>6 DEF IInv, BootOrder, NothingBeforeTable, DumpInside
<1>9. NoForeignNeighbour'
  <2> SUFFICES ASSUME NEW i \in 0 .. NFrames - 2,
                      framePid'[i] \in Pids, framePid'[i + 1] \in Pids
               PROVE  framePid'[i] = framePid'[i + 1]
    BY DEF NoForeignNeighbour
  <2>1. i \in Frames /\ i + 1 \in Frames
    BY DEF Frames
  <2>2. framePid'[i] = framePid[i] /\ framePid'[i + 1] = framePid[i + 1]
    BY <1>6, <2>1
  <2> QED BY <2>2 DEF IInv, NoForeignNeighbour
<1>10. TableExact'
  <2> SUFFICES ASSUME ~exhausted
               PROVE  /\ \A i \in Frames, l \in Labels :
                           framePid'[i] = l <=> framePfn[i] \in holds'[l]
                      /\ \A l \in Labels : \A p \in holds'[l] :
                           \E i \in Frames : framePfn[i] = p
    BY <1>1 DEF TableExact
  <2>1. /\ \A i \in Frames, l \in Labels :
             framePid[i] = l <=> framePfn[i] \in holds[l]
        /\ \A l \in Labels : \A p \in holds[l] : \E i \in Frames : framePfn[i] = p
    BY <1>1 DEF IInv, TableExact
  <2>2. ASSUME NEW i \in Frames, NEW l \in Labels
        PROVE  framePid'[i] = l <=> framePfn[i] \in holds'[l]
    <3>0. framePfn[i] \in holds'[l]
            <=> framePfn[i] \in holds[l] /\ ~(l = label /\ framePfn[i] = page)
      BY <1>4
    <3>1. CASE framePfn[i] # page
      <4>1. framePid'[i] = framePid[i]
        BY <1>6, <3>1
      <4> QED BY <2>1, <3>0, <3>1, <4>1
    <3>2. CASE framePfn[i] = page
      <4>1. framePid'[i] # l
        BY <1>6, <3>2
      <4>2. framePid[i] = label
        BY <1>1, <2>1, <3>2
      <4>3. l # label => framePfn[i] \notin holds[l]
        BY <2>1, <4>2
      <4> QED BY <3>0, <3>2, <4>1, <4>3
    <3> QED BY <3>1, <3>2
  <2>3. ASSUME NEW l \in Labels, NEW p \in holds'[l]
        PROVE  \E i \in Frames : framePfn[i] = p
    <3>1. p \in holds[l]
      BY <1>4
    <3> QED BY <2>1, <3>1
  <2> QED BY <2>2, <2>3
<1>11. ~exhausted' => reissued' = {}
  BY <1>1 DEF IInv
<1> QED BY <1>7, <1>8, <1>9, <1>10, <1>11 DEF IInv

-----------------------------------------------------------------------------
(* dump_physmem() reads only.                                              *)

\* A step of the dump keeps the invariant if it keeps the type of its state.
LEMMA DumpIInv ==
  ASSUME IInv, UNCHANGED memory, phase = "up", dump' \in DumpStates,
         dump'.pc = "report" => dump'.i \in Frames, quiet' \in BOOLEAN
  PROVE  IInv'
<1>1. TypeOK'
  BY DEF IInv, TypeOK, memory
<1>2. /\ BootOrder' /\ NothingBeforeTable' /\ DumpInside' /\ NoForeignNeighbour'
      /\ TableExact' /\ (~exhausted => reissued = {})'
  BY DEF memory, IInv, BootOrder, NothingBeforeTable, DumpInside,
         NoForeignNeighbour, TableExact
<1> QED BY <1>1, <1>2 DEF IInv

LEMMA DumpCallIInv == IInv /\ (\E n \in 1 .. MaxReport : DumpCall(n)) => IInv'
<1> SUFFICES ASSUME IInv, NEW n \in 1 .. MaxReport, DumpCall(n) PROVE IInv'
  OBVIOUS
<1>1. /\ UNCHANGED memory /\ phase = "up" /\ quiet' = TRUE
      /\ dump' = [pc |-> "test", n |-> n, i |-> 0, out |-> <<>>]
  BY DEF DumpCall
<1>2. <<>> \in Seq(Pages \X (Labels \cup {FREE, 0}))
  BY EmptySeq
<1>3. n \in 0 .. MaxReport /\ 0 \in 0 .. NFrames
  BY KallocAssumption
<1>4. dump' \in DumpStates /\ dump'.pc # "report"
  BY <1>1, <1>2, <1>3 DEF DumpStates
<1> QED BY <1>1, <1>4, DumpIInv

\* A dump in progress: the table is up.
LEMMA DumpRuns == IInv /\ dump.pc # "idle" => phase = "up" /\ dump \in DumpStates
BY DEF IInv, TypeOK, NothingBeforeTable

LEMMA DumpTestIInv == IInv /\ DumpTest => IInv'
<1> SUFFICES ASSUME IInv, DumpTest PROVE IInv'
  OBVIOUS
<1>1. UNCHANGED memory /\ quiet' = quiet /\ dump.pc = "test" /\ dump.i \in Frames
  BY DEF DumpTest
<1>2. phase = "up" /\ dump \in DumpStates /\ quiet' \in BOOLEAN
  BY <1>1, DumpRuns DEF IInv, TypeOK
<1>3. dump.i + 1 \in 0 .. NFrames
  BY <1>1, KallocAssumption DEF Frames
<1>4. CASE dump' = [dump EXCEPT !.pc = "report"]
  <2>1. dump' \in DumpStates /\ dump'.i = dump.i
    BY <1>2, <1>4 DEF DumpStates
  <2> QED BY <1>1, <1>2, <2>1, DumpIInv
<1>5. CASE dump' = [dump EXCEPT !.i = @ + 1]
  <2>1. dump' \in DumpStates /\ dump'.pc # "report"
    BY <1>1, <1>2, <1>3, <1>5 DEF DumpStates
  <2> QED BY <1>1, <1>2, <2>1, DumpIInv
<1> QED BY <1>4, <1>5 DEF DumpTest

LEMMA DumpReportIInv == IInv /\ DumpReport => IInv'
<1> SUFFICES ASSUME IInv, DumpReport PROVE IInv'
  OBVIOUS
<1> DEFINE entry == <<framePfn[dump.i], framePid[dump.i]>>
           out == Append(dump.out, entry)
           pc == IF Len(out) < dump.n THEN "test" ELSE "done"
<1>1. /\ UNCHANGED memory /\ quiet' = quiet /\ dump.pc = "report"
      /\ dump' = [dump EXCEPT !.out = out, !.i = @ + 1, !.pc = pc]
  BY DEF DumpReport
<1>2. phase = "up" /\ dump \in DumpStates /\ quiet' \in BOOLEAN
  BY <1>1, DumpRuns DEF IInv, TypeOK
<1>3. dump.i \in Frames /\ dump.i + 1 \in 0 .. NFrames
  BY <1>1, KallocAssumption DEF IInv, DumpInside, Frames
<1>4. entry \in Pages \X (Labels \cup {FREE, 0})
  <2>1. framePfn[dump.i] = NPages - 1 - dump.i
    BY <1>2, <1>3 DEF IInv, BootOrder
  <2>2. framePfn[dump.i] \in Pages
    BY <1>3, <2>1, KallocAssumption DEF Frames, Pages
  <2> QED BY <1>3, <2>2 DEF IInv, TypeOK
<1>5. out \in Seq(Pages \X (Labels \cup {FREE, 0}))
  <2>1. dump.out \in Seq(Pages \X (Labels \cup {FREE, 0}))
    BY <1>2 DEF DumpStates
  <2> HIDE DEF entry
  <2> QED BY <1>4, <2>1, AppendProperties
<1>6. pc \in {"test", "done"}
  OBVIOUS
<1> HIDE DEF out, pc
<1>7. dump' \in DumpStates /\ dump'.pc # "report"
  BY <1>1, <1>2, <1>3, <1>5, <1>6 DEF DumpStates
<1> QED BY <1>1, <1>2, <1>7, DumpIInv

LEMMA DumpOverrunIInv == IInv /\ DumpOverrun => IInv'
<1> SUFFICES ASSUME IInv, DumpOverrun PROVE IInv'
  OBVIOUS
<1>1. UNCHANGED memory /\ quiet' = quiet /\ dump.pc = "test"
  BY DEF DumpOverrun
<1>2. phase = "up" /\ dump \in DumpStates /\ quiet' \in BOOLEAN
  BY <1>1, DumpRuns DEF IInv, TypeOK
<1>3. dump' \in DumpStates /\ dump'.pc # "report"
  BY <1>2 DEF DumpOverrun, DumpStates
<1> QED BY <1>1, <1>2, <1>3, DumpIInv

-----------------------------------------------------------------------------
(* The theorems.                                                           *)

LEMMA StutterIInv == IInv /\ UNCHANGED vars => IInv'
<1> SUFFICES ASSUME IInv, UNCHANGED vars PROVE IInv'
  OBVIOUS
<1>1. TypeOK'
  BY DEF vars, IInv, TypeOK
<1>2. /\ BootOrder' /\ NothingBeforeTable' /\ DumpInside' /\ NoForeignNeighbour'
      /\ TableExact' /\ (~exhausted => reissued = {})'
  BY DEF vars, IInv, BootOrder, NothingBeforeTable, DumpInside,
         NoForeignNeighbour, TableExact
<1> QED BY <1>1, <1>2 DEF IInv

\* The inductive invariant holds in every state kalloc.c can reach.
THEOREM Invariance == Spec => []IInv
<1>1. IInv /\ [Next]_vars => IInv'
  <2> SUFFICES ASSUME IInv, [Next]_vars PROVE IInv'
    OBVIOUS
  <2>1. CASE Kinit1
    BY <2>1, Kinit1IInv
  <2>2. CASE BootAlloc
    BY <2>2, BootAllocIInv
  <2>3. CASE Kinit2
    BY <2>3, Kinit2IInv
  <2>4. CASE Kalloc
    BY <2>4, KallocIInv
  <2>5. CASE \E l \in Labels : Kalloc2(l)
    BY <2>5, Kalloc2IInv
  <2>6. CASE \E l \in Labels, p \in Pages : Kfree(l, p)
    BY <2>6, KfreeIInv
  <2>7. CASE \E n \in 1 .. MaxReport : DumpCall(n)
    BY <2>7, DumpCallIInv
  <2>8. CASE DumpTest
    BY <2>8, DumpTestIInv
  <2>9. CASE DumpReport
    BY <2>9, DumpReportIInv
  <2>10. CASE DumpOverrun
    BY <2>10, DumpOverrunIInv
  <2>11. CASE UNCHANGED vars
    BY <2>11, StutterIInv
  <2> QED BY <2>1, <2>2, <2>3, <2>4, <2>5, <2>6, <2>7, <2>8, <2>9, <2>10, <2>11
          DEF Next
<1> QED BY <1>1, InitIInv, PTL DEF Spec

\* Every variable of the allocator keeps its type.
THEOREM TypeCorrect == Spec => []TypeOK
<1>1. IInv => TypeOK
  BY DEF IInv
<1> QED BY <1>1, Invariance, PTL

\* kalloc2() keeps the frames of different processes apart: no two adjacent
\* entries of frames[] are ever on the accounts of two processes.
THEOREM NeighboursApart == Spec => []NoForeignNeighbour
<1>1. IInv => NoForeignNeighbour
  BY DEF IInv
<1> QED BY <1>1, Invariance, PTL

\* frames[] and the callers agree on who has which page while no call has
\* fallen through.
THEOREM TableAgrees == Spec => []TableExact
<1>1. IInv => TableExact
  BY DEF IInv
<1> QED BY <1>1, Invariance, PTL

\* The table is well formed, agrees with its callers, and keeps processes out of each
\* other's neighbourhood.
THEOREM TableIsSound == Spec => []TableSound
<1>1. IInv => TableSound
  BY DEF IInv, TableSound
<1> QED BY <1>1, Invariance, PTL

\* While no call has fallen through, no page is handed out twice, held under
\* two labels, or held although it was taken during boot.
THEOREM OneOwner == Spec => []SingleOwner
<1>1. IInv => SingleOwner
  <2> SUFFICES ASSUME IInv, ~exhausted PROVE SingleOwner
    BY DEF SingleOwner
  <2>1. CASE phase # "up"
    BY <2>1 DEF IInv, NothingBeforeTable, SingleOwner
  <2>2. CASE phase = "up"
    <3>1. /\ \A i \in Frames, l \in Labels :
               framePid[i] = l <=> framePfn[i] \in holds[l]
          /\ \A l \in Labels : \A p \in holds[l] :
               \E i \in Frames : framePfn[i] = p
          /\ \A i \in Frames : framePfn[i] = NPages - 1 - i
          /\ bootPages \subseteq 0 .. LowPages - 1
      BY <2>2 DEF IInv, TableExact, BootOrder
    <3>2. ASSUME NEW l \in Labels, NEW m \in Labels, l # m
          PROVE  holds[l] \cap holds[m] = {}
      <4> SUFFICES ASSUME NEW p \in holds[l], p \in holds[m] PROVE FALSE
        OBVIOUS
      <4> QED BY <3>1, <3>2
    <3>3. ASSUME NEW l \in Labels PROVE holds[l] \cap bootPages = {}
      <4> SUFFICES ASSUME NEW p \in holds[l], p \in 0 .. LowPages - 1 PROVE FALSE
        BY <3>1
      <4>1. PICK i \in Frames : p = NPages - 1 - i
        BY <3>1
      <4> QED BY <4>1, KallocAssumption DEF Frames
    <3> QED BY <3>2, <3>3 DEF IInv, SingleOwner
  <2> QED BY <2>1, <2>2
<1> QED BY <1>1, Invariance, PTL

\* While no call has fallen through, physically adjacent pages are never held
\* by two processes.
THEOREM PagesOfProcessesApart == Spec => []PagesApart
<1>1. IInv => PagesApart
  <2> SUFFICES ASSUME IInv, ~exhausted, NEW l \in Pids, NEW m \in Pids, l # m,
                      NEW p \in holds[l], p + 1 \in holds[m]
               PROVE  FALSE
    BY DEF PagesApart
  <2>1. l \in Labels /\ m \in Labels
    BY LabelsDistinct
  <2>2. phase = "up"
    BY <2>1 DEF IInv, NothingBeforeTable
  <2>3. /\ \A i \in Frames, k \in Labels :
             framePid[i] = k <=> framePfn[i] \in holds[k]
        /\ \A k \in Labels : \A q \in holds[k] : \E i \in Frames : framePfn[i] = q
        /\ \A i \in Frames : framePfn[i] = NPages - 1 - i
    BY <2>2 DEF IInv, TableExact, BootOrder
  <2>4. PICK i \in Frames : framePfn[i] = p
    BY <2>1, <2>3
  <2>5. PICK j \in Frames : framePfn[j] = p + 1
    BY <2>1, <2>3
  <2>6. framePid[i] = l /\ framePid[j] = m
    BY <2>1, <2>3, <2>4, <2>5
  <2>7. i = j + 1 /\ j \in 0 .. NFrames - 2
    BY <2>3, <2>4, <2>5, KallocAssumption DEF Frames
  <2> QED BY <2>6, <2>7 DEF IInv, NoForeignNeighbour
<1> QED BY <1>1, Invariance, PTL

-----------------------------------------------------------------------------
(* dump_physmem() reports the table.                                       *)

\* The allocated frames the dump has passed, and how many of them come no
\* later than frame j: where the report has the entry of j.
Seen == {i \in Frames : i < dump.i /\ framePid[i] # FREE}
Rank(j) == Cardinality({k \in Seen : k <= j})

\* DumpExact, and that the frame about to be reported is allocated.
DumpInv ==
  /\ DumpExact
  /\ dump.pc = "report" /\ quiet => framePid[dump.i] # FREE

\* DumpExact in terms of Seen and Rank.
Reported ==
  /\ Len(dump.out) = Cardinality(Seen)
  /\ \A i \in Seen : dump.out[Rank(i)] = <<framePfn[i], framePid[i]>>

LEMMA DumpExactSays ==
  DumpExact <=> (dump.pc \in {"test", "report", "done"} /\ quiet => Reported)
BY DEF DumpExact, Reported, Seen, Rank

LEMMA FramesFinite == IsFiniteSet(Frames)
BY FS_Interval, KallocAssumption DEF Frames

LEMMA SeenFinite ==
  /\ IsFiniteSet(Seen) /\ Cardinality(Seen) \in Nat
  /\ \A j \in Seen : Rank(j) \in 1 .. Cardinality(Seen)
<1>1. IsFiniteSet(Seen) /\ Cardinality(Seen) \in Nat
  BY FramesFinite, FS_Subset, FS_CardinalityType DEF Seen
<1>2. ASSUME NEW j \in Seen PROVE Rank(j) \in 1 .. Cardinality(Seen)
  <2> DEFINE below == {k \in Seen : k <= j}
  <2>1. below \subseteq Seen /\ j \in below
    BY KallocAssumption DEF Seen, Frames
  <2>2. IsFiniteSet(below) /\ Cardinality(below) \in Nat
        /\ Cardinality(below) <= Cardinality(Seen)
    BY <1>1, <2>1, FS_Subset, FS_CardinalityType
  <2>3. Cardinality(below) # 0
    BY <2>1, <2>2, FS_EmptySet
  <2> QED BY <1>1, <2>2, <2>3 DEF Rank
<1> QED BY <1>1, <1>2

\* Passing a free frame, or none, changes nothing that has been seen.
LEMMA DumpPasses ==
  ASSUME DumpInv, dump.pc = "test", quiet, Seen' = Seen, UNCHANGED memory,
         dump'.out = dump.out
  PROVE  DumpExact'
<1>1. Reported
  BY DumpExactSays DEF DumpInv
<1>2. \A j \in Seen : Rank(j)' = Rank(j)
  BY DEF Rank
<1>3. Reported'
  BY <1>1, <1>2 DEF Reported, memory
<1> QED BY <1>3 DEF DumpExact, Reported, Seen, Rank

LEMMA DumpTestExact == IInv /\ DumpInv /\ DumpTest => DumpInv'
<1> SUFFICES ASSUME IInv, DumpInv, DumpTest PROVE DumpInv'
  OBVIOUS
<1>1. /\ UNCHANGED memory /\ quiet' = quiet /\ dump.pc = "test" /\ dump.i \in Frames
      /\ framePid' = framePid /\ framePfn' = framePfn
  BY DEF DumpTest, memory
<1>2. dump \in DumpStates /\ quiet \in BOOLEAN
  BY DEF IInv, TypeOK
<1>3. CASE ~quiet
  BY <1>1, <1>3 DEF DumpInv, DumpExact
<1>4. CASE quiet /\ framePid[dump.i] # FREE
  <2>1. dump' = [dump EXCEPT !.pc = "report"]
    BY <1>4 DEF DumpTest
  <2>2. dump'.out = dump.out /\ dump'.i = dump.i
    BY <1>2, <2>1 DEF DumpStates
  <2>3. Seen' = Seen
    BY <1>1, <2>2 DEF Seen
  <2>4. DumpExact'
    BY <1>1, <1>4, <2>2, <2>3, DumpPasses
  <2> QED BY <1>1, <1>4, <2>2, <2>4 DEF DumpInv
<1>5. CASE quiet /\ framePid[dump.i] = FREE
  <2>1. dump' = [dump EXCEPT !.i = @ + 1]
    BY <1>5 DEF DumpTest
  <2>2. dump'.out = dump.out /\ dump'.i = dump.i + 1 /\ dump'.pc = "test"
    BY <1>1, <1>2, <2>1 DEF DumpStates
  <2>3. \A i \in Frames : i < dump.i + 1 <=> i < dump.i \/ i = dump.i
    BY <1>1, KallocAssumption DEF Frames
  <2>4. Seen' = Seen
    BY <1>1, <1>5, <2>2, <2>3 DEF Seen
  <2>5. DumpExact'
    BY <1>1, <1>5, <2>2, <2>4, DumpPasses
  <2> QED BY <2>2, <2>5 DEF DumpInv
<1> QED BY <1>2, <1>3, <1>4, <1>5

LEMMA DumpReportExact == IInv /\ DumpInv /\ DumpReport => DumpInv'
<1> SUFFICES ASSUME IInv, DumpInv, DumpReport PROVE DumpInv'
  OBVIOUS
<1> DEFINE c == dump.i
           entry == <<framePfn[c], framePid[c]>>
           out == Append(dump.out, entry)
<1>1. /\ UNCHANGED memory /\ quiet' = quiet /\ dump.pc = "report"
      /\ framePid' = framePid /\ framePfn' = framePfn
      /\ dump' = [dump EXCEPT !.out = out, !.i = @ + 1,
                              !.pc = IF Len(out) < dump.n THEN "test" ELSE "done"]
  BY DEF DumpReport, memory
<1>2. dump \in DumpStates /\ quiet \in BOOLEAN /\ c \in Frames
  BY <1>1 DEF IInv, TypeOK, DumpInside
<1>3. /\ dump'.out = out /\ dump'.i = c + 1 /\ dump'.pc # "report"
      /\ dump.out \in Seq(Pages \X (Labels \cup {FREE, 0}))
  BY <1>1, <1>2 DEF DumpStates
<1>4. CASE ~quiet
  BY <1>1, <1>3, <1>4 DEF DumpInv, DumpExact
<1>5. CASE quiet
  <2>1. Reported /\ framePid[c] # FREE
    BY <1>1, <1>5, DumpExactSays DEF DumpInv
  <2>2. \A i \in Frames : i < c + 1 <=> i < c \/ i = c
    BY <1>2, KallocAssumption DEF Frames
  <2>3. Seen' = Seen \cup {c} /\ c \notin Seen
    BY <1>1, <1>2, <1>3, <2>1, <2>2, KallocAssumption DEF Seen, Frames
  <2>4. /\ IsFiniteSet(Seen) /\ Cardinality(Seen) \in Nat
        /\ Cardinality(Seen') = Cardinality(Seen) + 1
    BY <2>3, SeenFinite, FS_AddElement
  <2>5. \A j \in Seen : Rank(j)' = Rank(j)
    <3> SUFFICES ASSUME NEW j \in Seen
                 PROVE  {k \in Seen' : k <= j} = {k \in Seen : k <= j}
      BY DEF Rank
    <3>1. j < c /\ j \in Int /\ c \in Int
      BY <1>2, KallocAssumption DEF Seen, Frames
    <3>2. ~(c <= j)
      BY <3>1
    <3> QED BY <2>3, <3>2
  <2>6. Cardinality({k \in Seen' : k <= c}) = Cardinality(Seen) + 1
    <3>1. \A k \in Seen' : k <= c
      BY <1>2, <2>3, KallocAssumption DEF Seen, Frames
    <3>2. {k \in Seen' : k <= c} = Seen'
      BY <3>1
    <3> QED BY <2>4, <3>2
  <2>7. entry \in Pages \X (Labels \cup {FREE, 0})
    <3>1. phase = "up"
      BY <1>1, DumpRuns
    <3>2. framePfn[c] = NPages - 1 - c
      BY <1>2, <3>1 DEF IInv, BootOrder
    <3>3. framePfn[c] \in Pages
      BY <1>2, <3>2, KallocAssumption DEF Frames, Pages
    <3> QED BY <1>2, <3>3 DEF IInv, TypeOK
  <2> HIDE DEF entry
  <2>8. /\ Len(out) = Len(dump.out) + 1
        /\ \A k \in 1 .. Len(dump.out) : out[k] = dump.out[k]
        /\ out[Len(dump.out) + 1] = entry
    BY <1>3, <2>7, AppendProperties
  <2>9. Len(dump.out) = Cardinality(Seen)
    BY <2>1 DEF Reported
  <2>10. Len(dump'.out) = Cardinality(Seen')
    BY <1>3, <2>4, <2>8, <2>9
  <2>11. ASSUME NEW j \in Seen'
         PROVE  dump'.out[Rank(j)'] = <<framePfn'[j], framePid'[j]>>
    <3>1. CASE j = c
      <4>1. Rank(j)' = Cardinality(Seen) + 1
        BY <2>6, <3>1 DEF Rank
      <4> QED BY <1>1, <1>3, <2>8, <2>9, <3>1, <4>1 DEF entry
    <3>2. CASE j \in Seen
      <4>1. Rank(j)' = Rank(j) /\ Rank(j) \in 1 .. Len(dump.out)
        BY <2>5, <2>9, <3>2, SeenFinite
      <4>2. dump.out[Rank(j)] = <<framePfn[j], framePid[j]>>
        BY <2>1, <3>2 DEF Reported
      <4> QED BY <1>1, <1>3, <2>8, <4>1, <4>2
    <3> QED BY <2>3, <3>1, <3>2
  <2>12. Reported'
    BY <2>10, <2>11 DEF Reported
  <2> QED BY <1>3, <2>12 DEF DumpInv, DumpExact, Reported, Seen, Rank
<1> QED BY <1>2, <1>4, <1>5

LEMMA DumpStepExact == IInv /\ DumpInv /\ [Next]_vars => DumpInv'
<1> SUFFICES ASSUME IInv, DumpInv, [Next]_vars PROVE DumpInv'
  OBVIOUS
<1>1. CASE Kinit1 \/ BootAlloc \/ Kinit2
  <2>1. dump' = dump /\ phase # "up"
    BY <1>1 DEF Kinit1, BootAlloc, Kinit2
  <2>2. dump'.pc = "idle"
    BY <2>1 DEF IInv, NothingBeforeTable
  <2> QED BY <2>2 DEF DumpInv, DumpExact
<1>2. CASE Kalloc \/ (\E l \in Labels : Kalloc2(l))
             \/ (\E l \in Labels, p \in Pages : Kfree(l, p))
  <2>1. quiet' = FALSE
    BY <1>2 DEF Kalloc, Kalloc2, Kfree
  <2> QED BY <2>1 DEF DumpInv, DumpExact
<1>3. CASE \E n \in 1 .. MaxReport : DumpCall(n)
  <2>1. PICK n \in 1 .. MaxReport : dump' = [pc |-> "test", n |-> n, i |-> 0, out |-> <<>>]
    BY <1>3 DEF DumpCall
  <2>2. dump'.pc = "test" /\ dump'.i = 0 /\ dump'.out = <<>>
    BY <2>1
  <2>3. Seen' = {}
    BY <2>2, KallocAssumption DEF Seen, Frames
  <2>4. Reported'
    BY <2>2, <2>3, FS_EmptySet DEF Reported
  <2> QED BY <2>2, <2>4 DEF DumpInv, DumpExact, Reported, Seen, Rank
<1>4. CASE DumpTest
  BY <1>4, DumpTestExact
<1>5. CASE DumpReport
  BY <1>5, DumpReportExact
<1>6. CASE DumpOverrun
  <2>1. dump'.pc = "overrun"
    BY <1>6 DEF DumpOverrun, IInv, TypeOK, DumpStates
  <2> QED BY <2>1 DEF DumpInv, DumpExact
<1>7. CASE UNCHANGED vars
  BY <1>7 DEF vars, memory, DumpInv, DumpExact
<1> QED BY <1>1, <1>2, <1>3, <1>4, <1>5, <1>6, <1>7 DEF Next

\* A dump_physmem() that runs beside no allocation or free has reported, in
\* table order and once each, the allocated frames it has passed.
THEOREM DumpReportsTable == Spec => []DumpExact
<1>1. Init => DumpInv
  BY DEF Init, NoDump, DumpInv, DumpExact
<1>2. DumpInv => DumpExact
  BY DEF DumpInv
<1> QED BY <1>1, <1>2, DumpStepExact, Invariance, PTL DEF Spec

=============================================================================
