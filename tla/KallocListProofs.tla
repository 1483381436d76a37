--------------------------- MODULE KallocListProofs ---------------------------
(***************************************************************************)
(* Proofs about the page allocator of v1a/kalloc.c and v1b/kalloc.c, for   *)
(* every number of pages and any labels.                                   *)
(***************************************************************************)
EXTENDS KallocList, SequenceTheorems, TLAPS

USE KallocListAssumption

LEMMA LabelTypes == KernelPid \in Labels /\ Pids \subseteq Labels /\ NONE \notin Labels
BY DEF Labels

\* freerange() puts a descending run of pages in front of the list.
LEMMA FreeRangeList ==
  ASSUME NEW lo \in Nat, NEW hi \in Nat, lo <= hi, hi <= NPages,
         freelist \in Seq(Pages)
  PROVE  /\ FreeRange(lo, hi) \in Seq(Pages)
         /\ Len(FreeRange(lo, hi)) = (hi - lo) + Len(freelist)
         /\ \A i \in 1 .. (hi - lo) + Len(freelist) :
              FreeRange(lo, hi)[i] = IF i <= hi - lo THEN hi - i
                                                     ELSE freelist[i - (hi - lo)]
<1> DEFINE run == [k \in 1 .. (hi - lo) |-> hi - k]
<1>1. hi - lo \in Nat
  OBVIOUS
<1>2. \A k \in 1 .. (hi - lo) : hi - k \in Pages
  BY DEF Pages
<1>3. run \in Seq(Pages) /\ Len(run) = hi - lo
  <2>1. run \in [1 .. (hi - lo) -> Pages]
    BY <1>2
  <2>2. run \in Seq(Pages)
    BY <2>1, <1>1, SeqDef
  <2>3. DOMAIN run = 1 .. Len(run) /\ Len(run) \in Nat
    BY <2>2, LenProperties
  <2>4. DOMAIN run = 1 .. (hi - lo)
    OBVIOUS
  <2> HIDE DEF run
  <2>5. Len(run) = hi - lo
    BY <2>3, <2>4, <1>1
  <2> QED BY <2>2, <2>5
<1>4. \A j \in 1 .. (hi - lo) : run[j] = hi - j
  OBVIOUS
<1>5. FreeRange(lo, hi) = run \o freelist
  BY DEF FreeRange
<1> HIDE DEF run
<1>6. /\ run \o freelist \in Seq(Pages)
      /\ Len(run \o freelist) = Len(run) + Len(freelist)
      /\ \A i \in 1 .. Len(run) + Len(freelist) :
           (run \o freelist)[i] = IF i <= Len(run) THEN run[i]
                                                   ELSE freelist[i - Len(run)]
  BY <1>3, ConcatProperties
<1>7. Len(freelist) \in Nat
  BY LenProperties
<1> QED BY <1>1, <1>3, <1>4, <1>5, <1>6, <1>7

LEMMA InitIInv == Init => IInv
<1> SUFFICES ASSUME Init PROVE IInv
  OBVIOUS
<1>1. <<>> \in Seq(Pages) /\ <<>> \in Seq((Pages \cup {NULL}) \X Labels) /\ Len(freelist) = 0
  BY EmptySeq DEF Init
<1>2. Held = {} /\ Listed = {} /\ ListOrder
  BY <1>1 DEF Init, Held, Listed, ListOrder
<1>3. TypeOK
  BY <1>1 DEF Init, TypeOK
<1> QED BY <1>2, <1>3 DEF Init, IInv

LEMMA Kinit1IInv == IInv /\ Kinit1 => IInv'
<1> SUFFICES ASSUME IInv, Kinit1 PROVE IInv'
  OBVIOUS
<1>1. /\ phase' = "low" /\ freelist = <<>> /\ Held = {} /\ ever = {}
      /\ UNCHANGED <<log, holder, ever, wild, reissued>>
      /\ freelist' = FreeRange(0, LowPages)
  BY DEF IInv, Kinit1
<1>2. /\ freelist' \in Seq(Pages)
      /\ Len(freelist') = LowPages
      /\ \A i \in 1 .. LowPages : freelist'[i] = LowPages - i
  <2> DEFINE lo == 0
             list == FreeRange(lo, LowPages)
  <2>0. lo = 0
    OBVIOUS
  <2>1. lo \in Nat /\ lo <= LowPages
    OBVIOUS
  <2>2. freelist \in Seq(Pages)
    BY DEF IInv, TypeOK
  <2>3. Len(freelist) = 0
    BY <1>1, EmptySeq
  <2>4. freelist' = list
    BY <1>1
  <2> HIDE DEF lo
  <2>5. /\ list \in Seq(Pages)
        /\ Len(list) = (LowPages - lo) + Len(freelist)
        /\ \A i \in 1 .. (LowPages - lo) + Len(freelist) :
             list[i] = IF i <= LowPages - lo THEN LowPages - i
                                             ELSE freelist[i - (LowPages - lo)]
    BY <2>1, <2>2, FreeRangeList
  <2> HIDE DEF list
  <2> QED BY <2>0, <2>3, <2>4, <2>5
<1>3. Held' = {}
  BY <1>1 DEF Held
<1>4. Listed' = 0 .. LowPages - 1
  <2>1. \A p \in 0 .. LowPages - 1 : LowPages - p \in 1 .. LowPages /\ p = LowPages - (LowPages - p)
    OBVIOUS
  <2>2. \A p \in 0 .. LowPages - 1 : p = freelist'[LowPages - p]
    BY <1>2, <2>1
  <2>3. \A i \in 1 .. LowPages : freelist'[i] \in 0 .. LowPages - 1
    BY <1>2
  <2> QED BY <1>2, <2>1, <2>2, <2>3 DEF Listed
<1>5. ListOrder'
  BY <1>1, <1>2, <1>4 DEF ListOrder, Fresh
<1>6. TypeOK'
  BY <1>1, <1>2 DEF IInv, TypeOK
<1> QED BY <1>1, <1>3, <1>4, <1>5, <1>6 DEF IInv

LEMMA Kinit2IInv == IInv /\ Kinit2 => IInv'
<1> SUFFICES ASSUME IInv, Kinit2 PROVE IInv'
  OBVIOUS
<1> DEFINE n == NPages - LowPages
           len == Len(freelist)
<1>1. /\ phase = "low" /\ phase' = "up" /\ ever = {} /\ ever' = {}
      /\ UNCHANGED <<log, holder, ever, wild, reissued>>
      /\ freelist' = FreeRange(LowPages, NPages)
  BY DEF IInv, Kinit2
<1>2. /\ freelist' \in Seq(Pages)
      /\ Len(freelist') = n + len
      /\ \A i \in 1 .. n + len :
           freelist'[i] = IF i <= n THEN NPages - i ELSE freelist[i - n]
  <2>1. LowPages <= NPages /\ NPages <= NPages
    OBVIOUS
  <2>2. freelist \in Seq(Pages)
    BY DEF IInv, TypeOK
  <2> QED BY <1>1, <2>1, <2>2, FreeRangeList
<1>3. n \in Nat /\ len \in Nat
  BY LenProperties DEF IInv, TypeOK
<1>4. TypeOK'
  BY <1>1, <1>2 DEF IInv, TypeOK
<1>5. Held' = Held
  BY <1>1 DEF Held
<1>6. ASSUME ~wild
      PROVE  /\ Listed' \cap Held = {}
             /\ ListOrder'
  <2>1. /\ Listed \cap Held = {} /\ ListOrder
        /\ \A p \in Listed : p < LowPages
        /\ \A p \in Held : p < LowPages
    BY <1>1, <1>6 DEF IInv
  <2>2. \A i \in 1 .. len : freelist[i] \in Listed /\ freelist[i] \in Pages
    <3>1. \A i \in 1 .. len : freelist[i] \in Pages
      BY ElementOfSeq DEF IInv, TypeOK
    <3> QED BY <3>1 DEF Listed
  <2>3. \A p \in Listed' : p \in Listed \/ p \in LowPages .. NPages - 1
    <3> SUFFICES ASSUME NEW i \in 1 .. n + len
                 PROVE  freelist'[i] \in Listed \/ freelist'[i] \in LowPages .. NPages - 1
      BY <1>2 DEF Listed
    <3>1. CASE i <= n
      BY <1>2, <1>3, <3>1
    <3>2. CASE ~(i <= n)
      <4>1. i - n \in 1 .. len
        BY <1>3, <3>2
      <4> QED BY <1>2, <2>2, <3>2, <4>1
    <3> QED BY <3>1, <3>2
  <2>4. Listed' \cap Held = {}
    BY <2>1, <2>3 DEF Pages
  <2>5. ASSUME NEW i \in 1 .. n + len, NEW j \in i + 1 .. n + len
        PROVE  freelist'[j] < freelist'[i]
    <3>1. CASE j <= n
      BY <1>2, <1>3, <3>1
    <3>2. CASE i <= n /\ ~(j <= n)
      <4>1. j - n \in 1 .. len
        BY <1>3, <3>2
      <4>2. freelist'[j] = freelist[j - n] /\ freelist'[i] = NPages - i
        BY <1>2, <1>3, <3>2
      <4>3. freelist[j - n] < LowPages /\ freelist[j - n] \in Int
        BY <2>1, <2>2, <4>1 DEF Pages
      <4> QED BY <1>3, <3>2, <4>2, <4>3
    <3>3. CASE ~(i <= n)
      <4>1. i - n \in 1 .. len /\ j - n \in (i - n) + 1 .. len
        BY <1>3, <3>3
      <4>2. freelist'[j] = freelist[j - n] /\ freelist'[i] = freelist[i - n]
        BY <1>2, <1>3, <3>3
      <4> QED BY <1>1, <2>1, <4>1, <4>2 DEF ListOrder, Fresh
    <3> QED BY <1>3, <3>1, <3>2, <3>3
  <2>6. ASSUME NEW i \in 1 .. n + len, freelist'[i] - 1 \in Listed'
        PROVE  i < n + len /\ freelist'[i + 1] = freelist'[i] - 1
    <3>1. PICK j \in 1 .. n + len : freelist'[j] = freelist'[i] - 1
      BY <1>2, <2>6 DEF Listed
    <3>2. \A k \in 1 .. n + len : freelist'[k] \in Int
      BY <1>2, ElementOfSeq DEF Pages
    <3>3. i < j
      <4>1. j < i => freelist'[i] < freelist'[j]
        BY <1>3, <2>5
      <4> QED BY <1>3, <3>1, <3>2, <4>1
    <3>4. ~(i + 1 < j)
      <4> SUFFICES ASSUME i + 1 < j PROVE FALSE
        OBVIOUS
      <4>1. i + 1 \in 1 .. n + len /\ i + 1 \in i + 1 .. n + len /\ j \in (i + 1) + 1 .. n + len
        BY <1>3
      <4>2. freelist'[j] < freelist'[i + 1] /\ freelist'[i + 1] < freelist'[i]
        BY <2>5, <4>1
      <4> QED BY <3>1, <3>2, <4>1, <4>2
    <3>5. j = i + 1
      BY <1>3, <3>3, <3>4
    <3> QED BY <1>3, <3>1, <3>5
  <2>7. ListOrder'
    <3>1. \A k \in 1 .. n + len : freelist'[k] \in Int
      BY <1>2, ElementOfSeq DEF Pages
    <3>2. ASSUME NEW i \in 1 .. n + len, NEW j \in 1 .. n + len, i # j
          PROVE  freelist'[i] # freelist'[j]
      <4>1. j \in i + 1 .. n + len \/ i \in j + 1 .. n + len
        BY <1>3, <3>2
      <4> QED BY <2>5, <3>1, <4>1
    <3> HIDE DEF n, len
    <3> QED BY <1>1, <1>2, <2>5, <2>6, <3>2 DEF ListOrder, Fresh
  <2> QED BY <2>4, <2>7
<1> QED BY <1>1, <1>4, <1>5, <1>6 DEF IInv

-----------------------------------------------------------------------------
(* Allocation.                                                             *)

LEMMA TypeFacts ==
  ASSUME IInv
  PROVE  /\ freelist \in Seq(Pages) /\ Len(freelist) \in Nat
         /\ \A i \in 1 .. Len(freelist) : freelist[i] \in Pages /\ freelist[i] \in Int
         /\ holder \in [Pages -> Labels \cup {NONE}]
         /\ ever \subseteq Pages /\ reissued \subseteq Pages
         /\ log \in Seq((Pages \cup {NULL}) \X Labels)
BY LenProperties, ElementOfSeq DEF IInv, TypeOK, Pages

\* What the list becomes when its first two pages are unlinked.
LEMMA UnlinkTwo ==
  ASSUME IInv, Len(freelist) >= 2, freelist' = Tail(Tail(freelist))
  PROVE  /\ freelist' \in Seq(Pages)
         /\ Len(freelist') = Len(freelist) - 2
         /\ \A i \in 1 .. Len(freelist) - 2 : freelist'[i] = freelist[i + 2]
         /\ Head(freelist) = freelist[1]
<1>1. freelist \in Seq(Pages) /\ Len(freelist) \in Nat /\ freelist # <<>>
  BY TypeFacts, EmptySeq
<1>2. /\ Tail(freelist) \in Seq(Pages)
      /\ Len(Tail(freelist)) = Len(freelist) - 1
      /\ \A i \in 1 .. Len(freelist) - 1 : Tail(freelist)[i] = freelist[i + 1]
  BY <1>1, HeadTailProperties
<1> DEFINE t == Tail(freelist)
<1>3. t \in Seq(Pages) /\ Len(t) >= 1
  BY <1>1, <1>2
<1> HIDE DEF t
<1>6. t # <<>>
  BY <1>3, EmptySeq
<1>4. /\ Tail(t) \in Seq(Pages)
      /\ Len(Tail(t)) = Len(t) - 1
      /\ \A i \in 1 .. Len(t) - 1 : Tail(t)[i] = t[i + 1]
  BY <1>3, <1>6, HeadTailProperties
<1>5. Head(freelist) = freelist[1]
  BY <1>1
<1> QED BY <1>1, <1>2, <1>4, <1>5 DEF t

\* The page handed out and the page lost with it.
LEMMA HandOutIInv ==
  ASSUME IInv, NEW label \in Labels, phase # "start", phase' = phase,
         Len(freelist) >= 2, freelist' = Tail(Tail(freelist)), wild' = wild,
         HandOut(Head(freelist), label)
  PROVE  IInv'
<1> DEFINE r == freelist[1]
           len == Len(freelist)
<1>1. /\ freelist' \in Seq(Pages)
      /\ Len(freelist') = len - 2
      /\ \A i \in 1 .. len - 2 : freelist'[i] = freelist[i + 2]
      /\ Head(freelist) = r
  BY UnlinkTwo
<1>2. /\ freelist \in Seq(Pages) /\ len \in Nat
      /\ \A i \in 1 .. len : freelist[i] \in Pages /\ freelist[i] \in Int
      /\ holder \in [Pages -> Labels \cup {NONE}]
      /\ ever \subseteq Pages /\ reissued \subseteq Pages
      /\ log \in Seq((Pages \cup {NULL}) \X Labels)
  BY TypeFacts
<1>3. 1 \in 1 .. len /\ 2 \in 1 .. len
  BY <1>2
<1>4. r \in Pages /\ r \in Listed
  BY <1>2, <1>3 DEF Listed
<1> HIDE DEF r
<1>5. /\ holder' = [holder EXCEPT ![r] = label]
      /\ reissued' = IF r \in Held THEN reissued \cup {r} ELSE reissued
      /\ phase = "up" => log' = Append(log, <<r, label>>) /\ ever' = ever \cup {r}
      /\ phase # "up" => log' = log /\ ever' = ever
  BY <1>1 DEF HandOut
<1>6. TypeOK'
  <2>1. log' \in Seq((Pages \cup {NULL}) \X Labels)
    <3>1. <<r, label>> \in (Pages \cup {NULL}) \X Labels
      BY <1>4
    <3>2. Append(log, <<r, label>>) \in Seq((Pages \cup {NULL}) \X Labels)
      BY <1>2, <3>1, AppendProperties
    <3> QED BY <1>2, <1>5, <3>2
  <2>2. ever' \subseteq Pages /\ reissued' \subseteq Pages
    BY <1>2, <1>4, <1>5
  <2>3. holder' \in [Pages -> Labels \cup {NONE}]
    BY <1>2, <1>5
  <2> QED BY <1>1, <2>1, <2>2, <2>3 DEF IInv, TypeOK
<1>7. Held' = Held \cup {r}
  <2>1. \A p \in Pages : holder'[p] = IF p = r THEN label ELSE holder[p]
    BY <1>2, <1>5
  <2>2. label # NONE
    BY LabelTypes
  <2> QED BY <1>4, <2>1, <2>2 DEF Held
<1>8. \A p \in Listed' : \E i \in 3 .. len : p = freelist[i]
  <2> SUFFICES ASSUME NEW p \in Listed'
               PROVE  \E i \in 3 .. len : p = freelist[i]
    OBVIOUS
  <2>1. PICK k \in 1 .. Len(freelist') : p = freelist'[k]
    BY DEF Listed
  <2>2. k \in 1 .. len - 2 /\ k + 2 \in 3 .. len
    BY <1>1, <1>2, <2>1
  <2> QED BY <1>1, <2>1, <2>2
<1>9. Listed' \subseteq Listed
  BY <1>8, <1>2 DEF Listed
<1>10. ASSUME ~wild
       PROVE  /\ reissued' = {}
              /\ Listed' \cap Held' = {}
              /\ ListOrder'
              /\ \A p \in ever' : p - 1 \notin ever' \cup Listed'
  <2>1. /\ reissued = {} /\ Listed \cap Held = {}
        /\ \A i, j \in 1 .. len : i # j => freelist[i] # freelist[j]
        /\ \A i \in 1 .. len : freelist[i] \notin ever =>
             /\ \A j \in i + 1 .. len :
                  freelist[j] \notin ever /\ freelist[j] < freelist[i]
             /\ freelist[i] - 1 \in ever \cup Listed =>
                  i < len /\ freelist[i + 1] = freelist[i] - 1
        /\ \A p \in ever : p - 1 \notin ever \cup Listed
    BY <1>10 DEF IInv, ListOrder, Fresh
  <2>2. r \notin Listed'
    <3>1. \A i \in 3 .. len : i \in 1 .. len /\ i # 1
      BY <1>2
    <3>2. \A i \in 3 .. len : freelist[i] # freelist[1]
      BY <1>3, <2>1, <3>1
    <3> QED BY <1>8, <3>2 DEF r
  <2>3. reissued' = {}
    BY <1>4, <1>5, <2>1
  <2>4. Listed' \cap Held' = {}
    BY <1>7, <1>9, <2>1, <2>2
  <2>5. \A p \in ever' : p \in ever \/ p = r
    BY <1>5
  <2>6. r - 1 \notin ever \cup Listed' \/ r \in ever
    <3> SUFFICES ASSUME r \notin ever, r - 1 \in ever \cup Listed'
                 PROVE  FALSE
      OBVIOUS
    <3>1. freelist[1] \notin ever /\ freelist[1] - 1 \in ever \cup Listed
      BY <1>9 DEF r
    <3>2. freelist[2] = freelist[1] - 1
      BY <1>3, <2>1, <3>1
    <3>3. freelist[2] \notin ever
      <4>1. 2 \in 1 + 1 .. len
        BY <1>3
      <4> QED BY <1>3, <2>1, <3>1, <4>1
    <3>4. freelist[2] \notin Listed'
      <4>1. \A i \in 3 .. len : i \in 1 .. len /\ i # 2
        BY <1>2
      <4> QED BY <1>3, <1>8, <2>1, <4>1
    <3> QED BY <3>2, <3>3, <3>4 DEF r
  <2>7. \A p \in ever' : p - 1 \notin ever' \cup Listed'
    <3>1. ever \subseteq Int /\ r \in Int
      BY <1>2, <1>4 DEF Pages
    <3>2. \A p \in ever : p - 1 \notin ever \cup Listed' /\ p - 1 # r
      BY <1>4, <1>9, <2>1
    <3>3. r - 1 \notin ever \cup Listed'
      BY <2>6, <3>2
    <3>4. r - 1 # r
      BY <3>1
    <3> QED BY <2>5, <3>2, <3>3, <3>4
  <2>8. ListOrder'
    <3>1. Len(freelist') = len - 2
      BY <1>1
    <3>2. \A i \in 1 .. len - 2 : i + 2 \in 1 .. len /\ freelist'[i] = freelist[i + 2]
      BY <1>1, <1>2
    <3>3. \A i, j \in 1 .. len - 2 : i # j => freelist'[i] # freelist'[j]
      <4> SUFFICES ASSUME NEW i \in 1 .. len - 2, NEW j \in 1 .. len - 2, i # j
                   PROVE  freelist'[i] # freelist'[j]
        OBVIOUS
      <4>1. i + 2 # j + 2
        OBVIOUS
      <4> QED BY <2>1, <3>2, <4>1
    <3>4. ASSUME NEW i \in 1 .. len - 2, freelist'[i] \notin ever'
          PROVE  /\ \A j \in i + 1 .. len - 2 :
                      freelist'[j] \notin ever' /\ freelist'[j] < freelist'[i]
                 /\ freelist'[i] - 1 \in ever' \cup Listed' =>
                      i < len - 2 /\ freelist'[i + 1] = freelist'[i] - 1
      <4>1. ever \subseteq ever'
        BY <1>5
      <4>2. freelist[i + 2] \notin ever
        BY <3>2, <3>4, <4>1
      <4>3. ASSUME NEW j \in i + 1 .. len - 2
            PROVE  freelist'[j] \notin ever' /\ freelist'[j] < freelist'[i]
        <5>1. j \in 1 .. len - 2 /\ j + 2 \in (i + 2) + 1 .. len
          BY <1>2
        <5>2. freelist[j + 2] \notin ever /\ freelist[j + 2] < freelist[i + 2]
          BY <2>1, <3>2, <4>2, <5>1
        <5>3. freelist'[j] \in Listed'
          BY <3>1, <5>1 DEF Listed
        <5> QED BY <2>2, <2>5, <3>2, <5>1, <5>2, <5>3
      <4>4. ASSUME freelist'[i] - 1 \in ever' \cup Listed'
            PROVE  i < len - 2 /\ freelist'[i + 1] = freelist'[i] - 1
        <5>1. freelist'[i] - 1 # r
          <6>1. CASE r \in ever
            <7> SUFFICES ASSUME freelist[i + 2] - 1 = r PROVE FALSE
              BY <3>2
            <7>1. i + 2 < len /\ freelist[i + 3] = freelist[1]
              BY <2>1, <3>2, <4>2, <6>1 DEF r
            <7>2. i + 3 \in 1 .. len /\ i + 3 # 1
              BY <1>2, <7>1
            <7> QED BY <1>3, <2>1, <7>1, <7>2
          <6>2. CASE r \notin ever
            <7>1. i + 2 \in 1 + 1 .. len
              BY <1>2
            <7>2. freelist[i + 2] < freelist[1]
              BY <1>3, <2>1, <6>2, <7>1 DEF r
            <7> QED BY <1>2, <1>3, <3>2, <7>2 DEF r
          <6> QED BY <6>1, <6>2
        <5>2. freelist[i + 2] - 1 \in ever \cup Listed
          BY <1>9, <2>5, <3>2, <4>4, <5>1
        <5>3. i + 2 < len /\ freelist[i + 3] = freelist[i + 2] - 1
          BY <2>1, <3>2, <4>2, <5>2
        <5>4. i + 1 \in 1 .. len - 2
          BY <1>2, <5>3
        <5>5. freelist'[i + 1] = freelist[i + 3]
          BY <3>2, <5>4
        <5> QED BY <1>2, <3>2, <5>3, <5>5
      <4> QED BY <4>3, <4>4
    <3> HIDE DEF len
    <3> QED BY <3>1, <3>3, <3>4 DEF ListOrder, Fresh
  <2> QED BY <2>3, <2>4, <2>7, <2>8
<1>11. phase = "low" /\ ~wild =>
         /\ \A p \in Listed' : p < LowPages
         /\ \A p \in Held' : p < LowPages
  BY <1>4, <1>7, <1>9 DEF IInv
<1> QED BY <1>5, <1>6, <1>10, <1>11 DEF IInv

\* Once the null pointer has been followed only the types are left to keep.
LEMMA WildIInv ==
  ASSUME IInv, NEW label \in Labels, phase # "start", phase' = phase,
         Len(freelist) = 1, wild' = TRUE,
         freelist' \in {<<>>} \cup {<<p>> : p \in Pages},
         HandOut(Head(freelist), label)
  PROVE  IInv'
<1> DEFINE r == Head(freelist)
<1>1. freelist \in Seq(Pages) /\ freelist # <<>>
  <2>1. freelist = <<>> => Len(freelist) = 0
    BY EmptySeq
  <2> QED BY TypeFacts, <2>1
<1>2. r \in Pages
  BY <1>1, HeadTailProperties
<1>3. freelist' \in Seq(Pages)
  <2>1. <<>> \in Seq(Pages)
    BY EmptySeq
  <2>2. \A p \in Pages : <<p>> \in Seq(Pages)
    OBVIOUS
  <2> QED BY <2>1, <2>2
<1> HIDE DEF r
<1>4. /\ holder' = [holder EXCEPT ![r] = label]
      /\ reissued' = IF r \in Held THEN reissued \cup {r} ELSE reissued
      /\ phase = "up" => log' = Append(log, <<r, label>>) /\ ever' = ever \cup {r}
      /\ phase # "up" => log' = log /\ ever' = ever
  BY DEF HandOut, r
<1>5. log' \in Seq((Pages \cup {NULL}) \X Labels)
  <2>1. <<r, label>> \in (Pages \cup {NULL}) \X Labels
    BY <1>2
  <2>2. Append(log, <<r, label>>) \in Seq((Pages \cup {NULL}) \X Labels)
    BY TypeFacts, <2>1, AppendProperties
  <2> QED BY TypeFacts, <1>4, <2>2
<1>6. TypeOK'
  <2>1. ever' \subseteq Pages /\ reissued' \subseteq Pages
    BY TypeFacts, <1>2, <1>4
  <2>2. holder' \in [Pages -> Labels \cup {NONE}]
    BY TypeFacts, <1>4
  <2> QED BY <1>3, <1>5, <2>1, <2>2 DEF IInv, TypeOK
<1> QED BY <1>4, <1>6 DEF IInv

LEMMA AllocateIInv ==
  ASSUME IInv, NEW label \in Labels, Allocate(label)
  PROVE  IInv'
<1>1. phase # "start" /\ phase' = phase
  BY DEF Allocate
<1>2. CASE /\ Len(freelist) >= 2 /\ freelist' = Tail(Tail(freelist)) /\ wild' = wild
           /\ HandOut(Head(freelist), label)
  BY <1>1, <1>2, HandOutIInv
<1>3. CASE /\ Len(freelist) = 1 /\ freelist' \in {<<>>} \cup {<<p>> : p \in Pages}
           /\ wild' = TRUE
           /\ HandOut(Head(freelist), label)
  BY <1>1, <1>3, WildIInv
<1>4. CASE HandOutNothing(label)
  <2>1. /\ UNCHANGED <<freelist, holder, ever, wild, reissued>> /\ phase' = phase
        /\ log' = Append(log, <<NULL, label>>)
    BY <1>1, <1>4 DEF HandOutNothing
  <2>2. log' \in Seq((Pages \cup {NULL}) \X Labels)
    <3>1. <<NULL, label>> \in (Pages \cup {NULL}) \X Labels
      OBVIOUS
    <3> QED BY TypeFacts, <2>1, <3>1, AppendProperties
  <2>3. TypeOK'
    BY <2>1, <2>2 DEF IInv, TypeOK
  <2>4. Listed' = Listed /\ Held' = Held
    BY <2>1 DEF Listed, Held
  <2>5. ListOrder' <=> ListOrder
    BY <2>1, <2>4 DEF ListOrder, Fresh
  <2> QED BY <2>1, <2>3, <2>4, <2>5 DEF IInv
<1> QED BY <1>2, <1>3, <1>4 DEF Allocate, Unlink

-----------------------------------------------------------------------------
(* Release.                                                                *)

LEMMA KfreeIInv ==
  ASSUME IInv, NEW p \in Pages, Kfree(p)
  PROVE  IInv'
<1> DEFINE len == Len(freelist)
<1>1. /\ phase = "up" /\ p \in Held /\ p \in ever
      /\ freelist' = <<p>> \o freelist
      /\ holder' = [holder EXCEPT ![p] = NONE]
      /\ UNCHANGED <<phase, log, ever, wild, reissued>>
  BY DEF Kfree
<1>2. /\ freelist \in Seq(Pages) /\ len \in Nat
      /\ \A i \in 1 .. len : freelist[i] \in Pages /\ freelist[i] \in Int
      /\ holder \in [Pages -> Labels \cup {NONE}]
  BY TypeFacts
<1>3. /\ freelist' \in Seq(Pages)
      /\ Len(freelist') = len + 1
      /\ freelist'[1] = p
      /\ \A i \in 2 .. len + 1 : freelist'[i] = freelist[i - 1]
  <2> DEFINE s == <<p>>
  <2>1. s \in Seq(Pages) /\ Len(s) = 1 /\ s[1] = p
    OBVIOUS
  <2> HIDE DEF s
  <2>2. /\ s \o freelist \in Seq(Pages)
        /\ Len(s \o freelist) = Len(s) + Len(freelist)
        /\ \A i \in 1 .. Len(s) + Len(freelist) :
             (s \o freelist)[i] = IF i <= Len(s) THEN s[i] ELSE freelist[i - Len(s)]
    BY <1>2, <2>1, ConcatProperties
  <2>3. freelist' = s \o freelist
    BY <1>1 DEF s
  <2> QED BY <1>2, <2>1, <2>2, <2>3
<1>4. TypeOK'
  <2>1. holder' \in [Pages -> Labels \cup {NONE}]
    BY <1>1, <1>2
  <2> QED BY <1>1, <1>3, <2>1 DEF IInv, TypeOK
<1>5. Held' = Held \ {p}
  <2>1. \A q \in Pages : holder'[q] = IF q = p THEN NONE ELSE holder[q]
    BY <1>1, <1>2
  <2> QED BY <2>1 DEF Held
<1>6. Listed' = Listed \cup {p}
  <2>1. Listed' \subseteq Listed \cup {p}
    <3> SUFFICES ASSUME NEW i \in 1 .. len + 1
                 PROVE  freelist'[i] \in Listed \cup {p}
      BY <1>3 DEF Listed
    <3>1. CASE i = 1
      BY <1>3, <3>1
    <3>2. CASE i # 1
      <4>1. i \in 2 .. len + 1 /\ i - 1 \in 1 .. len
        BY <1>2, <3>2
      <4> QED BY <1>3, <4>1 DEF Listed
    <3> QED BY <3>1, <3>2
  <2>2. ASSUME NEW i \in 1 .. len PROVE freelist[i] \in Listed'
    <3>1. i + 1 \in 2 .. len + 1 /\ i + 1 \in 1 .. Len(freelist') /\ (i + 1) - 1 = i
      BY <1>2, <1>3
    <3>2. freelist'[i + 1] = freelist[i]
      BY <1>3, <3>1
    <3> QED BY <3>1, <3>2 DEF Listed
  <2>3. p \in Listed'
    <3>1. 1 \in 1 .. Len(freelist')
      BY <1>2, <1>3
    <3> QED BY <1>3, <3>1 DEF Listed
  <2> QED BY <2>1, <2>2, <2>3 DEF Listed
<1>7. ASSUME ~wild
      PROVE  /\ reissued = {}
             /\ Listed' \cap Held' = {}
             /\ ListOrder'
             /\ \A q \in ever : q - 1 \notin ever \cup Listed'
  <2>1. /\ reissued = {} /\ Listed \cap Held = {}
        /\ \A i, j \in 1 .. len : i # j => freelist[i] # freelist[j]
        /\ \A i \in 1 .. len : freelist[i] \notin ever =>
             /\ \A j \in i + 1 .. len :
                  freelist[j] \notin ever /\ freelist[j] < freelist[i]
             /\ freelist[i] - 1 \in ever \cup Listed =>
                  i < len /\ freelist[i + 1] = freelist[i] - 1
        /\ \A q \in ever : q - 1 \notin ever \cup Listed
    BY <1>7 DEF IInv, ListOrder, Fresh
  <2>2. p \notin Listed
    BY <1>1, <2>1
  <2>3. \A i \in 2 .. len + 1 : i - 1 \in 1 .. len /\ freelist'[i] = freelist[i - 1]
    BY <1>2, <1>3
  <2>4. \A i, j \in 1 .. len + 1 : i # j => freelist'[i] # freelist'[j]
    <3>1. \A i \in 1 .. len : freelist[i] # p
      BY <2>2 DEF Listed
    <3> SUFFICES ASSUME NEW i \in 1 .. len + 1, NEW j \in 1 .. len + 1, i # j
                 PROVE  freelist'[i] # freelist'[j]
      OBVIOUS
    <3>2. CASE i = 1
      <4>1. j \in 2 .. len + 1
        BY <3>2
      <4> QED BY <1>3, <2>3, <3>1, <3>2, <4>1
    <3>3. CASE j = 1
      <4>1. i \in 2 .. len + 1
        BY <3>3
      <4> QED BY <1>3, <2>3, <3>1, <3>3, <4>1
    <3>4. CASE i # 1 /\ j # 1
      <4>1. i \in 2 .. len + 1 /\ j \in 2 .. len + 1 /\ i - 1 # j - 1
        BY <3>4
      <4> QED BY <2>1, <2>3, <4>1
    <3> QED BY <3>2, <3>3, <3>4
  <2>5. ASSUME NEW i \in 1 .. len + 1, freelist'[i] \notin ever
        PROVE  /\ \A j \in i + 1 .. len + 1 :
                    freelist'[j] \notin ever /\ freelist'[j] < freelist'[i]
               /\ freelist'[i] - 1 \in ever \cup Listed' =>
                    i < len + 1 /\ freelist'[i + 1] = freelist'[i] - 1
    <3>1. i \in 2 .. len + 1 /\ i - 1 \in 1 .. len /\ freelist'[i] = freelist[i - 1]
      <4>1. i # 1
        BY <1>1, <1>3, <2>5
      <4>2. i \in 2 .. len + 1
        BY <4>1
      <4> QED BY <2>3, <4>2
    <3>2. ASSUME NEW j \in i + 1 .. len + 1
          PROVE  freelist'[j] \notin ever /\ freelist'[j] < freelist'[i]
      <4>1. j \in 2 .. len + 1 /\ j - 1 \in (i - 1) + 1 .. len
        BY <1>2
      <4> QED BY <2>1, <2>3, <2>5, <3>1, <4>1
    <3>3. ASSUME freelist'[i] - 1 \in ever \cup Listed'
          PROVE  i < len + 1 /\ freelist'[i + 1] = freelist'[i] - 1
      <4>1. freelist[i - 1] - 1 \in ever \cup Listed
        BY <1>1, <1>6, <3>1, <3>3
      <4>2. i - 1 < len /\ freelist[(i - 1) + 1] = freelist[i - 1] - 1
        BY <2>1, <2>5, <3>1, <4>1
      <4>3. i + 1 \in 2 .. len + 1 /\ (i + 1) - 1 = (i - 1) + 1
        BY <1>2, <3>1, <4>2
      <4>4. freelist'[i + 1] = freelist[(i - 1) + 1]
        BY <2>3, <4>3
      <4> QED BY <1>2, <3>1, <4>2, <4>4
    <3> QED BY <3>2, <3>3
  <2>6. ListOrder'
    <3> HIDE DEF len
    <3> QED BY <1>1, <1>3, <2>4, <2>5 DEF ListOrder, Fresh
  <2>7. \A q \in ever : q - 1 \notin ever \cup Listed'
    BY <1>1, <1>6, <2>1
  <2>8. Listed' \cap Held' = {}
    BY <1>5, <1>6, <2>1
  <2> QED BY <2>1, <2>6, <2>7, <2>8
<1> QED BY <1>1, <1>4, <1>7 DEF IInv

-----------------------------------------------------------------------------
(* The theorems.                                                           *)

LEMMA StutterIInv == IInv /\ UNCHANGED vars => IInv'
<1> SUFFICES ASSUME IInv, UNCHANGED vars PROVE IInv'
  OBVIOUS
<1>1. Listed' = Listed /\ Held' = Held
  BY DEF vars, Listed, Held
<1>2. ListOrder' <=> ListOrder
  BY <1>1 DEF vars, ListOrder, Fresh
<1>3. TypeOK'
  BY DEF vars, IInv, TypeOK
<1> QED BY <1>1, <1>2, <1>3 DEF vars, IInv

\* The inductive invariant holds in every state the list allocators can reach.
THEOREM Invariance == Spec => []IInv
<1>1. IInv /\ [Next]_vars => IInv'
  <2> SUFFICES ASSUME IInv, [Next]_vars PROVE IInv'
    OBVIOUS
  <2>1. CASE Kinit1
    BY <2>1, Kinit1IInv
  <2>2. CASE Kinit2
    BY <2>2, Kinit2IInv
  <2>3. CASE Kalloc
    BY <2>3, LabelTypes, AllocateIInv DEF Kalloc
  <2>4. CASE \E pid \in Pids : Kalloc2(pid)
    BY <2>4, LabelTypes, AllocateIInv DEF Kalloc2
  <2>5. CASE \E p \in Pages : Kfree(p)
    BY <2>5, KfreeIInv
  <2>6. CASE UNCHANGED vars
    BY <2>6, StutterIInv
  <2> QED BY <2>1, <2>2, <2>3, <2>4, <2>5, <2>6 DEF Next
<1> QED BY <1>1, InitIInv, PTL DEF Spec

\* Of two pages next to each other in memory the list allocators hand out at
\* most one after boot, whatever is freed and recycled.
THEOREM NeighboursNeverHandedOut == Spec => []NoNeighbours
<1>1. IInv => NoNeighbours
  <2> SUFFICES ASSUME IInv, ~wild, NEW p \in ever, p + 1 \in ever PROVE FALSE
    BY DEF NoNeighbours
  <2>1. p \in Int
    BY TypeFacts DEF Pages
  <2>2. (p + 1) - 1 = p
    BY <2>1
  <2> QED BY <2>2 DEF IInv
<1> QED BY <1>1, Invariance, PTL

\* Until the list is followed through the null pointer no page has two
\* holders, and the pages on the list are distinct and nobody's.
THEOREM OneOwner == Spec => []SingleOwner
<1>1. IInv => SingleOwner
  BY DEF IInv, SingleOwner, ListOrder
<1> QED BY <1>1, Invariance, PTL

-----------------------------------------------------------------------------
(* The log of v1b.                                                         *)

\* An allocation after boot is the last entry of the log, whatever its page.
LEMMA LogGrows ==
  ASSUME TypeOK, LogNamesHolder, NEW r \in Pages \cup {NULL}, NEW label \in Labels,
         log' = Append(log, <<r, label>>),
         \A p \in (Held \cap ever)' : p # r => p \in Held \cap ever /\ holder'[p] = holder[p],
         r \in (Held \cap ever)' => holder'[r] = label
  PROVE  LogNamesHolder'
<1>1. /\ log' \in Seq((Pages \cup {NULL}) \X Labels)
      /\ Len(log) \in Nat /\ Len(log') = Len(log) + 1
      /\ \A i \in 1 .. Len(log) : log'[i] = log[i]
      /\ log'[Len(log) + 1] = <<r, label>>
  <2>1. <<r, label>> \in (Pages \cup {NULL}) \X Labels
    OBVIOUS
  <2>2. log \in Seq((Pages \cup {NULL}) \X Labels)
    BY DEF TypeOK
  <2> QED BY <2>1, <2>2, AppendProperties, LenProperties
<1> SUFFICES ASSUME NEW p \in (Held \cap ever)'
             PROVE  \E i \in 1 .. Len(log') :
                      /\ log'[i] = <<p, holder'[p]>>
                      /\ \A j \in i + 1 .. Len(log') : log'[j][1] # p
  BY DEF LogNamesHolder
<1>2. CASE p = r
  <2>1. Len(log) + 1 \in 1 .. Len(log')
    BY <1>1
  <2>2. \A j \in (Len(log) + 1) + 1 .. Len(log') : FALSE
    BY <1>1
  <2> QED BY <1>1, <1>2, <2>1, <2>2
<1>3. CASE p # r
  <2>1. p \in Held \cap ever /\ holder'[p] = holder[p]
    BY <1>3
  <2>2. PICK i \in 1 .. Len(log) : /\ log[i] = <<p, holder[p]>>
                                   /\ \A j \in i + 1 .. Len(log) : log[j][1] # p
    BY <2>1 DEF LogNamesHolder
  <2>3. ASSUME NEW j \in i + 1 .. Len(log') PROVE log'[j][1] # p
    <3>1. CASE j = Len(log) + 1
      BY <1>1, <1>3, <3>1
    <3>2. CASE j # Len(log) + 1
      <4>1. j \in i + 1 .. Len(log) /\ j \in 1 .. Len(log)
        BY <1>1, <3>2
      <4> QED BY <1>1, <2>2, <4>1
    <3> QED BY <3>1, <3>2
  <2>4. i \in 1 .. Len(log') /\ log'[i] = <<p, holder'[p]>>
    BY <1>1, <2>1, <2>2
  <2> QED BY <2>3, <2>4
<1> QED BY <1>2, <1>3

\* When the log stays as it is, so must be what it accounts for.
LEMMA LogStays ==
  ASSUME LogNamesHolder, log' = log,
         \A p \in (Held \cap ever)' : p \in Held \cap ever /\ holder'[p] = holder[p]
  PROVE  LogNamesHolder'
BY DEF LogNamesHolder

LEMMA AllocateLogs ==
  ASSUME IInv, LogNamesHolder, NEW label \in Labels, Allocate(label)
  PROVE  LogNamesHolder'
<1>1. CASE HandOutNothing(label)
  <2>1. /\ log' = Append(log, <<NULL, label>>) /\ holder' = holder /\ ever' = ever
        /\ NULL \notin Pages
    BY <1>1 DEF HandOutNothing, NULL, Pages
  <2>2. (Held \cap ever)' = Held \cap ever /\ Held \subseteq Pages
    BY <2>1 DEF Held
  <2> QED BY <2>1, <2>2, LogGrows DEF IInv
<1>2. CASE Unlink /\ HandOut(Head(freelist), label)
  <2> DEFINE r == Head(freelist)
  <2>1. r \in Pages
    <3>1. freelist \in Seq(Pages) /\ freelist # <<>>
      BY <1>2, EmptySeq DEF IInv, TypeOK, Unlink
    <3> QED BY <3>1, HeadTailProperties
  <2>2. holder' = [holder EXCEPT ![r] = label] /\ holder \in [Pages -> Labels \cup {NONE}]
    BY <1>2 DEF HandOut, IInv, TypeOK
  <2>3. /\ holder'[r] = label
        /\ \A p \in Pages : p # r => holder'[p] = holder[p]
    BY <2>1, <2>2
  <2>4. CASE phase = "up"
    <3>1. log' = Append(log, <<r, label>>) /\ ever' = ever \cup {r}
      BY <1>2, <2>4 DEF HandOut
    <3>2. \A p \in (Held \cap ever)' :
            p # r => p \in Held \cap ever /\ holder'[p] = holder[p]
      BY <2>3, <3>1 DEF Held
    <3> HIDE DEF r
    <3> QED BY <2>1, <2>3, <3>1, <3>2, LogGrows DEF IInv
  <2>5. CASE phase # "up"
    <3>1. log' = log /\ ever' = {}
      BY <1>2, <2>5 DEF HandOut, IInv
    <3> QED BY <3>1, LogStays
  <2> QED BY <2>4, <2>5
<1> QED BY <1>1, <1>2 DEF Allocate

LEMMA KfreeLogs ==
  ASSUME IInv, LogNamesHolder, NEW p \in Pages, Kfree(p)
  PROVE  LogNamesHolder'
<1>1. /\ holder' = [holder EXCEPT ![p] = NONE] /\ log' = log /\ ever' = ever
      /\ holder \in [Pages -> Labels \cup {NONE}]
  BY DEF Kfree, IInv, TypeOK
<1>2. \A q \in (Held \cap ever)' : q \in Held \cap ever /\ holder'[q] = holder[q]
  BY <1>1 DEF Held
<1> QED BY <1>1, <1>2, LogStays

\* For every page somebody holds, the last entry of frames[] and pids[] about
\* it names its holder: what dump_physmem() of v1b reports is complete.
THEOREM LogComplete == Spec => []LogNamesHolder
<1>1. Init => LogNamesHolder
  BY DEF Init, LogNamesHolder
<1>2. IInv /\ LogNamesHolder /\ [Next]_vars => LogNamesHolder'
  <2> SUFFICES ASSUME IInv, LogNamesHolder, [Next]_vars PROVE LogNamesHolder'
    OBVIOUS
  <2>1. CASE Kinit1 \/ Kinit2 \/ UNCHANGED vars
    <3>1. log' = log /\ holder' = holder /\ ever' = ever
      BY <2>1 DEF Kinit1, Kinit2, vars
    <3> QED BY <3>1, LogStays DEF Held
  <2>2. CASE Kalloc
    BY <2>2, LabelTypes, AllocateLogs DEF Kalloc
  <2>3. CASE \E pid \in Pids : Kalloc2(pid)
    BY <2>3, LabelTypes, AllocateLogs DEF Kalloc2
  <2>4. CASE \E p \in Pages : Kfree(p)
    BY <2>4, KfreeLogs
  <2> QED BY <2>1, <2>2, <2>3, <2>4 DEF Next
<1> QED BY <1>1, <1>2, Invariance, PTL DEF Spec

=============================================================================
