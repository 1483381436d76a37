------------------------------ MODULE KallocSort ------------------------------
(***************************************************************************)
(* The physical page allocator of v2-sort/kalloc.c.                        *)
(*                                                                         *)
(* During boot the allocator is the usual linked free list.  kinit2()      *)
(* copies the first NFrames pages of that list into the table frames[] and *)
(* from then on pages are handed out by scanning the table: a process gets *)
(* the first free frame whose two neighbours are free, unknown, or its     *)
(* own.  kmem.lock is held over every scan, so a call is one step; only    *)
(* dump_physmem() reads the table without the lock, one access at a time.  *)
(*                                                                         *)
(* A page is its number.  freerange() pushes pages in ascending order, so  *)
(* the free list, and with it the table, is in descending page order.      *)
(***************************************************************************)
EXTENDS Integers, Sequences, FiniteSets

CONSTANTS
  NFrames,     \* entries of frames[] (17000 in the source)
  LowPages,    \* pages kinit1() frees: 0 .. LowPages-1 (end .. 4 MB)
  NPages,      \* pages kinit1() and kinit2() free together (end .. PHYSTOP)
  Pids,        \* the process ids pages are allocated for
  MaxReport    \* bound: the largest numframes passed to dump_physmem()

FREE    == -1  \* pid of a frame on no one's account
UNKNOWN == -2  \* pid of a frame the kernel took for itself
NULL    == -3  \* the null page pointer

Frames == 0 .. NFrames - 1
Pages  == 0 .. NPages - 1
Labels == Pids \cup {UNKNOWN}

ASSUME KallocAssumption ==
  /\ NFrames \in Nat \ {0} /\ LowPages \in Nat /\ NPages \in Nat
  /\ LowPages + NFrames <= NPages
  /\ Pids \subseteq Nat \ {0}
  /\ MaxReport \in Nat

VARIABLES
  phase,       \* main(): "start", "low" (after kinit1), "up" (after kinit2: use_lock)
  freelist,    \* kmem.freelist, its pages in list order
  framePid,    \* frames[i].pid
  framePfn,    \* frames[i].pfn
  bootPages,   \* pages allocated while use_lock was 0; never freed
  holds,       \* history: the pages each label's callers hold
  exhausted,   \* history: some call found no frame and fell through
  reissued,    \* history: pages handed out while somebody held them
  dump,        \* the dump_physmem() call in progress
  quiet        \* history: no call changed the table since that call began

vars == <<phase, freelist, framePid, framePfn, bootPages, holds, exhausted,
          reissued, dump, quiet>>
memory == <<phase, freelist, framePid, framePfn, bootPages, holds, exhausted,
            reissued>>

-----------------------------------------------------------------------------
(* Boot: kinit1(), the allocations that precede kinit2(), kinit2().        *)

\* freerange(): kfree2() pushes the pages lo .. hi-1 one by one.
FreeRange(lo, hi, list) == [k \in 1 .. (hi - lo) |-> hi - k] \o list

NoDump == [pc |-> "idle", n |-> 0, i |-> 0, out |-> <<>>]

Init ==
  /\ phase = "start"
  /\ freelist = <<>>
  /\ framePid = [i \in Frames |-> 0]       \* frames[] is in the bss
  /\ framePfn = [i \in Frames |-> NULL]
  /\ bootPages = {}
  /\ holds = [l \in Labels |-> {}]
  /\ exhausted = FALSE
  /\ reissued = {}
  /\ dump = NoDump
  /\ quiet = TRUE

Kinit1 ==
  /\ phase = "start"
  /\ phase' = "low"
  /\ freelist' = FreeRange(0, LowPages, freelist)
  /\ UNCHANGED <<framePid, framePfn, bootPages, holds, exhausted, reissued,
                 dump, quiet>>

\* kalloc() and kalloc2(-2) with use_lock = 0: pop the free list, or return 0.
BootAlloc ==
  /\ phase = "low"
  /\ freelist # <<>>
  /\ bootPages' = bootPages \cup {Head(freelist)}
  /\ freelist' = Tail(freelist)
  /\ UNCHANGED <<phase, framePid, framePfn, holds, exhausted, reissued, dump,
                 quiet>>

Kinit2 ==
  /\ phase = "low"
  /\ phase' = "up"
  /\ freelist' = FreeRange(LowPages, NPages, freelist)
  /\ framePid' = [i \in Frames |-> FREE]
  /\ framePfn' = [i \in Frames |-> freelist'[i + 1]]
  /\ UNCHANGED <<bootPages, holds, exhausted, reissued, dump, quiet>>

-----------------------------------------------------------------------------
(* kalloc(), kalloc2() and kfree() once the table is in use.               *)

\* frames[i].pid for i in -1 .. NFrames.  The tests at both ends of the table
\* read the words beside it; "beside" says what lies there.
PidAt(i, beside) ==
  IF i = -1 THEN beside[1] ELSE IF i = NFrames THEN beside[2] ELSE framePid[i]

\* What the words beside frames[] may look like to the tests: an admissible
\* neighbour or a foreign one.
Beside == {FREE, 0} \X {FREE, 0}

\* The neighbour test of kalloc2().
Admissible(p, pid) == p \in {pid, FREE, UNKNOWN}

\* Mutant: the neighbour on the left is not looked at.
SuitsAnyLeft(c, pid, beside) ==
  framePid[c] = FREE /\ Admissible(PidAt(c + 1, beside), pid)

\* kalloc2() takes frame c for pid.
Suits(c, pid, beside) ==
  \/ c = 0 /\ framePid[c] = FREE /\ PidAt(c + 1, beside) = FREE
  \/ framePid[c] = FREE /\ pid = UNKNOWN
  \/ /\ framePid[c] = FREE
     /\ Admissible(PidAt(c - 1, beside), pid)
     /\ Admissible(PidAt(c + 1, beside), pid)

\* Mutant: an unknown page passes for a free one.
IsFreeOrUnknown(c) == framePid[c] \in {FREE, UNKNOWN}

\* kalloc() takes frame c: the neighbour tests are or-ed away.
IsFree(c) == framePid[c] = FREE

\* The page is returned to a caller allocating under the given label.
Return(label, page) ==
  /\ holds' = [holds EXCEPT ![label] = @ \cup {page}]
  /\ reissued' = IF \E l \in Labels : page \in holds[l]
                   THEN reissued \cup {page} ELSE reissued

\* The scan found frame c first.
Take(c, label) ==
  /\ framePid' = [framePid EXCEPT ![c] = label]
  /\ Return(label, framePfn[c])
  /\ exhausted' = exhausted

\* The scan found nothing: r still is what kmem.freelist was, and is returned.
FallThrough(label) ==
  /\ Return(label, Head(freelist))
  /\ exhausted' = TRUE
  /\ framePid' = framePid

Kalloc ==
  /\ phase = "up"
  /\ \/ \E c \in Frames :
          /\ IsFree(c)
          /\ \A d \in 0 .. c - 1 : ~IsFree(d)
          /\ Take(c, UNKNOWN)
     \/ /\ \A d \in Frames : ~IsFree(d)
        /\ FallThrough(UNKNOWN)
  /\ quiet' = FALSE
  /\ UNCHANGED <<phase, freelist, framePfn, bootPages, dump>>

Kalloc2(pid) ==
  /\ phase = "up"
  /\ \E beside \in Beside :
       \/ \E c \in Frames :
            /\ Suits(c, pid, beside)
            /\ \A d \in 0 .. c - 1 : ~Suits(d, pid, beside)
            /\ Take(c, pid)
       \/ /\ \A d \in Frames : ~Suits(d, pid, beside)
          /\ FallThrough(pid)
  /\ quiet' = FALSE
  /\ UNCHANGED <<phase, freelist, framePfn, bootPages, dump>>

\* Mutant: the loop of kfree() ends one frame early.
LookupShort(page) == {i \in 0 .. NFrames - 2 : framePfn[i] = page}

\* The frames kfree() may find page in; it clears the first.
Lookup(page) == {i \in Frames : framePfn[i] = page}

\* A caller frees a page it holds.  The page is looked up in the table; the
\* free list is not touched.
Kfree(label, page) ==
  /\ phase = "up"
  /\ page \in holds[label]
  /\ holds' = [holds EXCEPT ![label] = @ \ {page}]
  /\ \/ \E i \in Lookup(page) :
          /\ \A j \in Lookup(page) : i <= j
          /\ framePid' = [framePid EXCEPT ![i] = FREE]
     \/ /\ Lookup(page) = {}
        /\ framePid' = framePid
  /\ quiet' = FALSE
  /\ UNCHANGED <<phase, freelist, framePfn, bootPages, exhausted, reissued,
                 dump>>

-----------------------------------------------------------------------------
(* dump_physmem(): the test of frames[i].pid and its second read, for the  *)
(* report, are separate accesses; kalloc and kfree may run in between.     *)

DumpCall(n) ==
  /\ phase = "up"
  /\ dump.pc \in {"idle", "done"}
  /\ n > 0                                  \* otherwise it returns -1
  /\ dump' = [pc |-> "test", n |-> n, i |-> 0, out |-> <<>>]
  /\ quiet' = TRUE
  /\ UNCHANGED memory

DumpTest ==
  /\ dump.pc = "test"
  /\ dump.i \in Frames
  /\ dump' = IF framePid[dump.i] # FREE THEN [dump EXCEPT !.pc = "report"]
                                        ELSE [dump EXCEPT !.i = @ + 1]
  /\ UNCHANGED <<memory, quiet>>

\* Mutant: i is not advanced past a reported frame.
DumpReportStuck ==
  /\ dump.pc = "report"
  /\ LET out == Append(dump.out, <<framePfn[dump.i], framePid[dump.i]>>)
     IN dump' = [dump EXCEPT !.out = out,
                             !.pc = IF Len(out) < dump.n THEN "test" ELSE "done"]
  /\ UNCHANGED <<memory, quiet>>

DumpReport ==
  /\ dump.pc = "report"
  /\ LET out == Append(dump.out, <<framePfn[dump.i], framePid[dump.i]>>)
     IN dump' = [dump EXCEPT !.out = out,
                             !.i = @ + 1,
                             !.pc = IF Len(out) < dump.n THEN "test" ELSE "done"]
  /\ UNCHANGED <<memory, quiet>>

\* The loop has no test on i: with too few allocated frames it reads on past
\* the end of frames[].  The model stops following it there.
DumpOverrun ==
  /\ dump.pc = "test"
  /\ dump.i \notin Frames
  /\ dump' = [dump EXCEPT !.pc = "overrun"]
  /\ UNCHANGED <<memory, quiet>>

Next ==
  \/ Kinit1
  \/ BootAlloc
  \/ Kinit2
  \/ Kalloc
  \/ \E l \in Labels : Kalloc2(l)
  \/ \E l \in Labels, p \in Pages : Kfree(l, p)
  \/ \E n \in 1 .. MaxReport : DumpCall(n)
  \/ DumpTest
  \/ DumpReport
  \/ DumpOverrun

Spec == Init /\ [][Next]_vars

-----------------------------------------------------------------------------
(* Properties.                                                             *)

DumpStates ==
  [pc : {"idle", "test", "report", "done", "overrun"}, n : 0 .. MaxReport,
   i : 0 .. NFrames, out : Seq(Pages \X (Labels \cup {FREE, 0}))]

\* Every variable keeps its type; the table holds pages only after kinit2().
TypeOK ==
  /\ phase \in {"start", "low", "up"}
  /\ freelist \in Seq(Pages)
  /\ framePid \in [Frames -> Labels \cup {FREE, 0}]
  /\ framePfn \in [Frames -> Pages \cup {NULL}]
  /\ bootPages \subseteq Pages
  /\ holds \in [Labels -> SUBSET Pages]
  /\ exhausted \in BOOLEAN
  /\ reissued \subseteq Pages
  /\ dump \in DumpStates
  /\ quiet \in BOOLEAN

\* The rule the neighbour tests of kalloc2() are there for: no two adjacent
\* frames of the table are ever on the accounts of two different processes,
\* whatever is freed and reallocated in between and whatever lies beside the
\* table.
NoForeignNeighbour ==
  \A i \in 0 .. NFrames - 2 :
    framePid[i] \in Pids /\ framePid[i + 1] \in Pids
      => framePid[i] = framePid[i + 1]

\* As long as no call has fallen through, the table is exact: a frame is on
\* the account of a label iff a caller with that label holds its page, and
\* callers hold pages of the table only.
TableExact ==
  phase = "up" /\ ~exhausted =>
    /\ \A i \in Frames, l \in Labels : framePid[i] = l <=> framePfn[i] \in holds[l]
    /\ \A l \in Labels : \A p \in holds[l] : \E i \in Frames : framePfn[i] = p

\* The table is well formed, agrees with what its callers hold, and keeps processes
\* out of each other's neighbourhood.
TableSound == TypeOK /\ TableExact /\ NoForeignNeighbour

\* As long as no call has fallen through, no page is in two hands: kalloc and
\* kalloc2 never return a page that is held, nor one taken during boot.
SingleOwner ==
  ~exhausted =>
    /\ reissued = {}
    /\ \A l, m \in Labels : l # m => holds[l] \cap holds[m] = {}
    /\ \A l \in Labels : holds[l] \cap bootPages = {}

\* The rule in terms of memory: pages next to each other in physical memory
\* are never held by two different processes.
PagesApart ==
  ~exhausted =>
    \A l, m \in Pids : l # m =>
      \A p \in holds[l] : p + 1 \notin holds[m]

\* A dump_physmem() call during which nothing is allocated or freed has
\* reported, in table order, every allocated frame it has passed.
DumpExact ==
  dump.pc \in {"test", "report", "done"} /\ quiet =>
    LET seen == {i \in Frames : i < dump.i /\ framePid[i] # FREE}
    IN /\ Len(dump.out) = Cardinality(seen)
       /\ \A i \in seen :
            dump.out[Cardinality({j \in seen : j <= i})]
              = <<framePfn[i], framePid[i]>>

\* The inductive invariant behind the above.  Boot leaves the free list in
\* descending page order, so the table lists the NFrames topmost pages from
\* the top down and no page twice, and none of them was taken during boot;
\* nothing is held before the table exists; a dump runs only beside a table.
BootOrder ==
  /\ phase = "start" => freelist = <<>> /\ bootPages = {}
  /\ phase = "low" =>
       \E k \in 0 .. LowPages :
         /\ Len(freelist) = k
         /\ \A j \in 1 .. k : freelist[j] = k - j
         /\ bootPages = k .. LowPages - 1
  /\ phase = "up" =>
       /\ freelist # <<>>
       /\ \A i \in Frames : framePfn[i] = NPages - 1 - i
       /\ \A i \in Frames : framePid[i] \in Labels \cup {FREE}
       /\ bootPages \subseteq 0 .. LowPages - 1

NothingBeforeTable ==
  phase # "up" =>
    /\ \A i \in Frames : framePid[i] = 0
    /\ \A l \in Labels : holds[l] = {}
    /\ exhausted = FALSE /\ reissued = {}
    /\ dump.pc = "idle"

DumpInside == dump.pc = "report" => dump.i \in Frames

IInv ==
  /\ TypeOK
  /\ BootOrder
  /\ NothingBeforeTable
  /\ DumpInside
  /\ NoForeignNeighbour
  /\ TableExact
  /\ ~exhausted => reissued = {}

\* "Returns 0 if the memory cannot be allocated": with no frame to give, a
\* call hands out nothing, in particular no page that is held.
NoReissue == reissued = {}

=============================================================================
