------------------------------ MODULE KallocList ------------------------------
(***************************************************************************)
(* The physical page allocator of v1a/kalloc.c and v1b/kalloc.c.           *)
(*                                                                         *)
(* The free list stays in use after boot.  Every allocation takes the page *)
(* at its head and unlinks the page behind it as well                      *)
(* (kmem.freelist = r->next->next), so that the next page in memory stays  *)
(* unused; the page unlinked this way is lost.  Allocations are logged in  *)
(* frames[]/pids[] under index, which only grows.                          *)
(*                                                                         *)
(* v1b labels what kalloc2(pid) hands out with pid and what kalloc() hands *)
(* out with 1; v1a has kalloc() only, labelled -2: there Pids = {}.        *)
(* kmem.lock is held over a call once use_lock is set, and boot is         *)
(* sequential, so a call is one step.                                      *)
(***************************************************************************)
EXTENDS Integers, Sequences

CONSTANTS
  LowPages,    \* pages kinit1() frees: 0 .. LowPages-1
  NPages,      \* pages kinit1() and kinit2() free together
  KernelPid,   \* the label of kalloc(): 1 in v1b, -2 in v1a
  Pids,        \* the labels kalloc2() is called with
  LogSize      \* entries of frames[] and pids[] (16385 in the source); the
               \* model stops where the code would write past them

NULL == -3     \* the null page pointer
NONE == -4     \* nobody holds the page

Pages  == 0 .. NPages - 1
Labels == Pids \cup {KernelPid}

ASSUME KallocListAssumption ==
  /\ LowPages \in Nat /\ NPages \in Nat /\ LowPages <= NPages
  /\ Labels \subseteq Int /\ NONE \notin Labels
  /\ LogSize \in Nat

VARIABLES
  phase,       \* main(): "start", "low" (after kinit1), "up" (after kinit2: use_lock)
  freelist,    \* kmem.freelist, its pages in list order
  log,         \* frames[] and pids[] up to index
  holder,      \* history: the label each page was last handed out under
  ever,        \* history: the pages handed out since kinit2
  wild,        \* history: the list was followed through the null pointer
  reissued     \* history: pages handed out while somebody held them

vars == <<phase, freelist, log, holder, ever, wild, reissued>>

Held == {p \in Pages : holder[p] # NONE}
Listed == {freelist[i] : i \in 1 .. Len(freelist)}

-----------------------------------------------------------------------------
\* freerange(): kfree() pushes the pages lo .. hi-1 one by one.
FreeRange(lo, hi) == [k \in 1 .. (hi - lo) |-> hi - k] \o freelist

Init ==
  /\ phase = "start"
  /\ freelist = <<>>
  /\ log = <<>>
  /\ holder = [p \in Pages |-> NONE]
  /\ ever = {}
  /\ wild = FALSE
  /\ reissued = {}

Kinit1 ==
  /\ phase = "start"
  /\ phase' = "low"
  /\ freelist' = FreeRange(0, LowPages)
  /\ UNCHANGED <<log, holder, ever, wild, reissued>>

Kinit2 ==
  /\ phase = "low"
  /\ phase' = "up"
  /\ freelist' = FreeRange(LowPages, NPages)
  /\ UNCHANGED <<log, holder, ever, wild, reissued>>

\* Mutant: r->next = r->next->next, the head itself stays.
UnlinkSecond ==
  /\ Len(freelist) >= 2
  /\ freelist' = <<Head(freelist)>> \o Tail(Tail(freelist))
  /\ wild' = wild

\* Mutant: kmem.freelist = r->next.
UnlinkOne ==
  /\ freelist # <<>>
  /\ freelist' = Tail(freelist)
  /\ wild' = wild

\* kmem.freelist = r->next->next.  Behind the last page of the list r->next is
\* 0, and what the word at address 0 makes of the list is anybody's guess: the
\* list ends, or goes on at some page.
Unlink ==
  \/ /\ Len(freelist) >= 2
     /\ freelist' = Tail(Tail(freelist))
     /\ wild' = wild
  \/ /\ Len(freelist) = 1
     /\ freelist' \in {<<>>} \cup {<<p>> : p \in Pages}
     /\ wild' = TRUE

\* Mutant: pids[index] = pidNum before updatePid(pid).
HandOutStalePid(r, label) ==
  /\ holder' = [holder EXCEPT ![r] = label]
  /\ reissued' = IF r \in Held THEN reissued \cup {r} ELSE reissued
  /\ IF phase = "up"
       THEN /\ log' = Append(log, <<r, IF log = <<>> THEN label ELSE log[Len(log)][2]>>)
            /\ ever' = ever \cup {r}
       ELSE UNCHANGED <<log, ever>>

\* The page r is handed out under a label and, after boot, logged.
HandOut(r, label) ==
  /\ holder' = [holder EXCEPT ![r] = label]
  /\ reissued' = IF r \in Held THEN reissued \cup {r} ELSE reissued
  /\ IF phase = "up" THEN log' = Append(log, <<r, label>>) /\ ever' = ever \cup {r}
                     ELSE UNCHANGED <<log, ever>>

\* With an empty list the call returns 0, and after boot logs that as a page.
HandOutNothing(label) ==
  /\ freelist = <<>>
  /\ phase = "up"
  /\ log' = Append(log, <<NULL, label>>)
  /\ UNCHANGED <<freelist, holder, ever, wild, reissued>>

Allocate(label) ==
  /\ phase # "start"
  /\ Len(log) < LogSize
  /\ \/ Unlink /\ HandOut(Head(freelist), label)
     \/ HandOutNothing(label)
  /\ UNCHANGED phase

Kalloc == Allocate(KernelPid)
Kalloc2(pid) == Allocate(pid)

\* A holder frees a page it got after boot: it goes to the head of the list.
Kfree(p) ==
  /\ phase = "up"
  /\ p \in Held \cap ever
  /\ freelist' = <<p>> \o freelist
  /\ holder' = [holder EXCEPT ![p] = NONE]
  /\ UNCHANGED <<phase, log, ever, wild, reissued>>

Next ==
  \/ Kinit1
  \/ Kinit2
  \/ Kalloc
  \/ \E pid \in Pids : Kalloc2(pid)
  \/ \E p \in Pages : Kfree(p)

Spec == Init /\ [][Next]_vars

-----------------------------------------------------------------------------
(* Properties.                                                             *)

\* Every variable keeps its type.
TypeOK ==
  /\ phase \in {"start", "low", "up"}
  /\ freelist \in Seq(Pages)
  /\ log \in Seq((Pages \cup {NULL}) \X Labels)
  /\ holder \in [Pages -> Labels \cup {NONE}]
  /\ ever \subseteq Pages
  /\ wild \in BOOLEAN
  /\ reissued \subseteq Pages

\* What the double step through the list is for: of two pages next to each
\* other in memory at most one is ever handed out after boot, however frees,
\* which put pages back in another order, and allocations alternate.
NoNeighbours ==
  ~wild => \A p \in ever : p + 1 \notin ever

\* Until the list is followed through the null pointer, its pages are distinct
\* and nobody's, so no page is handed out to two holders.
SingleOwner ==
  ~wild =>
    /\ reissued = {}
    /\ Listed \cap Held = {}
    /\ \A i, j \in 1 .. Len(freelist) : i # j => freelist[i] # freelist[j]

\* The last entry of the log for a page somebody holds names that holder, so
\* dump_physmem() accounts for every page held.
LogNamesHolder ==
  \A p \in Held \cap ever :
    \E i \in 1 .. Len(log) :
      /\ log[i] = <<p, holder[p]>>
      /\ \A j \in i + 1 .. Len(log) : log[j][1] # p

\* The inductive invariant behind NoNeighbours and SingleOwner.  A page of the
\* list not handed out so far is "fresh"; below the recycled pages the list
\* is fresh and descending; the page below one that was handed out is out of
\* the list for good.
Fresh(i) == freelist[i] \notin ever

ListOrder ==
  /\ \A i, j \in 1 .. Len(freelist) : i # j => freelist[i] # freelist[j]
  /\ \A i \in 1 .. Len(freelist) : Fresh(i) =>
       /\ \A j \in i + 1 .. Len(freelist) : Fresh(j) /\ freelist[j] < freelist[i]
       /\ freelist[i] - 1 \in ever \cup Listed =>
            /\ i < Len(freelist)
            /\ freelist[i + 1] = freelist[i] - 1

IInv ==
  /\ TypeOK
  /\ phase # "up" => ever = {}
  /\ phase = "start" => freelist = <<>> /\ Held = {}
  /\ ~wild =>
       /\ reissued = {}
       /\ Listed \cap Held = {}
       /\ ListOrder
       /\ \A p \in ever : p - 1 \notin ever \cup Listed
       /\ phase = "low" =>
            /\ \A p \in Listed : p < LowPages
            /\ \A p \in Held : p < LowPages

=============================================================================
