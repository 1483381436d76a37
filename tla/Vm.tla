---------------------------------- MODULE Vm ----------------------------------
(***************************************************************************)
(* The memory of processes: vm.c, and the system calls of proc.c and       *)
(* exec.c that make, change and give up an address space. They are the     *)
(* same in all three kernels; the allocator below them is not.             *)
(*                                                                         *)
(* Every page of an address space, its page directory, its page tables and *)
(* its kernel stack come from kalloc(). That of v1a and v1b returns 0 when *)
(* its list is empty; that of v2-sort never does. What calls of different  *)
(* processes have in common is the pool of free pages only, so a call is   *)
(* one step; where in it the pool runs dry depends on how many pages the   *)
(* others have left it.                                                    *)
(*                                                                         *)
(* Both allocators have states in which they hand out what is not theirs   *)
(* to give: the model stops there (mem.wild).                              *)
(*                                                                         *)
(* Addresses and sizes are in units of a part of a page: PGSIZE units are  *)
(* a page, and a page table maps PerTable pages.                           *)
(***************************************************************************)
EXTENDS Integers, Sequences, FiniteSets, FiniteSetsExt, SequencesExt

CONSTANTS
  Procs,           \* the slots of the process table
  InitProc,        \* the one that userinit() takes
  Kernels,         \* [version, pages, beside]: the allocator ("list" in v1a and v1b,
                   \* "table" in v2-sort), how many pages it has after boot, and the
                   \* words on both sides of frames[]
  PGSIZE,
  PerTable,
  UserTables,      \* page tables below KERNBASE
  KernTables,      \* page tables setupkvm() needs above it
  Increments,      \* what sbrk() is asked for
  Programs,        \* what exec() finds: see Exec
  MaxPid           \* bound: the processes made

KERNBASE == PGSIZE * PerTable * UserTables
UserVas  == {v \in 0..KERNBASE - 1 : v % PGSIZE = 0}

VARIABLES
  mem,         \* [kernel, free, skipped, label, wild, dir]: which kernel this is, the
               \* free pages, those the list has lost, the pid in frames[] of those the
               \* table has, whether the allocator has given what it had not, and what
               \* is in the pages that are page directories
  state,       \* of each process: "UNUSED", "RUNNABLE" or "ZOMBIE"
  pid, parent, sz, pgdir, kstack,   \* struct proc; pgdir and kstack are pages
  nextpid,
  ret          \* what the last call returned: 0 or -1, and who called

procvars == <<state, pid, parent, sz, pgdir, kstack, nextpid>>
vars == <<mem, procvars, ret>>

PGROUNDUP(a) == ((a + PGSIZE - 1) \div PGSIZE) * PGSIZE

\* A page directory: its page tables below and above KERNBASE, and what the first
\* map. 0 is an entry that is not present.
NoDir == [tab |-> [t \in 0..UserTables - 1 |-> 0], kern |-> {}, pte |-> [v \in UserVas |-> 0]]

-----------------------------------------------------------------------------
(* kalloc(), kalloc2(), kfree(), for the kernel (-2) or a process.         *)

Pages == 1..mem.kernel.pages

InTable(m) == m.kernel.version = "table"

\* v1a, v1b: an empty list gives 0.
Dry(m) == ~InTable(m) /\ m.free = {}

\* v1a, v1b: the page at the list's head and the one behind it both leave the list. (The
\* order of the list makes no difference here: NoNeighbours of KallocList is about it.)
\* Behind the last page is address 0, and what the list is from there on.
ListHead(m) == Min(m.free)
Unlink(m) ==
  LET behind == {g \in m.free : g = Min(m.free \ {ListHead(m)})}
  IN  IF Cardinality(m.free) = 1
      THEN [m EXCEPT !.free = {}, !.wild = TRUE]
      ELSE [m EXCEPT !.free = @ \ ({ListHead(m)} \cup behind), !.skipped = @ \cup behind]

\* v2-sort: page g is in frames[g - 1]. A process gets a free frame between frames of
\* nobody, of the kernel or of its own; the kernel gets any.
PidBeside(m, g) ==
  IF g = 0 THEN m.kernel.beside[1]
  ELSE IF g > m.kernel.pages THEN m.kernel.beside[2] ELSE m.label[g]
Suiting(m, for) ==
  {g \in m.free :
     \/ for = -2
     \/ g = 1 /\ PidBeside(m, 2) = -1
     \/ {PidBeside(m, g - 1), PidBeside(m, g + 1)} \subseteq {for, -1, -2}}

\* The page that kalloc() returns: in v2-sort, if none suits, that of frames[0].
Page(m, for) ==
  IF ~InTable(m) THEN ListHead(m)
  ELSE IF Suiting(m, for) = {} THEN 1 ELSE Min(Suiting(m, for))

Kalloc(m, for) ==
  IF ~InTable(m) THEN Unlink(m)
  ELSE IF Suiting(m, for) = {} THEN [m EXCEPT !.wild = TRUE]
  ELSE [m EXCEPT !.free = @ \ {Page(m, for)}, !.label[Page(m, for)] = for]

Kfree(m, ps) ==
  [m EXCEPT !.free = @ \cup ps, !.label = [g \in DOMAIN @ |-> IF g \in ps THEN -1 ELSE @[g]]]

\* A call that may fail gives whether it did not, and the memory it leaves.
Result(ok, m) == [ok |-> ok, m |-> m]

\* The page addresses from a up to, not including, b.
Vas(a, b) == [k \in 1..((PGROUNDUP(b) - PGROUNDUP(a)) \div PGSIZE) |-> PGROUNDUP(a) + (k - 1) * PGSIZE]

-----------------------------------------------------------------------------
(* vm.c                                                                    *)

\* Whether walkpgdir(.., 1) has to allocate the page table for address a.
NeedsTable(m, d, a) == m.dir[d].tab[a \div (PGSIZE * PerTable)] = 0

\* mappages() of one page, and walkpgdir(.., 1) in it.
Mappages(m, d, a, page) ==
  LET t == a \div (PGSIZE * PerTable)
      withTable == IF NeedsTable(m, d, a)
                   THEN [Kalloc(m, -2) EXCEPT !.dir[d].tab[t] = Page(m, -2)] ELSE m
  IN  IF NeedsTable(m, d, a) /\ Dry(m) THEN Result(FALSE, m)
      ELSE Result(TRUE, [withTable EXCEPT !.dir[d].pte[a] = page])

\* deallocuvm(): the pages between newsz and oldsz that are there.
Deallocuvm(m, d, oldsz, newsz) ==
  LET gone == {v \in UserVas : PGROUNDUP(newsz) <= v /\ v < oldsz}
  IN  [Kfree(m, {m.dir[d].pte[v] : v \in gone} \ {0}) EXCEPT
         !.dir[d].pte = [v \in UserVas |-> IF v \in gone THEN 0 ELSE @[v]]]

\* A page at address a, and the page freed if it cannot be mapped.
AddPage(d, for, r, a) ==
  IF ~r.ok \/ Dry(r.m) THEN Result(FALSE, r.m)
  ELSE LET page == Page(r.m, for)
           mapped == Mappages(Kalloc(r.m, for), d, a, page)
       IN  IF mapped.ok THEN mapped ELSE Result(FALSE, Kfree(mapped.m, {page}))

\* Mutant: what was allocated before the failure stays mapped.
AllocuvmKeeps(m, d, oldsz, newsz, for) ==
  LET r == FoldLeft(LAMBDA x, a : AddPage(d, for, x, a), Result(TRUE, m), Vas(oldsz, newsz))
  IN  IF newsz >= KERNBASE THEN [sz |-> 0, m |-> m]
      ELSE IF newsz < oldsz THEN [sz |-> oldsz, m |-> m]
      ELSE [sz |-> IF r.ok THEN newsz ELSE 0, m |-> r.m]

\* allocuvm(): the new size, 0 when it fails and has given its pages back.
Allocuvm(m, d, oldsz, newsz, for) ==
  LET r == FoldLeft(LAMBDA x, a : AddPage(d, for, x, a), Result(TRUE, m), Vas(oldsz, newsz))
  IN  IF newsz >= KERNBASE THEN [sz |-> 0, m |-> m]
      ELSE IF newsz < oldsz THEN [sz |-> oldsz, m |-> m]
      ELSE IF r.ok THEN [sz |-> newsz, m |-> r.m]
      ELSE [sz |-> 0, m |-> Deallocuvm(r.m, d, newsz, oldsz)]

\* Mutant: freevm() forgets the page tables.
FreevmKeepsTables(m, d) ==
  [Kfree(Deallocuvm(m, d, KERNBASE, 0), {d} \cup m.dir[d].kern) EXCEPT !.dir[d] = NoDir]

\* freevm(): the user pages, the page tables and the directory.
Freevm(m, d) ==
  [Kfree(Deallocuvm(m, d, KERNBASE, 0),
         {d} \cup m.dir[d].kern \cup (Range(m.dir[d].tab) \ {0})) EXCEPT !.dir[d] = NoDir]

\* setupkvm(): a directory and the tables of the kernel's mappings.
Setupkvm(m) ==
  LET d == Page(m, -2)
      AddTable(x, k) ==
        IF Dry(x) THEN x ELSE [Kalloc(x, -2) EXCEPT !.dir[d].kern = @ \cup {Page(x, -2)}]
      full == FoldLeft(AddTable, [Kalloc(m, -2) EXCEPT !.dir[d] = NoDir], [k \in 1..KernTables |-> k])
  IN  IF Dry(m) THEN [d |-> 0, m |-> m]
      ELSE IF Cardinality(full.dir[d].kern) = KernTables THEN [d |-> d, m |-> full]
      ELSE [d |-> 0, m |-> Freevm(full, d)]

\* copyuvm(): a directory with a copy of every page below size.
Copyuvm(m, from, size, for) ==
  LET new == Setupkvm(m)
      r == FoldLeft(LAMBDA x, a : AddPage(new.d, for, x, a), Result(TRUE, new.m), Vas(0, size))
  IN  IF new.d = 0 THEN new
      ELSE IF r.ok THEN [d |-> new.d, m |-> r.m]
      ELSE [d |-> 0, m |-> Freevm(r.m, new.d)]

-----------------------------------------------------------------------------
(* proc.c                                                                  *)

\* The memory after boot.
Fresh(k) ==
  [ kernel |-> k, free |-> 1..k.pages, skipped |-> {}, wild |-> FALSE,
    label |-> [g \in 1..k.pages |-> -1], dir |-> [g \in 1..k.pages |-> NoDir] ]

\* userinit(): the first process, with one page of code.
Init ==
  \E m0 \in {Fresh(k) : k \in Kernels} :
  LET stack == Page(m0, 1)
      k == Setupkvm(Kalloc(m0, 1))
      code == Mappages(Kalloc(k.m, -2), k.d, 0, Page(k.m, -2))
      Only(x, none) == [p \in Procs |-> IF p = InitProc THEN x ELSE none]
  IN
  /\ mem = code.m
  /\ state = Only("RUNNABLE", "UNUSED") /\ pid = Only(1, 0)
  /\ parent = [p \in Procs |-> p]
  /\ sz = Only(PGSIZE, 0) /\ pgdir = Only(k.d, 0) /\ kstack = Only(stack, 0)
  /\ nextpid = 2
  /\ ret = <<InitProc, 0>>

\* A process that can make a call: it has the page its code is in.
Running(p) == state[p] = "RUNNABLE" /\ mem.dir[pgdir[p]].pte[0] # 0

\* fork() into the free slot q: a stack, then a copy of the memory, or neither.
Fork(p, q) ==
  LET stack == Page(mem, nextpid) IN
  /\ Running(p) /\ state[q] = "UNUSED" /\ nextpid <= MaxPid
  /\ nextpid' = nextpid + 1
  /\ pid' = [pid EXCEPT ![q] = nextpid]
  /\ \E copy \in {IF Dry(mem) THEN [d |-> 0, m |-> mem]
                   ELSE Copyuvm(Kalloc(mem, nextpid), pgdir[p], sz[p], nextpid)} :
     IF copy.d # 0
     THEN /\ mem' = copy.m
          /\ state' = [state EXCEPT ![q] = "RUNNABLE"]
          /\ parent' = [parent EXCEPT ![q] = p]
          /\ sz' = [sz EXCEPT ![q] = sz[p]]
          /\ pgdir' = [pgdir EXCEPT ![q] = copy.d]
          /\ kstack' = [kstack EXCEPT ![q] = stack]
          /\ ret' = <<p, 0>>
     ELSE /\ mem' = IF Dry(mem) THEN mem ELSE Kfree(copy.m, {stack})
          /\ ret' = <<p, -1>>
          /\ UNCHANGED <<state, parent, sz, pgdir, kstack>>

\* growproc(), for sbrk(): a size of 0 is taken for a failure.
Growproc(p, n) ==
  LET d == pgdir[p]
      up == Allocuvm(mem, d, sz[p], sz[p] + n, pid[p])
      down == IF n < 0 /\ sz[p] + n >= 0
              THEN [sz |-> sz[p] + n, m |-> Deallocuvm(mem, d, sz[p], sz[p] + n)]
              ELSE [sz |-> sz[p], m |-> mem]
      r == IF n > 0 THEN up ELSE down
  IN
  /\ Running(p)
  /\ mem' = r.m
  /\ sz' = IF r.sz = 0 THEN sz ELSE [sz EXCEPT ![p] = r.sz]
  /\ ret' = <<p, IF r.sz = 0 THEN -1 ELSE 0>>
  /\ UNCHANGED <<state, pid, parent, pgdir, kstack, nextpid>>

\* exit(): its children go to init.
Exit(p) ==
  /\ state[p] = "RUNNABLE" /\ p # InitProc
  /\ state' = [state EXCEPT ![p] = "ZOMBIE"]
  /\ parent' = [q \in Procs |-> IF parent[q] = p THEN InitProc ELSE parent[q]]
  /\ UNCHANGED <<mem, pid, sz, pgdir, kstack, nextpid, ret>>

\* wait() finds the zombie q.
Wait(p, q) ==
  /\ Running(p) /\ state[q] = "ZOMBIE" /\ parent[q] = p
  /\ mem' = Freevm(Kfree(mem, {kstack[q]}), pgdir[q])
  /\ state' = [state EXCEPT ![q] = "UNUSED"]
  /\ pid' = [pid EXCEPT ![q] = 0] /\ parent' = [parent EXCEPT ![q] = q]
  /\ kstack' = [kstack EXCEPT ![q] = 0]
  /\ ret' = <<p, 0>>
  /\ UNCHANGED <<sz, pgdir, nextpid>>

-----------------------------------------------------------------------------
(* exec.c                                                                  *)

\* A program is the ends of its segments, in the order of the file, how many of
\* them can be read and are in order, and whether the arguments fit on the stack.
\* ends = <<>> and good = -1 is a path or a header that is not a program's.

\* The segments of prog into directory d, one after the other.
LoadSegments(m, d, prog, for) ==
  LET Load(r, k) ==
        LET a == Allocuvm(r.m, d, r.sz, prog.ends[k], for)
        IN  IF ~r.ok THEN r
            ELSE [ok |-> a.sz # 0 /\ k <= prog.good, sz |-> a.sz, m |-> a.m]
  IN  FoldLeft(Load, [ok |-> prog.good >= 0, sz |-> 0, m |-> m],
               [k \in 1..Len(prog.ends) |-> k])

\* bad: the new image is freed.
ExecBad(p, m, d) ==
  /\ mem' = IF d = 0 THEN m ELSE Freevm(m, d)
  /\ ret' = <<p, -1>>
  /\ UNCHANGED procvars

\* exec(): the new image is built beside the old one, which is freed last.
Exec(p, prog) ==
  /\ Running(p)
  /\ IF prog.good < 0 THEN ExecBad(p, mem, 0) ELSE
     \E new \in {Setupkvm(mem)} :
     IF new.d = 0 THEN ExecBad(p, new.m, 0) ELSE
     \E loaded \in {LoadSegments(new.m, new.d, prog, pid[p])} :
     IF ~loaded.ok THEN ExecBad(p, loaded.m, new.d) ELSE
     \E base \in {PGROUNDUP(loaded.sz)} :
     \E stack \in {Allocuvm(loaded.m, new.d, base, base + 2 * PGSIZE, pid[p])} :
     IF stack.sz = 0 \/ ~prog.argsFit THEN ExecBad(p, stack.m, new.d)
     ELSE /\ mem' = Freevm(stack.m, pgdir[p])
          /\ pgdir' = [pgdir EXCEPT ![p] = new.d]
          /\ sz' = [sz EXCEPT ![p] = stack.sz]
          /\ ret' = <<p, 0>>
          /\ UNCHANGED <<state, pid, parent, kstack, nextpid>>

-----------------------------------------------------------------------------

Next ==
  ~mem.wild /\ \E p \in Procs :
    \/ \E q \in Procs : Fork(p, q) \/ Wait(p, q)
    \/ \E n \in Increments : Growproc(p, n)
    \/ \E prog \in Programs : Exec(p, prog)
    \/ Exit(p)

Spec == Init /\ [][Next]_vars

-----------------------------------------------------------------------------
(* Properties.                                                             *)

Used == {p \in Procs : state[p] # "UNUSED"}

\* The pages an address space consists of, each with what it is used as.
PartsOf(d) ==
  {<<d, "dir">>} \cup {<<t, "kern">> : t \in mem.dir[d].kern}
    \cup {<<mem.dir[d].tab[t], "tab", t>> : t \in {u \in 0..UserTables - 1 : mem.dir[d].tab[u] # 0}}
    \cup {<<mem.dir[d].pte[v], "user", v>> : v \in {u \in UserVas : mem.dir[d].pte[u] # 0}}
Parts(p) == {<<kstack[p], "stack">>} \cup PartsOf(pgdir[p])

\* No page is used twice, and none is lost but to the list of v1a and v1b, whichever call
\* has failed where: every page is free, skipped, or has one use in one process. (Until
\* the list has come to its last page, or the table has no frame that suits: from there
\* on v2-sort does use pages twice.)
PagesExact ==
  ~mem.wild =>
    /\ mem.free \cap mem.skipped = {}
    /\ \A g \in Pages :
         LET uses == {<<p, x>> \in Used \X UNION {Parts(q) : q \in Used} : x \in Parts(p) /\ x[1] = g}
         IN  Cardinality(uses) = IF g \in mem.free \cup mem.skipped THEN 0 ELSE 1

\* A process that can run has every page below its size and none above, and what
\* dump_physmem() of v2-sort shows of the memory is true: the pages of a process carry
\* its pid, the kernel's -2. (The first process's code is still the kernel's.)
ImageWhole ==
  \A p \in Procs : ~mem.wild /\ state[p] = "RUNNABLE" /\ Running(p) =>
    /\ \A v \in UserVas : mem.dir[pgdir[p]].pte[v] # 0 <=> v < sz[p]
    /\ InTable(mem) => \A x \in Parts(p) : mem.label[x[1]] \in
         IF x[2] \in {"user", "stack"} THEN {pid[p]} \cup (IF p = InitProc THEN {-2} ELSE {}) ELSE {-2}

Image(p) == <<sz[p], mem.dir[pgdir[p]].pte>>

\* The pages that a call has put into directories that stay, as page tables.
TablesKept == {mem'.dir[pgdir[q]].tab[t] : q \in Used, t \in 0..UserTables - 1}

\* sbrk() of p has gone down to size 0, for which growproc() returns -1: the caller has
\* the size it had and none of its pages.
SizeZero(p) ==
  /\ Growproc(p, -sz[p]) /\ sz' = sz
  /\ \A v \in UserVas : mem'.dir[pgdir[p]].pte[v] = 0
  /\ \A q \in Procs \ {p} : Running(q) => Image(q)' = Image(q)

\* A call that fails changes no image, the caller's included, and costs no page but
\* for page tables allocuvm() has put into a directory that stays, and for those the list
\* of v1a and v1b loses with each allocation. The exception is sbrk() down to 0, which
\* fails with its work done.
FailureUndone ==
  [][ret'[2] = -1 /\ state' = state /\ ~mem'.wild =>
       \/ \E p \in Procs : SizeZero(p)
       \/ /\ \A q \in Procs : Running(q) => Image(q)' = Image(q)
          /\ mem'.free \subseteq mem.free
          /\ mem.free \ mem'.free =
               (TablesKept \cap mem.free) \cup (mem'.skipped \ mem.skipped)]_vars

=============================================================================
