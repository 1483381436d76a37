-------------------------------- MODULE Loader --------------------------------
(***************************************************************************)
(* Loading: the kernel from the disk, by bootmain.c; the table of the      *)
(* processors, by mp.c; the arguments of a program onto its new stack, by  *)
(* sysfile.c, exec.c and copyout() of vm.c.                                *)
(***************************************************************************)
EXTENDS Integers, Sequences, FiniteSets, FiniteSetsExt, SequencesExt

CONSTANTS
  SECTSIZE,   \* in bytes
  MEM,        \* bytes of memory at the kernel's place
  Images,     \* program headers, the sequence of [paddr, filesz, memsz, off] of a kernel
  NCPU,       \* processors at most
  Tables,     \* configuration tables, sequences of "PROC", "IOAPIC", "BUS" and "other"
  PGSIZE,     \* in bytes, a multiple of the word
  MAXARG,     \* arguments at most, with the 0 behind the last
  Arguments   \* argument lists, sequences of their lengths

VARIABLE call   \* what was called, with what, and what came out

WORD == 4

-----------------------------------------------------------------------------
(* The boot loader. Byte o of the kernel's file is o + 1, memory holds -1.  *)

Cells == 0..MEM - 1

RECURSIVE Sectors(_, _, _, _)
\* The loop of readseg(): readsect() of the file's sector at off into pa.
Sectors(m, pa, epa, off) ==
  IF pa >= epa THEN m
  ELSE Sectors([a \in Cells |-> IF a \in pa..pa + SECTSIZE - 1 THEN off + (a - pa) + 1 ELSE m[a]],
               pa + SECTSIZE, epa, off + SECTSIZE)

Readseg(m, pa, count, off) ==
  Sectors(m, pa - (off % SECTSIZE), pa + count, (off \div SECTSIZE) * SECTSIZE)

\* A segment, and the zeroes that are not in the file.
Segment(m, ph) ==
  LET read == Readseg(m, ph.paddr, ph.filesz, ph.off) IN
  [a \in Cells |-> IF a \in ph.paddr + ph.filesz..ph.paddr + ph.memsz - 1 THEN 0 ELSE read[a]]

Bootmain(phs) == FoldLeft(Segment, [a \in Cells |-> -1], phs)

Boots == \E phs \in Images : call' = [op |-> "bootmain", phs |-> phs, out |-> Bootmain(phs)]

\* Whatever a segment's sectors hold before and behind it, every segment is as it should
\* be, if they are loaded in increasing order and no sector with the beginning of one
\* reaches back into another.
BootsRight ==
  call.op = "bootmain" =>
    LET phs == call.phs
        apart == \A k \in 2..Len(phs) :
                   phs[k - 1].paddr + phs[k - 1].memsz <= phs[k].paddr - (phs[k].off % SECTSIZE)
    IN
    apart => \A k \in DOMAIN phs : \A i \in 0..phs[k].memsz - 1 :
               call.out[phs[k].paddr + i] = IF i < phs[k].filesz THEN phs[k].off + i + 1 ELSE 0

-----------------------------------------------------------------------------
(* mpinit(). Of an entry it does not know it takes note, but leaves the     *)
(* switch only: p stays there. An apicid is the entry's place from the end. *)

RECURSIVE Entries(_, _)
Entries(cpus, table) ==
  IF table = <<>> THEN [cpus |-> cpus, ends |-> TRUE]
  ELSE CASE Head(table) = "other" -> [cpus |-> cpus, ends |-> FALSE]
         [] Head(table) = "PROC"  -> Entries(IF Len(cpus) < NCPU THEN Append(cpus, Len(table)) ELSE cpus, Tail(table))
         [] OTHER                 -> Entries(cpus, Tail(table))

Mpinit(table) == Entries(<<>>, table)

Surveys == \E table \in Tables : call' = [op |-> "mpinit", table |-> table, out |-> Mpinit(table)]

\* Of a table of entries that it knows mpinit() finds the first NCPU processors, each once.
\* Of one it does not know, mp.c:130-131 would have it panic: it goes round for ever on that
\* entry, and nothing is claimed.
SurveysRight ==
  call.op = "mpinit" /\ (\A k \in DOMAIN call.table : call.table[k] # "other") =>
    LET procs == SelectSeq([k \in DOMAIN call.table |-> k], LAMBDA k : call.table[k] = "PROC")
        cpus == [k \in DOMAIN call.out.cpus |-> Len(call.table) + 1 - call.out.cpus[k]]
    IN  call.out.ends /\ cpus = SubSeq(procs, 1, Min({NCPU, Len(procs)}))

-----------------------------------------------------------------------------
(* The arguments. The stack is one page; the page below it is not the       *)
(* user's, by clearpteu(), and below that is the program. The addresses are *)
(* counted from the end of the page that is kept empty.                     *)

\* uva2ka(): is this an address the new program may use? The arguments are not so long
\* that sp wraps.
Uva2ka(va) == va >= 0 \/ va < -PGSIZE

\* copyout() of len bytes, from the page it begins in on: the addresses written, or -1.
RECURSIVE Copyout(_, _)
Copyout(va, len) ==
  LET va0 == va - (va % PGSIZE)
      n == Min({PGSIZE - (va - va0), len})
      rest == Copyout(va0 + PGSIZE, len - n)
  IN
  IF len = 0 THEN [ok |-> TRUE, at |-> {}]
  ELSE IF ~Uva2ka(va0) THEN [ok |-> FALSE, at |-> {}]
  ELSE [ok |-> rest.ok, at |-> (va..va + n - 1) \cup rest.at]

\* sys_exec(): the list and its 0 have to fit in argv.
Fetched(args) == Len(args) < MAXARG

\* The strings, from the top down, each at a word; then 3 words and one more than
\* there are arguments. out.at[k] is what was written for the k-th.
RECURSIVE Push(_, _, _)
Push(st, args, k) ==
  IF k > Len(args) THEN st
  ELSE LET sp == ((st.sp - (args[k] + 1)) \div WORD) * WORD
           copy == Copyout(sp, args[k] + 1)
       IN  IF k - 1 >= MAXARG \/ ~copy.ok THEN [st EXCEPT !.ok = FALSE]
           ELSE Push([ok |-> TRUE, sp |-> sp, at |-> Append(st.at, copy.at)], args, k + 1)

Execargs(args) ==
  LET st == Push([ok |-> Fetched(args), sp |-> PGSIZE, at |-> <<>>], args, 1)
      len == (3 + Len(args) + 1) * WORD
      copy == Copyout(st.sp - len, len)
  IN
  IF ~Fetched(args) \/ ~st.ok \/ ~copy.ok THEN [ok |-> FALSE]
  ELSE [ok |-> TRUE, sp |-> st.sp - len, at |-> Append(st.at, copy.at)]

Loads == \E args \in Arguments : call' = [op |-> "exec", args |-> args, out |-> Execargs(args)]

\* The arguments are taken exactly when they fit in the page, with what is rounded up;
\* then nothing is written below it or over anything else, every string is whole, and
\* the program starts with the stack pointer at the lowest word.
LoadsRight ==
  call.op = "exec" =>
    LET rounded(n) == ((n + WORD) \div WORD) * WORD
        need == FoldLeft(LAMBDA a, n : a + rounded(n), (3 + Len(call.args) + 1) * WORD, call.args)
        at == call.out.at
    IN
    /\ call.out.ok <=> need <= PGSIZE /\ Len(call.args) < MAXARG
    /\ call.out.ok =>
         /\ \A k \in DOMAIN at : /\ at[k] \subseteq 0..PGSIZE - 1
                                 /\ \A i \in 1..k - 1 : at[i] \cap at[k] = {}
         /\ \A k \in DOMAIN call.args : Cardinality(at[k]) = call.args[k] + 1
         /\ call.out.sp = Min(at[Len(at)]) /\ call.out.sp % WORD = 0

-----------------------------------------------------------------------------

LoaderNext == call.op = "none" /\ (Boots \/ Surveys \/ Loads)

LoaderRight == BootsRight /\ SurveysRight /\ LoadsRight

=============================================================================
