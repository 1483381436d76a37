------------------------------- MODULE Filetests -------------------------------
(***************************************************************************)
(* The tests of usertests.c that write files and read them, and stressfs.c, *)
(* run on Blocks: a test is the calls it makes and what it wants to have   *)
(* read, and the processes it forks run in every order. A file is that of  *)
(* the inode of the same number; the sizes have the ratios to a block and  *)
(* to a transaction that those of the tests have.                          *)
(***************************************************************************)
EXTENDS Blocks

CONSTANT Chosen   \* the tests that are run

VARIABLES
  test,     \* its name
  todo,     \* what each process still has to do; one that has nothing is none
  seen,     \* the bytes each has read since it opened its file
  oops      \* what a test has complained about

testVars == <<test, todo, seen, oops>>

-----------------------------------------------------------------------------
(* What a test says.                                                       *)

Write(f, n, c) == [op |-> "write", f |-> f, n |-> n, c |-> c]
Open(f) == [op |-> "open", f |-> f]
Unlink(f) == [op |-> "unlink", f |-> f]
Fork(child) == [op |-> "fork", child |-> child]
Wait == [op |-> "wait"]

\* One read() of n bytes that has to return one of lens, and while((n = read(...)) > 0),
\* of n or of up to n at a time.
Read(f, n, lens) == [op |-> "read", f |-> f, n |-> n, lens |-> lens, all |-> FALSE]
ReadWhole(f, n) == [op |-> "read", f |-> f, n |-> n, lens |-> {0, n}, all |-> TRUE]
ReadAll(f, n) == [op |-> "read", f |-> f, n |-> n, lens |-> 0..n, all |-> TRUE]

\* What has been read is one of these.
Seen(bytes) == [op |-> "seen", bytes |-> bytes]

Loop(n, body(_)) == FlattenSeq([k \in 1..n |-> body(k - 1)])
Times(n, c) == [k \in 1..n |-> c]

-----------------------------------------------------------------------------

\* 20 bytes, a hundred times, are less than four blocks.
Writetest ==
  <<Open(1)>> \o Loop(3, LAMBDA i : <<Write(1, 2, 1), Write(1, 2, 2)>>)
    \o <<Open(1), Read(1, 12, {12}), Unlink(1)>>

\* A file as large as there may be.
Writetest1 ==
  <<Open(1)>> \o Loop(MAXFILE, LAMBDA i : <<Write(1, BSIZE, i + 1)>>)
    \o <<Open(1), ReadWhole(1, BSIZE),
         Seen({Loop(MAXFILE, LAMBDA i : Times(BSIZE, i + 1))}), Unlink(1)>>

\* Two processes write through one open file.
Sharedfd ==
  LET Writes(c) == Loop(2, LAMBDA i : <<Write(1, BSIZE - 1, c)>>)
      n == 2 * (BSIZE - 1)
  IN  <<Unlink(1), Open(1), Fork(Writes(2))>> \o Writes(1)
        \o << Wait, Open(1), ReadAll(1, BSIZE - 1),
              Seen({s \in [1..2 * n -> {1, 2}] : Cardinality({k \in DOMAIN s : s[k] = 1}) = n}),
              Unlink(1) >>

\* Processes write a file each.
Fourfiles ==
  LET Child(f) == <<Open(f)>> \o Loop(3, LAMBDA i : <<Write(f, BSIZE - 1, f)>>)
      Look(f) == <<Open(f), ReadAll(f, 2 * BSIZE), Seen({Times(3 * (BSIZE - 1), f)}), Unlink(f)>>
  IN  <<Unlink(1), Fork(Child(1)), Unlink(2), Fork(Child(2)), Wait>> \o Look(1) \o Look(2)

\* Sizes that are no multiple of a block's and up to NDIRECT blocks, each twice.
Bigwrite ==
  <<Unlink(1)>> \o
  Loop(NDIRECT, LAMBDA k :
    LET sz == (k + 1) * (BSIZE - 1) IN
    <<Open(1), Write(1, sz, 1), Write(1, sz, 1), Unlink(1)>>)

\* Writes larger than a block, reads of half of one.
Bigfile ==
  LET n == BSIZE + 2 IN
  <<Unlink(1), Open(1)>> \o Loop(3, LAMBDA i : <<Write(1, n, i + 1)>>)
    \o <<Open(1), ReadWhole(1, n \div 2), Seen({Loop(3, LAMBDA i : Times(n, i + 1))}), Unlink(1)>>

\* stressfs: each process forks the next, and writes and reads its own file.
Stress(k) ==
  <<Open(k)>> \o Loop(2, LAMBDA i : <<Write(k, BSIZE, k)>>)
    \o <<Open(k)>> \o Loop(2, LAMBDA i : <<Read(k, BSIZE, 0..BSIZE)>>) \o <<Wait>>
Stressfs == <<Fork(Stress(2))>> \o Stress(1)

Tests ==
  [ writetest |-> Writetest, writetest1 |-> Writetest1, sharedfd |-> Sharedfd,
    fourfiles |-> Fourfiles, bigwrite |-> Bigwrite, bigfile |-> Bigfile, stressfs |-> Stressfs ]

First == Min(Procs)

TestInit ==
  /\ Init
  /\ test \in Chosen
  /\ todo = [p \in Procs |-> IF p = First THEN Tests[test] ELSE <<>>]
  /\ seen = [p \in Procs |-> <<>>]
  /\ oops = {}

-----------------------------------------------------------------------------

Does(p, op) == panicked = "" /\ todo[p] # <<>> /\ Head(todo[p]).op = op
Advance(p) == todo' = [todo EXCEPT ![p] = Tail(@)]
Complain(p, wrong) == oops' = oops \cup (IF wrong THEN {Head(todo[p])} ELSE {})

\* A write() begins, goes on, and has returned what it was asked for or -1.
BeginWrite(p) ==
  LET s == Head(todo[p]) IN
  /\ Does(p, "write") /\ Filewrite(p, s.f, s.n, s.c)
  /\ todo' = [todo EXCEPT ![p] = <<[op |-> "written"]>> \o Tail(@)]
  /\ UNCHANGED <<seen, oops>>

WriteOn(p) == WriteChunk(p) /\ UNCHANGED <<todo, seen, oops>>

EndWrite(p) ==
  /\ Does(p, "written") /\ proc[p].n <= 0
  /\ Complain(p, proc[p].n < 0) /\ Advance(p)
  /\ UNCHANGED <<vars, seen>>

ReadTest(p) ==
  LET s == Head(todo[p]) IN
  /\ Does(p, "read") /\ Fileread(p, s.f, s.n)
  /\ seen' = [seen EXCEPT ![p] = @ \o got'[p]]
  /\ Complain(p, Len(got'[p]) \notin s.lens)
  /\ IF s.all /\ got'[p] # <<>> THEN UNCHANGED todo ELSE Advance(p)

LookTest(p) ==
  /\ Does(p, "seen")
  /\ Complain(p, seen[p] \notin Head(todo[p]).bytes) /\ Advance(p)
  /\ UNCHANGED <<vars, seen>>

\* open(): a file of its own, at the beginning; creating it when it is not there.
OpenTest(p) ==
  /\ Does(p, "open")
  /\ off' = [off EXCEPT ![Head(todo[p]).f] = 0]
  /\ seen' = [seen EXCEPT ![p] = <<>>] /\ Advance(p)
  /\ UNCHANGED <<bitmap, disk, inode, proc, got, logged, calls, panicked, oops>>

\* unlink() of the only name of a closed file, if there is one.
UnlinkTest(p) ==
  LET i == FileIp[Head(todo[p]).f] IN
  /\ Does(p, "unlink") /\ Advance(p)
  /\ Iput(i) \/ (inode[i].size = 0 /\ UNCHANGED vars)
  /\ UNCHANGED <<seen, oops>>

ForkTest(p) ==
  LET q == Min({r \in Procs : todo[r] = <<>>}) IN
  /\ Does(p, "fork")
  /\ todo' = [todo EXCEPT ![p] = Tail(@), ![q] = Head(todo[p]).child]
  /\ UNCHANGED <<vars, seen, oops>>

\* wait() until every process forked later, as children are, is gone.
WaitTest(p) ==
  /\ Does(p, "wait") /\ \A q \in Procs : q > p => todo[q] = <<>>
  /\ Advance(p) /\ UNCHANGED <<vars, seen, oops>>

TestNext ==
  /\ UNCHANGED test
  /\ \E p \in Procs :
       \/ BeginWrite(p) \/ WriteOn(p) \/ EndWrite(p) \/ ReadTest(p) \/ LookTest(p)
       \/ OpenTest(p) \/ UnlinkTest(p) \/ ForkTest(p) \/ WaitTest(p)

TestSpec == TestInit /\ [][TestNext]_<<vars, testVars>>

-----------------------------------------------------------------------------

\* The tests pass, whatever the order in which their processes run: every write is
\* whole, what is read is what was written, no block is used twice, lost or run out of,
\* and no write is too large for its transaction.
TestsPass == oops = {} /\ panicked = "" /\ BlocksExact /\ TransactionFits

=============================================================================
