------------------------------- MODULE Memtests -------------------------------
(***************************************************************************)
(* The tests of usertests.c about memory and about the making, killing and *)
(* reaping of processes, with forktest.c, init.c and zombie.c, run on Vm:  *)
(* a test is the calls it makes and what it wants them to return, and the  *)
(* processes it forks run in every order.                                  *)
(*                                                                         *)
(* The first process runs the test. The counts are small. The memory is    *)
(* that of v2-sort, and enough: where it is not, v2-sort shares pages, and *)
(* the tests that use it up cannot pass (mem, the second half of sbrktest).*)
(***************************************************************************)
EXTENDS Vm

CONSTANTS
  Chosen    \* the tests that are run

VARIABLES
  test,     \* its name
  todo,     \* what each process still has to do; at the end it exits
  pids,     \* what fork() has returned to each, but for children found with wait()
  bytes,    \* in the pipe of the test
  oops      \* what a test has complained about

testVars == <<test, todo, pids, bytes, oops>>

-----------------------------------------------------------------------------
(* What a test says.                                                       *)

\* sbrk(n), wanted to return the address at.
Sbrk(n, at) == [op |-> "sbrk", n |-> n, at |-> at]

\* fork() of a child that does this; fork() until it fails.
Spawn(child) == [op |-> "fork", child |-> child, may |-> FALSE, again |-> FALSE]
SpawnTry(child) == [Spawn(child) EXCEPT !.may = TRUE]
SpawnUntil(child) == [Spawn(child) EXCEPT !.may = TRUE, !.again = TRUE]

\* wait(): whatever it returns, for a child, for none, for each child that was forked,
\* and until it returns the child forked.
Reap == [op |-> "wait", want |-> "any"]
ReapChild == [op |-> "wait", want |-> "child"]
ReapNone == [op |-> "wait", want |-> "none"]
ReapEach == [op |-> "wait", want |-> "each"]
ReapUntil == [op |-> "wait", want |-> "until"]

KillPid(k) == [op |-> "kill", k |-> k]
\* exec(), wanted to return one of these: 0 is to be the program.
Load(prog, rets) == [op |-> "exec", prog |-> prog, rets |-> rets]
Put == [op |-> "write"]
Get == [op |-> "read"]
Forever == <<[op |-> "forever"]>>

Loop(n, body(_)) == FlattenSeq([k \in 1..n |-> body(k - 1)])

Echo     == [ends |-> <<1>>, good |-> 1, argsFit |-> TRUE]
EchoArgs == [Echo EXCEPT !.argsFit = FALSE]

-----------------------------------------------------------------------------

\* fork() of processes that race to exit.
Exitwait == Loop(3, LAMBDA i : <<Spawn(<<>>), ReapChild>>)

\* As many as there can be.
Forktest == <<SpawnUntil(<<>>), ReapEach, ReapNone>>

\* Three loop for ever, the third after it has written to the pipe; all are killed.
Preempt ==
  << SpawnTry(Forever), SpawnTry(Forever), SpawnTry(<<Put>> \o Forever), Get,
     KillPid(1), KillPid(2), KillPid(3), Reap, Reap, Reap >>

\* The first process has oldbrk bytes.
oldbrk == PGSIZE

\* A byte at a time, on both sides of a fork(). (The rest of sbrktest grows to BIG, 100 MB,
\* where frames[] has 66.)
Sbrktest ==
  LET Two(at) == <<Sbrk(1, at), Sbrk(1, at + 1)>>
      n == PGSIZE + 1
  IN
  Loop(n, LAMBDA i : <<Sbrk(1, oldbrk + i)>>)
    \o <<Spawn(Two(oldbrk + n))>> \o Two(oldbrk + n) \o <<Reap>>

\* A child that may have exited, or been ended by the kernel, is killed.
Validatetest == Loop(2, LAMBDA i : <<SpawnTry(<<>>), KillPid(1), Reap>>)

\* An instruction the kernel ends the child for.
Uio == <<Spawn(<<>>), Reap>>

\* exec() with arguments that do not fit, and the program goes on.
Bigargtest == <<Spawn(<<Load(EchoArgs, {-1})>>), Reap>>

Exectest == <<Load(Echo, {0})>>

\* init.c: a shell, in which zombie.c leaves a child behind, and another shell; if
\* exec() fails, the child exits.
Zombie == <<SpawnTry(<<>>)>>
InitMain == Loop(2, LAMBDA i : <<Spawn(<<Load(Echo, {0, -1})>> \o Zombie), ReapUntil>>)

Tests ==
  [ exitwait |-> Exitwait, forktest |-> Forktest, preempt |-> Preempt,
    sbrktest |-> Sbrktest, validatetest |-> Validatetest, uio |-> Uio,
    bigargtest |-> Bigargtest, exectest |-> Exectest, init |-> InitMain ]

TestInit ==
  /\ Init
  /\ test \in Chosen
  /\ todo = [p \in Procs |-> IF p = InitProc THEN Tests[test] ELSE <<>>]
  /\ pids = [p \in Procs |-> <<>>]
  /\ bytes = 0
  /\ oops = {}

-----------------------------------------------------------------------------

Does(p, op) == state[p] = "RUNNABLE" /\ todo[p] # <<>> /\ Head(todo[p]).op = op
Advance(p) == todo' = [todo EXCEPT ![p] = Tail(@)]
Complain(p, wrong) == oops' = oops \cup (IF wrong THEN {Head(todo[p])} ELSE {})

\* sys_sbrk() returns the old size.
SbrkTest(p) ==
  LET s == Head(todo[p]) IN
  /\ Does(p, "sbrk")
  /\ Growproc(p, s.n)
  /\ Complain(p, ret'[2] # 0 \/ sz[p] # s.at)
  /\ Advance(p)
  /\ UNCHANGED <<pids, bytes>>

\* allocproc() takes the first free slot; without one fork() changes nothing.
ForkTest(p) ==
  LET s == Head(todo[p])
      slots == {q \in Procs : state[q] = "UNUSED"}
      q == Min(slots)
  IN
  /\ Does(p, "fork")
  /\ IF slots = {} THEN UNCHANGED vars ELSE Fork(p, q)
  /\ IF slots # {} /\ ret'[2] = 0
     THEN /\ todo' = [todo EXCEPT ![p] = IF s.again THEN @ ELSE Tail(@), ![q] = s.child]
          /\ pids' = [pids EXCEPT ![p] = Append(@, nextpid), ![q] = <<>>]
          /\ UNCHANGED oops
     ELSE /\ Complain(p, ~s.may) /\ Advance(p)
          /\ pids' = [pids EXCEPT ![p] = IF s.again THEN @ ELSE Append(@, -1)]
  /\ UNCHANGED bytes

\* wait() finds a zombie, or has nobody to wait for.
WaitTest(p) ==
  LET want == Head(todo[p]).want
      mine == {q \in Procs : state[q] # "UNUSED" /\ parent[q] = p /\ q # p}
  IN
  /\ Does(p, "wait")
  /\ \/ /\ want = "each" /\ pids[p] = <<>>
        /\ Advance(p) /\ UNCHANGED <<vars, pids, oops>>
     \/ /\ ~(want = "each" /\ pids[p] = <<>>)
        /\ \E q \in mine :
             LET found == pid[q] IN
             /\ Wait(p, q)
             /\ pids' = [pids EXCEPT ![p] = SelectSeq(@, LAMBDA x : x # found)]
             /\ Complain(p, want = "none" \/ (want = "child" /\ pids[p] # <<found>>))
             /\ IF want = "each" \/ (want = "until" /\ pids[p] # <<found>>)
                THEN UNCHANGED todo ELSE Advance(p)
     \/ /\ mine = {} /\ ~(want = "each" /\ pids[p] = <<>>)
        /\ Complain(p, want \in {"child", "each", "until"})
        /\ Advance(p) /\ UNCHANGED <<vars, pids>>
  /\ UNCHANGED bytes

\* kill(): whoever is killed exits before it does anything else.
KillTest(p) ==
  LET k == Head(todo[p]).k
      victims == {q \in Procs : state[q] = "RUNNABLE" /\ k <= Len(pids[p]) /\ pid[q] = pids[p][k]}
  IN
  /\ Does(p, "kill")
  /\ todo' = [q \in Procs |-> IF q = p THEN Tail(todo[p]) ELSE IF q \in victims THEN <<>> ELSE todo[q]]
  /\ UNCHANGED <<vars, pids, bytes, oops>>

ExecTest(p) ==
  LET s == Head(todo[p]) IN
  /\ Does(p, "exec") /\ Exec(p, s.prog)
  /\ Complain(p, ret'[2] \notin s.rets)
  /\ IF ret'[2] = -1 /\ 0 \in s.rets THEN todo' = [todo EXCEPT ![p] = <<>>] ELSE Advance(p)
  /\ UNCHANGED <<pids, bytes>>

\* The pipe holds what is written to it; a child that was not made writes nothing.
PutTest(p) ==
  /\ Does(p, "write") /\ bytes' = bytes + 1 /\ Advance(p)
  /\ UNCHANGED <<vars, pids, oops>>

GetTest(p) ==
  /\ Does(p, "read")
  /\ \/ bytes > 0 /\ bytes' = bytes - 1
     \/ Last(pids[p]) = -1 /\ UNCHANGED bytes
  /\ Advance(p) /\ UNCHANGED <<vars, pids, oops>>

ExitTest(p) ==
  /\ state[p] = "RUNNABLE" /\ todo[p] = <<>> /\ Exit(p)
  /\ UNCHANGED <<todo, pids, bytes, oops>>

TestNext ==
  /\ UNCHANGED test
  /\ \E p \in Procs :
       \/ SbrkTest(p) \/ ForkTest(p) \/ WaitTest(p) \/ KillTest(p) \/ ExecTest(p)
       \/ PutTest(p) \/ GetTest(p) \/ ExitTest(p)

TestSpec == TestInit /\ [][TestNext]_<<vars, testVars>>

-----------------------------------------------------------------------------

\* The tests pass, whatever the order in which their processes run: each call returns
\* what the test wants, no page is lost, shared or missing, and each process that is
\* made, killed and reaped leaves a frame that suits for the next.
TestsPass == oops = {} /\ PagesExact /\ ImageWhole /\ ~mem.wild

=============================================================================
