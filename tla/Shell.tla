---------------------------------- MODULE Shell ----------------------------------
(***************************************************************************)
(* What the shell does with a command: runcmd() and the loop of main() in  *)
(* sh.c, by the system calls it makes.                                     *)
(*                                                                         *)
(* A step is a system call. What runcmd() does in a process is a sequence  *)
(* of them, the script of the command. A process that has been orphaned is *)
(* init's, which waits for it.                                             *)
(***************************************************************************)
EXTENDS Parser, Integers, Sequences, FiniteSets, FiniteSetsExt

CONSTANTS
  NPROC,         \* processes there is room for; 1 is the shell, 0 stands for init
  NPIPE,         \* pipes there is room for
  PIPESIZE,
  Commands,      \* what is typed, parsed
  Programs,      \* among "yes" and "cat"
  MaxWrites,     \* bytes "yes" writes at most
  MaxLines       \* bound: lines that are typed

Procs == 1..NPROC
Fds == 0..4

\* p[0] and p[1] of runcmd(), instead of a descriptor.
P0 == -1
P1 == -2

VARIABLES
  proc,          \* [st, todo, fd, p, parent, std, left] of each process
  pipe,          \* bytes in each pipe
  typed          \* lines typed

vars == <<proc, pipe, typed>>

Console == <<"console", 0>>
File == <<"file", 0>>
ReadEnd(k) == <<"read", k>>
WriteEnd(k) == <<"write", k>>
Closed == <<"closed", 0>>

-----------------------------------------------------------------------------
(* runcmd()                                                                *)

Call(op) == [op |-> op]
CloseFd(d) == [op |-> "close", fd |-> d]
Dup(d) == [op |-> "dup", fd |-> d]
Fork(script) == [op |-> "fork", script |-> script]

RECURSIVE Script(_), PipeScript(_, _)

\* Mutant: the parent of a pipeline keeps the end for writing.
PipeScriptOpen(l, r) ==
  << Call("pipe"),
     Fork(<<CloseFd(1), Dup(P1), CloseFd(P0), CloseFd(P1)>> \o Script(l)),
     Fork(<<CloseFd(0), Dup(P0), CloseFd(P0), CloseFd(P1)>> \o Script(r)),
     CloseFd(P0), Call("wait"), Call("wait"), Call("exit") >>

PipeScript(l, r) ==
  << Call("pipe"),
     Fork(<<CloseFd(1), Dup(P1), CloseFd(P0), CloseFd(P1)>> \o Script(l)),
     Fork(<<CloseFd(0), Dup(P0), CloseFd(P0), CloseFd(P1)>> \o Script(r)),
     CloseFd(P0), CloseFd(P1), Call("wait"), Call("wait"), Call("exit") >>

Script(c) ==
  CASE c.type = "panic" -> <<Call("exit")>>
    [] c.type = "EXEC"  -> IF c.argc = 0 THEN <<Call("exit")>> ELSE <<Call("exec")>>
    [] c.type = "REDIR" -> <<CloseFd(c.fd), [op |-> "open", fd |-> c.fd]>> \o Script(c.cmd)
    [] c.type = "LIST"  -> <<Fork(Script(c.left)), Call("wait")>> \o Script(c.right)
    [] c.type = "PIPE"  -> PipeScript(c.left, c.right)
    [] c.type = "BACK"  -> <<Fork(Script(c.cmd)), Call("exit")>>

Absent == [st |-> "free", todo |-> <<>>, fd |-> [d \in Fds |-> Closed], p |-> <<0, 0>>,
           parent |-> 0, std |-> <<Closed, Closed>>, left |-> 0]

\* The shell has the console open three times, as main() sees to.
Prompt ==
  [Absent EXCEPT !.st = "shell", !.fd = [d \in Fds |-> IF d < 3 THEN Console ELSE Closed],
                 !.std = <<Console, Console>>]

Init ==
  /\ proc = [p \in Procs |-> IF p = 1 THEN Prompt ELSE Absent]
  /\ pipe = [k \in 1..NPIPE |-> 0]
  /\ typed = 0

-----------------------------------------------------------------------------
(* System calls, as the shell and its programs see them.                   *)

Live == {p \in Procs : proc[p].st \notin {"free", "zombie"}}
Children(p) == {q \in Procs : proc[q].st # "free" /\ proc[q].parent = p}
Open(o) == \E p \in Live, d \in Fds : proc[p].fd[d] = o
FreeFd(p) == Min({d \in Fds : proc[p].fd[d] = Closed})
FreePipes == {k \in 1..NPIPE : ~Open(ReadEnd(k)) /\ ~Open(WriteEnd(k))}
Fd(p, d) == IF d \in {P0, P1} THEN proc[p].p[-d] ELSE d

\* exit(): the children go to init, and p is a zombie until its parent waits.
Exited(p) ==
  [q \in Procs |->
     IF q = p THEN IF proc[p].parent = 0 THEN Absent
                   ELSE [Absent EXCEPT !.st = "zombie", !.parent = proc[p].parent]
     ELSE IF q \in Children(p) THEN IF proc[q].st = "zombie" THEN Absent ELSE [proc[q] EXCEPT !.parent = 0]
     ELSE proc[q]]

Exit(p) == proc' = Exited(p) /\ UNCHANGED pipe

Does(p, op) == proc[p].st \in {"sh", "shell"} /\ proc[p].todo # <<>> /\ Head(proc[p].todo).op = op
Done(p, r) == [proc EXCEPT ![p] = [r EXCEPT !.todo = Tail(r.todo)]]

Close(p) ==
  /\ Does(p, "close")
  /\ proc' = Done(p, [proc[p] EXCEPT !.fd[Fd(p, Head(proc[p].todo).fd)] = Closed])
  /\ UNCHANGED pipe

\* dup() and open() take the first descriptor that is free. std is what should be there.
DupTo(p) ==
  LET o == proc[p].fd[Fd(p, Head(proc[p].todo).fd)] IN
  /\ Does(p, "dup")
  /\ proc' = Done(p, [proc[p] EXCEPT !.fd[FreeFd(p)] = o, !.std[IF o[1] = "read" THEN 1 ELSE 2] = o])
  /\ UNCHANGED pipe

OpenFile(p) ==
  /\ Does(p, "open")
  /\ \/ /\ proc' = Done(p, [proc[p] EXCEPT !.fd[FreeFd(p)] = File, !.std[Head(proc[p].todo).fd + 1] = File])
        /\ UNCHANGED pipe
     \/ Exit(p)

\* pipe(), or the panic of runcmd().
MakePipe(p) ==
  LET k == Min(FreePipes)
      r == FreeFd(p)
      w == Min({d \in Fds \ {r} : proc[p].fd[d] = Closed})
  IN
  /\ Does(p, "pipe")
  /\ IF FreePipes = {} THEN Exit(p)
     ELSE /\ proc' = Done(p, [proc[p] EXCEPT !.fd = [@ EXCEPT ![r] = ReadEnd(k), ![w] = WriteEnd(k)],
                                             !.p = <<r, w>>])
          /\ pipe' = [pipe EXCEPT ![k] = 0]

\* fork1(): without room the process panics, the shell too.
ForkChild(p) ==
  LET free == {q \in Procs : proc[q].st = "free"}
      q == Min(free)
  IN
  /\ Does(p, "fork")
  /\ IF free = {} THEN Exit(p)
     ELSE /\ proc' = [Done(p, proc[p]) EXCEPT
                        ![q] = [proc[p] EXCEPT !.st = "sh", !.todo = Head(proc[p].todo).script, !.parent = p]]
          /\ UNCHANGED pipe

Wait(p) ==
  /\ Does(p, "wait")
  /\ \/ \E q \in Children(p) : /\ proc[q].st = "zombie"
                               /\ proc' = [Done(p, proc[p]) EXCEPT ![q] = Absent]
     \/ Children(p) = {} /\ proc' = Done(p, proc[p])
  /\ UNCHANGED pipe

ExitCall(p) == Does(p, "exit") /\ Exit(p)

\* exec() of a program, or its failure.
ExecProgram(p) ==
  /\ Does(p, "exec")
  /\ \/ \E prog \in Programs, n \in 0..MaxWrites :
            /\ prog = "cat" => n = 0
            /\ proc' = [proc EXCEPT ![p] = [@ EXCEPT !.st = prog, !.todo = <<>>, !.left = n]]
     \/ proc' = [proc EXCEPT ![p].todo = <<Call("exit")>>]
  /\ UNCHANGED pipe

\* The shell reads a line, and forks.
ReadCommand ==
  /\ proc[1].st = "shell" /\ proc[1].todo = <<>>
  /\ typed < MaxLines /\ typed' = typed + 1
  /\ \E c \in Commands :
       proc' = [proc EXCEPT ![1] = [@ EXCEPT !.todo = <<Fork(Script(c)), Call("wait")>>]]
  /\ UNCHANGED pipe

-----------------------------------------------------------------------------
(* Programs: "yes" writes so many bytes, "cat" copies as long as there are.  *)

\* write() of a byte: it waits while the pipe is full, and fails without a reader.
Write(p, r) ==
  LET o == proc[p].fd[1] IN
  IF o[1] # "write" THEN proc' = [proc EXCEPT ![p] = r] /\ UNCHANGED pipe
  ELSE IF ~Open(ReadEnd(o[2])) THEN Exit(p)
  ELSE /\ pipe[o[2]] < PIPESIZE
       /\ proc' = [proc EXCEPT ![p] = r] /\ pipe' = [pipe EXCEPT ![o[2]] = @ + 1]

Yes(p) ==
  /\ proc[p].st = "yes"
  /\ IF proc[p].left = 0 THEN Exit(p) ELSE Write(p, [proc[p] EXCEPT !.left = @ - 1])

\* read() of a byte waits while the pipe is empty and can still be written to.
CatRead(p) ==
  LET o == proc[p].fd[0] IN
  /\ proc[p].st = "cat"
  /\ IF o[1] # "read" \/ (pipe[o[2]] = 0 /\ ~Open(WriteEnd(o[2]))) THEN Exit(p)
     ELSE /\ pipe[o[2]] > 0
          /\ pipe' = [pipe EXCEPT ![o[2]] = @ - 1]
          /\ proc' = [proc EXCEPT ![p].st = "copy"]

CatWrite(p) == proc[p].st = "copy" /\ Write(p, [proc[p] EXCEPT !.st = "cat"])

Next ==
  \/ ReadCommand
  \/ /\ \E p \in Procs :
          \/ Close(p) \/ DupTo(p) \/ OpenFile(p) \/ MakePipe(p) \/ ForkChild(p) \/ Wait(p)
          \/ ExitCall(p) \/ ExecProgram(p) \/ Yes(p) \/ CatRead(p) \/ CatWrite(p)
     /\ UNCHANGED typed

Spec == Init /\ [][Next]_vars

-----------------------------------------------------------------------------
(* Properties.                                                             *)

\* p cannot go on: it waits for a child, for bytes or for room.
Blocked(p) ==
  LET r == proc[p]
      full(o) == o[1] = "write" /\ Open(ReadEnd(o[2])) /\ pipe[o[2]] = PIPESIZE
  IN
  \/ /\ Does(p, "wait") /\ Children(p) # {}
     /\ \A q \in Children(p) : proc[q].st # "zombie"
  \/ (r.st = "copy" \/ (r.st = "yes" /\ r.left > 0)) /\ full(r.fd[1])
  \/ r.st = "cat" /\ r.fd[0][1] = "read" /\ pipe[r.fd[0][2]] = 0 /\ Open(WriteEnd(r.fd[0][2]))

\* A command never hangs the shell: whatever ends of pipes its processes have copies of,
\* in whatever order they close them, somebody can go on. A program finds what its
\* place in the command says at 0 and 1, and nothing else open beside 2; and at the
\* prompt no child of the shell is left, and none of the pipes' ends in it.
ShellSound ==
  /\ Live # {} => \E p \in Live : ~Blocked(p)
  /\ \A p \in Live : proc[p].st \in {"yes", "cat"} =>
       /\ <<proc[p].fd[0], proc[p].fd[1]>> = proc[p].std
       /\ \A d \in Fds : proc[p].fd[d] # Closed => d < 3
  /\ (proc[1].st = "shell" /\ proc[1].todo = <<>>) => Children(1) = {} /\ proc[1].fd = Prompt.fd

=============================================================================
