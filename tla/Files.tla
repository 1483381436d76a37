--------------------------------- MODULE Files ---------------------------------
(***************************************************************************)
(* Open files: the file table of file.c, the descriptors of sysfile.c, and *)
(* what fork() and exit() do with them.                                    *)
(*                                                                         *)
(* A section under ftable.lock is one step, and so is what is done to an   *)
(* inode's reference count or to a pipe under its own lock. A process's    *)
(* descriptors are its own, and change in the step before or after.        *)
(***************************************************************************)
EXTENDS Integers, Sequences, FiniteSets, FiniteSetsExt, SequencesExt

CONSTANTS
  Procs, InitProc,
  NFILE,      \* entries of the file table
  NOFILE,     \* descriptors of a process
  NINODE,     \* inodes that may be opened
  NPIPE       \* pages pipealloc() may get

Entries == 1..NFILE
Fds     == 0..NOFILE - 1

VARIABLES
  ftable,     \* [ref, obj] of each entry; obj is what it is open on
  inode,      \* ip->ref of each inode, as far as files go
  pipe,       \* the ends of each pipe that are open; {} is a free page
  proc        \* [pc, ofile, new, todo, rel] of each process: its descriptors, the
              \* entries it has got and not yet given a descriptor, those it is to
              \* close, and what it is to let go of next

vars == <<ftable, inode, pipe, proc>>

\* What an entry is open on: nothing (FD_NONE), an inode, or an end of a pipe.
None == <<"none", 0, "">>
Inode(i) == <<"inode", i, "">>
End(k, end) == <<"pipe", k, end>>

Absent == [pc |-> "unused", ofile |-> [d \in Fds |-> 0], new |-> <<>>, todo |-> <<>>, rel |-> None]

Init ==
  /\ ftable = [f \in Entries |-> [ref |-> 0, obj |-> None]]
  /\ inode = [i \in 1..NINODE |-> 0]
  /\ pipe = [k \in 1..NPIPE |-> {}]
  /\ proc = [p \in Procs |-> IF p = InitProc THEN [Absent EXCEPT !.pc = "user"] ELSE Absent]

\* p has nothing to close first, and is at place.
At(p, place) == proc[p].pc = place /\ proc[p].todo = <<>> /\ proc[p].rel = None

-----------------------------------------------------------------------------
(* file.c                                                                  *)

FreeEntries == {f \in Entries : ftable[f].ref = 0}

\* filealloc(): what the entry was open on last is not looked at.
Filealloc(p, place, otherwise) ==
  IF FreeEntries = {} THEN otherwise
  ELSE LET f == Min(FreeEntries) IN
       /\ ftable' = [ftable EXCEPT ![f].ref = 1]
       /\ proc' = [proc EXCEPT ![p] = [@ EXCEPT !.pc = place, !.new = Append(proc[p].new, f)]]

\* Mutant: the entry keeps its type when it is closed.
FilecloseKeepsType(p) ==
  LET f == Head(proc[p].todo)
      last == ftable[f].ref = 1
  IN
  /\ proc[p].todo # <<>> /\ proc[p].rel = None
  /\ ftable' = [ftable EXCEPT ![f].ref = @ - 1]
  /\ proc' = [proc EXCEPT ![p] = [@ EXCEPT !.todo = Tail(proc[p].todo),
                                           !.rel = IF last THEN ftable[f].obj ELSE None]]
  /\ UNCHANGED <<inode, pipe>>

\* fileclose() under ftable.lock: one reference less; with the last the entry is
\* emptied, and may be used again before what it was open on is let go.
Fileclose(p) ==
  LET f == Head(proc[p].todo)
      last == ftable[f].ref = 1
  IN
  /\ proc[p].todo # <<>> /\ proc[p].rel = None
  /\ ftable' = [ftable EXCEPT ![f] = IF last THEN [ref |-> 0, obj |-> None]
                                     ELSE [@ EXCEPT !.ref = ftable[f].ref - 1]]
  /\ proc' = [proc EXCEPT ![p] = [@ EXCEPT !.todo = Tail(proc[p].todo),
                                           !.rel = IF last THEN ftable[f].obj ELSE None]]
  /\ UNCHANGED <<inode, pipe>>

\* Then pipeclose() or iput(), of the copy.
Release(p) ==
  LET o == proc[p].rel IN
  /\ o # None
  /\ inode' = IF o[1] = "inode" THEN [inode EXCEPT ![o[2]] = @ - 1] ELSE inode
  /\ pipe' = IF o[1] = "pipe" THEN [pipe EXCEPT ![o[2]] = @ \ {o[3]}] ELSE pipe
  /\ proc' = [proc EXCEPT ![p].rel = None]
  /\ UNCHANGED ftable

-----------------------------------------------------------------------------
(* sysfile.c                                                               *)

\* fdalloc(): the first free descriptor; there is none when FreeFds is empty.
FreeFds(p) == {d \in Fds : proc[p].ofile[d] = 0}

\* open(): the inode is found, and referred to.
Open(p, i) ==
  /\ At(p, "user")
  /\ inode' = [inode EXCEPT ![i] = @ + 1]
  /\ proc' = [proc EXCEPT ![p] = [@ EXCEPT !.pc = "open", !.new = <<i>>]]
  /\ UNCHANGED <<ftable, pipe>>

\* filealloc() and fdalloc(); without either, what has been got goes back. The entry
\* is filled in after its descriptor is in place.
OpenFile(p) ==
  LET i == Head(proc[p].new)
      f == proc[p].new[2]
  IN
  /\ \/ /\ At(p, "open")
        /\ Filealloc(p, "opened",
             /\ proc' = [proc EXCEPT ![p] = [@ EXCEPT !.pc = "user", !.new = <<>>, !.rel = Inode(i)]]
             /\ UNCHANGED ftable)
     \/ /\ At(p, "opened")
        /\ IF FreeFds(p) = {}
           THEN /\ proc' = [proc EXCEPT ![p] = [@ EXCEPT !.pc = "noroom", !.new = <<i>>, !.todo = <<f>>]]
                /\ UNCHANGED ftable
           ELSE /\ proc' = [proc EXCEPT ![p] = [@ EXCEPT !.pc = "user", !.new = <<>>,
                                                         !.ofile[Min(FreeFds(p))] = f]]
                /\ ftable' = [ftable EXCEPT ![f].obj = Inode(i)]
     \/ /\ At(p, "noroom")
        /\ proc' = [proc EXCEPT ![p] = [@ EXCEPT !.pc = "user", !.new = <<>>, !.rel = Inode(i)]]
        /\ UNCHANGED ftable
  /\ UNCHANGED <<inode, pipe>>

\* close(): the descriptor first, then fileclose().
Close(p, d) ==
  /\ At(p, "user") /\ proc[p].ofile[d] # 0
  /\ proc' = [proc EXCEPT ![p] = [@ EXCEPT !.ofile[d] = 0, !.todo = <<proc[p].ofile[d]>>]]
  /\ UNCHANGED <<ftable, inode, pipe>>

\* dup(): fdalloc() of fd, then filedup() of what is in it already.
Dup(p, d) ==
  LET f == proc[p].ofile[d]
      fd == Min(FreeFds(p))
  IN
  /\ At(p, "user") /\ f # 0 /\ FreeFds(p) # {}
  /\ proc' = [proc EXCEPT ![p] = [@ EXCEPT !.pc = "dup", !.ofile[fd] = f, !.new = <<f, fd>>]]
  /\ UNCHANGED <<ftable, inode, pipe>>

Filedup(p) ==
  /\ At(p, "dup")
  /\ ftable' = [ftable EXCEPT ![Head(proc[p].new)].ref = @ + 1]
  /\ proc' = [proc EXCEPT ![p] = [@ EXCEPT !.pc = "user", !.new = <<>>]]
  /\ UNCHANGED <<inode, pipe>>

\* pipealloc(): two entries, a page, or nothing.
Pipealloc(p) ==
  LET new == proc[p].new
      pages == {k \in 1..NPIPE : pipe[k] = {}}
      k == Min(pages)
      bad == /\ proc' = [proc EXCEPT ![p] = [@ EXCEPT !.pc = "user", !.new = <<>>, !.todo = new]]
             /\ UNCHANGED ftable
  IN
  /\ \/ At(p, "user") /\ Filealloc(p, "pipe1", FALSE) /\ UNCHANGED pipe
     \/ At(p, "pipe1") /\ Filealloc(p, "pipe2", bad) /\ UNCHANGED pipe
     \/ /\ At(p, "pipe2")
        /\ IF pages = {} THEN bad /\ UNCHANGED pipe
           ELSE /\ pipe' = [pipe EXCEPT ![k] = {"read", "write"}]
                /\ ftable' = [ftable EXCEPT ![new[1]].obj = End(k, "read"),
                                            ![new[2]].obj = End(k, "write")]
                /\ proc' = [proc EXCEPT ![p].pc = "pipe"]
  /\ UNCHANGED inode

\* pipe(): two descriptors, or both entries are closed.
Pipe(p) ==
  LET new == proc[p].new
      free == FreeFds(p)
      one == Min(free)
  IN
  /\ At(p, "pipe")
  /\ proc' = [proc EXCEPT ![p] =
       IF Cardinality(free) < 2
       THEN [@ EXCEPT !.pc = "user", !.new = <<>>, !.todo = new]
       ELSE [@ EXCEPT !.pc = "user", !.new = <<>>,
                      !.ofile[one] = new[1], !.ofile[Min(free \ {one})] = new[2]]]
  /\ UNCHANGED <<ftable, inode, pipe>>

-----------------------------------------------------------------------------
(* proc.c                                                                  *)

\* fork(): filedup() of every file of the parent, which keeps them open meanwhile.
Fork(p, q) ==
  /\ At(p, "user") /\ proc[q].pc = "unused"
  /\ ftable' = [f \in Entries |->
       [ftable[f] EXCEPT !.ref = @ + Cardinality({d \in Fds : proc[p].ofile[d] = f})]]
  /\ proc' = [proc EXCEPT ![q] = [@ EXCEPT !.pc = "user", !.ofile = proc[p].ofile]]
  /\ UNCHANGED <<inode, pipe>>

\* exit(): fileclose() of every file, one after the other, and then the descriptor.
Exit(p) ==
  LET open == {d \in Fds : proc[p].ofile[d] # 0}
      d == Min(open)
  IN
  /\ p # InitProc
  /\ At(p, "user") \/ At(p, "exit")
  /\ proc' = [proc EXCEPT ![p] =
       IF open = {} THEN [@ EXCEPT !.pc = "unused"]
       ELSE [@ EXCEPT !.pc = "exit", !.ofile[d] = 0, !.todo = <<proc[p].ofile[d]>>]]
  /\ UNCHANGED <<ftable, inode, pipe>>

Next ==
  \E p \in Procs :
    \/ Fileclose(p) \/ Release(p)
    \/ \E i \in 1..NINODE : Open(p, i)
    \/ OpenFile(p) \/ Filedup(p) \/ Pipealloc(p) \/ Pipe(p) \/ Exit(p)
    \/ \E d \in Fds : Close(p, d) \/ Dup(p, d)
    \/ \E q \in Procs : Fork(p, q)

Spec == Init /\ [][Next]_vars

-----------------------------------------------------------------------------
(* Properties.                                                             *)

\* The entries among what a process in state r has got, by their places in r.new; and the
\* descriptor that dup() has filled before it counts it.
Got(r) == IF r.pc = "opened" THEN {2} ELSE IF r.pc = "pipe1" THEN {1}
          ELSE IF r.pc \in {"pipe2", "pipe"} THEN {1, 2} ELSE {}
Early(r) == IF r.pc = "dup" THEN {r.new[2]} ELSE {}

\* The pointers it has to entry f: its descriptors, and what it has got or is to close.
Pointers(r, f) ==
  ({"ofile"} \X {d \in Fds \ Early(r) : r.ofile[d] = f})
    \cup ({"new"} \X {k \in Got(r) : r.new[k] = f})
    \cup ({"todo"} \X {k \in DOMAIN r.todo : r.todo[k] = f})

\* ref counts the pointers to an entry through every failing path of open(), pipe()
\* and dup(), and an entry nobody points to is open on nothing, so that fileclose()
\* of an entry just got (sysfile.c:311, pipe.c:52) lets nothing go.
TableExact ==
  \A f \in Entries :
    /\ ftable[f].ref = Cardinality(UNION {{p} \X Pointers(proc[p], f) : p \in Procs})
    /\ ftable[f].ref = 0 => ftable[f].obj = None

\* The places from which object o will still be let go, once each: the entries open
\* on it, the processes about to, and a process that is opening it.
Owners(o) ==
  Cardinality({f \in Entries : ftable[f].ref > 0 /\ ftable[f].obj = o})
    + Cardinality({p \in Procs : proc[p].rel = o})
    + Cardinality({p \in Procs : proc[p].pc \in {"open", "opened", "noroom"}
                                   /\ Inode(proc[p].new[1]) = o})

\* Nothing is let go twice, too early, or never: an inode has as many references as
\* owners, an end of a pipe one owner while it is open and none after, and a
\* descriptor that can be used is open on something.
ObjectsExact ==
  /\ \A i \in 1..NINODE : inode[i] = Owners(Inode(i))
  /\ \A k \in 1..NPIPE, e \in {"read", "write"} :
       Owners(End(k, e)) = IF e \in pipe[k] THEN 1 ELSE 0
  /\ \A p \in Procs, d \in Fds : proc[p].ofile[d] # 0 => ftable[proc[p].ofile[d]].obj # None

=============================================================================
