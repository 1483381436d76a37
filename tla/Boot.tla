---------------------------------- MODULE Boot ----------------------------------
(***************************************************************************)
(* Starting the processors: main() and startothers() of main.c, the code   *)
(* of entryother.S at 0x7000, and the phases of the page allocator.        *)
(*                                                                         *)
(* The processors that are started find their stack in the word before     *)
(* that code, one word for all of them. Until kinit2() the allocator takes *)
(* no lock and has the low pages only, which are all that the page table   *)
(* maps a processor begins with.                                           *)
(***************************************************************************)
EXTENDS Integers, FiniteSets, FiniteSetsExt

CONSTANTS
  Others,          \* the application processors, numbers
  BootCpu,
  LowPages, Pages  \* the pages below 4 Mbyte, and all

Processors == Others \cup {BootCpu}

VARIABLES
  pc,         \* where each processor is
  stack,      \* the page of its stack; 0 is none yet
  args,       \* the word at 0x7000 - 4
  started,    \* c->started
  free,       \* the free pages
  inside,     \* the processors in kalloc() or kfree(), with or without the lock
  uselock,    \* kmem.use_lock
  runnable    \* initproc can be run

vars == <<pc, stack, args, started, free, inside, uselock, runnable>>

\* After kinit1() and what main() sets up on its own.
Init ==
  /\ pc = [c \in Processors |-> IF c = BootCpu THEN "startothers" ELSE "halted"]
  /\ stack = [c \in Processors |-> 0]
  /\ args = 0 /\ started = {} /\ free = LowPages
  /\ inside = {} /\ uselock = FALSE /\ runnable = FALSE

Goto(c, place) == pc' = [pc EXCEPT ![c] = place]
NextCpu == Min({c \in Others : pc[c] = "halted"})

\* kalloc2(): in and out, alone when the lock is used.
Enter(c) == (uselock => inside = {}) /\ inside' = inside \cup {c}
Leave(c) == c \in inside /\ inside' = inside \ {c}

Alloc ==
  /\ pc[BootCpu] = "startothers" /\ \E c \in Others : pc[c] = "halted"
  /\ Enter(BootCpu) /\ Goto(BootCpu, "alloc")
  /\ UNCHANGED <<stack, args, started, free, uselock, runnable>>

\* startothers(): a stack, where to find it, and the start of one processor.
Startap ==
  /\ pc[BootCpu] = "alloc"
  /\ Leave(BootCpu)
  /\ \E p \in free : free' = free \ {p} /\ args' = p
  /\ pc' = [pc EXCEPT ![BootCpu] = "wait", ![NextCpu] = "start32"]
  /\ UNCHANGED <<stack, started, uselock, runnable>>

\* Mutant: it goes on as soon as the processor runs.
WaitStartedNot ==
  /\ pc[BootCpu] = "wait" /\ Goto(BootCpu, "startothers")
  /\ UNCHANGED <<stack, args, started, free, inside, uselock, runnable>>

\* It waits until that one has done all that needs the word.
WaitStarted ==
  /\ pc[BootCpu] = "wait" /\ {c \in Others : pc[c] # "halted"} \subseteq started
  /\ Goto(BootCpu, "startothers")
  /\ UNCHANGED <<stack, args, started, free, inside, uselock, runnable>>

\* entryother.S loads the stack; mpenter() takes kpgdir; mpmain() says so and schedules.
Start32(c) ==
  /\ pc[c] = "start32"
  /\ stack' = [stack EXCEPT ![c] = args]
  /\ Goto(c, "mpenter")
  /\ UNCHANGED <<args, started, free, inside, uselock, runnable>>

Mpenter(c) ==
  /\ pc[c] = "mpenter" /\ Goto(c, "mpmain")
  /\ UNCHANGED <<stack, args, started, free, inside, uselock, runnable>>

Mpmain(c) ==
  /\ pc[c] = "mpmain" /\ Goto(c, "scheduler")
  /\ started' = started \cup {c}
  /\ UNCHANGED <<stack, args, free, inside, uselock, runnable>>

\* kinit2(): freerange() of the high pages, one by one, and the lock after them.
Kinit2 ==
  LET rest == Pages \ (LowPages \cup free) IN
  /\ pc[BootCpu] = "startothers" /\ \A c \in Others : pc[c] # "halted"
  /\ UNCHANGED <<stack, args, started, runnable>>
  /\ \/ /\ BootCpu \notin inside /\ rest # {}
        /\ Enter(BootCpu) /\ UNCHANGED <<pc, free, uselock>>
     \/ /\ Leave(BootCpu) /\ free' = free \cup {Min(rest)} /\ UNCHANGED <<pc, uselock>>
     \/ /\ rest = {} /\ uselock' = TRUE /\ Goto(BootCpu, "userinit")
        /\ UNCHANGED <<free, inside>>

\* userinit(): the pages of the first process, which then may run, on any processor.
Userinit ==
  /\ pc[BootCpu] = "userinit"
  /\ \/ BootCpu \notin inside /\ Enter(BootCpu) /\ UNCHANGED <<pc, free, runnable>>
     \/ /\ Leave(BootCpu) /\ \E p \in free : free' = free \ {p}
        /\ runnable' = TRUE /\ Goto(BootCpu, "mpmain")
  /\ UNCHANGED <<stack, args, started, uselock>>

\* scheduler(): initproc runs, and allocates and frees as it forks and exits.
Schedule(c) ==
  /\ pc[c] = "scheduler" /\ runnable
  /\ Goto(c, "process") /\ runnable' = FALSE
  /\ UNCHANGED <<stack, args, started, free, inside, uselock>>

Process(c) ==
  /\ pc[c] = "process"
  /\ \/ c \notin inside /\ Enter(c) /\ UNCHANGED <<pc, runnable>>
     \/ Leave(c) /\ Goto(c, "scheduler") /\ runnable' = TRUE
  /\ UNCHANGED <<stack, args, started, free, uselock>>

Next ==
  \/ Alloc \/ Startap \/ WaitStarted \/ Kinit2 \/ Userinit
  \/ \E c \in Processors : Start32(c) \/ Mpenter(c) \/ Mpmain(c) \/ Schedule(c) \/ Process(c)

Spec == Init /\ [][Next]_vars

-----------------------------------------------------------------------------

\* A processor gets the stack that was made for it, a low page that is not free, whatever
\* the others' pace; and two processors are never in the allocator at once, although
\* those that schedule already run while it has no lock.
BootSound ==
  /\ \A c, d \in Others : /\ stack[c] # 0 => stack[c] \in LowPages \ free
                          /\ c # d /\ stack[c] # 0 => stack[c] # stack[d]
  /\ Cardinality(inside) <= 1

=============================================================================
