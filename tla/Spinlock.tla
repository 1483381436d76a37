------------------------------- MODULE Spinlock -------------------------------
(***************************************************************************)
(* The spin locks of spinlock.c: acquire(), release(), holding(),          *)
(* pushcli() and popcli(), step by step, on several CPUs with interrupts.  *)
(*                                                                         *)
(* A CPU runs kernel code and, on top of it, an interrupt handler, which   *)
(* may come in between any two instructions while the interrupt flag is    *)
(* set and uses the same locks.  lk->locked and lk->cpu are written one at *)
(* a time; holding() reads them one at a time.  Every nested pushcli() and *)
(* popcli() of holding() runs with interrupts off and ncli > 0, where the  *)
(* pair changes nothing, and is left out.                                  *)
(***************************************************************************)
EXTENDS Integers, FiniteSets

CONSTANTS
  Cpus,        \* the CPUs
  Locks,       \* the locks, numbered: code takes them in ascending order
  NoCpu        \* lk->cpu = 0

ASSUME SpinlockAssumption ==
  /\ Locks \subseteq Nat \ {0} /\ IsFiniteSet(Locks)
  /\ NoCpu \notin Cpus

VARIABLES
  locked,      \* lk->locked
  owner,       \* lk->cpu
  pc,          \* where in spinlock.c each CPU is; "out" is outside of it
  lk,          \* the lock it is working on
  eflags,      \* FL_IF in the eflags pushcli() has read
  ints,        \* the interrupt flag
  ncli,        \* mycpu()->ncli
  intena,      \* mycpu()->intena
  intr,        \* the code an interrupt handler on this CPU came in on, if any
  held         \* history: the locks the kernel code and the handler on it hold

vars == <<locked, owner, pc, lk, eflags, ints, ncli, intena, intr, held>>

Code == {"kernel", "handler"}

\* What runs on c now.
Running(c) == IF intr[c].on THEN "handler" ELSE "kernel"

HeldNow(c) == held[c][Running(c)]

NoIntr == [on |-> FALSE, pc |-> "out", lk |-> 0, eflags |-> TRUE]

Init ==
  /\ locked = [l \in Locks |-> FALSE]
  /\ owner = [l \in Locks |-> NoCpu]
  /\ pc = [c \in Cpus |-> "out"]
  /\ lk = [c \in Cpus |-> 0]
  /\ eflags = [c \in Cpus |-> TRUE]
  /\ ints = [c \in Cpus |-> TRUE]
  /\ ncli = [c \in Cpus |-> 0]
  /\ intena = [c \in Cpus |-> FALSE]
  /\ intr = [c \in Cpus |-> NoIntr]
  /\ held = [c \in Cpus |-> [x \in Code |-> {}]]

Goto(c, from, to) == pc[c] = from /\ pc' = [pc EXCEPT ![c] = to]

-----------------------------------------------------------------------------
(* acquire()                                                               *)

\* acquire(lk): pushcli() reads the flags.
CallAcquire(c, l) ==
  /\ Goto(c, "out", "cli")
  /\ \A m \in HeldNow(c) : m < l
  /\ lk' = [lk EXCEPT ![c] = l]
  /\ eflags' = [eflags EXCEPT ![c] = ints[c]]
  /\ UNCHANGED <<locked, owner, ints, ncli, intena, intr, held>>

\* Mutant: pushcli() records the flag at every nesting depth.
CliAlways(c) ==
  /\ Goto(c, "cli", "held?")
  /\ ints' = [ints EXCEPT ![c] = FALSE]
  /\ intena' = [intena EXCEPT ![c] = eflags[c]]
  /\ ncli' = [ncli EXCEPT ![c] = @ + 1]
  /\ UNCHANGED <<locked, owner, lk, eflags, intr, held>>

\* cli(), and the rest of pushcli(), which nothing can interrupt.
Cli(c) ==
  /\ Goto(c, "cli", "held?")
  /\ ints' = [ints EXCEPT ![c] = FALSE]
  /\ intena' = [intena EXCEPT ![c] = IF ncli[c] = 0 THEN eflags[c] ELSE @]
  /\ ncli' = [ncli EXCEPT ![c] = @ + 1]
  /\ UNCHANGED <<locked, owner, lk, eflags, intr, held>>

\* holding(lk) in acquire(): lock->locked, then lock->cpu == mycpu().
AcquireLocked(c) ==
  /\ Goto(c, "held?", IF locked[lk[c]] THEN "mine?" ELSE "spin")
  /\ UNCHANGED <<locked, owner, lk, eflags, ints, ncli, intena, intr, held>>

AcquireMine(c) ==
  /\ Goto(c, "mine?", IF owner[lk[c]] = c THEN "panic" ELSE "spin")
  /\ UNCHANGED <<locked, owner, lk, eflags, ints, ncli, intena, intr, held>>

\* Mutant: the lock is read and set without xchg's bus lock.
XchgTorn(c) ==
  /\ Goto(c, "spin", "own")
  /\ locked' = [locked EXCEPT ![lk[c]] = TRUE]
  /\ UNCHANGED <<owner, lk, eflags, ints, ncli, intena, intr, held>>

\* xchg(&lk->locked, 1) finds 0; while it finds 1 the CPU spins.
Xchg(c) ==
  /\ Goto(c, "spin", "own")
  /\ ~locked[lk[c]]
  /\ locked' = [locked EXCEPT ![lk[c]] = TRUE]
  /\ UNCHANGED <<owner, lk, eflags, ints, ncli, intena, intr, held>>

\* lk->cpu = mycpu(); acquire() returns.
SetCpu(c) ==
  /\ Goto(c, "own", "out")
  /\ owner' = [owner EXCEPT ![lk[c]] = c]
  /\ held' = [held EXCEPT ![c][Running(c)] = @ \cup {lk[c]}]
  /\ UNCHANGED <<locked, lk, eflags, ints, ncli, intena, intr>>

-----------------------------------------------------------------------------
(* release()                                                               *)

CallRelease(c, l) ==
  /\ Goto(c, "out", "locked?")
  /\ l \in HeldNow(c)
  /\ lk' = [lk EXCEPT ![c] = l]
  /\ held' = [held EXCEPT ![c][Running(c)] = @ \ {l}]
  /\ UNCHANGED <<locked, owner, eflags, ints, ncli, intena, intr>>

\* holding(lk) in release().
ReleaseLocked(c) ==
  /\ Goto(c, "locked?", IF locked[lk[c]] THEN "owned?" ELSE "panic")
  /\ UNCHANGED <<locked, owner, lk, eflags, ints, ncli, intena, intr, held>>

ReleaseMine(c) ==
  /\ Goto(c, "owned?", IF owner[lk[c]] = c THEN "disown" ELSE "panic")
  /\ UNCHANGED <<locked, owner, lk, eflags, ints, ncli, intena, intr, held>>

\* lk->cpu = 0, and then movl $0, lk->locked.
GiveUp(c) ==
  /\ \/ /\ Goto(c, "disown", "clear")
        /\ owner' = [owner EXCEPT ![lk[c]] = NoCpu]
        /\ UNCHANGED locked
     \/ /\ Goto(c, "clear", "popcli")
        /\ locked' = [locked EXCEPT ![lk[c]] = FALSE]
        /\ UNCHANGED owner
  /\ UNCHANGED <<lk, eflags, ints, ncli, intena, intr, held>>

\* popcli(); sti() if this was the outermost one and the flag was set before.
Popcli(c) ==
  /\ Goto(c, "popcli", IF ints[c] \/ ncli[c] - 1 < 0 THEN "panic" ELSE "out")
  /\ ncli' = [ncli EXCEPT ![c] = @ - 1]
  /\ ints' = [ints EXCEPT ![c] = IF ncli[c] - 1 = 0 /\ intena[c] THEN TRUE ELSE @]
  /\ UNCHANGED <<locked, owner, lk, eflags, intena, intr, held>>

-----------------------------------------------------------------------------
(* Interrupts: a gate that clears the flag, and iret, which restores it.   *)

Interrupt(c) ==
  /\ ints[c] /\ ~intr[c].on /\ pc[c] # "panic"
  /\ intr' = [intr EXCEPT ![c] = [on |-> TRUE, pc |-> pc[c], lk |-> lk[c],
                                  eflags |-> eflags[c]]]
  /\ ints' = [ints EXCEPT ![c] = FALSE]
  /\ pc' = [pc EXCEPT ![c] = "out"]
  /\ UNCHANGED <<locked, owner, lk, eflags, ncli, intena, held>>

Iret(c) ==
  /\ intr[c].on /\ pc[c] = "out" /\ HeldNow(c) = {}
  /\ pc' = [pc EXCEPT ![c] = intr[c].pc]
  /\ lk' = [lk EXCEPT ![c] = intr[c].lk]
  /\ eflags' = [eflags EXCEPT ![c] = intr[c].eflags]
  /\ ints' = [ints EXCEPT ![c] = TRUE]
  /\ intr' = [intr EXCEPT ![c] = NoIntr]
  /\ UNCHANGED <<locked, owner, ncli, intena, held>>

CpuStep(c) ==
  \/ \E l \in Locks : CallAcquire(c, l) \/ CallRelease(c, l)
  \/ Cli(c) \/ AcquireLocked(c) \/ AcquireMine(c) \/ Xchg(c) \/ SetCpu(c)
  \/ ReleaseLocked(c) \/ ReleaseMine(c) \/ GiveUp(c) \/ Popcli(c)
  \/ Interrupt(c) \/ Iret(c)

Next == \E c \in Cpus : CpuStep(c)

Spec == Init /\ [][Next]_vars

-----------------------------------------------------------------------------
(* Properties.                                                             *)

PCs == {"out", "cli", "held?", "mine?", "spin", "own", "locked?", "owned?",
        "disown", "clear", "popcli", "panic"}

\* Every variable keeps its type.
TypeOK ==
  /\ locked \in [Locks -> BOOLEAN]
  /\ owner \in [Locks -> Cpus \cup {NoCpu}]
  /\ pc \in [Cpus -> PCs]
  /\ lk \in [Cpus -> Locks \cup {0}]
  /\ eflags \in [Cpus -> BOOLEAN]
  /\ ints \in [Cpus -> BOOLEAN]
  /\ ncli \in [Cpus -> Nat]
  /\ intena \in [Cpus -> BOOLEAN]
  /\ intr \in [Cpus -> [on : BOOLEAN, pc : PCs, lk : Locks \cup {0}, eflags : BOOLEAN]]
  /\ held \in [Cpus -> [Code -> SUBSET Locks]]

\* A lock is held in one place only: not by two CPUs, and not by a handler and
\* by the code it interrupted.
MutualExclusion ==
  \A c, d \in Cpus : \A x, y \in Code :
    <<c, x>> # <<d, y>> => held[c][x] \cap held[d][y] = {}

\* None of the panics of spinlock.c is reached: holding() answers "not mine"
\* in acquire() and "mine" in release(), whatever the other CPUs are writing
\* while it reads, and popcli() always finds interrupts off and a count.
NoPanic == \A c \in Cpus : pc[c] # "panic"

\* A CPU that holds a lock takes no interrupt; that is what keeps a handler
\* from spinning on a lock held by the code below it.
HeldWithInterruptsOff ==
  \A c \in Cpus : held[c]["kernel"] \cup held[c]["handler"] # {} => ~ints[c]

\* Once the last lock is released interrupts are as before the first acquire:
\* on in kernel code, off in a handler.
FlagRestored ==
  \A c \in Cpus :
    pc[c] = "out" /\ HeldNow(c) = {} => ncli[c] = 0 /\ (ints[c] <=> ~intr[c].on)

\* A lock is one CPU's at a time, no panic() of spinlock.c is reached, and whoever
\* holds a lock cannot be interrupted.
Safe == TypeOK /\ MutualExclusion /\ NoPanic /\ HeldWithInterruptsOff

-----------------------------------------------------------------------------
(* The abstract service, and the inductive invariant.                      *)

Acquiring == {"cli", "held?", "mine?", "spin", "own"}
Releasing == {"locked?", "owned?", "disown", "clear"}
Counted   == {"held?", "mine?", "spin", "own", "locked?", "owned?", "disown",
              "clear", "popcli"}

\* The locks CPU c has, from its xchg to its clearing of the lock word, and
\* those among them that lk->cpu says are c's.
Owned(c) ==
  HeldNow(c) \cup (IF pc[c] \in Releasing \cup {"own"} THEN {lk[c]} ELSE {})
Named(c) ==
  HeldNow(c) \cup (IF pc[c] \in Releasing \ {"clear"} THEN {lk[c]} ELSE {})

HolderOf(l) ==
  IF \E c \in Cpus : l \in Owned(c) THEN CHOOSE c \in Cpus : l \in Owned(c)
                                     ELSE NoCpu

Service == INSTANCE LockService
             WITH holder <- [l \in Locks |-> HolderOf(l)]

\* Each lock is a LockService lock: granted to one CPU at a time, when nobody
\* has it, and taken back from the CPU it was granted to only.
ImplementsService == Service!Spec

\* What is true of each CPU by its own doing: how many locks it counts, and
\* what it knows of its interrupts.
CpuInv(c) ==
  /\ pc[c] # "out" => lk[c] \in Locks
  /\ pc[c] \in Acquiring => \A m \in HeldNow(c) : m < lk[c]
  /\ pc[c] \in Releasing => lk[c] \notin HeldNow(c)
  /\ ncli[c] = Cardinality(HeldNow(c)) + (IF pc[c] \in Counted THEN 1 ELSE 0)
  /\ ints[c] <=> ~intr[c].on /\ HeldNow(c) = {} /\ pc[c] \in {"out", "cli"}
  /\ pc[c] = "cli" => eflags[c] = ints[c]
  /\ ncli[c] > 0 => (intena[c] <=> ~intr[c].on)
  /\ ~intr[c].on => held[c]["handler"] = {}
  /\ intr[c].on => /\ held[c]["kernel"] = {}
                   /\ intr[c].pc \in {"out", "cli"}
                   /\ intr[c].pc = "cli" => intr[c].lk \in Locks /\ intr[c].eflags

LockInv ==
  /\ \A c, d \in Cpus : c # d => Owned(c) \cap Owned(d) = {}
  /\ \A c \in Cpus : \A l \in Owned(c) : locked[l]
  /\ \A l \in Locks : locked[l] => \E c \in Cpus : l \in Owned(c)
  /\ \A c \in Cpus, l \in Locks : owner[l] = c <=> l \in Named(c)

IInv ==
  /\ TypeOK
  /\ NoPanic
  /\ \A c \in Cpus : CpuInv(c)
  /\ LockInv

=============================================================================
