--------------------------------- MODULE Proc ---------------------------------
(***************************************************************************)
(* The process table of proc.c: fork(), exit(), wait(), kill(), yield(),   *)
(* sleep() and wakeup() (through sys_sleep() and the clock), and the       *)
(* scheduler of each CPU.                                                  *)
(*                                                                         *)
(* ptable.lock is taken by one thread and released by another: a process   *)
(* that calls sched() takes it and the scheduler it switches to holds it;  *)
(* the process the scheduler runs next lets it go.  The model keeps that   *)
(* hand-over, with the interrupt flag, ncli and intena of each CPU.  A     *)
(* section under the lock that switches to nobody is one step.             *)
(***************************************************************************)
EXTENDS Integers, FiniteSets

CONSTANTS
  Cpus,        \* the CPUs
  Cpu0,        \* the one whose timer counts the ticks
  NoCpu,       \* an unlocked lock's owner
  NPROC,       \* slots of the process table; bound of the model
  MaxPid,      \* bound: no process is created past this pid
  Clocked      \* bound: the places where the clock interrupts a thread

ASSUME ProcAssumption ==
  /\ Cpu0 \in Cpus /\ NoCpu \notin Cpus
  /\ \A c \in Cpus : c \notin 0..NPROC + 1
  /\ NPROC \in Nat \ {0} /\ MaxPid \in Nat \ {0}

Slots == 1..NPROC
initproc == 1
Ticks == NPROC + 1      \* the channel &ticks; a process's own slot is the other kind

VARIABLES
  state, pid, parent, killed, chan,  \* struct proc; 0 is the null pointer
  kstack,      \* whether the slot has a kernel stack
  nextpid,
  ptlock,      \* the CPU that holds ptable.lock
  tickslock,   \* the CPU that holds tickslock
  cproc,       \* c->proc
  scan,        \* the slot the scheduler of a CPU looks at next
  ints,        \* the interrupt flag of a CPU
  ncli, intena,
  pc,          \* where each thread is: a process's, or a CPU's scheduler
  back,        \* what the clock interrupted
  saved,       \* sched()'s local intena
  np,          \* fork()'s np
  due,         \* sys_sleep(): its ticks have not passed yet
  panicked     \* the panic that stopped the machine

table == <<state, pid, parent, killed, chan, kstack, nextpid>>
cli   == <<ints, ncli, intena>>
local == <<back, saved, np, due>>
vars  == <<table, ptlock, tickslock, cproc, scan, cli, pc, local, panicked>>

Init ==
  /\ state = [s \in Slots |-> IF s = initproc THEN "RUNNABLE" ELSE "UNUSED"]
  /\ pid = [s \in Slots |-> IF s = initproc THEN 1 ELSE 0]
  /\ parent = [s \in Slots |-> 0]
  /\ killed = [s \in Slots |-> FALSE]
  /\ chan = [s \in Slots |-> 0]
  /\ kstack = [s \in Slots |-> s = initproc]
  /\ nextpid = 2
  /\ ptlock = NoCpu /\ tickslock = NoCpu
  /\ cproc = [c \in Cpus |-> 0]
  /\ scan = [c \in Cpus |-> 1]
  /\ ints = [c \in Cpus |-> TRUE]
  /\ ncli = [c \in Cpus |-> 0]
  /\ intena = [c \in Cpus |-> FALSE]
  /\ pc = [t \in Slots \cup Cpus |-> IF t \in Cpus THEN "idle"
                               ELSE IF t = initproc THEN "forkret" ELSE "dead"]
  /\ back = [t \in Slots \cup Cpus |-> "idle"]
  /\ saved = [s \in Slots |-> FALSE]
  /\ np = [s \in Slots |-> 0]
  /\ due = [s \in Slots |-> FALSE]
  /\ panicked = "no"

-----------------------------------------------------------------------------
(* Threads, and the interrupt side of the spin locks.                      *)

\* The thread that runs on c: a process, or c's scheduler.
Thread(c) == IF cproc[c] = 0 THEN c ELSE cproc[c]

Goto(c, from, to) ==
  /\ pc[Thread(c)] = from
  /\ pc' = [pc EXCEPT ![Thread(c)] = to]

\* acquire(): the interrupt flag goes off, and is remembered the first time.
Pushcli(c) ==
  /\ ints' = [ints EXCEPT ![c] = FALSE]
  /\ intena' = [intena EXCEPT ![c] = IF ncli[c] = 0 THEN ints[c] ELSE @]
  /\ ncli' = [ncli EXCEPT ![c] = @ + 1]

\* release(), with mycpu()->intena = on. (An intena no lock needs any more is
\* left FALSE: the next pushcli() writes it.)
Popcli(c, on) ==
  /\ ncli' = [ncli EXCEPT ![c] = @ - 1]
  /\ intena' = [intena EXCEPT ![c] = IF ncli[c] = 1 THEN FALSE ELSE on]
  /\ ints' = [ints EXCEPT ![c] = @ \/ (ncli[c] = 1 /\ on)]

\* wakeup1(ch), on the table st.
Woken(st, ch) ==
  [s \in Slots |-> IF st[s] = "SLEEPING" /\ chan[s] = ch THEN "RUNNABLE" ELSE st[s]]

Lowest(S) == CHOOSE s \in S : \A t \in S : s <= t

-----------------------------------------------------------------------------
(* scheduler() and sched()                                                 *)

\* sti(); acquire(&ptable.lock); the scan starts.
Look(c) ==
  /\ Goto(c, "idle", "scan")
  /\ ptlock = NoCpu /\ ptlock' = c
  /\ Pushcli(c)
  /\ UNCHANGED <<table, tickslock, cproc, scan, local, panicked>>

\* Mutant: every search starts with the first slot.
FoundFromStart(c) == {s \in Slots : state[s] = "RUNNABLE"}

Found(c) == {s \in Slots : s >= scan[c] /\ state[s] = "RUNNABLE"}

\* The next RUNNABLE process from here on runs, and has ptable.lock.
Run(c) ==
  /\ pc[Thread(c)] = "scan" /\ Found(c) # {}
  /\ cproc' = [cproc EXCEPT ![c] = Lowest(Found(c))]
  /\ state' = [state EXCEPT ![Lowest(Found(c))] = "RUNNING"]
  /\ UNCHANGED <<pid, parent, killed, chan, kstack, nextpid, ptlock, tickslock,
                 scan, cli, pc, local, panicked>>

\* The scan ends: release(&ptable.lock), and sti() whatever intena says.
Unlook(c) ==
  /\ Goto(c, "scan", "idle")
  /\ Found(c) = {}
  /\ ptlock' = NoCpu
  /\ ncli' = [ncli EXCEPT ![c] = @ - 1]
  /\ ints' = [ints EXCEPT ![c] = TRUE]
  /\ intena' = [intena EXCEPT ![c] = FALSE]
  /\ scan' = [scan EXCEPT ![c] = 1]
  /\ UNCHANGED <<table, tickslock, cproc, local, panicked>>

\* What a thread does after sched(), by what it did before.
After == [yielding |-> "yielded", waiting |-> "waited", dozing |-> "woken",
          dying |-> "dead"]

SchedPanics(c) ==
  \/ ptlock # c
  \/ ncli[c] # 1
  \/ state[cproc[c]] = "RUNNING"
  \/ ints[c]

\* sched(): its panics, intena kept, swtch() to the scheduler, which goes on
\* with the slot after this one.
Sched(c) ==
  LET s == cproc[c] IN
  /\ s # 0 /\ pc[s] \in DOMAIN After
  /\ UNCHANGED <<table, ptlock, tickslock, cli, back, np, due>>
  /\ \/ /\ SchedPanics(c)
        /\ panicked' = "sched"
        /\ UNCHANGED <<pc, saved, cproc, scan>>
     \/ /\ ~SchedPanics(c)
        /\ pc' = [pc EXCEPT ![s] = After[pc[s]]]
        /\ saved' = [saved EXCEPT ![s] = intena[c] /\ pc[s] # "dying"]
        /\ cproc' = [cproc EXCEPT ![c] = 0]
        /\ scan' = [scan EXCEPT ![c] = s + 1]
        /\ UNCHANGED panicked

\* forkret(): a new process's first step lets the scheduler's lock go, and
\* returns to user mode, where interrupts are on.
Forkret(c) ==
  /\ Goto(c, "forkret", "user")
  /\ ptlock' = NoCpu
  /\ ncli' = [ncli EXCEPT ![c] = @ - 1]
  /\ ints' = [ints EXCEPT ![c] = TRUE]
  /\ intena' = [intena EXCEPT ![c] = FALSE]
  /\ UNCHANGED <<table, tickslock, cproc, scan, local, panicked>>

-----------------------------------------------------------------------------
(* trap()                                                                  *)

\* A system call, unless the caller has been killed.
Syscall(c) ==
  /\ \E call \in IF cproc[c] # 0 /\ killed[cproc[c]] THEN {"exit"}
                 ELSE {"fork", "exit", "wait", "kill", "sleep"} :
       Goto(c, "user", call)
  /\ UNCHANGED <<table, ptlock, tickslock, cproc, scan, cli, local, panicked>>

\* The system call returns, through the second test of killed.
Sysret(c) ==
  /\ Goto(c, "ret", IF cproc[c] # 0 /\ killed[cproc[c]] THEN "exit" ELSE "user")
  /\ UNCHANGED <<table, ptlock, tickslock, cproc, scan, cli, local, panicked>>

\* The timer interrupts a thread.
Timer(c) ==
  /\ ints[c] /\ pc[Thread(c)] \in Clocked
  /\ c = Cpu0 \/ cproc[c] # 0
  /\ back' = [back EXCEPT ![Thread(c)] = pc[Thread(c)]]
  /\ pc' = [pc EXCEPT ![Thread(c)] = IF c = Cpu0 THEN "tick" ELSE "trap"]
  /\ ints' = [ints EXCEPT ![c] = FALSE]
  /\ UNCHANGED <<table, ptlock, tickslock, cproc, scan, ncli, intena, saved, np,
                 due, panicked>>

\* On CPU 0: acquire(&tickslock); ticks++, which ends some of the waits.
Tick(c) ==
  /\ Goto(c, "tick", "wake")
  /\ tickslock = NoCpu /\ tickslock' = c
  /\ \E S \in SUBSET {s \in Slots : due[s]} : due' = [s \in Slots |-> s \in S]
  /\ Pushcli(c)
  /\ UNCHANGED <<table, ptlock, cproc, scan, back, saved, np, panicked>>

\* wakeup(&ticks); release(&tickslock).
TickWake(c) ==
  /\ Goto(c, "wake", "trap")
  /\ ptlock = NoCpu
  /\ state' = Woken(state, Ticks)
  /\ tickslock' = NoCpu
  /\ Popcli(c, intena[c])
  /\ UNCHANGED <<pid, parent, killed, chan, kstack, nextpid, ptlock, cproc, scan,
                 local, panicked>>

\* The rest of trap(): a killed process leaves for exit() if it was in user
\* mode; else a running process yields; a scheduler goes back to its loop.
Iret(c) ==
  LET t == Thread(c) IN
  /\ pc[t] = "trap"
  /\ IF cproc[c] = 0
       THEN /\ pc' = [pc EXCEPT ![t] = back[t]]
            /\ ints' = [ints EXCEPT ![c] = TRUE]
       ELSE /\ UNCHANGED ints
            /\ pc' = [pc EXCEPT ![t] = IF back[t] = "user" /\ killed[t] THEN "exit"
                                       ELSE "yield"]
  /\ back' = [back EXCEPT ![t] = IF pc'[t] = "yield" THEN @ ELSE "idle"]
  /\ UNCHANGED <<table, ptlock, tickslock, cproc, scan, ncli, intena, saved, np,
                 due, panicked>>

\* yield(): acquire(&ptable.lock), RUNNABLE.
Yield(c) ==
  /\ Goto(c, "yield", "yielding")
  /\ ptlock = NoCpu /\ ptlock' = c
  /\ Pushcli(c)
  /\ state' = [state EXCEPT ![cproc[c]] = "RUNNABLE"]
  /\ UNCHANGED <<pid, parent, killed, chan, kstack, nextpid, tickslock, cproc,
                 scan, local, panicked>>

\* Mutant: yield() goes on with the intena of the CPU it now runs on.
YieldedIntena(c) ==
  /\ Goto(c, "yielded", "resume")
  /\ ptlock' = NoCpu
  /\ Popcli(c, intena[c])
  /\ UNCHANGED <<table, tickslock, cproc, scan, local, panicked>>

\* Back from sched() with intena restored: release(&ptable.lock).
Yielded(c) ==
  /\ Goto(c, "yielded", "resume")
  /\ ptlock' = NoCpu
  /\ Popcli(c, saved[cproc[c]])
  /\ saved' = [saved EXCEPT ![cproc[c]] = FALSE]
  /\ UNCHANGED <<table, tickslock, cproc, scan, back, np, due, panicked>>

\* The end of trap(): exit() if killed in user mode meanwhile, or iret.
Resume(c) ==
  LET s == cproc[c]
      dies == back[s] = "user" /\ killed[s]
  IN
  /\ s # 0 /\ pc[s] = "resume"
  /\ pc' = [pc EXCEPT ![s] = IF dies THEN "exit" ELSE back[s]]
  /\ ints' = [ints EXCEPT ![c] = @ \/ ~dies]
  /\ back' = [back EXCEPT ![s] = "idle"]
  /\ UNCHANGED <<table, ptlock, tickslock, cproc, scan, ncli, intena, saved, np,
                 due, panicked>>

-----------------------------------------------------------------------------
(* fork(): allocproc() and the rest                                        *)

Unused == {s \in Slots : state[s] = "UNUSED"}

\* allocproc() takes the first UNUSED slot; no slot, no process.
Allocproc(c) ==
  /\ ptlock = NoCpu
  /\ \/ /\ Unused # {} /\ nextpid <= MaxPid
        /\ LET n == Lowest(Unused) IN
             /\ Goto(c, "fork", "stack")
             /\ np' = [np EXCEPT ![cproc[c]] = n]
             /\ state' = [state EXCEPT ![n] = "EMBRYO"]
             /\ pid' = [pid EXCEPT ![n] = nextpid]
        /\ nextpid' = nextpid + 1
     \/ /\ Unused = {} \/ nextpid > MaxPid
        /\ Goto(c, "fork", "ret")
        /\ UNCHANGED <<np, state, pid, nextpid>>
  /\ UNCHANGED <<parent, killed, chan, kstack, ptlock, tickslock, cproc, scan,
                 cli, back, saved, due, panicked>>

\* kalloc2() for the stack, which may find no page: the slot is given back
\* outside of the lock, with its pid left in it.
Stack(c) ==
  LET n == np[cproc[c]] IN
  /\ cproc[c] # 0
  /\ \/ /\ Goto(c, "stack", "copy")
        /\ kstack' = [kstack EXCEPT ![n] = TRUE]
        /\ UNCHANGED <<state, np>>
     \/ /\ Goto(c, "stack", "ret")
        /\ state' = [state EXCEPT ![n] = "UNUSED"]
        /\ np' = [np EXCEPT ![cproc[c]] = 0]
        /\ UNCHANGED kstack
  /\ UNCHANGED <<pid, parent, killed, chan, nextpid, ptlock, tickslock, cproc,
                 scan, cli, back, saved, due, panicked>>

\* copyuvm(), which may fail too.
Copy(c) ==
  LET n == np[cproc[c]] IN
  /\ cproc[c] # 0
  /\ \/ /\ Goto(c, "copy", "publish")
        /\ parent' = [parent EXCEPT ![n] = cproc[c]]
        /\ UNCHANGED <<state, kstack, np>>
     \/ /\ Goto(c, "copy", "ret")
        /\ kstack' = [kstack EXCEPT ![n] = FALSE]
        /\ state' = [state EXCEPT ![n] = "UNUSED"]
        /\ np' = [np EXCEPT ![cproc[c]] = 0]
        /\ UNCHANGED parent
  /\ UNCHANGED <<pid, killed, chan, nextpid, ptlock, tickslock, cproc, scan, cli,
                 back, saved, due, panicked>>

\* The child may run, from forkret() on.
Publish(c) ==
  LET n == np[cproc[c]] IN
  /\ cproc[c] # 0 /\ pc[cproc[c]] = "publish"
  /\ ptlock = NoCpu
  /\ state' = [state EXCEPT ![n] = "RUNNABLE"]
  /\ pc' = [pc EXCEPT ![cproc[c]] = "ret", ![n] = "forkret"]
  /\ np' = [np EXCEPT ![cproc[c]] = 0]
  /\ UNCHANGED <<pid, parent, killed, chan, kstack, nextpid, ptlock, tickslock,
                 cproc, scan, cli, back, saved, due, panicked>>

-----------------------------------------------------------------------------
(* exit(), wait(), kill()                                                  *)

Children(s) == {t \in Slots : parent[t] = s}

\* Mutant: the children stay with the process that leaves.
ExitOrphans(c) ==
  LET s == cproc[c] IN
  /\ Goto(c, "exit", "dying")
  /\ s # initproc
  /\ ptlock = NoCpu /\ ptlock' = c
  /\ Pushcli(c)
  /\ state' = [Woken(state, parent[s]) EXCEPT ![s] = "ZOMBIE"]
  /\ UNCHANGED <<pid, parent, killed, chan, kstack, nextpid, tickslock, cproc,
                 scan, local, panicked>>

\* Mutant: exit() wakes nobody.
ExitSilently(c) ==
  LET s == cproc[c] IN
  /\ Goto(c, "exit", "dying")
  /\ s # initproc
  /\ ptlock = NoCpu /\ ptlock' = c
  /\ Pushcli(c)
  /\ parent' = [t \in Slots |-> IF parent[t] = s THEN initproc ELSE parent[t]]
  /\ state' = [state EXCEPT ![s] = "ZOMBIE"]
  /\ UNCHANGED <<pid, killed, chan, kstack, nextpid, tickslock, cproc,
                 scan, local, panicked>>

\* exit(): wakes the parent, gives the children to initproc, which is woken if
\* one of them is a zombie, and becomes a zombie.
Exit(c) ==
  LET s == cproc[c]
      toParent == Woken(state, parent[s])
      toInit == IF \E t \in Children(s) : state[t] = "ZOMBIE"
                THEN Woken(toParent, initproc) ELSE toParent
  IN
  /\ s # 0 /\ s # initproc
  /\ Goto(c, "exit", "dying")
  /\ ptlock = NoCpu /\ ptlock' = c
  /\ Pushcli(c)
  /\ parent' = [t \in Slots |-> IF t \in Children(s) THEN initproc ELSE parent[t]]
  /\ state' = [toInit EXCEPT ![s] = "ZOMBIE"]
  /\ UNCHANGED <<pid, killed, chan, kstack, nextpid, tickslock, cproc, scan,
                 local, panicked>>

\* initproc may not exit.
ExitPanics(c) ==
  /\ cproc[c] = initproc /\ pc[initproc] = "exit"
  /\ panicked' = "init exiting"
  /\ UNCHANGED <<table, ptlock, tickslock, cproc, scan, cli, pc, local>>

\* Mutant: wait() looks without the lock.
WaitUnlocked(c) ==
  /\ Goto(c, "wait", "kids")
  /\ Pushcli(c)
  /\ UNCHANGED <<table, ptlock, tickslock, cproc, scan, local, panicked>>

\* wait(): acquire(&ptable.lock).
Wait(c) ==
  /\ Goto(c, "wait", "kids")
  /\ ptlock = NoCpu /\ ptlock' = c
  /\ Pushcli(c)
  /\ UNCHANGED <<table, tickslock, cproc, scan, local, panicked>>

Zombies(s) == {t \in Children(s) : state[t] = "ZOMBIE"}

\* wait() frees the first zombie child in the table, whole.
Reap(c) ==
  LET s == cproc[c]
      z == Lowest(Zombies(s))
  IN
  /\ s # 0 /\ Zombies(s) # {}
  /\ Goto(c, "kids", "ret")
  /\ kstack' = [kstack EXCEPT ![z] = FALSE]
  /\ pid' = [pid EXCEPT ![z] = 0]
  /\ parent' = [parent EXCEPT ![z] = 0]
  /\ killed' = [killed EXCEPT ![z] = FALSE]
  /\ state' = [state EXCEPT ![z] = "UNUSED"]
  /\ ptlock' = NoCpu
  /\ Popcli(c, intena[c])
  /\ UNCHANGED <<chan, nextpid, tickslock, cproc, scan, local, panicked>>

\* wait() returns -1: no children, or killed.
WaitFails(c) ==
  LET s == cproc[c] IN
  /\ s # 0 /\ Zombies(s) = {}
  /\ Children(s) = {} \/ killed[s]
  /\ Goto(c, "kids", "ret")
  /\ ptlock' = NoCpu
  /\ Popcli(c, intena[c])
  /\ UNCHANGED <<table, tickslock, cproc, scan, local, panicked>>

\* sleep(curproc, &ptable.lock) until a child exits.
WaitSleeps(c) ==
  LET s == cproc[c] IN
  /\ s # 0 /\ Zombies(s) = {} /\ Children(s) # {} /\ ~killed[s]
  /\ Goto(c, "kids", "waiting")
  /\ chan' = [chan EXCEPT ![s] = s]
  /\ state' = [state EXCEPT ![s] = "SLEEPING"]
  /\ UNCHANGED <<pid, parent, killed, kstack, nextpid, ptlock, tickslock, cproc,
                 scan, cli, local, panicked>>

\* Back in wait(), with intena restored.
Waited(c) ==
  LET s == cproc[c] IN
  /\ s # 0 /\ Goto(c, "waited", "kids")
  /\ chan' = [chan EXCEPT ![s] = 0]
  /\ intena' = [intena EXCEPT ![c] = saved[s]]
  /\ saved' = [saved EXCEPT ![s] = FALSE]
  /\ UNCHANGED <<state, pid, parent, killed, kstack, nextpid, ptlock, tickslock,
                 cproc, scan, ints, ncli, back, np, due, panicked>>

\* kill(p): the first slot with this pid, whatever its state, is marked, and
\* woken if asleep.
Kill(c, p) ==
  /\ Goto(c, "kill", "ret")
  /\ ptlock = NoCpu
  /\ \/ \E s \in Slots :
          /\ pid[s] = p /\ \A t \in Slots : pid[t] = p => s <= t
          /\ killed' = [killed EXCEPT ![s] = TRUE]
          /\ state' = [state EXCEPT ![s] = IF @ = "SLEEPING" THEN "RUNNABLE" ELSE @]
     \/ /\ \A s \in Slots : pid[s] # p
        /\ UNCHANGED <<killed, state>>
  /\ UNCHANGED <<pid, parent, chan, kstack, nextpid, ptlock, tickslock, cproc,
                 scan, cli, local, panicked>>

-----------------------------------------------------------------------------
(* sys_sleep() and sleep()                                                 *)

\* acquire(&tickslock); ticks0 = ticks.
SysSleep(c) ==
  /\ cproc[c] # 0 /\ Goto(c, "sleep", "due?")
  /\ tickslock = NoCpu /\ tickslock' = c
  /\ due' = [due EXCEPT ![cproc[c]] = TRUE]
  /\ Pushcli(c)
  /\ UNCHANGED <<table, ptlock, cproc, scan, back, saved, np, panicked>>

\* The loop's two tests: time is up, or the process has been killed.
Doze(c) ==
  LET s == cproc[c] IN
  /\ s # 0
  /\ \/ /\ due[s] /\ ~killed[s] /\ Goto(c, "due?", "doze")
        /\ UNCHANGED <<tickslock, cli, due>>
     \/ /\ ~due[s] \/ killed[s]
        /\ Goto(c, "due?", "ret")
        /\ due' = [due EXCEPT ![s] = FALSE]
        /\ tickslock' = NoCpu
        /\ Popcli(c, intena[c])
  /\ UNCHANGED <<table, ptlock, cproc, scan, back, saved, np, panicked>>

\* Mutant: sleep() goes to sched() with its caller's lock.
SleepHolding(c) ==
  LET s == cproc[c] IN
  /\ s # 0 /\ Goto(c, "doze", "dozing")
  /\ ptlock = NoCpu /\ ptlock' = c
  /\ Pushcli(c)
  /\ chan' = [chan EXCEPT ![s] = Ticks]
  /\ state' = [state EXCEPT ![s] = "SLEEPING"]
  /\ UNCHANGED <<pid, parent, killed, kstack, nextpid, tickslock, cproc, scan,
                 local, panicked>>

\* Mutant: sleep() lets its caller's lock go before it has ptable.lock.
SleepGap(c) ==
  \/ /\ Goto(c, "doze", "gap")
     /\ tickslock' = NoCpu
     /\ Popcli(c, intena[c])
     /\ UNCHANGED <<table, ptlock, cproc, scan, local, panicked>>
  \/ /\ Goto(c, "gap", "dozing")
     /\ ptlock = NoCpu /\ ptlock' = c
     /\ Pushcli(c)
     /\ chan' = [chan EXCEPT ![cproc[c]] = Ticks]
     /\ state' = [state EXCEPT ![cproc[c]] = "SLEEPING"]
     /\ UNCHANGED <<pid, parent, killed, kstack, nextpid, tickslock, cproc, scan,
                    local, panicked>>

\* sleep(&ticks, &tickslock): ptable.lock taken, then tickslock let go, and
\* the process is asleep on the channel.
Sleep(c) ==
  LET s == cproc[c] IN
  /\ s # 0 /\ Goto(c, "doze", "dozing")
  /\ ptlock = NoCpu /\ ptlock' = c
  /\ tickslock' = NoCpu
  /\ chan' = [chan EXCEPT ![s] = Ticks]
  /\ state' = [state EXCEPT ![s] = "SLEEPING"]
  /\ UNCHANGED <<pid, parent, killed, kstack, nextpid, cproc, scan, cli, local,
                 panicked>>

\* Back in sleep(), with intena restored: chan = 0, release(&ptable.lock).
Wakes(c) ==
  LET s == cproc[c] IN
  /\ s # 0 /\ Goto(c, "woken", "relock")
  /\ chan' = [chan EXCEPT ![s] = 0]
  /\ ptlock' = NoCpu
  /\ Popcli(c, saved[s])
  /\ saved' = [saved EXCEPT ![s] = FALSE]
  /\ UNCHANGED <<state, pid, parent, killed, kstack, nextpid, tickslock, cproc,
                 scan, back, np, due, panicked>>

\* The caller's lock again.
Relock(c) ==
  /\ Goto(c, "relock", "due?")
  /\ tickslock = NoCpu /\ tickslock' = c
  /\ Pushcli(c)
  /\ UNCHANGED <<table, ptlock, cproc, scan, local, panicked>>

-----------------------------------------------------------------------------

\* panic() stops every CPU for good.
Frozen == panicked # "no" /\ UNCHANGED vars

ClockStep(c) == Tick(c) \/ TickWake(c) \/ Iret(c)

ThreadStep(c) ==
  \/ Look(c) \/ Run(c) \/ Unlook(c) \/ Sched(c) \/ Forkret(c)
  \/ Syscall(c) \/ Sysret(c)
  \/ Yield(c) \/ Yielded(c) \/ Resume(c)
  \/ Allocproc(c) \/ Stack(c) \/ Copy(c) \/ Publish(c)
  \/ Exit(c) \/ ExitPanics(c)
  \/ Wait(c) \/ Reap(c) \/ WaitFails(c) \/ WaitSleeps(c) \/ Waited(c)
  \/ \E p \in 0..MaxPid : Kill(c, p)
  \/ SysSleep(c) \/ Doze(c) \/ Sleep(c) \/ Wakes(c) \/ Relock(c)

Next ==
  \/ panicked = "no" /\ \E c \in Cpus : ThreadStep(c) \/ ClockStep(c) \/ Timer(c)
  \/ Frozen

Spec == Init /\ [][Next]_vars

-----------------------------------------------------------------------------
(* Properties.                                                             *)

States == {"UNUSED", "EMBRYO", "SLEEPING", "RUNNABLE", "RUNNING", "ZOMBIE"}
Live(s) == state[s] \in {"SLEEPING", "RUNNABLE", "RUNNING"}

\* Every variable keeps its type.
TypeOK ==
  /\ state \in [Slots -> States]
  /\ pid \in [Slots -> 0..MaxPid] /\ nextpid \in 1..MaxPid + 1
  /\ parent \in [Slots -> 0..NPROC]
  /\ chan \in [Slots -> 0..Ticks]
  /\ killed \in [Slots -> BOOLEAN] /\ kstack \in [Slots -> BOOLEAN]
  /\ ptlock \in Cpus \cup {NoCpu} /\ tickslock \in Cpus \cup {NoCpu}
  /\ cproc \in [Cpus -> 0..NPROC] /\ scan \in [Cpus -> 1..NPROC + 1]
  /\ ints \in [Cpus -> BOOLEAN] /\ intena \in [Cpus -> BOOLEAN]
  /\ ncli \in [Cpus -> 0..2]
  /\ saved \in [Slots -> BOOLEAN] /\ due \in [Slots -> BOOLEAN]
  /\ np \in [Slots -> 0..NPROC]
  /\ panicked \in {"no", "sched", "init exiting"}

\* A process runs on one CPU at most, and a process that is not running, or is
\* running but about to switch away, is not picked up by another CPU meanwhile.
OneCpuPerProcess ==
  /\ \A c, d \in Cpus : c # d /\ cproc[c] # 0 => cproc[c] # cproc[d]
  /\ \A c \in Cpus : cproc[c] # 0 /\ ptlock # c => state[cproc[c]] = "RUNNING"
  /\ \A s \in Slots : state[s] = "RUNNING" => \E c \in Cpus : cproc[c] = s

\* The stack a CPU is running on has not been freed; nor has that of a process
\* which will run again. (An exiting process is freed by another CPU's wait()
\* only after its own CPU has left its stack.)
StackInPlace ==
  /\ \A c \in Cpus : cproc[c] # 0 => kstack[cproc[c]]
  /\ \A s \in Slots : Live(s) => kstack[s]

\* Whichever CPUs switch, exit and clean up at once, a CPU runs on its own process's
\* stack, which is there; and none of sched()'s panics is reached: who calls it holds
\* ptable.lock and no other lock, with interrupts off and its state changed.
CpusSound == TypeOK /\ OneCpuPerProcess /\ StackInPlace /\ panicked # "sched"

\* Pids are unique among the slots in use, and every process but initproc has
\* a parent that exists and can still wait() for it.
ProcessTree ==
  /\ \A s, t \in Slots :
       s # t /\ state[s] # "UNUSED" /\ state[t] # "UNUSED" => pid[s] # pid[t]
  /\ \A s \in Slots :
       (Live(s) \/ state[s] = "ZOMBIE") /\ s # initproc =>
         parent[s] # 0 /\ Live(parent[s])

\* No lost wakeup in wait(): a parent is not asleep in it while one of its
\* children, its own or handed over to it, is a zombie.
NoZombieMissed ==
  \A s \in Slots : state[s] = "SLEEPING" /\ chan[s] = s => Zombies(s) = {}

\* No lost wakeup in sys_sleep(): no process sleeps on past its tick, unless
\* the clock is about to wake it.
NoTickMissed ==
  \A s \in Slots :
    state[s] = "SLEEPING" /\ chan[s] = Ticks =>
      due[s] \/ \E c \in Cpus : pc[Thread(c)] = "wake"

\* The interrupt flag belongs to the thread, through every switch and CPU: a
\* handler that yielded is resumed with interrupts off, and a system call that
\* slept goes on with interrupts on.
InterruptsOfThread ==
  \A c \in Cpus :
    /\ pc[Thread(c)] \in {"resume", "tick", "trap", "yield"} => ~ints[c]
    /\ pc[Thread(c)] \in {"user", "ret", "relock", "fork", "wait", "idle"} => ints[c]

\* A RUNNABLE process gets to run, in the scan's round, on a CPU whose steps
\* are taken, whose clock keeps ticking, and whose clock leaves it the time for
\* a step between two ticks.
Fairness ==
  \A c \in Cpus :
    /\ WF_vars(panicked = "no" /\ ClockStep(c))
    /\ SF_vars(panicked = "no" /\ ThreadStep(c))
    /\ SF_vars(panicked = "no" /\ Timer(c))

FairSpec == Spec /\ Fairness

EveryoneRuns ==
  \A s \in Slots :
    state[s] = "RUNNABLE" ~> (state[s] = "RUNNING" \/ panicked # "no")

=============================================================================
