------------------------------ MODULE ProcProofs ------------------------------
(***************************************************************************)
(* Proofs about proc.c for any number of CPUs and slots, and wherever the  *)
(* clock interrupts: the hand-over of ptable.lock by sched(), scheduler(), *)
(* forkret(), yield(), sleep() and wait(); the interrupt flag; the tree of *)
(* processes; and the wakeups of wait() and sys_sleep().                   *)
(***************************************************************************)
EXTENDS Proc, WellFoundedInduction, TLAPS

\* Where a thread has ptable.lock; the last four await sched().
Switched == {"forkret", "yielded", "waited", "woken"}
Leaving  == {"yielding", "waiting", "dozing", "dying"}
InTable  == {"scan", "kids"} \cup Switched \cup Leaving

\* Where it has tickslock.
InTicks == {"due?", "doze", "wake"}

\* Where it has no lock and interrupts are on, off, or either.
InCall  == {"user", "ret", "fork", "stack", "copy", "publish", "wait", "kill", "sleep", "relock"}
InTrap  == {"tick", "trap", "yield", "resume"}
Clear   == InCall \cup InTrap \cup {"idle", "exit"}

Places == InTable \cup InTicks \cup Clear \cup {"dead"}

\* Where a process is that the clock has interrupted; and where it was.
Interrupted == InTrap \cup {"wake", "yielding", "yielded"}
Place(s) == IF back[s] = "idle" THEN pc[s] ELSE back[s]

Typed ==
  /\ TypeOK
  /\ pc \in [Slots \cup Cpus -> Places]
  /\ back \in [Slots \cup Cpus -> InCall \cup {"idle", "exit"}]

\* The locks, the count of cli()s and the interrupt flag of a CPU follow from
\* the place of its thread, which alone holds what its CPU holds.
CpuInv(c) ==
  /\ ptlock = c <=> pc[Thread(c)] \in InTable
  /\ tickslock = c <=> pc[Thread(c)] \in InTicks
  /\ ncli[c] = IF pc[Thread(c)] \in InTable \cup InTicks THEN 1 ELSE 0
  /\ pc[Thread(c)] \in InCall \cup {"idle"} => ints[c]
  /\ pc[Thread(c)] \in InTable \cup InTicks \cup InTrap => ~ints[c]
  /\ pc[Thread(c)] \in {"kids", "waiting", "due?", "doze", "dozing"} => intena[c]
  /\ pc[Thread(c)] \in {"wake", "yielding"} => ~intena[c]
  /\ cproc[c] = 0 => pc[c] \in {"idle", "scan", "tick", "wake", "trap"}
  /\ cproc[c] # 0 => pc[c] = "scan" /\ pc[cproc[c]] \in Places \ {"idle", "scan", "dead"}
  /\ back[c] = "idle"

\* What sched() has put away, and what the clock has interrupted.
Kept ==
  /\ \A s \in Slots : pc[s] \in {"waited", "woken"} => saved[s]
  /\ \A s \in Slots : pc[s] = "yielded" => ~saved[s]
  /\ \A s \in Slots : pc[s] \in Interrupted <=> back[s] # "idle"

OneCpu == \A c, d \in Cpus : c # d /\ cproc[c] # 0 => cproc[c] # cproc[d]

\* A process is on a CPU, at a switch, or nothing; and its state says so.
OnCpu(s) == \E c \in Cpus : cproc[c] = s
StateInv(s) ==
  /\ pc[s] = "dead" => state[s] \in {"UNUSED", "EMBRYO", "ZOMBIE"} /\ ~OnCpu(s)
  /\ pc[s] \in Switched => \/ state[s] = "RUNNING" /\ OnCpu(s)
                           \/ state[s] \in {"RUNNABLE", "SLEEPING"} /\ ~OnCpu(s)
  /\ pc[s] \notin Switched \cup {"dead"} => OnCpu(s)
  /\ pc[s] = "yielding" => state[s] = "RUNNABLE"
  /\ pc[s] \in {"waiting", "dozing"} => state[s] = "SLEEPING"
  /\ pc[s] = "dying" => state[s] = "ZOMBIE"
  /\ pc[s] \notin Switched \cup Leaving \cup {"dead"} => state[s] = "RUNNING"
  /\ state[s] = "SLEEPING" => \/ pc[s] \in {"waiting", "waited"} /\ chan[s] = s
                              \/ pc[s] \in {"dozing", "woken"} /\ chan[s] = Ticks

\* fork()'s slot is its own until it is published.
Embryos ==
  /\ \A s \in Slots : np[s] # 0 <=> Place(s) \in {"stack", "copy", "publish"}
  /\ \A s \in Slots : np[s] # 0 => state[np[s]] = "EMBRYO"
  /\ \A s, t \in Slots : np[s] # 0 /\ np[s] = np[t] => s = t
  /\ \A s \in Slots : Place(s) \in {"copy", "publish"} => kstack[np[s]]
  /\ \A s \in Slots : Place(s) = "publish" => parent[np[s]] = s

Stacks == \A s \in Slots : Live(s) \/ OnCpu(s) => kstack[s]

Family ==
  /\ \A s \in Slots : pid[s] < nextpid /\ parent[s] # s
  /\ Live(initproc) /\ parent[initproc] = 0
  /\ ProcessTree

Sleepers ==
  /\ NoZombieMissed
  /\ NoTickMissed
  /\ \A s \in Slots : pc[s] = "doze" => due[s]

IInv ==
  /\ Typed /\ OneCpu /\ Kept
  /\ \A c \in Cpus : CpuInv(c)
  /\ \A s \in Slots : StateInv(s)
  /\ Embryos /\ Stacks /\ Family /\ Sleepers
  /\ panicked # "sched"

-----------------------------------------------------------------------------
(* Threads.                                                                *)

\* The lowest slot of a nonempty set is in it, and no other is lower.
LEMMA LowestIsLeast ==
  ASSUME NEW S \in SUBSET Slots, S # {}
  PROVE  Lowest(S) \in S /\ \A s \in S : Lowest(S) <= s
<1> DEFINE R == OpToRel(<, Nat)
<1>1. IsWellFoundedOn(R, Nat)
  BY NatLessThanWellFounded
<1>2. S \subseteq Nat
  BY DEF Slots
<1>3. PICK s \in S : \A t \in S : ~(<<t, s>> \in R)
  <2> HIDE DEF R
  <2> QED BY <1>1, <1>2, WFMin
<1>4. \A t \in S : s <= t
  <2> SUFFICES ASSUME NEW t \in S PROVE s <= t
    OBVIOUS
  <2>1. ~(t < s)
    BY <1>2, <1>3 DEF OpToRel
  <2> QED BY <1>2, <2>1
<1> QED BY <1>4 DEF Lowest

\* A CPU runs one thread, and no thread runs on two CPUs.
LEMMA Threads ==
  ASSUME Typed, OneCpu, NEW c \in Cpus
  PROVE  /\ Thread(c) \in Slots \cup Cpus /\ c \notin Slots /\ c # 0
         /\ cproc[c] = 0 => Thread(c) = c
         /\ cproc[c] # 0 => Thread(c) = cproc[c] /\ cproc[c] \in Slots /\ Thread(c) # c
         /\ \A d \in Cpus \ {c} : Thread(d) # Thread(c) /\ Thread(d) # c /\ d # Thread(c)
         /\ \A s \in Slots : (s = Thread(c) <=> cproc[c] = s) /\ s # 0
<1>1. \A d \in Cpus : cproc[d] \in 0..NPROC /\ d \notin 0..NPROC + 1
  BY ProcAssumption DEF Typed, TypeOK
<1>2. NPROC \in Nat
  BY ProcAssumption
<1>3. \A d \in Cpus : d \notin Slots /\ d # 0 /\ d \notin 0..NPROC /\ 0 \notin Slots
  BY <1>1, <1>2 DEF Slots
<1>4. \A d \in Cpus : cproc[d] # 0 => cproc[d] \in Slots
  BY <1>1, <1>2 DEF Slots
<1> QED BY <1>1, <1>3, <1>4 DEF Thread, OneCpu

LEMMA SlotNumbers ==
  /\ \A m \in 0..NPROC : m # 0 => m \in Slots
  /\ \A s \in Slots : s \in 0..NPROC /\ s # 0 /\ s # Ticks
  /\ 0 \in 0..NPROC /\ initproc \in Slots /\ initproc # 0
BY ProcAssumption DEF Slots, initproc, Ticks

LEMMA Types ==
  ASSUME Typed
  PROVE  /\ state \in [Slots -> States]
         /\ pid \in [Slots -> 0..MaxPid] /\ nextpid \in 1..MaxPid + 1
         /\ parent \in [Slots -> 0..NPROC]
         /\ chan \in [Slots -> 0..Ticks]
         /\ killed \in [Slots -> BOOLEAN] /\ kstack \in [Slots -> BOOLEAN]
         /\ ptlock \in Cpus \cup {NoCpu} /\ tickslock \in Cpus \cup {NoCpu}
         /\ cproc \in [Cpus -> 0..NPROC] /\ scan \in [Cpus -> 1..NPROC + 1]
         /\ ints \in [Cpus -> BOOLEAN] /\ intena \in [Cpus -> BOOLEAN]
         /\ ncli \in [Cpus -> 0..2]
         /\ saved \in [Slots -> BOOLEAN] /\ due \in [Slots -> BOOLEAN]
         /\ np \in [Slots -> 0..NPROC]
         /\ pc \in [Slots \cup Cpus -> Places]
         /\ back \in [Slots \cup Cpus -> InCall \cup {"idle", "exit"}]
         /\ NoCpu \notin Cpus
BY ProcAssumption DEF Typed, TypeOK

-----------------------------------------------------------------------------
(* Frames: what a step of one CPU leaves to the others.                    *)

\* A step of c changes nothing of another CPU's, nor of the thread on it.
Apart(c) ==
  \A d \in Cpus \ {c} :
    /\ cproc'[d] = cproc[d] /\ pc'[Thread(d)] = pc[Thread(d)] /\ pc'[d] = pc[d]
    /\ ints'[d] = ints[d] /\ ncli'[d] = ncli[d] /\ intena'[d] = intena[d]
    /\ (ptlock' = d <=> ptlock = d) /\ (tickslock' = d <=> tickslock = d)
    /\ back'[d] = back[d]

LEMMA OthersKept ==
  ASSUME NEW c \in Cpus, \A d \in Cpus : CpuInv(d), Apart(c), CpuInv(c)'
  PROVE  \A d \in Cpus : CpuInv(d)'
<1> SUFFICES ASSUME NEW d \in Cpus \ {c} PROVE CpuInv(d)'
  OBVIOUS
<1>1. Thread(d)' = Thread(d)
  BY DEF Apart, Thread
<1>2. /\ cproc'[d] = cproc[d] /\ pc'[Thread(d)] = pc[Thread(d)] /\ pc'[d] = pc[d]
      /\ ints'[d] = ints[d] /\ ncli'[d] = ncli[d] /\ intena'[d] = intena[d]
      /\ (ptlock' = d <=> ptlock = d) /\ (tickslock' = d <=> tickslock = d)
      /\ back'[d] = back[d]
  BY DEF Apart
<1>3. cproc[d] # 0 => pc'[cproc[d]] = pc[cproc[d]]
  BY <1>2 DEF Thread
<1>4. CpuInv(d)
  OBVIOUS
<1> QED BY <1>1, <1>2, <1>3, <1>4 DEF CpuInv

\* A process on a CPU is RUNNING until it leaves.
LEMMA OnItsCpu ==
  ASSUME IInv, NEW c \in Cpus, Thread(c) \in Slots
  PROVE  /\ cproc[c] = Thread(c) /\ OnCpu(Thread(c)) /\ pc[Thread(c)] # "dead"
         /\ pc[Thread(c)] \notin Leaving => state[Thread(c)] = "RUNNING"
         /\ state[Thread(c)] \in {"RUNNING", "RUNNABLE", "SLEEPING", "ZOMBIE"}
<1> DEFINE s == Thread(c)
<1>1. cproc[c] = s
  BY Threads DEF IInv
<1>2. OnCpu(s)
  BY <1>1 DEF OnCpu
<1>3. StateInv(s) /\ pc[s] \in Places
  BY Types DEF IInv
<1> HIDE DEF s
<1>4. pc[s] # "dead" /\ (pc[s] \notin Leaving => state[s] = "RUNNING")
  BY <1>2, <1>3 DEF StateInv, Leaving
<1>5. pc[s] \in Leaving => state[s] \in {"RUNNABLE", "SLEEPING", "ZOMBIE"}
  BY <1>3 DEF StateInv, Leaving
<1> QED BY <1>1, <1>2, <1>4, <1>5 DEF s

\* Where a process is RUNNING, and a scheduler is at work.
Awake == Clear \cup InTicks \cup {"kids", "scan"}
Forking == {"stack", "copy", "publish"}

LEMMA AwakeIs ==
  /\ Awake \cap (Switched \cup Leaving \cup {"dead"}) = {}
  /\ Awake \subseteq Places
BY DEF Awake, Switched, Leaving, Clear, InCall, InTrap, InTicks, Places, InTable

\* A step that leaves the states and the family alone: what is left to show is
\* what its CPU holds and what it remembers of its own thread.
Quiet(c, x) ==
  /\ UNCHANGED <<state, pid, parent, kstack, nextpid, cproc, np, panicked>>
  /\ pc' = [pc EXCEPT ![Thread(c)] = x]
  /\ pc[Thread(c)] \notin Leaving \cup {"wake"}
  /\ \A s \in Slots : s # Thread(c) =>
       back'[s] = back[s] /\ saved'[s] = saved[s] /\ chan'[s] = chan[s]
  /\ Apart(c)
  /\ x = "wake" \/ \A s \in Slots : due[s] => due'[s] \/ s = Thread(c)

\* What the thread itself keeps.
Own(s, x) ==
  /\ x \in Interrupted <=> back'[s] # "idle"
  /\ LET now == IF back'[s] = "idle" THEN x ELSE back'[s] IN
       now = Place(s) \/ {now, Place(s)} \cap Forking = {}
  /\ x = "doze" => due'[s]

LEMMA QuietKeeps ==
  ASSUME IInv, NEW c \in Cpus, NEW x \in Awake, Quiet(c, x), Typed', CpuInv(c)',
         Thread(c) \in Slots => Own(Thread(c), x),
         \A s \in Slots \ {Thread(c)} : pc[s] = "doze" => due'[s]
  PROVE  IInv'
<1> DEFINE t == Thread(c)
<1>0. t \in Slots \cup Cpus /\ pc \in [Slots \cup Cpus -> Places]
  BY Threads, Types DEF IInv
<1>1. /\ state' = state /\ pid' = pid /\ parent' = parent /\ kstack' = kstack
      /\ nextpid' = nextpid /\ cproc' = cproc /\ np' = np /\ panicked' = panicked
      /\ pc'[t] = x /\ pc[t] \notin Leaving \cup {"wake"}
      /\ \A s \in Slots \ {t} : /\ back'[s] = back[s] /\ saved'[s] = saved[s]
                                /\ chan'[s] = chan[s] /\ pc'[s] = pc[s]
  BY <1>0 DEF Quiet
<1> HIDE DEF t
<1>2. \A s \in Slots : OnCpu(s)' <=> OnCpu(s)
  BY <1>1 DEF OnCpu
<1>3. t \in Slots => state[t] = "RUNNING" /\ OnCpu(t)
  BY <1>1, OnItsCpu DEF t
<1>4. x \notin Switched \cup Leaving \cup {"dead"}
  BY AwakeIs
<1>5. \A d \in Cpus : CpuInv(d)'
  BY OthersKept DEF IInv, Quiet
<1>6. ASSUME NEW s \in Slots PROVE StateInv(s)'
  <2>1. StateInv(s)
    BY DEF IInv
  <2>2. CASE s = t
    BY <1>1, <1>2, <1>3, <1>4, <2>2 DEF StateInv, Switched, Leaving
  <2>3. CASE s # t
    BY <1>1, <1>2, <2>1, <2>3 DEF StateInv
  <2> QED BY <2>2, <2>3
<1>7. Kept'
  <2>1. Kept /\ (t \in Slots => (x \in Interrupted <=> back'[t] # "idle"))
    BY DEF IInv, Own, t
  <2>2. x \notin {"waited", "woken", "yielded"}
    BY <1>4 DEF Switched
  <2> QED BY <1>1, <2>1, <2>2 DEF Kept
<1>8. Embryos'
  <2>1. \A s \in Slots : \/ Place(s)' = Place(s)
                         \/ Place(s)' \notin Forking /\ Place(s) \notin Forking
    <3> SUFFICES ASSUME NEW s \in Slots
                 PROVE  \/ Place(s)' = Place(s)
                        \/ Place(s)' \notin Forking /\ Place(s) \notin Forking
      OBVIOUS
    <3>1. CASE s # t
      BY <1>1, <3>1 DEF Place
    <3>2. CASE s = t
      <4>1. Own(s, x)
        BY <3>2 DEF t
      <4>2. Place(s)' = IF back'[s] = "idle" THEN x ELSE back'[s]
        BY <1>1, <3>2 DEF Place
      <4> QED BY <4>1, <4>2 DEF Own
    <3> QED BY <3>1, <3>2
  <2> QED BY <1>1, <2>1 DEF IInv, Embryos, Forking
<1>9. Stacks' /\ Family' /\ OneCpu' /\ panicked' # "sched"
  BY <1>1, <1>2 DEF IInv, Stacks, Family, OneCpu, ProcessTree, Live
<1>10. NoZombieMissed'
  BY <1>1, <1>3 DEF IInv, Sleepers, NoZombieMissed, Zombies, Children
<1>11. NoTickMissed'
  <2>1. \A d \in Cpus : Thread(d)' = Thread(d)
    BY <1>1 DEF Thread
  <2>2. CASE x = "wake"
    BY <1>1, <2>1, <2>2 DEF NoTickMissed, t
  <2>3. CASE x # "wake"
    <3>1. SUFFICES ASSUME NEW s \in Slots, state[s] = "SLEEPING", chan'[s] = Ticks
                   PROVE  due'[s] \/ \E d \in Cpus : pc'[Thread(d)] = "wake"
      BY <1>1, <2>1 DEF NoTickMissed
    <3>2. s # t /\ chan[s] = Ticks
      BY <1>1, <1>3, <3>1
    <3>3. due[s] \/ \E d \in Cpus : pc[Thread(d)] = "wake"
      BY <3>1, <3>2 DEF IInv, Sleepers, NoTickMissed
    <3>4. CASE due[s]
      BY <2>3, <3>2, <3>4 DEF Quiet, t
    <3>5. ASSUME NEW d \in Cpus, pc[Thread(d)] = "wake" PROVE pc'[Thread(d)] = "wake"
      <4>1. d # c
        BY <1>1, <3>5 DEF t
      <4> QED BY <3>5, <4>1 DEF Quiet, Apart
    <3> QED BY <3>3, <3>4, <3>5
  <2> QED BY <2>2, <2>3
<1>12. \A s \in Slots : pc'[s] = "doze" => due'[s]
  <2>1. t \in Slots /\ x = "doze" => due'[t]
    BY DEF Own, t
  <2>2. \A s \in Slots \ {t} : pc[s] = "doze" => due'[s]
    BY DEF t
  <2> QED BY <1>1, <2>1, <2>2
<1> QED BY <1>5, <1>6, <1>7, <1>8, <1>9, <1>10, <1>11, <1>12 DEF IInv, Sleepers

-----------------------------------------------------------------------------
(* The quiet steps.                                                        *)

\* What the proofs of the quiet steps start from.
LEMMA Start ==
  ASSUME IInv, NEW c \in Cpus
  PROVE  /\ CpuInv(c) /\ pc[Thread(c)] \in Places \ {"dead"}
         /\ Thread(c) \in Slots \cup Cpus /\ c \notin Slots /\ c \in Slots \cup Cpus
         /\ cproc[c] = 0 => Thread(c) = c /\ Thread(c) \notin Slots
                            /\ pc[c] \in {"idle", "scan", "tick", "wake", "trap"}
         /\ cproc[c] # 0 => Thread(c) = cproc[c] /\ cproc[c] \in Slots /\ Thread(c) # c
                            /\ pc[c] = "scan" /\ pc[cproc[c]] \notin {"idle", "scan"}
         /\ \A d \in Cpus \ {c} : Thread(d) # Thread(c) /\ Thread(d) # c /\ d # Thread(c)
                                  /\ d # NoCpu /\ Thread(d) \in Slots \cup Cpus
         /\ c # NoCpu
         /\ Thread(c) \in Slots => (pc[Thread(c)] \in Interrupted <=> back[Thread(c)] # "idle")
<1>1. CpuInv(c) /\ Typed /\ OneCpu /\ Kept
  BY DEF IInv
<1>2. pc[Thread(c)] \in Places
  BY <1>1, Threads, Types
<1>3. /\ cproc[c] = 0 => pc[c] \in {"idle", "scan", "tick", "wake", "trap"}
      /\ cproc[c] # 0 => pc[c] = "scan" /\ pc[cproc[c]] \notin {"idle", "scan", "dead"}
  BY <1>1 DEF CpuInv
<1>4. /\ Thread(c) \in Slots \cup Cpus /\ c \notin Slots
      /\ cproc[c] = 0 => Thread(c) = c
      /\ cproc[c] # 0 => Thread(c) = cproc[c] /\ cproc[c] \in Slots /\ Thread(c) # c
      /\ \A d \in Cpus \ {c} : Thread(d) # Thread(c) /\ Thread(d) # c /\ d # Thread(c)
  BY <1>1, Threads
<1>5. c # NoCpu /\ \A d \in Cpus : Thread(d) \in Slots \cup Cpus /\ d # NoCpu
  BY <1>1, Threads, ProcAssumption
<1>6. pc[Thread(c)] # "dead"
  BY <1>3, <1>4
<1>7. Thread(c) \in Slots => (pc[Thread(c)] \in Interrupted <=> back[Thread(c)] # "idle")
  BY <1>1 DEF Kept
<1> QED BY <1>1, <1>2, <1>3, <1>4, <1>5, <1>6, <1>7

\* What a quiet step of c does to the flags, to the locks, and to what threads keep.
Flags(c) ==
  /\ ints' \in [Cpus -> BOOLEAN] /\ intena' \in [Cpus -> BOOLEAN]
  /\ ncli' \in [Cpus -> 0..2] /\ scan' \in [Cpus -> 1..NPROC + 1]
  /\ \A d \in Cpus \ {c} : ints'[d] = ints[d] /\ ncli'[d] = ncli[d] /\ intena'[d] = intena[d]

Locks(c) ==
  /\ ptlock' = ptlock \/ {ptlock, ptlock'} = {c, NoCpu}
  /\ tickslock' = tickslock \/ {tickslock, tickslock'} = {c, NoCpu}

Memory(c) ==
  /\ chan' \in [Slots -> 0..Ticks] /\ saved' \in [Slots -> BOOLEAN]
  /\ due' \in [Slots -> BOOLEAN]
  /\ back' \in [Slots \cup Cpus -> InCall \cup {"idle", "exit"}]
  /\ \A t \in (Slots \cup Cpus) \ {Thread(c)} : back'[t] = back[t]
  /\ \A s \in Slots \ {Thread(c)} : saved'[s] = saved[s] /\ chan'[s] = chan[s]

LEMMA LocksTyped ==
  ASSUME Typed, NEW c \in Cpus, Locks(c)
  PROVE  ptlock' \in Cpus \cup {NoCpu} /\ tickslock' \in Cpus \cup {NoCpu}
BY Types DEF Locks

LEMMA ApartIf ==
  ASSUME IInv, NEW c \in Cpus, NEW x \in Places, pc' = [pc EXCEPT ![Thread(c)] = x],
         cproc' = cproc, Flags(c), Locks(c),
         \A t \in (Slots \cup Cpus) \ {Thread(c)} : back'[t] = back[t]
  PROVE  Apart(c)
<1> SUFFICES ASSUME NEW d \in Cpus \ {c}
             PROVE  /\ cproc'[d] = cproc[d] /\ pc'[Thread(d)] = pc[Thread(d)] /\ pc'[d] = pc[d]
                    /\ ints'[d] = ints[d] /\ ncli'[d] = ncli[d] /\ intena'[d] = intena[d]
                    /\ (ptlock' = d <=> ptlock = d) /\ (tickslock' = d <=> tickslock = d)
                    /\ back'[d] = back[d]
  BY DEF Apart
<1>1. Thread(d) # Thread(c) /\ d # Thread(c) /\ d # NoCpu /\ Thread(d) \in Slots \cup Cpus
  BY Start
<1>2. pc'[Thread(d)] = pc[Thread(d)] /\ pc'[d] = pc[d]
  BY <1>1, Types DEF IInv
<1>3. (ptlock' = d <=> ptlock = d) /\ (tickslock' = d <=> tickslock = d)
  BY <1>1 DEF Locks
<1> QED BY <1>1, <1>2, <1>3 DEF Flags

LEMMA QuietStep ==
  ASSUME IInv, NEW c \in Cpus, NEW x \in Awake,
         pc' = [pc EXCEPT ![Thread(c)] = x], pc[Thread(c)] \notin Leaving \cup {"wake"},
         UNCHANGED <<state, pid, parent, killed, kstack, nextpid, cproc, np, panicked>>,
         Flags(c), Locks(c), Memory(c), CpuInv(c)',
         Thread(c) \in Slots => Own(Thread(c), x),
         \/ \A s \in Slots \ {Thread(c)} : due'[s] = due[s]
         \/ x = "wake" /\ \A s \in Slots \ {Thread(c)} : pc[s] = "doze" => due'[s]
  PROVE  IInv'
<1>1. Typed /\ x \in Places
  BY AwakeIs DEF IInv
<1>2. pc' \in [Slots \cup Cpus -> Places]
  BY <1>1, Types
<1>3. ptlock' \in Cpus \cup {NoCpu} /\ tickslock' \in Cpus \cup {NoCpu}
  BY <1>1, LocksTyped
<1>4. Typed'
  BY <1>1, <1>2, <1>3 DEF Typed, TypeOK, Flags, Memory
<1>5. Apart(c)
  BY <1>1, ApartIf DEF Memory
<1>6. \A s \in Slots \ {Thread(c)} : pc[s] = "doze" => due'[s]
  BY DEF IInv, Sleepers
<1>7. Quiet(c, x)
  BY <1>5, <1>6 DEF Quiet, Memory
<1> QED BY <1>4, <1>6, <1>7, QuietKeeps DEF Quiet

\* The flags after acquire(), after release(), and when nothing touches them.
LEMMA FlagsKept ==
  ASSUME Typed, NEW c \in Cpus, scan' = scan,
         \/ UNCHANGED cli
         \/ Pushcli(c) /\ ncli[c] = 0
         \/ ncli[c] = 1 /\ \E on \in BOOLEAN : Popcli(c, on)
  PROVE  Flags(c)
<1>1. /\ ints \in [Cpus -> BOOLEAN] /\ intena \in [Cpus -> BOOLEAN]
      /\ ncli \in [Cpus -> 0..2] /\ scan \in [Cpus -> 1..NPROC + 1]
  BY Types
<1>2. CASE UNCHANGED cli
  BY <1>1, <1>2 DEF Flags, cli
<1>3. CASE Pushcli(c) /\ ncli[c] = 0
  BY <1>1, <1>3 DEF Flags, Pushcli
<1>4. ASSUME NEW on \in BOOLEAN, Popcli(c, on), ncli[c] = 1 PROVE Flags(c)
  BY <1>1, <1>4 DEF Flags, Popcli
<1> QED BY <1>2, <1>3, <1>4

LEMMA MemoryKept ==
  ASSUME Typed, NEW c \in Cpus, UNCHANGED <<chan, saved, due, back>>
  PROVE  Memory(c)
BY Types DEF Memory

LEMMA LookKeeps ==
  ASSUME IInv, NEW c \in Cpus, Look(c)
  PROVE  IInv'
<1> DEFINE t == Thread(c)
<1>1. /\ pc[t] = "idle" /\ pc' = [pc EXCEPT ![t] = "scan"]
      /\ ptlock = NoCpu /\ ptlock' = c /\ Pushcli(c)
      /\ UNCHANGED <<table, tickslock, cproc, scan, local, panicked>>
  BY DEF Look, Goto
<1>2. cproc[c] = 0 /\ t = c /\ t \notin Slots
  BY <1>1, Start
<1>3. CpuInv(c) /\ ncli[c] = 0 /\ Typed /\ Thread(c)' = t
  BY <1>1, Start DEF IInv, Thread, t, CpuInv, InTable, InTicks, InCall, InTrap, Switched, Leaving, local
<1>4. Flags(c)
  BY <1>1, <1>3, FlagsKept
<1>5. Locks(c)
  BY <1>1, <1>3, Start DEF Locks
<1>6. Memory(c)
  BY <1>1, <1>3, MemoryKept DEF table, local
<1>7. CpuInv(c)'
  BY <1>1, <1>2, <1>3, Start, Types DEF CpuInv, InTable, InTicks, InCall, InTrap, Switched, Leaving, Places, Clear, local, cli, Pushcli, Popcli
<1>8. t \in Slots => Own(t, "scan")
  BY <1>2
<1> QED BY <1>1, <1>4, <1>5, <1>6, <1>7, <1>8, QuietStep
     DEF table, local, Awake, Clear, InTable, InTicks, InCall, InTrap, Switched, Leaving

LEMMA UnlookKeeps ==
  ASSUME IInv, NEW c \in Cpus, Unlook(c)
  PROVE  IInv'
<1> DEFINE t == Thread(c)
<1>1. /\ pc[t] = "scan" /\ pc' = [pc EXCEPT ![t] = "idle"]
      /\ ptlock' = NoCpu /\ ncli' = [ncli EXCEPT ![c] = @ - 1]
      /\ ints' = [ints EXCEPT ![c] = TRUE] /\ intena' = [intena EXCEPT ![c] = FALSE]
      /\ scan' = [scan EXCEPT ![c] = 1]
      /\ UNCHANGED <<table, tickslock, cproc, local, panicked>>
  BY DEF Unlook, Goto
<1>2. cproc[c] = 0 /\ t = c /\ t \notin Slots
  BY <1>1, Start
<1>3. CpuInv(c) /\ ncli[c] = 1 /\ Typed /\ Thread(c)' = t
  BY <1>1, Start DEF IInv, Thread, t, CpuInv, InTable, InTicks, InCall, InTrap, Switched, Leaving, local
<1>4. Flags(c)
  BY <1>1, <1>3, Types, ProcAssumption DEF Flags
<1>5. Locks(c)
  BY <1>1, <1>3, Start DEF Locks, CpuInv, InTable, InTicks, InCall, InTrap, Switched, Leaving
<1>6. Memory(c)
  BY <1>1, <1>3, MemoryKept DEF table, local
<1>7. CpuInv(c)'
  BY <1>1, <1>2, <1>3, Start, Types DEF CpuInv, InTable, InTicks, InCall, InTrap, Switched, Leaving, Places, Clear, local, cli, Pushcli, Popcli
<1>8. t \in Slots => Own(t, "idle")
  BY <1>2
<1> QED BY <1>1, <1>4, <1>5, <1>6, <1>7, <1>8, QuietStep
     DEF table, local, Awake, Clear, InTable, InTicks, InCall, InTrap, Switched, Leaving

LEMMA ForkretKeeps ==
  ASSUME IInv, NEW c \in Cpus, Forkret(c)
  PROVE  IInv'
<1> DEFINE t == Thread(c)
<1>1. /\ pc[t] = "forkret" /\ pc' = [pc EXCEPT ![t] = "user"]
      /\ ptlock' = NoCpu /\ ncli' = [ncli EXCEPT ![c] = @ - 1]
      /\ ints' = [ints EXCEPT ![c] = TRUE] /\ intena' = [intena EXCEPT ![c] = FALSE]
      /\ UNCHANGED <<table, tickslock, cproc, scan, local, panicked>>
  BY DEF Forkret, Goto
<1>2. t \in Slots /\ cproc[c] = t /\ t # c /\ pc[c] = "scan"
  BY <1>1, Start
<1>3. CpuInv(c) /\ ncli[c] = 1 /\ Typed /\ Thread(c)' = t
  BY <1>1, Start DEF IInv, Thread, t, CpuInv, InTable, InTicks, InCall, InTrap, Switched, Leaving, local
<1>4. Flags(c)
  BY <1>1, <1>3, Types DEF Flags
<1>5. Locks(c)
  BY <1>1, <1>3, Start DEF Locks, CpuInv, InTable, InTicks, InCall, InTrap, Switched, Leaving
<1>6. Memory(c)
  BY <1>1, <1>3, MemoryKept DEF table, local
<1>7. CpuInv(c)'
  BY <1>1, <1>2, <1>3, Start, Types DEF CpuInv, InTable, InTicks, InCall, InTrap, Switched, Leaving, Places, Clear, local, cli, Pushcli, Popcli
<1>8. t \in Slots => Own(t, "user")
  BY <1>1, <1>2, Start DEF Own, Place, Forking, Interrupted, InTrap, local
<1> QED BY <1>1, <1>4, <1>5, <1>6, <1>7, <1>8, QuietStep
     DEF table, local, Awake, Clear, InTable, InTicks, InCall, InTrap, Switched, Leaving

LEMMA WaitKeeps ==
  ASSUME IInv, NEW c \in Cpus, Wait(c)
  PROVE  IInv'
<1> DEFINE t == Thread(c)
<1>1. /\ pc[t] = "wait" /\ pc' = [pc EXCEPT ![t] = "kids"]
      /\ ptlock = NoCpu /\ ptlock' = c /\ Pushcli(c)
      /\ UNCHANGED <<table, tickslock, cproc, scan, local, panicked>>
  BY DEF Wait, Goto
<1>2. t \in Slots /\ cproc[c] = t /\ t # c /\ pc[c] = "scan"
  BY <1>1, Start
<1>3. CpuInv(c) /\ ncli[c] = 0 /\ Typed /\ Thread(c)' = t
  BY <1>1, Start DEF IInv, Thread, t, CpuInv, InTable, InTicks, InCall, InTrap, Switched, Leaving, local
<1>4. Flags(c)
  BY <1>1, <1>3, FlagsKept
<1>5. Locks(c)
  BY <1>1, <1>3, Start DEF Locks
<1>6. Memory(c)
  BY <1>1, <1>3, MemoryKept DEF table, local
<1>7. CpuInv(c)'
  BY <1>1, <1>2, <1>3, Start, Types DEF CpuInv, InTable, InTicks, InCall, InTrap, Switched, Leaving, Places, Clear, local, cli, Pushcli, Popcli
<1>8. t \in Slots => Own(t, "kids")
  BY <1>1, <1>2, Start DEF Own, Place, Forking, Interrupted, InTrap, local
<1> QED BY <1>1, <1>4, <1>5, <1>6, <1>7, <1>8, QuietStep
     DEF table, local, Awake, Clear, InTable, InTicks, InCall, InTrap, Switched, Leaving

LEMMA WaitFailsKeeps ==
  ASSUME IInv, NEW c \in Cpus, WaitFails(c)
  PROVE  IInv'
<1> DEFINE t == Thread(c)
<1>1. /\ pc[t] = "kids" /\ pc' = [pc EXCEPT ![t] = "ret"]
      /\ ptlock' = NoCpu /\ Popcli(c, intena[c])
      /\ UNCHANGED <<table, tickslock, cproc, scan, local, panicked>>
  BY DEF WaitFails, Goto
<1>2. t \in Slots /\ cproc[c] = t /\ t # c /\ pc[c] = "scan"
  BY <1>1, Start
<1>3. CpuInv(c) /\ ncli[c] = 1 /\ Typed /\ Thread(c)' = t
  BY <1>1, Start DEF IInv, Thread, t, CpuInv, InTable, InTicks, InCall, InTrap, Switched, Leaving, local
<1>4. Flags(c)
  BY <1>1, <1>3, FlagsKept, Types
<1>5. Locks(c)
  BY <1>1, <1>3, Start DEF Locks, CpuInv, InTable, InTicks, InCall, InTrap, Switched, Leaving
<1>6. Memory(c)
  BY <1>1, <1>3, MemoryKept DEF table, local
<1>7. CpuInv(c)'
  BY <1>1, <1>2, <1>3, Start, Types DEF CpuInv, InTable, InTicks, InCall, InTrap, Switched, Leaving, Places, Clear, local, cli, Pushcli, Popcli
<1>8. t \in Slots => Own(t, "ret")
  BY <1>1, <1>2, Start DEF Own, Place, Forking, Interrupted, InTrap, local
<1> QED BY <1>1, <1>4, <1>5, <1>6, <1>7, <1>8, QuietStep
     DEF table, local, Awake, Clear, InTable, InTicks, InCall, InTrap, Switched, Leaving

LEMMA SyscallKeeps ==
  ASSUME IInv, NEW c \in Cpus, Syscall(c)
  PROVE  IInv'
<1> DEFINE t == Thread(c)
<1>0. PICK x \in {"fork", "exit", "wait", "kill", "sleep"} : Goto(c, "user", x)
  BY DEF Syscall
<1>1. /\ pc[t] = "user" /\ pc' = [pc EXCEPT ![t] = x]
      /\ UNCHANGED <<table, ptlock, tickslock, cproc, scan, cli, local, panicked>>
  BY <1>0 DEF Syscall, Goto
<1>2. t \in Slots /\ cproc[c] = t /\ t # c /\ pc[c] = "scan"
  BY <1>1, Start
<1>3. CpuInv(c) /\ ncli[c] = 0 /\ Typed /\ Thread(c)' = t
  BY <1>1, Start DEF IInv, Thread, t, CpuInv, InTable, InTicks, InCall, InTrap, Switched, Leaving, local
<1>4. Flags(c)
  BY <1>1, <1>3, FlagsKept
<1>5. Locks(c)
  BY <1>1, <1>3, Start DEF Locks
<1>6. Memory(c)
  BY <1>1, <1>3, MemoryKept DEF table, local
<1>7. CpuInv(c)'
  BY <1>1, <1>2, <1>3, Start, Types DEF CpuInv, InTable, InTicks, InCall, InTrap, Switched, Leaving, Places, Clear, local, cli, Pushcli, Popcli
<1>8. t \in Slots => Own(t, x)
  BY <1>1, <1>2, Start DEF Own, Place, Forking, Interrupted, InTrap, local
<1> QED BY <1>1, <1>4, <1>5, <1>6, <1>7, <1>8, QuietStep
     DEF table, local, Awake, Clear, InTable, InTicks, InCall, InTrap, Switched, Leaving

LEMMA SysretKeeps ==
  ASSUME IInv, NEW c \in Cpus, Sysret(c)
  PROVE  IInv'
<1> DEFINE t == Thread(c)
<1>0. PICK x \in {"exit", "user"} : Goto(c, "ret", x)
  BY DEF Sysret
<1>1. /\ pc[t] = "ret" /\ pc' = [pc EXCEPT ![t] = x]
      /\ UNCHANGED <<table, ptlock, tickslock, cproc, scan, cli, local, panicked>>
  BY <1>0 DEF Sysret, Goto
<1>2. t \in Slots /\ cproc[c] = t /\ t # c /\ pc[c] = "scan"
  BY <1>1, Start
<1>3. CpuInv(c) /\ ncli[c] = 0 /\ Typed /\ Thread(c)' = t
  BY <1>1, Start DEF IInv, Thread, t, CpuInv, InTable, InTicks, InCall, InTrap, Switched, Leaving, local
<1>4. Flags(c)
  BY <1>1, <1>3, FlagsKept
<1>5. Locks(c)
  BY <1>1, <1>3, Start DEF Locks
<1>6. Memory(c)
  BY <1>1, <1>3, MemoryKept DEF table, local
<1>7. CpuInv(c)'
  BY <1>1, <1>2, <1>3, Start, Types DEF CpuInv, InTable, InTicks, InCall, InTrap, Switched, Leaving, Places, Clear, local, cli, Pushcli, Popcli
<1>8. t \in Slots => Own(t, x)
  BY <1>1, <1>2, Start DEF Own, Place, Forking, Interrupted, InTrap, local
<1> QED BY <1>1, <1>4, <1>5, <1>6, <1>7, <1>8, QuietStep
     DEF table, local, Awake, Clear, InTable, InTicks, InCall, InTrap, Switched, Leaving

LEMMA YieldedKeeps ==
  ASSUME IInv, NEW c \in Cpus, Yielded(c)
  PROVE  IInv'
<1> DEFINE t == Thread(c)
<1>1. /\ pc[t] = "yielded" /\ pc' = [pc EXCEPT ![t] = "resume"]
      /\ ptlock' = NoCpu /\ Popcli(c, saved[cproc[c]])
      /\ saved' = [saved EXCEPT ![cproc[c]] = FALSE]
      /\ UNCHANGED <<table, tickslock, cproc, scan, back, np, due, panicked>>
  BY DEF Yielded, Goto
<1>2. t \in Slots /\ cproc[c] = t /\ t # c /\ pc[c] = "scan" /\ ~saved[t]
  BY <1>1, Start DEF IInv, Kept
<1>3. CpuInv(c) /\ ncli[c] = 1 /\ Typed /\ Thread(c)' = t
  BY <1>1, Start DEF IInv, Thread, t, CpuInv, InTable, InTicks, InCall, InTrap, Switched, Leaving, local
<1>4. Flags(c)
  BY <1>1, <1>3, <1>2, FlagsKept, Types
<1>5. Locks(c)
  BY <1>1, <1>3, Start DEF Locks, CpuInv, InTable, InTicks, InCall, InTrap, Switched, Leaving
<1>6. Memory(c)
  BY <1>1, <1>3, <1>2, Types DEF Memory, table
<1>7. CpuInv(c)'
  BY <1>1, <1>2, <1>3, Start, Types DEF CpuInv, InTable, InTicks, InCall, InTrap, Switched, Leaving, Places, Clear, local, cli, Pushcli, Popcli
<1>8. t \in Slots => Own(t, "resume")
  BY <1>1, <1>2, Start DEF Own, Place, Forking, Interrupted, InTrap, local
<1> QED BY <1>1, <1>4, <1>5, <1>6, <1>7, <1>8, QuietStep
     DEF table, local, Awake, Clear, InTable, InTicks, InCall, InTrap, Switched, Leaving

LEMMA WaitedKeeps ==
  ASSUME IInv, NEW c \in Cpus, Waited(c)
  PROVE  IInv'
<1> DEFINE t == Thread(c)
<1>1. /\ pc[t] = "waited" /\ pc' = [pc EXCEPT ![t] = "kids"]
      /\ chan' = [chan EXCEPT ![t] = 0]
      /\ intena' = [intena EXCEPT ![c] = saved[t]]
      /\ saved' = [saved EXCEPT ![t] = FALSE]
      /\ UNCHANGED <<state, pid, parent, killed, kstack, nextpid, ptlock, tickslock,
                     cproc, scan, ints, ncli, back, np, due, panicked>>
  BY DEF Waited, Goto, Thread
<1>2. t \in Slots /\ cproc[c] = t /\ t # c /\ pc[c] = "scan" /\ saved[t]
  BY <1>1, Start DEF IInv, Kept
<1>3. CpuInv(c) /\ ncli[c] = 1 /\ Typed /\ Thread(c)' = t
  BY <1>1, Start DEF IInv, Thread, t, CpuInv, InTable, InTicks, InCall, InTrap, Switched, Leaving, local
<1>4. Flags(c)
  BY <1>1, <1>3, <1>2, Types DEF Flags
<1>5. Locks(c)
  BY <1>1, <1>3, Start DEF Locks
<1>6. Memory(c)
  BY <1>1, <1>3, <1>2, Types, ProcAssumption DEF Memory, Ticks
<1>7. CpuInv(c)'
  BY <1>1, <1>2, <1>3, Start, Types DEF CpuInv, InTable, InTicks, InCall, InTrap, Switched, Leaving, Places, Clear, local, cli, Pushcli, Popcli
<1>8. t \in Slots => Own(t, "kids")
  BY <1>1, <1>2, Start DEF Own, Place, Forking, Interrupted, InTrap, local
<1> QED BY <1>1, <1>4, <1>5, <1>6, <1>7, <1>8, QuietStep
     DEF table, local, Awake, Clear, InTable, InTicks, InCall, InTrap, Switched, Leaving

LEMMA WakesKeeps ==
  ASSUME IInv, NEW c \in Cpus, Wakes(c)
  PROVE  IInv'
<1> DEFINE t == Thread(c)
<1>1. /\ pc[t] = "woken" /\ pc' = [pc EXCEPT ![t] = "relock"]
      /\ chan' = [chan EXCEPT ![t] = 0]
      /\ ptlock' = NoCpu /\ Popcli(c, saved[t])
      /\ saved' = [saved EXCEPT ![t] = FALSE]
      /\ UNCHANGED <<state, pid, parent, killed, kstack, nextpid, tickslock, cproc,
                     scan, back, np, due, panicked>>
  BY DEF Wakes, Goto, Thread
<1>2. t \in Slots /\ cproc[c] = t /\ t # c /\ pc[c] = "scan" /\ saved[t]
  BY <1>1, Start DEF IInv, Kept
<1>3. CpuInv(c) /\ ncli[c] = 1 /\ Typed /\ Thread(c)' = t
  BY <1>1, Start DEF IInv, Thread, t, CpuInv, InTable, InTicks, InCall, InTrap, Switched, Leaving, local
<1>4. Flags(c)
  BY <1>1, <1>3, <1>2, FlagsKept, Types
<1>5. Locks(c)
  BY <1>1, <1>3, Start DEF Locks, CpuInv, InTable, InTicks, InCall, InTrap, Switched, Leaving
<1>6. Memory(c)
  BY <1>1, <1>3, <1>2, Types, ProcAssumption DEF Memory, Ticks
<1>7. CpuInv(c)'
  BY <1>1, <1>2, <1>3, Start, Types DEF CpuInv, InTable, InTicks, InCall, InTrap, Switched, Leaving, Places, Clear, local, cli, Pushcli, Popcli
<1>8. t \in Slots => Own(t, "relock")
  BY <1>1, <1>2, Start DEF Own, Place, Forking, Interrupted, InTrap, local
<1> QED BY <1>1, <1>4, <1>5, <1>6, <1>7, <1>8, QuietStep
     DEF table, local, Awake, Clear, InTable, InTicks, InCall, InTrap, Switched, Leaving

LEMMA RelockKeeps ==
  ASSUME IInv, NEW c \in Cpus, Relock(c)
  PROVE  IInv'
<1> DEFINE t == Thread(c)
<1>1. /\ pc[t] = "relock" /\ pc' = [pc EXCEPT ![t] = "due?"]
      /\ tickslock = NoCpu /\ tickslock' = c /\ Pushcli(c)
      /\ UNCHANGED <<table, ptlock, cproc, scan, local, panicked>>
  BY DEF Relock, Goto
<1>2. t \in Slots /\ cproc[c] = t /\ t # c /\ pc[c] = "scan"
  BY <1>1, Start
<1>3. CpuInv(c) /\ ncli[c] = 0 /\ Typed /\ Thread(c)' = t
  BY <1>1, Start DEF IInv, Thread, t, CpuInv, InTable, InTicks, InCall, InTrap, Switched, Leaving, local
<1>4. Flags(c)
  BY <1>1, <1>3, FlagsKept
<1>5. Locks(c)
  BY <1>1, <1>3, Start DEF Locks
<1>6. Memory(c)
  BY <1>1, <1>3, MemoryKept DEF table, local
<1>7. CpuInv(c)'
  BY <1>1, <1>2, <1>3, Start, Types DEF CpuInv, InTable, InTicks, InCall, InTrap, Switched, Leaving, Places, Clear, local, cli, Pushcli, Popcli
<1>8. t \in Slots => Own(t, "due?")
  BY <1>1, <1>2, Start DEF Own, Place, Forking, Interrupted, InTrap, local
<1> QED BY <1>1, <1>4, <1>5, <1>6, <1>7, <1>8, QuietStep
     DEF table, local, Awake, Clear, InTable, InTicks, InCall, InTrap, Switched, Leaving

LEMMA SysSleepKeeps ==
  ASSUME IInv, NEW c \in Cpus, SysSleep(c)
  PROVE  IInv'
<1> DEFINE t == Thread(c)
<1>1. /\ pc[t] = "sleep" /\ pc' = [pc EXCEPT ![t] = "due?"]
      /\ tickslock = NoCpu /\ tickslock' = c /\ Pushcli(c)
      /\ due' = [due EXCEPT ![t] = TRUE]
      /\ UNCHANGED <<table, ptlock, cproc, scan, back, saved, np, panicked>>
  BY DEF SysSleep, Goto, Thread
<1>2. t \in Slots /\ cproc[c] = t /\ t # c /\ pc[c] = "scan"
  BY <1>1, Start
<1>3. CpuInv(c) /\ ncli[c] = 0 /\ Typed /\ Thread(c)' = t
  BY <1>1, Start DEF IInv, Thread, t, CpuInv, InTable, InTicks, InCall, InTrap, Switched, Leaving, local
<1>4. Flags(c)
  BY <1>1, <1>3, FlagsKept
<1>5. Locks(c)
  BY <1>1, <1>3, Start DEF Locks
<1>6. Memory(c)
  BY <1>1, <1>3, <1>2, Types DEF Memory, table
<1>7. CpuInv(c)'
  BY <1>1, <1>2, <1>3, Start, Types DEF CpuInv, InTable, InTicks, InCall, InTrap, Switched, Leaving, Places, Clear, local, cli, Pushcli, Popcli
<1>8. t \in Slots => Own(t, "due?")
  BY <1>1, <1>2, Start DEF Own, Place, Forking, Interrupted, InTrap, local
<1> QED BY <1>1, <1>4, <1>5, <1>6, <1>7, <1>8, QuietStep, <1>2, <1>3, Types
     DEF table, local, Awake, Clear, InTable, InTicks, InCall, InTrap, Switched, Leaving

LEMMA TimerKeeps ==
  ASSUME IInv, NEW c \in Cpus, Timer(c)
  PROVE  IInv'
<1> DEFINE t == Thread(c)
<1>0. PICK x \in {"tick", "trap"} : pc' = [pc EXCEPT ![t] = x]
  BY DEF Timer
<1>1. /\ pc[t] = pc[t] /\ pc' = [pc EXCEPT ![t] = x]
      /\ ints[c] /\ ints' = [ints EXCEPT ![c] = FALSE]
      /\ back' = [back EXCEPT ![t] = pc[t]]
      /\ UNCHANGED <<table, ptlock, tickslock, cproc, scan, ncli, intena, saved, np,
                     due, panicked>>
  BY <1>0 DEF Timer
<1>2. /\ pc[t] \in InCall \cup {"idle", "exit"} /\ (t = c => pc[t] = "idle")
      /\ (t \in Slots => pc[t] # "idle" /\ back[t] = "idle" /\ t # c)
  BY <1>1, Start DEF CpuInv, InCall, InTrap, Places, Clear, Interrupted, InTable, InTicks,
     Switched, Leaving
<1>3. CpuInv(c) /\ ncli[c] = 0 /\ Typed /\ Thread(c)' = t
  BY <1>1, Start DEF IInv, Thread, t, CpuInv, InTable, InTicks, InCall, InTrap, Switched, Leaving, local
<1>4. Flags(c)
  BY <1>1, <1>3, Types DEF Flags
<1>5. Locks(c)
  BY <1>1, <1>3, Start DEF Locks
<1>6. Memory(c)
  BY <1>1, <1>3, <1>2, Start, Types DEF Memory, table
<1>7. CpuInv(c)'
  BY <1>1, <1>2, <1>3, Start, Types DEF CpuInv, InTable, InTicks, InCall, InTrap, Switched, Leaving, Places, Clear, local, cli, Pushcli, Popcli
<1>8. t \in Slots => Own(t, x)
  BY <1>1, <1>2, Start, Types DEF Own, Place, Forking, Interrupted, InTrap, IInv
<1> QED BY <1>1, <1>4, <1>5, <1>6, <1>7, <1>8, QuietStep, <1>2
     DEF table, local, Awake, Clear, InTable, InTicks, InCall, InTrap, Switched, Leaving

\* Who is in a section of ptable.lock or tickslock is on the CPU that holds it.
LEMMA HolderIsOn ==
  ASSUME IInv, NEW s \in Slots
  PROVE  /\ pc[s] \in InTicks => \E d \in Cpus : tickslock = d /\ Thread(d) = s
         /\ pc[s] \in {"kids"} \cup Leaving => \E d \in Cpus : ptlock = d /\ Thread(d) = s
<1>1. StateInv(s) /\ (pc[s] \in {"kids"} \cup Leaving \cup InTicks => OnCpu(s))
  BY DEF IInv, StateInv, Leaving, InTicks, Switched
<1> SUFFICES ASSUME NEW d \in Cpus, cproc[d] = s
             PROVE  /\ pc[s] \in InTicks => tickslock = d /\ Thread(d) = s
                    /\ pc[s] \in {"kids"} \cup Leaving => ptlock = d /\ Thread(d) = s
  BY <1>1 DEF OnCpu
<1>2. Thread(d) = s /\ CpuInv(d)
  BY Threads DEF IInv
<1> QED BY <1>2 DEF CpuInv, InTable

LEMMA TickKeeps ==
  ASSUME IInv, NEW c \in Cpus, Tick(c)
  PROVE  IInv'
<1> DEFINE t == Thread(c)
<1>1. /\ pc[t] = "tick" /\ pc' = [pc EXCEPT ![t] = "wake"]
      /\ tickslock = NoCpu /\ tickslock' = c /\ Pushcli(c)
      /\ due' \in [Slots -> BOOLEAN]
      /\ UNCHANGED <<table, ptlock, cproc, scan, back, saved, np, panicked>>
  BY DEF Tick, Goto
<1>2. \A s \in Slots : pc[s] # "doze"
  BY <1>1, HolderIsOn, Types DEF IInv, InTicks
<1>3. CpuInv(c) /\ ncli[c] = 0 /\ Typed /\ Thread(c)' = t
  BY <1>1, Start DEF IInv, Thread, t, CpuInv, InTable, InTicks, InCall, InTrap, Switched, Leaving, local
<1>4. Flags(c)
  BY <1>1, <1>3, FlagsKept
<1>5. Locks(c)
  BY <1>1, <1>3, Start DEF Locks
<1>6. Memory(c)
  BY <1>1, <1>3, Types DEF Memory, table
<1>7. CpuInv(c)'
  BY <1>1, <1>2, <1>3, Start, Types DEF CpuInv, InTable, InTicks, InCall, InTrap, Switched, Leaving, Places, Clear, local, cli, Pushcli, Popcli
<1>8. t \in Slots => Own(t, "wake")
  BY <1>1, Start DEF Own, Place, Forking, Interrupted, InTrap
<1> QED BY <1>1, <1>4, <1>5, <1>6, <1>7, <1>8, QuietStep, <1>2
     DEF table, local, Awake, Clear, InTable, InTicks, InCall, InTrap, Switched, Leaving

LEMMA IretSchedulerKeeps ==
  ASSUME IInv, NEW c \in Cpus, Iret(c), cproc[c] = 0
  PROVE  IInv'
<1> DEFINE t == Thread(c)
<1>0. /\ Thread(c) = c /\ back[c] = "idle" /\ pc \in [Slots \cup Cpus -> Places]
      /\ c \in Slots \cup Cpus
  BY Start, Types DEF IInv, CpuInv
<1>1. /\ pc[t] = "trap" /\ pc' = [pc EXCEPT ![t] = "idle"]
      /\ ints' = [ints EXCEPT ![c] = TRUE] /\ back' = [back EXCEPT ![t] = "idle"]
      /\ UNCHANGED <<table, ptlock, tickslock, cproc, scan, ncli, intena, saved, np,
                     due, panicked>>
  BY <1>0 DEF Iret
<1>2. t = c /\ t \notin Slots
  BY Start
<1>3. CpuInv(c) /\ ncli[c] = 0 /\ Typed /\ Thread(c)' = t
  BY <1>1, Start DEF IInv, Thread, t, CpuInv, InTable, InTicks, InCall, InTrap, Switched, Leaving, local
<1>4. Flags(c)
  BY <1>1, <1>3, Types DEF Flags
<1>5. Locks(c)
  BY <1>1, <1>3, Start DEF Locks
<1>6. Memory(c)
  BY <1>1, <1>3, <1>2, Types DEF Memory, table
<1>7. CpuInv(c)'
  BY <1>1, <1>2, <1>3, Start, Types DEF CpuInv, InTable, InTicks, InCall, InTrap, Switched, Leaving, Places, Clear, local, cli, Pushcli, Popcli
<1>8. t \in Slots => Own(t, "idle")
  BY <1>2
<1> QED BY <1>1, <1>4, <1>5, <1>6, <1>7, <1>8, QuietStep
     DEF table, local, Awake, Clear, InTable, InTicks, InCall, InTrap, Switched, Leaving

LEMMA IretYieldsKeeps ==
  ASSUME IInv, NEW c \in Cpus, Iret(c),
         cproc[c] # 0, ~(back[Thread(c)] = "user" /\ killed[Thread(c)])
  PROVE  IInv'
<1> DEFINE t == Thread(c)
<1>0. pc \in [Slots \cup Cpus -> Places] /\ t \in Slots \cup Cpus
  BY Start, Types DEF IInv
<1>1. /\ pc[t] = "trap" /\ pc' = [pc EXCEPT ![t] = "yield"]
      /\ back' = [back EXCEPT ![t] = @]
      /\ UNCHANGED <<table, ptlock, tickslock, cproc, scan, cli, saved, np, due, panicked>>
  BY <1>0 DEF Iret, cli
<1>2. t \in Slots /\ cproc[c] = t /\ t # c /\ pc[c] = "scan"
  BY <1>1, Start
<1>3. CpuInv(c) /\ ncli[c] = 0 /\ Typed /\ Thread(c)' = t
  BY <1>1, Start DEF IInv, Thread, t, CpuInv, InTable, InTicks, InCall, InTrap, Switched, Leaving, local
<1>4. Flags(c)
  BY <1>1, <1>3, FlagsKept
<1>5. Locks(c)
  BY <1>1, <1>3, Start DEF Locks
<1>6. Memory(c)
  BY <1>1, <1>3, <1>2, Types DEF Memory, table
<1>7. CpuInv(c)'
  BY <1>1, <1>2, <1>3, Start, Types DEF CpuInv, InTable, InTicks, InCall, InTrap, Switched, Leaving, Places, Clear, local, cli, Pushcli, Popcli
<1>8. t \in Slots => Own(t, "yield")
  BY <1>1, <1>2, Start, Types DEF Own, Place, Forking, Interrupted, InTrap, IInv
<1> QED BY <1>1, <1>4, <1>5, <1>6, <1>7, <1>8, QuietStep
     DEF table, local, Awake, Clear, InTable, InTicks, InCall, InTrap, Switched, Leaving

LEMMA IretExitsKeeps ==
  ASSUME IInv, NEW c \in Cpus, Iret(c),
         cproc[c] # 0, back[Thread(c)] = "user" /\ killed[Thread(c)]
  PROVE  IInv'
<1> DEFINE t == Thread(c)
<1>0. pc \in [Slots \cup Cpus -> Places] /\ t \in Slots \cup Cpus
  BY Start, Types DEF IInv
<1>1. /\ pc[t] = "trap" /\ pc' = [pc EXCEPT ![t] = "exit"]
      /\ back[t] = "user" /\ back' = [back EXCEPT ![t] = "idle"]
      /\ UNCHANGED <<table, ptlock, tickslock, cproc, scan, cli, saved, np, due, panicked>>
  BY <1>0 DEF Iret, cli
<1>2. t \in Slots /\ cproc[c] = t /\ t # c /\ pc[c] = "scan"
  BY <1>1, Start
<1>3. CpuInv(c) /\ ncli[c] = 0 /\ Typed /\ Thread(c)' = t
  BY <1>1, Start DEF IInv, Thread, t, CpuInv, InTable, InTicks, InCall, InTrap, Switched, Leaving, local
<1>4. Flags(c)
  BY <1>1, <1>3, FlagsKept
<1>5. Locks(c)
  BY <1>1, <1>3, Start DEF Locks
<1>6. Memory(c)
  BY <1>1, <1>3, <1>2, Types DEF Memory, table
<1>7. CpuInv(c)'
  BY <1>1, <1>2, <1>3, Start, Types DEF CpuInv, InTable, InTicks, InCall, InTrap, Switched, Leaving, Places, Clear, local, cli, Pushcli, Popcli
<1>8. t \in Slots => Own(t, "exit")
  BY <1>1, <1>2, Start, Types DEF Own, Place, Forking, Interrupted, InTrap, IInv
<1> QED BY <1>1, <1>4, <1>5, <1>6, <1>7, <1>8, QuietStep
     DEF table, local, Awake, Clear, InTable, InTicks, InCall, InTrap, Switched, Leaving

LEMMA IretKeeps ==
  ASSUME IInv, NEW c \in Cpus, Iret(c)
  PROVE  IInv'
BY IretSchedulerKeeps, IretYieldsKeeps, IretExitsKeeps

LEMMA ResumeUserKeeps ==
  ASSUME IInv, NEW c \in Cpus, Resume(c),
         ~(back[Thread(c)] = "user" /\ killed[Thread(c)])
  PROVE  IInv'
<1> DEFINE t == Thread(c)
<1>0. /\ cproc[c] # 0 /\ t = cproc[c]
      /\ ints' = [ints EXCEPT ![c] = @ \/ ~(back[t] = "user" /\ killed[t])]
      /\ back[t] = "user" /\ killed[t] <=> FALSE
      /\ ints \in [Cpus -> BOOLEAN]
  BY Types DEF Resume, Thread, IInv
<1>1. /\ pc[t] = "resume" /\ pc' = [pc EXCEPT ![t] = back[t]]
      /\ ints' = [ints EXCEPT ![c] = TRUE] /\ back' = [back EXCEPT ![t] = "idle"]
      /\ UNCHANGED <<table, ptlock, tickslock, cproc, scan, ncli, intena, saved, np,
                     due, panicked>>
  BY <1>0 DEF Resume, Thread
<1>2. /\ t \in Slots /\ cproc[c] = t /\ t # c /\ pc[c] = "scan"
      /\ back[t] \in InCall \cup {"exit"}
  BY <1>1, Start, Types DEF Interrupted, InTrap, IInv
<1>3. CpuInv(c) /\ ncli[c] = 0 /\ Typed /\ Thread(c)' = t
  BY <1>1, Start DEF IInv, Thread, t, CpuInv, InTable, InTicks, InCall, InTrap, Switched, Leaving, local
<1>4. Flags(c)
  BY <1>1, <1>3, Types DEF Flags
<1>5. Locks(c)
  BY <1>1, <1>3, Start DEF Locks
<1>6. Memory(c)
  BY <1>1, <1>3, <1>2, Types DEF Memory, table
<1>7. CpuInv(c)'
  BY <1>1, <1>2, <1>3, Start, Types DEF CpuInv, InTable, InTicks, InCall, InTrap, Switched, Leaving, Places, Clear, local, cli, Pushcli, Popcli
<1>8. t \in Slots => Own(t, back[t])
  BY <1>1, <1>2, Types DEF Own, Place, Forking, Interrupted, InTrap, InCall, IInv
<1> QED BY <1>1, <1>4, <1>5, <1>6, <1>7, <1>8, QuietStep, <1>2
     DEF table, local, Awake, Clear, InTable, InTicks, InCall, InTrap, Switched, Leaving

LEMMA ResumeExitsKeeps ==
  ASSUME IInv, NEW c \in Cpus, Resume(c),
         back[Thread(c)] = "user" /\ killed[Thread(c)]
  PROVE  IInv'
<1> DEFINE t == Thread(c)
<1>0. /\ cproc[c] # 0 /\ t = cproc[c]
      /\ ints' = [ints EXCEPT ![c] = @ \/ ~(back[t] = "user" /\ killed[t])]
      /\ back[t] = "user" /\ killed[t] <=> TRUE
      /\ ints \in [Cpus -> BOOLEAN]
  BY Types DEF Resume, Thread, IInv
<1>1. /\ pc[t] = "resume" /\ pc' = [pc EXCEPT ![t] = "exit"]
      /\ ints' = [ints EXCEPT ![c] = @] /\ back' = [back EXCEPT ![t] = "idle"]
      /\ back[t] = "user"
      /\ UNCHANGED <<table, ptlock, tickslock, cproc, scan, ncli, intena, saved, np,
                     due, panicked>>
  BY <1>0 DEF Resume, Thread
<1>2. t \in Slots /\ cproc[c] = t /\ t # c /\ pc[c] = "scan"
  BY <1>1, Start
<1>3. CpuInv(c) /\ ncli[c] = 0 /\ Typed /\ Thread(c)' = t
  BY <1>1, Start DEF IInv, Thread, t, CpuInv, InTable, InTicks, InCall, InTrap, Switched, Leaving, local
<1>4. Flags(c)
  BY <1>1, <1>3, Types DEF Flags
<1>5. Locks(c)
  BY <1>1, <1>3, Start DEF Locks
<1>6. Memory(c)
  BY <1>1, <1>3, <1>2, Types DEF Memory, table
<1>7. CpuInv(c)'
  BY <1>1, <1>2, <1>3, Start, Types DEF CpuInv, InTable, InTicks, InCall, InTrap, Switched, Leaving, Places, Clear, local, cli, Pushcli, Popcli
<1>8. t \in Slots => Own(t, "exit")
  BY <1>1, <1>2, Types DEF Own, Place, Forking, Interrupted, InTrap, InCall, IInv
<1> QED BY <1>1, <1>4, <1>5, <1>6, <1>7, <1>8, QuietStep
     DEF table, local, Awake, Clear, InTable, InTicks, InCall, InTrap, Switched, Leaving

LEMMA ResumeKeeps ==
  ASSUME IInv, NEW c \in Cpus, Resume(c)
  PROVE  IInv'
BY ResumeUserKeeps, ResumeExitsKeeps

LEMMA DozeAgainKeeps ==
  ASSUME IInv, NEW c \in Cpus, Doze(c),
         pc'[Thread(c)] = "doze"
  PROVE  IInv'
<1> DEFINE t == Thread(c)
<1>0. pc \in [Slots \cup Cpus -> Places] /\ t \in Slots \cup Cpus
  BY Start, Types DEF IInv
<1>1. /\ pc[t] = "due?" /\ pc' = [pc EXCEPT ![t] = "doze"]
      /\ due[t] /\ UNCHANGED <<table, ptlock, tickslock, cproc, scan, cli, local, panicked>>
  BY <1>0 DEF Doze, Goto, Thread, local
<1>2. t \in Slots /\ cproc[c] = t /\ t # c /\ pc[c] = "scan"
  BY <1>1, Start
<1>3. CpuInv(c) /\ ncli[c] = 1 /\ Typed /\ Thread(c)' = t
  BY <1>1, Start DEF IInv, Thread, t, CpuInv, InTable, InTicks, InCall, InTrap, Switched, Leaving, local
<1>4. Flags(c)
  BY <1>1, <1>3, FlagsKept
<1>5. Locks(c)
  BY <1>1, <1>3, Start DEF Locks
<1>6. Memory(c)
  BY <1>1, <1>3, MemoryKept DEF table, local
<1>7. CpuInv(c)'
  BY <1>1, <1>2, <1>3, Start, Types DEF CpuInv, InTable, InTicks, InCall, InTrap, Switched, Leaving, Places, Clear, local, cli, Pushcli, Popcli
<1>8. t \in Slots => Own(t, "doze")
  BY <1>1, <1>2, Start DEF Own, Place, Forking, Interrupted, InTrap, local
<1> QED BY <1>1, <1>4, <1>5, <1>6, <1>7, <1>8, QuietStep
     DEF table, local, Awake, Clear, InTable, InTicks, InCall, InTrap, Switched, Leaving

LEMMA DozeEndsKeeps ==
  ASSUME IInv, NEW c \in Cpus, Doze(c),
         pc'[Thread(c)] # "doze"
  PROVE  IInv'
<1> DEFINE t == Thread(c)
<1>0. pc \in [Slots \cup Cpus -> Places] /\ t \in Slots \cup Cpus
  BY Start, Types DEF IInv
<1>1. /\ pc[t] = "due?" /\ pc' = [pc EXCEPT ![t] = "ret"]
      /\ tickslock' = NoCpu /\ Popcli(c, intena[c]) /\ due' = [due EXCEPT ![t] = FALSE]
      /\ UNCHANGED <<table, ptlock, cproc, scan, back, saved, np, panicked>>
  BY <1>0 DEF Doze, Goto, Thread, local
<1>2. t \in Slots /\ cproc[c] = t /\ t # c /\ pc[c] = "scan"
  BY <1>1, Start
<1>3. CpuInv(c) /\ ncli[c] = 1 /\ Typed /\ Thread(c)' = t
  BY <1>1, Start DEF IInv, Thread, t, CpuInv, InTable, InTicks, InCall, InTrap, Switched, Leaving, local
<1>4. Flags(c)
  BY <1>1, <1>3, FlagsKept, Types
<1>5. Locks(c)
  BY <1>1, <1>3, Start DEF Locks, CpuInv, InTable, InTicks, InCall, InTrap, Switched, Leaving
<1>6. Memory(c)
  BY <1>1, <1>3, <1>2, Types DEF Memory, table
<1>7. CpuInv(c)'
  BY <1>1, <1>2, <1>3, Start, Types DEF CpuInv, InTable, InTicks, InCall, InTrap, Switched, Leaving, Places, Clear, local, cli, Pushcli, Popcli
<1>8. t \in Slots => Own(t, "ret")
  BY <1>1, <1>2, Start DEF Own, Place, Forking, Interrupted, InTrap, local
<1> QED BY <1>1, <1>4, <1>5, <1>6, <1>7, <1>8, QuietStep, <1>2, <1>3, Types
     DEF table, local, Awake, Clear, InTable, InTicks, InCall, InTrap, Switched, Leaving

LEMMA DozeKeeps ==
  ASSUME IInv, NEW c \in Cpus, Doze(c)
  PROVE  IInv'
BY DozeAgainKeeps, DozeEndsKeeps

-----------------------------------------------------------------------------
(* Frames of the steps that change the table.                              *)

\* A thread goes on and leaves the table, sched()'s memory and the clock's alone.
LEMMA Moved ==
  ASSUME IInv, NEW c \in Cpus, NEW x \in Places, pc' = [pc EXCEPT ![Thread(c)] = x],
         UNCHANGED <<cproc, back, saved>>, Flags(c), Locks(c), CpuInv(c)',
         x \in Interrupted <=> pc[Thread(c)] \in Interrupted,
         x \notin {"waited", "woken", "yielded"}
  PROVE  /\ OneCpu' /\ Kept' /\ \A d \in Cpus : CpuInv(d)' /\ Thread(d)' = Thread(d)
         /\ \A s \in Slots : /\ OnCpu(s)' <=> OnCpu(s)
                             /\ s # Thread(c) => pc'[s] = pc[s] /\ Place(s)' = Place(s)
                             /\ s = Thread(c) => pc'[s] = x
         /\ pc' \in [Slots \cup Cpus -> Places] /\ pc'[Thread(c)] = x
         /\ \A d \in Cpus \ {c} : pc'[Thread(d)] = pc[Thread(d)]
<1>1. OneCpu /\ Kept /\ pc \in [Slots \cup Cpus -> Places]
  BY Types DEF IInv
<1>2. Apart(c)
  BY ApartIf
<1>3. \A d \in Cpus : CpuInv(d)'
  BY <1>2, OthersKept DEF IInv
<1>4. \A d \in Cpus : Thread(d)' = Thread(d)
  BY DEF Thread
<1>5. /\ pc' \in [Slots \cup Cpus -> Places]
      /\ \A s \in Slots : s # Thread(c) => pc'[s] = pc[s]
      /\ pc'[Thread(c)] = x
  BY <1>1, Start
<1>6. \A s \in Slots : (OnCpu(s)' <=> OnCpu(s)) /\ (s # Thread(c) => Place(s)' = Place(s))
  BY <1>5 DEF OnCpu, Place
<1>7. Kept'
  BY <1>1, <1>5 DEF Kept
<1>8. OneCpu'
  BY <1>1 DEF OneCpu
<1> QED BY <1>2, <1>3, <1>4, <1>5, <1>6, <1>7, <1>8 DEF Apart

\* While nobody holds ptable.lock, who sleeps has left its CPU.
LEMMA Settled ==
  ASSUME IInv, ptlock = NoCpu, NEW s \in Slots
  PROVE  /\ pc[s] \notin {"kids"} \cup Leaving
         /\ state[s] = "SLEEPING" => pc[s] \in {"waited", "woken"} /\ ~OnCpu(s)
<1>1. pc[s] \notin {"kids"} \cup Leaving /\ StateInv(s)
  BY HolderIsOn, Types DEF IInv
<1> QED BY <1>1 DEF StateInv, Leaving, Switched

LEMMA SlotKept ==
  ASSUME NEW s \in Slots, StateInv(s), pc'[s] = pc[s], OnCpu(s)' <=> OnCpu(s),
         \/ state'[s] = state[s] /\ (state[s] = "SLEEPING" => chan'[s] = chan[s])
         \/ pc[s] \in {"waited", "woken"} /\ state[s] = "SLEEPING" /\ state'[s] = "RUNNABLE"
  PROVE  StateInv(s)'
<1>1. CASE state'[s] = state[s] /\ (state[s] = "SLEEPING" => chan'[s] = chan[s])
  BY <1>1 DEF StateInv
<1>2. CASE pc[s] \in {"waited", "woken"} /\ state[s] = "SLEEPING" /\ state'[s] = "RUNNABLE"
  BY <1>2 DEF StateInv, Switched, Leaving
<1> QED BY <1>1, <1>2

LEMMA FamilyKept ==
  ASSUME Typed, Family, UNCHANGED <<pid, parent, nextpid>>,
         \A s \in Slots : /\ state'[s] # "UNUSED" => state[s] # "UNUSED"
                          /\ Live(s) => Live(s)'
                          /\ Live(s)' \/ state'[s] = "ZOMBIE" => Live(s) \/ state[s] = "ZOMBIE"
  PROVE  Family'
<1>1. initproc \in Slots
  BY ProcAssumption DEF initproc, Slots
<1>2. Live(initproc)'
  BY <1>1 DEF Family
<1>3. ASSUME NEW s \in Slots, Live(s)' \/ state'[s] = "ZOMBIE", s # initproc
      PROVE  parent'[s] # 0 /\ Live(parent[s])
  BY <1>3 DEF Family, ProcessTree
<1>4. ASSUME NEW s \in Slots, Live(s)' \/ state'[s] = "ZOMBIE", s # initproc
      PROVE  (parent[s] # 0 /\ Live(parent[s]))'
  <2>1. parent[s] \in Slots
    BY <1>3, <1>4, Types, ProcAssumption DEF Slots
  <2> QED BY <1>3, <1>4, <2>1
<1>5. ProcessTree'
  BY <1>4 DEF Family, ProcessTree
<1> QED BY <1>1, <1>2, <1>5 DEF Family

LEMMA EmbryosKept ==
  ASSUME Typed, Embryos, np' = np,
         \A s \in Slots :
           /\ Place(s)' = Place(s) \/ {Place(s)', Place(s)} \cap Forking = {}
           /\ state[s] = "EMBRYO" => state'[s] = "EMBRYO"
           /\ Place(s) = "publish" => parent'[np[s]] = parent[np[s]]
           /\ Place(s) \in {"copy", "publish"} => kstack'[np[s]] = kstack[np[s]]
  PROVE  Embryos'
<1>1. \A s \in Slots : np[s] # 0 => np[s] \in Slots
  <2>1. np \in [Slots -> 0..NPROC] /\ NPROC \in Nat
    BY Types, ProcAssumption
  <2>2. \A n \in 0..NPROC : n # 0 => n \in Slots
    BY <2>1 DEF Slots
  <2> QED BY <2>1, <2>2
<1>2. \A s \in Slots : /\ Place(s)' \in Forking <=> Place(s) \in Forking
                       /\ Place(s)' \in {"copy", "publish"} <=> Place(s) \in {"copy", "publish"}
                       /\ Place(s)' = "publish" <=> Place(s) = "publish"
  BY DEF Forking
<1>3. \A s \in Slots : np[s] # 0 => state'[np[s]] = "EMBRYO"
  BY <1>1 DEF Embryos
<1> QED BY <1>2, <1>3 DEF Embryos, Forking

\* yield(), sleep() and wait() on their way to sched().
LEMMA LeavesTable ==
  ASSUME IInv, NEW c \in Cpus, Thread(c) \in Slots,
         NEW x \in {"yielding", "waiting", "dozing"}, NEW v \in {"RUNNABLE", "SLEEPING"},
         pc[Thread(c)] \in {"yield", "kids", "doze"}, pc' = [pc EXCEPT ![Thread(c)] = x],
         x = "yielding" <=> pc[Thread(c)] = "yield",
         state' = [state EXCEPT ![Thread(c)] = v], x = "yielding" <=> v = "RUNNABLE",
         chan' \in [Slots -> 0..Ticks],
         \A s \in Slots \ {Thread(c)} : chan'[s] = chan[s],
         x = "waiting" => chan'[Thread(c)] = Thread(c) /\ Zombies(Thread(c)) = {},
         x = "dozing" => chan'[Thread(c)] = Ticks /\ due[Thread(c)],
         UNCHANGED <<pid, parent, killed, kstack, nextpid, cproc, local, panicked>>,
         Flags(c), Locks(c), CpuInv(c)'
  PROVE  IInv'
<1> DEFINE t == Thread(c)
<1>1. Typed /\ x \in Places /\ x \notin {"waited", "woken", "yielded"}
      /\ (x \in Interrupted <=> pc[t] \in Interrupted)
  BY DEF IInv, Places, InTable, Leaving, Interrupted, InTrap
<1>2. /\ OneCpu' /\ Kept' /\ \A d \in Cpus : CpuInv(d)' /\ Thread(d)' = Thread(d)
      /\ \A s \in Slots : /\ OnCpu(s)' <=> OnCpu(s)
                          /\ s # t => pc'[s] = pc[s] /\ Place(s)' = Place(s)
      /\ pc' \in [Slots \cup Cpus -> Places] /\ pc'[t] = x
      /\ \A d \in Cpus \ {c} : pc'[Thread(d)] = pc[Thread(d)]
  BY <1>1, Moved DEF local
<1>3. state[t] = "RUNNING" /\ OnCpu(t) /\ t \in Slots
  BY OnItsCpu DEF Leaving
<1>4. state \in [Slots -> States] /\ state'[t] = v
      /\ \A s \in Slots \ {t} : state'[s] = state[s] /\ chan'[s] = chan[s]
  BY <1>1, <1>3, Types
<1>5. Typed'
  <2>1. state' \in [Slots -> States]
    BY <1>4 DEF States
  <2>2. ptlock' \in Cpus \cup {NoCpu} /\ tickslock' \in Cpus \cup {NoCpu}
    BY LocksTyped DEF IInv
  <2> QED BY <1>1, <1>2, <2>1, <2>2 DEF Typed, TypeOK, Flags, local
<1> HIDE DEF t
<1>6. ASSUME NEW s \in Slots PROVE StateInv(s)'
  <2>1. CASE s = t
    BY <1>2, <1>3, <1>4, <2>1 DEF StateInv, Switched, Leaving, t
  <2>2. CASE s # t
    BY <1>2, <1>4, <2>2, SlotKept DEF IInv
  <2> QED BY <2>1, <2>2
<1>7. Embryos'
  <2>1. \A s \in Slots : s = t => {Place(s)', Place(s)} \cap Forking = {} \/ Place(s)' = Place(s)
    BY <1>2, <1>3 DEF Place, Forking, local
  <2> QED BY <1>1, <1>2, <1>3, <1>4, <2>1, EmbryosKept DEF IInv, local, t
<1>8. \A s \in Slots : Live(s)' <=> Live(s)
  BY <1>3, <1>4 DEF Live
<1>9. Stacks'
  BY <1>2, <1>8 DEF IInv, Stacks
<1>10. Family'
  BY <1>1, <1>3, <1>4, <1>8, FamilyKept DEF IInv
<1>11. \A s \in Slots : Zombies(s)' = Zombies(s)
  BY <1>3, <1>4 DEF Zombies, Children
<1>12. NoZombieMissed'
  <2>1. SUFFICES ASSUME NEW s \in Slots, state'[s] = "SLEEPING", chan'[s] = s
                 PROVE  Zombies(s) = {}
    BY <1>11 DEF NoZombieMissed
  <2>2. CASE s = t
    <3>1. t # Ticks
      BY <1>3, ProcAssumption DEF Slots, Ticks
    <3> QED BY <1>4, <2>1, <2>2, <3>1 DEF t
  <2> QED BY <1>4, <2>1, <2>2 DEF IInv, Sleepers, NoZombieMissed
<1>13. NoTickMissed'
  <2>1. SUFFICES ASSUME NEW s \in Slots, state'[s] = "SLEEPING", chan'[s] = Ticks
                 PROVE  due[s] \/ \E d \in Cpus : pc'[Thread(d)] = "wake"
    BY <1>2 DEF NoTickMissed, local
  <2>2. CASE s = t
    <3>1. t # Ticks
      BY <1>3, ProcAssumption DEF Slots, Ticks
    <3> QED BY <1>4, <2>1, <2>2, <3>1 DEF t
  <2>3. CASE s # t
    BY <1>2, <1>4, <2>1, <2>3 DEF IInv, Sleepers, NoTickMissed, t
  <2> QED BY <2>2, <2>3
<1>14. \A s \in Slots : pc'[s] = "doze" => due'[s]
  BY <1>2 DEF IInv, Sleepers, local
<1> QED BY <1>2, <1>5, <1>6, <1>7, <1>9, <1>10, <1>12, <1>13, <1>14 DEF IInv, Sleepers

LEMMA YieldKeeps ==
  ASSUME IInv, NEW c \in Cpus, Yield(c)
  PROVE  IInv'
<1> DEFINE t == Thread(c)
<1>1. pc[t] = "yield" /\ cproc' = cproc
  BY DEF Yield, Goto
<1>2. t \in Slots /\ cproc[c] = t /\ t # c /\ pc[c] = "scan"
  BY <1>1, Start
<1>3. /\ pc' = [pc EXCEPT ![t] = "yielding"] /\ state' = [state EXCEPT ![t] = "RUNNABLE"]
      /\ ptlock = NoCpu /\ ptlock' = c /\ Pushcli(c)
      /\ UNCHANGED <<pid, parent, killed, chan, kstack, nextpid, tickslock, cproc,
                     scan, local, panicked>>
  BY <1>2 DEF Yield, Goto
<1>4. CpuInv(c) /\ ncli[c] = 0 /\ Typed /\ Thread(c)' = t
  BY <1>1, Start DEF IInv, Thread, CpuInv, InTable, InTicks, InCall, InTrap, Switched, Leaving
<1>5. Flags(c)
  BY <1>3, <1>4, FlagsKept
<1>6. Locks(c)
  BY <1>1, <1>3, <1>4, Start DEF Locks, CpuInv, InTable, InTicks, InCall, InTrap, Switched, Leaving
<1>7. CpuInv(c)'
  BY <1>1, <1>2, <1>3, <1>4, Start, Types
     DEF CpuInv, InTable, InTicks, InCall, InTrap, Switched, Leaving, Places, Clear, local, cli, Pushcli
<1>8. chan' \in [Slots -> 0..Ticks]
  BY <1>1, <1>2, <1>3, <1>4, Types
<1> QED BY <1>1, <1>2, <1>3, <1>5, <1>6, <1>7, <1>8, LeavesTable

LEMMA WaitSleepsKeeps ==
  ASSUME IInv, NEW c \in Cpus, WaitSleeps(c)
  PROVE  IInv'
<1> DEFINE t == Thread(c)
<1>1. pc[t] = "kids" /\ cproc' = cproc
  BY DEF WaitSleeps, Goto
<1>2. t \in Slots /\ cproc[c] = t /\ t # c /\ pc[c] = "scan"
  BY <1>1, Start
<1>3. /\ pc' = [pc EXCEPT ![t] = "waiting"] /\ state' = [state EXCEPT ![t] = "SLEEPING"]
      /\ chan' = [chan EXCEPT ![t] = t] /\ Zombies(t) = {}
      /\ UNCHANGED <<pid, parent, killed, kstack, nextpid, ptlock, tickslock, cproc,
                     scan, cli, local, panicked>>
  BY <1>2 DEF WaitSleeps, Goto
<1>4. CpuInv(c) /\ ncli[c] = 1 /\ Typed /\ Thread(c)' = t
  BY <1>1, Start DEF IInv, Thread, CpuInv, InTable, InTicks, InCall, InTrap, Switched, Leaving
<1>5. Flags(c)
  BY <1>3, <1>4, FlagsKept
<1>6. Locks(c)
  BY <1>1, <1>3, <1>4, Start DEF Locks, CpuInv, InTable, InTicks, InCall, InTrap, Switched, Leaving
<1>7. CpuInv(c)'
  BY <1>1, <1>2, <1>3, <1>4, Start, Types
     DEF CpuInv, InTable, InTicks, InCall, InTrap, Switched, Leaving, Places, Clear, local, cli, Pushcli
<1>8. chan' \in [Slots -> 0..Ticks] /\ chan'[t] = t
      /\ \A s \in Slots \ {t} : chan'[s] = chan[s]
  <2>1. t \in 0..Ticks
    BY <1>2, ProcAssumption DEF Ticks, Slots
  <2>2. chan \in [Slots -> 0..Ticks]
    BY <1>4, Types
  <2> QED BY <1>2, <1>3, <2>1, <2>2
<1> QED BY <1>1, <1>2, <1>3, <1>5, <1>6, <1>7, <1>8, LeavesTable

LEMMA SleepKeeps ==
  ASSUME IInv, NEW c \in Cpus, Sleep(c)
  PROVE  IInv'
<1> DEFINE t == Thread(c)
<1>1. pc[t] = "doze" /\ cproc' = cproc
  BY DEF Sleep, Goto
<1>2. t \in Slots /\ cproc[c] = t /\ t # c /\ pc[c] = "scan"
  BY <1>1, Start
<1>3. /\ pc' = [pc EXCEPT ![t] = "dozing"] /\ state' = [state EXCEPT ![t] = "SLEEPING"]
      /\ ptlock = NoCpu /\ ptlock' = c /\ tickslock' = NoCpu
      /\ chan' = [chan EXCEPT ![t] = Ticks]
      /\ UNCHANGED <<pid, parent, killed, kstack, nextpid, cproc, scan, cli, local,
                     panicked>>
  BY <1>2 DEF Sleep, Goto
<1>4. CpuInv(c) /\ ncli[c] = 1 /\ Typed /\ Thread(c)' = t
  BY <1>1, Start DEF IInv, Thread, CpuInv, InTable, InTicks, InCall, InTrap, Switched, Leaving
<1>5. Flags(c)
  BY <1>3, <1>4, FlagsKept
<1>6. Locks(c)
  BY <1>1, <1>3, <1>4, Start DEF Locks, CpuInv, InTable, InTicks, InCall, InTrap, Switched, Leaving
<1>7. CpuInv(c)'
  BY <1>1, <1>2, <1>3, <1>4, Start, Types
     DEF CpuInv, InTable, InTicks, InCall, InTrap, Switched, Leaving, Places, Clear, local, cli, Pushcli
<1>8. chan' \in [Slots -> 0..Ticks] /\ chan'[t] = Ticks /\ due[t]
      /\ \A s \in Slots \ {t} : chan'[s] = chan[s]
  BY <1>1, <1>2, <1>3, <1>4, Types, ProcAssumption DEF Ticks, Slots, IInv, Sleepers
<1> QED BY <1>1, <1>2, <1>3, <1>5, <1>6, <1>7, <1>8, LeavesTable

\* wakeup() and kill(), which wake some of those who sleep.
LEMMA WakesSome ==
  ASSUME IInv, NEW c \in Cpus, ptlock = NoCpu, NEW x \in {"trap", "ret"},
         pc[Thread(c)] = IF x = "trap" THEN "wake" ELSE "kill",
         pc' = [pc EXCEPT ![Thread(c)] = x],
         state' \in [Slots -> States], killed' \in [Slots -> BOOLEAN],
         \A s \in Slots : state'[s] = state[s]
                          \/ (state[s] = "SLEEPING" /\ state'[s] = "RUNNABLE"),
         x = "trap" => \A s \in Slots : state[s] = "SLEEPING" /\ chan[s] = Ticks =>
                                          state'[s] = "RUNNABLE",
         UNCHANGED <<pid, parent, chan, kstack, nextpid, cproc, local, panicked>>,
         Flags(c), Locks(c), CpuInv(c)'
  PROVE  IInv'
<1> DEFINE t == Thread(c)
<1>1. Typed /\ x \in Places /\ x \notin {"waited", "woken", "yielded"}
      /\ (x \in Interrupted <=> pc[t] \in Interrupted)
  BY DEF IInv, Places, Clear, InTrap, InCall, Interrupted
<1>2. /\ OneCpu' /\ Kept' /\ \A d \in Cpus : CpuInv(d)' /\ Thread(d)' = Thread(d)
      /\ \A s \in Slots : /\ OnCpu(s)' <=> OnCpu(s)
                          /\ s # t => pc'[s] = pc[s] /\ Place(s)' = Place(s)
      /\ pc' \in [Slots \cup Cpus -> Places] /\ pc'[t] = x
      /\ \A d \in Cpus \ {c} : pc'[Thread(d)] = pc[Thread(d)]
  BY <1>1, Moved DEF local
<1>3. t \in Slots => state[t] = "RUNNING" /\ OnCpu(t)
  BY OnItsCpu DEF Leaving
<1>4. Typed'
  <2>1. ptlock' \in Cpus \cup {NoCpu} /\ tickslock' \in Cpus \cup {NoCpu}
    BY LocksTyped DEF IInv
  <2> QED BY <1>1, <1>2, <2>1 DEF Typed, TypeOK, Flags, local
<1>5. t \in Slots => (pc[t] \in Interrupted <=> back[t] # "idle")
  BY Start
<1> HIDE DEF t
<1>6. ASSUME NEW s \in Slots PROVE StateInv(s)'
  <2>1. CASE s = t
    BY <1>2, <1>3, <2>1 DEF StateInv, Switched, Leaving
  <2>2. CASE s # t
    <3>1. state[s] = "SLEEPING" => pc[s] \in {"waited", "woken"}
      BY Settled
    <3> QED BY <1>2, <2>2, <3>1, SlotKept DEF IInv
  <2> QED BY <2>1, <2>2
<1>7. Embryos'
  <2>1. \A s \in Slots : s = t => {Place(s)', Place(s)} \cap Forking = {} \/ Place(s)' = Place(s)
    BY <1>1, <1>2, <1>5 DEF Place, Forking, local, Interrupted, InTrap, t
  <2>2. \A s \in Slots : Place(s)' = Place(s) \/ {Place(s)', Place(s)} \cap Forking = {}
    BY <1>2, <2>1
  <2>3. Embryos /\ \A s \in Slots : state[s] = "EMBRYO" => state'[s] = "EMBRYO"
    BY DEF IInv
  <2>4. UNCHANGED <<np, kstack, parent>>
    BY DEF local
  <2> QED BY <1>1, <2>2, <2>3, <2>4, EmbryosKept
<1>8. \A s \in Slots : Live(s)' <=> Live(s)
  BY DEF Live
<1>9. Stacks'
  BY <1>2, <1>8 DEF IInv, Stacks
<1>10. Family'
  BY <1>1, <1>8, FamilyKept DEF IInv
<1>11. \A s \in Slots : Zombies(s)' = Zombies(s)
  BY DEF Zombies, Children
<1>12. NoZombieMissed'
  BY <1>11 DEF IInv, Sleepers, NoZombieMissed
<1>13. NoTickMissed'
  <2>1. SUFFICES ASSUME NEW s \in Slots, state[s] = "SLEEPING", chan[s] = Ticks, x # "trap"
                 PROVE  due[s] \/ \E d \in Cpus : pc'[Thread(d)] = "wake"
    BY <1>2 DEF NoTickMissed, local
  <2>2. pc[t] # "wake"
    BY <2>1 DEF t
  <2> QED BY <1>2, <2>1, <2>2 DEF IInv, Sleepers, NoTickMissed, t
<1>14. \A s \in Slots : pc'[s] = "doze" => due'[s]
  BY <1>2 DEF IInv, Sleepers, local
<1> QED BY <1>2, <1>4, <1>6, <1>7, <1>9, <1>10, <1>12, <1>13, <1>14 DEF IInv, Sleepers

LEMMA TickWakeKeeps ==
  ASSUME IInv, NEW c \in Cpus, TickWake(c)
  PROVE  IInv'
<1> DEFINE t == Thread(c)
<1>1. /\ pc[t] = "wake" /\ pc' = [pc EXCEPT ![t] = "trap"]
      /\ ptlock = NoCpu /\ tickslock' = NoCpu /\ Popcli(c, intena[c])
      /\ state' = Woken(state, Ticks)
      /\ UNCHANGED <<pid, parent, killed, chan, kstack, nextpid, ptlock, cproc, scan,
                     local, panicked>>
  BY DEF TickWake, Goto
<1>2. CpuInv(c) /\ ncli[c] = 1 /\ Typed /\ Thread(c)' = t
  BY <1>1, Start DEF IInv, Thread, CpuInv, InTable, InTicks, InCall, InTrap, Switched, Leaving
<1>3. Flags(c)
  BY <1>1, <1>2, FlagsKept, Types
<1>4. Locks(c)
  BY <1>1, <1>2, Start DEF Locks, CpuInv, InTable, InTicks, InCall, InTrap, Switched, Leaving
<1>5. CpuInv(c)'
  BY <1>1, <1>2, Start, Types DEF CpuInv, InTable, InTicks, InCall, InTrap, Switched, Leaving, Places, Clear, local, Popcli
<1>6. state' \in [Slots -> States] /\ killed' \in [Slots -> BOOLEAN]
  BY <1>1, <1>2, Types DEF Woken, States
<1>7. \A s \in Slots : /\ state'[s] = state[s]
                          \/ (state[s] = "SLEEPING" /\ state'[s] = "RUNNABLE")
                       /\ state[s] = "SLEEPING" /\ chan[s] = Ticks => state'[s] = "RUNNABLE"
  <2> SUFFICES ASSUME NEW s \in Slots
               PROVE  /\ state'[s] = state[s]
                         \/ (state[s] = "SLEEPING" /\ state'[s] = "RUNNABLE")
                      /\ state[s] = "SLEEPING" /\ chan[s] = Ticks => state'[s] = "RUNNABLE"
    OBVIOUS
  <2>1. state'[s] = IF state[s] = "SLEEPING" /\ chan[s] = Ticks THEN "RUNNABLE" ELSE state[s]
    BY <1>1 DEF Woken
  <2> QED BY <2>1
<1> QED BY <1>1, <1>3, <1>4, <1>5, <1>6, <1>7, WakesSome

LEMMA KillKeeps ==
  ASSUME IInv, NEW c \in Cpus, NEW p \in 0..MaxPid, Kill(c, p)
  PROVE  IInv'
<1> DEFINE t == Thread(c)
<1>1. /\ pc[t] = "kill" /\ pc' = [pc EXCEPT ![t] = "ret"] /\ ptlock = NoCpu
      /\ UNCHANGED <<pid, parent, chan, kstack, nextpid, ptlock, tickslock, cproc,
                     scan, cli, local, panicked>>
  BY DEF Kill, Goto
<1>2. CpuInv(c) /\ ncli[c] = 0 /\ Typed /\ Thread(c)' = t
  BY <1>1, Start DEF IInv, Thread, CpuInv, InTable, InTicks, InCall, InTrap, Switched, Leaving
<1>3. Flags(c)
  BY <1>1, <1>2, FlagsKept
<1>4. Locks(c)
  BY <1>1 DEF Locks
<1>5. CpuInv(c)'
  BY <1>1, <1>2, Start, Types DEF CpuInv, InTable, InTicks, InCall, InTrap, Switched, Leaving, Places, Clear, local, cli
<1>6. state' \in [Slots -> States] /\ killed' \in [Slots -> BOOLEAN]
      /\ \A s \in Slots : state'[s] = state[s]
                          \/ (state[s] = "SLEEPING" /\ state'[s] = "RUNNABLE")
  <2>1. state \in [Slots -> States] /\ killed \in [Slots -> BOOLEAN]
    BY <1>2, Types
  <2>2. ASSUME NEW s \in Slots, killed' = [killed EXCEPT ![s] = TRUE],
               state' = [state EXCEPT ![s] = IF @ = "SLEEPING" THEN "RUNNABLE" ELSE @]
        PROVE  /\ state' \in [Slots -> States] /\ killed' \in [Slots -> BOOLEAN]
               /\ \A r \in Slots : state'[r] = state[r]
                                   \/ (state[r] = "SLEEPING" /\ state'[r] = "RUNNABLE")
    <3>1. "RUNNABLE" \in States
      BY DEF States
    <3> QED BY <2>1, <2>2, <3>1
  <2>3. CASE UNCHANGED <<killed, state>>
    BY <2>1, <2>3
  <2> QED BY <2>2, <2>3 DEF Kill
<1> QED BY <1>1, <1>3, <1>4, <1>5, <1>6, WakesSome

-----------------------------------------------------------------------------
(* The switches.                                                           *)

\* A RUNNABLE process waits for a CPU in sched(), or has never run.
LEMMA Ready ==
  ASSUME IInv, NEW c \in Cpus, pc[Thread(c)] = "scan", NEW n \in Slots, state[n] = "RUNNABLE"
  PROVE  pc[n] \in Switched /\ ~OnCpu(n)
<1>1. ptlock = c /\ Thread(c) \notin Slots /\ Thread(c) = c /\ c \notin Slots
  BY Start DEF CpuInv, InTable
<1>2. pc[n] \notin Leaving
  <2> SUFFICES ASSUME pc[n] \in Leaving PROVE FALSE
    OBVIOUS
  <2>1. PICK d \in Cpus : ptlock = d /\ Thread(d) = n
    BY HolderIsOn
  <2> QED BY <1>1, <2>1
<1>3. StateInv(n)
  BY DEF IInv
<1> QED BY <1>2, <1>3 DEF StateInv

LEMMA RunKeeps ==
  ASSUME IInv, NEW c \in Cpus, Run(c)
  PROVE  IInv'
<1>0. PICK n \in Slots : n = Lowest(Found(c)) /\ state[n] = "RUNNABLE"
  <2>1. Found(c) \in SUBSET Slots /\ Found(c) # {}
    BY DEF Found, Run
  <2>2. Lowest(Found(c)) \in Found(c)
    BY <2>1, LowestIsLeast
  <2> QED BY <2>2 DEF Found
<1>1. /\ pc[Thread(c)] = "scan" /\ Found(c) # {}
      /\ cproc' = [cproc EXCEPT ![c] = n] /\ state' = [state EXCEPT ![n] = "RUNNING"]
      /\ UNCHANGED <<pid, parent, killed, chan, kstack, nextpid, ptlock, tickslock,
                     scan, cli, pc, local, panicked>>
  BY <1>0 DEF Run
<1>2. n \in Slots /\ state[n] = "RUNNABLE"
  BY <1>0
<1>3. pc[n] \in Switched /\ ~OnCpu(n)
  BY <1>1, <1>2, Ready
<1>4. /\ cproc[c] = 0 /\ Thread(c) = c /\ CpuInv(c) /\ Typed /\ OneCpu /\ 0 \notin Slots
      /\ pc[c] = "scan"
  BY <1>1, Start, Threads, ProcAssumption DEF IInv, Slots
<1>5. /\ cproc'[c] = n /\ \A d \in Cpus \ {c} : cproc'[d] = cproc[d]
      /\ state'[n] = "RUNNING" /\ \A s \in Slots \ {n} : state'[s] = state[s]
      /\ pc' = pc /\ back' = back /\ saved' = saved /\ np' = np /\ due' = due
      /\ ints' = ints /\ ncli' = ncli /\ intena' = intena
  BY <1>1, <1>2, <1>4, Types DEF cli, local
<1>6. Typed'
  <2>1. state' \in [Slots -> States]
    BY <1>1, <1>4, Types DEF States
  <2>2. cproc' \in [Cpus -> 0..NPROC]
    BY <1>1, <1>2, <1>4, Types, ProcAssumption DEF Slots
  <2> QED BY <1>1, <1>4, <2>1, <2>2 DEF Typed, TypeOK, cli, local
<1>7. OneCpu'
  BY <1>3, <1>4, <1>5 DEF OneCpu, OnCpu
<1>8. \A d \in Cpus \ {c} : Thread(d)' = Thread(d)
  BY <1>5 DEF Thread
<1>9. CpuInv(c)'
  <2>1. Thread(c)' = n
    BY <1>2, <1>4, <1>5 DEF Thread
  <2> QED BY <1>1, <1>2, <1>3, <1>4, <1>5, <2>1 DEF CpuInv, InTable, InTicks, InCall, InTrap, Switched, Leaving, Places, Clear
<1>10. Apart(c)
  BY <1>1, <1>5 DEF Apart
<1>11. \A d \in Cpus : CpuInv(d)'
  BY <1>9, <1>10, OthersKept DEF IInv
<1>12. OnCpu(n)' /\ \A s \in Slots \ {n} : OnCpu(s)' <=> OnCpu(s)
  BY <1>4, <1>5 DEF OnCpu
<1>13. ASSUME NEW s \in Slots PROVE StateInv(s)'
  <2>1. CASE s = n
    BY <1>3, <1>5, <1>12, <2>1 DEF StateInv, Switched, Leaving
  <2>2. CASE s # n
    BY <1>1, <1>5, <1>12, <2>2, SlotKept DEF IInv
  <2> QED BY <2>1, <2>2
<1>14. Kept'
  BY <1>5 DEF IInv, Kept
<1>15. Embryos'
  <2>1. Embryos /\ \A s \in Slots : state[s] = "EMBRYO" => state'[s] = "EMBRYO"
    BY <1>2, <1>5 DEF IInv
  <2>2. \A s \in Slots : Place(s)' = Place(s)
    BY <1>5 DEF Place
  <2> QED BY <1>1, <1>4, <1>5, <2>1, <2>2, EmbryosKept
<1>16. \A s \in Slots : (Live(s)' <=> Live(s)) /\ state[n] # "ZOMBIE"
  BY <1>2, <1>5 DEF Live
<1>17. Stacks'
  BY <1>1, <1>2, <1>12, <1>16 DEF IInv, Stacks, Live
<1>18. Family'
  BY <1>1, <1>2, <1>4, <1>5, <1>16, FamilyKept DEF IInv
<1>19. NoZombieMissed'
  <2>1. \A s \in Slots : Zombies(s)' = Zombies(s)
    BY <1>1, <1>2, <1>5 DEF Zombies, Children
  <2> QED BY <1>1, <1>2, <1>5, <2>1 DEF IInv, Sleepers, NoZombieMissed
<1>20. NoTickMissed'
  <2>1. SUFFICES ASSUME NEW s \in Slots, state[s] = "SLEEPING", chan[s] = Ticks
                 PROVE  due[s] \/ \E d \in Cpus : pc[Thread(d)'] = "wake"
    BY <1>1, <1>2, <1>5 DEF NoTickMissed
  <2>2. due[s] \/ \E d \in Cpus : pc[Thread(d)] = "wake"
    BY <2>1 DEF IInv, Sleepers, NoTickMissed
  <2> QED BY <1>1, <1>8, <2>2
<1>21. \A s \in Slots : pc'[s] = "doze" => due'[s]
  BY <1>5 DEF IInv, Sleepers
<1> QED BY <1>1, <1>6, <1>7, <1>11, <1>13, <1>14, <1>15, <1>17, <1>18, <1>19, <1>20, <1>21
        DEF IInv, Sleepers

LEMMA AfterIs ==
  /\ DOMAIN After = Leaving
  /\ After["yielding"] = "yielded" /\ After["waiting"] = "waited"
  /\ After["dozing"] = "woken" /\ After["dying"] = "dead"
BY DEF After, Leaving

\* sched() finds nothing to panic about, and what it leaves behind is ready.
LEMMA SchedKeeps ==
  ASSUME IInv, NEW c \in Cpus, Sched(c)
  PROVE  IInv'
<1>1. PICK s \in Slots : cproc[c] = s /\ pc[s] \in Leaving /\ Thread(c) = s /\ s # c
  BY Start, AfterIs DEF Sched
<1>2. /\ CpuInv(c) /\ Typed /\ OneCpu /\ pc[c] = "scan" /\ c \notin Slots
      /\ StateInv(s) /\ 0 \notin Slots
  BY <1>1, Start, ProcAssumption DEF IInv, Slots
<1>3. ~SchedPanics(c)
  <2>1. ptlock = c /\ ncli[c] = 1 /\ ~ints[c]
    BY <1>1, <1>2 DEF CpuInv, InTable
  <2>2. state[s] # "RUNNING"
    BY <1>1, <1>2 DEF StateInv, Leaving
  <2> QED BY <1>1, <2>1, <2>2 DEF SchedPanics
<1>4. /\ UNCHANGED <<table, ptlock, tickslock, cli, back, np, due, panicked>>
      /\ pc' = [pc EXCEPT ![s] = After[pc[s]]]
      /\ saved' = [saved EXCEPT ![s] = intena[c] /\ pc[s] # "dying"]
      /\ cproc' = [cproc EXCEPT ![c] = 0] /\ scan' = [scan EXCEPT ![c] = s + 1]
  BY <1>1, <1>3 DEF Sched
<1>5. /\ pc[s] = "yielding" => pc'[s] = "yielded" /\ ~saved'[s]
      /\ pc[s] = "waiting" => pc'[s] = "waited" /\ saved'[s]
      /\ pc[s] = "dozing" => pc'[s] = "woken" /\ saved'[s]
      /\ pc[s] = "dying" => pc'[s] = "dead"
      /\ pc' \in [Slots \cup Cpus -> Places]
  <2>1. pc'[s] = After[pc[s]] /\ (saved'[s] <=> intena[c] /\ pc[s] # "dying")
    BY <1>2, <1>4, Types
  <2>2. /\ pc[s] \in {"waiting", "dozing"} => intena[c]
        /\ pc[s] = "yielding" => ~intena[c]
    BY <1>1, <1>2 DEF CpuInv
  <2>3. After[pc[s]] \in Places
    BY <1>1, AfterIs DEF Leaving, Places, InTable, Switched
  <2> QED BY <1>2, <1>4, <2>1, <2>2, <2>3, AfterIs, Types
<1>6. /\ \A d \in Cpus : cproc'[d] = IF d = c THEN 0 ELSE cproc[d]
      /\ \A t \in (Slots \cup Cpus) \ {s} : pc'[t] = pc[t]
      /\ \A t \in Slots \ {s} : saved'[t] = saved[t]
      /\ state' = state /\ chan' = chan /\ back' = back /\ np' = np /\ due' = due
      /\ ints' = ints /\ ncli' = ncli /\ intena' = intena
  BY <1>2, <1>4, Types DEF table, cli
<1>7. Typed'
  <2>1. saved' \in [Slots -> BOOLEAN]
    BY <1>2, <1>4, Types
  <2>2. cproc' \in [Cpus -> 0..NPROC] /\ scan' \in [Cpus -> 1..NPROC + 1]
    <3>1. 0 \in 0..NPROC /\ s + 1 \in 1..NPROC + 1
      BY ProcAssumption DEF Slots
    <3> QED BY <1>2, <1>4, <3>1, Types
  <2> QED BY <1>2, <1>4, <1>5, <2>1, <2>2 DEF Typed, TypeOK, cli, table
<1>8. OneCpu'
  BY <1>2, <1>6 DEF OneCpu
<1>9. \A d \in Cpus \ {c} : Thread(d)' = Thread(d) /\ Thread(d) # s /\ d # s
                           /\ Thread(d) \in Slots \cup Cpus
  BY <1>1, <1>6, Start DEF Thread
<1>10. Apart(c)
  BY <1>4, <1>6, <1>9 DEF Apart, table, cli
<1>11. CpuInv(c)'
  <2>1. Thread(c)' = c /\ pc'[c] = "scan" /\ cproc'[c] = 0
    BY <1>1, <1>2, <1>6, Start DEF Thread
  <2> QED BY <1>1, <1>2, <1>4, <1>6, <2>1 DEF CpuInv, InTable, InTicks, InCall, InTrap, Switched, Leaving
<1>12. \A d \in Cpus : CpuInv(d)'
  BY <1>10, <1>11, OthersKept DEF IInv
<1>13. ~OnCpu(s)' /\ \A t \in Slots \ {s} : OnCpu(t)' <=> OnCpu(t)
  BY <1>1, <1>2, <1>6 DEF OnCpu, OneCpu
<1>14. pc'[s] \in Switched \cup {"dead"}
  BY <1>1, <1>5 DEF Leaving, Switched
<1>15. ASSUME NEW t \in Slots PROVE StateInv(t)'
  <2>1. CASE t = s
    <3>1. /\ pc[s] = "yielding" => state[s] = "RUNNABLE"
          /\ pc[s] \in {"waiting", "dozing"} => state[s] = "SLEEPING"
          /\ pc[s] = "dying" => state[s] = "ZOMBIE"
          /\ pc[s] = "waiting" => chan[s] = s
          /\ pc[s] = "dozing" => chan[s] = Ticks
      BY <1>2 DEF StateInv
    <3> QED BY <1>1, <1>5, <1>6, <1>13, <2>1, <3>1 DEF StateInv, Switched, Leaving
  <2>2. CASE t # s
    BY <1>6, <1>13, <2>2, SlotKept DEF IInv
  <2> QED BY <2>1, <2>2
<1>16. Kept'
  <2>1. pc'[s] \in Interrupted <=> pc[s] \in Interrupted
    BY <1>1, <1>5 DEF Leaving, Interrupted, InTrap
  <2> QED BY <1>1, <1>5, <1>6, <2>1 DEF IInv, Kept, Leaving
<1>17. Embryos'
  <2>1. ASSUME NEW t \in Slots
        PROVE  Place(t)' = Place(t) \/ {Place(t)', Place(t)} \cap Forking = {}
    <3>1. CASE t = s
      BY <1>1, <1>6, <1>14, <3>1 DEF Place, Forking, Leaving, Switched
    <3>2. CASE t # s
      BY <1>6, <3>2 DEF Place
    <3> QED BY <3>1, <3>2
  <2> QED BY <1>2, <1>4, <1>6, <2>1, EmbryosKept DEF IInv, table
<1>18. Stacks' /\ Family' /\ panicked' # "sched"
  BY <1>4, <1>13 DEF IInv, Stacks, Family, ProcessTree, Live, table
<1>19. NoZombieMissed'
  BY <1>4 DEF IInv, Sleepers, NoZombieMissed, Zombies, Children, table
<1>20. NoTickMissed'
  <2>1. SUFFICES ASSUME NEW t \in Slots, state[t] = "SLEEPING", chan[t] = Ticks
                 PROVE  due[t] \/ \E d \in Cpus : pc'[Thread(d)'] = "wake"
    BY <1>6 DEF NoTickMissed
  <2>2. due[t] \/ \E d \in Cpus : pc[Thread(d)] = "wake"
    BY <2>1 DEF IInv, Sleepers, NoTickMissed
  <2>3. pc[Thread(c)] # "wake"
    BY <1>1 DEF Leaving
  <2> QED BY <1>6, <1>9, <2>2, <2>3
<1>21. \A t \in Slots : pc'[t] = "doze" => due'[t]
  BY <1>6, <1>14 DEF IInv, Sleepers, Switched
<1> QED BY <1>7, <1>8, <1>12, <1>15, <1>16, <1>17, <1>18, <1>19, <1>20, <1>21
        DEF IInv, Sleepers

LEMMA ExitPanicsKeeps ==
  ASSUME IInv, NEW c \in Cpus, ExitPanics(c)
  PROVE  IInv'
<1>1. /\ panicked' = "init exiting"
      /\ UNCHANGED <<table, ptlock, tickslock, cproc, scan, cli, pc, local>>
  BY DEF ExitPanics
<1>2. Typed' /\ OneCpu' /\ Kept'
  BY <1>1 DEF IInv, Typed, TypeOK, OneCpu, Kept, table, cli, local
<1>3. \A d \in Cpus : CpuInv(d)'
  BY <1>1 DEF IInv, CpuInv, Thread, cli, local
<1>4. \A s \in Slots : StateInv(s)'
  BY <1>1 DEF IInv, StateInv, OnCpu, table
<1>5. Embryos' /\ Stacks' /\ Family'
  BY <1>1 DEF IInv, Embryos, Place, Stacks, OnCpu, Live, Family, ProcessTree, table, local
<1>6. Sleepers'
  BY <1>1 DEF IInv, Sleepers, NoZombieMissed, NoTickMissed, Zombies, Children, Thread, table,
             local
<1> QED BY <1>1, <1>2, <1>3, <1>4, <1>5, <1>6 DEF IInv

-----------------------------------------------------------------------------
(* fork()                                                                  *)

\* A slot that is nobody's yet, or is being filled, has no thread.
LEMMA Unborn ==
  ASSUME IInv, NEW n \in Slots, state[n] \in {"UNUSED", "EMBRYO"}
  PROVE  pc[n] = "dead" /\ n # initproc /\ ~OnCpu(n)
<1>1. StateInv(n) /\ Live(initproc)
  BY DEF IInv, Family
<1> QED BY <1>1 DEF StateInv, Live, Leaving

\* A step of fork() with t's new slot n, up to where it is published.
ForkStep(c, n, x, v) ==
  LET t == Thread(c) IN
  /\ t \in Slots /\ n # t /\ pc[t] \in {"fork", "stack", "copy"}
  /\ pc' = [pc EXCEPT ![t] = x]
  /\ state[n] \in {"UNUSED", "EMBRYO"} /\ state' = [state EXCEPT ![n] = v]
  /\ np' = [np EXCEPT ![t] = IF v = "EMBRYO" THEN n ELSE 0]
  /\ \A s \in Slots \ {t} : np[s] # n
  /\ v = "EMBRYO" <=> x \in Forking
  /\ \/ /\ UNCHANGED <<pid, nextpid>>
        /\ v = "EMBRYO" => state[n] = "EMBRYO"
     \/ /\ nextpid <= MaxPid
        /\ pid' = [pid EXCEPT ![n] = nextpid] /\ nextpid' = nextpid + 1
  /\ parent' = [parent EXCEPT ![n] = IF x = "publish" THEN t ELSE @]
  /\ \E k \in BOOLEAN : kstack' = [kstack EXCEPT ![n] = k]
  /\ x \in {"copy", "publish"} => kstack'[n]
  /\ UNCHANGED <<killed, chan, ptlock, tickslock, cproc, scan, cli, back, saved, due,
                 panicked>>

LEMMA ForkStepKeeps ==
  ASSUME IInv, NEW c \in Cpus, NEW n \in Slots, NEW x \in Forking \cup {"ret"},
         NEW v \in {"UNUSED", "EMBRYO"}, ForkStep(c, n, x, v)
  PROVE  IInv'
<1>1. PICK t \in Slots : t = Thread(c)
  BY DEF ForkStep
<1>2. /\ n # t /\ pc[t] \in {"fork", "stack", "copy"} /\ pc' = [pc EXCEPT ![t] = x]
      /\ state[n] \in {"UNUSED", "EMBRYO"} /\ state' = [state EXCEPT ![n] = v]
      /\ np' = [np EXCEPT ![t] = IF v = "EMBRYO" THEN n ELSE 0]
      /\ \A s \in Slots \ {t} : np[s] # n
      /\ v = "EMBRYO" <=> x \in Forking
      /\ parent' = [parent EXCEPT ![n] = IF x = "publish" THEN t ELSE @]
      /\ x \in {"copy", "publish"} => kstack'[n]
      /\ UNCHANGED <<killed, chan, ptlock, tickslock, cproc, scan, cli, back, saved, due,
                     panicked>>
  BY <1>1 DEF ForkStep
<1>3. /\ Typed /\ x \in Places /\ x \notin {"waited", "woken", "yielded"}
      /\ (x \in Interrupted <=> pc[t] \in Interrupted)
      /\ cproc[c] = t /\ CpuInv(c) /\ t # c /\ pc[c] = "scan" /\ c \notin Slots
      /\ back[t] = "idle" /\ state[t] = "RUNNING" /\ OnCpu(t)
  BY <1>1, <1>2, Start, OnItsCpu
     DEF IInv, Forking, Places, Clear, InCall, InTrap, Interrupted, Leaving
<1>4. Flags(c) /\ Locks(c)
  BY <1>2, <1>3, FlagsKept DEF Locks
<1>5. CpuInv(c)'
  <2>1. Thread(c)' = t /\ pc'[t] = x /\ pc'[c] = "scan" /\ cproc'[c] = t
    BY <1>1, <1>2, <1>3, Types DEF Thread
  <2> QED BY <1>1, <1>2, <1>3, <2>1 DEF CpuInv, InTable, InTicks, InCall, InTrap, Switched, Leaving, Places, Clear, Forking, cli
<1>6. /\ OneCpu' /\ Kept' /\ \A d \in Cpus : CpuInv(d)' /\ Thread(d)' = Thread(d)
      /\ \A s \in Slots : /\ OnCpu(s)' <=> OnCpu(s)
                          /\ s # t => pc'[s] = pc[s] /\ Place(s)' = Place(s)
      /\ pc' \in [Slots \cup Cpus -> Places] /\ pc'[t] = x
      /\ \A d \in Cpus \ {c} : pc'[Thread(d)] = pc[Thread(d)]
  <2>1. /\ pc' = [pc EXCEPT ![Thread(c)] = x] /\ UNCHANGED <<cproc, back, saved>>
        /\ x \in Interrupted <=> pc[Thread(c)] \in Interrupted
        /\ x \in Places /\ x \notin {"waited", "woken", "yielded"}
    BY <1>1, <1>2, <1>3
  <2> QED BY <1>1, <1>4, <1>5, <2>1, Moved
<1>7. /\ state \in [Slots -> States] /\ state'[n] = v
      /\ \A s \in Slots \ {n} : state'[s] = state[s] /\ parent'[s] = parent[s]
                                /\ kstack'[s] = kstack[s]
      /\ np'[t] = (IF v = "EMBRYO" THEN n ELSE 0) /\ \A s \in Slots \ {t} : np'[s] = np[s]
      /\ kstack' \in [Slots -> BOOLEAN]
  <2>1. PICK k \in BOOLEAN : kstack' = [kstack EXCEPT ![n] = k]
    BY DEF ForkStep
  <2> QED BY <1>2, <1>3, <2>1, Types
<1>8. Typed'
  <2>1. state' \in [Slots -> States] /\ parent' \in [Slots -> 0..NPROC]
    <3>1. t \in 0..NPROC
      BY ProcAssumption DEF Slots
    <3> QED BY <1>2, <1>3, <3>1, Types DEF States
  <2>2. np' \in [Slots -> 0..NPROC]
    <3>1. n \in 0..NPROC /\ 0 \in 0..NPROC
      BY ProcAssumption DEF Slots
    <3> QED BY <1>2, <1>3, <3>1, Types
  <2>3. pid' \in [Slots -> 0..MaxPid] /\ nextpid' \in 1..MaxPid + 1
    <3>1. pid \in [Slots -> 0..MaxPid] /\ nextpid \in 1..MaxPid + 1 /\ MaxPid \in Nat
      BY <1>3, Types, ProcAssumption
    <3>2. CASE UNCHANGED <<pid, nextpid>>
      BY <3>1, <3>2
    <3>3. CASE nextpid <= MaxPid /\ pid' = [pid EXCEPT ![n] = nextpid] /\ nextpid' = nextpid + 1
      <4>1. nextpid \in 0..MaxPid /\ nextpid + 1 \in 1..MaxPid + 1
        BY <3>1, <3>3
      <4> QED BY <3>1, <3>3, <4>1
    <3> QED BY <3>2, <3>3 DEF ForkStep
  <2> QED BY <1>2, <1>3, <1>6, <1>7, <2>1, <2>2, <2>3 DEF Typed, TypeOK, cli
<1>9. pc[n] = "dead" /\ n # initproc /\ ~OnCpu(n)
  BY <1>2, Unborn
<1>10. ASSUME NEW s \in Slots PROVE StateInv(s)'
  <2>1. CASE s = t
    BY <1>2, <1>3, <1>6, <1>7, <2>1 DEF StateInv, Switched, Leaving, Forking
  <2>2. CASE s = n
    BY <1>2, <1>6, <1>7, <1>9, <2>2 DEF StateInv, Switched, Leaving
  <2>3. CASE s # t /\ s # n
    BY <1>2, <1>6, <1>7, <2>3, SlotKept DEF IInv
  <2> QED BY <2>1, <2>2, <2>3
<1>11. Embryos'
  <2>1. Place(t)' = x /\ Place(n) = "dead" /\ Place(n)' = "dead"
    <3>1. back[n] = "idle"
      BY <1>9 DEF IInv, Kept, Interrupted, InTrap
    <3> QED BY <1>2, <1>3, <1>6, <1>9, <3>1 DEF Place
  <2>2. \A s \in Slots \ {t} : np[s] # 0 => np[s] \in Slots /\ np[s] # n
    <3>1. np \in [Slots -> 0..NPROC]
      BY <1>3, Types
    <3> QED BY <1>2, <3>1, SlotNumbers
  <2>3. n # 0
    BY ProcAssumption DEF Slots
  <2>4. parent'[n] = t \/ x # "publish"
    BY <1>2, <1>3, Types
  <2>5. \A s \in Slots : np'[s] # 0 <=> Place(s)' \in Forking
    BY <1>2, <1>6, <1>7, <2>1, <2>3 DEF IInv, Embryos, Forking
  <2>6. \A s \in Slots : np'[s] # 0 => state'[np'[s]] = "EMBRYO"
    BY <1>2, <1>7, <2>2 DEF IInv, Embryos
  <2>7. \A s, r \in Slots : np'[s] # 0 /\ np'[s] = np'[r] => s = r
    BY <1>2, <1>7, <2>2 DEF IInv, Embryos
  <2>8. \A s \in Slots : /\ Place(s)' \in {"copy", "publish"} => kstack'[np'[s]]
                         /\ Place(s)' = "publish" => parent'[np'[s]] = s
    <3> SUFFICES ASSUME NEW s \in Slots
                 PROVE  /\ Place(s)' \in {"copy", "publish"} => kstack'[np'[s]]
                        /\ Place(s)' = "publish" => parent'[np'[s]] = s
      OBVIOUS
    <3>1. CASE s = t
      BY <1>2, <1>7, <2>1, <2>4, <3>1 DEF Forking
    <3>2. CASE s # t
      <4>1. Place(s)' = Place(s) /\ np'[s] = np[s]
        BY <1>6, <1>7, <3>2
      <4>2. Place(s) \in Forking => np[s] \in Slots \ {n}
        BY <2>2, <3>2 DEF IInv, Embryos, Forking
      <4> QED BY <1>7, <4>1, <4>2 DEF IInv, Embryos, Forking
    <3> QED BY <3>1, <3>2
  <2> QED BY <2>5, <2>6, <2>7, <2>8 DEF Embryos, Forking
<1>12. \A s \in Slots : (Live(s)' <=> Live(s)) /\ ~Live(n)
  BY <1>2, <1>7 DEF Live
<1>13. Stacks'
  BY <1>6, <1>7, <1>9, <1>12 DEF IInv, Stacks
<1>14. Family'
  <2>1. /\ Family /\ initproc \in Slots
        /\ pid \in [Slots -> 0..MaxPid] /\ nextpid \in 1..MaxPid + 1 /\ MaxPid \in Nat
    BY <1>3, Types, ProcAssumption, SlotNumbers DEF IInv
  <2>2. (\A s \in Slots : pid'[s] < nextpid')
        /\ \A s, r \in Slots :
             s # r /\ state'[s] # "UNUSED" /\ state'[r] # "UNUSED" => pid'[s] # pid'[r]
    <3>1. CASE UNCHANGED <<pid, nextpid>> /\ (v = "EMBRYO" => state[n] = "EMBRYO")
      BY <1>2, <1>7, <2>1, <3>1 DEF Family, ProcessTree
    <3>2. CASE pid' = [pid EXCEPT ![n] = nextpid] /\ nextpid' = nextpid + 1
      <4>1. pid'[n] = nextpid /\ \A s \in Slots \ {n} : pid'[s] = pid[s] /\ pid[s] < nextpid
        BY <2>1, <3>2 DEF Family
      <4>2. \A s \in Slots : pid'[s] < nextpid'
        BY <2>1, <3>2, <4>1
      <4>3. \A s \in Slots \ {n} : pid'[s] # pid'[n]
        BY <2>1, <4>1
      <4> QED BY <1>7, <2>1, <4>1, <4>2, <4>3 DEF Family, ProcessTree
    <3> QED BY <3>1, <3>2 DEF ForkStep
  <2>3. \A s \in Slots : parent'[s] # s
    BY <1>2, <1>3, <1>7, <2>1, Types DEF Family
  <2>4. Live(initproc)' /\ parent'[initproc] = 0
    BY <1>7, <1>9, <1>12, <2>1 DEF Family
  <2>5. ASSUME NEW s \in Slots, Live(s)' \/ state'[s] = "ZOMBIE", s # initproc
        PROVE  (parent[s] # 0 /\ Live(parent[s]))'
    <3>1. s # n /\ (Live(s) \/ state[s] = "ZOMBIE") /\ parent'[s] = parent[s]
      BY <1>2, <1>7, <1>12, <2>5
    <3>2. parent[s] # 0 /\ Live(parent[s]) /\ parent[s] \in Slots
      <4>1. parent \in [Slots -> 0..NPROC]
        BY <1>3, Types
      <4> QED BY <2>1, <2>5, <3>1, <4>1, SlotNumbers DEF Family, ProcessTree
    <3>3. Live(parent[s])'
      <4>1. PICK r \in Slots : r = parent[s]
        BY <3>2
      <4>2. Live(r)'
        BY <1>12, <3>2, <4>1
      <4> QED BY <3>1, <4>1, <4>2
    <3> QED BY <3>1, <3>2, <3>3
  <2> QED BY <2>2, <2>3, <2>4, <2>5 DEF Family, ProcessTree
<1>15. NoZombieMissed'
  <2>1. \A s \in Slots : Zombies(s)' = Zombies(s)
    BY <1>2, <1>7 DEF Zombies, Children
  <2> QED BY <1>2, <1>7, <2>1 DEF IInv, Sleepers, NoZombieMissed
<1>16. NoTickMissed'
  <2>1. SUFFICES ASSUME NEW s \in Slots, state[s] = "SLEEPING", chan[s] = Ticks
                 PROVE  due[s] \/ \E d \in Cpus : pc'[Thread(d)] = "wake"
    BY <1>2, <1>6, <1>7 DEF NoTickMissed
  <2> QED BY <1>1, <1>2, <1>6, <2>1 DEF IInv, Sleepers, NoTickMissed
<1>17. \A s \in Slots : pc'[s] = "doze" => due'[s]
  BY <1>2, <1>6 DEF IInv, Sleepers, Forking
<1>18. panicked' # "sched"
  BY <1>2 DEF IInv
<1> QED BY <1>6, <1>8, <1>10, <1>11, <1>13, <1>14, <1>15, <1>16, <1>17, <1>18 DEF IInv, Sleepers

\* The slot a forking thread fills is its own.
LEMMA Filling ==
  ASSUME IInv, NEW c \in Cpus, pc[Thread(c)] \in Forking
  PROVE  /\ Thread(c) \in Slots /\ cproc[c] = Thread(c) /\ np[Thread(c)] \in Slots
         /\ state[np[Thread(c)]] = "EMBRYO" /\ np[Thread(c)] # Thread(c)
         /\ \A s \in Slots \ {Thread(c)} : np[s] # np[Thread(c)]
         /\ pc[Thread(c)] \in {"copy", "publish"} => kstack[np[Thread(c)]]
         /\ pc[Thread(c)] = "publish" => parent[np[Thread(c)]] = Thread(c)
<1>1. PICK t \in Slots : t = Thread(c) /\ cproc[c] = t
  BY Start DEF Forking
<1>2. state[t] = "RUNNING" /\ back[t] = "idle" /\ pc[t] \in Forking
  BY <1>1, Start, OnItsCpu DEF Forking, Leaving, Interrupted, InTrap
<1>3. Place(t) = pc[t] /\ Embryos /\ np \in [Slots -> 0..NPROC]
  BY <1>2, Types DEF Place, IInv
<1>4. np[t] # 0
  BY <1>2, <1>3 DEF Embryos, Forking
<1>5. np[t] \in Slots /\ state[np[t]] = "EMBRYO"
  BY <1>3, <1>4, SlotNumbers DEF Embryos
<1>6. \A s \in Slots \ {t} : np[s] # np[t]
  BY <1>3, <1>4 DEF Embryos
<1>7. /\ pc[t] \in {"copy", "publish"} => kstack[np[t]]
      /\ pc[t] = "publish" => parent[np[t]] = t
  BY <1>3 DEF Embryos
<1> QED BY <1>1, <1>2, <1>5, <1>6, <1>7

LEMMA AllocprocKeeps ==
  ASSUME IInv, NEW c \in Cpus, Allocproc(c)
  PROVE  IInv'
<1>1. PICK t \in Slots : t = Thread(c) /\ cproc[c] = t /\ pc[t] = "fork"
  BY Start DEF Allocproc, Goto
<1>2. CpuInv(c) /\ Typed /\ state[t] = "RUNNING" /\ t # c
  BY <1>1, Start, OnItsCpu DEF IInv, Leaving
<1>3. ASSUME Unused # {}, nextpid <= MaxPid, NEW n, n = Lowest(Unused),
             pc' = [pc EXCEPT ![t] = "stack"], np' = [np EXCEPT ![t] = n],
             state' = [state EXCEPT ![n] = "EMBRYO"], pid' = [pid EXCEPT ![n] = nextpid],
             nextpid' = nextpid + 1,
             UNCHANGED <<parent, killed, chan, kstack, ptlock, tickslock, cproc, scan,
                         cli, back, saved, due, panicked>>
      PROVE  IInv'
  <2>1. n \in Slots /\ state[n] = "UNUSED"
    <3>1. Unused \in SUBSET Slots
      BY DEF Unused
    <3>2. n \in Unused
      BY <1>3, <3>1, LowestIsLeast
    <3> QED BY <3>2 DEF Unused
  <2>2. \A s \in Slots : np[s] # n
    BY <2>1, SlotNumbers DEF IInv, Embryos
  <2>3. parent' = [parent EXCEPT ![n] = @] /\ kstack' = [kstack EXCEPT ![n] = kstack[n]]
        /\ kstack[n] \in BOOLEAN
    BY <1>2, <1>3, <2>1, Types
  <2>4. ForkStep(c, n, "stack", "EMBRYO")
    BY <1>1, <1>2, <1>3, <2>1, <2>2, <2>3 DEF ForkStep, Forking
  <2> QED BY <2>1, <2>4, ForkStepKeeps DEF Forking
<1>4. ASSUME pc' = [pc EXCEPT ![t] = "ret"],
             UNCHANGED <<np, state, pid, nextpid, parent, killed, chan, kstack, ptlock,
                         tickslock, cproc, scan, cli, back, saved, due, panicked>>
      PROVE  IInv'
  <2>1. Flags(c) /\ Locks(c) /\ Memory(c)
    BY <1>2, <1>4, FlagsKept, MemoryKept DEF Locks
  <2>2. CpuInv(c)'
    BY <1>1, <1>2, <1>4, Start, Types DEF Thread, CpuInv, InTable, InTicks, InCall, InTrap, Switched, Leaving, Places, Clear, cli
  <2>3. Own(t, "ret")
    BY <1>1, <1>4, Start DEF Own, Place, Forking, Interrupted, InTrap
  <2> QED BY <1>1, <1>4, <2>1, <2>2, <2>3, QuietStep DEF Awake, Clear, InCall, Leaving
<1> QED BY <1>1, <1>3, <1>4 DEF Allocproc, Goto

LEMMA StackKeeps ==
  ASSUME IInv, NEW c \in Cpus, Stack(c)
  PROVE  IInv'
<1>1. PICK t \in Slots : t = Thread(c) /\ cproc[c] = t /\ pc[t] = "stack"
  BY Start DEF Stack, Goto
<1>2. PICK n \in Slots : /\ n = np[t] /\ state[n] = "EMBRYO" /\ n # t
                         /\ \A s \in Slots \ {t} : np[s] # n
  BY <1>1, Filling DEF Forking
<1>3. /\ Typed
      /\ state' = [state EXCEPT ![n] = @] <=> state' = state
      /\ np' = [np EXCEPT ![t] = n] <=> np' = np
      /\ parent' = [parent EXCEPT ![n] = @] <=> parent' = parent
      /\ kstack' = [kstack EXCEPT ![n] = kstack[n]] <=> kstack' = kstack
      /\ kstack[n] \in BOOLEAN
  BY <1>2, Types DEF IInv
<1>4. UNCHANGED <<pid, parent, killed, chan, nextpid, ptlock, tickslock, cproc,
                  scan, cli, back, saved, due, panicked>>
  BY DEF Stack
<1>5. CASE pc' = [pc EXCEPT ![t] = "copy"] /\ kstack' = [kstack EXCEPT ![n] = TRUE]
           /\ UNCHANGED <<state, np>>
  <2>1. kstack'[n] /\ state' = [state EXCEPT ![n] = "EMBRYO"]
    BY <1>2, <1>3, <1>5, Types
  <2>2. ForkStep(c, n, "copy", "EMBRYO")
    BY <1>1, <1>2, <1>3, <1>4, <1>5, <2>1 DEF ForkStep, Forking
  <2> QED BY <2>2, ForkStepKeeps DEF Forking
<1>6. CASE pc' = [pc EXCEPT ![t] = "ret"] /\ state' = [state EXCEPT ![n] = "UNUSED"]
           /\ np' = [np EXCEPT ![t] = 0] /\ UNCHANGED kstack
  <2>1. ForkStep(c, n, "ret", "UNUSED")
    BY <1>1, <1>2, <1>3, <1>4, <1>6 DEF ForkStep, Forking
  <2> QED BY <2>1, ForkStepKeeps DEF Forking
<1> QED BY <1>1, <1>2, <1>5, <1>6 DEF Stack, Goto

LEMMA CopyKeeps ==
  ASSUME IInv, NEW c \in Cpus, Copy(c)
  PROVE  IInv'
<1>1. PICK t \in Slots : t = Thread(c) /\ cproc[c] = t /\ pc[t] = "copy"
  BY Start DEF Copy, Goto
<1>2. PICK n \in Slots : /\ n = np[t] /\ state[n] = "EMBRYO" /\ n # t /\ kstack[n]
                         /\ \A s \in Slots \ {t} : np[s] # n
  BY <1>1, Filling DEF Forking
<1>3. /\ Typed
      /\ state' = [state EXCEPT ![n] = @] <=> state' = state
      /\ np' = [np EXCEPT ![t] = n] <=> np' = np
      /\ parent' = [parent EXCEPT ![n] = @] <=> parent' = parent
      /\ kstack' = [kstack EXCEPT ![n] = kstack[n]] <=> kstack' = kstack
      /\ kstack[n] \in BOOLEAN
  BY <1>2, Types DEF IInv
<1>4. UNCHANGED <<pid, killed, chan, nextpid, ptlock, tickslock, cproc,
                  scan, cli, back, saved, due, panicked>>
  BY DEF Copy
<1>5. CASE pc' = [pc EXCEPT ![t] = "publish"] /\ parent' = [parent EXCEPT ![n] = t]
           /\ UNCHANGED <<state, kstack, np>>
  <2>1. state' = [state EXCEPT ![n] = "EMBRYO"] /\ kstack'[n]
    BY <1>2, <1>3, <1>5, Types
  <2>2. ForkStep(c, n, "publish", "EMBRYO")
    BY <1>1, <1>2, <1>3, <1>4, <1>5, <2>1 DEF ForkStep, Forking
  <2> QED BY <2>2, ForkStepKeeps DEF Forking
<1>6. CASE pc' = [pc EXCEPT ![t] = "ret"] /\ kstack' = [kstack EXCEPT ![n] = FALSE]
           /\ state' = [state EXCEPT ![n] = "UNUSED"] /\ np' = [np EXCEPT ![t] = 0]
           /\ UNCHANGED parent
  <2>1. ForkStep(c, n, "ret", "UNUSED")
    BY <1>1, <1>2, <1>3, <1>4, <1>6 DEF ForkStep, Forking
  <2> QED BY <2>1, ForkStepKeeps DEF Forking
<1> QED BY <1>1, <1>2, <1>5, <1>6 DEF Copy, Goto

LEMMA PublishKeeps ==
  ASSUME IInv, NEW c \in Cpus, Publish(c)
  PROVE  IInv'
<1>1. PICK t \in Slots : t = Thread(c) /\ cproc[c] = t /\ pc[t] = "publish"
  BY Start DEF Publish
<1>2. PICK n \in Slots : /\ n = np[t] /\ state[n] = "EMBRYO" /\ n # t /\ kstack[n]
                         /\ \A s \in Slots \ {t} : np[s] # n
                         /\ parent[n] = t
  BY <1>1, Filling DEF Forking
<1>3. /\ state' = [state EXCEPT ![n] = "RUNNABLE"]
      /\ pc' = [pc EXCEPT ![t] = "ret", ![n] = "forkret"]
      /\ np' = [np EXCEPT ![t] = 0] /\ ptlock = NoCpu
      /\ UNCHANGED <<pid, parent, killed, chan, kstack, nextpid, ptlock, tickslock,
                     cproc, scan, cli, back, saved, due, panicked>>
  BY <1>1, <1>2 DEF Publish
<1>4. /\ Typed /\ OneCpu /\ CpuInv(c) /\ t # c /\ pc[c] = "scan" /\ c \notin Slots
      /\ c \in Slots \cup Cpus
      /\ back[t] = "idle" /\ state[t] = "RUNNING" /\ OnCpu(t)
  BY <1>1, Start, OnItsCpu DEF IInv, Leaving, Interrupted, InTrap
<1>5. pc[n] = "dead" /\ n # initproc /\ ~OnCpu(n) /\ back[n] = "idle"
  <2>1. pc[n] = "dead" /\ n # initproc /\ ~OnCpu(n)
    BY <1>2, Unborn
  <2> QED BY <2>1 DEF IInv, Kept, Interrupted, InTrap
<1>6. /\ pc'[t] = "ret" /\ pc'[n] = "forkret"
      /\ \A u \in (Slots \cup Cpus) \ {t, n} : pc'[u] = pc[u]
      /\ pc' \in [Slots \cup Cpus -> Places]
      /\ state'[n] = "RUNNABLE" /\ \A s \in Slots \ {n} : state'[s] = state[s]
      /\ np'[t] = 0 /\ \A s \in Slots \ {t} : np'[s] = np[s]
  <2>1. "ret" \in Places /\ "forkret" \in Places
    BY DEF Places, Clear, InCall, InTable, Switched
  <2> QED BY <1>2, <1>3, <1>4, <2>1, Types
<1>7. Typed'
  <2>1. state' \in [Slots -> States] /\ np' \in [Slots -> 0..NPROC]
    BY <1>3, <1>4, Types, SlotNumbers DEF States
  <2> QED BY <1>3, <1>4, <1>6, <2>1 DEF Typed, TypeOK, cli
<1>8. \A d \in Cpus : Thread(d)' = Thread(d) /\ Thread(d) # n
  <2>1. \A d \in Cpus : cproc[d] # n /\ d # n
    BY <1>5, Threads DEF OnCpu, IInv
  <2> QED BY <1>3, <2>1 DEF Thread
<1>9. Apart(c)
  <2>1. \A d \in Cpus \ {c} : Thread(d) # t /\ d # t /\ d # n /\ Thread(d) \in Slots \cup Cpus
    BY <1>1, <1>2, Start, Threads DEF IInv
  <2> QED BY <1>3, <1>6, <1>8, <2>1 DEF Apart, cli
<1>10. CpuInv(c)'
  <2>1. Thread(c)' = t /\ pc'[c] = "scan" /\ cproc'[c] = t
    BY <1>1, <1>2, <1>3, <1>4, <1>6, <1>8
  <2> QED BY <1>1, <1>3, <1>4, <1>6, <2>1 DEF CpuInv, InTable, InTicks, InCall, InTrap, Switched, Leaving, Places, Clear, cli
<1>11. \A d \in Cpus : CpuInv(d)'
  BY <1>9, <1>10, OthersKept DEF IInv
<1>12. \A s \in Slots : OnCpu(s)' <=> OnCpu(s)
  BY <1>3 DEF OnCpu
<1>13. ASSUME NEW s \in Slots PROVE StateInv(s)'
  <2>1. CASE s = t
    BY <1>2, <1>4, <1>6, <1>12, <2>1 DEF StateInv, Switched, Leaving
  <2>2. CASE s = n
    BY <1>5, <1>6, <1>12, <2>2 DEF StateInv, Switched, Leaving
  <2>3. CASE s # t /\ s # n
    BY <1>3, <1>6, <1>12, <2>3, SlotKept DEF IInv
  <2> QED BY <2>1, <2>2, <2>3
<1>14. OneCpu' /\ Kept' /\ panicked' # "sched"
  BY <1>1, <1>3, <1>5, <1>6 DEF IInv, OneCpu, Kept, Interrupted, InTrap
<1>15. Embryos'
  <2>1. Place(t)' = "ret" /\ Place(n)' = "forkret" /\ Place(n) = "dead" /\ Place(t) = "publish"
    BY <1>1, <1>3, <1>4, <1>5, <1>6 DEF Place
  <2>2. \A s \in Slots \ {t, n} : Place(s)' = Place(s)
    BY <1>3, <1>6 DEF Place
  <2>3. \A s \in Slots \ {t} : np[s] # 0 => np[s] \in Slots \ {n}
    BY <1>2, <1>4, Types, SlotNumbers
  <2>4. \A s \in Slots : np'[s] # 0 <=> Place(s)' \in Forking
    BY <1>2, <1>6, <2>1, <2>2 DEF IInv, Embryos, Forking
  <2>5. \A s \in Slots : np'[s] # 0 => state'[np'[s]] = "EMBRYO"
    BY <1>6, <2>3 DEF IInv, Embryos
  <2>6. \A s, r \in Slots : np'[s] # 0 /\ np'[s] = np'[r] => s = r
    BY <1>6 DEF IInv, Embryos
  <2>7. \A s \in Slots : /\ Place(s)' \in {"copy", "publish"} => kstack'[np'[s]]
                         /\ Place(s)' = "publish" => parent'[np'[s]] = s
    BY <1>3, <1>6, <2>1, <2>2 DEF IInv, Embryos
  <2> QED BY <2>4, <2>5, <2>6, <2>7 DEF Embryos, Forking
<1>16. \A s \in Slots : Live(s)' <=> Live(s) \/ s = n
  BY <1>6 DEF Live
<1>17. Stacks'
  BY <1>2, <1>3, <1>12, <1>16 DEF IInv, Stacks
<1>18. Family'
  <2>1. Family /\ initproc \in Slots
    BY SlotNumbers DEF IInv
  <2>2. \A s, r \in Slots :
          s # r /\ state'[s] # "UNUSED" /\ state'[r] # "UNUSED" => pid'[s] # pid'[r]
    BY <1>2, <1>3, <1>6, <2>1 DEF Family, ProcessTree
  <2>3. ASSUME NEW s \in Slots, Live(s)' \/ state'[s] = "ZOMBIE", s # initproc
        PROVE  (parent[s] # 0 /\ Live(parent[s]))'
    <3>1. parent[s] # 0 /\ Live(parent[s]) /\ parent[s] \in Slots
      <4>1. CASE s = n
        BY <1>2, <1>4, <4>1, SlotNumbers DEF Live
      <4>2. CASE s # n
        BY <1>4, <1>6, <1>16, <2>1, <2>3, <4>2, Types, SlotNumbers DEF Family, ProcessTree
      <4> QED BY <4>1, <4>2
    <3>2. PICK r \in Slots : r = parent[s]
      BY <3>1
    <3>3. Live(r)' /\ parent' = parent
      BY <1>3, <1>16, <3>1, <3>2
    <3> QED BY <3>1, <3>2, <3>3
  <2> QED BY <1>3, <1>16, <2>1, <2>2, <2>3 DEF Family, ProcessTree
<1>19. NoZombieMissed'
  <2>1. \A s \in Slots : Zombies(s)' = Zombies(s)
    BY <1>2, <1>3, <1>6 DEF Zombies, Children
  <2> QED BY <1>3, <1>6, <2>1 DEF IInv, Sleepers, NoZombieMissed
<1>20. NoTickMissed'
  <2>1. SUFFICES ASSUME NEW s \in Slots, state[s] = "SLEEPING", chan[s] = Ticks
                 PROVE  due[s] \/ \E d \in Cpus : pc'[Thread(d)] = "wake"
    <3>1. \A s \in Slots : state'[s] = "SLEEPING" => state[s] = "SLEEPING"
      BY <1>6
    <3>2. chan' = chan /\ due' = due /\ \A d \in Cpus : Thread(d)' = Thread(d)
      BY <1>3, <1>8
    <3> QED BY <3>1, <3>2 DEF NoTickMissed
  <2>2. \A d \in Cpus : pc[Thread(d)] = "wake" => pc'[Thread(d)] = "wake"
    BY <1>1, <1>6, <1>8, Threads DEF IInv
  <2> QED BY <2>1, <2>2 DEF IInv, Sleepers, NoTickMissed
<1>21. \A s \in Slots : pc'[s] = "doze" => due'[s]
  BY <1>3, <1>6 DEF IInv, Sleepers
<1> QED BY <1>7, <1>11, <1>13, <1>14, <1>15, <1>17, <1>18, <1>19, <1>20, <1>21 DEF IInv, Sleepers

-----------------------------------------------------------------------------
(* exit() and wait()'s cleaning up.                                        *)

LEMMA ReapKeeps ==
  ASSUME IInv, NEW c \in Cpus, Reap(c)
  PROVE  IInv'
<1>1. PICK t \in Slots : t = Thread(c) /\ cproc[c] = t /\ pc[t] = "kids"
  BY Start DEF Reap, Goto
<1>2. PICK z \in Slots : z = Lowest(Zombies(t)) /\ parent[z] = t /\ state[z] = "ZOMBIE"
  <2>1. Zombies(t) \in SUBSET Slots /\ Zombies(t) # {}
    BY <1>1 DEF Reap, Zombies, Children
  <2>2. Lowest(Zombies(t)) \in Zombies(t)
    BY <2>1, LowestIsLeast
  <2> QED BY <2>2 DEF Zombies, Children
<1>3. /\ pc' = [pc EXCEPT ![t] = "ret"]
      /\ kstack' = [kstack EXCEPT ![z] = FALSE] /\ pid' = [pid EXCEPT ![z] = 0]
      /\ parent' = [parent EXCEPT ![z] = 0] /\ killed' = [killed EXCEPT ![z] = FALSE]
      /\ state' = [state EXCEPT ![z] = "UNUSED"]
      /\ ptlock' = NoCpu /\ Popcli(c, intena[c])
      /\ UNCHANGED <<chan, nextpid, tickslock, cproc, scan, local, panicked>>
  BY <1>1, <1>2 DEF Reap, Goto
<1>4. /\ Typed /\ CpuInv(c) /\ ncli[c] = 1 /\ ptlock = c /\ t # c /\ pc[c] = "scan"
      /\ state[t] = "RUNNING" /\ OnCpu(t) /\ c \notin Slots
  BY <1>1, Start, OnItsCpu DEF IInv, Leaving, CpuInv, InTable, InTicks, InCall, InTrap, Switched, Leaving
<1>5. pc[z] = "dead" /\ ~OnCpu(z) /\ z # t /\ z # initproc
  <2>1. pc[z] # "dying"
    <3> SUFFICES ASSUME pc[z] = "dying" PROVE FALSE
      OBVIOUS
    <3>1. PICK d \in Cpus : ptlock = d /\ Thread(d) = z
      BY HolderIsOn DEF Leaving
    <3> QED BY <1>1, <1>4, <3>1
  <2>2. StateInv(z) /\ Live(initproc)
    BY DEF IInv, Family
  <2> QED BY <1>2, <1>4, <2>1, <2>2 DEF StateInv, Leaving, Live
<1>6. /\ state' \in [Slots -> States] /\ state'[z] = "UNUSED"
      /\ pid'[z] = 0 /\ parent'[z] = 0
      /\ \A s \in Slots \ {z} : /\ state'[s] = state[s] /\ pid'[s] = pid[s]
                                /\ parent'[s] = parent[s] /\ kstack'[s] = kstack[s]
  BY <1>3, <1>4, Types DEF States
<1>7. Flags(c) /\ Locks(c)
  BY <1>3, <1>4, FlagsKept, Types DEF Locks
<1>8. CpuInv(c)'
  <2>1. Thread(c)' = t /\ pc'[t] = "ret" /\ pc'[c] = "scan" /\ cproc'[c] = t
    BY <1>1, <1>3, <1>4, Types DEF Thread
  <2> QED BY <1>1, <1>3, <1>4, <2>1, Start, Types DEF CpuInv, InTable, InTicks, InCall, InTrap, Switched, Leaving, Places, Clear, local, Popcli
<1>9. /\ OneCpu' /\ Kept' /\ \A d \in Cpus : CpuInv(d)' /\ Thread(d)' = Thread(d)
      /\ \A s \in Slots : /\ OnCpu(s)' <=> OnCpu(s)
                          /\ s # t => pc'[s] = pc[s] /\ Place(s)' = Place(s)
      /\ pc' \in [Slots \cup Cpus -> Places] /\ pc'[t] = "ret"
      /\ \A d \in Cpus \ {c} : pc'[Thread(d)] = pc[Thread(d)]
  <2>1. /\ pc' = [pc EXCEPT ![Thread(c)] = "ret"] /\ UNCHANGED <<cproc, back, saved>>
        /\ "ret" \in Interrupted <=> pc[Thread(c)] \in Interrupted
    BY <1>1, <1>3 DEF local, Interrupted, InTrap
  <2>2. "ret" \in Places
    BY DEF Places, Clear, InCall
  <2> QED BY <1>1, <1>7, <1>8, <2>1, <2>2, Moved
<1>10. Typed'
  <2>1. parent' \in [Slots -> 0..NPROC] /\ pid' \in [Slots -> 0..MaxPid]
    <3>1. 0 \in 0..NPROC /\ 0 \in 0..MaxPid
      BY ProcAssumption
    <3> QED BY <1>3, <1>4, <3>1, Types
  <2>2. kstack' \in [Slots -> BOOLEAN] /\ killed' \in [Slots -> BOOLEAN]
    BY <1>3, <1>4, Types
  <2> QED BY <1>3, <1>4, <1>6, <1>7, <1>9, <2>1, <2>2 DEF Typed, TypeOK, Flags, local
<1>11. ASSUME NEW s \in Slots PROVE StateInv(s)'
  <2>1. CASE s = t
    BY <1>4, <1>5, <1>6, <1>9, <2>1 DEF StateInv, Switched, Leaving
  <2>2. CASE s = z
    BY <1>5, <1>6, <1>9, <2>2 DEF StateInv, Switched, Leaving
  <2>3. CASE s # t /\ s # z
    BY <1>3, <1>6, <1>9, <2>3, SlotKept DEF IInv
  <2> QED BY <2>1, <2>2, <2>3
<1>12. Embryos'
  <2>1. \A s \in Slots : s = t => {Place(s)', Place(s)} \cap Forking = {}
    BY <1>1, <1>3, <1>9, Start DEF Place, Forking, local, Interrupted, InTrap
  <2>2. \A s \in Slots : Place(s)' = Place(s) \/ {Place(s)', Place(s)} \cap Forking = {}
    BY <1>9, <2>1
  <2>3. Embryos /\ \A s \in Slots : Place(s) \in Forking => np[s] \in Slots \ {z}
    BY <1>2, <1>4, Types, SlotNumbers DEF IInv, Embryos, Forking
  <2>4. \A s \in Slots : state[s] = "EMBRYO" => state'[s] = "EMBRYO"
    BY <1>2, <1>6
  <2>5. \A s \in Slots :
          /\ Place(s) = "publish" => parent'[np[s]] = parent[np[s]]
          /\ Place(s) \in {"copy", "publish"} => kstack'[np[s]] = kstack[np[s]]
    BY <1>6, <2>3 DEF Forking
  <2> QED BY <1>3, <1>4, <2>2, <2>3, <2>4, <2>5, EmbryosKept DEF local
<1>13. \A s \in Slots : (Live(s)' <=> Live(s)) /\ ~Live(z)
  BY <1>2, <1>6 DEF Live
<1>14. Stacks'
  BY <1>5, <1>6, <1>9, <1>13 DEF IInv, Stacks
<1>15. Family'
  <2>1. Family /\ initproc \in Slots /\ nextpid \in 1..MaxPid + 1 /\ nextpid' = nextpid
    BY <1>3, <1>4, SlotNumbers, Types DEF IInv
  <2>2. \A s \in Slots : pid'[s] < nextpid' /\ parent'[s] # s
    BY <1>6, <2>1, SlotNumbers, ProcAssumption DEF Family
  <2>3. \A s, r \in Slots :
          s # r /\ state'[s] # "UNUSED" /\ state'[r] # "UNUSED" => pid'[s] # pid'[r]
    BY <1>6, <2>1 DEF Family, ProcessTree
  <2>4. ASSUME NEW s \in Slots, Live(s)' \/ state'[s] = "ZOMBIE", s # initproc
        PROVE  (parent[s] # 0 /\ Live(parent[s]))'
    <3>1. s # z /\ (Live(s) \/ state[s] = "ZOMBIE") /\ parent'[s] = parent[s]
      BY <1>6, <1>13, <2>4
    <3>2. PICK r \in Slots : r = parent[s] /\ r # 0 /\ Live(r)
      BY <1>4, <2>1, <2>4, <3>1, Types, SlotNumbers DEF Family, ProcessTree
    <3>3. Live(r)'
      BY <1>13, <3>2
    <3> QED BY <3>1, <3>2, <3>3
  <2> QED BY <1>5, <1>6, <1>13, <2>1, <2>2, <2>3, <2>4 DEF Family, ProcessTree
<1>16. NoZombieMissed'
  <2>1. \A s \in Slots : Zombies(s) = {} => Zombies(s)' = {}
    BY <1>6, SlotNumbers DEF Zombies, Children
  <2> QED BY <1>3, <1>6, <2>1 DEF IInv, Sleepers, NoZombieMissed
<1>17. NoTickMissed'
  <2>1. SUFFICES ASSUME NEW s \in Slots, state[s] = "SLEEPING", chan[s] = Ticks
                 PROVE  due[s] \/ \E d \in Cpus : pc'[Thread(d)] = "wake"
    <3>1. \A s \in Slots : state'[s] = "SLEEPING" => state[s] = "SLEEPING"
      BY <1>6
    <3>2. chan' = chan /\ due' = due /\ \A d \in Cpus : Thread(d)' = Thread(d)
      BY <1>3, <1>9 DEF local
    <3> QED BY <3>1, <3>2 DEF NoTickMissed
  <2> QED BY <1>1, <1>9, <2>1 DEF IInv, Sleepers, NoTickMissed
<1>18. \A s \in Slots : pc'[s] = "doze" => due'[s]
  BY <1>3, <1>9 DEF IInv, Sleepers, local
<1> QED BY <1>3, <1>9, <1>10, <1>11, <1>12, <1>14, <1>15, <1>16, <1>17, <1>18 DEF IInv, Sleepers

LEMMA ExitKeeps ==
  ASSUME IInv, NEW c \in Cpus, Exit(c)
  PROVE  IInv'
<1>1. PICK t \in Slots : t = Thread(c) /\ cproc[c] = t /\ pc[t] = "exit" /\ t # initproc
  BY Start DEF Exit, Goto
<1>2. /\ pc' = [pc EXCEPT ![t] = "dying"] /\ ptlock = NoCpu /\ ptlock' = c /\ Pushcli(c)
      /\ parent' = [u \in Slots |-> IF u \in Children(t) THEN initproc ELSE parent[u]]
      /\ UNCHANGED <<pid, killed, chan, kstack, nextpid, tickslock, cproc, scan,
                     local, panicked>>
  BY <1>1 DEF Exit, Goto
<1>3. /\ Typed /\ CpuInv(c) /\ ncli[c] = 0 /\ t # c /\ pc[c] = "scan"
      /\ state[t] = "RUNNING" /\ OnCpu(t) /\ c \notin Slots
  BY <1>1, Start, OnItsCpu DEF IInv, Leaving, CpuInv, InTable, InTicks, InCall, InTrap, Switched, Leaving
<1>4. /\ state' \in [Slots -> States] /\ state'[t] = "ZOMBIE"
      /\ \A s \in Slots \ {t} :
           /\ state'[s] = state[s] \/ (state[s] = "SLEEPING" /\ state'[s] = "RUNNABLE")
           /\ state'[s] = "SLEEPING" => chan[s] # parent[t]
           /\ state'[s] = "SLEEPING" /\ chan[s] = initproc =>
                \A u \in Children(t) : state[u] # "ZOMBIE"
  <2>1. PICK a : a = Woken(state, parent[t])
    OBVIOUS
  <2>2. a \in [Slots -> States] /\ \A s \in Slots :
          a[s] = IF state[s] = "SLEEPING" /\ chan[s] = parent[t] THEN "RUNNABLE" ELSE state[s]
    BY <1>3, <2>1, Types DEF Woken, States
  <2>3. PICK b : b = Woken(a, initproc)
    OBVIOUS
  <2>4. b \in [Slots -> States] /\ \A s \in Slots :
          b[s] = IF a[s] = "SLEEPING" /\ chan[s] = initproc THEN "RUNNABLE" ELSE a[s]
    BY <2>2, <2>3 DEF Woken, States
  <2>5. state' = [IF \E u \in Children(t) : state[u] = "ZOMBIE" THEN b ELSE a
                  EXCEPT ![t] = "ZOMBIE"]
    BY <1>1, <2>1, <2>3 DEF Exit
  <2>6. CASE \E u \in Children(t) : state[u] = "ZOMBIE"
    <3>1. state' = [b EXCEPT ![t] = "ZOMBIE"]
      BY <2>5, <2>6
    <3>2. state' \in [Slots -> States] /\ state'[t] = "ZOMBIE"
          /\ \A s \in Slots \ {t} : state'[s] = b[s]
      BY <2>4, <3>1 DEF States
    <3> QED BY <2>2, <2>4, <3>2
  <2>7. CASE ~\E u \in Children(t) : state[u] = "ZOMBIE"
    <3>1. state' = [a EXCEPT ![t] = "ZOMBIE"]
      BY <2>5, <2>7
    <3>2. state' \in [Slots -> States] /\ state'[t] = "ZOMBIE"
          /\ \A s \in Slots \ {t} : state'[s] = a[s]
      BY <2>2, <3>1 DEF States
    <3> QED BY <2>2, <2>7, <3>2
  <2> QED BY <2>6, <2>7
<1>5. \A u \in Slots : parent'[u] = IF parent[u] = t THEN initproc ELSE parent[u]
  BY <1>2 DEF Children
<1>6. Flags(c) /\ Locks(c)
  BY <1>2, <1>3, FlagsKept DEF Locks
<1>7. CpuInv(c)'
  <2>1. Thread(c)' = t /\ pc'[t] = "dying" /\ pc'[c] = "scan" /\ cproc'[c] = t
    BY <1>1, <1>2, <1>3, Types DEF Thread
  <2> QED BY <1>1, <1>2, <1>3, <2>1, Start, Types DEF CpuInv, InTable, InTicks, InCall, InTrap, Switched, Leaving, Places, Clear, local, Pushcli
<1>8. /\ OneCpu' /\ Kept' /\ \A d \in Cpus : CpuInv(d)' /\ Thread(d)' = Thread(d)
      /\ \A s \in Slots : /\ OnCpu(s)' <=> OnCpu(s)
                          /\ s # t => pc'[s] = pc[s] /\ Place(s)' = Place(s)
      /\ pc' \in [Slots \cup Cpus -> Places] /\ pc'[t] = "dying"
      /\ \A d \in Cpus \ {c} : pc'[Thread(d)] = pc[Thread(d)]
  <2>1. /\ pc' = [pc EXCEPT ![Thread(c)] = "dying"] /\ UNCHANGED <<cproc, back, saved>>
        /\ "dying" \in Interrupted <=> pc[Thread(c)] \in Interrupted
    BY <1>1, <1>2 DEF local, Interrupted, InTrap
  <2>2. "dying" \in Places
    BY DEF Places, InTable, Leaving
  <2> QED BY <1>1, <1>6, <1>7, <2>1, <2>2, Moved
<1>9. Typed'
  <2>1. parent' \in [Slots -> 0..NPROC]
    BY <1>2, <1>3, Types, SlotNumbers
  <2>2. ptlock' \in Cpus \cup {NoCpu}
    BY <1>2
  <2> QED BY <1>2, <1>3, <1>4, <1>6, <1>8, <2>1, <2>2 DEF Typed, TypeOK, Flags, local
<1>10. ASSUME NEW s \in Slots PROVE StateInv(s)'
  <2>1. CASE s = t
    BY <1>3, <1>4, <1>8, <2>1 DEF StateInv, Switched, Leaving
  <2>2. CASE s # t
    <3>1. state[s] = "SLEEPING" => pc[s] \in {"waited", "woken"}
      BY <1>2, Settled
    <3>2. StateInv(s) /\ pc'[s] = pc[s] /\ (OnCpu(s)' <=> OnCpu(s)) /\ chan' = chan
      BY <1>2, <1>8, <2>2 DEF IInv
    <3> QED BY <1>4, <2>2, <3>1, <3>2, SlotKept
  <2> QED BY <2>1, <2>2
<1>11. Embryos'
  <2>1. Place(t) = "exit"
    BY <1>1, Start DEF Place, Interrupted, InTrap
  <2>2. \A s \in Slots : s = t => {Place(s)', Place(s)} \cap Forking = {}
    BY <1>1, <1>2, <1>8, <2>1 DEF Place, Forking, local
  <2>3. \A s \in Slots : Place(s)' = Place(s) \/ {Place(s)', Place(s)} \cap Forking = {}
    BY <1>8, <2>2
  <2>4. \A s \in Slots : state[s] = "EMBRYO" => state'[s] = "EMBRYO"
    BY <1>3, <1>4
  <2>5. \A s \in Slots : Place(s) = "publish" => parent'[np[s]] = parent[np[s]]
    <3>1. \A s \in Slots : Place(s) = "publish" =>
            s # t /\ np[s] \in Slots /\ parent[np[s]] = s
      BY <1>3, <2>1, Types, SlotNumbers DEF IInv, Embryos
    <3> QED BY <1>5, <3>1
  <2> QED BY <1>2, <1>3, <2>3, <2>4, <2>5, EmbryosKept DEF IInv, local
<1>12. \A s \in Slots : Live(s)' <=> Live(s) /\ s # t
  BY <1>4 DEF Live
<1>13. Stacks'
  BY <1>2, <1>8, <1>12 DEF IInv, Stacks
<1>14. Family'
  <2>1. Family /\ initproc \in Slots /\ nextpid' = nextpid /\ pid' = pid /\ t # 0
    BY <1>2, SlotNumbers DEF IInv
  <2>2. \A s \in Slots : parent'[s] # s
    BY <1>5, <2>1, SlotNumbers DEF Family
  <2>3. parent'[initproc] = 0 /\ Live(initproc)'
    BY <1>1, <1>5, <1>12, <2>1, SlotNumbers DEF Family
  <2>4. \A s, r \in Slots :
          s # r /\ state'[s] # "UNUSED" /\ state'[r] # "UNUSED" => pid'[s] # pid'[r]
    BY <1>3, <1>4, <2>1 DEF Family, ProcessTree
  <2>5. ASSUME NEW s \in Slots, Live(s)' \/ state'[s] = "ZOMBIE", s # initproc
        PROVE  (parent[s] # 0 /\ Live(parent[s]))'
    <3>1. Live(s) \/ state[s] = "ZOMBIE"
      BY <1>3, <1>4, <1>12, <2>5 DEF Live
    <3>2. PICK r \in Slots : r = parent[s] /\ r # 0 /\ Live(r)
      BY <1>3, <2>1, <2>5, <3>1, Types, SlotNumbers DEF Family, ProcessTree
    <3>3. PICK q \in Slots : q = (IF r = t THEN initproc ELSE r) /\ q # 0
      BY <2>1, <3>2, SlotNumbers
    <3>4. Live(q)' /\ parent'[s] = q
      BY <1>1, <1>5, <1>12, <2>1, <2>3, <3>2, <3>3
    <3> QED BY <3>3, <3>4
  <2> QED BY <2>1, <2>2, <2>3, <2>4, <2>5 DEF Family, ProcessTree
<1>15. NoZombieMissed'
  <2>1. SUFFICES ASSUME NEW s \in Slots, state'[s] = "SLEEPING", chan[s] = s,
                        NEW z \in Slots, parent'[z] = s, state'[z] = "ZOMBIE"
                 PROVE  FALSE
    BY <1>2 DEF NoZombieMissed, Zombies, Children
  <2>2. s # t /\ state[s] = "SLEEPING"
    BY <1>4, <2>1
  <2>3. CASE z = t
    BY <1>4, <1>5, <2>1, <2>2, <2>3 DEF IInv, Family
  <2>4. CASE z # t
    <3>1. state[z] = "ZOMBIE"
      BY <1>4, <2>1, <2>4
    <3>2. CASE parent[z] = t
      BY <1>4, <1>5, <2>1, <2>2, <3>1, <3>2 DEF Children
    <3>3. CASE parent[z] # t
      BY <1>5, <2>1, <2>2, <3>1, <3>3 DEF IInv, Sleepers, NoZombieMissed, Zombies, Children
    <3> QED BY <3>2, <3>3
  <2> QED BY <2>3, <2>4
<1>16. NoTickMissed'
  <2>1. SUFFICES ASSUME NEW s \in Slots, state[s] = "SLEEPING", chan[s] = Ticks
                 PROVE  due[s] \/ \E d \in Cpus : pc'[Thread(d)] = "wake"
    <3>1. \A s \in Slots : state'[s] = "SLEEPING" => state[s] = "SLEEPING"
      BY <1>4
    <3>2. chan' = chan /\ due' = due /\ \A d \in Cpus : Thread(d)' = Thread(d)
      BY <1>2, <1>8 DEF local
    <3> QED BY <3>1, <3>2 DEF NoTickMissed
  <2> QED BY <1>1, <1>8, <2>1 DEF IInv, Sleepers, NoTickMissed
<1>17. \A s \in Slots : pc'[s] = "doze" => due'[s]
  BY <1>2, <1>8 DEF IInv, Sleepers, local
<1> QED BY <1>2, <1>8, <1>9, <1>10, <1>11, <1>13, <1>14, <1>15, <1>16, <1>17 DEF IInv, Sleepers

-----------------------------------------------------------------------------
(* The invariant.                                                          *)

LEMMA InitHolds == Init => IInv
<1> SUFFICES ASSUME Init PROVE IInv
  OBVIOUS
<1>1. /\ state = [s \in Slots |-> IF s = initproc THEN "RUNNABLE" ELSE "UNUSED"]
      /\ pid = [s \in Slots |-> IF s = initproc THEN 1 ELSE 0]
      /\ parent = [s \in Slots |-> 0] /\ chan = [s \in Slots |-> 0]
      /\ kstack = [s \in Slots |-> s = initproc] /\ nextpid = 2
      /\ killed = [s \in Slots |-> FALSE]
      /\ ptlock = NoCpu /\ tickslock = NoCpu /\ panicked = "no"
      /\ cproc = [c \in Cpus |-> 0] /\ scan = [c \in Cpus |-> 1]
      /\ ints = [c \in Cpus |-> TRUE] /\ ncli = [c \in Cpus |-> 0]
      /\ intena = [c \in Cpus |-> FALSE]
      /\ pc = [t \in Slots \cup Cpus |-> IF t \in Cpus THEN "idle"
                                         ELSE IF t = initproc THEN "forkret" ELSE "dead"]
      /\ back = [t \in Slots \cup Cpus |-> "idle"]
      /\ saved = [s \in Slots |-> FALSE] /\ due = [s \in Slots |-> FALSE]
      /\ np = [s \in Slots |-> 0]
  BY DEF Init
<1>2. NPROC \in Nat \ {0} /\ MaxPid \in Nat \ {0} /\ NoCpu \notin Cpus
      /\ \A c \in Cpus : c \notin Slots
  BY ProcAssumption DEF Slots
<1>3. Typed
  <2>1. state \in [Slots -> States]
    BY <1>1 DEF States
  <2>2. 0 \in 0..MaxPid /\ 1 \in 0..MaxPid /\ 2 \in 1..MaxPid + 1
        /\ 1 \in 1..NPROC + 1 /\ 0 \in 0..NPROC /\ 0 \in 0..Ticks /\ 0 \in 0..2
    BY <1>2 DEF Ticks
  <2>3. pc \in [Slots \cup Cpus -> Places]
    BY <1>1 DEF Places, Clear, InTable, Switched
  <2> QED BY <1>1, <2>1, <2>2, <2>3 DEF Typed, TypeOK
<1>4. OneCpu /\ \A s \in Slots : ~OnCpu(s)
  BY <1>1, SlotNumbers DEF OneCpu, OnCpu
<1>5. \A s \in Slots : pc[s] = IF s = initproc THEN "forkret" ELSE "dead"
  BY <1>1, <1>2
<1>6. Kept
  BY <1>1, <1>5 DEF Kept, Interrupted, InTrap
<1>7. ASSUME NEW c \in Cpus PROVE CpuInv(c)
  <2>1. Thread(c) = c /\ pc[c] = "idle"
    BY <1>1 DEF Thread
  <2> QED BY <1>1, <1>2, <2>1 DEF CpuInv, InTable, InTicks, InCall, InTrap, Switched, Leaving
<1>8. \A s \in Slots : StateInv(s)
  BY <1>1, <1>4, <1>5 DEF StateInv, Switched, Leaving
<1>9. Embryos
  <2>1. \A s \in Slots : Place(s) \notin Forking /\ np[s] = 0
    BY <1>1, <1>5 DEF Place, Forking
  <2> QED BY <2>1 DEF Embryos, Forking
<1>10. Stacks
  BY <1>1, <1>4 DEF Stacks, Live
<1>11. Family
  BY <1>1, SlotNumbers DEF Family, ProcessTree, Live
<1>12. Sleepers
  BY <1>1, <1>5 DEF Sleepers, NoZombieMissed, NoTickMissed
<1> QED BY <1>1, <1>3, <1>4, <1>6, <1>7, <1>8, <1>9, <1>10, <1>11, <1>12 DEF IInv

LEMMA NextKeeps == IInv /\ [Next]_vars => IInv'
<1> SUFFICES ASSUME IInv, [Next]_vars PROVE IInv'
  OBVIOUS
<1>1. ASSUME NEW c \in Cpus, ThreadStep(c) PROVE IInv'
  BY <1>1, LookKeeps, RunKeeps, UnlookKeeps, SchedKeeps, ForkretKeeps, SyscallKeeps,
     SysretKeeps, YieldKeeps, YieldedKeeps, ResumeKeeps, AllocprocKeeps, StackKeeps, CopyKeeps,
     PublishKeeps, ExitKeeps, ExitPanicsKeeps, WaitKeeps, ReapKeeps, WaitFailsKeeps,
     WaitSleepsKeeps, WaitedKeeps, KillKeeps, SysSleepKeeps, DozeKeeps, SleepKeeps,
     WakesKeeps, RelockKeeps
     DEF ThreadStep
<1>2. ASSUME NEW c \in Cpus, ClockStep(c) PROVE IInv'
  BY <1>2, TickKeeps, TickWakeKeeps, IretKeeps DEF ClockStep
<1>3. ASSUME UNCHANGED vars PROVE IInv'
  <2>1. /\ UNCHANGED <<state, pid, parent, killed, chan, kstack, nextpid, ptlock, tickslock>>
        /\ UNCHANGED <<cproc, scan, ints, ncli, intena, pc, back, saved, np, due, panicked>>
    BY <1>3 DEF vars, table, cli, local
  <2>2. Typed' /\ OneCpu' /\ Kept' /\ panicked' # "sched"
    BY <2>1 DEF IInv, Typed, TypeOK, OneCpu, Kept
  <2>3. \A d \in Cpus : CpuInv(d)'
    BY <2>1 DEF IInv, CpuInv, Thread
  <2>4. \A s \in Slots : StateInv(s)'
    BY <2>1 DEF IInv, StateInv, OnCpu
  <2>5. Embryos' /\ Stacks' /\ Family'
    BY <2>1 DEF IInv, Embryos, Place, Stacks, OnCpu, Live, Family, ProcessTree
  <2>6. Sleepers'
    BY <2>1 DEF IInv, Sleepers, NoZombieMissed, NoTickMissed, Zombies, Children, Thread
  <2> QED BY <2>2, <2>3, <2>4, <2>5, <2>6 DEF IInv
<1> QED BY <1>1, <1>2, <1>3, TimerKeeps DEF Next, Frozen

\* Every reachable state satisfies the invariant.
THEOREM Invariance == Spec => []IInv
BY InitHolds, NextKeeps, PTL DEF Spec

-----------------------------------------------------------------------------
(* What follows from it.                                                   *)

\* However many CPUs switch, exit and clean up at once, no process runs on two
\* of them, none runs on a stack that wait() has freed, and no caller of sched()
\* meets one of its panics.
THEOREM CpusAreSound == Spec => []CpusSound
<1>1. IInv => CpusSound
  <2> SUFFICES ASSUME IInv PROVE CpusSound
    OBVIOUS
  <2>1. TypeOK /\ StackInPlace /\ panicked # "sched"
    <3>1. \A c \in Cpus : cproc[c] # 0 => cproc[c] \in Slots /\ OnCpu(cproc[c])
      BY Types, SlotNumbers DEF IInv, OnCpu
    <3> QED BY <3>1 DEF IInv, Typed, StackInPlace, Stacks
  <2>2. \A c \in Cpus : cproc[c] # 0 /\ ptlock # c => state[cproc[c]] = "RUNNING"
    BY Start, OnItsCpu DEF CpuInv, InTable
  <2>3. \A s \in Slots : state[s] = "RUNNING" => \E c \in Cpus : cproc[c] = s
    BY DEF IInv, StateInv, OnCpu
  <2> QED BY <2>1, <2>2, <2>3 DEF CpusSound, OneCpuPerProcess, IInv, OneCpu
<1> QED BY <1>1, Invariance, PTL

\* The interrupt flag goes with the thread: a handler that yielded comes back,
\* on whichever CPU, with interrupts off, a system call that slept with them on.
THEOREM InterruptsFollow == Spec => []InterruptsOfThread
<1>1. IInv => InterruptsOfThread
  BY DEF IInv, CpuInv, InterruptsOfThread, InCall, InTrap
<1> QED BY <1>1, Invariance, PTL

\* Pids are unique, and whoever may exit has a parent that lives to wait() for
\* it, orphans included.
THEOREM TreeIsWhole == Spec => []ProcessTree
<1>1. IInv => ProcessTree
  BY DEF IInv, Family
<1> QED BY <1>1, Invariance, PTL

\* exit() never leaves a parent, its own or the one its children get, asleep in
\* wait() over a zombie.
THEOREM ParentsWake == Spec => []NoZombieMissed
<1>1. IInv => NoZombieMissed
  BY DEF IInv, Sleepers
<1> QED BY <1>1, Invariance, PTL

\* Whoever sleeps in sys_sleep() past its tick is about to be woken by the clock.
THEOREM TicksWake == Spec => []NoTickMissed
<1>1. IInv => NoTickMissed
  BY DEF IInv, Sleepers
<1> QED BY <1>1, Invariance, PTL

=============================================================================
