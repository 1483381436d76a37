------------------------------ MODULE LockService ------------------------------
(***************************************************************************)
(* What the spin locks of spinlock.c promise their callers: a lock is free *)
(* or granted to one CPU, which alone gives it back.                       *)
(***************************************************************************)
CONSTANTS Cpus, Locks, NoCpu

VARIABLE holder    \* the CPU each lock is granted to

Init == holder = [l \in Locks |-> NoCpu]

Grant(c, l) ==
  /\ holder[l] = NoCpu
  /\ holder' = [holder EXCEPT ![l] = c]

GiveBack(c, l) ==
  /\ holder[l] = c
  /\ holder' = [holder EXCEPT ![l] = NoCpu]

Next == \E c \in Cpus, l \in Locks : Grant(c, l) \/ GiveBack(c, l)

Spec == Init /\ [][Next]_holder

=============================================================================
