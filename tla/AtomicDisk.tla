------------------------------ MODULE AtomicDisk ------------------------------
(***************************************************************************)
(* What the log promises the file system: the writes of the operations     *)
(* under way become durable together, when none of them is under way any   *)
(* more, and a crash goes back to the last time that happened.             *)
(***************************************************************************)
EXTENDS FiniteSets

CONSTANTS Ops, Blocks, Vals

VARIABLES
  view,      \* the blocks as the operations see them
  durable,   \* the blocks as a crash leaves them
  active     \* the operations under way

Init ==
  /\ view \in [Blocks -> Vals]
  /\ durable = view
  /\ active = {}

Begin(o) == o \notin active /\ active' = active \cup {o} /\ UNCHANGED <<view, durable>>
End(o) == o \in active /\ active' = active \ {o} /\ UNCHANGED <<view, durable>>

Write(b, v) ==
  /\ active # {}
  /\ view' = [view EXCEPT ![b] = v]
  /\ UNCHANGED <<durable, active>>

Commit == active = {} /\ durable' = view /\ UNCHANGED <<view, active>>

Crash == view' = durable /\ active' = {} /\ UNCHANGED durable

Next ==
  \/ \E o \in Ops : Begin(o) \/ End(o)
  \/ \E b \in Blocks, v \in Vals : Write(b, v)
  \/ Commit
  \/ Crash

Spec == Init /\ [][Next]_<<view, durable, active>>

=============================================================================
