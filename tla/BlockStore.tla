------------------------------ MODULE BlockStore ------------------------------
(***************************************************************************)
(* What bread(), bwrite() and brelse() promise: a disk whose blocks have   *)
(* one value each, changed by the process that has the block to itself.    *)
(***************************************************************************)
CONSTANTS Procs, Blocks, Vals, NoProc

VARIABLES
  val,       \* the value of each block
  holder     \* who has it

Init ==
  /\ val \in [Blocks -> Vals]
  /\ holder = [b \in Blocks |-> NoProc]

Take(p, b) ==
  /\ holder[b] = NoProc
  /\ holder' = [holder EXCEPT ![b] = p]
  /\ UNCHANGED val

Change(p, b, v) ==
  /\ holder[b] = p
  /\ val' = [val EXCEPT ![b] = v]
  /\ UNCHANGED holder

Give(p, b) ==
  /\ holder[b] = p
  /\ holder' = [holder EXCEPT ![b] = NoProc]
  /\ UNCHANGED val

Next ==
  \E p \in Procs, b \in Blocks :
    Take(p, b) \/ Give(p, b) \/ \E v \in Vals : Change(p, b, v)

Spec == Init /\ [][Next]_<<val, holder>>

=============================================================================
