-------------------------------- MODULE Channel --------------------------------
(***************************************************************************)
(* What a pipe promises: bytes come out once each, in the order they went  *)
(* in, at most Capacity of them on the way; a reader is told of the end    *)
(* only when nothing is left and nobody can write any more.                *)
(***************************************************************************)
EXTENDS Integers, Sequences

CONSTANTS Bytes, Capacity, Eof, Nothing

VARIABLES
  q,        \* the bytes on the way
  wopen, ropen,
  heard     \* what was handed to a reader last

Init == q = <<>> /\ wopen = TRUE /\ ropen = TRUE /\ heard = Nothing

Send(b) ==
  /\ wopen /\ Len(q) < Capacity
  /\ q' = Append(q, b)
  /\ UNCHANGED <<wopen, ropen, heard>>

Receive ==
  /\ q # <<>>
  /\ heard' = Head(q) /\ q' = Tail(q)
  /\ UNCHANGED <<wopen, ropen>>

End ==
  /\ q = <<>> /\ ~wopen
  /\ heard' = Eof
  /\ UNCHANGED <<q, wopen, ropen>>

Close ==
  /\ \/ wopen /\ wopen' = FALSE /\ UNCHANGED ropen
     \/ ropen /\ ropen' = FALSE /\ UNCHANGED wopen
  /\ UNCHANGED <<q, heard>>

Next == (\E b \in Bytes : Send(b)) \/ Receive \/ End \/ Close

Spec == Init /\ [][Next]_<<q, wopen, ropen, heard>>

=============================================================================
