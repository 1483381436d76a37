---------------------------------- MODULE Tty ----------------------------------
(***************************************************************************)
(* What the console promises its readers: a line under edit, and a queue   *)
(* of the bytes entered, each of which one reader gets, in order, a line   *)
(* at most in one call.                                                    *)
(***************************************************************************)
EXTENDS Integers, Sequences, SequencesExt

CONSTANTS Readers, Letters, Newline, Eof, Size
VARIABLES queue, line, got

vars == <<queue, line, got>>

Init == queue = <<>> /\ line = <<>> /\ got = [p \in Readers |-> <<>>]

\* A line is entered whole, when it ends or when there is no room for more.
Enter(c) ==
  LET more == Append(line, c)
      all == queue \o more
  IN
  /\ Len(all) <= Size
  /\ IF c \in {Newline, Eof} \/ Len(all) = Size
     THEN queue' = all /\ line' = <<>>
     ELSE line' = more /\ UNCHANGED queue
  /\ UNCHANGED got

\* The end of the line under edit is taken back; what was entered is not.
Erase(k) == /\ line' = SubSeq(line, 1, k) /\ UNCHANGED <<queue, got>>

\* p gets the next k bytes, and no byte after the end of a line. An end of file is
\* consumed by the reader that has got nothing before it.
Get(p, k) ==
  LET bytes == SubSeq(queue, 1, k) IN
  /\ \A i \in 1..k : bytes[i] # Eof /\ (bytes[i] = Newline => i = k)
  /\ (k > 0 /\ got[p] # <<>>) => Last(got[p]) # Newline
  /\ got' = [got EXCEPT ![p] = @ \o bytes]
  /\ \/ queue' = SubSeq(queue, k + 1, Len(queue))
     \/ /\ k = 0 /\ got[p] = <<>> /\ queue # <<>> /\ Head(queue) = Eof
        /\ queue' = Tail(queue)
  /\ UNCHANGED line

Call(p) == /\ got' = [got EXCEPT ![p] = <<>>] /\ UNCHANGED <<queue, line>>

Next ==
  \/ \E p \in Readers : (\E k \in 0..Len(queue) : Get(p, k)) \/ Call(p)
  \/ \E c \in Letters \cup {Newline, Eof} : Enter(c)
  \/ \E k \in 0..Len(line) - 1 : Erase(k)

Spec == Init /\ [][Next]_vars

=============================================================================
