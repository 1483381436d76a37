------------------------------- MODULE FileStore -------------------------------
(***************************************************************************)
(* What a file promises: a sequence of bytes, and in each opening of it an *)
(* offset that its reads and writes move by what they did.                 *)
(***************************************************************************)
EXTENDS Integers, Sequences, FiniteSetsExt

CONSTANTS Procs, Inodes, FileIp, MaxChunk, MaxSize
VARIABLES content, offset, got

vars == <<content, offset, got>>

Init ==
  /\ content = [i \in Inodes |-> <<>>]
  /\ offset = [f \in DOMAIN FileIp |-> 0]
  /\ got = [p \in Procs |-> <<>>]

\* n bytes of p go where the file's offset is, over what is there or after it.
Write(p, f, n) ==
  LET old == content[FileIp[f]]
      off == offset[f]
  IN
  /\ off + n <= MaxSize
  /\ offset' = [offset EXCEPT ![f] = @ + n]
  /\ content' = [content EXCEPT ![FileIp[f]] =
       [k \in 1..Max({Len(old), off + n}) |-> IF k \in off + 1..off + n THEN p ELSE old[k]]]
  /\ UNCHANGED got

Read(p, f, n) ==
  LET all == content[FileIp[f]]
      off == offset[f]
  IN
  /\ offset' = [offset EXCEPT ![f] = Min({off + n, Max({off, Len(all)})})]
  /\ got' = [got EXCEPT ![p] = SubSeq(all, off + 1, offset'[f])]
  /\ UNCHANGED content

\* The file is removed, and another made in its place and opened.
Renew(i) ==
  /\ offset' = [f \in DOMAIN FileIp |-> IF FileIp[f] = i THEN 0 ELSE offset[f]]
  /\ content' = [content EXCEPT ![i] = <<>>]
  /\ UNCHANGED got

Next ==
  \/ \E p \in Procs, f \in DOMAIN FileIp, n \in 1..MaxSize : Read(p, f, n)
  \/ \E p \in Procs, f \in DOMAIN FileIp, n \in 1..MaxChunk : Write(p, f, n)
  \/ \E i \in Inodes : Renew(i)

Spec == Init /\ [][Next]_vars

=============================================================================
