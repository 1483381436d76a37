-------------------------------- MODULE Console --------------------------------
(***************************************************************************)
(* The console's input of console.c: a ring of bytes with three counters   *)
(* that only wrap around, filled and edited by consoleintr() in interrupts *)
(* and emptied by consoleread().                                           *)
(*                                                                         *)
(* A section under cons.lock is one step. The bytes are told apart as far  *)
(* as the code does; the editing keys are "bs" (^H) and "kill" (^U).       *)
(***************************************************************************)
EXTENDS Integers, Sequences, FiniteSets, FiniteSetsExt, SequencesExt

CONSTANTS
  Readers,
  Letters,        \* bytes that mean nothing to the console
  INPUT_BUF,      \* bytes of the ring
  UINT,           \* the counters are kept modulo this (2^32 in the code)
  MaxRead         \* bytes read() asks for at most

Newline == "nl"
Eof == "eof"
Bytes == Letters \cup {Newline, Eof}

VARIABLES
  input,          \* [buf, r, w, e]
  proc,           \* [pc, n] of each reader; n is what is left of its request
  got,            \* what its read() has copied out
  killed          \* the readers that have been killed

vars == <<input, proc, got, killed>>

Init ==
  /\ input = [buf |-> [k \in 0..INPUT_BUF - 1 |-> 0], r |-> 0, w |-> 0, e |-> 0]
  /\ proc = [p \in Readers |-> [pc |-> "user", n |-> 0]]
  /\ got = [p \in Readers |-> <<>>]
  /\ killed = {}

Plus(a, b) == (a + b) % UINT
Minus(a, b) == (a - b) % UINT

\* The bytes of the ring from counter a up to counter b.
From(a, b) == [k \in 1..Minus(b, a) |-> input.buf[Plus(a, k - 1) % INPUT_BUF]]

-----------------------------------------------------------------------------
(* consoleintr()                                                           *)

Wakeup == [p \in Readers |-> IF proc[p].pc = "asleep" THEN [proc[p] EXCEPT !.pc = "ready"] ELSE proc[p]]

\* Mutant: the test for room is off by one.
EnterFull(c) ==
  LET e == Plus(input.e, 1)
      ends == c \in {Newline, Eof} \/ e = Plus(input.r, INPUT_BUF)
  IN
  /\ Minus(input.e, input.r) <= INPUT_BUF
  /\ input' = [input EXCEPT !.buf[input.e % INPUT_BUF] = c, !.e = e, !.w = IF ends THEN e ELSE @]
  /\ proc' = IF ends THEN Wakeup ELSE proc
  /\ UNCHANGED <<got, killed>>

\* A byte is dropped when the ring is full; the line is entered when it ends, and
\* when it fills the ring.
Enter(c) ==
  LET e == Plus(input.e, 1)
      ends == c \in {Newline, Eof} \/ e = Plus(input.r, INPUT_BUF)
  IN
  /\ Minus(input.e, input.r) < INPUT_BUF
  /\ input' = [input EXCEPT !.buf[input.e % INPUT_BUF] = c, !.e = e, !.w = IF ends THEN e ELSE @]
  /\ proc' = IF ends THEN Wakeup ELSE proc
  /\ UNCHANGED <<got, killed>>

\* ^H takes back the last byte of the line, ^U all of them up to a newline.
Erase(key) ==
  LET line == From(input.w, input.e)
      kept == Max({0} \cup {k \in 1..Len(line) : line[k] = Newline})
      k == IF key = "bs" THEN 1 ELSE Len(line) - kept
  IN
  /\ input.e # input.w
  /\ input' = [input EXCEPT !.e = Minus(@, k)]
  /\ UNCHANGED <<proc, got, killed>>

-----------------------------------------------------------------------------
(* consoleread()                                                           *)

Call(p, n) ==
  /\ proc[p].pc = "user" /\ p \notin killed
  /\ proc' = [proc EXCEPT ![p] = [pc |-> "ready", n |-> n]]
  /\ got' = [got EXCEPT ![p] = <<>>]
  /\ UNCHANGED <<input, killed>>

\* The loop under cons.lock: bytes are copied until the request is met, a line ends,
\* or none is left. An end of file that ends a read with bytes stays for the next. A
\* kill() that comes between the test of killed and sleep() finds no sleeper to wake.
Read(p) ==
  LET bytes == From(input.r, input.w)
      n == proc[p].n
      ends == {k \in 1..Len(bytes) : bytes[k] \in {Newline, Eof} \/ k = n}
      last == Min(ends)
      eof == bytes[last] = Eof
      copied == got[p] \o SubSeq(bytes, 1, IF eof THEN last - 1 ELSE last)
  IN
  /\ proc[p].pc = "ready"
  /\ \/ /\ ends # {}
        /\ input' = [input EXCEPT !.r = Plus(@, IF eof /\ copied # <<>> THEN last - 1 ELSE last)]
        /\ got' = [got EXCEPT ![p] = copied]
        /\ proc' = [proc EXCEPT ![p] = [pc |-> "user", n |-> 0]]
        /\ UNCHANGED killed
     \/ /\ ends = {}
        /\ input' = [input EXCEPT !.r = input.w]
        /\ got' = [got EXCEPT ![p] = @ \o bytes]
        /\ IF p \in killed
           THEN proc' = [proc EXCEPT ![p] = [pc |-> "user", n |-> 0]] /\ UNCHANGED killed
           ELSE /\ proc' = [proc EXCEPT ![p] = [pc |-> "asleep", n |-> n - Len(bytes)]]
                /\ killed' \in {killed, killed \cup {p}}

Kill(p) ==
  /\ p \notin killed
  /\ killed' = killed \cup {p}
  /\ proc' = [proc EXCEPT ![p].pc = IF @ = "asleep" THEN "ready" ELSE @]
  /\ UNCHANGED <<input, got>>

Next ==
  \/ \E c \in Bytes : Enter(c)
  \/ \E key \in {"bs", "kill"} : Erase(key)
  \/ \E p \in Readers : Read(p) \/ Kill(p) \/ \E n \in 1..MaxRead : Call(p, n)

Spec == Init /\ [][Next]_vars

-----------------------------------------------------------------------------
(* Properties.                                                             *)

\* With the counters wrapping around, the editing keys and the end of file that is
\* put back, the ring is the queue and the line of Tty: no byte is lost, repeated,
\* edited after it was entered or read before.
T == INSTANCE Tty WITH queue <- From(input.r, input.w), line <- From(input.w, input.e),
                       Size <- INPUT_BUF

ImplementsTty == T!Spec

\* A reader sleeps only while there is nothing to read, whoever else reads or puts an
\* end of file back; a ring that is full has bytes to read, so that a line too long for it can go on.
InputSound ==
  /\ \A p \in Readers : proc[p].pc = "asleep" => input.r = input.w
  /\ Minus(input.e, input.r) = INPUT_BUF => input.w = input.e

=============================================================================
