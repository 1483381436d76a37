-------------------------------- MODULE Terminal --------------------------------
(***************************************************************************)
(* The console's input, Console, beside other parts of the machine.        *)
(***************************************************************************)
EXTENDS Integers, Sequences

CONSTANTS TtyUsers, Letters, INPUT_BUF, UINT, MaxRead

\* The counters wrap at a multiple of the ring, as 2^32 is of 128.
ASSUME TerminalAssumption ==
  /\ INPUT_BUF \in Nat \ {0}
  /\ UINT \in Nat /\ UINT > INPUT_BUF /\ UINT % INPUT_BUF = 0
  /\ MaxRead \in Nat

VARIABLES coInput, coProc, coGot, coKilled

Co == INSTANCE Console WITH
        Readers <- TtyUsers, input <- coInput, proc <- coProc, got <- coGot, killed <- coKilled

\* The ring is a line under edit and a queue of bytes, and nobody sleeps beside the queue.
ImplementsTty == Co!ImplementsTty /\ []Co!InputSound

=================================================================================
