------------------------------ MODULE MCUsertests ------------------------------
(* The tests of usertests.c that look for races, one alone, for TLC.        *)
EXTENDS Usertests

SomeNames == {"README", "C", "x", ".", ".."}

\* Only the test makes calls.
NoCalls == [p \in Procs |-> {}]

=============================================================================
