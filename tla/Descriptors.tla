------------------------------ MODULE Descriptors ------------------------------
(***************************************************************************)
(* The file table and the descriptors of some processes, Files, beside     *)
(* other parts of the machine.                                             *)
(***************************************************************************)
EXTENDS Integers, FiniteSets

CONSTANTS Users, FirstUser, NFILE, NOFILE, NINODE, NPIPE

ASSUME DescriptorsAssumption ==
  /\ IsFiniteSet(Users) /\ FirstUser \in Users
  /\ NFILE \in Nat /\ NOFILE \in Nat /\ NINODE \in Nat /\ NPIPE \in Nat

VARIABLES fiFtable, fiInode, fiPipe, fiProc

Fi == INSTANCE Files WITH
        Procs <- Users, InitProc <- FirstUser,
        ftable <- fiFtable, inode <- fiInode, pipe <- fiPipe, proc <- fiProc

\* The counts of struct file are right, and so is who is to let go of what is open.
FilesExact == Fi!TableExact /\ Fi!ObjectsExact

================================================================================
