-------------------------------- MODULE Storage --------------------------------
(***************************************************************************)
(* The blocks and bytes of some files, Blocks, beside other parts of the   *)
(* machine.                                                                *)
(***************************************************************************)
EXTENDS Integers, Sequences, FiniteSets

CONSTANTS
  Writers, Inums, FileInum, NDATA, BytesPerBlock, BPB, NDIRECT, NINDIRECT, OPBLOCKS,
  CallSizes, CallsMax

\* Addresses of an indirect block fit in it. A call is long enough for one block of data
\* with an indirect one, and for every block of the bitmap with an inode.
ASSUME StorageAssumption ==
  /\ FileInum \in Seq(Inums) /\ FileInum # <<>> /\ IsFiniteSet(Inums)
  /\ NDATA \in Nat /\ BytesPerBlock \in Nat \ {0} /\ BPB \in Nat \ {0}
  /\ NDIRECT \in Nat /\ NINDIRECT \in 1..BytesPerBlock
  /\ OPBLOCKS \in Nat /\ OPBLOCKS >= 6 /\ (NDATA \div BPB) + 2 <= OPBLOCKS
  /\ CallSizes \subseteq Nat \ {0}

VARIABLES blBitmap, blDisk, blInode, blOff, blProc, blGot, blLogged, blCalls, blPanicked

Bl == INSTANCE Blocks WITH
        Procs <- Writers, Inodes <- Inums, FileIp <- FileInum, NBLOCKS <- NDATA,
        BSIZE <- BytesPerBlock, MAXOPBLOCKS <- OPBLOCKS, Sizes <- CallSizes, MaxCalls <- CallsMax,
        bitmap <- blBitmap, disk <- blDisk, inode <- blInode, off <- blOff, proc <- blProc,
        got <- blGot, logged <- blLogged, calls <- blCalls, panicked <- blPanicked

\* A block has one use, and a call fits in what it reserves of the log.
BlocksExact == Bl!BlocksExact /\ Bl!TransactionFits

\* Files are sequences of bytes.
ImplementsFileStore == Bl!F!Spec

================================================================================
