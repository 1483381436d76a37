--------------------------------- MODULE Blocks ---------------------------------
(***************************************************************************)
(* The blocks of a file system: the bitmap of free blocks, the addresses   *)
(* an inode keeps its content at, and reading and writing through an open  *)
(* file, by fs.c and file.c.                                               *)
(*                                                                         *)
(* What is done under the lock of an inode is one step: with the other     *)
(* inodes it shares the bitmap, a block of which balloc() and bfree() keep *)
(* locked from the test to the mark. Crashes are the Log module's.         *)
(***************************************************************************)
EXTENDS Integers, Sequences, FiniteSets, FiniteSetsExt, SequencesExt

CONSTANTS
  Procs,          \* numbers, the bytes they write
  Inodes,
  FileIp,         \* the inode of each open file; processes share the files
  NBLOCKS,        \* data blocks of the disk
  BSIZE, BPB,     \* bytes of a block, and bits of a block of the bitmap
  NDIRECT, NINDIRECT,
  MAXOPBLOCKS,
  Sizes,          \* bytes a call asks for
  MaxCalls        \* bound: calls of read() and write()

BlockNos == 1..NBLOCKS
MAXFILE  == NDIRECT + NINDIRECT
Files    == DOMAIN FileIp

\* The places an inode keeps an address in: the direct ones, that of the indirect
\* block, and those in it.
Slots == 0..MAXFILE
Slot(bn) == IF bn < NDIRECT THEN bn ELSE bn + 1

VARIABLES
  bitmap,         \* the blocks in use
  disk,           \* the cells of each block: bytes, or addresses
  inode,          \* [addrs, size]
  off,            \* f->off of each open file
  proc,           \* the write() each process is in: its file, the bytes it has left, -1
                  \* when it has failed, and which
  got,            \* what its last read() returned
  logged,         \* the blocks log_write() has been given in the last transaction
  calls, panicked

vars == <<bitmap, disk, inode, off, proc, got, logged, calls, panicked>>

Zeroes == [k \in 0..BSIZE - 1 |-> 0]

Init ==
  /\ bitmap = {}
  /\ disk = [b \in BlockNos |-> Zeroes]
  /\ inode = [i \in Inodes |-> [addrs |-> [s \in 0..NDIRECT |-> 0], size |-> 0]]
  /\ off = [f \in Files |-> 0]
  /\ proc = [p \in Procs |-> [f |-> CHOOSE f \in Files : TRUE, n |-> 0, c |-> p]]
  /\ got = [p \in Procs |-> <<>>]
  /\ logged = {} /\ calls = 0 /\ panicked = ""

\* bmap(): the address in slot s of inode i, or 0.
Addr(i, s) ==
  LET indirect == inode[i].addrs[NDIRECT] IN
  IF s <= NDIRECT THEN inode[i].addrs[s]
  ELSE IF indirect = 0 THEN 0 ELSE disk[indirect][s - NDIRECT - 1]

\* The slots bmap() looks at for the bytes from a to b - 1.
SlotsOf(a, b) ==
  LET bns == {x \div BSIZE : x \in a..b - 1} IN
  {Slot(bn) : bn \in bns} \cup (IF \E bn \in bns : bn >= NDIRECT THEN {NDIRECT} ELSE {})

BitmapBlocks(bs) == {<<"bitmap", b \div BPB>> : b \in bs}
DataBlocks(bs) == {<<"block", b>> : b \in bs}

\* Mutant: a block keeps what was in it when it is given out.
BzeroNot(d, bs) == d

\* balloc() zeroes the blocks bs it gives out.
Bzero(d, bs) == [b \in BlockNos |-> IF b \in bs THEN Zeroes ELSE d[b]]

-----------------------------------------------------------------------------
(* fs.c                                                                    *)

Below(x, S) == Cardinality({y \in S : y < x})

\* The addresses of inode i once bmap() has got the missing blocks, in the order of the
\* slots, each the first that is free.
Placed(i, missing) ==
  LET free == BlockNos \ bitmap IN
  [s \in Slots |-> IF s \in missing
                   THEN CHOOSE b \in free : Below(b, free) = Below(s, missing)
                   ELSE Addr(i, s)]

\* With the addresses addr: the blocks the bytes from a to b - 1 are in, and where in
\* block x they are.
Touched(addr, a, b) == {addr[s] : s \in SlotsOf(a, b) \ {NDIRECT}}
Within(addr, a, b, x) == {y % BSIZE : y \in {z \in a..b - 1 : addr[Slot(z \div BSIZE)] = x}}

\* Bytes c from a to b - 1 of inode i, whose blocks bmap() has found, or placed, at addr.
Put(i, c, a, b, addr) ==
  LET missing == {s \in SlotsOf(a, b) : Addr(i, s) = 0}
      entries == {s \in SlotsOf(a, b) : s > NDIRECT}
      fresh == {addr[s] : s \in missing}
      clean == Bzero(disk, fresh)
      data == Touched(addr, a, b)
      grown == b > inode[i].size
  IN
  /\ bitmap' = bitmap \cup fresh
  /\ disk' = [x \in BlockNos |->
       IF x \in data THEN [k \in 0..BSIZE - 1 |-> IF k \in Within(addr, a, b, x) THEN c ELSE clean[x][k]]
       ELSE IF x = addr[NDIRECT]
       THEN [k \in 0..BSIZE - 1 |-> IF NDIRECT + 1 + k \in entries THEN addr[NDIRECT + 1 + k]
                                    ELSE clean[x][k]]
       ELSE disk[x]]
  /\ inode' = [inode EXCEPT ![i] = [addrs |-> [s \in 0..NDIRECT |-> addr[s]],
                                    size |-> IF grown THEN b ELSE inode[i].size]]
  /\ logged' = BitmapBlocks(fresh) \cup DataBlocks(fresh \cup data)
                 \cup (IF missing \cap entries # {} THEN DataBlocks({addr[NDIRECT]}) ELSE {})
                 \cup (IF grown THEN {<<"inode", i>>} ELSE {})
  /\ UNCHANGED panicked

\* writei() of n times byte c. balloc() panics when no block is free.
Writei(i, c, at, n) ==
  LET missing == {s \in SlotsOf(at, at + n) : Addr(i, s) = 0} IN
  IF Cardinality(missing) > NBLOCKS - Cardinality(bitmap)
  THEN panicked' = "out of blocks" /\ UNCHANGED <<bitmap, disk, inode, logged>>
  ELSE \E addr \in {Placed(i, missing)} : Put(i, c, at, at + n, addr)

\* readi(): the bytes there are.
Readi(i, at, n) ==
  [k \in 1..Max({0, Min({n, inode[i].size - at})}) |->
     LET x == at + k - 1 IN disk[Addr(i, Slot(x \div BSIZE))][x % BSIZE]]

\* Mutant: the blocks are freed, the indirect block is not.
ItruncIndirect(i) ==
  LET blocks == {Addr(i, s) : s \in Slots \ {NDIRECT}} \ {0} IN
  IF ~(blocks \subseteq bitmap) THEN panicked' = "freeing free block" /\ UNCHANGED <<bitmap, inode, logged>>
  ELSE
  /\ bitmap' = bitmap \ blocks
  /\ inode' = [inode EXCEPT ![i] = [addrs |-> [s \in 0..NDIRECT |-> 0], size |-> 0]]
  /\ logged' = BitmapBlocks(blocks) \cup {<<"inode", i>>}
  /\ UNCHANGED panicked

\* itrunc(): bfree() of every block, which panics when the block is free.
Itrunc(i) ==
  LET blocks == {Addr(i, s) : s \in Slots} \ {0} IN
  IF ~(blocks \subseteq bitmap) THEN panicked' = "freeing free block" /\ UNCHANGED <<bitmap, inode, logged>>
  ELSE
  /\ bitmap' = bitmap \ blocks
  /\ inode' = [inode EXCEPT ![i] = [addrs |-> [s \in 0..NDIRECT |-> 0], size |-> 0]]
  /\ logged' = BitmapBlocks(blocks) \cup {<<"inode", i>>}
  /\ UNCHANGED panicked

-----------------------------------------------------------------------------
(* file.c                                                                  *)

Call == calls < MaxCalls /\ calls' = calls + 1

\* filewrite() writes so many bytes in a transaction at most.
MaxChunk == ((MAXOPBLOCKS - 1 - 1 - 2) \div 2) * BSIZE

\* write() of n times byte c.
Filewrite(p, f, n, c) ==
  /\ proc[p].n <= 0 /\ panicked = ""
  /\ Call
  /\ proc' = [proc EXCEPT ![p] = [f |-> f, n |-> n, c |-> c]]
  /\ UNCHANGED <<bitmap, disk, inode, off, got, logged, panicked>>

\* One round of its loop: the offset is read, and moved, under the inode's lock. A
\* write past the largest file ends the call with -1.
WriteChunk(p) ==
  LET f == proc[p].f
      n == Min({proc[p].n, MaxChunk})
  IN
  /\ proc[p].n > 0 /\ panicked = ""
  /\ IF off[f] > inode[FileIp[f]].size \/ off[f] + n > MAXFILE * BSIZE
     THEN /\ proc' = [proc EXCEPT ![p].n = -1]
          /\ UNCHANGED <<bitmap, disk, inode, off, logged, panicked>>
     ELSE /\ Writei(FileIp[f], proc[p].c, off[f], n)
          /\ off' = [off EXCEPT ![f] = IF panicked' = "" THEN @ + n ELSE @]
          /\ proc' = [proc EXCEPT ![p].n = @ - n]
  /\ UNCHANGED <<got, calls>>

Fileread(p, f, n) ==
  /\ proc[p].n <= 0 /\ panicked = ""
  /\ Call
  /\ got' = [got EXCEPT ![p] = Readi(FileIp[f], off[f], n)]
  /\ off' = [off EXCEPT ![f] = @ + Len(got'[p])]
  /\ UNCHANGED <<bitmap, disk, inode, proc, logged, panicked>>

\* The last iput() of a file that has been unlinked; another inode is made, and opened.
Iput(i) ==
  /\ \A p \in Procs : proc[p].n <= 0 \/ FileIp[proc[p].f] # i
  /\ panicked = "" /\ inode[i].size > 0
  /\ Itrunc(i)
  /\ off' = [f \in Files |-> IF FileIp[f] = i /\ panicked' = "" THEN 0 ELSE off[f]]
  /\ UNCHANGED <<disk, proc, got, calls>>

Next ==
  \/ \E p \in Procs : \/ WriteChunk(p)
                      \/ \E f \in Files, n \in Sizes : Filewrite(p, f, n, p) \/ Fileread(p, f, n)
  \/ \E i \in Inodes : Iput(i)

Spec == Init /\ [][Next]_vars

-----------------------------------------------------------------------------
(* Properties.                                                             *)

\* A block is in use exactly when one slot of one inode holds it, whatever was written,
\* truncated and written again, so that no file sees another's bytes and none is lost;
\* a file has the blocks of its size, and bfree() never finds its block free.
BlocksExact ==
  LET refs == {r \in Inodes \X Slots : Addr(r[1], r[2]) # 0} IN
  /\ bitmap = {Addr(r[1], r[2]) : r \in refs}
  /\ Cardinality(bitmap) = Cardinality(refs)
  /\ \A i \in Inodes : {s \in Slots : Addr(i, s) # 0} = SlotsOf(0, inode[i].size)
  /\ panicked # "freeing free block"

\* A transaction of write() or of the last iput() stays within what begin_op() has
\* reserved, wherever the offset is, also when every block that is allocated is in a
\* block of the bitmap of its own.
TransactionFits == Cardinality(logged) <= MAXOPBLOCKS

\* Files are sequences of bytes: what is read is what was written last, two writers
\* of one open file never write over each other, and a file that is made anew shows
\* nothing of the old one.
Content(i) == Readi(i, 0, inode[i].size)

F == INSTANCE FileStore WITH content <- [i \in Inodes |-> Content(i)], offset <- off,
                             MaxSize <- MAXFILE * BSIZE

ImplementsFileStore == F!Spec

=============================================================================
