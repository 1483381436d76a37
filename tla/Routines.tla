-------------------------------- MODULE Routines --------------------------------
(***************************************************************************)
(* The routines the kernel and the programs copy, check, print and match   *)
(* with, loop by loop, beside what they are for. A step calls one of them. *)
(*                                                                         *)
(* A string is a sequence of bytes that ends with its NUL, 0.              *)
(***************************************************************************)
EXTENDS Parser, Integers, Sequences, FiniteSets, FiniteSetsExt, SequencesExt

CONSTANTS
  MEM,          \* cells of memory, 0 to MEM - 1
  UINT,         \* unsigned numbers are below this (2^32)
  COLS, ROWS,   \* of the screen (80 and 24)
  BSIZE, NDIRECT, NINDIRECT, NMETA,   \* of mkfs's disk, in directory entries
  Patterns, Texts, CommandLines, FileSizes

VARIABLE call   \* what was called, with what, and what came out

Init == call = [op |-> "none"]

Unsigned == 0..UINT - 1
Signed   == -(UINT \div 2)..UINT \div 2 - 1

-----------------------------------------------------------------------------
(* Copying: string.c and ulib.c.                                           *)

Cells == 0..MEM - 1
Fresh == [a \in Cells |-> a + 1]

RECURSIVE Upwards(_, _, _, _), Downwards(_, _, _, _)
Upwards(m, d, s, n) == IF n = 0 THEN m ELSE Upwards([m EXCEPT ![d] = m[s]], d + 1, s + 1, n - 1)
Downwards(m, d, s, n) ==
  IF n = 0 THEN m ELSE Downwards([m EXCEPT ![d + n - 1] = m[s + n - 1]], d, s, n - 1)

\* Mutant: the end that overlaps is not looked at.
MemmoveUp(m, d, s, n) == IF s < d /\ s + n > d + 1 THEN Downwards(m, d, s, n) ELSE Upwards(m, d, s, n)

Memmove(m, d, s, n) == IF s < d /\ s + n > d THEN Downwards(m, d, s, n) ELSE Upwards(m, d, s, n)

Moved(m, d, s, n) == [a \in Cells |-> IF a \in d..d + n - 1 THEN m[a - d + s] ELSE m[a]]

\* The copying loops of strncpy() and safestrcpy(), of t to address 0, from its byte k
\* on: the memory, the bytes copied, and what is left of n.
RECURSIVE CopyString(_, _, _, _, _)
CopyString(m, t, k, n, pre) ==
  IF n - pre <= 0 THEN [m |-> m, k |-> k, n |-> n - 1]
  ELSE LET m2 == [m EXCEPT ![k] = t[k + 1]] IN
       IF t[k + 1] = 0 THEN [m |-> m2, k |-> k + 1, n |-> n - 1]
       ELSE CopyString(m2, t, k + 1, n - 1, pre)

Strncpy(m, t, n) ==
  LET c == CopyString(m, t, 0, n, 0) IN
  [a \in Cells |-> IF a \in c.k..c.k + c.n - 1 THEN 0 ELSE c.m[a]]

Safestrcpy(m, t, n) ==
  IF n <= 0 THEN m
  ELSE LET c == CopyString(m, t, 0, n, 1) IN [c.m EXCEPT ![c.k] = 0]

Strlen(t) == Min({k \in 0..Len(t) - 1 : t[k + 1] = 0})

RECURSIVE Strncmp(_, _, _)
Strncmp(p, q, n) ==
  IF n = 0 THEN 0
  ELSE IF p[1] # 0 /\ p[1] = q[1] THEN Strncmp(Tail(p), Tail(q), n - 1) ELSE p[1] - q[1]

Strings == {Append(t, 0) : t \in BoundedSeq({1, 2}, 3)}

Copies ==
  \/ \E d, s, n \in Cells :
       /\ d + n <= MEM /\ s + n <= MEM
       /\ call' = [op |-> "memmove", d |-> d, s |-> s, n |-> n,
                   out |-> Memmove(Fresh, d, s, n), up |-> Upwards(Fresh, d, s, n)]
  \/ \E t \in Strings, n \in -1..MEM - 1 :
       call' = [op |-> "strcpy", t |-> t, n |-> n,
                out |-> Strncpy(Fresh, t, n), safe |-> Safestrcpy(Fresh, t, n)]
  \/ \E t, u \in Strings, n \in 0..4 :
       call' = [op |-> "strncmp", t |-> t, u |-> u, n |-> n, out |-> Strncmp(t, u, n)]

\* memmove() copies as if through a third place, whatever overlaps; the programs' own
\* does where it moves down. strncpy() fills n bytes, safestrcpy() also ends what it
\* had to cut, and neither writes past the n-th.
CopiesRight ==
  /\ call.op = "memmove" =>
       /\ call.out = Moved(Fresh, call.d, call.s, call.n)
       /\ call.d <= call.s => call.up = call.out
  /\ call.op = "strcpy" =>
       LET len == Strlen(call.t)
           fit == Min({len, call.n - 1})
       IN
       /\ call.out = [a \in Cells |-> IF a >= call.n THEN Fresh[a] ELSE IF a < len THEN call.t[a + 1] ELSE 0]
       /\ \A a \in Cells : /\ a >= call.n => call.safe[a] = Fresh[a]
                           /\ a < fit => call.safe[a] = call.t[a + 1]
       /\ call.n > 0 => call.safe[fit] = 0
  /\ call.op = "strncmp" =>
       (call.out = 0 <=> SubSeq(call.t, 1, Min({call.n, Len(call.t)}))
                           = SubSeq(call.u, 1, Min({call.n, Len(call.u)})))

-----------------------------------------------------------------------------
(* Checking what a program passes: syscall.c, and readi() of fs.c.         *)

Uint(x) == x % UINT

Fetchint(sz, addr) == ~(addr >= sz \/ Uint(addr + 4) > sz)

Argint(sz, esp, n) == Fetchint(sz, Uint(esp + 4 + 4 * n))

Argptr(sz, i, size) == ~(size < 0 \/ Uint(i) >= sz \/ Uint(Uint(i) + size) > sz)

\* fetchstr(): the length, or -1; the memory's NULs are at the given addresses.
Fetchstr(sz, addr, nuls) ==
  LET found == {a \in nuls : addr <= a /\ a < sz} IN
  IF addr >= sz \/ found = {} THEN -1 ELSE Min(found) - addr

\* readi(): how many bytes.
Readi(size, off, n) ==
  IF off > size \/ Uint(off + n) < off THEN -1
  ELSE IF Uint(off + n) > size THEN size - off ELSE n

\* An address space ends below KERNBASE, half way up.
Checks ==
  \E sz \in 0..UINT \div 2 :
    \/ \E addr \in Unsigned : call' = [op |-> "fetchint", sz |-> sz, addr |-> addr, ok |-> Fetchint(sz, addr)]
    \/ \E esp \in Unsigned, n \in 0..2 :
         call' = [op |-> "fetchint", sz |-> sz, addr |-> Uint(esp + 4 + 4 * n), ok |-> Argint(sz, esp, n)]
    \/ \E i, size \in Signed :
         call' = [op |-> "argptr", sz |-> sz, i |-> Uint(i), size |-> size, ok |-> Argptr(sz, i, size)]
    \/ \E addr \in Unsigned, nuls \in SUBSET {0, 3, UINT \div 2} :
         call' = [op |-> "fetchstr", sz |-> sz, addr |-> addr, nuls |-> nuls, out |-> Fetchstr(sz, addr, nuls)]
    \/ \E off, n \in Unsigned :
         call' = [op |-> "readi", size |-> sz, off |-> off, n |-> n, out |-> Readi(sz, off, n)]

\* What is accepted lies in the address space with every byte of it, and what lies in it
\* is accepted, although the sums that are compared may overflow.
ChecksRight ==
  /\ call.op = "fetchint" => (call.ok <=> call.addr + 4 <= call.sz)
  /\ call.op = "argptr" => (call.ok <=> call.size >= 0 /\ call.i < call.sz /\ call.i + call.size <= call.sz)
  /\ call.op = "fetchstr" =>
       (call.out >= 0 <=> \E a \in call.nuls : call.addr <= a /\ a < call.sz)
  /\ call.op = "readi" =>
       (call.out >= 0 => call.out = Cardinality({x \in 0..call.size - 1 : call.off <= x /\ x < call.off + call.n}))

-----------------------------------------------------------------------------
(* Printing: printint(), atoi() and the screen of console.c.               *)

RECURSIVE Digits(_, _)
Digits(x, base) == (IF x \div base = 0 THEN <<>> ELSE Digits(x \div base, base)) \o <<x % base>>

\* The sign, and the digits.
Printint(xx, base, sign) ==
  LET neg == sign /\ xx < 0 IN
  [neg |-> neg, digits |-> Digits(Uint(IF neg THEN -xx ELSE xx), base)]

Atoi(digits) == FoldLeft(LAMBDA n, d : n * 10 + d, 0, digits)

\* cgaputc(): the cursor after c, once the screen has scrolled.
Cursor(pos, c) ==
  CASE c = "newline" -> pos + COLS - (pos % COLS)
    [] c = "backspace" -> IF pos > 0 THEN pos - 1 ELSE pos
    [] OTHER -> pos + 1

Cgaputc(pos, c) == IF Cursor(pos, c) \div COLS >= ROWS THEN Cursor(pos, c) - COLS ELSE Cursor(pos, c)

Prints ==
  \/ \E xx \in Signed, base \in {10, 16}, sign \in BOOLEAN :
       call' = [op |-> "printint", xx |-> xx, base |-> base, sign |-> sign, out |-> Printint(xx, base, sign)]
  \/ \E pos \in 0..ROWS * COLS - 1, c \in {"newline", "backspace", "a"} :
       call' = [op |-> "cgaputc", at |-> Cursor(pos, c), out |-> Cgaputc(pos, c)]

\* The least number is printed too, in room enough; the cursor stays on the screen, and
\* cgaputc() does not panic.
PrintsRight ==
  /\ call.op = "printint" =>
       LET value == FoldLeft(LAMBDA n, d : n * call.base + d, 0, call.out.digits) IN
       /\ IF call.sign THEN call.xx = (IF call.out.neg THEN -value ELSE value) ELSE value = Uint(call.xx)
       /\ call.base = 10 => Atoi(call.out.digits) = value
       /\ Len(call.out.digits) > 1 => call.out.digits[1] # 0
  /\ call.op = "cgaputc" => call.at \in 0..(ROWS + 1) * COLS /\ call.out \in 0..ROWS * COLS - 1

-----------------------------------------------------------------------------
(* Matching: grep.c. A pattern and a text are sequences of characters.     *)

At(re, k) == IF k <= Len(re) THEN re[k] ELSE ""
Rest(re, k) == SubSeq(re, k, Len(re))

RECURSIVE Matchhere(_, _), Matchstar(_, _, _), Match(_, _)
Matchhere(re, text) ==
  \/ At(re, 1) = ""
  \/ /\ At(re, 1) # ""
     /\ IF At(re, 2) = "*" THEN Matchstar(re[1], Rest(re, 3), text)
        ELSE IF At(re, 1) = "$" /\ At(re, 2) = "" THEN text = <<>>
        ELSE /\ text # <<>> /\ re[1] \in {".", At(text, 1)}
             /\ Matchhere(Rest(re, 2), Tail(text))

Matchstar(c, re, text) ==
  \/ Matchhere(re, text)
  \/ text # <<>> /\ c \in {".", At(text, 1)} /\ Matchstar(c, re, Tail(text))

Match(re, text) ==
  IF At(re, 1) = "^" THEN Matchhere(Rest(re, 2), text)
  ELSE Matchhere(re, text) \/ (text # <<>> /\ Match(re, Tail(text)))

\* What a pattern means: its atoms, each a character with or without a star, cover
\* consecutive parts of the text, up to its end when the last character is a $.
RECURSIVE Atoms(_)
Atoms(re) ==
  IF re = <<>> THEN <<>>
  ELSE IF At(re, 2) = "*" THEN <<[c |-> re[1], star |-> TRUE]>> \o Atoms(Rest(re, 3))
  ELSE <<[c |-> re[1], star |-> FALSE]>> \o Atoms(Rest(re, 2))

Means(re, text) ==
  LET start == At(re, 1) = "^"
      all == Atoms(IF start THEN Tail(re) ELSE re)
      end == all # <<>> /\ Last(all) = [c |-> "$", star |-> FALSE]
      atoms == IF end THEN Front(all) ELSE all
  IN
  \E cut \in [0..Len(atoms) -> 0..Len(text)] :
    /\ start => cut[0] = 0
    /\ end => cut[Len(atoms)] = Len(text)
    /\ \A k \in 1..Len(atoms) :
         /\ cut[k - 1] <= cut[k]
         /\ ~atoms[k].star => cut[k] = cut[k - 1] + 1
         /\ \A x \in cut[k - 1] + 1..cut[k] : atoms[k].c \in {".", text[x]}

Matches ==
  \E re \in Patterns, text \in Texts :
    call' = [op |-> "match", re |-> re, text |-> text, out |-> Match(re, text)]

MatchesRight == call.op = "match" => (call.out <=> Means(call.re, call.text))

-----------------------------------------------------------------------------
(* Parsing: sh.c.                                                          *)

Parses == \E ts \in CommandLines : call' = [op |-> "parsecmd", ts |-> ts, out |-> Parsecmd(ts)]

\* The parser takes exactly the lines of the grammar, and each for the one command it
\* stands for: redirections, then |, then &, then ;, with parentheses around any.
ParsesRight ==
  call.op = "parsecmd" => Lines(call.ts) = IF call.out = Panic THEN {} ELSE {call.out}

-----------------------------------------------------------------------------
(* Making a file system: mkfs.c. An image is its inodes and freeblock.     *)

MAXFILE == NDIRECT + NINDIRECT

\* Slot NDIRECT is the indirect block, the slots after it are in it.
NoBlocks == [s \in 0..MAXFILE |-> 0]

RECURSIVE Iappend(_, _, _), Whole(_, _, _), AddFiles(_, _)

\* iappend() of n to inode i, a block at most in a round.
Iappend(im, i, n) ==
  LET d == im.inode[i]
      fbn == d.size \div BSIZE
      direct == fbn < NDIRECT
      slot == IF direct THEN fbn ELSE fbn + 1
      addrs == IF ~direct /\ d.addrs[NDIRECT] = 0 THEN [d.addrs EXCEPT ![NDIRECT] = im.freeblock] ELSE d.addrs
      b == im.freeblock + (IF addrs = d.addrs THEN 0 ELSE 1)
      more == addrs[slot] = 0
      n1 == Min({n, (fbn + 1) * BSIZE - d.size})
  IN
  IF n = 0 THEN im
  ELSE Iappend([inode |-> [im.inode EXCEPT ![i] =
                             [size |-> d.size + n1, addrs |-> IF more THEN [addrs EXCEPT ![slot] = b] ELSE addrs]],
                freeblock |-> IF more THEN b + 1 ELSE b], i, n - n1)

\* A file is appended a block at a time, as it is read.
Whole(im, i, n) == IF n = 0 THEN im ELSE Whole(Iappend(im, i, Min({n, BSIZE})), i, n - Min({n, BSIZE}))

\* Each file is an inode, an entry of the root, and its content.
AddFiles(im, sizes) ==
  LET inum == Len(im.inode) + 1
      made == [im EXCEPT !.inode = Append(@, [size |-> 0, addrs |-> NoBlocks])]
  IN  IF sizes = <<>> THEN im
      ELSE AddFiles(Whole(Iappend(made, 1, 1), inum, Head(sizes)), Tail(sizes))

\* The root begins with two entries, and ends with its size rounded up.
Mkfs(sizes) ==
  LET root == [inode |-> <<[size |-> 0, addrs |-> NoBlocks]>>, freeblock |-> NMETA]
      im == AddFiles(Iappend(Iappend(root, 1, 1), 1, 1), sizes)
  IN  [im EXCEPT !.inode[1].size = ((@ \div BSIZE) + 1) * BSIZE]

Images == \E sizes \in FileSizes : call' = [op |-> "mkfs", sizes |-> sizes, out |-> Mkfs(sizes)]

\* The blocks that balloc() marks, those below freeblock, are each in one place of one
\* inode, and an inode has the blocks of its size; but a root whose entries fill
\* their blocks ends up a block larger than it has.
ImagesRight ==
  call.op = "mkfs" =>
    LET inode == call.out.inode
        refs == {r \in (DOMAIN inode) \X (0..MAXFILE) : inode[r[1]].addrs[r[2]] # 0}
        blocks(size) == (size + BSIZE - 1) \div BSIZE
        entries == 2 + Len(call.sizes)
        has(i) == Cardinality({s \in 0..MAXFILE \ {NDIRECT} : inode[i].addrs[s] # 0})
    IN
    /\ {inode[r[1]].addrs[r[2]] : r \in refs} = NMETA..call.out.freeblock - 1
    /\ Cardinality(refs) = call.out.freeblock - NMETA
    /\ \A k \in DOMAIN call.sizes : inode[k + 1].size = call.sizes[k] /\ has(k + 1) = blocks(call.sizes[k])
    /\ has(1) = blocks(entries)
    /\ blocks(inode[1].size) = has(1) + (IF entries % BSIZE = 0 THEN 1 ELSE 0)

-----------------------------------------------------------------------------

Next == call.op = "none" /\ (Copies \/ Checks \/ Prints \/ Matches \/ Parses \/ Images)

Spec == Init /\ [][Next]_call

RoutinesRight == CopiesRight /\ ChecksRight /\ PrintsRight /\ MatchesRight /\ ParsesRight /\ ImagesRight

=============================================================================
