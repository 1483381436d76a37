------------------------------- MODULE FsProofs -------------------------------
(***************************************************************************)
(* Proofs about the inode cache, the link counts and the calls of          *)
(* sysfile.c, for any processes, inodes, names and calls, and a crash at   *)
(* any step: ref is the number of pointers to an entry, nlink never falls  *)
(* short of the names on the disk, and a lock has one holder. Where no     *)
(* path goes up, no inode is freed that somebody can still get at, and     *)
(* what a crash leaves is a tree.                                          *)
(***************************************************************************)
EXTENDS Fs, FiniteSetTheorems, SequenceTheorems, WellFoundedInduction, TLAPS

\* Where a process has no inode in hand, one (ip), two (ip and dp), or dp alone.
Between == {"user", "end", "failed"}
One == {"walk", "open", "openw", "chdir", "create", "mkdir", "unlink", "link",
        "exists", "new", "unlinked", "bad"}
Two == {"walknew", "link2", "created", "unlinking", "linked"}
PcSet == Between \cup One \cup Two \cup {"notempty"}

ProcType ==
  [pc : PcSet, call : CallType \cup {<<>>}, rest : Seq(Names), ip : 0..NINODES, dp : 0..NINODES,
   put : Seq(Inums), stage : {"lock", "free", "drop"}, cwd : Inums, files : Seq(Inums),
   calls : Nat]

CacheType == [Inums -> [ref : Nat, valid : BOOLEAN, nlink : Nat,
                        type : {"free", "dir", "file"}, locker : Procs \cup {NoProc}]]
DiskType == [Inums -> InodeType]

Typed ==
  /\ disk \in DiskType /\ durable \in DiskType /\ icache \in CacheType
  /\ proc \in [Procs -> ProcType]
  /\ panicked \in {"", "ialloc: no inodes", "ilock: no type"}

\* What the place r.pc of a process says of the rest of it.
PlaceOf(r) ==
  /\ r.pc \in Between => r.ip = 0 /\ r.dp = 0
  /\ r.pc \in One => r.ip # 0 /\ r.dp = 0
  /\ r.pc \in Two => r.ip # 0 /\ r.dp # 0
  /\ r.pc = "notempty" => r.ip = 0 /\ r.dp # 0
  /\ r.put = <<>> => r.stage = "lock"
  /\ r.pc = "user" => r.put = <<>>
  /\ r.pc \notin Between =>
       /\ r.call \in CallType
       /\ Elements(r.call.path) \in Seq(Names) /\ Elements(r.call.new) \in Seq(Names)

\* The name a call is about is the last of the path it walks.
Naming(p) ==
  /\ proc[p].pc \in {"walk", "walknew"} /\ proc[p].rest # <<>> => Name(p) = Last(proc[p].rest)
  /\ proc[p].pc \in {"create", "mkdir", "created", "unlink", "unlinking", "link2"} =>
       Name(p) \in Names

Places == \A p \in Procs : PlaceOf(proc[p]) /\ Naming(p)

\* The inode that process r has locked from one step to the next, by its place, and
\* the one that it is about to free.
PlaceLock(r) == IF r.pc \in {"created", "unlinking", "notempty", "linked"} THEN r.dp
                ELSE IF r.pc \in {"new", "unlinked"} THEN r.ip ELSE 0
Freed(r) == IF r.put # <<>> /\ r.stage = "free" THEN Head(r.put) ELSE 0
Holds(p, s) == s # 0 /\ (PlaceLock(proc[p]) = s \/ Freed(proc[p]) = s)

Holding == \A p \in Procs, s \in Inums : Holds(p, s) => icache[s].locker = p /\ icache[s].valid

\* A valid entry of the cache is as the disk has it.
Coherent ==
  \A s \in Inums :
    icache[s].valid => /\ icache[s].type = disk[s].type /\ icache[s].nlink = disk[s].nlink
                       /\ disk[s].type # "free"

\* The file that link() has counted a link of and not yet made it.
LinkTarget(r) == IF r.pc \in {"walknew", "link2"} THEN r.dp
                 ELSE IF r.pc \in {"linked", "bad"} THEN r.ip ELSE 0

\* What create() and unlink() have seen in the directory they keep locked; and who is
\* about to free an inode has no part in any other that is being made.
EntryOf(p) ==
  /\ proc[p].pc = "created" =>
       /\ disk[proc[p].dp].ent[Name(p)] = 0 /\ proc[p].ip # proc[p].dp
       /\ disk[proc[p].ip].type # "free"
       /\ \A q \in Procs : Freed(proc[q]) # proc[p].ip
  /\ proc[p].pc = "unlinking" => /\ disk[proc[p].dp].ent[Name(p)] = proc[p].ip
                                 /\ Name(p) \notin Dots
  /\ LinkTarget(proc[p]) # 0 => disk[LinkTarget(proc[p])].type = "file"
  /\ Freed(proc[p]) # 0 => disk[Freed(proc[p])].nlink = 0 /\ PlaceLock(proc[p]) # Freed(proc[p])
Entries == \A p \in Procs : EntryOf(p)

\* The subdirectories that are named in directory s of disk d.
Subs(d, s) == {n \in Names \ Dots : d[s].ent[n] # 0 /\ d[d[s].ent[n]].type = "dir"}
Counted(d, s) == Cardinality(NamesOf(d, s)) + Cardinality(Subs(d, s)) + (IF s = Root THEN 1 ELSE 0)

\* The inode that unlink() has taken the name of and not yet the link.
LostLink(r) == IF r.pc = "unlinked" THEN r.ip ELSE 0

\* The links that are counted before they are made, or after they are gone.
Linking(s) == {p \in Procs : LinkTarget(proc[p]) = s}
Losing(s)  == {p \in Procs : LostLink(proc[p]) = s}

FreeIsFree(d) == \A s \in Inums : d[s].type = "free" => d[s] = Free
Links == /\ FreeIsFree(disk)
         /\ \A s \in Inums : disk[s].nlink >= Counted(disk, s) + Cardinality(Linking(s))
                                                + Cardinality(Losing(s))
Durable == /\ FreeIsFree(durable)
           /\ \A s \in Inums : durable[s].nlink >= Counted(durable, s)

IInv == Typed /\ Places /\ RefsExact /\ Holding /\ Coherent /\ Entries /\ Links /\ Durable

-----------------------------------------------------------------------------
(* Counting.                                                               *)

Eq(a, b) == IF a = b THEN 1 ELSE 0
In(q, s) == Cardinality({k \in DOMAIN q : q[k] = s})

LEMMA InFinite ==
  ASSUME NEW q \in Seq(Inums), NEW s
  PROVE  IsFiniteSet({k \in DOMAIN q : q[k] = s}) /\ In(q, s) \in Nat
<1>1. DOMAIN q = 1..Len(q) /\ Len(q) \in Nat
  BY LenProperties
<1>2. IsFiniteSet(1..Len(q))
  BY <1>1, FS_Interval
<1>3. {k \in DOMAIN q : q[k] = s} \in SUBSET (1..Len(q))
  BY <1>1
<1>4. IsFiniteSet({k \in DOMAIN q : q[k] = s})
  BY <1>2, <1>3, FS_Subset
<1> QED BY <1>4, FS_CardinalityType DEF In

\* A sequence without its k-th element has s once less if that was s.
LEMMA InWithout ==
  ASSUME NEW q \in Seq(Inums), NEW r \in Seq(Inums), NEW k \in 1..Len(q), NEW s,
         Len(r) = Len(q) - 1,
         \A j \in 1..Len(r) : r[j] = IF j < k THEN q[j] ELSE q[j + 1]
  PROVE  In(q, s) = In(r, s) + Eq(q[k], s)
<1> DEFINE Q == {j \in DOMAIN q : q[j] = s}
           R == {j \in DOMAIN r : r[j] = s}
           f == [j \in R |-> IF j < k THEN j ELSE j + 1]
<1>1. DOMAIN q = 1..Len(q) /\ DOMAIN r = 1..Len(r) /\ Len(q) \in Nat /\ Len(r) \in Nat
  BY LenProperties
<1>2. IsFiniteSet(Q) /\ IsFiniteSet(R) /\ In(q, s) = Cardinality(Q) /\ In(r, s) = Cardinality(R)
      /\ In(r, s) \in Nat
  BY InFinite DEF In
<1>3. f \in [R -> Q \ {k}]
  <2> SUFFICES ASSUME NEW j \in R PROVE f[j] \in Q \ {k}
    OBVIOUS
  <2> QED BY <1>1
<1>4. \A i, j \in R : f[i] = f[j] => i = j
  BY <1>1
<1>5. \A i \in Q \ {k} : \E j \in R : f[j] = i
  <2> SUFFICES ASSUME NEW i \in Q \ {k} PROVE \E j \in R : f[j] = i
    OBVIOUS
  <2>1. CASE i < k
    <3>1. i \in R /\ f[i] = i
      BY <1>1, <2>1
    <3> QED BY <3>1
  <2>2. CASE ~(i < k)
    <3>1. i - 1 \in 1..Len(r) /\ ~(i - 1 < k) /\ (i - 1) + 1 = i
      BY <1>1, <2>2
    <3>2. i - 1 \in R
      BY <1>1, <3>1
    <3>3. f[i - 1] = i
      BY <3>1, <3>2
    <3> QED BY <3>2, <3>3
  <2> QED BY <2>1, <2>2
<1>6. f \in Bijection(R, Q \ {k})
  BY <1>3, <1>4, <1>5 DEF Bijection, Injection, Surjection, IsInjective
<1>7. Cardinality(Q \ {k}) = Cardinality(R)
  <2> HIDE DEF f, Q, R
  <2>1. ExistsBijection(R, Q \ {k})
    BY <1>6 DEF ExistsBijection
  <2> QED BY <1>2, <2>1, FS_Bijection
<1>8. Cardinality(Q \ {k}) = IF k \in Q THEN Cardinality(Q) - 1 ELSE Cardinality(Q)
  BY <1>2, FS_RemoveElement
<1>9. Cardinality(Q) \in Nat
  BY <1>2, FS_CardinalityType
<1>10. k \in Q <=> q[k] = s
  BY <1>1
<1> QED BY <1>2, <1>7, <1>8, <1>9, <1>10 DEF Eq

LEMMA InEmpty == \A s : In(<<>>, s) = 0
BY FS_EmptySet DEF In

LEMMA InOne ==
  ASSUME NEW a \in Inums, NEW s
  PROVE  In(<<a>>, s) = Eq(a, s)
<1>1. <<a>> \in Seq(Inums) /\ <<>> \in Seq(Inums) /\ Len(<<a>>) = 1 /\ Len(<<>>) = 0
  OBVIOUS
<1> DEFINE q == <<a>>
           r == <<>>
<1>2. /\ 1 \in 1..Len(q) /\ Len(r) = Len(q) - 1 /\ q[1] = a
      /\ \A j \in 1..Len(r) : r[j] = IF j < 1 THEN q[j] ELSE q[j + 1]
  BY <1>1
<1>3. In(q, s) = In(r, s) + Eq(q[1], s)
  <2> HIDE DEF q, r
  <2>1. q \in Seq(Inums) /\ r \in Seq(Inums)
    BY <1>1 DEF q, r
  <2> QED BY <1>2, <2>1, InWithout
<1> QED BY <1>2, <1>3, InEmpty DEF Eq

LEMMA InTwo ==
  ASSUME NEW a \in Inums, NEW b \in Inums, NEW s
  PROVE  In(<<a, b>>, s) = Eq(a, s) + Eq(b, s)
<1>1. <<a, b>> \in Seq(Inums) /\ <<b>> \in Seq(Inums) /\ Len(<<a, b>>) = 2 /\ Len(<<b>>) = 1
  OBVIOUS
<1> DEFINE q == <<a, b>>
           r == <<b>>
<1>2. /\ 1 \in 1..Len(q) /\ Len(r) = Len(q) - 1 /\ q[1] = a
      /\ \A j \in 1..Len(r) : r[j] = IF j < 1 THEN q[j] ELSE q[j + 1]
  BY <1>1
<1>3. In(q, s) = In(r, s) + Eq(q[1], s)
  <2> HIDE DEF q, r
  <2>1. q \in Seq(Inums) /\ r \in Seq(Inums)
    BY <1>1 DEF q, r
  <2> QED BY <1>2, <2>1, InWithout
<1> QED BY <1>2, <1>3, InOne DEF Eq

LEMMA InTail ==
  ASSUME NEW q \in Seq(Inums), q # <<>>, NEW s
  PROVE  In(q, s) = In(Tail(q), s) + Eq(Head(q), s)
<1>1. /\ Tail(q) \in Seq(Inums) /\ Len(Tail(q)) = Len(q) - 1 /\ Head(q) = q[1]
      /\ \A i \in 1 .. Len(Tail(q)) : Tail(q)[i] = q[i+1]
  BY HeadTailProperties
<1>2. 1 \in 1..Len(q)
  BY LenProperties, EmptySeq
<1>3. \A j \in 1..Len(Tail(q)) : Tail(q)[j] = IF j < 1 THEN q[j] ELSE q[j + 1]
  BY <1>1, LenProperties
<1>4. In(q, s) = In(Tail(q), s) + Eq(q[1], s)
  BY <1>1, <1>2, <1>3, InWithout, ZenonT(60)
<1> QED BY <1>1, <1>4

LEMMA InAppend ==
  ASSUME NEW q \in Seq(Inums), NEW a \in Inums, NEW s
  PROVE  In(Append(q, a), s) = In(q, s) + Eq(a, s)
<1> DEFINE r == Append(q, a)
<1>1. /\ r \in Seq(Inums) /\ Len(r) = Len(q) + 1 /\ r[Len(q) + 1] = a /\ Len(q) \in Nat
      /\ \A i \in 1..Len(q) : r[i] = q[i]
  OBVIOUS
<1>2. Len(q) + 1 \in 1..Len(r) /\ Len(q) = Len(r) - 1
  BY <1>1
<1>3. In(r, s) = In(q, s) + Eq(r[Len(q) + 1], s)
  <2> HIDE DEF r
  <2>1. \A j \in 1..Len(q) : q[j] = IF j < Len(q) + 1 THEN r[j] ELSE r[j + 1]
    BY <1>1
  <2> QED BY <1>1, <1>2, <2>1, InWithout
<1> QED BY <1>1, <1>3

LEMMA InRemove ==
  ASSUME NEW q \in Seq(Inums), NEW k \in DOMAIN q, NEW s
  PROVE  /\ RemoveAt(q, k) \in Seq(Inums)
         /\ In(q, s) = In(RemoveAt(q, k), s) + Eq(q[k], s)
<1> DEFINE a == SubSeq(q, 1, k - 1)
           b == SubSeq(q, k + 1, Len(q))
<1>1. k \in 1..Len(q) /\ Len(q) \in Nat /\ \A j \in 1..Len(q) : q[j] \in Inums
  BY LenProperties, ElementOfSeq
<1>2. a \in Seq(Inums) /\ Len(a) = k - 1 /\ \A j \in 1..k - 1 : a[j] = q[j]
  BY <1>1, SubSeqProperties
<1>3. b \in Seq(Inums) /\ Len(b) = Len(q) - k /\ \A j \in 1..Len(q) - k : b[j] = q[k + j]
  BY <1>1, SubSeqProperties
<1> HIDE DEF a, b
<1>4. /\ a \o b \in Seq(Inums) /\ Len(a \o b) = Len(a) + Len(b)
      /\ \A j \in 1..Len(a) + Len(b) : (a \o b)[j] = IF j <= Len(a) THEN a[j] ELSE b[j - Len(a)]
  BY <1>2, <1>3, ConcatProperties
<1>6. Len(a) + Len(b) = Len(q) - 1
  BY <1>1, <1>2, <1>3
<1>7. ASSUME NEW j \in 1..Len(q) - 1
      PROVE  (a \o b)[j] = IF j < k THEN q[j] ELSE q[j + 1]
  <2>1. CASE j < k
    BY <1>1, <1>2, <1>4, <1>6, <2>1
  <2>2. CASE ~(j < k)
    <3>1. j - (k - 1) \in 1..Len(q) - k /\ k + (j - (k - 1)) = j + 1
      BY <1>1, <2>2
    <3>2. (a \o b)[j] = b[j - (k - 1)]
      BY <1>1, <1>2, <1>4, <1>6, <2>2, SMTT(60)
    <3> QED BY <1>3, <2>2, <3>1, <3>2
  <2> QED BY <2>1, <2>2
<1>5. RemoveAt(q, k) = a \o b
  BY DEF RemoveAt, a, b
<1> DEFINE r == a \o b
<1>8. In(q, s) = In(r, s) + Eq(q[k], s)
  <2>1. r \in Seq(Inums) /\ Len(r) = Len(q) - 1
    BY <1>4, <1>6
  <2>2. \A j \in 1..Len(r) : r[j] = IF j < k THEN q[j] ELSE q[j + 1]
    BY <1>7, <2>1
  <2> HIDE DEF r
  <2> QED BY <1>1, <2>1, <2>2, InWithout
<1> QED BY <1>4, <1>5, <1>8

-----------------------------------------------------------------------------
(* References.                                                             *)

\* RefsOf() of a process in state r, and all references.
RefSet(r, s) ==
  ({f \in {"ip", "dp", "cwd"} : r[f] = s} \X {0})
    \cup ({"put"} \X {k \in DOMAIN r.put : r.put[k] = s})
    \cup ({"files"} \X {k \in DOMAIN r.files : r.files[k] = s})
RefCount(r, s) == Eq(r.ip, s) + Eq(r.dp, s) + Eq(r.cwd, s) + In(r.put, s) + In(r.files, s)
AllRefs(f, s) == UNION {{q} \X RefSet(f[q], s) : q \in Procs}

OtherRefs(f, p, s) == UNION {{q} \X RefSet(f[q], s) : q \in Procs \ {p}}

LEMMA Tagged ==
  ASSUME NEW S, NEW t, IsFiniteSet(S)
  PROVE  /\ IsFiniteSet({t} \X S) /\ Cardinality({t} \X S) = Cardinality(S)
         /\ IsFiniteSet(S \X {t}) /\ Cardinality(S \X {t}) = Cardinality(S)
         /\ Cardinality(S) \in Nat
<1>1. IsFiniteSet({t}) /\ Cardinality({t}) = 1
  BY FS_Singleton
<1>2. Cardinality(S) \in Nat
  BY FS_CardinalityType
<1>3. IsFiniteSet({t} \X S) /\ Cardinality({t} \X S) = Cardinality({t}) * Cardinality(S)
  BY <1>1, FS_Product
<1>4. IsFiniteSet(S \X {t}) /\ Cardinality(S \X {t}) = Cardinality(S) * Cardinality({t})
  BY <1>1, FS_Product
<1> QED BY <1>1, <1>2, <1>3, <1>4

LEMMA DisjointUnion ==
  ASSUME NEW S, NEW T, IsFiniteSet(S), IsFiniteSet(T), S \cap T = {}
  PROVE  IsFiniteSet(S \cup T) /\ Cardinality(S \cup T) = Cardinality(S) + Cardinality(T)
<1>1. Cardinality(S \cap T) = 0 /\ Cardinality(S) \in Nat /\ Cardinality(T) \in Nat
  BY FS_EmptySet, FS_CardinalityType
<1>2. IsFiniteSet(S \cup T)
      /\ Cardinality(S \cup T) = Cardinality(S) + Cardinality(T) - Cardinality(S \cap T)
  BY FS_Union
<1> QED BY <1>1, <1>2

LEMMA RefSetCount ==
  ASSUME NEW r \in ProcType, NEW s
  PROVE  /\ IsFiniteSet(RefSet(r, s)) /\ Cardinality(RefSet(r, s)) = RefCount(r, s)
         /\ RefCount(r, s) \in Nat
<1> DEFINE A == {f \in {"ip", "dp", "cwd"} : r[f] = s}
           B == {k \in DOMAIN r.put : r.put[k] = s}
           C == {k \in DOMAIN r.files : r.files[k] = s}
           A0 == IF r.ip = s THEN {"ip"} ELSE {}
           A1 == IF r.dp = s THEN {"dp"} ELSE {}
           A2 == IF r.cwd = s THEN {"cwd"} ELSE {}
<1>1. r.put \in Seq(Inums) /\ r.files \in Seq(Inums)
  BY DEF ProcType
<1>2. /\ IsFiniteSet(B) /\ Cardinality(B) = In(r.put, s) /\ In(r.put, s) \in Nat
      /\ IsFiniteSet(C) /\ Cardinality(C) = In(r.files, s) /\ In(r.files, s) \in Nat
  BY <1>1, InFinite DEF In
<1>3. IsFiniteSet(A) /\ Cardinality(A) = Eq(r.ip, s) + Eq(r.dp, s) + Eq(r.cwd, s)
  <2>1. IsFiniteSet(A0) /\ Cardinality(A0) = Eq(r.ip, s)
    BY FS_EmptySet, FS_Singleton DEF Eq
  <2>2. IsFiniteSet(A0 \cup A1) /\ Cardinality(A0 \cup A1) = Eq(r.ip, s) + Eq(r.dp, s)
    <3>1. IsFiniteSet(A0 \cup {"dp"}) /\ Cardinality(A0 \cup {"dp"}) = Cardinality(A0) + 1
      BY <2>1, FS_AddElement
    <3>2. CASE r.dp = s
      BY <2>1, <3>1, <3>2 DEF Eq
    <3>3. CASE r.dp # s
      BY <2>1, <3>3 DEF Eq
    <3> QED BY <3>2, <3>3
  <2>3. IsFiniteSet(A0 \cup A1 \cup A2)
        /\ Cardinality(A0 \cup A1 \cup A2) = Eq(r.ip, s) + Eq(r.dp, s) + Eq(r.cwd, s)
    <3>1. IsFiniteSet(A0 \cup A1 \cup {"cwd"})
          /\ Cardinality(A0 \cup A1 \cup {"cwd"}) = Cardinality(A0 \cup A1) + 1
      <4>1. "cwd" \notin A0 \cup A1
        OBVIOUS
      <4> HIDE DEF A0, A1
      <4> QED BY <2>2, <4>1, FS_AddElement
    <3>2. CASE r.cwd = s
      BY <2>2, <3>1, <3>2 DEF Eq
    <3>3. CASE r.cwd # s
      BY <2>2, <3>3 DEF Eq
    <3> QED BY <3>2, <3>3
  <2>4. A = A0 \cup A1 \cup A2
    OBVIOUS
  <2> HIDE DEF A, A0, A1, A2
  <2> QED BY <2>3, <2>4
<1> DEFINE X == A \X {0}
           Y == {"put"} \X B
           Z == {"files"} \X C
<1>4. RefSet(r, s) = X \cup Y \cup Z
  BY DEF RefSet
<1>5. X \cap Y = {} /\ (X \cup Y) \cap Z = {}
  OBVIOUS
<1>6. /\ IsFiniteSet(X) /\ Cardinality(X) = Cardinality(A)
      /\ IsFiniteSet(Y) /\ Cardinality(Y) = Cardinality(B)
      /\ IsFiniteSet(Z) /\ Cardinality(Z) = Cardinality(C)
  <2> HIDE DEF A, B, C
  <2> QED BY <1>2, <1>3, Tagged
<1> HIDE DEF A, B, C, X, Y, Z
<1>7. Eq(r.ip, s) \in Nat /\ Eq(r.dp, s) \in Nat /\ Eq(r.cwd, s) \in Nat
  BY DEF Eq
<1>8. IsFiniteSet(X \cup Y) /\ Cardinality(X \cup Y) = Cardinality(A) + Cardinality(B)
  BY <1>5, <1>6, DisjointUnion
<1>9. IsFiniteSet(X \cup Y \cup Z)
      /\ Cardinality(X \cup Y \cup Z) = Cardinality(A) + Cardinality(B) + Cardinality(C)
  BY <1>5, <1>6, <1>8, DisjointUnion
<1> QED BY <1>2, <1>3, <1>4, <1>7, <1>9 DEF RefCount

\* The references of one process and those of the others.
LEMMA RefsSplit ==
  ASSUME NEW f \in [Procs -> ProcType], NEW p \in Procs, NEW s
  PROVE  /\ IsFiniteSet(OtherRefs(f, p, s)) /\ Cardinality(OtherRefs(f, p, s)) \in Nat
         /\ Cardinality(AllRefs(f, s)) = RefCount(f[p], s) + Cardinality(OtherRefs(f, p, s))
<1> DEFINE own == {p} \X RefSet(f[p], s)
           part(q) == {q} \X RefSet(f[q], s)
           parts == {part(q) : q \in Procs \ {p}}
<1>1. AllRefs(f, s) = own \cup OtherRefs(f, p, s) /\ own \cap OtherRefs(f, p, s) = {}
  BY DEF AllRefs, OtherRefs
<1>2. \A q \in Procs : IsFiniteSet(part(q))
  <2> SUFFICES ASSUME NEW q \in Procs PROVE IsFiniteSet({q} \X RefSet(f[q], s))
    OBVIOUS
  <2>1. IsFiniteSet(RefSet(f[q], s))
    BY RefSetCount
  <2> QED BY <2>1, Tagged
<1>3. IsFiniteSet(own) /\ Cardinality(own) = RefCount(f[p], s) /\ RefCount(f[p], s) \in Nat
  <2>1. /\ IsFiniteSet(RefSet(f[p], s)) /\ Cardinality(RefSet(f[p], s)) = RefCount(f[p], s)
        /\ RefCount(f[p], s) \in Nat
    BY RefSetCount
  <2> QED BY <2>1, Tagged
<1>4. IsFiniteSet(parts)
  <2>1. IsFiniteSet(Procs \ {p})
    BY FsAssumption, FS_RemoveElement
  <2>2. DEFINE g == [q \in Procs \ {p} |-> part(q)]
  <2>3. g \in Surjection(Procs \ {p}, parts)
    <3> HIDE DEF part
    <3> QED BY DEF Surjection
  <2> HIDE DEF g, parts
  <2> QED BY <2>1, <2>3, FS_Surjection
<1>5. IsFiniteSet(OtherRefs(f, p, s))
  <2>1. \A P \in parts : IsFiniteSet(P)
    BY <1>2
  <2>2. OtherRefs(f, p, s) = UNION parts
    BY DEF OtherRefs
  <2> HIDE DEF parts
  <2> QED BY <1>4, <2>1, <2>2, FS_UNION
<1>6. Cardinality(OtherRefs(f, p, s)) \in Nat
  BY <1>5, FS_CardinalityType
<1> HIDE DEF own
<1>7. /\ IsFiniteSet(own \cup OtherRefs(f, p, s))
      /\ Cardinality(own \cup OtherRefs(f, p, s)) = Cardinality(own) + Cardinality(OtherRefs(f, p, s))
  BY <1>1, <1>3, <1>5, DisjointUnion
<1> QED BY <1>1, <1>3, <1>5, <1>6, <1>7

LEMMA OthersSame ==
  ASSUME NEW f, NEW g, NEW p, NEW s, \A q \in Procs \ {p} : f[q] = g[q]
  PROVE  OtherRefs(f, p, s) = OtherRefs(g, p, s)
BY DEF OtherRefs

LEMMA RefsExactIs == RefsExact <=> \A s \in Inums : icache[s].ref = Cardinality(AllRefs(proc, s))
BY DEF RefsExact, AllRefs, RefsOf, RefSet

\* Only p's references and their counts change.
LEMMA RefsChange ==
  ASSUME RefsExact, NEW p \in Procs, proc \in [Procs -> ProcType], proc' \in [Procs -> ProcType],
         \A q \in Procs \ {p} : proc'[q] = proc[q],
         \A s \in Inums :
           icache'[s].ref = icache[s].ref + RefCount(proc'[p], s) - RefCount(proc[p], s)
  PROVE  RefsExact'
<1> SUFFICES ASSUME NEW s \in Inums PROVE icache'[s].ref = Cardinality(AllRefs(proc', s))
  BY DEF RefsExact, AllRefs, RefsOf, RefSet
<1>1. icache[s].ref = Cardinality(AllRefs(proc, s))
  BY RefsExactIs
<1>2. OtherRefs(proc, p, s) = OtherRefs(proc', p, s)
  BY OthersSame
<1>3. Cardinality(AllRefs(proc, s)) = RefCount(proc[p], s) + Cardinality(OtherRefs(proc, p, s))
      /\ Cardinality(OtherRefs(proc, p, s)) \in Nat
  BY RefsSplit
<1>4. Cardinality(AllRefs(proc', s)) = RefCount(proc'[p], s) + Cardinality(OtherRefs(proc', p, s))
  BY RefsSplit
<1>5. RefCount(proc[p], s) \in Nat /\ RefCount(proc'[p], s) \in Nat
  BY RefSetCount
<1> QED BY <1>1, <1>2, <1>3, <1>4, <1>5

-----------------------------------------------------------------------------
(* Frames: what a step of p leaves to the others.                          *)

Apart(p) == \A q \in Procs \ {p} : proc'[q] = proc[q]

\* What another process has locked stays as it is, on the disk and in the cache.
LocksLeft(p) ==
  \A q \in Procs \ {p}, s \in Inums : Holds(q, s) =>
    /\ icache'[s].locker = icache[s].locker /\ icache'[s].valid = icache[s].valid
    /\ disk'[s] = disk[s]

\* A lock has one holder, and none when it can be taken.
LEMMA Exclusive ==
  ASSUME Holding, NEW s \in Inums
  PROVE  /\ CanLock(s) => \A q \in Procs : ~Holds(q, s)
         /\ \A p \in Procs, q \in Procs : Holds(p, s) /\ Holds(q, s) => p = q
BY FsAssumption DEF Holding, CanLock

LEMMA HoldingKept ==
  ASSUME Holding, NEW p \in Procs, Apart(p), LocksLeft(p),
         \A s \in Inums : Holds(p, s)' => icache'[s].locker = p /\ icache'[s].valid
  PROVE  Holding'
<1> SUFFICES ASSUME NEW q \in Procs, NEW s \in Inums, Holds(q, s)'
             PROVE  icache'[s].locker = q /\ icache'[s].valid
  BY DEF Holding
<1>1. CASE q = p
  BY <1>1
<1>2. CASE q # p
  <2>1. Holds(q, s)
    BY <1>2 DEF Apart, Holds
  <2> QED BY <1>2, <2>1 DEF Holding, LocksLeft
<1> QED BY <1>1, <1>2

\* The sets of links are finite.
LEMMA LinkSets ==
  ASSUME NEW d \in DiskType, NEW s \in Inums
  PROVE  /\ IsFiniteSet(NamesOf(d, s)) /\ IsFiniteSet(Subs(d, s))
         /\ IsFiniteSet(Linking(s)) /\ IsFiniteSet(Losing(s))
         /\ Cardinality(NamesOf(d, s)) \in Nat /\ Cardinality(Subs(d, s)) \in Nat
         /\ Cardinality(Linking(s)) \in Nat /\ Cardinality(Losing(s)) \in Nat
<1>1. IsFiniteSet(Names \ Dots) /\ IsFiniteSet(Procs)
  <2>1. Names \ Dots \in SUBSET Names
    OBVIOUS
  <2> QED BY <2>1, FsAssumption, FS_Subset
<1>2. IsFiniteSet(Inums)
  BY FsAssumption, FS_Interval DEF Inums
<1>3. IsFiniteSet(Inums \X (Names \ Dots))
  BY <1>1, <1>2, FS_Product
<1>4. NamesOf(d, s) \in SUBSET (Inums \X (Names \ Dots)) /\ Subs(d, s) \in SUBSET (Names \ Dots)
      /\ Linking(s) \in SUBSET Procs /\ Losing(s) \in SUBSET Procs
  BY DEF NamesOf, Subs, Linking, Losing
<1>5. /\ IsFiniteSet(NamesOf(d, s)) /\ IsFiniteSet(Subs(d, s))
      /\ IsFiniteSet(Linking(s)) /\ IsFiniteSet(Losing(s))
  BY <1>1, <1>3, <1>4, FS_Subset
<1> QED BY <1>5, FS_CardinalityType

LEMMA NotEmpty ==
  ASSUME NEW S, NEW e \in S, IsFiniteSet(S)
  PROVE  Cardinality(S) \in Nat /\ Cardinality(S) >= 1
BY FS_EmptySet, FS_CardinalityType

\* An inode that somebody makes or takes back a link of, or that has a name, has a link.
LEMMA Linked ==
  ASSUME Typed, Links, NEW s \in Inums,
         \/ s = Root
         \/ \E p \in Procs : LinkTarget(proc[p]) = s \/ LostLink(proc[p]) = s
         \/ \E d \in Inums, n \in Names \ Dots : disk[d].ent[n] = s
  PROVE  disk[s].nlink >= 1 /\ disk[s].type # "free" /\ disk[s].nlink \in Nat
<1>1. disk \in DiskType
  BY DEF Typed
<1> DEFINE a == Cardinality(NamesOf(disk, s))
           b == Cardinality(Subs(disk, s))
           c == Cardinality(Linking(s))
           e == Cardinality(Losing(s))
           r == IF s = Root THEN 1 ELSE 0
<1>2. a \in Nat /\ b \in Nat /\ c \in Nat /\ e \in Nat /\ r \in Nat
  BY <1>1, LinkSets
<1>3. disk[s].nlink \in Nat /\ disk[s].nlink >= a + b + r + c + e
  BY <1>1 DEF DiskType, InodeType, Links, Counted
<1>4. a >= 1 \/ c >= 1 \/ e >= 1 \/ r >= 1
  <2>1. CASE s = Root
    BY <2>1
  <2>2. ASSUME NEW p \in Procs, LinkTarget(proc[p]) = s PROVE c >= 1
    <3>1. p \in Linking(s)
      BY <2>2 DEF Linking
    <3> QED BY <1>1, <3>1, LinkSets, NotEmpty
  <2>3. ASSUME NEW p \in Procs, LostLink(proc[p]) = s PROVE e >= 1
    <3>1. p \in Losing(s)
      BY <2>3 DEF Losing
    <3> QED BY <1>1, <3>1, LinkSets, NotEmpty
  <2>4. ASSUME NEW d \in Inums, NEW n \in Names \ Dots, disk[d].ent[n] = s PROVE a >= 1
    <3>1. <<d, n>> \in NamesOf(disk, s)
      BY <2>4 DEF NamesOf
    <3> QED BY <1>1, <3>1, LinkSets, NotEmpty
  <2> QED BY <2>1, <2>2, <2>3, <2>4
<1>5. disk[s].nlink >= 1
  <2> HIDE DEF a, b, c, e, r
  <2> QED BY <1>2, <1>3, <1>4
<1>6. disk[s].type # "free"
  BY <1>5 DEF Links, FreeIsFree, Free
<1> QED BY <1>3, <1>5, <1>6

\* A step changes the type of an allocated inode only by freeing it.
LEMMA EntriesKept ==
  ASSUME Typed, Places, Holding, Entries, Links, NEW p \in Procs, Apart(p), LocksLeft(p),
         \A s \in Inums : disk[s].type # "free" /\ s # Freed(proc[p]) => disk'[s].type = disk[s].type,
         EntryOf(p)',
         \A q \in Procs \ {p} : proc[q].pc = "created" => Freed(proc'[p]) # proc[q].ip
  PROVE  Entries'
<1> SUFFICES ASSUME NEW q \in Procs \ {p} PROVE EntryOf(q)'
  BY DEF Entries
<1>1. /\ proc'[q] = proc[q] /\ EntryOf(q) /\ EntryOf(p) /\ PlaceOf(proc[q]) /\ proc[q] \in ProcType
      /\ proc[p] \in ProcType /\ Name(q)' = Name(q)
  BY DEF Apart, Entries, Places, Typed, Name, Call
<1>2. 0 \notin Inums /\ \A i \in 0..NINODES : i # 0 => i \in Inums
  BY FsAssumption DEF Inums
<1>3. proc[q].ip \in 0..NINODES /\ proc[q].dp \in 0..NINODES /\ proc[q].put \in Seq(Inums)
  BY <1>1 DEF ProcType
<1>4. proc[q].pc \in {"created", "unlinking"} => disk'[proc[q].dp] = disk[proc[q].dp]
  <2> SUFFICES ASSUME proc[q].pc \in {"created", "unlinking"} PROVE disk'[proc[q].dp] = disk[proc[q].dp]
    OBVIOUS
  <2>1. proc[q].dp \in Inums /\ Holds(q, proc[q].dp)
    BY <1>1, <1>2, <1>3 DEF Holds, PlaceLock, PlaceOf, Two
  <2> QED BY <2>1 DEF LocksLeft
<1>5. proc[q].pc = "created" =>
        /\ disk'[proc[q].ip].type # "free"
        /\ \A t \in Procs : Freed(proc'[t]) # proc[q].ip
  <2> SUFFICES ASSUME proc[q].pc = "created"
               PROVE  /\ disk'[proc[q].ip].type # "free"
                      /\ \A t \in Procs : Freed(proc'[t]) # proc[q].ip
    OBVIOUS
  <2>1. proc[q].ip \in Inums
    BY <1>1, <1>2, <1>3 DEF PlaceOf, Two
  <2>2. disk[proc[q].ip].type # "free" /\ Freed(proc[p]) # proc[q].ip
    BY <1>1 DEF EntryOf
  <2>3. \A t \in Procs : Freed(proc'[t]) # proc[q].ip
    BY <1>1 DEF EntryOf, Apart
  <2> QED BY <2>1, <2>2, <2>3
<1>6. LinkTarget(proc[q]) # 0 => disk'[LinkTarget(proc[q])].type = "file"
  <2> SUFFICES ASSUME LinkTarget(proc[q]) # 0 PROVE disk'[LinkTarget(proc[q])].type = "file"
    OBVIOUS
  <2>1. LinkTarget(proc[q]) \in Inums
    BY <1>2, <1>3 DEF LinkTarget
  <2>2. disk[LinkTarget(proc[q])].type = "file"
    BY <1>1 DEF EntryOf
  <2>3. disk[LinkTarget(proc[q])].nlink >= 1
    BY <2>1, Linked
  <2>4. Freed(proc[p]) # LinkTarget(proc[q])
    BY <1>1, <2>3 DEF EntryOf
  <2> QED BY <2>1, <2>2, <2>4
<1>7. Freed(proc[q]) # 0 => disk'[Freed(proc[q])].nlink = 0
  <2> SUFFICES ASSUME Freed(proc[q]) # 0 PROVE disk'[Freed(proc[q])].nlink = 0
    OBVIOUS
  <2>1. Freed(proc[q]) \in Inums
    BY <1>3, HeadTailProperties DEF Freed
  <2>2. Holds(q, Freed(proc[q]))
    BY DEF Holds
  <2> QED BY <1>1, <2>1, <2>2 DEF LocksLeft, EntryOf
<1> QED BY <1>1, <1>4, <1>5, <1>6, <1>7 DEF EntryOf

LEMMA LinksQuiet ==
  ASSUME Links, disk' = disk, NEW p \in Procs, Apart(p),
         LinkTarget(proc'[p]) = LinkTarget(proc[p]), LostLink(proc'[p]) = LostLink(proc[p])
  PROVE  Links'
<1>1. \A q \in Procs : LinkTarget(proc'[q]) = LinkTarget(proc[q])
                       /\ LostLink(proc'[q]) = LostLink(proc[q])
  BY DEF Apart
<1>2. \A s : Linking(s)' = Linking(s) /\ Losing(s)' = Losing(s)
  BY <1>1 DEF Linking, Losing
<1> QED BY <1>2 DEF Links

\* The state of the others, and that of p, after a step of p.
LEMMA PlacesKept ==
  ASSUME Places, NEW p \in Procs, Apart(p), PlaceOf(proc'[p]), Naming(p)'
  PROVE  Places'
BY DEF Places, Naming, Name, Call, Apart

\* A step that leaves the disk alone, and reads inodes into the cache at most.
Quiet(p) ==
  /\ Apart(p) /\ proc' \in [Procs -> ProcType]
  /\ disk' = disk /\ durable' \in {durable, disk} /\ panicked' = panicked /\ icache' \in CacheType
  /\ PlaceOf(proc'[p]) /\ Naming(p)'
  /\ \A s \in Inums :
       icache'[s].ref = icache[s].ref + RefCount(proc'[p], s) - RefCount(proc[p], s)
  /\ \A s \in Inums : icache'[s].valid =>
       \/ /\ icache[s].valid
          /\ icache'[s].type = icache[s].type /\ icache'[s].nlink = icache[s].nlink
       \/ /\ icache'[s].type = disk[s].type /\ icache'[s].nlink = disk[s].nlink
          /\ disk[s].type # "free"
  /\ \A q \in Procs \ {p}, s \in Inums : Holds(q, s) =>
       icache'[s].locker = icache[s].locker /\ icache'[s].valid = icache[s].valid
  /\ \A s \in Inums : PlaceLock(proc'[p]) = s \/ Freed(proc'[p]) = s =>
       icache'[s].locker = p /\ icache'[s].valid
  /\ EntryOf(p)'
  /\ \A q \in Procs \ {p} : proc[q].pc = "created" => Freed(proc'[p]) # proc[q].ip
  /\ LinkTarget(proc'[p]) = LinkTarget(proc[p]) /\ LostLink(proc'[p]) = LostLink(proc[p])

LEMMA QuietKeeps ==
  ASSUME IInv, NEW p \in Procs, Quiet(p)
  PROVE  IInv'
<1>1. Typed'
  BY DEF IInv, Typed, Quiet
<1>2. Places'
  BY PlacesKept DEF IInv, Quiet
<1>3. RefsExact'
  BY RefsChange DEF IInv, Quiet, Typed, Apart
<1>4. LocksLeft(p)
  BY DEF LocksLeft, Quiet
<1>5. Holding'
  <2>1. \A s \in Inums : Holds(p, s)' => icache'[s].locker = p /\ icache'[s].valid
    BY DEF Quiet, Holds
  <2> QED BY <1>4, <2>1, HoldingKept DEF IInv, Quiet
<1>6. Coherent'
  BY DEF IInv, Coherent, Quiet
<1>7. Entries'
  BY <1>4, EntriesKept DEF IInv, Quiet
<1>8. Links'
  BY LinksQuiet DEF IInv, Quiet
<1>9. Durable'
  <2>1. CASE durable' = durable
    BY <2>1 DEF IInv, Durable, Counted, NamesOf, Subs, FreeIsFree
  <2>2. CASE durable' = disk
    <3>1. ASSUME NEW s \in Inums PROVE disk[s].nlink >= Counted(disk, s)
      <4>1. disk \in DiskType
        BY DEF IInv, Typed
      <4>2. disk[s].nlink >= Counted(disk, s) + Cardinality(Linking(s)) + Cardinality(Losing(s))
        BY DEF IInv, Links
      <4>3. /\ Cardinality(NamesOf(disk, s)) \in Nat /\ Cardinality(Subs(disk, s)) \in Nat
            /\ Cardinality(Linking(s)) \in Nat /\ Cardinality(Losing(s)) \in Nat
        BY <4>1, LinkSets
      <4>4. Counted(disk, s) \in Nat
        BY <4>3 DEF Counted
      <4>5. disk[s].nlink \in Nat
        BY <4>1 DEF DiskType, InodeType
      <4> QED BY <4>2, <4>3, <4>4, <4>5
    <3>2. FreeIsFree(disk)
      BY DEF IInv, Links
    <3> QED BY <2>2, <3>1, <3>2 DEF Durable, Counted, NamesOf, Subs, FreeIsFree
  <2> QED BY <2>1, <2>2 DEF Quiet
<1> QED BY <1>1, <1>2, <1>3, <1>5, <1>6, <1>7, <1>8, <1>9 DEF IInv

-----------------------------------------------------------------------------
(* What the operators give.                                                *)

\* Inode numbers are not 0, and Root is one.
LEMMA InumIs ==
  /\ 0 \notin Inums /\ Root \in Inums /\ Inums \subseteq 0..NINODES
  /\ \A i \in 0..NINODES : i # 0 => i \in Inums
BY FsAssumption DEF Inums, Root

LEMMA GotoIs ==
  ASSUME proc \in [Procs -> ProcType], NEW p \in Procs, NEW place \in PcSet,
         NEW i \in 0..NINODES, NEW d \in 0..NINODES, NEW puts \in Seq(Inums),
         Goto(p, place, i, d, puts)
  PROVE  /\ proc' \in [Procs -> ProcType] /\ Apart(p)
         /\ proc'[p].pc = place /\ proc'[p].ip = i /\ proc'[p].dp = d /\ proc'[p].put = puts
         /\ proc'[p].call = proc[p].call /\ proc'[p].rest = proc[p].rest
         /\ proc'[p].stage = proc[p].stage /\ proc'[p].cwd = proc[p].cwd
         /\ proc'[p].files = proc[p].files
BY ZenonT(60) DEF Goto, ProcType, Apart

LEMMA OpenFileIs ==
  ASSUME proc \in [Procs -> ProcType], NEW p \in Procs, NEW s \in Inums, OpenFile(p, s)
  PROVE  /\ proc' \in [Procs -> ProcType] /\ Apart(p)
         /\ proc'[p].pc \in {"end", "failed"} /\ proc'[p].ip = 0
         /\ proc'[p].call = proc[p].call /\ proc'[p].rest = proc[p].rest
         /\ proc'[p].stage = proc[p].stage /\ proc'[p].cwd = proc[p].cwd
         /\ \/ /\ proc'[p].dp = proc[p].dp /\ proc'[p].put = proc[p].put
               /\ proc'[p].files = Append(proc[p].files, s)
            \/ /\ proc'[p].dp = 0 /\ proc'[p].put = <<s>>
               /\ proc'[p].files = proc[p].files
<1>1. CASE Len(proc[p].files) < NOFILE
  <2>1. Append(proc[p].files, s) \in Seq(Inums)
    BY DEF ProcType
  <2>2. "end" \in PcSet /\ 0 \in 0..NINODES
    BY FsAssumption DEF PcSet, Between
  <2>3. proc' = [proc EXCEPT ![p] = [proc[p] EXCEPT !.pc = "end", !.ip = 0,
                                       !.files = Append(proc[p].files, s)]]
    BY <1>1 DEF OpenFile
  <2>4. proc[p] \in ProcType
    OBVIOUS
  <2>5. proc' \in [Procs -> ProcType] /\ Apart(p)
    BY <2>1, <2>2, <2>3, <2>4 DEF ProcType, Apart
  <2>6. /\ proc'[p].pc = "end" /\ proc'[p].ip = 0 /\ proc'[p].call = proc[p].call
        /\ proc'[p].rest = proc[p].rest /\ proc'[p].stage = proc[p].stage
        /\ proc'[p].cwd = proc[p].cwd /\ proc'[p].dp = proc[p].dp
        /\ proc'[p].put = proc[p].put /\ proc'[p].files = Append(proc[p].files, s)
    BY <2>3, <2>4 DEF ProcType
  <2> QED BY <2>5, <2>6
<1>2. CASE ~(Len(proc[p].files) < NOFILE)
  <2>1. "failed" \in PcSet /\ 0 \in 0..NINODES /\ <<s>> \in Seq(Inums)
    BY FsAssumption DEF PcSet, Between
  <2>2. Goto(p, "failed", 0, 0, <<s>>)
    BY <1>2 DEF OpenFile, Fail
  <2>3. /\ proc' \in [Procs -> ProcType] /\ Apart(p)
        /\ proc'[p].pc = "failed" /\ proc'[p].ip = 0 /\ proc'[p].dp = 0 /\ proc'[p].put = <<s>>
        /\ proc'[p].call = proc[p].call /\ proc'[p].rest = proc[p].rest
        /\ proc'[p].stage = proc[p].stage /\ proc'[p].cwd = proc[p].cwd
        /\ proc'[p].files = proc[p].files
    BY <2>1, <2>2, GotoIs
  <2> QED BY <2>3
<1> QED BY <1>1, <1>2

\* The operators of the cache, and what they leave alone.
LEMMA IlockIs ==
  ASSUME disk \in DiskType, NEW ic \in CacheType, NEW s \in Inums
  PROVE  /\ Ilock(ic, s) \in CacheType
         /\ \A t \in Inums : Ilock(ic, s)[t].ref = ic[t].ref /\ Ilock(ic, s)[t].locker = ic[t].locker
         /\ \A t \in Inums \ {s} : Ilock(ic, s)[t] = ic[t]
         /\ ic[s].valid => Ilock(ic, s) = ic
         /\ ~ic[s].valid => /\ Ilock(ic, s)[s].type = disk[s].type
                            /\ Ilock(ic, s)[s].nlink = disk[s].nlink
         /\ Ilock(ic, s)[s].valid
BY ZenonT(60) DEF Ilock, CacheType, DiskType, InodeType

LEMMA IgetIs ==
  ASSUME NEW ic \in CacheType, NEW s \in Inums
  PROVE  /\ Iget(ic, s) \in CacheType
         /\ \A t \in Inums : /\ Iget(ic, s)[t].ref = ic[t].ref + Eq(s, t)
                             /\ Iget(ic, s)[t].locker = ic[t].locker
                             /\ Iget(ic, s)[t].valid = ic[t].valid
                             /\ Iget(ic, s)[t].type = ic[t].type
                             /\ Iget(ic, s)[t].nlink = ic[t].nlink
BY DEF Iget, CacheType, Eq

LEMMA TakeIs ==
  ASSUME NEW ic \in CacheType, NEW s \in Inums, NEW p \in Procs
  PROVE  /\ Take(ic, s, p) \in CacheType /\ Drop(ic, s) \in CacheType
         /\ \A t \in Inums : /\ Take(ic, s, p)[t].ref = ic[t].ref
                             /\ Take(ic, s, p)[t].valid = ic[t].valid
                             /\ Take(ic, s, p)[t].type = ic[t].type
                             /\ Take(ic, s, p)[t].nlink = ic[t].nlink
                             /\ Take(ic, s, p)[t].locker = IF t = s THEN p ELSE ic[t].locker
         /\ \A t \in Inums : /\ Drop(ic, s)[t].ref = ic[t].ref
                             /\ Drop(ic, s)[t].valid = ic[t].valid
                             /\ Drop(ic, s)[t].type = ic[t].type
                             /\ Drop(ic, s)[t].nlink = ic[t].nlink
                             /\ Drop(ic, s)[t].locker = IF t = s THEN NoProc ELSE ic[t].locker
BY DEF Take, Drop, CacheType

\* ilock(s): what the entry is then, as the disk has it.
LEMMA ReadIs ==
  ASSUME IInv, NEW s \in Inums, ~NoType(s), NEW ic, ic = Ilock(icache, s)
  PROVE  /\ ic \in CacheType
         /\ \A t \in Inums : ic[t].ref = icache[t].ref /\ ic[t].locker = icache[t].locker
         /\ \A t \in Inums \ {s} : ic[t] = icache[t]
         /\ ic[s].valid /\ ic[s].type = disk[s].type /\ ic[s].nlink = disk[s].nlink
         /\ disk[s].type # "free"
<1>1. disk \in DiskType /\ icache \in CacheType
  BY DEF IInv, Typed
<1>2. icache[s].valid => icache[s].type = disk[s].type /\ icache[s].nlink = disk[s].nlink
  BY DEF IInv, Coherent
<1>3. ic[s].type # "free"
  BY DEF NoType
<1> QED BY <1>1, <1>2, <1>3, IlockIs

\* The part of Quiet(p) that is about the cache.
CacheQuiet(p) ==
  /\ icache' \in CacheType
  /\ \A s \in Inums : icache'[s].valid =>
       \/ /\ icache[s].valid
          /\ icache'[s].type = icache[s].type /\ icache'[s].nlink = icache[s].nlink
       \/ /\ icache'[s].type = disk[s].type /\ icache'[s].nlink = disk[s].nlink
          /\ disk[s].type # "free"
  /\ \A q \in Procs \ {p}, s \in Inums : Holds(q, s) =>
       icache'[s].locker = icache[s].locker /\ icache'[s].valid = icache[s].valid

\* An entry is locked, read, and its lock let go or kept.
LEMMA ReadQuiet ==
  ASSUME IInv, NEW p \in Procs, NEW s \in Inums, ~NoType(s), CanLock(s),
         NEW ic, ic = Ilock(icache, s), icache' \in CacheType,
         \A t \in Inums : /\ icache'[t].valid = ic[t].valid /\ icache'[t].type = ic[t].type
                          /\ icache'[t].nlink = ic[t].nlink
                          /\ t # s => icache'[t].locker = ic[t].locker
  PROVE  CacheQuiet(p)
<1>1. /\ \A t \in Inums : ic[t].ref = icache[t].ref /\ ic[t].locker = icache[t].locker
      /\ \A t \in Inums \ {s} : ic[t] = icache[t]
      /\ ic[s].valid /\ ic[s].type = disk[s].type /\ ic[s].nlink = disk[s].nlink
      /\ disk[s].type # "free"
  BY ReadIs
<1>2. \A q \in Procs : ~Holds(q, s)
  BY Exclusive DEF IInv
<1>3. ASSUME NEW t \in Inums, icache'[t].valid
      PROVE  \/ /\ icache[t].valid
                /\ icache'[t].type = icache[t].type /\ icache'[t].nlink = icache[t].nlink
             \/ /\ icache'[t].type = disk[t].type /\ icache'[t].nlink = disk[t].nlink
                /\ disk[t].type # "free"
  <2>1. CASE t = s
    BY <1>1, <2>1
  <2>2. CASE t # s
    BY <1>1, <1>3, <2>2
  <2> QED BY <2>1, <2>2
<1>4. ASSUME NEW q \in Procs, NEW t \in Inums, Holds(q, t)
      PROVE  icache'[t].locker = icache[t].locker /\ icache'[t].valid = icache[t].valid
  <2>1. t # s
    BY <1>2, <1>4
  <2> QED BY <1>1, <2>1
<1> QED BY <1>3, <1>4 DEF CacheQuiet

LEMMA ProcFacts ==
  ASSUME IInv, NEW p \in Procs
  PROVE  /\ proc \in [Procs -> ProcType] /\ icache \in CacheType /\ disk \in DiskType
         /\ proc[p].ip \in 0..NINODES /\ proc[p].dp \in 0..NINODES /\ proc[p].cwd \in Inums
         /\ proc[p].put \in Seq(Inums) /\ proc[p].files \in Seq(Inums)
         /\ proc[p].rest \in Seq(Names) /\ proc[p].pc \in PcSet /\ proc[p] \in ProcType
         /\ proc[p].ip # 0 => proc[p].ip \in Inums
         /\ proc[p].dp # 0 => proc[p].dp \in Inums
         /\ PlaceOf(proc[p]) /\ Naming(p)
BY InumIs DEF IInv, Typed, ProcType, Places

LEMMA PanicKeeps ==
  ASSUME IInv, NEW why \in {"ialloc: no inodes", "ilock: no type"}, Panic(why)
  PROVE  IInv'
<1>1. UNCHANGED <<disk, durable, icache, proc>> /\ panicked' = why
  BY DEF Panic
<1>2. Typed'
  BY <1>1 DEF IInv, Typed
<1>3. Places'
  BY <1>1 DEF IInv, Places, Naming, Name, Call
<1>7. RefsExact'
  <2> SUFFICES ASSUME NEW s \in Inums PROVE icache'[s].ref = Cardinality(AllRefs(proc', s))
    BY DEF RefsExact, AllRefs, RefsOf, RefSet
  <2> QED BY <1>1, RefsExactIs DEF IInv
<1>4. Holding' /\ Coherent'
  BY <1>1 DEF IInv, Holding, Holds, Coherent
<1>5. Entries'
  BY <1>1 DEF IInv, Entries, EntryOf, Name, Call
<1>6. Links' /\ Durable'
  BY <1>1 DEF IInv, Links, Durable, Counted, NamesOf, Subs, FreeIsFree, Linking, Losing
<1> QED BY <1>2, <1>3, <1>7, <1>4, <1>5, <1>6 DEF IInv

\* The references of a process that has none to put, once it has gone on.
LEMMA GotoRefs ==
  ASSUME NEW r \in ProcType, NEW t \in ProcType, r.put = <<>>, t.cwd = r.cwd, t.files = r.files,
         NEW s
  PROVE  /\ RefCount(t, s) - RefCount(r, s)
              = Eq(t.ip, s) + Eq(t.dp, s) + In(t.put, s) - Eq(r.ip, s) - Eq(r.dp, s)
         /\ RefCount(t, s) \in Nat /\ RefCount(r, s) \in Nat /\ In(t.put, s) \in Nat
         /\ Eq(t.ip, s) \in Nat /\ Eq(t.dp, s) \in Nat /\ Eq(r.ip, s) \in Nat /\ Eq(r.dp, s) \in Nat
<1>1. In(t.put, s) \in Nat /\ In(t.files, s) \in Nat
  BY InFinite DEF ProcType
<1>2. In(r.put, s) = 0
  BY InEmpty
<1>3. /\ Eq(t.ip, s) \in Nat /\ Eq(t.dp, s) \in Nat /\ Eq(r.ip, s) \in Nat /\ Eq(r.dp, s) \in Nat
      /\ Eq(r.cwd, s) \in Nat
  BY DEF Eq
<1>4. RefCount(t, s) \in Nat /\ RefCount(r, s) \in Nat
  BY RefSetCount
<1>5. /\ RefCount(t, s) = Eq(t.ip, s) + Eq(t.dp, s) + Eq(r.cwd, s) + In(t.put, s) + In(r.files, s)
      /\ RefCount(r, s) = Eq(r.ip, s) + Eq(r.dp, s) + Eq(r.cwd, s) + 0 + In(r.files, s)
  BY <1>2 DEF RefCount
<1>6. ASSUME NEW a \in Nat, NEW b \in Nat, NEW w \in Nat, NEW u \in Nat, NEW f \in Nat,
             NEW g \in Nat, NEW h \in Nat
      PROVE  (a + b + w + u + f) - (g + h + w + 0 + f) = a + b + u - g - h
  OBVIOUS
<1>7. RefCount(t, s) - RefCount(r, s)
        = Eq(t.ip, s) + Eq(t.dp, s) + In(t.put, s) - Eq(r.ip, s) - Eq(r.dp, s)
  BY <1>1, <1>3, <1>5, <1>6
<1> QED BY <1>1, <1>3, <1>4, <1>7

\* A process that has an inode in hand or to put refers to it.
LEMMA RefsHeld ==
  ASSUME NEW r \in ProcType, NEW s \in Inums
  PROVE  /\ Eq(r.ip, s) + Eq(r.dp, s) + In(r.put, s) <= RefCount(r, s)
         /\ r.ip = s \/ r.dp = s \/ PlaceLock(r) = s => Eq(r.ip, s) + Eq(r.dp, s) >= 1
         /\ r.put # <<>> /\ Head(r.put) = s => In(r.put, s) >= 1
         /\ Freed(r) = s => r.put # <<>> /\ Head(r.put) = s
         /\ RefCount(r, s) \in Nat /\ In(r.put, s) \in Nat
         /\ Eq(r.ip, s) \in Nat /\ Eq(r.dp, s) \in Nat
<1>1. r.put \in Seq(Inums) /\ r.files \in Seq(Inums)
  BY DEF ProcType
<1>2. In(r.put, s) \in Nat /\ In(r.files, s) \in Nat
  BY <1>1, InFinite
<1>3. Eq(r.ip, s) \in Nat /\ Eq(r.dp, s) \in Nat /\ Eq(r.cwd, s) \in Nat
  BY DEF Eq
<1>4. RefCount(r, s) = Eq(r.ip, s) + Eq(r.dp, s) + Eq(r.cwd, s) + In(r.put, s) + In(r.files, s)
  BY DEF RefCount
<1>5. Eq(r.ip, s) + Eq(r.dp, s) + In(r.put, s) <= RefCount(r, s) /\ RefCount(r, s) \in Nat
  BY <1>2, <1>3, <1>4
<1>6. r.ip = s \/ r.dp = s => Eq(r.ip, s) + Eq(r.dp, s) >= 1
  BY DEF Eq
<1>7. PlaceLock(r) = s => r.ip = s \/ r.dp = s
  BY InumIs DEF PlaceLock
<1>8. Freed(r) = s => r.put # <<>> /\ Head(r.put) = s
  BY InumIs DEF Freed
<1>9. r.put # <<>> /\ Head(r.put) = s => In(r.put, s) >= 1
  <2> SUFFICES ASSUME r.put # <<>>, Head(r.put) = s PROVE In(r.put, s) >= 1
    OBVIOUS
  <2>1. In(r.put, s) = In(Tail(r.put), s) + Eq(Head(r.put), s)
    BY <1>1, InTail
  <2>2. Tail(r.put) \in Seq(Inums)
    BY <1>1, HeadTailProperties
  <2>3. In(Tail(r.put), s) \in Nat
    BY <2>2, InFinite
  <2>4. Eq(Head(r.put), s) = 1
    BY DEF Eq
  <2> QED BY <2>1, <2>3, <2>4
<1> QED BY <1>2, <1>3, <1>5, <1>6, <1>7, <1>8, <1>9

\* ref counts the references of any two processes.
LEMMA RefsBound ==
  ASSUME IInv, NEW p \in Procs, NEW s \in Inums
  PROVE  /\ icache[s].ref \in Nat /\ icache[s].ref >= RefCount(proc[p], s)
         /\ RefCount(proc[p], s) \in Nat
         /\ \A q \in Procs \ {p} : RefCount(proc[q], s) >= 1 =>
              icache[s].ref >= RefCount(proc[p], s) + 1
<1>1. proc \in [Procs -> ProcType] /\ icache \in CacheType
  BY ProcFacts
<1>2. icache[s].ref = Cardinality(AllRefs(proc, s)) /\ icache[s].ref \in Nat
  BY <1>1, RefsExactIs DEF IInv, CacheType
<1>3. /\ Cardinality(AllRefs(proc, s)) = RefCount(proc[p], s) + Cardinality(OtherRefs(proc, p, s))
      /\ Cardinality(OtherRefs(proc, p, s)) \in Nat
  BY <1>1, RefsSplit
<1>4. RefCount(proc[p], s) \in Nat
  BY <1>1, RefSetCount
<1>5. ASSUME NEW q \in Procs \ {p}, RefCount(proc[q], s) >= 1
      PROVE  Cardinality(OtherRefs(proc, p, s)) >= 1
  <2>1. IsFiniteSet(RefSet(proc[q], s)) /\ Cardinality(RefSet(proc[q], s)) = RefCount(proc[q], s)
    BY <1>1, RefSetCount
  <2>2. PICK x \in RefSet(proc[q], s) : TRUE
    <3>1. RefSet(proc[q], s) # {}
      BY <1>5, <2>1, FS_EmptySet
    <3> QED BY <3>1
  <2>3. <<q, x>> \in OtherRefs(proc, p, s)
    BY <2>2 DEF OtherRefs
  <2>4. IsFiniteSet(OtherRefs(proc, p, s))
    BY <1>1, RefsSplit
  <2> QED BY <2>3, <2>4, NotEmpty
<1> QED BY <1>2, <1>3, <1>4, <1>5

-----------------------------------------------------------------------------
(* iput()                                                                  *)

LEMMA StageIs ==
  ASSUME proc \in [Procs -> ProcType], NEW p \in Procs, NEW x \in {"lock", "free", "drop"},
         Stage(p, x)
  PROVE  /\ proc' \in [Procs -> ProcType] /\ Apart(p)
         /\ proc'[p].pc = proc[p].pc /\ proc'[p].ip = proc[p].ip /\ proc'[p].dp = proc[p].dp
         /\ proc'[p].put = proc[p].put /\ proc'[p].call = proc[p].call
         /\ proc'[p].rest = proc[p].rest /\ proc'[p].stage = x /\ proc'[p].cwd = proc[p].cwd
         /\ proc'[p].files = proc[p].files
BY DEF Stage, ProcType, Apart

\* iput() changes no place: what holds of a place still does.
LEMMA PutPlace ==
  ASSUME IInv, NEW p \in Procs, proc[p].put # <<>>, disk' = disk,
         proc' \in [Procs -> ProcType], Apart(p),
         proc'[p].pc = proc[p].pc, proc'[p].ip = proc[p].ip, proc'[p].dp = proc[p].dp,
         proc'[p].call = proc[p].call, proc'[p].rest = proc[p].rest,
         proc'[p].put # <<>> \/ proc'[p].stage = "lock",
         Freed(proc'[p]) # 0 => /\ disk[Freed(proc'[p])].nlink = 0
                                /\ PlaceLock(proc[p]) # Freed(proc'[p]),
         \A q \in Procs : proc[q].pc = "created" => Freed(proc'[p]) # proc[q].ip
  PROVE  /\ PlaceOf(proc'[p]) /\ Naming(p)' /\ EntryOf(p)'
         /\ LinkTarget(proc'[p]) = LinkTarget(proc[p]) /\ LostLink(proc'[p]) = LostLink(proc[p])
         /\ PlaceLock(proc'[p]) = PlaceLock(proc[p])
<1>1. PlaceOf(proc[p]) /\ Naming(p) /\ EntryOf(p)
  BY ProcFacts DEF IInv, Entries
<1>2. PlaceOf(proc'[p])
  BY <1>1 DEF PlaceOf
<1>3. Name(p)' = Name(p)
  BY DEF Name, Call
<1>4. Naming(p)'
  BY <1>1, <1>3 DEF Naming
<1>5. /\ LinkTarget(proc'[p]) = LinkTarget(proc[p]) /\ LostLink(proc'[p]) = LostLink(proc[p])
      /\ PlaceLock(proc'[p]) = PlaceLock(proc[p])
  BY DEF LinkTarget, LostLink, PlaceLock
<1>6. proc[p].pc = "created" => \A q \in Procs : Freed(proc'[q]) # proc[p].ip
  BY <1>1 DEF EntryOf, Apart
<1>7. EntryOf(p)'
  BY <1>1, <1>3, <1>5, <1>6 DEF EntryOf
<1> QED BY <1>2, <1>4, <1>5, <1>7

LEMMA IputLockStep ==
  ASSUME IInv, NEW p \in Procs, IputLock(p)
  PROVE  IInv'
<1> DEFINE s == Head(proc[p].put)
<1>1. /\ proc \in [Procs -> ProcType] /\ icache \in CacheType /\ proc[p] \in ProcType
      /\ proc[p].put \in Seq(Inums)
  BY ProcFacts
<1>2. /\ proc[p].put # <<>> /\ proc[p].stage = "lock" /\ CanLock(s) /\ disk' = disk
      /\ durable' = durable /\ panicked' = panicked
  BY DEF IputLock, Putting, Fixed
<1>3. s \in Inums
  BY <1>1, <1>2, HeadTailProperties
<1>4. CASE icache[s].valid /\ icache[s].nlink = 0 /\ icache[s].ref = 1
  <2>1. icache' = Take(icache, s, p) /\ Stage(p, "free")
    BY <1>4 DEF IputLock
  <2>2. /\ icache' \in CacheType
        /\ \A t \in Inums : /\ icache'[t].ref = icache[t].ref /\ icache'[t].valid = icache[t].valid
                            /\ icache'[t].type = icache[t].type /\ icache'[t].nlink = icache[t].nlink
                            /\ icache'[t].locker = IF t = s THEN p ELSE icache[t].locker
    <3> HIDE DEF s
    <3> QED BY <1>1, <1>3, <2>1, TakeIs
  <2>3. /\ proc' \in [Procs -> ProcType] /\ Apart(p)
        /\ proc'[p].pc = proc[p].pc /\ proc'[p].ip = proc[p].ip /\ proc'[p].dp = proc[p].dp
        /\ proc'[p].put = proc[p].put /\ proc'[p].call = proc[p].call
        /\ proc'[p].rest = proc[p].rest /\ proc'[p].stage = "free" /\ proc'[p].cwd = proc[p].cwd
        /\ proc'[p].files = proc[p].files
    BY <1>1, <2>1, StageIs
  <2>8. \A q \in Procs : ~Holds(q, s)
    BY <1>2, <1>3, Exclusive DEF IInv
  <2>4. Freed(proc'[p]) = s /\ disk[s].nlink = 0 /\ PlaceLock(proc[p]) # s
    BY <1>2, <1>3, <1>4, <2>3, <2>8, InumIs DEF Freed, Holds, IInv, Coherent
  <2>5. ASSUME NEW q \in Procs, proc[q].pc = "created" PROVE s # proc[q].ip
    <3> SUFFICES ASSUME proc[q].ip = s PROVE FALSE
      OBVIOUS
    <3>1. proc[q] \in ProcType
      BY <1>1
    <3> HIDE DEF s
    <3>2. /\ Eq(proc[q].ip, s) + Eq(proc[q].dp, s) >= 1 /\ RefCount(proc[q], s) \in Nat
          /\ Eq(proc[q].ip, s) + Eq(proc[q].dp, s) + In(proc[q].put, s) <= RefCount(proc[q], s)
          /\ In(proc[q].put, s) \in Nat /\ Eq(proc[q].ip, s) \in Nat /\ Eq(proc[q].dp, s) \in Nat
      BY <1>3, <3>1, RefsHeld
    <3>3. /\ In(proc[p].put, s) >= 1 /\ RefCount(proc[p], s) \in Nat
          /\ Eq(proc[p].ip, s) + Eq(proc[p].dp, s) + In(proc[p].put, s) <= RefCount(proc[p], s)
          /\ In(proc[p].put, s) \in Nat /\ Eq(proc[p].ip, s) \in Nat /\ Eq(proc[p].dp, s) \in Nat
      BY <1>1, <1>2, <1>3, RefsHeld DEF s
    <3>4. /\ icache[s].ref \in Nat /\ icache[s].ref >= RefCount(proc[p], s)
          /\ q # p /\ RefCount(proc[q], s) >= 1 => icache[s].ref >= RefCount(proc[p], s) + 1
      BY <1>3, RefsBound
    <3> QED BY <1>4, <3>2, <3>3, <3>4
  <2>6. /\ PlaceOf(proc'[p]) /\ Naming(p)' /\ EntryOf(p)'
        /\ LinkTarget(proc'[p]) = LinkTarget(proc[p]) /\ LostLink(proc'[p]) = LostLink(proc[p])
        /\ PlaceLock(proc'[p]) = PlaceLock(proc[p])
    BY <1>2, <2>3, <2>4, <2>5, PutPlace
  <2>7. \A t \in Inums : RefCount(proc'[p], t) = RefCount(proc[p], t) /\ RefCount(proc[p], t) \in Nat
    BY <1>1, <2>3, RefSetCount DEF RefCount
  <2>9. \A t \in Inums : icache'[t].ref = icache[t].ref + RefCount(proc'[p], t) - RefCount(proc[p], t)
    <3> HIDE DEF s
    <3> QED BY <1>1, <2>2, <2>7 DEF CacheType
  <2>10. \A t \in Inums : PlaceLock(proc'[p]) = t \/ Freed(proc'[p]) = t =>
           icache'[t].locker = p /\ icache'[t].valid
    <3> SUFFICES ASSUME NEW t \in Inums, PlaceLock(proc'[p]) = t \/ Freed(proc'[p]) = t
                 PROVE  icache'[t].locker = p /\ icache'[t].valid
      OBVIOUS
    <3>1. CASE t = s
      BY <1>4, <2>2, <3>1
    <3>2. CASE t # s
      <4>1. Holds(p, t)
        BY <2>4, <2>6, <3>2, InumIs DEF Holds
      <4> QED BY <2>2, <3>2, <4>1 DEF IInv, Holding
    <3> QED BY <3>1, <3>2
  <2>11. Quiet(p)
    <3> HIDE DEF s
    <3> QED BY <1>2, <2>2, <2>3, <2>4, <2>5, <2>6, <2>8, <2>9, <2>10 DEF Quiet
  <2> QED BY <2>11, QuietKeeps
<1>5. CASE ~(icache[s].valid /\ icache[s].nlink = 0 /\ icache[s].ref = 1)
  <2>1. icache' = icache /\ Stage(p, "drop")
    BY <1>5 DEF IputLock
  <2>2. /\ proc' \in [Procs -> ProcType] /\ Apart(p)
        /\ proc'[p].pc = proc[p].pc /\ proc'[p].ip = proc[p].ip /\ proc'[p].dp = proc[p].dp
        /\ proc'[p].put = proc[p].put /\ proc'[p].call = proc[p].call
        /\ proc'[p].rest = proc[p].rest /\ proc'[p].stage = "drop" /\ proc'[p].cwd = proc[p].cwd
        /\ proc'[p].files = proc[p].files
    BY <1>1, <2>1, StageIs
  <2>3. Freed(proc'[p]) = 0
    BY <2>2 DEF Freed
  <2>4. \A q \in Procs : proc[q].pc = "created" => 0 # proc[q].ip
    BY ProcFacts DEF PlaceOf, Two
  <2>5. /\ PlaceOf(proc'[p]) /\ Naming(p)' /\ EntryOf(p)'
        /\ LinkTarget(proc'[p]) = LinkTarget(proc[p]) /\ LostLink(proc'[p]) = LostLink(proc[p])
        /\ PlaceLock(proc'[p]) = PlaceLock(proc[p])
    BY <1>2, <2>2, <2>3, <2>4, PutPlace
  <2>6. \A t \in Inums : RefCount(proc'[p], t) = RefCount(proc[p], t) /\ RefCount(proc[p], t) \in Nat
    BY <1>1, <2>2, RefSetCount DEF RefCount
  <2>7. \A t \in Inums : icache'[t].ref = icache[t].ref + RefCount(proc'[p], t) - RefCount(proc[p], t)
    BY <1>1, <2>1, <2>6 DEF CacheType
  <2>8. \A t \in Inums : PlaceLock(proc'[p]) = t \/ Freed(proc'[p]) = t =>
           icache'[t].locker = p /\ icache'[t].valid
    BY <2>1, <2>3, <2>5, InumIs DEF IInv, Holding, Holds
  <2>9. Quiet(p)
    BY <1>1, <1>2, <2>1, <2>2, <2>3, <2>4, <2>5, <2>7, <2>8 DEF Quiet
  <2> QED BY <2>9, QuietKeeps
<1> QED BY <1>4, <1>5

LEMMA IputDropStep ==
  ASSUME IInv, NEW p \in Procs, IputDrop(p)
  PROVE  IInv'
<1> DEFINE s == Head(proc[p].put)
           r == proc[p]
<1>1. /\ proc \in [Procs -> ProcType] /\ icache \in CacheType /\ proc[p] \in ProcType
      /\ proc[p].put \in Seq(Inums)
  BY ProcFacts
<1>2. /\ proc[p].put # <<>> /\ proc[p].stage = "drop" /\ disk' = disk
      /\ durable' = durable /\ panicked' = panicked
  BY DEF IputDrop, Putting, Fixed
<1>3. s \in Inums /\ Tail(proc[p].put) \in Seq(Inums)
  BY <1>1, <1>2, HeadTailProperties
<1>4. /\ icache' = [icache EXCEPT ![s] = IF icache[s].ref = 1 THEN Blank
                                         ELSE [icache[s] EXCEPT !.ref = icache[s].ref - 1]]
      /\ proc' = [proc EXCEPT ![p] = [proc[p] EXCEPT !.stage = "lock", !.put = Tail(proc[p].put)]]
  BY DEF IputDrop
<1>5. /\ proc' \in [Procs -> ProcType] /\ Apart(p)
      /\ proc'[p].pc = proc[p].pc /\ proc'[p].ip = proc[p].ip /\ proc'[p].dp = proc[p].dp
      /\ proc'[p].put = Tail(proc[p].put) /\ proc'[p].call = proc[p].call
      /\ proc'[p].rest = proc[p].rest /\ proc'[p].stage = "lock" /\ proc'[p].cwd = proc[p].cwd
      /\ proc'[p].files = proc[p].files
  BY <1>1, <1>3, <1>4 DEF ProcType, Apart
<1>6. /\ In(r.put, s) >= 1 /\ RefCount(r, s) \in Nat /\ In(r.put, s) \in Nat
      /\ Eq(r.ip, s) + Eq(r.dp, s) + In(r.put, s) <= RefCount(r, s)
      /\ Eq(r.ip, s) \in Nat /\ Eq(r.dp, s) \in Nat
      /\ PlaceLock(r) = s => Eq(r.ip, s) + Eq(r.dp, s) >= 1
  <2>1. r \in ProcType /\ r.put # <<>> /\ Head(r.put) = s
    BY <1>1, <1>2
  <2> HIDE DEF r, s
  <2> QED BY <1>3, <2>1, RefsHeld
<1>7. /\ icache[s].ref \in Nat /\ icache[s].ref >= RefCount(r, s)
      /\ \A q \in Procs \ {p} : RefCount(proc[q], s) >= 1 => icache[s].ref >= RefCount(r, s) + 1
  BY <1>3, RefsBound
<1>8. icache[s].ref >= 1
  BY <1>6, <1>7
<1>9. /\ icache' \in CacheType
      /\ \A t \in Inums \ {s} : icache'[t] = icache[t]
      /\ icache'[s].ref = icache[s].ref - 1
      /\ icache[s].ref = 1 => ~icache'[s].valid
      /\ icache[s].ref # 1 => /\ icache'[s].valid = icache[s].valid
                              /\ icache'[s].type = icache[s].type
                              /\ icache'[s].nlink = icache[s].nlink
                              /\ icache'[s].locker = icache[s].locker
  <2> HIDE DEF s, r
  <2>1. CASE icache[s].ref = 1
    BY <1>1, <1>3, <1>4, <2>1 DEF CacheType, Blank
  <2>2. CASE icache[s].ref # 1
    <3>1. icache[s].ref - 1 \in Nat
      BY <1>7, <1>8
    <3> QED BY <1>1, <1>3, <1>4, <2>2, <3>1 DEF CacheType
  <2> QED BY <2>1, <2>2
<1>10. \A q \in Procs : Holds(q, s) => icache[s].ref # 1
  <2> SUFFICES ASSUME NEW q \in Procs, Holds(q, s) PROVE icache[s].ref # 1
    OBVIOUS
  <2>1. proc[q] \in ProcType /\ (PlaceLock(proc[q]) = s \/ Freed(proc[q]) = s)
    BY <1>1 DEF Holds
  <2>2. CASE q = p
    <3>1. PlaceLock(r) = s
      BY <1>2, <1>3, <2>1, <2>2, InumIs DEF Freed
    <3> QED BY <1>6, <1>7, <3>1
  <2>3. CASE q # p
    <3> DEFINE x == proc[q]
    <3>1. x \in ProcType /\ (PlaceLock(x) = s \/ Freed(x) = s)
      BY <2>1
    <3> HIDE DEF x, r, s
    <3>2. /\ Eq(x.ip, s) + Eq(x.dp, s) + In(x.put, s) <= RefCount(x, s)
          /\ PlaceLock(x) = s => Eq(x.ip, s) + Eq(x.dp, s) >= 1
          /\ Freed(x) = s => In(x.put, s) >= 1
          /\ RefCount(x, s) \in Nat /\ In(x.put, s) \in Nat
          /\ Eq(x.ip, s) \in Nat /\ Eq(x.dp, s) \in Nat
      BY <1>3, <3>1, RefsHeld
    <3>3. RefCount(x, s) >= 1
      BY <3>1, <3>2
    <3>4. icache[s].ref >= RefCount(r, s) + 1
      BY <1>7, <2>3, <3>3 DEF x
    <3> QED BY <1>6, <1>7, <3>4
  <2> QED BY <2>2, <2>3
<1>11. Freed(proc'[p]) = 0
  BY <1>5 DEF Freed
<1>12. \A q \in Procs : proc[q].pc = "created" => 0 # proc[q].ip
  BY ProcFacts DEF PlaceOf, Two
<1>13. /\ PlaceOf(proc'[p]) /\ Naming(p)' /\ EntryOf(p)'
       /\ LinkTarget(proc'[p]) = LinkTarget(proc[p]) /\ LostLink(proc'[p]) = LostLink(proc[p])
       /\ PlaceLock(proc'[p]) = PlaceLock(proc[p])
  BY <1>2, <1>5, <1>11, <1>12, PutPlace
<1>14. ASSUME NEW t \in Inums
       PROVE  icache'[t].ref = icache[t].ref + RefCount(proc'[p], t) - RefCount(proc[p], t)
  <2>1. RefCount(proc[p], t) = RefCount(proc'[p], t) + Eq(s, t)
    <3>1. In(proc[p].put, t) = In(Tail(proc[p].put), t) + Eq(s, t)
      BY <1>1, <1>2, InTail
    <3>2. In(Tail(proc[p].put), t) \in Nat /\ In(proc[p].files, t) \in Nat
      BY <1>1, <1>3, InFinite DEF ProcType
    <3>3. /\ Eq(s, t) \in Nat /\ Eq(proc[p].ip, t) \in Nat /\ Eq(proc[p].dp, t) \in Nat
          /\ Eq(proc[p].cwd, t) \in Nat
      BY DEF Eq
    <3>4. /\ RefCount(proc[p], t) = Eq(proc[p].ip, t) + Eq(proc[p].dp, t) + Eq(proc[p].cwd, t)
                                      + In(proc[p].put, t) + In(proc[p].files, t)
          /\ RefCount(proc'[p], t) = Eq(proc[p].ip, t) + Eq(proc[p].dp, t) + Eq(proc[p].cwd, t)
                                      + In(Tail(proc[p].put), t) + In(proc[p].files, t)
      BY <1>5 DEF RefCount
    <3> HIDE DEF s
    <3> QED BY <3>1, <3>2, <3>3, <3>4
  <2>2. RefCount(proc[p], t) \in Nat /\ RefCount(proc'[p], t) \in Nat /\ icache[t].ref \in Nat
    BY <1>1, <1>5, RefSetCount DEF CacheType
  <2>3. CASE t = s
    BY <1>9, <2>1, <2>2, <2>3 DEF Eq
  <2>4. CASE t # s
    BY <1>9, <2>1, <2>2, <2>4 DEF Eq
  <2> QED BY <2>3, <2>4
<1>15. ASSUME NEW t \in Inums, icache'[t].valid
       PROVE  /\ icache[t].valid
              /\ icache'[t].type = icache[t].type /\ icache'[t].nlink = icache[t].nlink
  <2>1. CASE t = s
    BY <1>9, <1>15, <2>1
  <2>2. CASE t # s
    BY <1>9, <1>15, <2>2
  <2> QED BY <2>1, <2>2
<1>16. ASSUME NEW q \in Procs, NEW t \in Inums, Holds(q, t)
       PROVE  icache'[t].locker = icache[t].locker /\ icache'[t].valid = icache[t].valid
  <2>1. CASE t = s
    BY <1>9, <1>10, <1>16, <2>1
  <2>2. CASE t # s
    BY <1>9, <2>2
  <2> QED BY <2>1, <2>2
<1>17. \A t \in Inums : PlaceLock(proc'[p]) = t \/ Freed(proc'[p]) = t =>
         icache'[t].locker = p /\ icache'[t].valid
  BY <1>11, <1>13, <1>16, InumIs DEF IInv, Holding, Holds
<1>18. Quiet(p)
  <2> HIDE DEF s, r
  <2> QED BY <1>2, <1>5, <1>9, <1>11, <1>12, <1>13, <1>14, <1>15, <1>16, <1>17 DEF Quiet
<1> QED BY <1>18, QuietKeeps

-----------------------------------------------------------------------------
(* Steps of a call that leave the disk alone.                              *)

\* A step of a process that has nothing to put, its references counted.
LEMMA MoveKeeps ==
  ASSUME IInv, NEW p \in Procs, proc[p].put = <<>>, Fixed, UNCHANGED disk, CacheQuiet(p),
         proc' \in [Procs -> ProcType], Apart(p), proc'[p].stage = proc[p].stage,
         PlaceOf(proc'[p]), Naming(p)', proc'[p].pc # "created",
         proc'[p].pc = "unlinking" => /\ disk[proc'[p].dp].ent[Name(p)'] = proc'[p].ip
                                      /\ Name(p)' \notin Dots,
         \A s \in Inums :
           icache'[s].ref = icache[s].ref + RefCount(proc'[p], s) - RefCount(proc[p], s),
         \A s \in Inums : PlaceLock(proc'[p]) = s => icache'[s].locker = p /\ icache'[s].valid,
         LinkTarget(proc'[p]) = LinkTarget(proc[p]), LostLink(proc'[p]) = LostLink(proc[p])
  PROVE  IInv'
<1>1. proc[p].stage = "lock"
  BY ProcFacts DEF PlaceOf
<1>2. Freed(proc'[p]) = 0
  BY <1>1 DEF Freed
<1>3. \A q \in Procs : proc[q].pc = "created" => 0 # proc[q].ip
  BY ProcFacts DEF PlaceOf, Two
<1>4. EntryOf(p)'
  BY <1>2 DEF IInv, Entries, EntryOf
<1>5. Quiet(p)
  BY <1>2, <1>3, <1>4, InumIs DEF Quiet, CacheQuiet, Fixed
<1> QED BY <1>5, QuietKeeps

\* The same, when its files and its directory stay what they are.
LEMMA MoveSum ==
  ASSUME NEW a \in Nat, NEW n \in Nat, NEW m \in Nat, NEW i1 \in Nat, NEW d1 \in Nat, NEW q \in Nat,
         NEW i0 \in Nat, NEW d0 \in Nat, n - m = i1 + d1 + q - i0 - d0
  PROVE  a + i1 + d1 + q - i0 - d0 = a + n - m
OBVIOUS

LEMMA MoveRefs ==
  ASSUME IInv, NEW p \in Procs, proc[p].put = <<>>, proc' \in [Procs -> ProcType],
         proc'[p].cwd = proc[p].cwd, proc'[p].files = proc[p].files, NEW s \in Inums,
         icache'[s].ref = icache[s].ref + Eq(proc'[p].ip, s) + Eq(proc'[p].dp, s)
                            + In(proc'[p].put, s) - Eq(proc[p].ip, s) - Eq(proc[p].dp, s)
  PROVE  icache'[s].ref = icache[s].ref + RefCount(proc'[p], s) - RefCount(proc[p], s)
<1> DEFINE r == proc[p]
           t == proc'[p]
<1>1. r \in ProcType /\ t \in ProcType /\ r.put = <<>> /\ t.cwd = r.cwd /\ t.files = r.files
  BY ProcFacts
<1>2. icache[s].ref \in Nat
  BY ProcFacts DEF CacheType
<1>3. icache'[s].ref = icache[s].ref + Eq(t.ip, s) + Eq(t.dp, s) + In(t.put, s)
                         - Eq(r.ip, s) - Eq(r.dp, s)
  OBVIOUS
<1> HIDE DEF r, t
<1>4. /\ RefCount(t, s) - RefCount(r, s)
           = Eq(t.ip, s) + Eq(t.dp, s) + In(t.put, s) - Eq(r.ip, s) - Eq(r.dp, s)
      /\ RefCount(t, s) \in Nat /\ RefCount(r, s) \in Nat /\ In(t.put, s) \in Nat
      /\ Eq(t.ip, s) \in Nat /\ Eq(t.dp, s) \in Nat /\ Eq(r.ip, s) \in Nat /\ Eq(r.dp, s) \in Nat
  BY <1>1, GotoRefs
<1>5. icache'[s].ref = icache[s].ref + RefCount(t, s) - RefCount(r, s)
  <2>1. icache[s].ref + Eq(t.ip, s) + Eq(t.dp, s) + In(t.put, s) - Eq(r.ip, s) - Eq(r.dp, s)
          = icache[s].ref + RefCount(t, s) - RefCount(r, s)
    BY <1>2, <1>4, MoveSum, SMTT(60)
  <2> QED BY <1>3, <2>1
<1> QED BY <1>5 DEF t, r

\* An entry of the cache that nobody reads and nobody locks is left as it is.
LEMMA CacheAlone ==
  ASSUME NEW p \in Procs, icache' \in CacheType,
         \A t \in Inums : /\ icache'[t].locker = icache[t].locker
                          /\ icache'[t].valid = icache[t].valid
                          /\ icache'[t].type = icache[t].type
                          /\ icache'[t].nlink = icache[t].nlink
  PROVE  CacheQuiet(p)
BY DEF CacheQuiet

LEMMA LastElement ==
  ASSUME NEW path \in Paths, Elements(path) \in Seq(Names), Elements(path) # <<>>
  PROVE  Last(Elements(path)) = Last(path) /\ Last(path) \in Names
<1>1. CASE Absolute(path)
  <2>1. path # <<>> /\ Elements(path) = Tail(path) /\ path \in Seq(Names \cup {"/"})
    BY <1>1 DEF Absolute, Elements, Paths
  <2>2. Len(Tail(path)) = Len(path) - 1 /\ \A i \in 1..Len(Tail(path)) : Tail(path)[i] = path[i + 1]
    BY <2>1, HeadTailProperties
  <2>3. Len(Elements(path)) \in 1..Len(Elements(path)) /\ Len(path) \in Nat
    BY <2>1, EmptySeq, LenProperties
  <2>4. Elements(path)[Len(Elements(path))] = path[Len(path)]
    BY <2>1, <2>2, <2>3
  <2>5. Elements(path)[Len(Elements(path))] \in Names
    BY <2>3, ElementOfSeq
  <2> QED BY <2>4, <2>5 DEF Last
<1>2. CASE ~Absolute(path)
  <2>1. Elements(path) = path
    BY <1>2 DEF Elements
  <2>2. Len(path) \in 1..Len(path) /\ path \in Seq(Names)
    BY <2>1, EmptySeq, LenProperties
  <2>3. path[Len(path)] \in Names
    BY <2>2, ElementOfSeq
  <2> QED BY <2>1, <2>3 DEF Last
<1> QED BY <1>1, <1>2

LEMMA BeginStep ==
  ASSUME IInv, NEW p \in Procs, NEW c \in Calls[p], Begin(p, c)
  PROVE  IInv'
<1> DEFINE s == StartAt(p, c.path)
<1>1. /\ proc \in [Procs -> ProcType] /\ icache \in CacheType /\ proc[p] \in ProcType
      /\ PlaceOf(proc[p])
  BY ProcFacts
<1>2. /\ c \in CallType /\ c.path \in Paths
      /\ Elements(c.path) \in Seq(Names) /\ Elements(c.new) \in Seq(Names)
  BY CallsAssumption DEF CallType
<1>3. s \in Inums /\ s # 0
  BY <1>1, InumIs DEF StartAt, ProcType
<1>4. /\ proc[p].pc = "user" /\ proc[p].put = <<>> /\ Fixed /\ disk' = disk
      /\ icache' = Iget(icache, s)
  BY DEF Begin, At, Start
<1>5. proc' = [proc EXCEPT ![p] = [proc[p] EXCEPT !.pc = "walk", !.call = c,
                 !.calls = proc[p].calls + 1, !.rest = Elements(c.path), !.ip = s]]
  BY DEF Begin
<1>6. /\ proc[p].calls + 1 \in Nat /\ "walk" \in PcSet /\ s \in 0..NINODES
      /\ c \in CallType \cup {<<>>}
  <2>1. proc[p].calls + 1 \in Nat
    BY <1>1 DEF ProcType
  <2>2. s \in 0..NINODES
    <3> HIDE DEF s
    <3> QED BY <1>3, InumIs
  <2> QED BY <1>2, <2>1, <2>2 DEF PcSet, One
<1> HIDE DEF s
<1>7. proc' \in [Procs -> ProcType] /\ Apart(p)
  BY <1>1, <1>2, <1>5, <1>6 DEF ProcType, Apart
<1>8. /\ proc'[p].pc = "walk" /\ proc'[p].call = c /\ proc'[p].rest = Elements(c.path)
      /\ proc'[p].ip = s /\ proc'[p].dp = proc[p].dp /\ proc'[p].put = proc[p].put
      /\ proc'[p].stage = proc[p].stage /\ proc'[p].cwd = proc[p].cwd
      /\ proc'[p].files = proc[p].files
  BY <1>1, <1>5 DEF ProcType
<1>9. proc[p].ip = 0 /\ proc[p].dp = 0 /\ proc[p].stage = "lock"
  BY <1>1, <1>4 DEF PlaceOf, Between
<1>10. PlaceOf(proc'[p])
  BY <1>2, <1>3, <1>4, <1>8, <1>9 DEF PlaceOf, Between, One, Two
<1>11. Naming(p)'
  <2>1. Name(p)' = Last(c.path)
    BY <1>8 DEF Name, Call
  <2>2. Elements(c.path) # <<>> => Last(Elements(c.path)) = Last(c.path)
    BY <1>2, LastElement
  <2> QED BY <1>8, <2>1, <2>2 DEF Naming
<1>12. /\ icache' \in CacheType
       /\ \A t \in Inums : /\ icache'[t].ref = icache[t].ref + Eq(s, t)
                           /\ icache'[t].locker = icache[t].locker
                           /\ icache'[t].valid = icache[t].valid
                           /\ icache'[t].type = icache[t].type
                           /\ icache'[t].nlink = icache[t].nlink
  BY <1>1, <1>3, <1>4, IgetIs
<1>13. CacheQuiet(p)
  BY <1>12, CacheAlone
<1>14. ASSUME NEW t \in Inums
       PROVE  icache'[t].ref = icache[t].ref + RefCount(proc'[p], t) - RefCount(proc[p], t)
  <2>1. Eq(0, t) = 0 /\ In(<<>>, t) = 0 /\ Eq(s, t) \in Nat /\ icache[t].ref \in Nat
    BY <1>1, InumIs, InEmpty DEF Eq, CacheType
  <2>2. icache'[t].ref = icache[t].ref + Eq(proc'[p].ip, t) + Eq(proc'[p].dp, t)
                            + In(proc'[p].put, t) - Eq(proc[p].ip, t) - Eq(proc[p].dp, t)
    BY <1>4, <1>8, <1>9, <1>12, <2>1
  <2> QED BY <1>4, <1>7, <1>8, <2>2, MoveRefs
<1>15. PlaceLock(proc'[p]) = 0 /\ LinkTarget(proc'[p]) = 0 /\ LostLink(proc'[p]) = 0
       /\ LinkTarget(proc[p]) = 0 /\ LostLink(proc[p]) = 0
  BY <1>4, <1>8 DEF PlaceLock, LinkTarget, LostLink
<1> QED BY <1>4, <1>7, <1>8, <1>10, <1>11, <1>13, <1>14, <1>15, InumIs, MoveKeeps

\* What Goto() of a process must bring along: the link that is in the making, or being lost,
\* the locks of the place, and a name for what wants one.
Arrives(p, place, i, d) ==
  /\ place \in PcSet \ {"user", "walk", "walknew", "created"}
  /\ i \in 0..NINODES /\ d \in 0..NINODES
  /\ place \in Between => i = 0 /\ d = 0
  /\ place \in One => i # 0 /\ d = 0
  /\ place \in Two => i # 0 /\ d # 0
  /\ place = "notempty" => i = 0 /\ d # 0
  /\ place \in Between \/ proc[p].pc \notin Between
  /\ place \in {"create", "mkdir", "unlink", "unlinking"} => Last(Call(p).path) \in Names
  /\ place = "link2" => Last(Call(p).new) \in Names
  /\ place = "unlinking" => disk[d].ent[Last(Call(p).path)] = i /\ Last(Call(p).path) \notin Dots
  /\ LinkTarget(proc[p]) = IF place = "link2" THEN d ELSE IF place \in {"linked", "bad"} THEN i ELSE 0
  /\ LostLink(proc[p]) = IF place = "unlinked" THEN i ELSE 0
  /\ place \in {"unlinking", "notempty", "linked"} => icache'[d].locker = p /\ icache'[d].valid
  /\ place \in {"new", "unlinked"} => icache'[i].locker = p /\ icache'[i].valid

LEMMA GotoMove ==
  ASSUME IInv, NEW p \in Procs, proc[p].put = <<>>,
         NEW place \in PcSet, NEW i \in 0..NINODES, NEW d \in 0..NINODES,
         NEW puts \in Seq(Inums), Arrives(p, place, i, d),
         Goto(p, place, i, d, puts), Fixed, UNCHANGED disk, CacheQuiet(p),
         \A s \in Inums : icache'[s].ref = icache[s].ref + Eq(i, s) + Eq(d, s) + In(puts, s)
                                             - Eq(proc[p].ip, s) - Eq(proc[p].dp, s)
  PROVE  IInv'
<1>1. /\ proc \in [Procs -> ProcType] /\ icache \in CacheType /\ proc[p] \in ProcType
      /\ PlaceOf(proc[p])
  BY ProcFacts
<1>3. /\ proc' \in [Procs -> ProcType] /\ Apart(p)
      /\ proc'[p].pc = place /\ proc'[p].ip = i /\ proc'[p].dp = d /\ proc'[p].put = puts
      /\ proc'[p].call = proc[p].call /\ proc'[p].rest = proc[p].rest
      /\ proc'[p].stage = proc[p].stage /\ proc'[p].cwd = proc[p].cwd
      /\ proc'[p].files = proc[p].files
  BY <1>1, GotoIs
<1>4. proc[p].stage = "lock"
  BY <1>1 DEF PlaceOf
<1>5. PlaceOf(proc'[p])
  BY <1>1, <1>3, <1>4 DEF PlaceOf, Arrives
<1>6. Name(p)' = IF place = "link2" THEN Last(Call(p).new) ELSE Last(Call(p).path)
  BY <1>3 DEF Name, Call, Arrives
<1>7. Naming(p)'
  BY <1>3, <1>6 DEF Naming, Arrives
<1>8. ASSUME NEW s \in Inums
      PROVE  icache'[s].ref = icache[s].ref + RefCount(proc'[p], s) - RefCount(proc[p], s)
  BY <1>3, MoveRefs
<1>9. LinkTarget(proc'[p]) = LinkTarget(proc[p]) /\ LostLink(proc'[p]) = LostLink(proc[p])
  BY <1>3 DEF LinkTarget, LostLink, Arrives
<1>10. \A s \in Inums : PlaceLock(proc'[p]) = s => icache'[s].locker = p /\ icache'[s].valid
  BY <1>3, InumIs DEF PlaceLock, Arrives
<1>11. proc'[p].pc = "unlinking" => /\ disk[proc'[p].dp].ent[Name(p)'] = proc'[p].ip
                                    /\ Name(p)' \notin Dots
  BY <1>3, <1>6 DEF Arrives
<1>12. proc'[p].pc # "created"
  BY <1>3 DEF Arrives
<1> QED BY <1>3, <1>4, <1>5, <1>7, <1>8, <1>9, <1>10, <1>11, <1>12, MoveKeeps

\* namex() gives up.
LEMMA FailedKeeps ==
  ASSUME IInv, NEW p \in Procs, proc[p].put = <<>>, proc[p].pc \in {"walk", "walknew"},
         Failed(p), Fixed, UNCHANGED disk, CacheQuiet(p),
         \A s \in Inums : icache'[s].ref = icache[s].ref
  PROVE  IInv'
<1>1. /\ proc[p] \in ProcType /\ icache \in CacheType /\ PlaceOf(proc[p])
      /\ proc[p].ip # 0 /\ proc[p].ip \in Inums /\ proc[p].dp \in 0..NINODES
  BY ProcFacts DEF PlaceOf, One, Two
<1>2. <<proc[p].ip>> \in Seq(Inums) /\ 0 \in 0..NINODES
  BY <1>1, FsAssumption
<1>3. \A s \in Inums : /\ In(<<proc[p].ip>>, s) = Eq(proc[p].ip, s) /\ Eq(0, s) = 0
                       /\ Eq(proc[p].ip, s) \in Nat /\ Eq(proc[p].dp, s) \in Nat
                       /\ icache[s].ref \in Nat
  BY <1>1, InOne, InumIs DEF Eq, CacheType
<1>4. CASE proc[p].pc = "walknew"
  <2>1. Goto(p, "bad", proc[p].dp, 0, <<proc[p].ip>>)
    BY <1>4 DEF Failed
  <2>2. "bad" \in PcSet /\ Arrives(p, "bad", proc[p].dp, 0)
    BY <1>1, <1>2, <1>4 DEF Arrives, PcSet, Between, One, Two, PlaceOf, LinkTarget, LostLink
  <2>3. \A s \in Inums : icache'[s].ref = icache[s].ref + Eq(proc[p].dp, s) + Eq(0, s)
                           + In(<<proc[p].ip>>, s) - Eq(proc[p].ip, s) - Eq(proc[p].dp, s)
    BY <1>3
  <2> QED BY <1>1, <1>2, <2>1, <2>2, <2>3, GotoMove
<1>5. CASE proc[p].pc = "walk"
  <2>1. Goto(p, "failed", 0, 0, <<proc[p].ip>>)
    BY <1>5 DEF Failed, Fail
  <2>2. "failed" \in PcSet /\ Arrives(p, "failed", 0, 0)
    BY <1>2, <1>5 DEF Arrives, PcSet, Between, One, Two, PlaceOf, LinkTarget, LostLink
  <2>3. proc[p].dp = 0
    BY <1>1, <1>5 DEF PlaceOf, One
  <2>4. \A s \in Inums : icache'[s].ref = icache[s].ref + Eq(0, s) + Eq(0, s)
                           + In(<<proc[p].ip>>, s) - Eq(proc[p].ip, s) - Eq(proc[p].dp, s)
    BY <1>3, <2>3
  <2> QED BY <1>1, <1>2, <2>1, <2>2, <2>4, GotoMove
<1> QED BY <1>4, <1>5

\* namex() gives what it has come to.
LEMMA FoundKeeps ==
  ASSUME IInv, NEW p \in Procs, proc[p].put = <<>>, proc[p].pc \in {"walk", "walknew"},
         Goto(p, Found(p), proc[p].ip, proc[p].dp, <<>>), Fixed, UNCHANGED disk, CacheQuiet(p),
         ForParent(p) => Name(p) \in Names,
         \A s \in Inums : icache'[s].ref = icache[s].ref
  PROVE  IInv'
<1>1. /\ proc[p] \in ProcType /\ icache \in CacheType /\ PlaceOf(proc[p])
      /\ proc[p].ip \in 0..NINODES /\ proc[p].dp \in 0..NINODES
  BY ProcFacts
<1>2. <<>> \in Seq(Inums)
  OBVIOUS
<1>3. \A s \in Inums : /\ In(<<>>, s) = 0
                       /\ Eq(proc[p].ip, s) \in Nat /\ Eq(proc[p].dp, s) \in Nat
                       /\ icache[s].ref \in Nat
  BY <1>1, InEmpty DEF Eq, CacheType
<1>4. \A s \in Inums : icache'[s].ref = icache[s].ref + Eq(proc[p].ip, s) + Eq(proc[p].dp, s)
                         + In(<<>>, s) - Eq(proc[p].ip, s) - Eq(proc[p].dp, s)
  BY <1>3
<1>5. proc[p].ip # 0
  BY <1>1 DEF PlaceOf, One, Two
<1>6. CASE proc[p].pc = "walknew"
  <2>1. Found(p) = "link2" /\ Last(Call(p).new) \in Names
    BY <1>6 DEF Found, ForParent, Name
  <2>2. "link2" \in PcSet /\ Arrives(p, "link2", proc[p].ip, proc[p].dp)
    BY <1>1, <1>5, <1>6, <2>1 DEF Arrives, PcSet, Between, One, Two, PlaceOf, LinkTarget, LostLink
  <2> QED BY <1>1, <1>2, <1>4, <2>1, <2>2, GotoMove
<1>7. CASE proc[p].pc = "walk"
  <2>1. Found(p) = Call(p).op /\ proc[p].dp = 0
    BY <1>1, <1>7 DEF Found, PlaceOf, One
  <2>2. Call(p).op \in {"open", "openw", "chdir", "create", "mkdir", "unlink", "link"}
    BY <1>1, <1>7 DEF PlaceOf, Between, Call, CallType
  <2>3. Call(p).op \in {"create", "mkdir", "unlink"} => Last(Call(p).path) \in Names
    BY <1>7 DEF ForParent, Name
  <2>4. Call(p).op \in PcSet /\ Arrives(p, Call(p).op, proc[p].ip, proc[p].dp)
    BY <1>1, <1>5, <1>7, <2>1, <2>2, <2>3
       DEF Arrives, PcSet, Between, One, Two, PlaceOf, LinkTarget, LostLink
  <2> QED BY <1>1, <1>2, <1>4, <2>1, <2>4, GotoMove
<1> QED BY <1>6, <1>7

LEMMA WalkedStep ==
  ASSUME IInv, NEW p \in Procs, Walked(p)
  PROVE  IInv'
<1>1. /\ proc[p].put = <<>> /\ proc[p].pc \in {"walk", "walknew"} /\ Fixed /\ UNCHANGED disk
      /\ icache' = icache
  BY DEF Walked, At
<1>2. icache' \in CacheType
  BY <1>1, ProcFacts
<1>3. CacheQuiet(p)
  BY <1>1, <1>2, CacheAlone
<1>4. CASE ForParent(p)
  <2>1. Failed(p)
    BY <1>4 DEF Walked
  <2> QED BY <1>1, <1>3, <2>1, FailedKeeps
<1>5. CASE ~ForParent(p)
  <2>1. Goto(p, Found(p), proc[p].ip, proc[p].dp, <<>>)
    BY <1>5 DEF Walked
  <2> QED BY <1>1, <1>3, <1>5, <2>1, FoundKeeps
<1> QED BY <1>4, <1>5

LEMMA WalkNext ==
  ASSUME IInv, NEW p \in Procs, proc[p].put = <<>>, proc[p].pc \in {"walk", "walknew"},
         proc[p].rest # <<>>, NEW next \in Inums, Fixed, UNCHANGED disk, CacheQuiet(p),
         \A t \in Inums : icache'[t].ref = icache[t].ref + Eq(next, t),
         proc' = [proc EXCEPT ![p] = [proc[p] EXCEPT !.ip = next, !.rest = Tail(proc[p].rest),
                                                     !.put = <<proc[p].ip>>]]
  PROVE  IInv'
<1>1. /\ proc \in [Procs -> ProcType] /\ proc[p] \in ProcType /\ icache \in CacheType
      /\ PlaceOf(proc[p]) /\ proc[p].ip \in Inums /\ proc[p].rest \in Seq(Names) /\ Naming(p)
      /\ proc[p].cwd \in Inums /\ proc[p].files \in Seq(Inums)
  BY ProcFacts DEF PlaceOf, One, Two
<1>2. /\ next \in 0..NINODES /\ next # 0 /\ <<proc[p].ip>> \in Seq(Inums)
      /\ <<proc[p].ip>> # <<>>
  BY <1>1, InumIs
<1>3. /\ Tail(proc[p].rest) \in Seq(Names) /\ Len(Tail(proc[p].rest)) = Len(proc[p].rest) - 1
      /\ \A i \in 1..Len(Tail(proc[p].rest)) : Tail(proc[p].rest)[i] = proc[p].rest[i + 1]
  BY <1>1, HeadTailProperties
<1>4. proc' \in [Procs -> ProcType] /\ Apart(p)
  BY <1>1, <1>2, <1>3 DEF ProcType, Apart
<1>5. /\ proc'[p].pc = proc[p].pc /\ proc'[p].call = proc[p].call
      /\ proc'[p].rest = Tail(proc[p].rest) /\ proc'[p].ip = next /\ proc'[p].dp = proc[p].dp
      /\ proc'[p].put = <<proc[p].ip>> /\ proc'[p].stage = proc[p].stage
      /\ proc'[p].cwd = proc[p].cwd /\ proc'[p].files = proc[p].files
  BY <1>1 DEF ProcType
<1>6. PlaceOf(proc'[p])
  BY <1>1, <1>2, <1>5 DEF PlaceOf, Between, One, Two
<1>7. Naming(p)'
  <2>1. Tail(proc[p].rest) # <<>> => Last(Tail(proc[p].rest)) = Last(proc[p].rest)
    <3> SUFFICES ASSUME Tail(proc[p].rest) # <<>>
                 PROVE  Last(Tail(proc[p].rest)) = Last(proc[p].rest)
      OBVIOUS
    <3>1. Len(Tail(proc[p].rest)) \in 1..Len(Tail(proc[p].rest)) /\ Len(proc[p].rest) \in Nat
      BY <1>1, <1>3, EmptySeq, LenProperties
    <3>2. Tail(proc[p].rest)[Len(Tail(proc[p].rest))] = proc[p].rest[Len(proc[p].rest)]
      BY <1>3, <3>1
    <3> QED BY <3>2 DEF Last
  <2>2. Name(p)' = Name(p)
    BY <1>5 DEF Name, Call
  <2>3. Name(p) = Last(proc[p].rest)
    BY <1>1 DEF Naming
  <2> QED BY <1>5, <2>1, <2>2, <2>3 DEF Naming
<1>8. ASSUME NEW t \in Inums
      PROVE  icache'[t].ref = icache[t].ref + RefCount(proc'[p], t) - RefCount(proc[p], t)
  <2>1. /\ In(<<proc[p].ip>>, t) = Eq(proc[p].ip, t) /\ Eq(next, t) \in Nat
        /\ Eq(proc[p].ip, t) \in Nat /\ Eq(proc[p].dp, t) \in Nat /\ icache[t].ref \in Nat
    BY <1>1, InOne DEF Eq, CacheType
  <2>2. icache'[t].ref = icache[t].ref + Eq(proc'[p].ip, t) + Eq(proc'[p].dp, t)
                            + In(proc'[p].put, t) - Eq(proc[p].ip, t) - Eq(proc[p].dp, t)
    BY <1>5, <2>1
  <2> QED BY <1>4, <1>5, <2>2, MoveRefs
<1>9. /\ PlaceLock(proc'[p]) = 0 /\ LinkTarget(proc'[p]) = LinkTarget(proc[p])
      /\ LostLink(proc'[p]) = LostLink(proc[p]) /\ proc'[p].pc \notin {"created", "unlinking"}
  BY <1>5 DEF PlaceLock, LinkTarget, LostLink
<1> QED BY <1>4, <1>5, <1>6, <1>7, <1>8, <1>9, InumIs, MoveKeeps

\* What an entry of a directory names is 0 or an inode.
LEMMA EntryIs ==
  ASSUME disk \in DiskType, NEW s \in Inums, NEW n \in Names, Dirlookup(s, n) # 0
  PROVE  Dirlookup(s, n) \in Inums
BY InumIs DEF Dirlookup, DiskType, InodeType

LEMMA WalkStep ==
  ASSUME IInv, NEW p \in Procs, Walk(p)
  PROVE  IInv'
<1> DEFINE s == proc[p].ip
           rest == proc[p].rest
           ic == Ilock(icache, s)
           next == Dirlookup(s, Head(rest))
           isParent == ForParent(p) /\ Len(rest) = 1
<1>1. /\ proc[p].put = <<>> /\ proc[p].pc \in {"walk", "walknew"} /\ CanLock(s) /\ rest # <<>>
  BY DEF Walk, Locking, At
<1>2. /\ proc[p] \in ProcType /\ icache \in CacheType /\ disk \in DiskType /\ s \in Inums
      /\ rest \in Seq(Names) /\ PlaceOf(proc[p]) /\ Naming(p)
  BY <1>1, ProcFacts DEF PlaceOf, One, Two
<1>3. CASE NoType(s)
  <2>1. Panic("ilock: no type")
    BY <1>3 DEF Walk
  <2> QED BY <2>1, PanicKeeps
<1>4. CASE ~NoType(s)
  <2>1. Fixed /\ UNCHANGED disk
    BY <1>4 DEF Walk
  <2>2. ic \in CacheType /\ \A t \in Inums : ic[t].ref = icache[t].ref
    BY <1>2, <1>4, ReadIs
  <2>3. CASE ic[s].type # "dir" \/ (next = 0 /\ ~isParent)
    <3>1. icache' = ic /\ Failed(p)
      BY <1>4, <2>3 DEF Walk
    <3>2. CacheQuiet(p)
      BY <1>1, <1>2, <1>4, <2>2, <3>1, ReadQuiet
    <3> QED BY <1>1, <2>1, <2>2, <3>1, <3>2, FailedKeeps
  <2>4. CASE ~(ic[s].type # "dir" \/ (next = 0 /\ ~isParent)) /\ isParent
    <3>1. icache' = ic /\ Goto(p, Found(p), s, proc[p].dp, <<>>)
      BY <1>4, <2>4 DEF Walk
    <3>2. CacheQuiet(p)
      BY <1>1, <1>2, <1>4, <2>2, <3>1, ReadQuiet
    <3>3. Name(p) \in Names
      <4>1. Name(p) = Last(rest) /\ Len(rest) \in 1..Len(rest)
        BY <1>1, <1>2, EmptySeq, LenProperties DEF Naming
      <4> QED BY <1>2, <4>1, ElementOfSeq DEF Last
    <3> QED BY <1>1, <2>1, <2>2, <3>1, <3>2, <3>3, FoundKeeps
  <2>5. CASE ~(ic[s].type # "dir" \/ (next = 0 /\ ~isParent)) /\ ~isParent
    <3>1. icache' = Iget(ic, next)
      BY <1>4, <2>5 DEF Walk
    <3>2. proc' = [proc EXCEPT ![p] = [proc[p] EXCEPT !.ip = next, !.rest = Tail(rest), !.put = <<s>>]]
      BY <1>4, <2>5 DEF Walk
    <3>3. next \in Inums
      <4>1. Head(rest) \in Names
        BY <1>1, <1>2, HeadTailProperties
      <4> QED BY <1>2, <2>5, <4>1, EntryIs
    <3>4. /\ icache' \in CacheType
          /\ \A t \in Inums : /\ icache'[t].ref = ic[t].ref + Eq(next, t)
                              /\ icache'[t].locker = ic[t].locker
                              /\ icache'[t].valid = ic[t].valid
                              /\ icache'[t].type = ic[t].type
                              /\ icache'[t].nlink = ic[t].nlink
      <4> HIDE DEF ic, next
      <4> QED BY <2>2, <3>1, <3>3, IgetIs
    <3>5. CacheQuiet(p)
      BY <1>1, <1>2, <1>4, <3>4, ReadQuiet
    <3>6. \A t \in Inums : icache'[t].ref = icache[t].ref + Eq(next, t)
      BY <2>2, <3>4
    <3> HIDE DEF next
    <3> QED BY <1>1, <2>1, <3>2, <3>3, <3>5, <3>6, WalkNext
  <2> QED BY <2>3, <2>4, <2>5
<1> QED BY <1>3, <1>4

\* The calls that end by putting what they have in hand ...
LEMMA FailKeeps ==
  ASSUME IInv, NEW p \in Procs, proc[p].put = <<>>, proc[p].pc \in One \ {"bad", "unlinked"},
         Fail(p, <<proc[p].ip>>) \/ Finish(p, <<proc[p].ip>>), Fixed, UNCHANGED disk, CacheQuiet(p),
         \A s \in Inums : icache'[s].ref = icache[s].ref
  PROVE  IInv'
<1>1. /\ proc[p] \in ProcType /\ icache \in CacheType /\ PlaceOf(proc[p])
      /\ proc[p].ip # 0 /\ proc[p].ip \in Inums /\ proc[p].dp = 0
  BY ProcFacts DEF PlaceOf, One
<1>2. <<proc[p].ip>> \in Seq(Inums) /\ 0 \in 0..NINODES
  BY <1>1, FsAssumption
<1>3. \A s \in Inums : /\ In(<<proc[p].ip>>, s) = Eq(proc[p].ip, s) /\ Eq(0, s) = 0
                       /\ Eq(proc[p].ip, s) \in Nat /\ icache[s].ref \in Nat
  BY <1>1, InOne, InumIs DEF Eq, CacheType
<1>4. \A s \in Inums : icache'[s].ref = icache[s].ref + Eq(0, s) + Eq(0, s)
                         + In(<<proc[p].ip>>, s) - Eq(proc[p].ip, s) - Eq(proc[p].dp, s)
  BY <1>1, <1>3
<1>5. /\ "failed" \in PcSet /\ Arrives(p, "failed", 0, 0)
      /\ "end" \in PcSet /\ Arrives(p, "end", 0, 0)
  BY <1>2 DEF Arrives, PcSet, Between, One, Two, LinkTarget, LostLink
<1>6. CASE Fail(p, <<proc[p].ip>>)
  <2>1. Goto(p, "failed", 0, 0, <<proc[p].ip>>)
    BY <1>6 DEF Fail
  <2> QED BY <1>2, <1>4, <1>5, <2>1, GotoMove
<1>7. CASE Finish(p, <<proc[p].ip>>)
  <2>1. Goto(p, "end", 0, 0, <<proc[p].ip>>)
    BY <1>7 DEF Finish
  <2> QED BY <1>2, <1>4, <1>5, <2>1, GotoMove
<1> QED BY <1>6, <1>7

\* ... or by keeping it as an open file, if there is room.
LEMMA OpenedKeeps ==
  ASSUME IInv, NEW p \in Procs, proc[p].put = <<>>, proc[p].pc \in One \ {"bad", "unlinked"},
         OpenFile(p, proc[p].ip), Fixed, UNCHANGED disk, CacheQuiet(p),
         \A s \in Inums : icache'[s].ref = icache[s].ref
  PROVE  IInv'
<1> DEFINE i == proc[p].ip
<1>1. /\ proc \in [Procs -> ProcType] /\ proc[p] \in ProcType /\ icache \in CacheType
      /\ PlaceOf(proc[p]) /\ i # 0 /\ i \in Inums /\ proc[p].dp = 0
      /\ proc[p].put \in Seq(Inums) /\ proc[p].files \in Seq(Inums)
  BY ProcFacts DEF PlaceOf, One
<1>2. /\ proc' \in [Procs -> ProcType] /\ Apart(p)
      /\ proc'[p].pc \in {"end", "failed"} /\ proc'[p].ip = 0
      /\ proc'[p].call = proc[p].call /\ proc'[p].rest = proc[p].rest
      /\ proc'[p].stage = proc[p].stage /\ proc'[p].cwd = proc[p].cwd
      /\ \/ /\ proc'[p].dp = proc[p].dp /\ proc'[p].put = proc[p].put
            /\ proc'[p].files = Append(proc[p].files, i)
         \/ /\ proc'[p].dp = 0 /\ proc'[p].put = <<i>>
            /\ proc'[p].files = proc[p].files
  BY <1>1, OpenFileIs
<1>3. proc[p].stage = "lock"
  BY <1>1 DEF PlaceOf
<1>4. PlaceOf(proc'[p])
  BY <1>1, <1>2, <1>3 DEF PlaceOf, Between, One, Two
<1>5. Naming(p)'
  BY <1>2 DEF Naming
<1>6. ASSUME NEW s \in Inums
      PROVE  icache'[s].ref = icache[s].ref + RefCount(proc'[p], s) - RefCount(proc[p], s)
  <2>1. /\ RefCount(proc[p], s) = Eq(i, s) + Eq(0, s) + Eq(proc[p].cwd, s) + In(<<>>, s)
                                    + In(proc[p].files, s)
        /\ RefCount(proc'[p], s) = Eq(0, s) + Eq(0, s) + Eq(proc[p].cwd, s)
                                     + In(proc'[p].put, s) + In(proc'[p].files, s)
    BY <1>1, <1>2 DEF RefCount
  <2>2. /\ Eq(0, s) = 0 /\ In(<<>>, s) = 0 /\ Eq(i, s) \in Nat /\ Eq(proc[p].cwd, s) \in Nat
        /\ icache[s].ref \in Nat
    BY <1>1, InumIs, InEmpty DEF Eq, CacheType
  <2>3. In(proc[p].files, s) \in Nat
    BY <1>1, InFinite
  <2>4. In(proc'[p].put, s) + In(proc'[p].files, s) = In(proc[p].files, s) + Eq(i, s)
    <3>1. In(<<i>>, s) = Eq(i, s) /\ In(Append(proc[p].files, i), s) = In(proc[p].files, s) + Eq(i, s)
      BY <1>1, InOne, InAppend
    <3>2. CASE proc'[p].put = proc[p].put /\ proc'[p].files = Append(proc[p].files, i)
      BY <2>2, <2>3, <3>1, <3>2
    <3>3. CASE proc'[p].put = <<i>> /\ proc'[p].files = proc[p].files
      BY <2>2, <2>3, <3>1, <3>3
    <3> QED BY <1>2, <3>2, <3>3
  <2>5. In(proc'[p].put, s) \in Nat /\ In(proc'[p].files, s) \in Nat
    <3>1. proc'[p].put \in Seq(Inums) /\ proc'[p].files \in Seq(Inums)
      BY <1>2 DEF ProcType
    <3> QED BY <3>1, InFinite
  <2> HIDE DEF i
  <2>6. RefCount(proc'[p], s) = RefCount(proc[p], s) /\ RefCount(proc[p], s) \in Nat
    BY ONLY <2>1, <2>2, <2>3, <2>4, <2>5
  <2> QED BY <2>2, <2>6
<1>7. /\ PlaceLock(proc'[p]) = 0 /\ LinkTarget(proc'[p]) = 0 /\ LostLink(proc'[p]) = 0
      /\ LinkTarget(proc[p]) = 0 /\ LostLink(proc[p]) = 0
      /\ proc'[p].pc \notin {"created", "unlinking"}
  BY <1>2 DEF PlaceLock, LinkTarget, LostLink, One
<1> QED BY <1>2, <1>4, <1>5, <1>6, <1>7, InumIs, MoveKeeps

LEMMA OpenStep ==
  ASSUME IInv, NEW p \in Procs, Open(p) \/ CreateExists(p)
  PROVE  IInv'
<1> DEFINE s == proc[p].ip
           ic == Ilock(icache, s)
<1>1. /\ proc[p].put = <<>> /\ proc[p].pc \in One \ {"bad", "unlinked"} /\ CanLock(s)
  BY DEF Open, CreateExists, Locking, At, One
<1>2. s \in Inums
  BY <1>1, ProcFacts DEF PlaceOf
<1>3. CASE NoType(s)
  <2>1. Panic("ilock: no type")
    BY <1>3 DEF Open, CreateExists
  <2> QED BY <2>1, PanicKeeps
<1>4. CASE ~NoType(s)
  <2>1. Fixed /\ UNCHANGED disk /\ icache' = ic /\ (Fail(p, <<s>>) \/ OpenFile(p, s))
    <3>1. CASE Open(p)
      BY <1>4, <3>1 DEF Open
    <3>2. CASE CreateExists(p)
      BY <1>4, <3>2 DEF CreateExists
    <3> QED BY <3>1, <3>2
  <2>2. ic \in CacheType /\ \A t \in Inums : ic[t].ref = icache[t].ref
    BY <1>2, <1>4, ReadIs
  <2>3. CacheQuiet(p)
    BY <1>1, <1>2, <1>4, <2>1, <2>2, ReadQuiet
  <2>4. CASE Fail(p, <<s>>)
    BY <1>1, <2>1, <2>2, <2>3, <2>4, FailKeeps
  <2>5. CASE OpenFile(p, s)
    BY <1>1, <2>1, <2>2, <2>3, <2>5, OpenedKeeps
  <2> QED BY <2>1, <2>4, <2>5
<1> QED BY <1>3, <1>4

LEMMA ChdirStep ==
  ASSUME IInv, NEW p \in Procs, Chdir(p)
  PROVE  IInv'
<1> DEFINE s == proc[p].ip
           ic == Ilock(icache, s)
<1>1. /\ proc[p].put = <<>> /\ proc[p].pc = "chdir" /\ CanLock(s)
  BY DEF Chdir, Locking, At
<1>2. /\ proc \in [Procs -> ProcType] /\ proc[p] \in ProcType /\ icache \in CacheType
      /\ PlaceOf(proc[p]) /\ s # 0 /\ s \in Inums /\ proc[p].dp = 0 /\ proc[p].cwd \in Inums
      /\ proc[p].files \in Seq(Inums) /\ proc[p].stage = "lock"
  BY <1>1, ProcFacts DEF PlaceOf, One
<1>3. CASE NoType(s)
  <2>1. Panic("ilock: no type")
    BY <1>3 DEF Chdir
  <2> QED BY <2>1, PanicKeeps
<1>4. CASE ~NoType(s)
  <2>1. Fixed /\ UNCHANGED disk /\ icache' = ic
    BY <1>4 DEF Chdir
  <2>2. ic \in CacheType /\ \A t \in Inums : ic[t].ref = icache[t].ref
    BY <1>2, <1>4, ReadIs
  <2>3. CacheQuiet(p)
    BY <1>1, <1>2, <1>4, <2>1, <2>2, ReadQuiet
  <2>4. CASE ic[s].type # "dir"
    <3>1. Fail(p, <<s>>)
      BY <1>4, <2>4 DEF Chdir
    <3>2. proc[p].pc \in One \ {"bad", "unlinked"}
      BY <1>1 DEF One
    <3> QED BY <1>1, <2>1, <2>2, <2>3, <3>1, <3>2, FailKeeps
  <2>5. CASE ic[s].type = "dir"
    <3>1. proc' = [proc EXCEPT ![p] = [proc[p] EXCEPT !.pc = "end", !.ip = 0, !.cwd = s,
                                                     !.put = <<proc[p].cwd>>]]
      BY <1>4, <2>5 DEF Chdir
    <3>2. "end" \in PcSet /\ 0 \in 0..NINODES /\ <<proc[p].cwd>> \in Seq(Inums) /\ <<proc[p].cwd>> # <<>>
      BY <1>2, FsAssumption DEF PcSet, Between
    <3>3. proc' \in [Procs -> ProcType] /\ Apart(p)
      BY <1>2, <3>1, <3>2 DEF ProcType, Apart
    <3>4. /\ proc'[p].pc = "end" /\ proc'[p].ip = 0 /\ proc'[p].dp = proc[p].dp
          /\ proc'[p].put = <<proc[p].cwd>> /\ proc'[p].stage = proc[p].stage /\ proc'[p].cwd = s
          /\ proc'[p].files = proc[p].files
      BY <1>2, <3>1 DEF ProcType
    <3>5. PlaceOf(proc'[p])
      BY <1>2, <3>2, <3>4 DEF PlaceOf, Between, One, Two
    <3>6. Naming(p)'
      BY <3>4 DEF Naming
    <3>7. ASSUME NEW t \in Inums
          PROVE  icache'[t].ref = icache[t].ref + RefCount(proc'[p], t) - RefCount(proc[p], t)
      <4>1. /\ RefCount(proc[p], t) = Eq(s, t) + Eq(0, t) + Eq(proc[p].cwd, t) + In(<<>>, t)
                                        + In(proc[p].files, t)
            /\ RefCount(proc'[p], t) = Eq(0, t) + Eq(0, t) + Eq(s, t) + In(<<proc[p].cwd>>, t)
                                         + In(proc[p].files, t)
        BY <1>1, <1>2, <3>4 DEF RefCount
      <4>2. /\ Eq(0, t) = 0 /\ In(<<>>, t) = 0 /\ In(<<proc[p].cwd>>, t) = Eq(proc[p].cwd, t)
            /\ Eq(s, t) \in Nat /\ Eq(proc[p].cwd, t) \in Nat
            /\ icache[t].ref \in Nat /\ In(proc[p].files, t) \in Nat
        BY <1>2, InumIs, InEmpty, InOne, InFinite DEF Eq, CacheType
      <4> HIDE DEF s
      <4>3. RefCount(proc[p], t) = RefCount(proc'[p], t) /\ RefCount(proc[p], t) \in Nat
        BY <4>1, <4>2
      <4> QED BY <2>1, <2>2, <4>2, <4>3
    <3>8. /\ PlaceLock(proc'[p]) = 0 /\ LinkTarget(proc'[p]) = 0 /\ LostLink(proc'[p]) = 0
          /\ LinkTarget(proc[p]) = 0 /\ LostLink(proc[p]) = 0
          /\ proc'[p].pc \notin {"created", "unlinking"}
      BY <1>1, <3>4 DEF PlaceLock, LinkTarget, LostLink
    <3> QED BY <1>1, <2>1, <2>3, <3>3, <3>4, <3>5, <3>6, <3>7, <3>8, InumIs, MoveKeeps
  <2> QED BY <2>4, <2>5
<1> QED BY <1>3, <1>4

LEMMA CloseStep ==
  ASSUME IInv, NEW p \in Procs, NEW k \in DOMAIN proc[p].files, Close(p, k)
  PROVE  IInv'
<1> DEFINE f == proc[p].files[k]
           left == RemoveAt(proc[p].files, k)
<1>1. /\ proc[p].put = <<>> /\ proc[p].pc = "user" /\ Fixed /\ UNCHANGED disk /\ icache' = icache
  BY DEF Close, At
<1>2. /\ proc \in [Procs -> ProcType] /\ proc[p] \in ProcType /\ icache \in CacheType
      /\ PlaceOf(proc[p]) /\ proc[p].ip = 0 /\ proc[p].dp = 0 /\ proc[p].cwd \in Inums
      /\ proc[p].files \in Seq(Inums) /\ proc[p].stage = "lock"
  BY <1>1, ProcFacts DEF PlaceOf, Between
<1>3. f \in Inums
  BY <1>2, ElementOfSeq, LenProperties
<1>4. left \in Seq(Inums)
  BY <1>2, InRemove
<1>5. proc' = [proc EXCEPT ![p] = [proc[p] EXCEPT !.pc = "end", !.files = left, !.put = <<f>>]]
  BY DEF Close
<1>6. "end" \in PcSet /\ <<f>> \in Seq(Inums) /\ <<f>> # <<>>
  BY <1>3 DEF PcSet, Between
<1>7. \A t \in Inums : In(proc[p].files, t) = In(left, t) + Eq(f, t)
  BY <1>2, InRemove
<1> HIDE DEF f, left
<1>8. proc' \in [Procs -> ProcType] /\ Apart(p)
  BY <1>2, <1>4, <1>5, <1>6 DEF ProcType, Apart
<1>9. /\ proc'[p].pc = "end" /\ proc'[p].ip = proc[p].ip /\ proc'[p].dp = proc[p].dp
      /\ proc'[p].put = <<f>> /\ proc'[p].stage = proc[p].stage /\ proc'[p].cwd = proc[p].cwd
      /\ proc'[p].files = left
  BY <1>2, <1>5 DEF ProcType
<1>10. PlaceOf(proc'[p])
  BY <1>2, <1>6, <1>9 DEF PlaceOf, Between, One, Two
<1>11. Naming(p)'
  BY <1>9 DEF Naming
<1>12. ASSUME NEW t \in Inums
       PROVE  icache'[t].ref = icache[t].ref + RefCount(proc'[p], t) - RefCount(proc[p], t)
  <2>1. /\ RefCount(proc[p], t) = Eq(0, t) + Eq(0, t) + Eq(proc[p].cwd, t) + In(<<>>, t)
                                    + In(proc[p].files, t)
        /\ RefCount(proc'[p], t) = Eq(0, t) + Eq(0, t) + Eq(proc[p].cwd, t) + In(<<f>>, t) + In(left, t)
    BY <1>1, <1>2, <1>9 DEF RefCount
  <2>2. /\ Eq(0, t) = 0 /\ In(<<>>, t) = 0 /\ In(<<f>>, t) = Eq(f, t)
        /\ Eq(f, t) \in Nat /\ Eq(proc[p].cwd, t) \in Nat
        /\ icache[t].ref \in Nat /\ In(left, t) \in Nat
    BY <1>2, <1>3, <1>4, InumIs, InEmpty, InOne, InFinite DEF Eq, CacheType
  <2>3. RefCount(proc[p], t) = RefCount(proc'[p], t) /\ RefCount(proc[p], t) \in Nat
    BY <1>7, <2>1, <2>2
  <2> QED BY <1>1, <2>2, <2>3
<1>13. /\ PlaceLock(proc'[p]) = 0 /\ LinkTarget(proc'[p]) = 0 /\ LostLink(proc'[p]) = 0
       /\ LinkTarget(proc[p]) = 0 /\ LostLink(proc[p]) = 0
       /\ proc'[p].pc \notin {"created", "unlinking"}
  BY <1>1, <1>9 DEF PlaceLock, LinkTarget, LostLink
<1>14. CacheQuiet(p)
  BY <1>1, <1>2, CacheAlone
<1> QED BY <1>1, <1>8, <1>9, <1>10, <1>11, <1>12, <1>13, <1>14, InumIs, MoveKeeps

LEMMA EndStep ==
  ASSUME IInv, NEW p \in Procs, End(p)
  PROVE  IInv'
<1>1. /\ proc[p].put = <<>> /\ proc[p].pc \in {"end", "failed"} /\ disk' = disk /\ icache' = icache
      /\ panicked' = panicked /\ durable' \in {durable, disk}
  BY DEF End, At
<1>2. /\ proc \in [Procs -> ProcType] /\ proc[p] \in ProcType /\ icache \in CacheType
      /\ PlaceOf(proc[p]) /\ proc[p].ip = 0 /\ proc[p].dp = 0 /\ proc[p].stage = "lock"
  BY <1>1, ProcFacts DEF PlaceOf, Between
<1>3. proc' = [proc EXCEPT ![p] = [proc[p] EXCEPT !.pc = "user", !.call = <<>>, !.rest = <<>>]]
  BY DEF End
<1>4. "user" \in PcSet /\ <<>> \in CallType \cup {<<>>} /\ <<>> \in Seq(Names)
  BY DEF PcSet, Between
<1>5. proc' \in [Procs -> ProcType] /\ Apart(p)
  BY <1>2, <1>3, <1>4 DEF ProcType, Apart
<1>6. /\ proc'[p].pc = "user" /\ proc'[p].ip = 0 /\ proc'[p].dp = 0 /\ proc'[p].put = <<>>
      /\ proc'[p].stage = "lock" /\ proc'[p].cwd = proc[p].cwd /\ proc'[p].files = proc[p].files
  BY <1>1, <1>2, <1>3 DEF ProcType
<1>7. PlaceOf(proc'[p])
  BY <1>6 DEF PlaceOf, Between, One, Two
<1>8. Naming(p)'
  BY <1>6 DEF Naming
<1>9. ASSUME NEW t \in Inums
      PROVE  icache'[t].ref = icache[t].ref + RefCount(proc'[p], t) - RefCount(proc[p], t)
  <2>1. RefCount(proc'[p], t) = RefCount(proc[p], t)
    BY <1>1, <1>2, <1>6 DEF RefCount
  <2>2. RefCount(proc[p], t) \in Nat /\ icache[t].ref \in Nat
    BY <1>2, RefSetCount DEF CacheType
  <2> QED BY <1>1, <2>1, <2>2
<1>10. /\ PlaceLock(proc'[p]) = 0 /\ Freed(proc'[p]) = 0 /\ LinkTarget(proc'[p]) = 0
       /\ LostLink(proc'[p]) = 0 /\ LinkTarget(proc[p]) = 0 /\ LostLink(proc[p]) = 0
  BY <1>1, <1>6 DEF PlaceLock, Freed, LinkTarget, LostLink
<1>11. EntryOf(p)'
  BY <1>6, <1>10 DEF EntryOf
<1>12. \A q \in Procs : proc[q].pc = "created" => 0 # proc[q].ip
  BY ProcFacts DEF PlaceOf, Two
<1>13. Quiet(p)
  BY <1>1, <1>2, <1>5, <1>7, <1>8, <1>9, <1>10, <1>11, <1>12, InumIs DEF Quiet
<1> QED BY <1>13, QuietKeeps

\* The holder of a lock lets it go.
LEMMA DropQuiet ==
  ASSUME IInv, NEW p \in Procs, NEW s \in Inums, PlaceLock(proc[p]) = s, icache' = Drop(icache, s)
  PROVE  CacheQuiet(p) /\ \A t \in Inums : icache'[t].ref = icache[t].ref
<1>1. icache \in CacheType
  BY ProcFacts
<1>2. /\ icache' \in CacheType
      /\ \A t \in Inums : /\ icache'[t].ref = icache[t].ref /\ icache'[t].valid = icache[t].valid
                          /\ icache'[t].type = icache[t].type /\ icache'[t].nlink = icache[t].nlink
                          /\ t # s => icache'[t].locker = icache[t].locker
  BY <1>1, TakeIs
<1>3. Holds(p, s)
  BY InumIs DEF Holds
<1>4. \A q \in Procs \ {p} : ~Holds(q, s)
  BY <1>3, Exclusive DEF IInv
<1> QED BY <1>2, <1>4 DEF CacheQuiet

LEMMA CreateDoneStep ==
  ASSUME IInv, NEW p \in Procs, CreateDone(p)
  PROVE  IInv'
<1> DEFINE s == proc[p].ip
<1>1. /\ proc[p].put = <<>> /\ proc[p].pc = "new" /\ proc[p].pc \in One \ {"bad", "unlinked"}
      /\ Fixed /\ UNCHANGED disk /\ icache' = Drop(icache, s)
      /\ (OpenFile(p, s) \/ Finish(p, <<s>>))
  BY DEF CreateDone, At, One
<1>2. s \in Inums /\ PlaceLock(proc[p]) = s
  BY <1>1, ProcFacts DEF PlaceOf, PlaceLock
<1>3. CacheQuiet(p) /\ \A t \in Inums : icache'[t].ref = icache[t].ref
  BY <1>1, <1>2, DropQuiet
<1>4. CASE OpenFile(p, s)
  BY <1>1, <1>3, <1>4, OpenedKeeps
<1>5. CASE Finish(p, <<s>>)
  BY <1>1, <1>3, <1>5, FailKeeps
<1> QED BY <1>1, <1>4, <1>5

LEMMA LetParentGoStep ==
  ASSUME IInv, NEW p \in Procs, LetParentGo(p)
  PROVE  IInv'
<1> DEFINE d == proc[p].dp
           i == proc[p].ip
<1>1. /\ proc[p].put = <<>> /\ Fixed /\ UNCHANGED disk /\ icache' = Drop(icache, d)
      /\ \/ proc[p].pc = "notempty" /\ Fail(p, <<d>>)
         \/ proc[p].pc = "linked" /\ Goto(p, "bad", i, 0, <<d>>)
  BY DEF LetParentGo, At
<1>2. /\ proc[p] \in ProcType /\ icache \in CacheType /\ PlaceOf(proc[p]) /\ d \in Inums
      /\ PlaceLock(proc[p]) = d /\ i \in 0..NINODES
  BY <1>1, ProcFacts DEF PlaceOf, PlaceLock, Two
<1>3. CacheQuiet(p) /\ \A t \in Inums : icache'[t].ref = icache[t].ref
  BY <1>1, <1>2, DropQuiet
<1>4. <<d>> \in Seq(Inums) /\ 0 \in 0..NINODES
  BY <1>2, FsAssumption
<1>5. \A s \in Inums : /\ In(<<d>>, s) = Eq(d, s) /\ Eq(0, s) = 0 /\ Eq(d, s) \in Nat
                       /\ Eq(i, s) \in Nat /\ icache[s].ref \in Nat
  BY <1>2, InOne, InumIs DEF Eq, CacheType
<1>6. CASE proc[p].pc = "notempty" /\ Fail(p, <<d>>)
  <2>1. Goto(p, "failed", 0, 0, <<d>>)
    BY <1>6 DEF Fail
  <2>2. "failed" \in PcSet /\ Arrives(p, "failed", 0, 0)
    BY <1>4, <1>6 DEF Arrives, PcSet, Between, One, Two, LinkTarget, LostLink
  <2>3. i = 0
    BY <1>2, <1>6 DEF PlaceOf
  <2>4. \A s \in Inums : icache'[s].ref = icache[s].ref + Eq(0, s) + Eq(0, s) + In(<<d>>, s)
                           - Eq(i, s) - Eq(d, s)
    <3> HIDE DEF d, i
    <3> QED BY <1>3, <1>5, <2>3
  <2> QED BY <1>1, <1>3, <1>4, <2>1, <2>2, <2>4, GotoMove
<1>7. CASE proc[p].pc = "linked" /\ Goto(p, "bad", i, 0, <<d>>)
  <2>1. i # 0
    BY <1>2, <1>7 DEF PlaceOf, Two
  <2>2. "bad" \in PcSet /\ Arrives(p, "bad", i, 0)
    BY <1>2, <1>4, <1>7, <2>1 DEF Arrives, PcSet, Between, One, Two, LinkTarget, LostLink
  <2>3. \A s \in Inums : icache'[s].ref = icache[s].ref + Eq(i, s) + Eq(0, s) + In(<<d>>, s)
                           - Eq(i, s) - Eq(d, s)
    <3> HIDE DEF d, i
    <3> QED BY <1>3, <1>5
  <2> QED BY <1>1, <1>2, <1>3, <1>4, <1>7, <2>2, <2>3, GotoMove
<1> QED BY <1>1, <1>6, <1>7

LEMMA UnlinkStep ==
  ASSUME IInv, NEW p \in Procs, Unlink(p)
  PROVE  IInv'
<1> DEFINE d == proc[p].ip
           ic == Ilock(icache, d)
           i == Dirlookup(d, Name(p))
<1>1. /\ proc[p].put = <<>> /\ proc[p].pc = "unlink" /\ CanLock(d)
  BY DEF Unlink, Locking, At
<1>2. /\ proc[p] \in ProcType /\ icache \in CacheType /\ disk \in DiskType
      /\ PlaceOf(proc[p]) /\ Naming(p) /\ d # 0 /\ d \in Inums /\ proc[p].dp = 0
  BY <1>1, ProcFacts DEF PlaceOf, One
<1>3. CASE NoType(d)
  <2>1. Panic("ilock: no type")
    BY <1>3 DEF Unlink
  <2> QED BY <2>1, PanicKeeps
<1>4. CASE ~NoType(d)
  <2>1. Fixed /\ UNCHANGED disk
    BY <1>4 DEF Unlink
  <2>2. ic \in CacheType /\ \A t \in Inums : ic[t].ref = icache[t].ref
    BY <1>2, <1>4, ReadIs
  <2>3. CASE Name(p) \in Dots \/ i = 0
    <3>1. icache' = ic /\ Fail(p, <<d>>)
      BY <1>4, <2>3 DEF Unlink
    <3>2. CacheQuiet(p)
      BY <1>1, <1>2, <1>4, <2>2, <3>1, ReadQuiet
    <3>3. proc[p].pc \in One \ {"bad", "unlinked"}
      BY <1>1 DEF One
    <3> QED BY <1>1, <2>1, <2>2, <3>1, <3>2, <3>3, FailKeeps
  <2>4. CASE Name(p) \notin Dots /\ i # 0
    <3>1. icache' = Take(Iget(ic, i), d, p) /\ Goto(p, "unlinking", i, d, <<>>)
      BY <1>4, <2>4 DEF Unlink
    <3>2. Name(p) \in Names /\ Name(p) = Last(Call(p).path)
      BY <1>1, <1>2 DEF Naming, Name
    <3>3. i \in Inums
      BY <1>2, <2>4, <3>2, EntryIs
    <3>4. /\ icache' \in CacheType
          /\ \A t \in Inums : /\ icache'[t].ref = ic[t].ref + Eq(i, t)
                              /\ icache'[t].locker = IF t = d THEN p ELSE ic[t].locker
                              /\ icache'[t].valid = ic[t].valid
                              /\ icache'[t].type = ic[t].type
                              /\ icache'[t].nlink = ic[t].nlink
      <4> HIDE DEF ic, i, d
      <4> DEFINE ic2 == Iget(ic, i)
      <4>1. /\ ic2 \in CacheType
            /\ \A t \in Inums : /\ ic2[t].ref = ic[t].ref + Eq(i, t)
                                /\ ic2[t].locker = ic[t].locker
                                /\ ic2[t].valid = ic[t].valid
                                /\ ic2[t].type = ic[t].type
                                /\ ic2[t].nlink = ic[t].nlink
        BY <2>2, <3>3, IgetIs
      <4>2. icache' = Take(ic2, d, p)
        BY <3>1
      <4> HIDE DEF ic2
      <4> QED BY <1>2, <4>1, <4>2, TakeIs
    <3>5. CacheQuiet(p)
      BY <1>1, <1>2, <1>4, <3>4, ReadQuiet
    <3>6. ic[d].valid
      BY <1>2, <1>4, ReadIs
    <3>7. i # 0 /\ i \in 0..NINODES /\ d \in 0..NINODES /\ <<>> \in Seq(Inums)
      BY <1>2, <3>3, InumIs
    <3>8. disk[d].ent[Last(Call(p).path)] = i
      BY <3>2 DEF Dirlookup
    <3>9. "unlinking" \in PcSet /\ Arrives(p, "unlinking", i, d)
      <4> HIDE DEF i, d, ic
      <4> QED BY <1>1, <1>2, <2>4, <3>2, <3>4, <3>6, <3>7, <3>8
              DEF Arrives, PcSet, Between, One, Two, LinkTarget, LostLink
    <3>10. \A t \in Inums : icache'[t].ref = icache[t].ref + Eq(i, t) + Eq(d, t) + In(<<>>, t)
                             - Eq(proc[p].ip, t) - Eq(proc[p].dp, t)
      <4> SUFFICES ASSUME NEW t \in Inums
                   PROVE  icache'[t].ref = icache[t].ref + Eq(i, t) + Eq(d, t) + In(<<>>, t)
                             - Eq(d, t) - Eq(0, t)
        BY <1>2
      <4>1. /\ In(<<>>, t) = 0 /\ Eq(0, t) = 0 /\ Eq(d, t) \in Nat /\ Eq(i, t) \in Nat
            /\ icache[t].ref \in Nat
        BY <1>2, InEmpty, InumIs DEF Eq, CacheType
      <4> HIDE DEF i, d, ic
      <4> QED BY <2>2, <3>4, <4>1
    <3> HIDE DEF i, d
    <3> QED BY <1>1, <2>1, <3>1, <3>5, <3>7, <3>9, <3>10, GotoMove
  <2> QED BY <2>3, <2>4
<1> QED BY <1>3, <1>4

-----------------------------------------------------------------------------
(* Counting links.                                                         *)

LEMMA Grown ==
  ASSUME NEW S, IsFiniteSet(S), NEW x, NEW T \in SUBSET (S \cup {x})
  PROVE  Cardinality(T) <= Cardinality(S) + 1 /\ Cardinality(S) \in Nat /\ Cardinality(T) \in Nat
<1>1. IsFiniteSet(S \cup {x}) /\ Cardinality(S \cup {x}) <= Cardinality(S) + 1
      /\ Cardinality(S) \in Nat
  BY FS_AddElement, FS_CardinalityType
<1>2. IsFiniteSet(T) /\ Cardinality(T) <= Cardinality(S \cup {x})
  BY <1>1, FS_Subset
<1>3. Cardinality(T) \in Nat /\ Cardinality(S \cup {x}) \in Nat
  BY <1>1, <1>2, FS_CardinalityType
<1> QED BY <1>1, <1>2, <1>3

LEMMA Shrunk ==
  ASSUME NEW S, IsFiniteSet(S), NEW x \in S, NEW T \in SUBSET (S \ {x})
  PROVE  Cardinality(T) + 1 <= Cardinality(S) /\ Cardinality(S) \in Nat /\ Cardinality(T) \in Nat
<1>1. IsFiniteSet(S \ {x}) /\ Cardinality(S \ {x}) = Cardinality(S) - 1 /\ Cardinality(S) \in Nat
  BY FS_RemoveElement, FS_CardinalityType
<1>2. IsFiniteSet(T) /\ Cardinality(T) <= Cardinality(S \ {x})
  BY <1>1, FS_Subset
<1>3. Cardinality(T) \in Nat
  BY <1>2, FS_CardinalityType
<1> QED BY <1>1, <1>2, <1>3

LEMMA OneMember ==
  ASSUME NEW S, NEW T, IsFiniteSet(S), IsFiniteSet(T), NEW p, S \ {p} = T \ {p}
  PROVE  Cardinality(S) + (IF p \in T THEN 1 ELSE 0) = Cardinality(T) + (IF p \in S THEN 1 ELSE 0)
<1>1. /\ Cardinality(S \ {p}) = IF p \in S THEN Cardinality(S) - 1 ELSE Cardinality(S)
      /\ Cardinality(T \ {p}) = IF p \in T THEN Cardinality(T) - 1 ELSE Cardinality(T)
      /\ Cardinality(S) \in Nat /\ Cardinality(T) \in Nat
  BY FS_RemoveElement, FS_CardinalityType
<1> QED BY <1>1

LEMMA CountedIs ==
  ASSUME NEW d \in DiskType, NEW t \in Inums
  PROVE  /\ IsFiniteSet(NamesOf(d, t)) /\ IsFiniteSet(Subs(d, t))
         /\ Cardinality(NamesOf(d, t)) \in Nat /\ Cardinality(Subs(d, t)) \in Nat
         /\ Counted(d, t) \in Nat /\ d[t].nlink \in Nat
BY LinkSets DEF Counted, DiskType, InodeType

\* Fewer names, fewer links.
LEMMA CountedLess ==
  ASSUME NEW d \in DiskType, NEW e \in DiskType, NEW t \in Inums,
         NamesOf(e, t) \subseteq NamesOf(d, t), Subs(e, t) \subseteq Subs(d, t)
  PROVE  Counted(e, t) <= Counted(d, t)
<1>1. Cardinality(NamesOf(e, t)) <= Cardinality(NamesOf(d, t))
      /\ Cardinality(Subs(e, t)) <= Cardinality(Subs(d, t))
  BY CountedIs, FS_Subset
<1>2. /\ Cardinality(NamesOf(d, t)) \in Nat /\ Cardinality(Subs(d, t)) \in Nat
      /\ Cardinality(NamesOf(e, t)) \in Nat /\ Cardinality(Subs(e, t)) \in Nat
  BY CountedIs
<1> QED BY <1>1, <1>2 DEF Counted

\* A new name for s in x is a link of s, and of x if s is a directory.
LEMMA EntryMade ==
  ASSUME NEW d \in DiskType, NEW e \in DiskType, NEW x \in Inums, NEW n \in Names, NEW s \in Inums,
         \A y \in Inums, m \in Names \ Dots :
           e[y].ent[m] = IF y = x /\ m = n THEN s ELSE d[y].ent[m],
         \A y \in Inums : e[y].type = d[y].type, NEW t \in Inums
  PROVE  Counted(e, t) <= Counted(d, t) + Eq(s, t) + (IF d[s].type = "dir" THEN Eq(x, t) ELSE 0)
<1>1. /\ IsFiniteSet(NamesOf(d, t)) /\ IsFiniteSet(Subs(d, t))
      /\ Cardinality(NamesOf(d, t)) \in Nat /\ Cardinality(Subs(d, t)) \in Nat
      /\ Cardinality(NamesOf(e, t)) \in Nat /\ Cardinality(Subs(e, t)) \in Nat
  BY CountedIs
<1>2. Cardinality(NamesOf(e, t)) <= Cardinality(NamesOf(d, t)) + Eq(s, t)
  <2>1. CASE s = t
    <3>1. NamesOf(e, t) \in SUBSET (NamesOf(d, t) \cup {<<x, n>>})
      <4> SUFFICES ASSUME NEW z \in NamesOf(e, t), z # <<x, n>> PROVE z \in NamesOf(d, t)
        OBVIOUS
      <4>1. z \in Inums \X (Names \ Dots) /\ e[z[1]].ent[z[2]] = t /\ z = <<z[1], z[2]>>
        BY DEF NamesOf
      <4>2. d[z[1]].ent[z[2]] = t
        BY <4>1
      <4> QED BY <4>1, <4>2 DEF NamesOf
    <3>2. Cardinality(NamesOf(e, t)) <= Cardinality(NamesOf(d, t)) + 1
      BY <1>1, <3>1, Grown
    <3> QED BY <2>1, <3>2 DEF Eq
  <2>2. CASE s # t
    <3>1. NamesOf(e, t) \subseteq NamesOf(d, t)
      <4> SUFFICES ASSUME NEW z \in NamesOf(e, t) PROVE z \in NamesOf(d, t)
        OBVIOUS
      <4>1. z \in Inums \X (Names \ Dots) /\ e[z[1]].ent[z[2]] = t
        BY DEF NamesOf
      <4>2. d[z[1]].ent[z[2]] = t
        BY <2>2, <4>1
      <4> QED BY <4>1, <4>2 DEF NamesOf
    <3>2. Cardinality(NamesOf(e, t)) <= Cardinality(NamesOf(d, t))
      BY <1>1, <3>1, FS_Subset
    <3> QED BY <1>1, <2>2, <3>2 DEF Eq
  <2> QED BY <2>1, <2>2
<1>3. Cardinality(Subs(e, t)) <= Cardinality(Subs(d, t)) + (IF d[s].type = "dir" THEN Eq(x, t) ELSE 0)
  <2>1. CASE d[s].type = "dir" /\ x = t
    <3>1. Subs(e, t) \in SUBSET (Subs(d, t) \cup {n})
      <4> SUFFICES ASSUME NEW m \in Subs(e, t), m # n PROVE m \in Subs(d, t)
        OBVIOUS
      <4>1. m \in Names \ Dots /\ e[t].ent[m] # 0 /\ e[e[t].ent[m]].type = "dir"
        BY DEF Subs
      <4>2. e[t].ent[m] = d[t].ent[m] /\ e[t].ent[m] \in Inums
        BY <4>1, InumIs DEF DiskType, InodeType
      <4> QED BY <4>1, <4>2 DEF Subs
    <3>2. Cardinality(Subs(e, t)) <= Cardinality(Subs(d, t)) + 1
      BY <1>1, <3>1, Grown
    <3> QED BY <2>1, <3>2 DEF Eq
  <2>2. CASE ~(d[s].type = "dir" /\ x = t)
    <3>1. Subs(e, t) \subseteq Subs(d, t)
      <4> SUFFICES ASSUME NEW m \in Subs(e, t) PROVE m \in Subs(d, t)
        OBVIOUS
      <4>1. m \in Names \ Dots /\ e[t].ent[m] # 0 /\ e[e[t].ent[m]].type = "dir"
        BY DEF Subs
      <4>2. e[t].ent[m] \in Inums
        BY <4>1, InumIs DEF DiskType, InodeType
      <4>3. e[t].ent[m] = d[t].ent[m]
        BY <2>2, <4>1, <4>2
      <4> QED BY <4>1, <4>2, <4>3 DEF Subs
    <3>2. Cardinality(Subs(e, t)) <= Cardinality(Subs(d, t))
      BY <1>1, <3>1, FS_Subset
    <3>3. (IF d[s].type = "dir" THEN Eq(x, t) ELSE 0) = 0
      BY <2>2 DEF Eq
    <3> QED BY <1>1, <3>2, <3>3
  <2> QED BY <2>1, <2>2
<1> DEFINE more == IF d[s].type = "dir" THEN Eq(x, t) ELSE 0
<1>4. more \in Nat /\ Eq(s, t) \in Nat
  BY DEF Eq
<1>5. /\ Counted(d, t) = Cardinality(NamesOf(d, t)) + Cardinality(Subs(d, t)) + Eq(t, Root)
      /\ Counted(e, t) = Cardinality(NamesOf(e, t)) + Cardinality(Subs(e, t)) + Eq(t, Root)
      /\ Eq(t, Root) \in Nat
  BY DEF Counted, Eq
<1>6. Cardinality(Subs(e, t)) <= Cardinality(Subs(d, t)) + more
  BY <1>3
<1> HIDE DEF more
<1>7. Counted(e, t) <= Counted(d, t) + Eq(s, t) + more
  BY <1>1, <1>2, <1>4, <1>5, <1>6
<1> QED BY <1>7 DEF more

\* A name for s that goes from x takes as much with it.
LEMMA EntryGone ==
  ASSUME NEW d \in DiskType, NEW e \in DiskType, NEW x \in Inums, NEW n \in Names \ Dots,
         NEW s \in Inums, d[x].ent[n] = s,
         \A y \in Inums, m \in Names \ Dots :
           e[y].ent[m] = IF y = x /\ m = n THEN 0 ELSE d[y].ent[m],
         \A y \in Inums : e[y].type = d[y].type, NEW t \in Inums
  PROVE  Counted(e, t) + Eq(s, t) + (IF d[s].type = "dir" THEN Eq(x, t) ELSE 0) <= Counted(d, t)
<1>1. /\ IsFiniteSet(NamesOf(d, t)) /\ IsFiniteSet(Subs(d, t))
      /\ Cardinality(NamesOf(d, t)) \in Nat /\ Cardinality(Subs(d, t)) \in Nat
      /\ Cardinality(NamesOf(e, t)) \in Nat /\ Cardinality(Subs(e, t)) \in Nat
  BY CountedIs
<1>2. Cardinality(NamesOf(e, t)) + Eq(s, t) <= Cardinality(NamesOf(d, t))
  <2>1. ASSUME NEW z \in NamesOf(e, t) PROVE z \in NamesOf(d, t) /\ z # <<x, n>>
    <3>1. z \in Inums \X (Names \ Dots) /\ e[z[1]].ent[z[2]] = t
      BY DEF NamesOf
    <3>3. ~(z[1] = x /\ z[2] = n)
      BY <3>1, InumIs
    <3>4. d[z[1]].ent[z[2]] = t
      BY <3>1, <3>3
    <3>2. d[z[1]].ent[z[2]] = t /\ z # <<x, n>>
      BY <3>3, <3>4
    <3> QED BY <3>1, <3>2 DEF NamesOf
  <2>2. CASE s = t
    <3>1. <<x, n>> \in NamesOf(d, t)
      BY <2>2 DEF NamesOf
    <3>2. NamesOf(e, t) \in SUBSET (NamesOf(d, t) \ {<<x, n>>})
      BY <2>1
    <3>3. Cardinality(NamesOf(e, t)) + 1 <= Cardinality(NamesOf(d, t))
      BY <1>1, <3>1, <3>2, Shrunk
    <3> QED BY <2>2, <3>3 DEF Eq
  <2>3. CASE s # t
    <3>1. NamesOf(e, t) \subseteq NamesOf(d, t)
      BY <2>1
    <3>2. Cardinality(NamesOf(e, t)) <= Cardinality(NamesOf(d, t))
      BY <1>1, <3>1, FS_Subset
    <3> QED BY <1>1, <2>3, <3>2 DEF Eq
  <2> QED BY <2>2, <2>3
<1>3. Cardinality(Subs(e, t)) + (IF d[s].type = "dir" THEN Eq(x, t) ELSE 0) <= Cardinality(Subs(d, t))
  <2>1. ASSUME NEW m \in Subs(e, t) PROVE m \in Subs(d, t) /\ ~(x = t /\ m = n)
    <3>1. m \in Names \ Dots /\ e[t].ent[m] # 0 /\ e[e[t].ent[m]].type = "dir"
      BY DEF Subs
    <3>2. e[t].ent[m] \in Inums
      BY <3>1, InumIs DEF DiskType, InodeType
    <3>3. e[t].ent[m] = d[t].ent[m] /\ ~(x = t /\ m = n)
      BY <3>1
    <3> QED BY <3>1, <3>2, <3>3 DEF Subs
  <2>2. CASE d[s].type = "dir" /\ x = t
    <3>1. n \in Subs(d, t)
      BY <2>2, InumIs DEF Subs
    <3>2. Subs(e, t) \in SUBSET (Subs(d, t) \ {n})
      BY <2>1, <2>2
    <3>3. Cardinality(Subs(e, t)) + 1 <= Cardinality(Subs(d, t))
      BY <1>1, <3>1, <3>2, Shrunk
    <3> QED BY <2>2, <3>3 DEF Eq
  <2>3. CASE ~(d[s].type = "dir" /\ x = t)
    <3>1. Subs(e, t) \subseteq Subs(d, t)
      BY <2>1
    <3>2. Cardinality(Subs(e, t)) <= Cardinality(Subs(d, t))
      BY <1>1, <3>1, FS_Subset
    <3>3. (IF d[s].type = "dir" THEN Eq(x, t) ELSE 0) = 0
      BY <2>3 DEF Eq
    <3> QED BY <1>1, <3>2, <3>3
  <2> QED BY <2>2, <2>3
<1> DEFINE less == IF d[s].type = "dir" THEN Eq(x, t) ELSE 0
<1>4. less \in Nat /\ Eq(s, t) \in Nat
  BY DEF Eq
<1>5. /\ Counted(d, t) = Cardinality(NamesOf(d, t)) + Cardinality(Subs(d, t)) + Eq(t, Root)
      /\ Counted(e, t) = Cardinality(NamesOf(e, t)) + Cardinality(Subs(e, t)) + Eq(t, Root)
      /\ Eq(t, Root) \in Nat
  BY DEF Counted, Eq
<1>6. Cardinality(Subs(e, t)) + less <= Cardinality(Subs(d, t))
  BY <1>3
<1> HIDE DEF less
<1>7. Counted(e, t) + Eq(s, t) + less <= Counted(d, t)
  BY <1>1, <1>2, <1>4, <1>5, <1>6
<1> QED BY <1>7 DEF less

\* The links that p makes or loses.
LEMMA LinksChange ==
  ASSUME Typed, Links, NEW p \in Procs, Apart(p), disk' \in DiskType, FreeIsFree(disk'),
         \A t \in Inums :
           disk[t].nlink + Counted(disk', t) + Eq(LinkTarget(proc'[p]), t) + Eq(LostLink(proc'[p]), t)
             <= disk'[t].nlink + Counted(disk, t) + Eq(LinkTarget(proc[p]), t) + Eq(LostLink(proc[p]), t)
  PROVE  Links'
<1> DEFINE linking(t) == {q \in Procs : LinkTarget(proc'[q]) = t}
           losing(t) == {q \in Procs : LostLink(proc'[q]) = t}
<1> SUFFICES ASSUME NEW t \in Inums
             PROVE  disk'[t].nlink >= Counted(disk', t) + Cardinality(linking(t)) + Cardinality(losing(t))
  BY DEF Links, FreeIsFree, Counted, NamesOf, Subs, Linking, Losing
<1>1. disk \in DiskType
  BY DEF Typed
<1>2. /\ IsFiniteSet(Linking(t)) /\ IsFiniteSet(Losing(t))
      /\ Cardinality(Linking(t)) \in Nat /\ Cardinality(Losing(t)) \in Nat
  BY <1>1, LinkSets
<1>3. linking(t) \in SUBSET Procs /\ losing(t) \in SUBSET Procs
  OBVIOUS
<1>4. /\ IsFiniteSet(linking(t)) /\ IsFiniteSet(losing(t))
      /\ Cardinality(linking(t)) \in Nat /\ Cardinality(losing(t)) \in Nat
  <2>1. IsFiniteSet(Procs)
    BY FsAssumption
  <2> HIDE DEF linking, losing
  <2> QED BY <1>3, <2>1, FS_Subset, FS_CardinalityType
<1>5. /\ Linking(t) \ {p} = linking(t) \ {p} /\ Losing(t) \ {p} = losing(t) \ {p}
  BY DEF Linking, Losing, Apart
<1>6. /\ (IF p \in linking(t) THEN 1 ELSE 0) = Eq(LinkTarget(proc'[p]), t)
      /\ (IF p \in losing(t) THEN 1 ELSE 0) = Eq(LostLink(proc'[p]), t)
      /\ (IF p \in Linking(t) THEN 1 ELSE 0) = Eq(LinkTarget(proc[p]), t)
      /\ (IF p \in Losing(t) THEN 1 ELSE 0) = Eq(LostLink(proc[p]), t)
  BY DEF Linking, Losing, Eq
<1> HIDE DEF linking, losing
<1>7. /\ Cardinality(Linking(t)) + Eq(LinkTarget(proc'[p]), t)
           = Cardinality(linking(t)) + Eq(LinkTarget(proc[p]), t)
      /\ Cardinality(Losing(t)) + Eq(LostLink(proc'[p]), t)
           = Cardinality(losing(t)) + Eq(LostLink(proc[p]), t)
  BY <1>2, <1>4, <1>5, <1>6, OneMember
<1>8. disk[t].nlink >= Counted(disk, t) + Cardinality(Linking(t)) + Cardinality(Losing(t))
  BY DEF Links
<1>9. /\ Counted(disk, t) \in Nat /\ disk[t].nlink \in Nat
      /\ Counted(disk', t) \in Nat /\ disk'[t].nlink \in Nat
  BY <1>1, CountedIs
<1>10. /\ Eq(LinkTarget(proc'[p]), t) \in Nat /\ Eq(LostLink(proc'[p]), t) \in Nat
       /\ Eq(LinkTarget(proc[p]), t) \in Nat /\ Eq(LostLink(proc[p]), t) \in Nat
  BY DEF Eq
<1> QED BY <1>2, <1>4, <1>7, <1>8, <1>9, <1>10

\* A step that changes the disk.
LEMMA ChangeKeeps ==
  ASSUME IInv, NEW p \in Procs, Apart(p), LocksLeft(p), proc' \in [Procs -> ProcType],
         disk' \in DiskType, icache' \in CacheType, Fixed,
         PlaceOf(proc'[p]), Naming(p)', EntryOf(p)',
         \A s \in Inums :
           icache'[s].ref = icache[s].ref + RefCount(proc'[p], s) - RefCount(proc[p], s),
         \A s \in Inums : PlaceLock(proc'[p]) = s \/ Freed(proc'[p]) = s =>
           icache'[s].locker = p /\ icache'[s].valid,
         Coherent',
         \A s \in Inums : disk[s].type # "free" /\ s # Freed(proc[p]) => disk'[s].type = disk[s].type,
         \A q \in Procs \ {p} : proc[q].pc = "created" => Freed(proc'[p]) # proc[q].ip,
         FreeIsFree(disk'),
         \A t \in Inums :
           disk[t].nlink + Counted(disk', t) + Eq(LinkTarget(proc'[p]), t) + Eq(LostLink(proc'[p]), t)
             <= disk'[t].nlink + Counted(disk, t) + Eq(LinkTarget(proc[p]), t) + Eq(LostLink(proc[p]), t)
  PROVE  IInv'
<1>1. Typed'
  BY DEF IInv, Typed, Fixed
<1>2. Places'
  BY PlacesKept DEF IInv
<1>3. RefsExact'
  BY RefsChange DEF IInv, Typed, Apart
<1>4. Holding'
  <2>1. \A s \in Inums : Holds(p, s)' => icache'[s].locker = p /\ icache'[s].valid
    BY DEF Holds
  <2> QED BY <2>1, HoldingKept DEF IInv
<1>5. Entries'
  BY EntriesKept DEF IInv
<1>6. Links'
  BY LinksChange DEF IInv
<1>7. Durable'
  BY DEF IInv, Durable, Fixed, Counted, NamesOf, Subs, FreeIsFree
<1> QED BY <1>1, <1>2, <1>3, <1>4, <1>5, <1>6, <1>7 DEF IInv

LEMMA IputFreeStep ==
  ASSUME IInv, NEW p \in Procs, IputFree(p)
  PROVE  IInv'
<1> DEFINE s == Head(proc[p].put)
<1>1. /\ proc \in [Procs -> ProcType] /\ icache \in CacheType /\ disk \in DiskType
      /\ proc[p] \in ProcType /\ proc[p].put \in Seq(Inums)
  BY ProcFacts
<1>2. /\ proc[p].put # <<>> /\ proc[p].stage = "free" /\ Stage(p, "drop") /\ Fixed
      /\ disk' = [disk EXCEPT ![s] = Free]
      /\ icache' = [Drop(icache, s) EXCEPT ![s] = [Drop(icache, s)[s] EXCEPT !.valid = FALSE, !.type = "free"]]
  BY DEF IputFree, Putting
<1>3. s \in Inums /\ s # 0
  BY <1>1, <1>2, HeadTailProperties, InumIs
<1>4. Freed(proc[p]) = s
  BY <1>2 DEF Freed
<1>5. /\ proc' \in [Procs -> ProcType] /\ Apart(p)
      /\ proc'[p].pc = proc[p].pc /\ proc'[p].ip = proc[p].ip /\ proc'[p].dp = proc[p].dp
      /\ proc'[p].put = proc[p].put /\ proc'[p].call = proc[p].call
      /\ proc'[p].rest = proc[p].rest /\ proc'[p].stage = "drop" /\ proc'[p].cwd = proc[p].cwd
      /\ proc'[p].files = proc[p].files
  BY <1>1, <1>2, StageIs
<1> HIDE DEF s
<1>6. /\ EntryOf(p) /\ disk[s].nlink = 0 /\ PlaceLock(proc[p]) # s /\ PlaceOf(proc[p]) /\ Naming(p)
  BY <1>3, <1>4, ProcFacts DEF IInv, Entries, EntryOf
<1>7. \A q \in Procs \ {p} : ~Holds(q, s)
  <2>1. Holds(p, s)
    BY <1>3, <1>4 DEF Holds
  <2> QED BY <1>3, <2>1, Exclusive DEF IInv
<1>8. /\ icache' \in CacheType /\ ~icache'[s].valid
      /\ \A t \in Inums \ {s} : icache'[t] = icache[t]
      /\ \A t \in Inums : icache'[t].ref = icache[t].ref
  BY <1>1, <1>2, <1>3 DEF Drop, CacheType
<1>9. Free \in InodeType
  BY FsAssumption DEF Free, InodeType, NoEntries
<1>10. /\ disk' \in DiskType /\ disk'[s] = Free
       /\ \A t \in Inums \ {s} : disk'[t] = disk[t]
  BY <1>1, <1>2, <1>3, <1>9 DEF DiskType
<1>11. LocksLeft(p)
  BY <1>7, <1>8, <1>10 DEF LocksLeft
<1>12. Freed(proc'[p]) = 0 /\ PlaceLock(proc'[p]) = PlaceLock(proc[p])
       /\ LinkTarget(proc'[p]) = LinkTarget(proc[p]) /\ LostLink(proc'[p]) = LostLink(proc[p])
  BY <1>5 DEF Freed, PlaceLock, LinkTarget, LostLink
<1>13. PlaceOf(proc'[p])
  BY <1>2, <1>5, <1>6 DEF PlaceOf
<1>14. Name(p)' = Name(p) /\ Naming(p)'
  BY <1>5, <1>6 DEF Naming, Name, Call
<1>15. EntryOf(p)'
  <2>1. proc[p].pc \in {"created", "unlinking"} => proc[p].dp # s /\ proc[p].dp \in Inums
    BY <1>6, ProcFacts DEF PlaceOf, PlaceLock, Two
  <2>2. proc[p].pc = "created" =>
          /\ proc[p].ip # s /\ proc[p].ip \in Inums
          /\ \A q \in Procs : Freed(proc'[q]) # proc[p].ip
    <3> SUFFICES ASSUME proc[p].pc = "created"
                 PROVE  /\ proc[p].ip # s /\ proc[p].ip \in Inums
                        /\ \A q \in Procs : Freed(proc'[q]) # proc[p].ip
      OBVIOUS
    <3>1. proc[p].ip # 0 /\ proc[p].ip \in Inums
      BY ProcFacts DEF PlaceOf, Two
    <3> QED BY <1>4, <1>5, <1>6, <1>12, <3>1 DEF EntryOf, Apart
  <2>3. LinkTarget(proc[p]) # 0 => LinkTarget(proc[p]) # s /\ LinkTarget(proc[p]) \in Inums
    <3> SUFFICES ASSUME LinkTarget(proc[p]) # 0
                 PROVE  LinkTarget(proc[p]) # s /\ LinkTarget(proc[p]) \in Inums
      OBVIOUS
    <3>1. LinkTarget(proc[p]) \in Inums
      BY ProcFacts DEF LinkTarget
    <3>2. disk[LinkTarget(proc[p])].nlink >= 1
      BY <3>1, Linked DEF IInv
    <3> QED BY <1>6, <3>1, <3>2
  <2> QED BY <1>5, <1>6, <1>10, <1>12, <1>14, <2>1, <2>2, <2>3 DEF EntryOf
<1>16. ASSUME NEW t \in Inums
       PROVE  icache'[t].ref = icache[t].ref + RefCount(proc'[p], t) - RefCount(proc[p], t)
  <2>1. RefCount(proc'[p], t) = RefCount(proc[p], t)
    BY <1>5 DEF RefCount
  <2>2. RefCount(proc[p], t) \in Nat /\ icache[t].ref \in Nat
    BY <1>1, RefSetCount DEF CacheType
  <2> QED BY <1>8, <2>1, <2>2
<1>17. \A t \in Inums : PlaceLock(proc'[p]) = t \/ Freed(proc'[p]) = t =>
         icache'[t].locker = p /\ icache'[t].valid
  BY <1>6, <1>8, <1>12, InumIs DEF IInv, Holding, Holds
<1>18. Coherent'
  BY <1>8, <1>10 DEF IInv, Coherent
<1>19. \A t \in Inums : disk[t].type # "free" /\ t # Freed(proc[p]) => disk'[t].type = disk[t].type
  BY <1>4, <1>10
<1>20. \A q \in Procs : proc[q].pc = "created" => 0 # proc[q].ip
  BY ProcFacts DEF PlaceOf, Two
<1>21. FreeIsFree(disk')
  BY <1>10 DEF IInv, Links, FreeIsFree
<1>22. ASSUME NEW t \in Inums
       PROVE  Counted(disk', t) <= Counted(disk, t)
  <2> DEFINE e == disk'
  <2>1. NamesOf(e, t) \subseteq NamesOf(disk, t)
    <3> SUFFICES ASSUME NEW z \in NamesOf(e, t) PROVE z \in NamesOf(disk, t)
      OBVIOUS
    <3>1. z \in Inums \X (Names \ Dots) /\ e[z[1]].ent[z[2]] = t
      BY DEF NamesOf
    <3>2. z[1] # s
      BY <1>10, <3>1, InumIs DEF Free, NoEntries
    <3>3. disk[z[1]].ent[z[2]] = t
      BY <1>10, <3>1, <3>2
    <3> QED BY <3>1, <3>3 DEF NamesOf
  <2>2. Subs(e, t) \subseteq Subs(disk, t)
    <3> SUFFICES ASSUME NEW m \in Subs(e, t) PROVE m \in Subs(disk, t)
      OBVIOUS
    <3>1. m \in Names \ Dots /\ e[t].ent[m] # 0 /\ e[e[t].ent[m]].type = "dir"
      BY DEF Subs
    <3>2. t # s
      BY <1>10, <3>1 DEF Free, NoEntries
    <3>3. e[t].ent[m] \in Inums
      BY <1>10, <3>1, InumIs DEF DiskType, InodeType
    <3>4. e[t].ent[m] # s
      BY <1>10, <3>1 DEF Free
    <3> QED BY <1>10, <3>1, <3>2, <3>3, <3>4 DEF Subs
  <2>3. disk \in DiskType /\ e \in DiskType
    BY <1>1, <1>10
  <2> HIDE DEF e
  <2>4. Counted(e, t) <= Counted(disk, t)
    BY <2>1, <2>2, <2>3, CountedLess
  <2> QED BY <2>4 DEF e
<1>23. ASSUME NEW t \in Inums
       PROVE  disk[t].nlink + Counted(disk', t) + Eq(LinkTarget(proc'[p]), t) + Eq(LostLink(proc'[p]), t)
             <= disk'[t].nlink + Counted(disk, t) + Eq(LinkTarget(proc[p]), t) + Eq(LostLink(proc[p]), t)
  <2>1. disk'[t].nlink = disk[t].nlink
    BY <1>6, <1>10 DEF Free
  <2>2. disk[t].nlink \in Nat /\ Counted(disk', t) \in Nat /\ Counted(disk, t) \in Nat
    BY <1>1, <1>10, CountedIs
  <2>3. Eq(LinkTarget(proc[p]), t) \in Nat /\ Eq(LostLink(proc[p]), t) \in Nat
    BY DEF Eq
  <2>4. /\ Eq(LinkTarget(proc'[p]), t) = Eq(LinkTarget(proc[p]), t)
        /\ Eq(LostLink(proc'[p]), t) = Eq(LostLink(proc[p]), t)
    BY <1>12
  <2> QED BY <1>22, <2>1, <2>2, <2>3, <2>4
<1> QED BY <1>2, <1>5, <1>8, <1>10, <1>11, <1>12, <1>13, <1>14, <1>15, <1>16, <1>17, <1>18, <1>19,
           <1>20, <1>21, <1>23, ChangeKeeps

\* Every set of inodes has a first one.
LEMMA FirstIs ==
  ASSUME NEW S \in SUBSET Inums, S # {}
  PROVE  Min(S) \in S
<1>1. \E x \in S : \A y \in S : x <= y
  <2> DEFINE R == OpToRel(<, Nat)
  <2>1. IsWellFoundedOn(R, Nat)
    BY NatLessThanWellFounded
  <2>2. S \subseteq Nat
    BY DEF Inums
  <2>3. PICK s \in S : \A t \in S : ~(<<t, s>> \in R)
    <3> HIDE DEF R
    <3> QED BY <2>1, <2>2, WFMin
  <2>4. \A t \in S : s <= t
    <3> SUFFICES ASSUME NEW t \in S PROVE s <= t
      OBVIOUS
    <3>1. ~(t < s)
      BY <2>2, <2>3 DEF OpToRel
    <3> QED BY <2>2, <3>1
  <2> QED BY <2>4
<1> QED BY <1>1 DEF Min

\* create() finds the name there.
LEMMA CreateFound ==
  ASSUME IInv, NEW p \in Procs, proc[p].put = <<>>, proc[p].pc \in {"create", "mkdir"},
         NEW i \in Inums, CanLock(proc[p].ip), ~NoType(proc[p].ip),
         icache' = Iget(Ilock(icache, proc[p].ip), i),
         Goto(p, "exists", i, 0, <<proc[p].ip>>), Fixed, UNCHANGED disk
  PROVE  IInv'
<1> DEFINE d == proc[p].ip
           ic == Ilock(icache, d)
<1>1. /\ proc[p] \in ProcType /\ icache \in CacheType /\ disk \in DiskType
      /\ PlaceOf(proc[p]) /\ d # 0 /\ d \in Inums /\ proc[p].dp = 0
  BY ProcFacts DEF PlaceOf, One
<1>2. ic \in CacheType /\ \A t \in Inums : ic[t].ref = icache[t].ref
  BY <1>1, ReadIs
<1>3. /\ icache' \in CacheType
      /\ \A t \in Inums : /\ icache'[t].ref = ic[t].ref + Eq(i, t)
                          /\ icache'[t].locker = ic[t].locker
                          /\ icache'[t].valid = ic[t].valid
                          /\ icache'[t].type = ic[t].type
                          /\ icache'[t].nlink = ic[t].nlink
  <2>1. icache' = Iget(ic, i)
    OBVIOUS
  <2> HIDE DEF ic
  <2> QED BY <1>2, <2>1, IgetIs
<1>4. CacheQuiet(p)
  BY <1>1, <1>3, ReadQuiet
<1>5. <<d>> \in Seq(Inums) /\ i \in 0..NINODES /\ i # 0 /\ 0 \in 0..NINODES
  BY <1>1, InumIs, FsAssumption
<1>6. "exists" \in PcSet /\ Arrives(p, "exists", i, 0)
  BY <1>5 DEF Arrives, PcSet, Between, One, Two, LinkTarget, LostLink
<1>7. \A t \in Inums : icache'[t].ref = icache[t].ref + Eq(i, t) + Eq(0, t) + In(<<d>>, t)
                         - Eq(proc[p].ip, t) - Eq(proc[p].dp, t)
  <2> SUFFICES ASSUME NEW t \in Inums
               PROVE  icache'[t].ref = icache[t].ref + Eq(i, t) + Eq(0, t) + In(<<d>>, t)
                         - Eq(d, t) - Eq(0, t)
    BY <1>1
  <2>1. /\ In(<<d>>, t) = Eq(d, t) /\ Eq(0, t) = 0 /\ Eq(d, t) \in Nat /\ Eq(i, t) \in Nat
        /\ icache[t].ref \in Nat
    BY <1>1, InOne, InumIs DEF Eq, CacheType
  <2> HIDE DEF d, ic
  <2> QED BY <1>2, <1>3, <2>1
<1> QED BY <1>4, <1>5, <1>6, <1>7, GotoMove

\* create() marks a free inode and keeps the directory locked.
LEMMA CreateMade ==
  ASSUME IInv, NEW p \in Procs, proc[p].put = <<>>, proc[p].pc \in {"create", "mkdir"},
         NEW j \in Inums, disk[j].type = "free", NEW x \in {"dir", "file"},
         CanLock(proc[p].ip), ~NoType(proc[p].ip), Dirlookup(proc[p].ip, Name(p)) = 0,
         disk' = [disk EXCEPT ![j] = [disk[j] EXCEPT !.type = x]],
         icache' = Take(Iget(Ilock(icache, proc[p].ip), j), proc[p].ip, p),
         Goto(p, "created", j, proc[p].ip, <<>>), Fixed
  PROVE  IInv'
<1> DEFINE d == proc[p].ip
           ic == Ilock(icache, d)
<1>1. /\ proc \in [Procs -> ProcType] /\ proc[p] \in ProcType /\ icache \in CacheType
      /\ disk \in DiskType /\ PlaceOf(proc[p]) /\ d # 0 /\ d \in Inums /\ proc[p].dp = 0
      /\ Naming(p) /\ proc[p].stage = "lock"
  BY ProcFacts DEF PlaceOf, One
<1>2. /\ ic \in CacheType
      /\ \A t \in Inums : ic[t].ref = icache[t].ref /\ ic[t].locker = icache[t].locker
      /\ \A t \in Inums \ {d} : ic[t] = icache[t]
      /\ ic[d].valid /\ ic[d].type = disk[d].type /\ ic[d].nlink = disk[d].nlink
      /\ disk[d].type # "free"
  BY <1>1, ReadIs
<1>3. j # d
  BY <1>2
<1>4. /\ icache' \in CacheType
      /\ \A t \in Inums : /\ icache'[t].ref = ic[t].ref + Eq(j, t)
                          /\ icache'[t].locker = IF t = d THEN p ELSE ic[t].locker
                          /\ icache'[t].valid = ic[t].valid
                          /\ icache'[t].type = ic[t].type
                          /\ icache'[t].nlink = ic[t].nlink
  <2> DEFINE ic2 == Iget(ic, j)
  <2>1. icache' = Take(ic2, d, p)
    OBVIOUS
  <2> HIDE DEF ic, d
  <2>2. /\ ic2 \in CacheType
        /\ \A t \in Inums : /\ ic2[t].ref = ic[t].ref + Eq(j, t)
                            /\ ic2[t].locker = ic[t].locker
                            /\ ic2[t].valid = ic[t].valid
                            /\ ic2[t].type = ic[t].type
                            /\ ic2[t].nlink = ic[t].nlink
    BY <1>2, IgetIs
  <2> HIDE DEF ic2
  <2>3. d \in Inums
    BY <1>1
  <2>4. /\ Take(ic2, d, p) \in CacheType
        /\ \A t \in Inums : /\ Take(ic2, d, p)[t].ref = ic2[t].ref
                            /\ Take(ic2, d, p)[t].valid = ic2[t].valid
                            /\ Take(ic2, d, p)[t].type = ic2[t].type
                            /\ Take(ic2, d, p)[t].nlink = ic2[t].nlink
                            /\ Take(ic2, d, p)[t].locker = IF t = d THEN p ELSE ic2[t].locker
    BY <2>2, <2>3, TakeIs
  <2> QED BY <2>1, <2>2, <2>4
<1>5. "created" \in PcSet /\ j \in 0..NINODES /\ d \in 0..NINODES /\ <<>> \in Seq(Inums) /\ j # 0
  BY <1>1, InumIs DEF PcSet, Two
<1>6. /\ proc' \in [Procs -> ProcType] /\ Apart(p)
      /\ proc'[p].pc = "created" /\ proc'[p].ip = j /\ proc'[p].dp = d /\ proc'[p].put = <<>>
      /\ proc'[p].call = proc[p].call /\ proc'[p].rest = proc[p].rest
      /\ proc'[p].stage = proc[p].stage /\ proc'[p].cwd = proc[p].cwd
      /\ proc'[p].files = proc[p].files
  <2>1. Goto(p, "created", j, d, <<>>)
    OBVIOUS
  <2> HIDE DEF d
  <2> QED BY <1>1, <1>5, <2>1, GotoIs
<1> HIDE DEF ic, d
<1>7. /\ disk' \in DiskType /\ disk'[j] = [disk[j] EXCEPT !.type = x]
      /\ disk'[j].type = x /\ disk'[j].nlink = disk[j].nlink /\ disk'[j].ent = disk[j].ent
      /\ \A t \in Inums \ {j} : disk'[t] = disk[t]
  BY <1>1 DEF DiskType, InodeType
<1>8. \A q \in Procs : ~Holds(q, d)
  BY <1>1, Exclusive DEF IInv, d
<1>9. ~icache[j].valid /\ \A q \in Procs : ~Holds(q, j)
  <2>1. ~icache[j].valid
    BY DEF IInv, Coherent
  <2> QED BY <2>1 DEF IInv, Holding
<1>10. LocksLeft(p)
  <2> SUFFICES ASSUME NEW q \in Procs \ {p}, NEW t \in Inums, Holds(q, t)
               PROVE  /\ icache'[t].locker = icache[t].locker /\ icache'[t].valid = icache[t].valid
                      /\ disk'[t] = disk[t]
    BY DEF LocksLeft
  <2>1. t # d /\ t # j
    BY <1>8, <1>9
  <2> QED BY <1>2, <1>4, <1>7, <2>1
<1>11. PlaceOf(proc'[p])
  BY <1>1, <1>5, <1>6 DEF PlaceOf, Between, One, Two
<1>12. Name(p)' = Name(p) /\ Name(p) \in Names
  BY <1>1, <1>6 DEF Naming, Name, Call
<1>13. Naming(p)'
  BY <1>6, <1>12 DEF Naming
<1>14. Freed(proc'[p]) = 0 /\ PlaceLock(proc'[p]) = d
       /\ LinkTarget(proc'[p]) = 0 /\ LostLink(proc'[p]) = 0
       /\ LinkTarget(proc[p]) = 0 /\ LostLink(proc[p]) = 0
  BY <1>6 DEF Freed, PlaceLock, LinkTarget, LostLink
<1>15. EntryOf(p)'
  <2>1. disk'[d].ent[Name(p)] = 0
    BY <1>1, <1>3, <1>7 DEF Dirlookup, d
  <2>2. \A q \in Procs : Freed(proc'[q]) # j
    BY <1>5, <1>6, <1>9, <1>14 DEF Apart, Holds
  <2> QED BY <1>3, <1>6, <1>7, <1>12, <1>14, <2>1, <2>2 DEF EntryOf
<1>16. ASSUME NEW t \in Inums
       PROVE  icache'[t].ref = icache[t].ref + RefCount(proc'[p], t) - RefCount(proc[p], t)
  <2>1. Eq(0, t) = 0 /\ In(<<>>, t) = 0 /\ Eq(j, t) \in Nat /\ Eq(d, t) \in Nat
        /\ icache[t].ref \in Nat
    BY <1>1, InumIs, InEmpty DEF Eq, CacheType
  <2>2. proc[p].ip = d
    BY DEF d
  <2>3. icache'[t].ref = icache[t].ref + Eq(proc'[p].ip, t) + Eq(proc'[p].dp, t)
                            + In(proc'[p].put, t) - Eq(proc[p].ip, t) - Eq(proc[p].dp, t)
    BY <1>1, <1>2, <1>4, <1>6, <2>1, <2>2
  <2> QED BY <1>6, <2>3, MoveRefs
<1>17. \A t \in Inums : PlaceLock(proc'[p]) = t \/ Freed(proc'[p]) = t =>
         icache'[t].locker = p /\ icache'[t].valid
  BY <1>2, <1>4, <1>14, InumIs
<1>18. Coherent'
  <2> SUFFICES ASSUME NEW t \in Inums, icache'[t].valid
               PROVE  /\ icache'[t].type = disk'[t].type /\ icache'[t].nlink = disk'[t].nlink
                      /\ disk'[t].type # "free"
    BY DEF Coherent
  <2>1. t # j
    BY <1>2, <1>3, <1>4, <1>9
  <2>2. CASE t = d
    BY <1>2, <1>4, <1>7, <2>1, <2>2
  <2>3. CASE t # d
    BY <1>2, <1>4, <1>7, <2>1, <2>3 DEF IInv, Coherent
  <2> QED BY <2>2, <2>3
<1>19. \A t \in Inums : disk[t].type # "free" /\ t # Freed(proc[p]) => disk'[t].type = disk[t].type
  BY <1>7
<1>20. \A q \in Procs : proc[q].pc = "created" => Freed(proc'[p]) # proc[q].ip
  BY <1>14, ProcFacts DEF PlaceOf, Two
<1>21. FreeIsFree(disk')
  BY <1>7 DEF IInv, Links, FreeIsFree
<1>22. ASSUME NEW t \in Inums
       PROVE  Counted(disk', t) <= Counted(disk, t)
  <2> DEFINE e == disk'
  <2>1. NamesOf(e, t) \subseteq NamesOf(disk, t)
    <3> SUFFICES ASSUME NEW z \in NamesOf(e, t) PROVE z \in NamesOf(disk, t)
      OBVIOUS
    <3>1. z \in Inums \X (Names \ Dots) /\ e[z[1]].ent[z[2]] = t
      BY DEF NamesOf
    <3>2. disk[z[1]].ent[z[2]] = t
      BY <1>7, <3>1
    <3> QED BY <3>1, <3>2 DEF NamesOf
  <2>2. Subs(e, t) \subseteq Subs(disk, t)
    <3> SUFFICES ASSUME NEW m \in Subs(e, t) PROVE m \in Subs(disk, t)
      OBVIOUS
    <3>1. m \in Names \ Dots /\ e[t].ent[m] # 0 /\ e[e[t].ent[m]].type = "dir"
      BY DEF Subs
    <3>2. e[t].ent[m] = disk[t].ent[m] /\ e[t].ent[m] \in Inums
      BY <1>7, <3>1, InumIs DEF DiskType, InodeType
    <3>3. e[t].ent[m] # j
      BY <3>1, <3>2, Linked DEF IInv
    <3> QED BY <1>7, <3>1, <3>2, <3>3 DEF Subs
  <2>3. disk \in DiskType /\ e \in DiskType
    BY <1>1, <1>7
  <2> HIDE DEF e
  <2>4. Counted(e, t) <= Counted(disk, t)
    BY <2>1, <2>2, <2>3, CountedLess
  <2> QED BY <2>4 DEF e
<1>23. ASSUME NEW t \in Inums
       PROVE  disk[t].nlink + Counted(disk', t) + Eq(LinkTarget(proc'[p]), t) + Eq(LostLink(proc'[p]), t)
             <= disk'[t].nlink + Counted(disk, t) + Eq(LinkTarget(proc[p]), t) + Eq(LostLink(proc[p]), t)
  <2>1. disk'[t].nlink = disk[t].nlink
    BY <1>7
  <2>2. disk[t].nlink \in Nat /\ Counted(disk', t) \in Nat /\ Counted(disk, t) \in Nat
    BY <1>1, <1>7, CountedIs
  <2>3. /\ Eq(LinkTarget(proc'[p]), t) = 0 /\ Eq(LostLink(proc'[p]), t) = 0
        /\ Eq(LinkTarget(proc[p]), t) = 0 /\ Eq(LostLink(proc[p]), t) = 0
    BY <1>14, InumIs DEF Eq
  <2>4. disk[t].nlink + Counted(disk', t) + 0 + 0 <= disk[t].nlink + Counted(disk, t) + 0 + 0
    <3> DEFINE c == Counted(disk', t)
               b == Counted(disk, t)
               n == disk[t].nlink
    <3>1. c \in Nat /\ b \in Nat /\ n \in Nat /\ c <= b
      BY <1>22, <2>2
    <3> HIDE DEF c, b, n
    <3>2. n + c + 0 + 0 <= n + b + 0 + 0
      BY <3>1
    <3> QED BY <3>2 DEF c, b, n
  <2> QED BY <2>1, <2>3, <2>4
<1> QED BY <1>4, <1>6, <1>7, <1>10, <1>11, <1>13, <1>14, <1>15, <1>16, <1>17, <1>18, <1>19,
           <1>20, <1>21, <1>23, ChangeKeeps, ZenonT(60)

LEMMA CreateStep ==
  ASSUME IInv, NEW p \in Procs, Create(p)
  PROVE  IInv'
<1> DEFINE d == proc[p].ip
           ic == Ilock(icache, d)
           i == Dirlookup(d, Name(p))
           frees == {j \in Inums : disk[j].type = "free"}
<1>1. /\ proc[p].put = <<>> /\ proc[p].pc \in {"create", "mkdir"} /\ CanLock(d)
  BY DEF Create, Locking, At
<1>2. disk \in DiskType /\ d \in Inums /\ Name(p) \in Names
  BY <1>1, ProcFacts DEF PlaceOf, One, Naming
<1>3. CASE NoType(d)
  <2>1. Panic("ilock: no type")
    BY <1>3 DEF Create
  <2> QED BY <2>1, PanicKeeps
<1>4. CASE ~NoType(d)
  <2>1. CASE i # 0
    <3>1. icache' = Iget(ic, i) /\ Goto(p, "exists", i, 0, <<d>>) /\ Fixed /\ UNCHANGED disk
      BY <1>4, <2>1 DEF Create
    <3>2. i \in Inums
      BY <1>2, <2>1, EntryIs
    <3> HIDE DEF i
    <3> QED BY <1>1, <1>4, <3>1, <3>2, CreateFound
  <2>2. CASE i = 0 /\ frees = {}
    <3>1. Panic("ialloc: no inodes")
      BY <1>4, <2>2 DEF Create
    <3> QED BY <3>1, PanicKeeps
  <2>3. CASE i = 0 /\ frees # {}
    <3> DEFINE j == Min(frees)
               x == IF Call(p).op = "mkdir" THEN "dir" ELSE "file"
    <3>1. /\ disk' = [disk EXCEPT ![j].type = x]
          /\ icache' = Take(Iget(ic, j), d, p) /\ Goto(p, "created", j, d, <<>>)
          /\ Fixed
      BY <1>4, <2>3 DEF Create
    <3>2. j \in frees
      <4>1. frees \in SUBSET Inums /\ frees # {}
        BY <2>3
      <4> HIDE DEF frees
      <4> QED BY <4>1, FirstIs
    <3>3. j \in Inums /\ disk[j].type = "free"
      <4> HIDE DEF j
      <4> QED BY <3>2
    <3>4. x \in {"dir", "file"}
      OBVIOUS
    <3>5. disk' = [disk EXCEPT ![j] = [disk[j] EXCEPT !.type = x]]
      BY <3>1
    <3> HIDE DEF j, x
    <3> QED BY <1>1, <1>4, <2>3, <3>1, <3>3, <3>4, <3>5, CreateMade
  <2> QED BY <2>1, <2>2, <2>3
<1> QED BY <1>3, <1>4

\* What the edits of the disk and of the link counts do.
LEMMA WriteIs ==
  ASSUME NEW e \in DiskType, NEW s \in Inums, NEW n \in Names, NEW i \in 0..NINODES
  PROVE  /\ WriteEntry(e, s, n, i) \in DiskType
         /\ \A t \in Inums : /\ WriteEntry(e, s, n, i)[t].type = e[t].type
                             /\ WriteEntry(e, s, n, i)[t].nlink = e[t].nlink
         /\ \A t \in Inums \ {s} : WriteEntry(e, s, n, i)[t] = e[t]
         /\ \A t \in Inums, m \in Names :
              WriteEntry(e, s, n, i)[t].ent[m] = IF t = s /\ m = n THEN i ELSE e[t].ent[m]
BY DEF WriteEntry, DiskType, InodeType

LEMMA IupdateIs ==
  ASSUME NEW e \in DiskType, NEW ic \in CacheType, NEW s \in Inums
  PROVE  /\ Iupdate(e, ic, s) \in DiskType
         /\ Iupdate(e, ic, s)[s].type = ic[s].type /\ Iupdate(e, ic, s)[s].nlink = ic[s].nlink
         /\ \A t \in Inums \ {s} : Iupdate(e, ic, s)[t] = e[t]
         /\ \A t \in Inums : Iupdate(e, ic, s)[t].ent = e[t].ent
BY DEF Iupdate, DiskType, InodeType, CacheType

LEMMA RelinkIs ==
  ASSUME NEW ic \in CacheType, NEW s \in Inums, NEW k \in Int, ic[s].nlink + k \in Nat
  PROVE  /\ Relink(ic, s, k) \in CacheType
         /\ Relink(ic, s, k)[s].nlink = ic[s].nlink + k
         /\ \A t \in Inums : /\ Relink(ic, s, k)[t].ref = ic[t].ref
                             /\ Relink(ic, s, k)[t].locker = ic[t].locker
                             /\ Relink(ic, s, k)[t].valid = ic[t].valid
                             /\ Relink(ic, s, k)[t].type = ic[t].type
                             /\ t # s => Relink(ic, s, k)[t].nlink = ic[t].nlink
BY DEF Relink, CacheType

LEMMA Readable ==
  ASSUME IInv, NEW s \in Inums, disk[s].type # "free"
  PROVE  ~NoType(s)
<1>1. disk \in DiskType /\ icache \in CacheType
  BY DEF IInv, Typed
<1>2. icache[s].valid => icache[s].type = disk[s].type
  BY DEF IInv, Coherent
<1> QED BY <1>1, <1>2, IlockIs DEF NoType

LEMMA DotWritten ==
  ASSUME NEW e \in DiskType, NEW s \in Inums, NEW n \in Dots, NEW i \in 0..NINODES,
         NEW f, f = WriteEntry(e, s, n, i)
  PROVE  /\ f \in DiskType
         /\ \A t \in Inums : f[t].type = e[t].type /\ f[t].nlink = e[t].nlink
         /\ \A t \in Inums \ {s} : f[t] = e[t]
         /\ \A t \in Inums, m \in Names \ Dots : f[t].ent[m] = e[t].ent[m]
<1>1. n \in Names
  BY FsAssumption
<1> QED BY <1>1, WriteIs

LEMMA CreateNewStep ==
  ASSUME IInv, NEW p \in Procs, CreateNew(p)
  PROVE  IInv'
<1> DEFINE s == proc[p].ip
           d == proc[p].dp
           n == Name(p)
           ic0 == Ilock(icache, s)
           ic1 == Relink(ic0, s, 1)
           up == ParentLink(ic1, s)
           ic2 == Relink(ic1, d, up)
           dots == IF Call(p).op = "mkdir" THEN WriteEntry(WriteEntry(disk, s, ".", s), s, "..", d)
                   ELSE disk
           w == WriteEntry(dots, d, n, s)
           w1 == Iupdate(w, ic2, s)
<1>1. /\ proc[p].put = <<>> /\ proc[p].pc = "created" /\ CanLock(s) /\ Fixed
      /\ disk' = Iupdate(w1, ic2, d) /\ icache' = Drop(Take(ic2, s, p), d)
      /\ Goto(p, "new", s, 0, <<d>>)
  BY DEF CreateNew, Locking, At
<1>2. /\ proc \in [Procs -> ProcType] /\ proc[p] \in ProcType /\ icache \in CacheType
      /\ disk \in DiskType /\ PlaceOf(proc[p]) /\ Naming(p) /\ n \in Names
      /\ s # 0 /\ s \in Inums /\ d # 0 /\ d \in Inums /\ proc[p].stage = "lock"
  BY <1>1, ProcFacts DEF PlaceOf, Two, Naming
<1>3. s # d /\ disk[s].type # "free"
  BY <1>1 DEF IInv, Entries, EntryOf
<1>4. icache[d].locker = p /\ icache[d].valid /\ icache[d].type = disk[d].type
      /\ icache[d].nlink = disk[d].nlink /\ disk[d].type # "free" /\ Holds(p, d)
  BY <1>1, <1>2 DEF IInv, Holding, Holds, PlaceLock, Coherent
<1>5. /\ ic0 \in CacheType
      /\ \A t \in Inums : ic0[t].ref = icache[t].ref /\ ic0[t].locker = icache[t].locker
      /\ \A t \in Inums \ {s} : ic0[t] = icache[t]
      /\ ic0[s].valid /\ ic0[s].type = disk[s].type /\ ic0[s].nlink = disk[s].nlink
  BY <1>2, <1>3, Readable, ReadIs
<1>6. disk[s].nlink \in Nat /\ disk[d].nlink \in Nat
  BY <1>2 DEF DiskType, InodeType
<1> HIDE DEF ic0
<1>7. /\ ic1 \in CacheType /\ ic1[s].nlink = disk[s].nlink + 1
      /\ \A t \in Inums : /\ ic1[t].ref = ic0[t].ref /\ ic1[t].locker = ic0[t].locker
                          /\ ic1[t].valid = ic0[t].valid /\ ic1[t].type = ic0[t].type
                          /\ t # s => ic1[t].nlink = ic0[t].nlink
  <2>1. ic0[s].nlink + 1 \in Nat
    BY <1>5, <1>6
  <2> QED BY <1>2, <1>5, <2>1, RelinkIs
<1> HIDE DEF ic1
<1>8. up = (IF disk[s].type = "dir" THEN 1 ELSE 0) /\ up \in Nat
  BY <1>2, <1>5, <1>7 DEF ParentLink
<1> HIDE DEF up
<1>9. ic1[d].nlink = disk[d].nlink
  BY <1>2, <1>3, <1>4, <1>5, <1>7
<1>10. /\ ic2 \in CacheType /\ ic2[d].nlink = disk[d].nlink + up
       /\ \A t \in Inums : /\ ic2[t].ref = ic1[t].ref /\ ic2[t].locker = ic1[t].locker
                           /\ ic2[t].valid = ic1[t].valid /\ ic2[t].type = ic1[t].type
                           /\ t # d => ic2[t].nlink = ic1[t].nlink
  <2>1. ic1[d].nlink + up \in Nat
    BY <1>6, <1>8, <1>9
  <2>2. d \in Inums /\ up \in Int
    BY <1>2, <1>8
  <2> HIDE DEF s, d
  <2> QED BY <1>7, <1>9, <2>1, <2>2, RelinkIs
<1> HIDE DEF ic2
<1>11. /\ ic2[s].nlink = disk[s].nlink + 1 /\ ic2[s].type = disk[s].type /\ ic2[s].valid
       /\ ic2[d].nlink = disk[d].nlink + up /\ ic2[d].type = disk[d].type /\ ic2[d].valid
       /\ \A t \in Inums : ic2[t].ref = icache[t].ref /\ ic2[t].locker = icache[t].locker
       /\ \A t \in Inums \ {s, d} : /\ ic2[t].valid = icache[t].valid /\ ic2[t].type = icache[t].type
                                    /\ ic2[t].nlink = icache[t].nlink
  BY <1>2, <1>3, <1>4, <1>5, <1>7, <1>10
<1>12. /\ dots \in DiskType
       /\ \A t \in Inums : dots[t].type = disk[t].type /\ dots[t].nlink = disk[t].nlink
       /\ \A t \in Inums \ {s} : dots[t] = disk[t]
       /\ \A t \in Inums, m \in Names \ Dots : dots[t].ent[m] = disk[t].ent[m]
  <2> DEFINE e1 == WriteEntry(disk, s, ".", s)
             e2 == WriteEntry(e1, s, "..", d)
  <2>1. /\ "." \in Names /\ ".." \in Names /\ "." \in Dots /\ ".." \in Dots
        /\ s \in 0..NINODES /\ d \in 0..NINODES
    BY <1>2, FsAssumption, InumIs DEF Dots
  <2> HIDE DEF s, d
  <2>2. /\ e1 \in DiskType
        /\ \A t \in Inums : e1[t].type = disk[t].type /\ e1[t].nlink = disk[t].nlink
        /\ \A t \in Inums \ {s} : e1[t] = disk[t]
        /\ \A t \in Inums, m \in Names \ Dots : e1[t].ent[m] = disk[t].ent[m]
    BY <1>2, <2>1, DotWritten
  <2> HIDE DEF e1
  <2>3. /\ e2 \in DiskType
        /\ \A t \in Inums : e2[t].type = disk[t].type /\ e2[t].nlink = disk[t].nlink
        /\ \A t \in Inums \ {s} : e2[t] = disk[t]
        /\ \A t \in Inums, m \in Names \ Dots : e2[t].ent[m] = disk[t].ent[m]
    <3> DEFINE dd == ".."
    <3>1. dd \in Dots /\ e2 = WriteEntry(e1, s, dd, d)
      BY <2>1
    <3> HIDE DEF dd, e2
    <3>2. /\ e2 \in DiskType
          /\ \A t \in Inums : e2[t].type = e1[t].type /\ e2[t].nlink = e1[t].nlink
          /\ \A t \in Inums \ {s} : e2[t] = e1[t]
          /\ \A t \in Inums, m \in Names \ Dots : e2[t].ent[m] = e1[t].ent[m]
      <4>1. e1 \in DiskType /\ s \in Inums /\ d \in 0..NINODES
        BY <1>2, <2>1, <2>2
      <4> QED BY <3>1, <4>1, DotWritten
    <3> QED BY <2>2, <3>2
  <2>4. dots = IF Call(p).op = "mkdir" THEN e2 ELSE disk
    BY DEF e1
  <2> HIDE DEF e2, dots, s, d
  <2>5. CASE Call(p).op = "mkdir"
    BY <2>3, <2>4, <2>5
  <2>6. CASE Call(p).op # "mkdir"
    BY <1>2, <2>4, <2>6
  <2> QED BY <2>5, <2>6
<1> HIDE DEF dots
<1>13. /\ w \in DiskType
       /\ \A t \in Inums : w[t].type = disk[t].type /\ w[t].nlink = disk[t].nlink
       /\ \A t \in Inums \ {s, d} : w[t] = disk[t]
       /\ \A t \in Inums, m \in Names \ Dots :
            w[t].ent[m] = IF t = d /\ m = n THEN s ELSE disk[t].ent[m]
  <2>1. s \in 0..NINODES
    BY <1>2, InumIs
  <2>2. /\ w \in DiskType
        /\ \A t \in Inums : w[t].type = dots[t].type /\ w[t].nlink = dots[t].nlink
        /\ \A t \in Inums \ {d} : w[t] = dots[t]
        /\ \A t \in Inums, m \in Names : w[t].ent[m] = IF t = d /\ m = n THEN s ELSE dots[t].ent[m]
    <3> HIDE DEF s, d, n
    <3> QED BY <1>2, <1>12, <2>1, WriteIs
  <2> HIDE DEF w, n, s, d
  <2> QED BY <1>12, <2>2
<1> HIDE DEF w
<1>14. /\ w1 \in DiskType /\ w1[s].type = disk[s].type /\ w1[s].nlink = disk[s].nlink + 1
       /\ \A t \in Inums \ {s} : w1[t] = w[t]
       /\ \A t \in Inums : w1[t].ent = w[t].ent
  <2> HIDE DEF s, d, n
  <2>1. s \in Inums /\ ic2 \in CacheType /\ w \in DiskType
    BY <1>2, <1>10, <1>13
  <2> QED BY <1>11, <2>1, IupdateIs
<1> HIDE DEF w1
<1> DEFINE e == disk'
<1>15. /\ e \in DiskType /\ e[d].type = disk[d].type /\ e[d].nlink = disk[d].nlink + up
       /\ \A t \in Inums \ {d} : e[t] = w1[t]
       /\ \A t \in Inums : e[t].ent = w1[t].ent
  <2> HIDE DEF s, d, n
  <2>1. d \in Inums /\ ic2 \in CacheType /\ w1 \in DiskType
    BY <1>2, <1>10, <1>14
  <2>2. e = Iupdate(w1, ic2, d)
    BY <1>1
  <2> HIDE DEF e
  <2> QED BY <1>11, <2>1, <2>2, IupdateIs
<1> HIDE DEF e
<1>16. /\ \A t \in Inums : e[t].type = disk[t].type
       /\ e[s].nlink = disk[s].nlink + 1 /\ e[d].nlink = disk[d].nlink + up
       /\ \A t \in Inums \ {s, d} : e[t] = disk[t]
       /\ \A t \in Inums, m \in Names \ Dots :
            e[t].ent[m] = IF t = d /\ m = n THEN s ELSE disk[t].ent[m]
  <2> HIDE DEF s, d, n
  <2> QED BY <1>2, <1>3, <1>13, <1>14, <1>15
<1>17. /\ icache' \in CacheType
       /\ \A t \in Inums : /\ icache'[t].ref = icache[t].ref /\ icache'[t].valid = ic2[t].valid
                           /\ icache'[t].type = ic2[t].type /\ icache'[t].nlink = ic2[t].nlink
                           /\ icache'[t].locker = IF t = d THEN NoProc
                                                  ELSE IF t = s THEN p ELSE icache[t].locker
  <2> DEFINE ic3 == Take(ic2, s, p)
  <2> HIDE DEF s, d
  <2>1. /\ ic3 \in CacheType
        /\ \A t \in Inums : /\ ic3[t].ref = ic2[t].ref /\ ic3[t].valid = ic2[t].valid
                            /\ ic3[t].type = ic2[t].type /\ ic3[t].nlink = ic2[t].nlink
                            /\ ic3[t].locker = IF t = s THEN p ELSE ic2[t].locker
    BY <1>2, <1>10, TakeIs
  <2>2. icache' = Drop(ic3, d)
    BY <1>1
  <2> HIDE DEF ic3
  <2>3. /\ Drop(ic3, d) \in CacheType
        /\ \A t \in Inums : /\ Drop(ic3, d)[t].ref = ic3[t].ref
                            /\ Drop(ic3, d)[t].valid = ic3[t].valid
                            /\ Drop(ic3, d)[t].type = ic3[t].type
                            /\ Drop(ic3, d)[t].nlink = ic3[t].nlink
                            /\ Drop(ic3, d)[t].locker = IF t = d THEN NoProc ELSE ic3[t].locker
    BY <1>2, <2>1, TakeIs
  <2> QED BY <1>11, <2>1, <2>2, <2>3
<1>18. /\ "new" \in PcSet /\ s \in 0..NINODES /\ 0 \in 0..NINODES /\ <<d>> \in Seq(Inums)
       /\ <<d>> # <<>>
  <2> HIDE DEF s, d
  <2> QED BY <1>2, InumIs, FsAssumption DEF PcSet, One
<1>19. /\ proc' \in [Procs -> ProcType] /\ Apart(p)
       /\ proc'[p].pc = "new" /\ proc'[p].ip = s /\ proc'[p].dp = 0 /\ proc'[p].put = <<d>>
       /\ proc'[p].call = proc[p].call /\ proc'[p].rest = proc[p].rest
       /\ proc'[p].stage = proc[p].stage /\ proc'[p].cwd = proc[p].cwd
       /\ proc'[p].files = proc[p].files
  <2> HIDE DEF s, d
  <2> QED BY <1>1, <1>2, <1>18, GotoIs
<1>20. proc[p].ip = s /\ proc[p].dp = d
  OBVIOUS
<1> HIDE DEF s, d, n
<1>21. \A q \in Procs \ {p} : ~Holds(q, s) /\ ~Holds(q, d)
  BY <1>1, <1>2, <1>4, Exclusive DEF IInv
<1>22. LocksLeft(p)
  <2> SUFFICES ASSUME NEW q \in Procs \ {p}, NEW t \in Inums, Holds(q, t)
               PROVE  /\ icache'[t].locker = icache[t].locker /\ icache'[t].valid = icache[t].valid
                      /\ e[t] = disk[t]
    BY DEF LocksLeft, e
  <2>1. t # d /\ t # s
    BY <1>21
  <2> QED BY <1>11, <1>16, <1>17, <2>1
<1>23. PlaceOf(proc'[p])
  BY <1>1, <1>2, <1>18, <1>19 DEF PlaceOf, Between, One, Two
<1>24. Naming(p)'
  BY <1>19 DEF Naming
<1>25. Freed(proc'[p]) = 0 /\ PlaceLock(proc'[p]) = s
       /\ LinkTarget(proc'[p]) = 0 /\ LostLink(proc'[p]) = 0
       /\ LinkTarget(proc[p]) = 0 /\ LostLink(proc[p]) = 0
  BY <1>1, <1>2, <1>19 DEF Freed, PlaceLock, LinkTarget, LostLink
<1>26. EntryOf(p)'
  BY <1>19, <1>25 DEF EntryOf
<1>27. ASSUME NEW t \in Inums
       PROVE  icache'[t].ref = icache[t].ref + RefCount(proc'[p], t) - RefCount(proc[p], t)
  <2>1. Eq(0, t) = 0 /\ In(<<d>>, t) = Eq(d, t) /\ Eq(s, t) \in Nat /\ Eq(d, t) \in Nat
        /\ icache[t].ref \in Nat
    BY <1>2, InumIs, InOne DEF Eq, CacheType
  <2>2. icache'[t].ref = icache[t].ref + Eq(proc'[p].ip, t) + Eq(proc'[p].dp, t)
                            + In(proc'[p].put, t) - Eq(proc[p].ip, t) - Eq(proc[p].dp, t)
    BY <1>17, <1>19, <1>20, <2>1
  <2> QED BY <1>1, <1>19, <2>2, MoveRefs
<1>28. \A t \in Inums : PlaceLock(proc'[p]) = t \/ Freed(proc'[p]) = t =>
         icache'[t].locker = p /\ icache'[t].valid
  BY <1>2, <1>3, <1>11, <1>17, <1>25, InumIs
<1>29. Coherent'
  <2> SUFFICES ASSUME NEW t \in Inums, icache'[t].valid
               PROVE  /\ icache'[t].type = e[t].type /\ icache'[t].nlink = e[t].nlink
                      /\ e[t].type # "free"
    BY DEF Coherent, e
  <2>1. CASE t = s
    BY <1>3, <1>11, <1>16, <1>17, <2>1
  <2>2. CASE t = d
    BY <1>4, <1>11, <1>16, <1>17, <2>2
  <2>3. CASE t # s /\ t # d
    BY <1>11, <1>16, <1>17, <2>3 DEF IInv, Coherent
  <2> QED BY <2>1, <2>2, <2>3
<1>30. \A t \in Inums : disk[t].type # "free" /\ t # Freed(proc[p]) => e[t].type = disk[t].type
  BY <1>16
<1>31. \A q \in Procs : proc[q].pc = "created" => Freed(proc'[p]) # proc[q].ip
  BY <1>25, ProcFacts DEF PlaceOf, Two
<1>32. FreeIsFree(e)
  <2> SUFFICES ASSUME NEW t \in Inums, e[t].type = "free" PROVE e[t] = Free
    BY DEF FreeIsFree
  <2>1. t # s /\ t # d
    BY <1>3, <1>4, <1>16
  <2> QED BY <1>16, <2>1 DEF IInv, Links, FreeIsFree
<1>33. ASSUME NEW t \in Inums
       PROVE  disk[t].nlink + Counted(e, t) + Eq(LinkTarget(proc'[p]), t) + Eq(LostLink(proc'[p]), t)
             <= e[t].nlink + Counted(disk, t) + Eq(LinkTarget(proc[p]), t) + Eq(LostLink(proc[p]), t)
  <2> DEFINE c == Counted(e, t)
             b == Counted(disk, t)
  <2>1. c <= b + Eq(s, t) + (IF disk[s].type = "dir" THEN Eq(d, t) ELSE 0)
    BY <1>2, <1>15, <1>16, EntryMade
  <2>2. /\ c \in Nat /\ b \in Nat /\ disk[t].nlink \in Nat /\ e[t].nlink \in Nat
    BY <1>2, <1>15, CountedIs
  <2>3. /\ Eq(LinkTarget(proc'[p]), t) = 0 /\ Eq(LostLink(proc'[p]), t) = 0
        /\ Eq(LinkTarget(proc[p]), t) = 0 /\ Eq(LostLink(proc[p]), t) = 0
    BY <1>25, InumIs DEF Eq
  <2> HIDE DEF c, b
  <2>4. disk[t].nlink + c <= e[t].nlink + b
    <3>1. CASE t = s
      BY <1>3, <1>16, <2>1, <2>2, <3>1 DEF Eq
    <3>2. CASE t = d
      BY <1>3, <1>8, <1>16, <2>1, <2>2, <3>2 DEF Eq
    <3>3. CASE t # s /\ t # d
      BY <1>16, <2>1, <2>2, <3>3 DEF Eq
    <3> QED BY <3>1, <3>2, <3>3
  <2>5. disk[t].nlink + c + 0 + 0 <= e[t].nlink + b + 0 + 0
    BY <2>2, <2>4
  <2> QED BY <2>3, <2>5 DEF c, b
<1> QED BY <1>1, <1>15, <1>17, <1>19, <1>22, <1>23, <1>24, <1>25, <1>26, <1>27, <1>28, <1>29, <1>30,
           <1>31, <1>32, <1>33, ChangeKeeps DEF e

\* The names of a disk are the same when only link counts change.
LEMMA CountedSame ==
  ASSUME NEW d \in DiskType, NEW e \in DiskType, NEW t \in Inums,
         \A y \in Inums : e[y].type = d[y].type /\ e[y].ent = d[y].ent
  PROVE  Counted(e, t) = Counted(d, t)
<1>1. NamesOf(e, t) = NamesOf(d, t)
  BY DEF NamesOf
<1>2. Subs(e, t) = Subs(d, t)
  <2>1. ASSUME NEW m \in Names \ Dots
        PROVE  (d[t].ent[m] # 0 /\ d[d[t].ent[m]].type = "dir")
                 <=> (e[t].ent[m] # 0 /\ e[e[t].ent[m]].type = "dir")
    <3>1. e[t].ent[m] = d[t].ent[m] /\ d[t].ent[m] \in 0..NINODES
      BY DEF DiskType, InodeType
    <3> QED BY <3>1, InumIs
  <2> QED BY <2>1 DEF Subs
<1> QED BY <1>1, <1>2 DEF Counted

\* A step of p writes the link count of s, which it has locked or locks, and no other inode.
LEMMA RelinkKeeps ==
  ASSUME IInv, NEW p \in Procs, NEW s \in Inums, NEW k \in {1, -1}, proc[p].put = <<>>,
         CanLock(s) \/ PlaceLock(proc[p]) = s, disk[s].type # "free", disk[s].nlink + k \in Nat,
         proc' \in [Procs -> ProcType], Apart(p), proc'[p].stage = "lock",
         PlaceOf(proc'[p]), Naming(p)', proc'[p].pc \notin {"created", "unlinking"},
         LinkTarget(proc'[p]) # 0 => disk[LinkTarget(proc'[p])].type = "file",
         \A t \in Inums :
           icache'[t].ref = icache[t].ref + RefCount(proc'[p], t) - RefCount(proc[p], t),
         PlaceLock(proc'[p]) = 0, Fixed,
         disk' \in DiskType, disk'[s].nlink = disk[s].nlink + k,
         \A t \in Inums : disk'[t].type = disk[t].type /\ disk'[t].ent = disk[t].ent,
         \A t \in Inums \ {s} : disk'[t] = disk[t],
         icache' \in CacheType, icache'[s].type = disk[s].type,
         icache'[s].nlink = disk[s].nlink + k,
         \A t \in Inums \ {s} : /\ icache'[t].locker = icache[t].locker
                                /\ icache'[t].valid = icache[t].valid
                                /\ icache'[t].type = icache[t].type
                                /\ icache'[t].nlink = icache[t].nlink,
         \A t \in Inums :
           (IF t = s THEN 0 ELSE k) + Eq(LinkTarget(proc'[p]), t) + Eq(LostLink(proc'[p]), t)
             <= k + Eq(LinkTarget(proc[p]), t) + Eq(LostLink(proc[p]), t)
  PROVE  IInv'
<1>1. disk \in DiskType
  BY ProcFacts
<1>2. \A q \in Procs \ {p} : ~Holds(q, s)
  <2>1. CASE CanLock(s)
    BY <2>1, Exclusive DEF IInv
  <2>2. CASE PlaceLock(proc[p]) = s
    <3>1. Holds(p, s)
      BY <2>2, InumIs DEF Holds
    <3> QED BY <3>1, Exclusive DEF IInv
  <2> QED BY <2>1, <2>2
<1>3. LocksLeft(p)
  BY <1>2 DEF LocksLeft
<1>4. Freed(proc'[p]) = 0
  BY DEF Freed
<1>5. EntryOf(p)'
  <2>1. LinkTarget(proc'[p]) # 0 => disk'[LinkTarget(proc'[p])].type = "file"
    <3> SUFFICES ASSUME LinkTarget(proc'[p]) # 0 PROVE disk'[LinkTarget(proc'[p])].type = "file"
      OBVIOUS
    <3>1. LinkTarget(proc'[p]) \in Inums
      BY InumIs DEF LinkTarget, ProcType
    <3> QED BY <3>1
  <2> QED BY <1>4, <2>1 DEF EntryOf
<1>6. \A t \in Inums : PlaceLock(proc'[p]) = t \/ Freed(proc'[p]) = t =>
        icache'[t].locker = p /\ icache'[t].valid
  BY <1>4, InumIs
<1>7. Coherent'
  <2> SUFFICES ASSUME NEW t \in Inums, icache'[t].valid
               PROVE  /\ icache'[t].type = disk'[t].type /\ icache'[t].nlink = disk'[t].nlink
                      /\ disk'[t].type # "free"
    BY DEF Coherent
  <2>1. CASE t = s
    BY <2>1
  <2>2. CASE t # s
    BY <2>2 DEF IInv, Coherent
  <2> QED BY <2>1, <2>2
<1>8. \A t \in Inums : disk[t].type # "free" /\ t # Freed(proc[p]) => disk'[t].type = disk[t].type
  OBVIOUS
<1>9. \A q \in Procs : proc[q].pc = "created" => Freed(proc'[p]) # proc[q].ip
  BY <1>4, ProcFacts DEF PlaceOf, Two
<1>10. FreeIsFree(disk')
  <2> SUFFICES ASSUME NEW t \in Inums, disk'[t].type = "free" PROVE disk'[t] = Free
    BY DEF FreeIsFree
  <2>1. t # s
    OBVIOUS
  <2> QED BY <2>1 DEF IInv, Links, FreeIsFree
<1>11. ASSUME NEW t \in Inums
       PROVE  disk[t].nlink + Counted(disk', t) + Eq(LinkTarget(proc'[p]), t) + Eq(LostLink(proc'[p]), t)
             <= disk'[t].nlink + Counted(disk, t) + Eq(LinkTarget(proc[p]), t) + Eq(LostLink(proc[p]), t)
  <2> DEFINE c == Counted(disk, t)
             n == disk[t].nlink
             m == disk'[t].nlink
             a1 == Eq(LinkTarget(proc'[p]), t)
             b1 == Eq(LostLink(proc'[p]), t)
             a == Eq(LinkTarget(proc[p]), t)
             b == Eq(LostLink(proc[p]), t)
  <2>1. Counted(disk', t) = c
    BY <1>1, CountedSame
  <2>2. c \in Nat /\ n \in Nat /\ m \in Nat
    BY <1>1, CountedIs
  <2>3. a1 \in Nat /\ b1 \in Nat /\ a \in Nat /\ b \in Nat /\ k \in Int
    BY DEF Eq
  <2>4. /\ t = s => m = n + k
        /\ t # s => m = n
    OBVIOUS
  <2>5. (IF t = s THEN 0 ELSE k) + a1 + b1 <= k + a + b
    OBVIOUS
  <2> HIDE DEF c, n, m, a1, b1, a, b
  <2>6. n + c + a1 + b1 <= m + c + a + b
    <3>1. CASE t = s
      BY <2>2, <2>3, <2>4, <2>5, <3>1
    <3>2. CASE t # s
      BY <2>2, <2>3, <2>4, <2>5, <3>2
    <3> QED BY <3>1, <3>2
  <2> QED BY <2>1, <2>6 DEF c, n, m, a1, b1, a, b
<1> QED BY <1>3, <1>4, <1>5, <1>6, <1>7, <1>8, <1>9, <1>10, <1>11, ChangeKeeps

LEMMA UnlinkedStep ==
  ASSUME IInv, NEW p \in Procs, Unlinked(p)
  PROVE  IInv'
<1> DEFINE s == proc[p].ip
           ic == Relink(icache, s, -1)
<1>1. /\ proc[p].put = <<>> /\ proc[p].pc = "unlinked" /\ Fixed
      /\ icache' = Drop(ic, s) /\ disk' = Iupdate(disk, ic, s) /\ Goto(p, "end", 0, 0, <<s>>)
  BY DEF Unlinked, At, Finish
<1>2. /\ proc \in [Procs -> ProcType] /\ proc[p] \in ProcType /\ icache \in CacheType
      /\ disk \in DiskType /\ PlaceOf(proc[p]) /\ s # 0 /\ s \in Inums /\ proc[p].dp = 0
      /\ proc[p].stage = "lock"
  BY <1>1, ProcFacts DEF PlaceOf, One
<1>3. /\ PlaceLock(proc[p]) = s /\ LostLink(proc[p]) = s /\ LinkTarget(proc[p]) = 0 /\ Holds(p, s)
  BY <1>1, <1>2 DEF PlaceLock, LostLink, LinkTarget, Holds
<1>4. disk[s].nlink >= 1 /\ disk[s].type # "free" /\ disk[s].nlink \in Nat
  BY <1>2, <1>3, Linked DEF IInv
<1>5. icache[s].valid /\ icache[s].type = disk[s].type /\ icache[s].nlink = disk[s].nlink
  BY <1>2, <1>3 DEF IInv, Holding, Coherent
<1>6. proc[p].ip = s
  OBVIOUS
<1> HIDE DEF s
<1>7. /\ ic \in CacheType /\ ic[s].nlink = disk[s].nlink + -1
      /\ \A t \in Inums : /\ ic[t].ref = icache[t].ref /\ ic[t].locker = icache[t].locker
                          /\ ic[t].valid = icache[t].valid /\ ic[t].type = icache[t].type
                          /\ t # s => ic[t].nlink = icache[t].nlink
  <2>1. icache[s].nlink + -1 \in Nat /\ -1 \in Int
    BY <1>4, <1>5
  <2> QED BY <1>2, <1>5, <2>1, RelinkIs
<1> HIDE DEF ic
<1>8. /\ icache' \in CacheType
      /\ \A t \in Inums : /\ icache'[t].ref = ic[t].ref
                          /\ icache'[t].valid = ic[t].valid
                          /\ icache'[t].type = ic[t].type
                          /\ icache'[t].nlink = ic[t].nlink
                          /\ icache'[t].locker = IF t = s THEN NoProc ELSE ic[t].locker
  BY <1>1, <1>2, <1>7, TakeIs, SMTT(60)
<1>9. /\ disk' \in DiskType /\ disk'[s].type = ic[s].type /\ disk'[s].nlink = ic[s].nlink
      /\ \A t \in Inums \ {s} : disk'[t] = disk[t]
      /\ \A t \in Inums : disk'[t].ent = disk[t].ent
  <2> DEFINE e == disk'
  <2>1. e = Iupdate(disk, ic, s)
    BY <1>1
  <2> HIDE DEF e
  <2>2. /\ e \in DiskType /\ e[s].type = ic[s].type /\ e[s].nlink = ic[s].nlink
        /\ \A t \in Inums \ {s} : e[t] = disk[t]
        /\ \A t \in Inums : e[t].ent = disk[t].ent
    BY <1>2, <1>7, <2>1, IupdateIs, SMTT(60)
  <2> QED BY <2>2 DEF e
<1>10. /\ "end" \in PcSet /\ 0 \in 0..NINODES /\ <<s>> \in Seq(Inums) /\ <<s>> # <<>>
  BY <1>2, FsAssumption DEF PcSet, Between
<1>11. /\ proc' \in [Procs -> ProcType] /\ Apart(p)
       /\ proc'[p].pc = "end" /\ proc'[p].ip = 0 /\ proc'[p].dp = 0 /\ proc'[p].put = <<s>>
       /\ proc'[p].call = proc[p].call /\ proc'[p].rest = proc[p].rest
       /\ proc'[p].stage = proc[p].stage /\ proc'[p].cwd = proc[p].cwd
       /\ proc'[p].files = proc[p].files
  <2>1. proc \in [Procs -> ProcType] /\ s \in Inums /\ <<s>> \in Seq(Inums) /\ Goto(p, "end", 0, 0, <<s>>)
    BY <1>1, <1>2, <1>10
  <2>2. "end" \in PcSet /\ 0 \in 0..NINODES /\ p \in Procs
    BY <1>10
  <2> QED BY <2>1, <2>2, GotoIs
<1>12. PlaceOf(proc'[p])
  BY <1>2, <1>10, <1>11 DEF PlaceOf, Between, One, Two
<1>13. Naming(p)'
  BY <1>11 DEF Naming
<1>14. PlaceLock(proc'[p]) = 0 /\ LinkTarget(proc'[p]) = 0 /\ LostLink(proc'[p]) = 0
  BY <1>11 DEF PlaceLock, LinkTarget, LostLink
<1>15. ASSUME NEW t \in Inums
       PROVE  icache'[t].ref = icache[t].ref + RefCount(proc'[p], t) - RefCount(proc[p], t)
  <2>1. Eq(0, t) = 0 /\ In(<<s>>, t) = Eq(s, t) /\ Eq(s, t) \in Nat /\ icache[t].ref \in Nat
    BY <1>2, InumIs, InOne DEF Eq, CacheType
  <2>2. icache'[t].ref = icache[t].ref + Eq(proc'[p].ip, t) + Eq(proc'[p].dp, t)
                            + In(proc'[p].put, t) - Eq(proc[p].ip, t) - Eq(proc[p].dp, t)
    BY <1>2, <1>6, <1>7, <1>8, <1>11, <2>1
  <2> QED BY <1>1, <1>11, <2>2, MoveRefs
<1>16. \A t \in Inums : disk'[t].type = disk[t].type
  BY <1>5, <1>7, <1>9
<1>17. ASSUME NEW t \in Inums
       PROVE  (IF t = s THEN 0 ELSE -1) + Eq(LinkTarget(proc'[p]), t) + Eq(LostLink(proc'[p]), t)
                <= -1 + Eq(LinkTarget(proc[p]), t) + Eq(LostLink(proc[p]), t)
  BY <1>2, <1>3, <1>14, InumIs DEF Eq
<1> DEFINE k == -1
<1>18. k \in {1, -1} /\ disk[s].nlink + k \in Nat /\ disk'[s].nlink = disk[s].nlink + k
       /\ icache'[s].nlink = disk[s].nlink + k /\ icache'[s].type = disk[s].type
  BY <1>2, <1>4, <1>5, <1>7, <1>8, <1>9
<1>19. \A t \in Inums :
           (IF t = s THEN 0 ELSE k) + Eq(LinkTarget(proc'[p]), t) + Eq(LostLink(proc'[p]), t)
             <= k + Eq(LinkTarget(proc[p]), t) + Eq(LostLink(proc[p]), t)
  BY <1>17
<1>20. \A t \in Inums \ {s} : /\ icache'[t].locker = icache[t].locker
                              /\ icache'[t].valid = icache[t].valid
                              /\ icache'[t].type = icache[t].type
                              /\ icache'[t].nlink = icache[t].nlink
  BY <1>7, <1>8
<1>21. proc'[p].stage = "lock" /\ proc'[p].pc \notin {"created", "unlinking"}
  BY <1>2, <1>11
<1> HIDE DEF k
<1> QED BY <1>1, <1>2, <1>3, <1>4, <1>8, <1>9, <1>11, <1>12, <1>13, <1>14, <1>15, <1>16, <1>18,
           <1>19, <1>20, <1>21, RelinkKeeps

LEMMA LinkBadStep ==
  ASSUME IInv, NEW p \in Procs, LinkBad(p)
  PROVE  IInv'
<1> DEFINE s == proc[p].ip
           ic0 == Ilock(icache, s)
           ic == Relink(ic0, s, -1)
<1>1. /\ proc[p].put = <<>> /\ proc[p].pc = "bad" /\ CanLock(s) /\ Fixed
      /\ icache' = ic /\ disk' = Iupdate(disk, ic, s) /\ Goto(p, "failed", 0, 0, <<s>>)
  BY DEF LinkBad, Locking, At, Fail
<1>2. /\ proc \in [Procs -> ProcType] /\ proc[p] \in ProcType /\ icache \in CacheType
      /\ disk \in DiskType /\ PlaceOf(proc[p]) /\ s # 0 /\ s \in Inums /\ proc[p].dp = 0
      /\ proc[p].stage = "lock"
  BY <1>1, ProcFacts DEF PlaceOf, One
<1>3. LinkTarget(proc[p]) = s /\ LostLink(proc[p]) = 0
  BY <1>1, <1>2 DEF LostLink, LinkTarget
<1>4. disk[s].nlink >= 1 /\ disk[s].type # "free" /\ disk[s].nlink \in Nat
  BY <1>2, <1>3, Linked DEF IInv
<1>5. /\ ic0 \in CacheType
      /\ \A t \in Inums : ic0[t].ref = icache[t].ref /\ ic0[t].locker = icache[t].locker
      /\ \A t \in Inums \ {s} : ic0[t] = icache[t]
      /\ ic0[s].valid /\ ic0[s].type = disk[s].type /\ ic0[s].nlink = disk[s].nlink
  BY <1>2, <1>4, Readable, ReadIs
<1>6. proc[p].ip = s
  OBVIOUS
<1> HIDE DEF s, ic0
<1>7. /\ ic \in CacheType /\ ic[s].nlink = disk[s].nlink + -1
      /\ \A t \in Inums : /\ ic[t].ref = icache[t].ref /\ ic[t].locker = icache[t].locker
                          /\ ic[t].type = ic0[t].type
                          /\ t # s => /\ ic[t].nlink = icache[t].nlink
                                      /\ ic[t].valid = icache[t].valid /\ ic[t].type = icache[t].type
  <2>1. ic0[s].nlink + -1 \in Nat /\ -1 \in Int
    BY <1>4, <1>5
  <2>2. /\ ic \in CacheType /\ ic[s].nlink = ic0[s].nlink + -1
        /\ \A t \in Inums : /\ ic[t].ref = ic0[t].ref /\ ic[t].locker = ic0[t].locker
                            /\ ic[t].valid = ic0[t].valid /\ ic[t].type = ic0[t].type
                            /\ t # s => ic[t].nlink = ic0[t].nlink
    BY <1>2, <1>5, <2>1, RelinkIs
  <2> QED BY <1>5, <2>2
<1> HIDE DEF ic
<1>9. /\ disk' \in DiskType /\ disk'[s].type = ic[s].type /\ disk'[s].nlink = ic[s].nlink
      /\ \A t \in Inums \ {s} : disk'[t] = disk[t]
      /\ \A t \in Inums : disk'[t].ent = disk[t].ent
  <2> DEFINE e == disk'
  <2>1. e = Iupdate(disk, ic, s)
    BY <1>1
  <2> HIDE DEF e
  <2>2. /\ e \in DiskType /\ e[s].type = ic[s].type /\ e[s].nlink = ic[s].nlink
        /\ \A t \in Inums \ {s} : e[t] = disk[t]
        /\ \A t \in Inums : e[t].ent = disk[t].ent
    BY <1>2, <1>7, <2>1, IupdateIs, SMTT(60)
  <2> QED BY <2>2 DEF e
<1>10. /\ "failed" \in PcSet /\ 0 \in 0..NINODES /\ <<s>> \in Seq(Inums) /\ <<s>> # <<>>
  BY <1>2, FsAssumption DEF PcSet, Between
<1>11. /\ proc' \in [Procs -> ProcType] /\ Apart(p)
       /\ proc'[p].pc = "failed" /\ proc'[p].ip = 0 /\ proc'[p].dp = 0 /\ proc'[p].put = <<s>>
       /\ proc'[p].call = proc[p].call /\ proc'[p].rest = proc[p].rest
       /\ proc'[p].stage = proc[p].stage /\ proc'[p].cwd = proc[p].cwd
       /\ proc'[p].files = proc[p].files
  <2>1. proc \in [Procs -> ProcType] /\ s \in Inums /\ <<s>> \in Seq(Inums) /\ Goto(p, "failed", 0, 0, <<s>>)
    BY <1>1, <1>2, <1>10
  <2>2. "failed" \in PcSet /\ 0 \in 0..NINODES /\ p \in Procs
    BY <1>10
  <2> QED BY <2>1, <2>2, GotoIs
<1>12. PlaceOf(proc'[p])
  BY <1>2, <1>10, <1>11 DEF PlaceOf, Between, One, Two
<1>13. Naming(p)'
  BY <1>11 DEF Naming
<1>14. PlaceLock(proc'[p]) = 0 /\ LinkTarget(proc'[p]) = 0 /\ LostLink(proc'[p]) = 0
  BY <1>11 DEF PlaceLock, LinkTarget, LostLink
<1>15. ASSUME NEW t \in Inums
       PROVE  icache'[t].ref = icache[t].ref + RefCount(proc'[p], t) - RefCount(proc[p], t)
  <2>1. Eq(0, t) = 0 /\ In(<<s>>, t) = Eq(s, t) /\ Eq(s, t) \in Nat /\ icache[t].ref \in Nat
    BY <1>2, InumIs, InOne DEF Eq, CacheType
  <2>2. icache'[t].ref = icache[t].ref + Eq(proc'[p].ip, t) + Eq(proc'[p].dp, t)
                            + In(proc'[p].put, t) - Eq(proc[p].ip, t) - Eq(proc[p].dp, t)
    BY <1>1, <1>2, <1>6, <1>7, <1>11, <2>1
  <2> QED BY <1>1, <1>11, <2>2, MoveRefs
<1>16. \A t \in Inums : disk'[t].type = disk[t].type
  BY <1>5, <1>7, <1>9
<1>17. ASSUME NEW t \in Inums
       PROVE  (IF t = s THEN 0 ELSE -1) + Eq(LinkTarget(proc'[p]), t) + Eq(LostLink(proc'[p]), t)
                <= -1 + Eq(LinkTarget(proc[p]), t) + Eq(LostLink(proc[p]), t)
  BY <1>2, <1>3, <1>14, InumIs DEF Eq
<1> DEFINE k == -1
<1>18. k \in {1, -1} /\ disk[s].nlink + k \in Nat /\ disk'[s].nlink = disk[s].nlink + k
       /\ icache' \in CacheType
       /\ icache'[s].nlink = disk[s].nlink + k /\ icache'[s].type = disk[s].type
  BY <1>1, <1>2, <1>4, <1>5, <1>7, <1>9
<1>19. \A t \in Inums :
           (IF t = s THEN 0 ELSE k) + Eq(LinkTarget(proc'[p]), t) + Eq(LostLink(proc'[p]), t)
             <= k + Eq(LinkTarget(proc[p]), t) + Eq(LostLink(proc[p]), t)
  BY <1>17
<1>20. \A t \in Inums \ {s} : /\ icache'[t].locker = icache[t].locker
                              /\ icache'[t].valid = icache[t].valid
                              /\ icache'[t].type = icache[t].type
                              /\ icache'[t].nlink = icache[t].nlink
  BY <1>1, <1>7
<1>21. proc'[p].stage = "lock" /\ proc'[p].pc \notin {"created", "unlinking"}
  BY <1>2, <1>11
<1> HIDE DEF k
<1> QED BY <1>1, <1>2, <1>4, <1>9, <1>11, <1>12, <1>13, <1>14, <1>15, <1>16, <1>18,
           <1>19, <1>20, <1>21, RelinkKeeps

LEMMA LinkStep ==
  ASSUME IInv, NEW p \in Procs, Link(p)
  PROVE  IInv'
<1> DEFINE s == proc[p].ip
           ic == Ilock(icache, s)
           ic1 == Relink(ic, s, 1)
           new == Call(p).new
           b == StartAt(p, new)
<1>1. proc[p].put = <<>> /\ proc[p].pc = "link" /\ CanLock(s)
  BY DEF Link, Locking, At
<1>2. /\ proc \in [Procs -> ProcType] /\ proc[p] \in ProcType /\ icache \in CacheType
      /\ disk \in DiskType /\ PlaceOf(proc[p]) /\ s # 0 /\ s \in Inums /\ proc[p].dp = 0
      /\ proc[p].stage = "lock"
  BY <1>1, ProcFacts DEF PlaceOf, One
<1>3. CASE NoType(s)
  <2>1. Panic("ilock: no type")
    BY <1>3 DEF Link
  <2> QED BY <2>1, PanicKeeps
<1>4. CASE ~NoType(s)
  <2>1. Fixed
    BY <1>4 DEF Link
  <2>2. /\ ic \in CacheType
        /\ \A t \in Inums : ic[t].ref = icache[t].ref /\ ic[t].locker = icache[t].locker
        /\ \A t \in Inums \ {s} : ic[t] = icache[t]
        /\ ic[s].valid /\ ic[s].type = disk[s].type /\ ic[s].nlink = disk[s].nlink
        /\ disk[s].type # "free"
    BY <1>2, <1>4, ReadIs
  <2>3. CASE ic[s].type = "dir"
    <3>1. icache' = ic /\ Fail(p, <<s>>) /\ UNCHANGED disk
      BY <1>4, <2>3 DEF Link
    <3>2. CacheQuiet(p)
      BY <1>1, <1>2, <1>4, <2>2, <3>1, ReadQuiet
    <3>3. proc[p].pc \in One \ {"bad", "unlinked"}
      BY <1>1 DEF One
    <3> QED BY <1>1, <2>1, <2>2, <3>1, <3>2, <3>3, FailKeeps
  <2>4. CASE ic[s].type # "dir"
    <3>1. /\ icache' = Iget(ic1, b) /\ disk' = Iupdate(disk, ic1, s)
          /\ proc' = [proc EXCEPT ![p] = [proc[p] EXCEPT !.pc = "walknew", !.dp = s,
                        !.rest = Elements(new), !.ip = b]]
      BY <1>4, <2>4 DEF Link, Start
    <3>2. /\ new \in Paths /\ Elements(new) \in Seq(Names) /\ proc[p].call \in CallType
      BY <1>1, <1>2 DEF PlaceOf, Between, Call, CallType
    <3>3. b \in Inums /\ b # 0
      BY <1>2, InumIs DEF StartAt, ProcType
    <3>4. disk[s].type = "file" /\ disk[s].nlink \in Nat
      BY <1>2, <2>2, <2>4 DEF DiskType, InodeType
    <3>5. proc[p].ip = s
      OBVIOUS
    <3> HIDE DEF s, ic, b
    <3>6. /\ ic1 \in CacheType /\ ic1[s].nlink = disk[s].nlink + 1
          /\ \A t \in Inums : /\ ic1[t].ref = icache[t].ref /\ ic1[t].locker = icache[t].locker
                              /\ ic1[t].type = ic[t].type
                              /\ t # s => /\ ic1[t].nlink = icache[t].nlink
                                          /\ ic1[t].valid = icache[t].valid
                                          /\ ic1[t].type = icache[t].type
      <4>1. ic[s].nlink + 1 \in Nat /\ 1 \in Int
        BY <2>2, <3>4
      <4>2. /\ ic1 \in CacheType /\ ic1[s].nlink = ic[s].nlink + 1
            /\ \A t \in Inums : /\ ic1[t].ref = ic[t].ref /\ ic1[t].locker = ic[t].locker
                                /\ ic1[t].valid = ic[t].valid /\ ic1[t].type = ic[t].type
                                /\ t # s => ic1[t].nlink = ic[t].nlink
        BY <1>2, <2>2, <4>1, RelinkIs
      <4> QED BY <2>2, <4>2
    <3> HIDE DEF ic1
    <3>7. /\ disk' \in DiskType /\ disk'[s].type = ic1[s].type /\ disk'[s].nlink = ic1[s].nlink
          /\ \A t \in Inums \ {s} : disk'[t] = disk[t]
          /\ \A t \in Inums : disk'[t].ent = disk[t].ent
      <4> DEFINE e == disk'
      <4>1. e = Iupdate(disk, ic1, s)
        BY <3>1
      <4> HIDE DEF e
      <4>2. /\ e \in DiskType /\ e[s].type = ic1[s].type /\ e[s].nlink = ic1[s].nlink
            /\ \A t \in Inums \ {s} : e[t] = disk[t]
            /\ \A t \in Inums : e[t].ent = disk[t].ent
        BY <1>2, <3>6, <4>1, IupdateIs, SMTT(60)
      <4> QED BY <4>2 DEF e
    <3>8. /\ icache' \in CacheType
          /\ \A t \in Inums : /\ icache'[t].ref = ic1[t].ref + Eq(b, t)
                              /\ icache'[t].locker = ic1[t].locker
                              /\ icache'[t].valid = ic1[t].valid
                              /\ icache'[t].type = ic1[t].type
                              /\ icache'[t].nlink = ic1[t].nlink
      BY <3>1, <3>3, <3>6, IgetIs
    <3>9. "walknew" \in PcSet /\ s \in 0..NINODES /\ b \in 0..NINODES
      BY <1>2, <3>3, InumIs DEF PcSet, Two
    <3>10. proc' \in [Procs -> ProcType] /\ Apart(p)
      <4> HIDE DEF new
      <4> QED BY <1>2, <3>1, <3>2, <3>9 DEF ProcType, Apart
    <3>11. /\ proc'[p].pc = "walknew" /\ proc'[p].ip = b /\ proc'[p].dp = s
           /\ proc'[p].rest = Elements(new) /\ proc'[p].put = proc[p].put
           /\ proc'[p].call = proc[p].call /\ proc'[p].stage = proc[p].stage
           /\ proc'[p].cwd = proc[p].cwd /\ proc'[p].files = proc[p].files
      <4> HIDE DEF new
      <4> QED BY <1>2, <3>1 DEF ProcType
    <3>12. PlaceOf(proc'[p])
      BY <1>1, <1>2, <3>3, <3>11 DEF PlaceOf, Between, One, Two
    <3>13. Naming(p)'
      <4>1. Name(p)' = Last(new)
        BY <3>11 DEF Name, Call
      <4>2. Elements(new) # <<>> => Last(Elements(new)) = Last(new)
        <5> HIDE DEF new
        <5> QED BY <3>2, LastElement
      <4> QED BY <3>11, <4>1, <4>2 DEF Naming
    <3>14. PlaceLock(proc'[p]) = 0 /\ LinkTarget(proc'[p]) = s /\ LostLink(proc'[p]) = 0
           /\ LinkTarget(proc[p]) = 0 /\ LostLink(proc[p]) = 0
      BY <1>1, <3>11 DEF PlaceLock, LinkTarget, LostLink
    <3>15. ASSUME NEW t \in Inums
           PROVE  icache'[t].ref = icache[t].ref + RefCount(proc'[p], t) - RefCount(proc[p], t)
      <4>1. /\ Eq(0, t) = 0 /\ In(<<>>, t) = 0 /\ Eq(s, t) \in Nat /\ Eq(b, t) \in Nat
            /\ icache[t].ref \in Nat
        BY <1>2, InumIs, InEmpty DEF Eq, CacheType
      <4>2. icache'[t].ref = icache[t].ref + Eq(proc'[p].ip, t) + Eq(proc'[p].dp, t)
                                + In(proc'[p].put, t) - Eq(proc[p].ip, t) - Eq(proc[p].dp, t)
        BY <1>1, <1>2, <3>5, <3>6, <3>8, <3>11, <4>1
      <4> QED BY <1>1, <3>10, <3>11, <4>2, MoveRefs
    <3>16. \A t \in Inums : disk'[t].type = disk[t].type
      BY <2>2, <3>6, <3>7
    <3>17. ASSUME NEW t \in Inums
           PROVE  (IF t = s THEN 0 ELSE 1) + Eq(LinkTarget(proc'[p]), t) + Eq(LostLink(proc'[p]), t)
                    <= 1 + Eq(LinkTarget(proc[p]), t) + Eq(LostLink(proc[p]), t)
      BY <1>2, <3>14, InumIs DEF Eq
    <3> DEFINE k == 1
    <3>18. k \in {1, -1} /\ disk[s].nlink + k \in Nat /\ disk'[s].nlink = disk[s].nlink + k
           /\ icache'[s].nlink = disk[s].nlink + k /\ icache'[s].type = disk[s].type
      BY <1>2, <2>2, <3>4, <3>6, <3>7, <3>8
    <3>19. \A t \in Inums :
             (IF t = s THEN 0 ELSE k) + Eq(LinkTarget(proc'[p]), t) + Eq(LostLink(proc'[p]), t)
               <= k + Eq(LinkTarget(proc[p]), t) + Eq(LostLink(proc[p]), t)
      BY <3>17
    <3>20. \A t \in Inums \ {s} : /\ icache'[t].locker = icache[t].locker
                                  /\ icache'[t].valid = icache[t].valid
                                  /\ icache'[t].type = icache[t].type
                                  /\ icache'[t].nlink = icache[t].nlink
      BY <3>6, <3>8
    <3>21. proc'[p].stage = "lock" /\ proc'[p].pc \notin {"created", "unlinking"}
      BY <1>2, <3>11
    <3>22. LinkTarget(proc'[p]) # 0 => disk[LinkTarget(proc'[p])].type = "file"
      BY <3>4, <3>14
    <3> HIDE DEF k, new
    <3> QED BY <1>1, <1>2, <2>1, <2>2, <3>7, <3>8, <3>10, <3>12, <3>13, <3>14, <3>15, <3>16,
               <3>18, <3>19, <3>20, <3>21, <3>22, RelinkKeeps
  <2> QED BY <2>3, <2>4
<1> QED BY <1>3, <1>4

LEMMA LinkEntryStep ==
  ASSUME IInv, NEW p \in Procs, LinkEntry(p)
  PROVE  IInv'
<1> DEFINE d == proc[p].ip
           s == proc[p].dp
           ic == Ilock(icache, d)
           n == Name(p)
           i == Dirlookup(d, n)
<1>1. proc[p].put = <<>> /\ proc[p].pc = "link2" /\ CanLock(d)
  BY DEF LinkEntry, Locking, At
<1>2. /\ proc \in [Procs -> ProcType] /\ proc[p] \in ProcType /\ icache \in CacheType
      /\ disk \in DiskType /\ PlaceOf(proc[p]) /\ Naming(p) /\ d # 0 /\ d \in Inums
      /\ s # 0 /\ s \in Inums /\ proc[p].stage = "lock" /\ n \in Names
  BY <1>1, ProcFacts DEF PlaceOf, Two, Naming
<1>3. LinkTarget(proc[p]) = s /\ LostLink(proc[p]) = 0 /\ disk[s].type = "file"
  <2>1. LinkTarget(proc[p]) = s /\ LostLink(proc[p]) = 0
    BY <1>1 DEF LinkTarget, LostLink
  <2> QED BY <1>2, <2>1 DEF IInv, Entries, EntryOf
<1>4. proc[p].ip = d /\ proc[p].dp = s
  OBVIOUS
<1>5. CASE NoType(d)
  <2>1. Panic("ilock: no type")
    BY <1>5 DEF LinkEntry
  <2> QED BY <2>1, PanicKeeps
<1>6. CASE ~NoType(d)
  <2>1. Fixed
    BY <1>6 DEF LinkEntry
  <2>2. /\ ic \in CacheType
        /\ \A t \in Inums : ic[t].ref = icache[t].ref /\ ic[t].locker = icache[t].locker
        /\ \A t \in Inums \ {d} : ic[t] = icache[t]
        /\ ic[d].valid /\ ic[d].type = disk[d].type /\ ic[d].nlink = disk[d].nlink
        /\ disk[d].type # "free"
    BY <1>2, <1>6, ReadIs
  <2>3. CASE i # 0
    <3>1. icache' = Take(Iget(ic, i), d, p) /\ Goto(p, "linked", s, d, <<i>>) /\ UNCHANGED disk
      BY <1>6, <2>3 DEF LinkEntry
    <3>2. i \in Inums
      BY <1>2, <2>3, EntryIs
    <3>3. /\ icache' \in CacheType
          /\ \A t \in Inums : /\ icache'[t].ref = ic[t].ref + Eq(i, t)
                              /\ icache'[t].locker = IF t = d THEN p ELSE ic[t].locker
                              /\ icache'[t].valid = ic[t].valid
                              /\ icache'[t].type = ic[t].type
                              /\ icache'[t].nlink = ic[t].nlink
      <4> HIDE DEF ic, i, d, s, n
      <4> DEFINE ic2 == Iget(ic, i)
      <4>1. /\ ic2 \in CacheType
            /\ \A t \in Inums : /\ ic2[t].ref = ic[t].ref + Eq(i, t)
                                /\ ic2[t].locker = ic[t].locker
                                /\ ic2[t].valid = ic[t].valid
                                /\ ic2[t].type = ic[t].type
                                /\ ic2[t].nlink = ic[t].nlink
        BY <2>2, <3>2, IgetIs
      <4>2. icache' = Take(ic2, d, p)
        BY <3>1
      <4> HIDE DEF ic2
      <4>3. d \in Inums /\ ic2 \in CacheType
        BY <1>2, <4>1
      <4>4. /\ Take(ic2, d, p) \in CacheType
            /\ \A t \in Inums : /\ Take(ic2, d, p)[t].ref = ic2[t].ref
                                /\ Take(ic2, d, p)[t].valid = ic2[t].valid
                                /\ Take(ic2, d, p)[t].type = ic2[t].type
                                /\ Take(ic2, d, p)[t].nlink = ic2[t].nlink
                                /\ Take(ic2, d, p)[t].locker = IF t = d THEN p ELSE ic2[t].locker
        BY <4>3, TakeIs
      <4> QED BY <4>1, <4>2, <4>4
    <3>4. CacheQuiet(p)
      BY <1>1, <1>2, <1>6, <3>3, ReadQuiet
    <3> HIDE DEF i, d, s, ic, n
    <3>5. s \in 0..NINODES /\ d \in 0..NINODES /\ <<i>> \in Seq(Inums)
      BY <1>2, <3>2, InumIs
    <3>6. "linked" \in PcSet /\ Arrives(p, "linked", s, d)
      BY <1>1, <1>2, <1>3, <2>2, <3>3, <3>5 DEF Arrives, PcSet, Between, One, Two
    <3>7. \A t \in Inums : icache'[t].ref = icache[t].ref + Eq(s, t) + Eq(d, t) + In(<<i>>, t)
                             - Eq(proc[p].ip, t) - Eq(proc[p].dp, t)
      <4> SUFFICES ASSUME NEW t \in Inums
                   PROVE  icache'[t].ref = icache[t].ref + Eq(s, t) + Eq(d, t) + In(<<i>>, t)
                             - Eq(d, t) - Eq(s, t)
        BY <1>4
      <4>1. /\ In(<<i>>, t) = Eq(i, t) /\ Eq(s, t) \in Nat /\ Eq(d, t) \in Nat /\ Eq(i, t) \in Nat
            /\ icache[t].ref \in Nat
        BY <1>2, <3>2, InOne DEF Eq, CacheType
      <4> QED BY <2>2, <3>3, <4>1
    <3> QED BY <1>1, <2>1, <3>1, <3>4, <3>5, <3>6, <3>7, GotoMove
  <2>4. CASE i = 0
    <3>1. icache' = ic /\ disk' = WriteEntry(disk, d, n, s) /\ Goto(p, "end", 0, 0, <<d, s>>)
      BY <1>6, <2>4 DEF LinkEntry, Finish
    <3> HIDE DEF i, d, s, ic, n
    <3> DEFINE e == disk'
    <3>2. /\ e \in DiskType
          /\ \A t \in Inums : e[t].type = disk[t].type /\ e[t].nlink = disk[t].nlink
          /\ \A t \in Inums \ {d} : e[t] = disk[t]
          /\ \A t \in Inums, m \in Names : e[t].ent[m] = IF t = d /\ m = n THEN s ELSE disk[t].ent[m]
      <4>1. e = WriteEntry(disk, d, n, s) /\ s \in 0..NINODES
        BY <1>2, <3>1, InumIs
      <4> HIDE DEF e
      <4> QED BY <1>2, <4>1, WriteIs
    <3> HIDE DEF e
    <3>3. /\ "end" \in PcSet /\ 0 \in 0..NINODES /\ <<d, s>> \in Seq(Inums) /\ <<d, s>> # <<>>
      BY <1>2, FsAssumption DEF PcSet, Between
    <3>4. /\ proc' \in [Procs -> ProcType] /\ Apart(p)
          /\ proc'[p].pc = "end" /\ proc'[p].ip = 0 /\ proc'[p].dp = 0 /\ proc'[p].put = <<d, s>>
          /\ proc'[p].call = proc[p].call /\ proc'[p].rest = proc[p].rest
          /\ proc'[p].stage = proc[p].stage /\ proc'[p].cwd = proc[p].cwd
          /\ proc'[p].files = proc[p].files
      BY <1>2, <3>1, <3>3, GotoIs
    <3>5. \A q \in Procs \ {p} : ~Holds(q, d)
      BY <1>1, <1>2, Exclusive DEF IInv
    <3>6. LocksLeft(p)
      <4> SUFFICES ASSUME NEW q \in Procs \ {p}, NEW t \in Inums, Holds(q, t)
                   PROVE  /\ icache'[t].locker = icache[t].locker /\ icache'[t].valid = icache[t].valid
                          /\ e[t] = disk[t]
        BY DEF LocksLeft, e
      <4>1. t # d
        BY <3>5
      <4> QED BY <2>2, <3>1, <3>2, <4>1
    <3>7. PlaceOf(proc'[p])
      BY <1>2, <3>3, <3>4 DEF PlaceOf, Between, One, Two
    <3>8. Naming(p)'
      BY <3>4 DEF Naming
    <3>9. Freed(proc'[p]) = 0 /\ PlaceLock(proc'[p]) = 0
          /\ LinkTarget(proc'[p]) = 0 /\ LostLink(proc'[p]) = 0
      BY <1>2, <3>4 DEF Freed, PlaceLock, LinkTarget, LostLink
    <3>10. EntryOf(p)'
      BY <3>4, <3>9 DEF EntryOf
    <3>11. ASSUME NEW t \in Inums
           PROVE  icache'[t].ref = icache[t].ref + RefCount(proc'[p], t) - RefCount(proc[p], t)
      <4>1. /\ Eq(0, t) = 0 /\ In(<<d, s>>, t) = Eq(d, t) + Eq(s, t) /\ Eq(s, t) \in Nat
            /\ Eq(d, t) \in Nat /\ icache[t].ref \in Nat
        BY <1>2, InumIs, InTwo DEF Eq, CacheType
      <4>2. icache'[t].ref = icache[t].ref + Eq(proc'[p].ip, t) + Eq(proc'[p].dp, t)
                                + In(proc'[p].put, t) - Eq(proc[p].ip, t) - Eq(proc[p].dp, t)
        BY <1>4, <2>2, <3>1, <3>4, <4>1
      <4> QED BY <1>1, <3>4, <4>2, MoveRefs
    <3>12. \A t \in Inums : PlaceLock(proc'[p]) = t \/ Freed(proc'[p]) = t =>
             icache'[t].locker = p /\ icache'[t].valid
      BY <3>9, InumIs
    <3>13. Coherent'
      <4> SUFFICES ASSUME NEW t \in Inums, icache'[t].valid
                   PROVE  /\ icache'[t].type = e[t].type /\ icache'[t].nlink = e[t].nlink
                          /\ e[t].type # "free"
        BY DEF Coherent, e
      <4>1. CASE t = d
        BY <2>2, <3>1, <3>2, <4>1
      <4>2. CASE t # d
        BY <2>2, <3>1, <3>2, <4>2 DEF IInv, Coherent
      <4> QED BY <4>1, <4>2
    <3>14. \A t \in Inums : disk[t].type # "free" /\ t # Freed(proc[p]) => e[t].type = disk[t].type
      BY <3>2
    <3>15. \A q \in Procs : proc[q].pc = "created" => Freed(proc'[p]) # proc[q].ip
      BY <3>9, ProcFacts DEF PlaceOf, Two
    <3>16. FreeIsFree(e)
      <4> SUFFICES ASSUME NEW t \in Inums, e[t].type = "free" PROVE e[t] = Free
        BY DEF FreeIsFree
      <4>1. t # d
        BY <2>2, <3>2
      <4> QED BY <3>2, <4>1 DEF IInv, Links, FreeIsFree
    <3>17. ASSUME NEW t \in Inums
           PROVE  disk[t].nlink + Counted(e, t) + Eq(LinkTarget(proc'[p]), t) + Eq(LostLink(proc'[p]), t)
                 <= e[t].nlink + Counted(disk, t) + Eq(LinkTarget(proc[p]), t) + Eq(LostLink(proc[p]), t)
      <4> DEFINE c == Counted(e, t)
                 a == Counted(disk, t)
      <4>1. c <= a + Eq(s, t) + (IF disk[s].type = "dir" THEN Eq(d, t) ELSE 0)
        BY <1>2, <3>2, EntryMade
      <4>2. /\ c \in Nat /\ a \in Nat /\ disk[t].nlink \in Nat /\ e[t].nlink = disk[t].nlink
        BY <1>2, <3>2, CountedIs
      <4>3. /\ Eq(LinkTarget(proc'[p]), t) = 0 /\ Eq(LostLink(proc'[p]), t) = 0
            /\ Eq(LinkTarget(proc[p]), t) = Eq(s, t) /\ Eq(LostLink(proc[p]), t) = 0
            /\ Eq(s, t) \in Nat
        BY <1>3, <3>9, InumIs DEF Eq
      <4> HIDE DEF c, a
      <4>4. disk[t].nlink + c + 0 + 0 <= e[t].nlink + a + Eq(s, t) + 0
        BY <1>3, <4>1, <4>2, <4>3
      <4> QED BY <4>3, <4>4 DEF c, a
    <3> QED BY <1>2, <2>1, <2>2, <3>1, <3>2, <3>4, <3>6, <3>7, <3>8, <3>9, <3>10, <3>11, <3>12, <3>13,
               <3>14, <3>15, <3>16, <3>17, ChangeKeeps DEF e
  <2> QED BY <2>3, <2>4
<1> QED BY <1>5, <1>6

\* The cache when unlink() has locked s too, and has counted one link less of its parent.
Locked(s, p)      == Take(Ilock(icache, s), s, p)
Lessened(s, d, p) == Relink(Locked(s, p), d, -ParentLink(Locked(s, p), s))

\* A directory that stays, as it is not empty.
LEMMA UnlinkingStays ==
  ASSUME IInv, NEW p \in Procs, proc[p].put = <<>>, proc[p].pc = "unlinking", NEW s \in Inums,
         s = proc[p].ip, CanLock(s), ~NoType(s), Fixed, UNCHANGED disk,
         icache' = Drop(Locked(s, p), s),
         Goto(p, "notempty", 0, proc[p].dp, <<s>>)
  PROVE  IInv'
<1> DEFINE d == proc[p].dp
           ic0 == Ilock(icache, s)
           ic == Take(ic0, s, p)
<1>1. /\ proc[p] \in ProcType /\ icache \in CacheType /\ PlaceOf(proc[p])
      /\ d # 0 /\ d \in Inums /\ proc[p].dp = d
  BY ProcFacts DEF PlaceOf, Two
<1>2. icache[d].locker = p /\ icache[d].valid
  BY <1>1 DEF IInv, Holding, Holds, PlaceLock
<1>3. s # d
  BY <1>2, FsAssumption DEF CanLock
<1>4. /\ ic0 \in CacheType
      /\ \A t \in Inums : ic0[t].ref = icache[t].ref /\ ic0[t].locker = icache[t].locker
      /\ \A t \in Inums \ {s} : ic0[t] = icache[t]
  BY ReadIs
<1>6. icache' = Drop(ic, s) /\ ic0 = Ilock(icache, s)
  BY DEF Locked
<1> HIDE DEF ic0, d
<1>5. /\ ic \in CacheType
      /\ \A t \in Inums : /\ ic[t].ref = ic0[t].ref /\ ic[t].valid = ic0[t].valid
                          /\ ic[t].type = ic0[t].type /\ ic[t].nlink = ic0[t].nlink
                          /\ t # s => ic[t].locker = ic0[t].locker
  <2>1. ic0 \in CacheType /\ s \in Inums /\ p \in Procs
    BY <1>4
  <2>2. /\ Take(ic0, s, p) \in CacheType
        /\ \A t \in Inums : /\ Take(ic0, s, p)[t].ref = ic0[t].ref
                            /\ Take(ic0, s, p)[t].valid = ic0[t].valid
                            /\ Take(ic0, s, p)[t].type = ic0[t].type
                            /\ Take(ic0, s, p)[t].nlink = ic0[t].nlink
                            /\ Take(ic0, s, p)[t].locker = IF t = s THEN p ELSE ic0[t].locker
    BY ONLY <2>1, TakeIs
  <2> QED BY <2>2
<1> HIDE DEF ic
<1>7. /\ icache' \in CacheType
      /\ \A t \in Inums : /\ icache'[t].ref = ic[t].ref /\ icache'[t].valid = ic[t].valid
                          /\ icache'[t].type = ic[t].type /\ icache'[t].nlink = ic[t].nlink
                          /\ t # s => icache'[t].locker = ic[t].locker
  BY <1>5, <1>6, TakeIs
<1>8. /\ \A t \in Inums : /\ icache'[t].ref = icache[t].ref /\ icache'[t].valid = ic0[t].valid
                          /\ icache'[t].type = ic0[t].type /\ icache'[t].nlink = ic0[t].nlink
                          /\ t # s => icache'[t].locker = ic0[t].locker
  BY <1>4, <1>5, <1>7
<1>9. CacheQuiet(p)
  BY <1>6, <1>7, <1>8, ReadQuiet
<1>10. "notempty" \in PcSet /\ 0 \in 0..NINODES /\ d \in 0..NINODES /\ <<s>> \in Seq(Inums)
  BY <1>1, InumIs, FsAssumption DEF PcSet
<1>11. Arrives(p, "notempty", 0, d)
  BY <1>1, <1>2, <1>3, <1>4, <1>8, <1>10 DEF Arrives, Between, One, Two, LinkTarget, LostLink
<1>12. \A t \in Inums : icache'[t].ref = icache[t].ref + Eq(0, t) + Eq(d, t) + In(<<s>>, t)
                          - Eq(proc[p].ip, t) - Eq(proc[p].dp, t)
  <2> SUFFICES ASSUME NEW t \in Inums
               PROVE  icache'[t].ref = icache[t].ref + Eq(0, t) + Eq(d, t) + In(<<s>>, t)
                          - Eq(s, t) - Eq(d, t)
    BY <1>1
  <2>1. /\ In(<<s>>, t) = Eq(s, t) /\ Eq(0, t) = 0 /\ Eq(s, t) \in Nat /\ Eq(d, t) \in Nat
        /\ icache[t].ref \in Nat
    BY <1>1, InOne, InumIs DEF Eq, CacheType
  <2> QED BY <1>8, <2>1
<1> QED BY <1>9, <1>10, <1>11, <1>12, GotoMove DEF d

LEMMA UnlinkingGoes ==
  ASSUME IInv, NEW p \in Procs, proc[p].put = <<>>, proc[p].pc = "unlinking", NEW s \in Inums,
         s = proc[p].ip, CanLock(s), ~NoType(s), Fixed, NEW d \in Inums, d = proc[p].dp,
         NEW n \in Names \ Dots, disk[d].ent[n] = s,
         disk' = Iupdate(WriteEntry(disk, d, n, 0), Lessened(s, d, p), d),
         icache' = Drop(Lessened(s, d, p), d),
         Goto(p, "unlinked", s, 0, <<d>>)
  PROVE  IInv'
<1> DEFINE k == IF disk[s].type = "dir" THEN 1 ELSE 0
           j == -k
           ic0 == Ilock(icache, s)
           ic == Take(ic0, s, p)
           less == Lessened(s, d, p)
           w == WriteEntry(disk, d, n, 0)
           e == disk'
<1>0. less = Relink(ic, d, -ParentLink(ic, s))
  BY DEF Lessened, Locked
<1>1. /\ proc \in [Procs -> ProcType] /\ proc[p] \in ProcType /\ icache \in CacheType
      /\ disk \in DiskType /\ PlaceOf(proc[p]) /\ proc[p].stage = "lock"
      /\ proc[p].ip = s /\ proc[p].dp = d
  BY ProcFacts DEF PlaceOf
<1>2. PlaceLock(proc[p]) = d /\ Holds(p, d)
  BY InumIs DEF PlaceLock, Holds
<1>3. /\ icache[d].locker = p /\ icache[d].valid /\ icache[d].type = disk[d].type
      /\ icache[d].nlink = disk[d].nlink /\ disk[d].type # "free"
  BY <1>2 DEF IInv, Holding, Coherent
<1>4. s # d /\ s \in Inums /\ d \in Inums /\ p \in Procs
  BY <1>3, FsAssumption DEF CanLock
<1>5. /\ ic0 \in CacheType
      /\ \A t \in Inums : ic0[t].ref = icache[t].ref /\ ic0[t].locker = icache[t].locker
      /\ \A t \in Inums \ {s} : ic0[t] = icache[t]
      /\ ic0[s].valid /\ ic0[s].type = disk[s].type /\ ic0[s].nlink = disk[s].nlink
      /\ disk[s].type # "free"
  BY ReadIs
<1> HIDE DEF ic0
<1>6. /\ ic \in CacheType
      /\ \A t \in Inums : /\ ic[t].ref = ic0[t].ref /\ ic[t].valid = ic0[t].valid
                          /\ ic[t].type = ic0[t].type /\ ic[t].nlink = ic0[t].nlink
                          /\ ic[t].locker = IF t = s THEN p ELSE ic0[t].locker
  <2>1. ic0 \in CacheType /\ s \in Inums /\ p \in Procs
    BY <1>5
  <2>2. /\ Take(ic0, s, p) \in CacheType
        /\ \A t \in Inums : /\ Take(ic0, s, p)[t].ref = ic0[t].ref
                            /\ Take(ic0, s, p)[t].valid = ic0[t].valid
                            /\ Take(ic0, s, p)[t].type = ic0[t].type
                            /\ Take(ic0, s, p)[t].nlink = ic0[t].nlink
                            /\ Take(ic0, s, p)[t].locker = IF t = s THEN p ELSE ic0[t].locker
    BY ONLY <2>1, TakeIs
  <2> QED BY <2>2
<1> HIDE DEF ic, less
<1>7. ParentLink(ic, s) = k /\ k \in Nat /\ j = -k /\ j \in Int
  BY <1>5, <1>6 DEF ParentLink
<1>8. disk[d].nlink \in Nat /\ disk[d].nlink + j \in Nat
  <2>1. disk[d].nlink \in Nat /\ Counted(disk, d) \in Nat /\ IsFiniteSet(Subs(disk, d))
        /\ Cardinality(Subs(disk, d)) \in Nat /\ Cardinality(NamesOf(disk, d)) \in Nat
    BY <1>1, CountedIs
  <2>2. disk[d].nlink >= Counted(disk, d)
    <3>1. Cardinality(Linking(d)) \in Nat /\ Cardinality(Losing(d)) \in Nat
      BY <1>1, LinkSets
    <3> QED BY <2>1, <3>1 DEF IInv, Links
  <2>3. Counted(disk, d) >= Cardinality(Subs(disk, d))
    BY <2>1 DEF Counted
  <2>4. CASE disk[s].type = "dir"
    <3>1. n \in Subs(disk, d)
      BY <2>4, InumIs DEF Subs
    <3>2. Cardinality(Subs(disk, d)) >= 1
      BY <2>1, <3>1, NotEmpty
    <3>3. k = 1
      BY <2>4
    <3> HIDE DEF k
    <3> QED BY <2>1, <2>2, <2>3, <3>2, <3>3
  <2>5. CASE disk[s].type # "dir"
    BY <2>1, <2>5
  <2> QED BY <2>4, <2>5
<1>9. /\ less \in CacheType /\ less[d].nlink = disk[d].nlink + j
      /\ \A t \in Inums : /\ less[t].ref = icache[t].ref /\ less[t].locker = ic[t].locker
                          /\ less[t].valid = ic0[t].valid /\ less[t].type = ic0[t].type
                          /\ t # d => less[t].nlink = ic0[t].nlink
  <2>0. ic[d].nlink = disk[d].nlink
    BY ONLY <1>3, <1>4, <1>5, <1>6
  <2>1. j \in Int /\ less = Relink(ic, d, j) /\ ic[d].nlink + j = disk[d].nlink + j
        /\ disk[d].nlink + j \in Nat
    BY ONLY <1>0, <1>7, <1>8, <2>0
  <2> HIDE DEF k, j
  <2>2. /\ less \in CacheType /\ less[d].nlink = ic[d].nlink + j
        /\ \A t \in Inums : /\ less[t].ref = ic[t].ref /\ less[t].locker = ic[t].locker
                            /\ less[t].valid = ic[t].valid /\ less[t].type = ic[t].type
                            /\ t # d => less[t].nlink = ic[t].nlink
    BY ONLY <1>4, <1>6, <2>1, RelinkIs, SMTT(60)
  <2>3. less[d].nlink = disk[d].nlink + j
    BY <2>1, <2>2
  <2>4. \A t \in Inums : /\ less[t].ref = icache[t].ref /\ less[t].locker = ic[t].locker
                         /\ less[t].valid = ic0[t].valid /\ less[t].type = ic0[t].type
                         /\ t # d => less[t].nlink = ic0[t].nlink
    BY <1>5, <1>6, <2>2
  <2>5. less \in CacheType
    BY <2>2
  <2> QED BY ONLY <2>3, <2>4, <2>5
<1>10. /\ w \in DiskType
       /\ \A t \in Inums : w[t].type = disk[t].type /\ w[t].nlink = disk[t].nlink
       /\ \A t \in Inums \ {d} : w[t] = disk[t]
       /\ \A t \in Inums, m \in Names : w[t].ent[m] = IF t = d /\ m = n THEN 0 ELSE disk[t].ent[m]
  <2>1. 0 \in 0..NINODES
    BY FsAssumption
  <2> QED BY <1>1, <2>1, WriteIs
<1> HIDE DEF w, k, j
<1>11. /\ e \in DiskType /\ e[d].type = less[d].type /\ e[d].nlink = less[d].nlink
       /\ \A t \in Inums \ {d} : e[t] = w[t]
       /\ \A t \in Inums : e[t].ent = w[t].ent
  <2>1. e = Iupdate(w, less, d)
    BY DEF w, less
  <2> HIDE DEF e
  <2> QED BY <1>9, <1>10, <2>1, IupdateIs, SMTT(60)
<1> HIDE DEF e
<1>12. /\ \A t \in Inums : e[t].type = disk[t].type
       /\ e[d].nlink = disk[d].nlink + j
       /\ \A t \in Inums \ {d} : e[t] = disk[t]
  <2>1. less[d].type = disk[d].type
    BY ONLY <1>3, <1>4, <1>5, <1>9
  <2>2. \A t \in Inums \ {d} : e[t] = disk[t]
    BY ONLY <1>10, <1>11
  <2>3. e[d].type = disk[d].type /\ e[d].nlink = disk[d].nlink + j
    BY ONLY <1>9, <1>11, <2>1
  <2> QED BY ONLY <2>2, <2>3
<1>13. /\ icache' \in CacheType
       /\ \A t \in Inums : /\ icache'[t].ref = icache[t].ref /\ icache'[t].valid = ic0[t].valid
                           /\ icache'[t].type = ic0[t].type /\ icache'[t].nlink = less[t].nlink
                           /\ icache'[t].locker = IF t = d THEN NoProc
                                                  ELSE IF t = s THEN p ELSE icache[t].locker
  <2>1. /\ Drop(less, d) \in CacheType
        /\ \A t \in Inums : /\ Drop(less, d)[t].ref = less[t].ref
                            /\ Drop(less, d)[t].valid = less[t].valid
                            /\ Drop(less, d)[t].type = less[t].type
                            /\ Drop(less, d)[t].nlink = less[t].nlink
                            /\ Drop(less, d)[t].locker = IF t = d THEN NoProc ELSE less[t].locker
    BY ONLY <1>4, <1>9, TakeIs, SMTT(60)
  <2>2. icache' = Drop(less, d)
    BY DEF less
  <2>3. /\ icache' \in CacheType
        /\ \A t \in Inums : /\ icache'[t].ref = less[t].ref
                            /\ icache'[t].valid = less[t].valid
                            /\ icache'[t].type = less[t].type
                            /\ icache'[t].nlink = less[t].nlink
                            /\ icache'[t].locker = IF t = d THEN NoProc ELSE less[t].locker
    BY ONLY <2>1, <2>2
  <2>4. \A t \in Inums : /\ less[t].ref = icache[t].ref /\ less[t].valid = ic0[t].valid
                         /\ less[t].type = ic0[t].type
                         /\ less[t].locker = IF t = s THEN p ELSE icache[t].locker
    BY ONLY <1>5, <1>6, <1>9
  <2> QED BY ONLY <2>3, <2>4
<1>14. /\ "unlinked" \in PcSet /\ s \in 0..NINODES /\ 0 \in 0..NINODES /\ <<d>> \in Seq(Inums)
       /\ <<d>> # <<>> /\ s # 0
  BY InumIs, FsAssumption DEF PcSet, One
<1>15. /\ proc' \in [Procs -> ProcType] /\ Apart(p)
       /\ proc'[p].pc = "unlinked" /\ proc'[p].ip = s /\ proc'[p].dp = 0 /\ proc'[p].put = <<d>>
       /\ proc'[p].call = proc[p].call /\ proc'[p].rest = proc[p].rest
       /\ proc'[p].stage = proc[p].stage /\ proc'[p].cwd = proc[p].cwd
       /\ proc'[p].files = proc[p].files
  BY <1>1, <1>14, GotoIs
<1>16. \A q \in Procs \ {p} : ~Holds(q, s) /\ ~Holds(q, d)
  BY <1>2, Exclusive DEF IInv
<1>17. LocksLeft(p)
  <2> SUFFICES ASSUME NEW q \in Procs \ {p}, NEW t \in Inums, Holds(q, t)
               PROVE  /\ icache'[t].locker = icache[t].locker /\ icache'[t].valid = icache[t].valid
                      /\ e[t] = disk[t]
    BY DEF LocksLeft, e
  <2>1. t # d /\ t # s
    BY <1>16
  <2>2. e[t] = disk[t]
    BY <1>12, <2>1
  <2>3. icache'[t].locker = icache[t].locker /\ icache'[t].valid = ic0[t].valid
    BY <1>13, <2>1
  <2>4. ic0[t] = icache[t]
    BY <1>5, <2>1
  <2> QED BY <2>2, <2>3, <2>4
<1>18. PlaceOf(proc'[p])
  BY <1>1, <1>14, <1>15 DEF PlaceOf, Between, One, Two
<1>19. Naming(p)'
  BY <1>15 DEF Naming
<1>20. Freed(proc'[p]) = 0 /\ PlaceLock(proc'[p]) = s
       /\ LinkTarget(proc'[p]) = 0 /\ LostLink(proc'[p]) = s
       /\ LinkTarget(proc[p]) = 0 /\ LostLink(proc[p]) = 0
  BY <1>1, <1>15 DEF Freed, PlaceLock, LinkTarget, LostLink
<1>21. EntryOf(p)'
  BY <1>15, <1>20 DEF EntryOf
<1>22. ASSUME NEW t \in Inums
       PROVE  icache'[t].ref = icache[t].ref + RefCount(proc'[p], t) - RefCount(proc[p], t)
  <2>1. Eq(0, t) = 0 /\ In(<<d>>, t) = Eq(d, t) /\ Eq(s, t) \in Nat /\ Eq(d, t) \in Nat
        /\ icache[t].ref \in Nat
    BY <1>1, InumIs, InOne DEF Eq, CacheType
  <2>2. icache'[t].ref = icache[t].ref + Eq(proc'[p].ip, t) + Eq(proc'[p].dp, t)
                            + In(proc'[p].put, t) - Eq(proc[p].ip, t) - Eq(proc[p].dp, t)
    BY <1>1, <1>13, <1>15, <2>1
  <2> QED BY <1>1, <1>15, <2>2, MoveRefs
<1>23. \A t \in Inums : PlaceLock(proc'[p]) = t \/ Freed(proc'[p]) = t =>
         icache'[t].locker = p /\ icache'[t].valid
  <2>1. s \in Inums /\ s # d /\ ic0[s].valid
    BY ONLY <1>4, <1>5
  <2>2. \A t \in Inums : PlaceLock(proc'[p]) = t \/ Freed(proc'[p]) = t => t = s
    BY ONLY <1>20, InumIs
  <2>3. icache'[s].locker = p /\ icache'[s].valid
    BY ONLY <1>13, <2>1
  <2> QED BY ONLY <2>2, <2>3
<1>24. Coherent'
  <2> SUFFICES ASSUME NEW t \in Inums, icache'[t].valid
               PROVE  /\ icache'[t].type = e[t].type /\ icache'[t].nlink = e[t].nlink
                      /\ e[t].type # "free"
    BY DEF Coherent, e
  <2>1. CASE t = s
    <3>1. icache'[t].type = ic0[s].type /\ icache'[t].nlink = less[s].nlink
      BY ONLY <1>4, <1>13, <2>1
    <3>2. less[s].nlink = ic0[s].nlink
      BY <1>4, <1>9
    <3>3. e[t].type = disk[s].type /\ e[t].nlink = disk[s].nlink
      BY <1>4, <1>12, <2>1
    <3> QED BY <1>5, <3>1, <3>2, <3>3
  <2>2. CASE t = d
    <3>1. icache'[t].type = ic0[d].type /\ icache'[t].nlink = less[d].nlink
      BY ONLY <1>4, <1>13, <2>2
    <3>2. ic0[d].type = disk[d].type /\ less[d].nlink = disk[d].nlink + j
      BY <1>3, <1>4, <1>5, <1>9
    <3>3. e[t].type = disk[d].type /\ e[t].nlink = disk[d].nlink + j
      BY <1>12, <2>2
    <3> QED BY <1>3, <3>1, <3>2, <3>3
  <2>3. CASE t # s /\ t # d
    <3>1. icache[t].valid
      BY <1>5, <1>13, <2>3
    <3>2. icache[t].type = disk[t].type /\ icache[t].nlink = disk[t].nlink /\ disk[t].type # "free"
      BY <3>1 DEF IInv, Coherent
    <3>3. icache'[t].type = ic0[t].type /\ icache'[t].nlink = less[t].nlink
      BY <1>13
    <3>4. less[t].nlink = ic0[t].nlink /\ ic0[t] = icache[t]
      BY <1>5, <1>9, <2>3
    <3>5. e[t] = disk[t]
      BY <1>12, <2>3
    <3> QED BY <3>2, <3>3, <3>4, <3>5
  <2> QED BY <2>1, <2>2, <2>3
<1>25. \A t \in Inums : disk[t].type # "free" /\ t # Freed(proc[p]) => e[t].type = disk[t].type
  BY <1>12
<1>26. \A q \in Procs : proc[q].pc = "created" => Freed(proc'[p]) # proc[q].ip
  BY <1>20, ProcFacts DEF PlaceOf, Two
<1>27. FreeIsFree(e)
  <2> SUFFICES ASSUME NEW t \in Inums, e[t].type = "free" PROVE e[t] = Free
    BY DEF FreeIsFree
  <2>1. t # d
    BY <1>3, <1>12
  <2> QED BY <1>12, <2>1 DEF IInv, Links, FreeIsFree
<1>28. ASSUME NEW t \in Inums
       PROVE  disk[t].nlink + Counted(e, t) + Eq(LinkTarget(proc'[p]), t) + Eq(LostLink(proc'[p]), t)
             <= e[t].nlink + Counted(disk, t) + Eq(LinkTarget(proc[p]), t) + Eq(LostLink(proc[p]), t)
  <2> DEFINE c == Counted(e, t)
             a == Counted(disk, t)
             m == IF disk[s].type = "dir" THEN Eq(d, t) ELSE 0
  <2>1. Counted(w, t) + Eq(s, t) + m <= a
    <3>1. \A y \in Inums, x \in Names \ Dots :
            w[y].ent[x] = IF y = d /\ x = n THEN 0 ELSE disk[y].ent[x]
      BY <1>10
    <3> QED BY <1>1, <1>10, <3>1, EntryGone
  <2>2. c = Counted(w, t)
    BY <1>10, <1>11, <1>12, CountedSame
  <2>3. /\ c \in Nat /\ a \in Nat /\ disk[t].nlink \in Nat /\ e[t].nlink \in Nat
    BY <1>1, <1>11, CountedIs
  <2>4. /\ Eq(LinkTarget(proc'[p]), t) = 0 /\ Eq(LostLink(proc'[p]), t) = Eq(s, t)
        /\ Eq(LinkTarget(proc[p]), t) = 0 /\ Eq(LostLink(proc[p]), t) = 0
        /\ Eq(s, t) \in Nat /\ m \in Nat
    BY <1>20, InumIs DEF Eq
  <2>5. disk[t].nlink = e[t].nlink + m
    <3>1. CASE t = d
      BY <1>8, <1>12, <3>1 DEF k, j, Eq
    <3>2. CASE t # d
      BY <1>12, <2>3, <3>2 DEF Eq
    <3> QED BY <3>1, <3>2
  <2> HIDE DEF c, a, m
  <2>6. disk[t].nlink + c + 0 + Eq(s, t) <= e[t].nlink + a + 0 + 0
    BY <2>1, <2>2, <2>3, <2>4, <2>5, SMTT(60)
  <2> QED BY <2>4, <2>6 DEF c, a
<1> QED BY <1>1, <1>11, <1>13, <1>15, <1>17, <1>18, <1>19, <1>20, <1>21, <1>22, <1>23, <1>24, <1>25,
           <1>26, <1>27, <1>28, ChangeKeeps DEF e

LEMMA UnlinkingStep ==
  ASSUME IInv, NEW p \in Procs, Unlinking(p)
  PROVE  IInv'
<1> DEFINE s == proc[p].ip
           d == proc[p].dp
           n == Name(p)
           ic0 == Ilock(icache, s)
           ic == Take(ic0, s, p)
           less == Relink(ic, d, -ParentLink(ic, s))
<1>1. proc[p].put = <<>> /\ proc[p].pc = "unlinking" /\ CanLock(s)
  BY DEF Unlinking, Locking, At
<1>2. /\ s \in Inums /\ d \in Inums /\ n \in Names \ Dots /\ disk[d].ent[n] = s
      /\ icache \in CacheType
  <2>1. s \in Inums /\ d \in Inums /\ n \in Names /\ icache \in CacheType
    BY <1>1, ProcFacts DEF PlaceOf, Two, Naming
  <2>2. n \notin Dots /\ disk[d].ent[n] = s
    BY <1>1 DEF IInv, Entries, EntryOf
  <2> QED BY <2>1, <2>2
<1>3. CASE NoType(s)
  <2>1. Panic("ilock: no type")
    BY <1>3 DEF Unlinking
  <2> QED BY <2>1, PanicKeeps
<1>4. CASE ~NoType(s)
  <2>1. /\ ic0 \in CacheType /\ ic0[s].nlink = disk[s].nlink
    BY <1>2, <1>4, ReadIs
  <2>2. ic[s].nlink = ic0[s].nlink
    <3> HIDE DEF ic0, s
    <3> QED BY <1>2, <2>1, TakeIs
  <2>3. disk[s].nlink >= 1 /\ disk[s].nlink \in Nat
    BY <1>2, Linked DEF IInv
  <2>4. ~(ic[s].nlink < 1)
    <3> HIDE DEF ic, ic0, s
    <3> QED BY <2>1, <2>2, <2>3
  <2>5. Fixed
    BY <1>4, <2>4 DEF Unlinking
  <2>6. CASE ic[s].type = "dir" /\ ~Isdirempty(s)
    <3>1. icache' = Drop(ic, s) /\ Goto(p, "notempty", 0, d, <<s>>) /\ UNCHANGED disk
      BY <1>4, <2>4, <2>6 DEF Unlinking
    <3>2. icache' = Drop(Locked(s, p), s)
      BY <3>1 DEF Locked
    <3>3. s = proc[p].ip /\ d = proc[p].dp
      OBVIOUS
    <3> HIDE DEF s, d, n, ic0, ic, less
    <3> QED BY <1>1, <1>2, <1>4, <2>5, <3>1, <3>2, <3>3, UnlinkingStays
  <2>7. CASE ~(ic[s].type = "dir" /\ ~Isdirempty(s))
    <3>1. /\ disk' = Iupdate(WriteEntry(disk, d, n, 0), less, d)
          /\ icache' = Drop(less, d) /\ Goto(p, "unlinked", s, 0, <<d>>)
      BY <1>4, <2>4, <2>7 DEF Unlinking
    <3>2. s = proc[p].ip /\ d = proc[p].dp
      OBVIOUS
    <3>3. less = Lessened(s, d, p)
      BY DEF Lessened, Locked
    <3> HIDE DEF s, d, n, ic0, ic, less
    <3> QED BY <1>1, <1>2, <1>4, <2>5, <3>1, <3>2, <3>3, UnlinkingGoes
  <2> QED BY <2>6, <2>7
<1> QED BY <1>3, <1>4

-----------------------------------------------------------------------------
(* The machine boots.                                                      *)

LEMMA BootTypes ==
  ASSUME NEW c \in [Procs -> Nat], NEW f, f = [q \in Procs |-> Idle(1, c[q])]
  PROVE  /\ f \in [Procs -> ProcType]
         /\ \A q \in Procs : /\ f[q].pc = "user" /\ f[q].ip = 0 /\ f[q].dp = 0 /\ f[q].put = <<>>
                             /\ f[q].stage = "lock" /\ f[q].cwd = Root /\ f[q].files = <<>>
         /\ Booted \in CacheType /\ \A s \in Inums : ~Booted[s].valid
         /\ \A s \in Inums : Booted[s].ref = IF s = Root THEN Cardinality(Procs) ELSE 0
<1>1. Cardinality(Procs) \in Nat
  BY FsAssumption, FS_CardinalityType
<1>2. 1 \in Inums /\ 0 \in 0..NINODES /\ Root = 1
  BY FsAssumption DEF Inums, Root
<1>3. ASSUME NEW k \in Nat PROVE Idle(1, k) \in ProcType
  <2>1. "user" \in PcSet /\ <<>> \in Seq(Names) /\ <<>> \in Seq(Inums) /\ <<>> \in CallType \cup {<<>>}
    BY DEF PcSet, Between
  <2> QED BY <1>2, <2>1 DEF Idle, ProcType
<1>4. f \in [Procs -> ProcType]
  <2>1. \A q \in Procs : Idle(1, c[q]) \in ProcType
    BY <1>3
  <2> QED BY <2>1
<1>5. \A q \in Procs : /\ f[q].pc = "user" /\ f[q].ip = 0 /\ f[q].dp = 0 /\ f[q].put = <<>>
                       /\ f[q].stage = "lock" /\ f[q].cwd = Root /\ f[q].files = <<>>
  BY <1>2 DEF Idle
<1>6. /\ Booted \in CacheType /\ \A s \in Inums : ~Booted[s].valid
      /\ \A s \in Inums : Booted[s].ref = IF s = Root THEN Cardinality(Procs) ELSE 0
  BY <1>1, <1>2 DEF Booted, Blank, CacheType
<1> QED BY <1>4, <1>5, <1>6

\* Every process refers to the root directory, as the one it works in, and to nothing else.
LEMMA BootRefs ==
  ASSUME NEW c \in [Procs -> Nat], NEW f, f = [q \in Procs |-> Idle(1, c[q])], NEW s \in Inums
  PROVE  Booted[s].ref = Cardinality(AllRefs(f, s))
<1>1. /\ \A q \in Procs : /\ f[q].ip = 0 /\ f[q].dp = 0 /\ f[q].put = <<>>
                          /\ f[q].cwd = Root /\ f[q].files = <<>>
      /\ Booted[s].ref = IF s = Root THEN Cardinality(Procs) ELSE 0
  BY BootTypes
<1>2. s # 0
  BY InumIs
<1>3. CASE s = Root
  <2> DEFINE x == <<"cwd", 0>>
  <2>1. \A q \in Procs : RefSet(f[q], s) = {x}
    BY <1>1, <1>2, <1>3 DEF RefSet
  <2>2. AllRefs(f, s) = Procs \X {x}
    BY <2>1 DEF AllRefs
  <2> HIDE DEF x
  <2>3. Cardinality(Procs \X {x}) = Cardinality(Procs)
    BY FsAssumption, Tagged
  <2> QED BY <1>1, <1>3, <2>2, <2>3
<1>4. CASE s # Root
  <2>1. \A q \in Procs : RefSet(f[q], s) = {}
    BY <1>1, <1>2, <1>4 DEF RefSet
  <2>2. AllRefs(f, s) = {}
    BY <2>1 DEF AllRefs
  <2> QED BY <1>1, <1>4, <2>2, FS_EmptySet
<1> QED BY <1>3, <1>4

\* No process is in a call: no link is in the making, none is being lost.
LEMMA NoLinks ==
  ASSUME NEW f, \A q \in Procs : f[q].pc = "user", NEW s \in Inums
  PROVE  Cardinality({q \in Procs : LinkTarget(f[q]) = s}) = 0
         /\ Cardinality({q \in Procs : LostLink(f[q]) = s}) = 0
<1>1. {q \in Procs : LinkTarget(f[q]) = s} = {} /\ {q \in Procs : LostLink(f[q]) = s} = {}
  BY InumIs DEF LinkTarget, LostLink
<1> QED BY <1>1, FS_EmptySet

LEMMA CrashStep ==
  ASSUME IInv, Crash
  PROVE  IInv'
<1> DEFINE c == [q \in Procs |-> proc[q].calls]
           f == proc'
<1>1. /\ disk' = durable /\ durable' = durable /\ icache' = Booted /\ panicked' = panicked
      /\ f = [q \in Procs |-> Idle(1, c[q])]
  BY DEF Crash
<1>2. c \in [Procs -> Nat]
  BY DEF IInv, Typed, ProcType
<1> HIDE DEF c, f
<1>3. /\ f \in [Procs -> ProcType]
      /\ \A q \in Procs : /\ f[q].pc = "user" /\ f[q].ip = 0 /\ f[q].dp = 0 /\ f[q].put = <<>>
                          /\ f[q].stage = "lock" /\ f[q].cwd = Root /\ f[q].files = <<>>
      /\ Booted \in CacheType /\ \A s \in Inums : ~Booted[s].valid
  BY <1>1, <1>2, BootTypes
<1>4. Typed'
  BY <1>1, <1>3 DEF IInv, Typed, f
<1>5. Places'
  BY <1>3 DEF Places, PlaceOf, Naming, Between, One, Two, f
<1>6. RefsExact'
  <2> SUFFICES ASSUME NEW s \in Inums PROVE icache'[s].ref = Cardinality(AllRefs(f, s))
    BY DEF RefsExact, AllRefs, RefsOf, RefSet, f
  <2> QED BY <1>1, <1>2, BootRefs
<1>7. \A q \in Procs : /\ PlaceLock(f[q]) = 0 /\ Freed(f[q]) = 0 /\ LinkTarget(f[q]) = 0
                       /\ LostLink(f[q]) = 0
  BY <1>3 DEF PlaceLock, Freed, LinkTarget, LostLink
<1>8. Holding'
  BY <1>7 DEF Holding, Holds, f
<1>9. Coherent'
  BY <1>1, <1>3 DEF Coherent
<1>10. Entries'
  BY <1>3, <1>7 DEF Entries, EntryOf, f
<1>11. Links'
  <2> SUFFICES ASSUME NEW s \in Inums
               PROVE  durable[s].nlink >= Counted(durable, s)
                        + Cardinality({q \in Procs : LinkTarget(f[q]) = s})
                        + Cardinality({q \in Procs : LostLink(f[q]) = s})
    BY <1>1 DEF IInv, Durable, Links, FreeIsFree, Counted, NamesOf, Subs, Linking, Losing, f
  <2>1. durable[s].nlink >= Counted(durable, s) /\ Counted(durable, s) \in Nat
        /\ durable[s].nlink \in Nat
    BY CountedIs DEF IInv, Durable, Typed
  <2>2. /\ Cardinality({q \in Procs : LinkTarget(f[q]) = s}) = 0
        /\ Cardinality({q \in Procs : LostLink(f[q]) = s}) = 0
    BY <1>3, NoLinks
  <2> QED BY <2>1, <2>2
<1>12. Durable'
  BY <1>1 DEF IInv, Durable, FreeIsFree, Counted, NamesOf, Subs
<1> QED BY <1>4, <1>5, <1>6, <1>8, <1>9, <1>10, <1>11, <1>12 DEF IInv

\* What mkfs leaves has no names but the root directory's own two.
LEMMA MadeIs ==
  /\ Made \in DiskType /\ FreeIsFree(Made) /\ \A s \in Inums : Made[s].nlink >= Counted(Made, s)
<1>1. 0 \in 0..NINODES /\ Root \in 0..NINODES /\ Dots \subseteq Names
  BY InumIs, FsAssumption
<1>2. Made \in DiskType
  BY <1>1 DEF Made, Free, NoEntries, DiskType, InodeType
<1>3. \A s \in Inums, n \in Names \ Dots : Made[s].ent[n] = 0
  BY <1>1 DEF Made, Free, NoEntries
<1>4. FreeIsFree(Made)
  BY DEF Made, FreeIsFree
<1>5. ASSUME NEW s \in Inums PROVE Made[s].nlink >= Counted(Made, s)
  <2>1. NamesOf(Made, s) = {} /\ Subs(Made, s) = {}
    BY <1>3, InumIs DEF NamesOf, Subs
  <2>2. Cardinality(NamesOf(Made, s)) = 0 /\ Cardinality(Subs(Made, s)) = 0
    BY <2>1, FS_EmptySet
  <2>3. Made[s].nlink = IF s = Root THEN 1 ELSE 0
    BY DEF Made, Free
  <2> QED BY <2>2, <2>3 DEF Counted
<1> QED BY <1>2, <1>4, <1>5

LEMMA InitHolds == Init => IInv
<1> SUFFICES ASSUME Init PROVE IInv
  OBVIOUS
<1> DEFINE c == [q \in Procs |-> 0]
<1>1. /\ disk = Made /\ durable = Made /\ icache = Booted /\ panicked = ""
      /\ proc = [q \in Procs |-> Idle(1, c[q])] /\ c \in [Procs -> Nat]
  BY DEF Init
<1> HIDE DEF c
<1>3. /\ proc \in [Procs -> ProcType]
      /\ \A q \in Procs : /\ proc[q].pc = "user" /\ proc[q].ip = 0 /\ proc[q].dp = 0
                          /\ proc[q].put = <<>> /\ proc[q].stage = "lock" /\ proc[q].cwd = Root
                          /\ proc[q].files = <<>>
      /\ Booted \in CacheType /\ \A s \in Inums : ~Booted[s].valid
  BY <1>1, BootTypes, ZenonT(60)
<1>4. Typed
  BY <1>1, <1>3, MadeIs DEF Typed
<1>5. Places
  BY <1>3 DEF Places, PlaceOf, Naming, Between, One, Two
<1>6. RefsExact
  <2> SUFFICES ASSUME NEW s \in Inums PROVE icache[s].ref = Cardinality(AllRefs(proc, s))
    BY RefsExactIs
  <2> QED BY <1>1, BootRefs
<1>7. \A q \in Procs : /\ PlaceLock(proc[q]) = 0 /\ Freed(proc[q]) = 0 /\ LinkTarget(proc[q]) = 0
                       /\ LostLink(proc[q]) = 0
  BY <1>3 DEF PlaceLock, Freed, LinkTarget, LostLink
<1>8. Holding
  BY <1>7 DEF Holding, Holds
<1>9. Coherent
  BY <1>1, <1>3 DEF Coherent
<1>10. Entries
  BY <1>3, <1>7 DEF Entries, EntryOf
<1>11. Links
  <2> SUFFICES ASSUME NEW s \in Inums
               PROVE  Made[s].nlink >= Counted(Made, s) + Cardinality(Linking(s))
                                         + Cardinality(Losing(s))
    BY <1>1, MadeIs DEF Links
  <2>1. Made[s].nlink >= Counted(Made, s) /\ Counted(Made, s) \in Nat /\ Made[s].nlink \in Nat
    BY MadeIs, CountedIs
  <2>2. Cardinality(Linking(s)) = 0 /\ Cardinality(Losing(s)) = 0
    BY <1>3, NoLinks DEF Linking, Losing
  <2> QED BY <2>1, <2>2
<1>12. Durable
  BY <1>1, MadeIs DEF Durable
<1> QED BY <1>4, <1>5, <1>6, <1>8, <1>9, <1>10, <1>11, <1>12 DEF IInv

LEMMA StutterKeeps ==
  ASSUME IInv, UNCHANGED vars
  PROVE  IInv'
<1>1. disk' = disk /\ durable' = durable /\ icache' = icache /\ proc' = proc /\ panicked' = panicked
  BY DEF vars
<1>2. Typed'
  BY <1>1 DEF IInv, Typed
<1>3. Places'
  BY <1>1 DEF IInv, Places, Naming, Name, Call
<1>4. RefsExact'
  <2> SUFFICES ASSUME NEW s \in Inums PROVE icache'[s].ref = Cardinality(AllRefs(proc', s))
    BY DEF RefsExact, AllRefs, RefsOf, RefSet
  <2> QED BY <1>1, RefsExactIs DEF IInv
<1>5. Holding' /\ Coherent'
  BY <1>1 DEF IInv, Holding, Holds, Coherent
<1>6. Entries'
  BY <1>1 DEF IInv, Entries, EntryOf, Name, Call
<1>7. Links' /\ Durable'
  BY <1>1 DEF IInv, Links, Durable, Counted, NamesOf, Subs, FreeIsFree, Linking, Losing
<1> QED BY <1>2, <1>3, <1>4, <1>5, <1>6, <1>7 DEF IInv

-----------------------------------------------------------------------------
(* The theorems.                                                           *)

\* Every step of iput(), of a call, of a crash and of a stopped machine keeps the invariant.
LEMMA NextKeeps ==
  ASSUME IInv, [Next]_vars
  PROVE  IInv'
<1>1. CASE UNCHANGED vars
  BY <1>1, StutterKeeps
<1>2. ASSUME NEW p \in Procs, Iput(p)
      PROVE  IInv'
  <2>1. CASE IputLock(p)
    BY <2>1, IputLockStep
  <2>2. CASE IputFree(p)
    BY <2>2, IputFreeStep
  <2>3. CASE IputDrop(p)
    BY <2>3, IputDropStep
  <2> QED BY <1>2, <2>1, <2>2, <2>3 DEF Iput
<1>3. ASSUME NEW p \in Procs, Syscall(p)
      PROVE  IInv'
  <2>1. ASSUME NEW c \in Calls[p], Begin(p, c) PROVE IInv'
    BY <2>1, BeginStep
  <2>2. CASE Walk(p)
    BY <2>2, WalkStep
  <2>3. CASE Walked(p)
    BY <2>3, WalkedStep
  <2>4. CASE End(p)
    BY <2>4, EndStep
  <2>5. CASE Open(p)
    BY <2>5, OpenStep
  <2>6. CASE Chdir(p)
    BY <2>6, ChdirStep
  <2>7. ASSUME NEW k \in DOMAIN proc[p].files, Close(p, k) PROVE IInv'
    BY <2>7, CloseStep
  <2>8. CASE Create(p)
    BY <2>8, CreateStep
  <2>9. CASE CreateExists(p)
    BY <2>9, OpenStep
  <2>10. CASE CreateNew(p)
    BY <2>10, CreateNewStep
  <2>11. CASE CreateDone(p)
    BY <2>11, CreateDoneStep
  <2>12. CASE Unlink(p)
    BY <2>12, UnlinkStep
  <2>13. CASE Unlinking(p)
    BY <2>13, UnlinkingStep
  <2>14. CASE Unlinked(p)
    BY <2>14, UnlinkedStep
  <2>15. CASE LetParentGo(p)
    BY <2>15, LetParentGoStep
  <2>16. CASE Link(p)
    BY <2>16, LinkStep
  <2>17. CASE LinkEntry(p)
    BY <2>17, LinkEntryStep
  <2>18. CASE LinkBad(p)
    BY <2>18, LinkBadStep
  <2> QED BY <1>3, <2>1, <2>2, <2>3, <2>4, <2>5, <2>6, <2>7, <2>8, <2>9, <2>10, <2>11, <2>12, <2>13,
             <2>14, <2>15, <2>16, <2>17, <2>18 DEF Syscall
<1>4. CASE Crash
  BY <1>4, CrashStep
<1>5. CASE Frozen
  BY <1>5, StutterKeeps DEF Frozen
<1> QED BY <1>1, <1>2, <1>3, <1>4, <1>5 DEF Next

\* The inductive invariant holds in every state: the references of every cache entry are
\* counted, who holds a lock is alone with it, what the cache says of an inode is what the
\* disk does, and no inode has fewer links than names, crashes and failing calls included.
THEOREM Invariance == Spec => []IInv
<1>1. Init => IInv
  BY InitHolds
<1>2. IInv /\ [Next]_vars => IInv'
  BY NextKeeps
<1> QED BY <1>1, <1>2, PTL DEF Spec

\* ref is the number of pointers to a cache entry (fs.c:123-128), in every state of every
\* call, however it fails.
THEOREM RefsCounted == Spec => [](TypeOK /\ RefsExact)
<1>1. IInv => TypeOK /\ RefsExact
  <2> SUFFICES ASSUME IInv PROVE TypeOK /\ RefsExact
    OBVIOUS
  <2>1. /\ disk \in DiskType /\ durable \in DiskType /\ icache \in CacheType
        /\ proc \in [Procs -> ProcType] /\ RefsExact
    BY DEF IInv, Typed
  <2>2. ASSUME NEW p \in Procs
        PROVE  /\ proc[p].cwd \in Inums /\ proc[p].ip \in Inums \cup {0} /\ proc[p].dp \in Inums \cup {0}
               /\ Range(proc[p].files) \subseteq Inums \cup {0}
    <3>1. /\ proc[p].cwd \in Inums /\ proc[p].ip \in 0..NINODES /\ proc[p].dp \in 0..NINODES
          /\ proc[p].files \in Seq(Inums)
      BY <2>1 DEF ProcType
    <3>2. \A k \in DOMAIN proc[p].files : proc[p].files[k] \in Inums
      BY <3>1
    <3> QED BY <3>1, <3>2, InumIs DEF Range
  <2> QED BY <2>1, <2>2 DEF TypeOK, DiskType, CacheType
<1> QED BY <1>1, Invariance, PTL

\* nlink never falls short of the names an inode has, and unlink() never panics for want of a
\* link (sysfile.c:211).
THEOREM NamesHaveLinks == Spec => []LinksSuffice
<1>1. IInv => LinksSuffice
  <2> SUFFICES ASSUME IInv PROVE LinksSuffice
    OBVIOUS
  <2>1. disk \in DiskType /\ durable \in DiskType /\ panicked # "unlink: nlink < 1"
    BY DEF IInv, Typed
  <2>2. ASSUME NEW d \in DiskType, NEW s \in Inums
        PROVE  /\ Counted(d, s) >= Cardinality(NamesOf(d, s)) /\ Counted(d, s) \in Nat
               /\ Cardinality(NamesOf(d, s)) \in Nat /\ d[s].nlink \in Nat
    <3>1. /\ Cardinality(NamesOf(d, s)) \in Nat /\ Cardinality(Subs(d, s)) \in Nat
          /\ Counted(d, s) \in Nat /\ d[s].nlink \in Nat
      BY CountedIs
    <3> QED BY <3>1 DEF Counted
  <2>3. ASSUME NEW s \in Inums
        PROVE  /\ disk[s].nlink >= Cardinality(NamesOf(disk, s))
               /\ durable[s].nlink >= Cardinality(NamesOf(durable, s))
    <3>1. disk[s].nlink >= Counted(disk, s) + Cardinality(Linking(s)) + Cardinality(Losing(s))
          /\ durable[s].nlink >= Counted(durable, s)
      BY DEF IInv, Links, Durable
    <3>2. Cardinality(Linking(s)) \in Nat /\ Cardinality(Losing(s)) \in Nat
      BY <2>1, LinkSets
    <3>3. /\ Counted(disk, s) >= Cardinality(NamesOf(disk, s)) /\ Counted(disk, s) \in Nat
          /\ Cardinality(NamesOf(disk, s)) \in Nat /\ disk[s].nlink \in Nat
      BY <2>1, <2>2
    <3>4. disk[s].nlink >= Cardinality(NamesOf(disk, s))
      BY <3>1, <3>2, <3>3
    <3>5. /\ Counted(durable, s) >= Cardinality(NamesOf(durable, s)) /\ Counted(durable, s) \in Nat
          /\ Cardinality(NamesOf(durable, s)) \in Nat /\ durable[s].nlink \in Nat
      BY <2>1, <2>2
    <3> QED BY <3>1, <3>4, <3>5
  <2> QED BY <2>1, <2>3 DEF LinksSuffice
<1> QED BY <1>1, Invariance, PTL

\* Both counts of an inode are right, in every state of every call and after every crash.
THEOREM CountsAreSound == Spec => []CountsSound
BY RefsCounted, NamesHaveLinks, PTL DEF CountsSound

\* A lock of an inode has one holder, who finds in the cache what the disk has (fs.c:108-115).
LocksExclusive ==
  /\ \A p, q \in Procs, s \in Inums : Holds(p, s) /\ Holds(q, s) => p = q
  /\ \A p \in Procs, s \in Inums : Holds(p, s) =>
       /\ icache[s].locker = p /\ icache[s].valid /\ disk[s].type # "free"
       /\ icache[s].type = disk[s].type /\ icache[s].nlink = disk[s].nlink

THEOREM LocksAreExclusive == Spec => []LocksExclusive
<1>1. IInv => LocksExclusive
  <2> SUFFICES ASSUME IInv PROVE LocksExclusive
    OBVIOUS
  <2>1. \A s \in Inums, p \in Procs, q \in Procs : Holds(p, s) /\ Holds(q, s) => p = q
    BY Exclusive DEF IInv
  <2>2. \A p \in Procs, s \in Inums : Holds(p, s) =>
          /\ icache[s].locker = p /\ icache[s].valid /\ disk[s].type # "free"
          /\ icache[s].type = disk[s].type /\ icache[s].nlink = disk[s].nlink
    BY DEF IInv, Holding, Coherent
  <2> QED BY <2>1, <2>2 DEF LocksExclusive
<1> QED BY <1>1, Invariance, PTL

-----------------------------------------------------------------------------
(* No inode is freed in use, where no path goes up.                        *)

\* The reference of a process that has freed an inode, or seen that it need not, and is about
\* to drop it, is none to use the inode by.
Spare(r, s) == IF r.put # <<>> /\ r.stage = "drop" THEN Eq(Head(r.put), s) ELSE 0
Uses(r, s)  == RefCount(r, s) > Spare(r, s)

Used  == \A p \in Procs, s \in Inums : Uses(proc[p], s) => disk[s].type # "free"
Alone == \A p \in Procs : Freed(proc[p]) # 0 => icache[Freed(proc[p])].ref = 1

\* The inode that create() makes is of the type asked for and nobody else's yet.
FreshOf(p) ==
  proc[p].pc = "created" =>
    /\ disk[proc[p].ip].nlink = 0
    /\ disk[proc[p].ip].type = IF Call(p).op = "mkdir" THEN "dir" ELSE "file"
    /\ \A q \in Procs \ {p} : ~Uses(proc[q], proc[p].ip)
Fresh == \A p \in Procs : FreshOf(p)

\* "." of a directory is the directory, but while mkdir() makes it.
Making(s) == \E p \in Procs : proc[p].pc = "created" /\ proc[p].ip = s
DotsSelf  == \A s \in Inums : disk[s].type = "dir" => disk[s].ent["."] = s \/ Making(s)
DotsLast  == \A s \in Inums : durable[s].type = "dir" => durable[s].ent["."] = s

\* What is left to look up does not go up; and what a name is looked up in, to be made
\* there, is a directory.
Down(path) == \A k \in DOMAIN path : path[k] # ".."
WayOf(p) ==
  /\ Down(proc[p].rest)
  /\ proc[p].pc \notin Between => Down(Call(p).new)
  /\ proc[p].pc \in {"create", "mkdir", "created", "link2"} => Name(p) # ".."
  /\ proc[p].pc \in {"create", "mkdir", "link2"} => disk[proc[p].ip].type = "dir"
Ways == \A p \in Procs : WayOf(p)

\* The machine stops only for want of an inode.
Stopped == /\ panicked \in {"", "ialloc: no inodes"}
           /\ panicked # "" => \A s \in Inums : disk[s].type # "free"

UInv == Used /\ Alone /\ Fresh /\ DotsSelf /\ DotsLast /\ Ways /\ Stopped

\* ref follows the references of the process that takes the step.
LEMMA RefsMoved ==
  ASSUME IInv, IInv', NEW p \in Procs, Apart(p), NEW s \in Inums
  PROVE  /\ icache'[s].ref + RefCount(proc[p], s) = icache[s].ref + RefCount(proc'[p], s)
         /\ icache'[s].ref \in Nat /\ icache[s].ref \in Nat
         /\ RefCount(proc[p], s) \in Nat /\ RefCount(proc'[p], s) \in Nat
<1> DEFINE f == proc'
<1>1. proc \in [Procs -> ProcType] /\ f \in [Procs -> ProcType]
      /\ icache[s].ref \in Nat /\ icache'[s].ref \in Nat
  BY DEF IInv, Typed, CacheType
<1>2. icache[s].ref = Cardinality(AllRefs(proc, s))
  BY RefsExactIs DEF IInv
<1>3. icache'[s].ref = Cardinality(AllRefs(f, s))
  BY DEF IInv, RefsExact, AllRefs, RefsOf, RefSet
<1>4. OtherRefs(proc, p, s) = OtherRefs(f, p, s)
  <2>1. \A q \in Procs \ {p} : proc[q] = f[q]
    BY DEF Apart
  <2> HIDE DEF f
  <2> QED BY <2>1, OthersSame
<1> HIDE DEF f
<1>5. /\ Cardinality(AllRefs(proc, s)) = RefCount(proc[p], s) + Cardinality(OtherRefs(proc, p, s))
      /\ Cardinality(OtherRefs(proc, p, s)) \in Nat
  BY <1>1, RefsSplit
<1>6. Cardinality(AllRefs(f, s)) = RefCount(f[p], s) + Cardinality(OtherRefs(f, p, s))
  BY <1>1, RefsSplit
<1>7. RefCount(proc[p], s) \in Nat /\ RefCount(f[p], s) \in Nat
  BY <1>1, RefSetCount
<1>8. /\ icache'[s].ref + RefCount(proc[p], s) = icache[s].ref + RefCount(f[p], s)
  BY <1>2, <1>3, <1>4, <1>5, <1>6, <1>7
<1> QED BY <1>1, <1>7, <1>8 DEF f

\* A process uses what it has in hand, and works in; and what it uses, it refers to.
LEMMA HandUsed ==
  ASSUME NEW r \in ProcType, NEW s \in Inums
  PROVE  /\ r.ip = s \/ r.dp = s \/ r.cwd = s \/ Freed(r) = s => Uses(r, s)
         /\ r.put # <<>> /\ r.stage = "lock" /\ Head(r.put) = s => Uses(r, s)
         /\ Uses(r, s) => RefCount(r, s) >= 1
         /\ r.put = <<>> => (Uses(r, s) <=> RefCount(r, s) >= 1)
         /\ Spare(r, s) \in Nat /\ RefCount(r, s) \in Nat
<1> DEFINE a == Eq(r.ip, s)
           b == Eq(r.dp, s)
           c == Eq(r.cwd, s)
           m == In(r.put, s)
           n == In(r.files, s)
<1>1. a \in Nat /\ b \in Nat /\ c \in Nat /\ RefCount(r, s) = a + b + c + m + n
  BY DEF Eq, RefCount
<1>2. m \in Nat /\ n \in Nat
  BY InFinite DEF ProcType
<1>3. /\ r.ip = s => a = 1
      /\ r.dp = s => b = 1
      /\ r.cwd = s => c = 1
  BY DEF Eq
<1>4. r.put # <<>> /\ Head(r.put) = s => m >= 1
  BY RefsHeld
<1>5. Spare(r, s) \in {0, 1} /\ (Spare(r, s) = 1 => r.put # <<>> /\ r.stage = "drop" /\ Head(r.put) = s)
  BY DEF Spare, Eq
<1>6. Freed(r) = s => r.put # <<>> /\ Head(r.put) = s /\ r.stage = "free"
  BY InumIs DEF Freed
<1>7. Spare(r, s) <= m
  BY <1>2, <1>4, <1>5
<1> HIDE DEF a, b, c, m, n
<1>8. r.ip = s \/ r.dp = s \/ r.cwd = s => RefCount(r, s) > Spare(r, s)
  BY <1>1, <1>2, <1>3, <1>5, <1>7
<1>9. r.put # <<>> /\ Head(r.put) = s /\ r.stage # "drop" => RefCount(r, s) > Spare(r, s)
  BY <1>1, <1>2, <1>4, <1>5
<1>10. RefCount(r, s) \in Nat
  BY <1>1, <1>2
<1>11. r.put = <<>> => Spare(r, s) = 0
  BY <1>5
<1> QED BY <1>5, <1>6, <1>8, <1>9, <1>10, <1>11 DEF Uses

\* What a process has in hand can be read.
LEMMA InHand ==
  ASSUME IInv, Used, NEW p \in Procs, NEW s \in Inums,
         s \in {proc[p].ip, proc[p].dp, proc[p].cwd}
  PROVE  Uses(proc[p], s) /\ disk[s].type # "free" /\ ~NoType(s)
<1>1. proc[p] \in ProcType
  BY ProcFacts
<1>2. Uses(proc[p], s)
  BY <1>1, HandUsed
<1>3. disk[s].type # "free"
  BY <1>2 DEF Used
<1> QED BY <1>2, <1>3, Readable

\* What a step of a call, which may gain a reference to inode g, must do to keep it so that
\* what is used is allocated.
Gains(p, g) ==
  /\ g \in 0..NINODES
  /\ \A s \in Inums : icache'[s].ref <= icache[s].ref + Eq(g, s)
  /\ g # 0 => /\ Uses(proc[p], g) \/ disk[g].nlink # 0 \/ disk[g].type = "free"
              /\ disk'[g].type # "free"

\* A process only gains references to the inode it gains.
LEMMA GainedUse ==
  ASSUME IInv, IInv', NEW p \in Procs, proc[p].put = <<>>, Apart(p), NEW g, Gains(p, g),
         NEW s \in Inums, s # g, Uses(proc'[p], s)
  PROVE  Uses(proc[p], s)
<1> DEFINE r == proc'[p]
<1>1. proc[p] \in ProcType /\ r \in ProcType
  BY DEF IInv, Typed
<1>2. /\ icache'[s].ref + RefCount(proc[p], s) = icache[s].ref + RefCount(r, s)
      /\ icache'[s].ref \in Nat /\ icache[s].ref \in Nat
      /\ RefCount(proc[p], s) \in Nat
  BY RefsMoved
<1>3. Eq(g, s) = 0
  BY DEF Eq
<1>4. icache'[s].ref <= icache[s].ref + Eq(g, s)
  BY DEF Gains
<1> HIDE DEF r
<1>5. RefCount(r, s) >= 1
  BY <1>1, HandUsed DEF r
<1>6. RefCount(r, s) \in Nat
  BY <1>1, RefSetCount
<1>7. RefCount(proc[p], s) >= 1
  BY <1>2, <1>3, <1>4, <1>5, <1>6
<1> QED BY <1>1, <1>7, HandUsed

\* Who is about to free an inode is alone with it.
LEMMA NotGained ==
  ASSUME IInv, Used, Alone, NEW p \in Procs, NEW q \in Procs \ {p}, NEW f \in Inums,
         Freed(proc[q]) = f
  PROVE  /\ ~Uses(proc[p], f) /\ RefCount(proc[p], f) = 0 /\ icache[f].ref = 1
         /\ disk[f].nlink = 0 /\ disk[f].type # "free" /\ Uses(proc[q], f)
<1>1. proc[p] \in ProcType /\ proc[q] \in ProcType
  BY ProcFacts
<1>2. f # 0
  BY InumIs
<1>3. Uses(proc[q], f) /\ RefCount(proc[q], f) >= 1
  BY <1>1, HandUsed
<1>4. disk[f].type # "free"
  BY <1>3 DEF Used
<1>5. disk[f].nlink = 0
  BY <1>2 DEF IInv, Entries, EntryOf
<1>6. icache[f].ref = 1
  BY <1>2 DEF Alone
<1>7. icache[f].ref >= RefCount(proc[p], f) + 1 /\ RefCount(proc[p], f) \in Nat
  BY <1>3, RefsBound
<1>8. RefCount(proc[p], f) = 0
  BY <1>6, <1>7
<1>9. ~Uses(proc[p], f)
  BY <1>1, <1>8, HandUsed
<1> QED BY <1>3, <1>4, <1>5, <1>6, <1>8, <1>9

LEMMA UseStep ==
  ASSUME IInv, IInv', UInv, NEW p \in Procs, proc[p].put = <<>>, Apart(p),
         proc'[p].stage = "lock", panicked' = "", NEW g, Gains(p, g),
         \A s \in Inums : disk[s].type # "free" \/ s # g => disk'[s].type = disk[s].type,
         \A s \in Inums : ~Uses(proc[p], s) /\ disk[s].type # "free" => disk'[s].nlink = disk[s].nlink,
         FreshOf(p)', WayOf(p)', DotsSelf', DotsLast'
  PROVE  UInv'
<1>1. /\ \A q \in Procs : proc[q] \in ProcType /\ proc'[q] \in ProcType
      /\ \A q \in Procs \ {p} : proc'[q] = proc[q]
  BY DEF IInv, Typed, Apart
<1>2. g = 0 \/ g \in Inums
  BY InumIs DEF Gains
<1>3. Used /\ Alone /\ Fresh /\ Ways
  BY DEF UInv
<1>4. ASSUME NEW q \in Procs, NEW s \in Inums, Uses(proc'[q], s)
      PROVE  disk'[s].type # "free"
  <2>1. CASE s = g
    BY <2>1, InumIs DEF Gains
  <2>2. CASE s # g /\ q = p
    <3>1. Uses(proc[p], s)
      BY <1>4, <2>2, GainedUse
    <3> QED BY <2>2, <3>1, <1>3 DEF Used
  <2>3. CASE q # p /\ s # g
    BY <1>1, <1>3, <1>4, <2>3 DEF Used
  <2> QED BY <2>1, <2>2, <2>3
<1>5. ASSUME NEW q \in Procs, Freed(proc'[q]) # 0
      PROVE  icache'[Freed(proc'[q])].ref = 1
  <2> DEFINE f == Freed(proc'[q])
  <2>1. q # p
    BY <1>5 DEF Freed
  <2>2. f = Freed(proc[q])
    BY <1>1, <2>1
  <2>3. f \in Inums
    <3>1. proc[q].put \in Seq(Inums)
      BY <1>1 DEF ProcType
    <3>2. proc[q].put # <<>> => Head(proc[q].put) \in Inums
      BY <3>1, HeadTailProperties
    <3> QED BY <1>5, <2>2, <3>2 DEF Freed
  <2> HIDE DEF f
  <2>4. /\ ~Uses(proc[p], f) /\ RefCount(proc[p], f) = 0 /\ icache[f].ref = 1
        /\ disk[f].nlink = 0 /\ disk[f].type # "free"
    BY <1>3, <2>1, <2>2, <2>3, NotGained, ZenonT(60)
  <2>5. f # g
    <3>1. g # 0 => Uses(proc[p], g) \/ disk[g].nlink # 0 \/ disk[g].type = "free"
      BY DEF Gains
    <3>2. f # 0
      BY <2>3, InumIs
    <3> QED BY <2>4, <3>1, <3>2
  <2>6. /\ icache'[f].ref + RefCount(proc[p], f) = icache[f].ref + RefCount(proc'[p], f)
        /\ icache'[f].ref \in Nat /\ RefCount(proc'[p], f) \in Nat
    BY <2>3, RefsMoved
  <2>7. icache'[f].ref <= icache[f].ref + Eq(g, f)
    BY <2>3 DEF Gains
  <2>8. icache'[f].ref = 1
    <3>1. Eq(g, f) = 0
      BY <2>5 DEF Eq
    <3> DEFINE a == icache'[f].ref
               b == RefCount(proc'[p], f)
    <3>2. a + 0 = 1 + b /\ a \in Nat /\ b \in Nat /\ a <= 1 + 0
      BY <2>4, <2>6, <2>7, <3>1
    <3> HIDE DEF a, b
    <3>3. a = 1
      BY ONLY <3>2
    <3> QED BY <3>3 DEF a
  <2> QED BY <2>8 DEF f
<1>6. ASSUME NEW q \in Procs
      PROVE  FreshOf(q)'
  <2>1. CASE q = p
    BY <2>1
  <2>2. CASE q # p
    <3> SUFFICES ASSUME proc[q].pc = "created" PROVE FreshOf(q)'
      BY <1>1, <2>2 DEF FreshOf
    <3> DEFINE j == proc[q].ip
    <3>1. /\ proc'[q] = proc[q] /\ Call(q)' = Call(q)
      BY <1>1, <2>2 DEF Call
    <3>2. /\ disk[j].nlink = 0
          /\ disk[j].type = IF Call(q).op = "mkdir" THEN "dir" ELSE "file"
          /\ \A r \in Procs \ {q} : ~Uses(proc[r], j)
      BY <1>3 DEF Fresh, FreshOf
    <3>3. j \in Inums
      <4>1. j # 0
        BY ProcFacts DEF PlaceOf, Two
      <4> QED BY <4>1, ProcFacts
    <3> HIDE DEF j
    <3>4. ~Uses(proc[p], j) /\ disk[j].type # "free"
      BY <2>2, <3>2
    <3>5. disk'[j].nlink = disk[j].nlink /\ disk'[j].type = disk[j].type
      BY <3>3, <3>4
    <3>6. j # g
      <4>1. g # 0 => Uses(proc[p], g) \/ disk[g].nlink # 0 \/ disk[g].type = "free"
        BY DEF Gains
      <4>2. j # 0
        BY <3>3, InumIs
      <4> QED BY <3>2, <3>4, <4>1, <4>2 DEF j
    <3>7. ~Uses(proc'[p], j)
      BY <3>3, <3>4, <3>6, GainedUse
    <3>8. \A r \in Procs \ {q} : ~Uses(proc'[r], j)
      BY <1>1, <3>2, <3>7
    <3> QED BY <3>1, <3>2, <3>5, <3>8 DEF FreshOf, j
  <2> QED BY <2>1, <2>2
<1>7. ASSUME NEW q \in Procs
      PROVE  WayOf(q)'
  <2>1. CASE q = p
    BY <2>1
  <2>2. CASE q # p
    <3>1. proc'[q] = proc[q] /\ Call(q)' = Call(q) /\ Name(q)' = Name(q)
      BY <1>1, <2>2 DEF Call, Name
    <3>2. ASSUME proc[q].pc \in {"create", "mkdir", "link2"}
          PROVE  disk'[proc[q].ip].type = "dir"
      <4>1. proc[q].ip \in Inums /\ proc[q].ip # 0
        BY <3>2, ProcFacts DEF PlaceOf, One, Two
      <4>2. disk[proc[q].ip].type = "dir"
        BY <1>3, <3>2 DEF Ways, WayOf
      <4> QED BY <4>1, <4>2
    <3> QED BY <1>3, <3>1, <3>2 DEF Ways, WayOf
  <2> QED BY <2>1, <2>2
<1> QED BY <1>4, <1>5, <1>6, <1>7 DEF UInv, Used, Alone, Fresh, Ways, Stopped

\* The same of a step that leaves the disk alone and makes no inode.
LEMMA QuietUse ==
  ASSUME IInv, IInv', UInv, NEW p \in Procs, proc[p].put = <<>>, Apart(p), panicked = "",
         proc[p].pc # "created", proc'[p].pc # "created", proc'[p].stage = proc[p].stage,
         Fixed, UNCHANGED disk, NEW g, Gains(p, g), WayOf(p)'
  PROVE  UInv'
<1>1. disk' = disk /\ durable' = durable /\ panicked' = ""
  BY DEF Fixed
<1>2. proc'[p].stage = "lock"
  BY ProcFacts DEF PlaceOf
<1>3. FreshOf(p)'
  BY DEF FreshOf
<1>4. DotsSelf'
  <2> SUFFICES ASSUME NEW s \in Inums, disk[s].type = "dir", disk[s].ent["."] # s
               PROVE  \E q \in Procs : proc'[q].pc = "created" /\ proc'[q].ip = s
    BY <1>1 DEF DotsSelf, Making
  <2>1. PICK q \in Procs : proc[q].pc = "created" /\ proc[q].ip = s
    BY DEF UInv, DotsSelf, Making
  <2> QED BY <2>1 DEF Apart
<1>5. DotsLast'
  BY <1>1 DEF UInv, DotsLast
<1> QED BY <1>1, <1>2, <1>3, <1>4, <1>5, UseStep

-----------------------------------------------------------------------------
(* iput().                                                                 *)

LEMMA PutUse ==
  ASSUME IInv, IInv', UInv, NEW p \in Procs, Apart(p), panicked = "", Fixed,
         proc'[p].pc = proc[p].pc, proc'[p].ip = proc[p].ip, proc'[p].call = proc[p].call,
         proc'[p].rest = proc[p].rest,
         \A s \in Inums : Uses(proc'[p], s) => Uses(proc[p], s),
         \A s \in Inums : \/ disk'[s] = disk[s]
                          \/ /\ disk'[s] = Free
                             /\ \A q \in Procs : /\ ~Uses(proc'[q], s)
                                                 /\ proc[q].pc = "created" => proc[q].ip # s,
         Alone'
  PROVE  UInv'
<1>1. /\ \A q \in Procs : proc[q] \in ProcType /\ proc'[q] \in ProcType
      /\ \A q \in Procs \ {p} : proc'[q] = proc[q]
      /\ durable' = durable /\ panicked' = panicked
  BY DEF IInv, Typed, Apart, Fixed
<1>2. \A q \in Procs, s \in Inums : Uses(proc'[q], s) => Uses(proc[q], s)
  BY <1>1
<1>3. \A q \in Procs : /\ proc'[q].pc = proc[q].pc /\ proc'[q].ip = proc[q].ip
                       /\ proc'[q].call = proc[q].call /\ proc'[q].rest = proc[q].rest
  BY <1>1
<1>4. \A q \in Procs : Call(q)' = Call(q) /\ Name(q)' = Name(q)
  BY <1>3 DEF Call, Name
<1>5. Used /\ Fresh /\ DotsSelf /\ DotsLast /\ Ways
  BY DEF UInv
<1>6. Used'
  <2> SUFFICES ASSUME NEW q \in Procs, NEW s \in Inums, Uses(proc'[q], s)
               PROVE  disk'[s].type # "free"
    BY DEF Used
  <2>1. disk'[s] = disk[s]
    OBVIOUS
  <2> QED BY <1>2, <1>5, <2>1 DEF Used
<1>7. Fresh'
  <2> SUFFICES ASSUME NEW q \in Procs, proc[q].pc = "created" PROVE FreshOf(q)'
    BY <1>3 DEF Fresh, FreshOf
  <2>1. proc[q].ip \in Inums
    BY ProcFacts DEF PlaceOf, Two
  <2>2. disk'[proc[q].ip] = disk[proc[q].ip]
    BY <2>1
  <2>3. FreshOf(q)
    BY <1>5 DEF Fresh
  <2> QED BY <1>2, <1>3, <1>4, <2>1, <2>2, <2>3 DEF FreshOf
<1>8. DotsSelf'
  <2> SUFFICES ASSUME NEW s \in Inums, disk'[s].type = "dir"
               PROVE  disk'[s].ent["."] = s \/ Making(s)'
    BY DEF DotsSelf
  <2>1. disk'[s] = disk[s]
    <3>1. disk'[s] = disk[s] \/ disk'[s] = Free
      OBVIOUS
    <3>2. Free.type = "free"
      BY DEF Free
    <3> QED BY <3>1, <3>2
  <2>2. disk[s].ent["."] = s \/ Making(s)
    BY <1>5, <2>1 DEF DotsSelf
  <2> QED BY <1>3, <2>1, <2>2 DEF Making
<1>9. Ways'
  <2> SUFFICES ASSUME NEW q \in Procs PROVE WayOf(q)'
    BY DEF Ways
  <2>1. ASSUME proc[q].pc \in {"create", "mkdir", "link2"}
        PROVE  disk'[proc[q].ip].type = "dir"
    <3>1. proc[q].ip \in Inums
      BY <2>1, ProcFacts DEF PlaceOf, One, Two
    <3>2. Uses(proc'[q], proc[q].ip)
      BY <1>1, <1>3, <3>1, HandUsed
    <3>3. disk'[proc[q].ip] = disk[proc[q].ip]
      BY <3>1, <3>2
    <3> QED BY <1>5, <2>1, <3>3 DEF Ways, WayOf
  <2> QED BY <1>3, <1>4, <1>5, <2>1 DEF Ways, WayOf
<1>10. DotsLast' /\ Stopped'
  BY <1>1, <1>5 DEF DotsLast, Stopped
<1> QED BY <1>6, <1>7, <1>8, <1>9, <1>10 DEF UInv

\* The references of a process are the same when only its stage changes.
LEMMA StageRefs ==
  ASSUME NEW r \in ProcType, NEW t \in ProcType, t.ip = r.ip, t.dp = r.dp, t.cwd = r.cwd,
         t.put = r.put, t.files = r.files, NEW s
  PROVE  RefCount(t, s) = RefCount(r, s)
BY DEF RefCount

LEMMA IputLockUse ==
  ASSUME IInv, IInv', UInv, NEW p \in Procs, IputLock(p)
  PROVE  UInv'
<1> DEFINE h == Head(proc[p].put)
<1>1. /\ panicked = "" /\ proc[p].put # <<>> /\ proc[p].stage = "lock" /\ Fixed /\ disk' = disk
  BY DEF IputLock, Putting
<1>2. /\ proc[p] \in ProcType /\ icache \in CacheType /\ proc \in [Procs -> ProcType]
      /\ proc'[p] \in ProcType
  BY DEF IInv, Typed
<1>3. PICK x \in {"free", "drop"} :
        Stage(p, x) /\ (x = "free" => icache[h].ref = 1 /\ icache' = Take(icache, h, p))
                    /\ (x = "drop" => icache' = icache)
  BY DEF IputLock
<1>4. h \in Inums
  BY <1>1, <1>2, HeadTailProperties DEF ProcType
<1>5. /\ Apart(p) /\ proc'[p].pc = proc[p].pc /\ proc'[p].ip = proc[p].ip
      /\ proc'[p].dp = proc[p].dp /\ proc'[p].put = proc[p].put /\ proc'[p].call = proc[p].call
      /\ proc'[p].rest = proc[p].rest /\ proc'[p].stage = x /\ proc'[p].cwd = proc[p].cwd
      /\ proc'[p].files = proc[p].files
  BY <1>2, <1>3, StageIs
<1>6. \A t \in Inums : icache'[t].ref = icache[t].ref
  <2>1. CASE x = "free"
    BY <1>2, <1>3, <1>4, <2>1, TakeIs
  <2>2. CASE x = "drop"
    BY <1>3, <2>2
  <2> QED BY <2>1, <2>2
<1>7. ASSUME NEW s \in Inums, Uses(proc'[p], s)
      PROVE  Uses(proc[p], s)
  <2>1. RefCount(proc'[p], s) = RefCount(proc[p], s)
    BY <1>2, <1>5, StageRefs
  <2>2. RefCount(proc[p], s) >= 1
    BY <1>2, <1>7, <2>1, HandUsed
  <2>3. Spare(proc[p], s) = 0
    BY <1>1 DEF Spare
  <2>4. RefCount(proc[p], s) \in Nat
    BY <1>2, HandUsed
  <2> QED BY <2>2, <2>3, <2>4 DEF Uses
<1>8. Alone'
  <2> SUFFICES ASSUME NEW q \in Procs, Freed(proc'[q]) # 0
               PROVE  icache'[Freed(proc'[q])].ref = 1
    BY DEF Alone
  <2>1. CASE q = p
    <3>1. Freed(proc'[p]) = h /\ x = "free"
      BY <1>5, <2>1 DEF Freed
    <3> QED BY <1>3, <1>4, <1>6, <2>1, <3>1
  <2>2. CASE q # p
    <3>1. Freed(proc'[q]) = Freed(proc[q])
      BY <1>5, <2>2 DEF Apart
    <3>2. Freed(proc[q]) \in Inums
      <4>1. proc[q].put \in Seq(Inums)
        BY ProcFacts
      <4> QED BY <3>1, <4>1, HeadTailProperties DEF Freed
    <3>3. icache[Freed(proc[q])].ref = 1
      BY <3>1 DEF UInv, Alone
    <3> QED BY <1>6, <3>1, <3>2, <3>3
  <2> QED BY <2>1, <2>2
<1> QED BY <1>1, <1>5, <1>7, <1>8, PutUse

LEMMA IputFreeUse ==
  ASSUME IInv, IInv', UInv, NEW p \in Procs, IputFree(p)
  PROVE  UInv'
<1> DEFINE h == Head(proc[p].put)
<1>1. /\ panicked = "" /\ proc[p].put # <<>> /\ proc[p].stage = "free" /\ Fixed
      /\ disk' = [disk EXCEPT ![h] = Free] /\ Stage(p, "drop")
  BY DEF IputFree, Putting
<1>2. /\ proc[p] \in ProcType /\ icache \in CacheType /\ proc \in [Procs -> ProcType]
      /\ disk \in DiskType
      /\ \A q \in Procs : proc[q] \in ProcType /\ proc'[q] \in ProcType
  BY DEF IInv, Typed
<1>3. h \in Inums /\ Freed(proc[p]) = h /\ h # 0
  <2>1. h \in Inums
    BY <1>1, <1>2, HeadTailProperties DEF ProcType
  <2> QED BY <1>1, <2>1, InumIs DEF Freed
<1>4. /\ Apart(p) /\ proc'[p].pc = proc[p].pc /\ proc'[p].ip = proc[p].ip
      /\ proc'[p].dp = proc[p].dp /\ proc'[p].put = proc[p].put /\ proc'[p].call = proc[p].call
      /\ proc'[p].rest = proc[p].rest /\ proc'[p].stage = "drop" /\ proc'[p].cwd = proc[p].cwd
      /\ proc'[p].files = proc[p].files
  BY <1>1, <1>2, StageIs
<1>5. Used /\ Alone
  BY DEF UInv
<1>6. icache[h].ref = 1
  BY <1>3, <1>5 DEF Alone
<1>7. ASSUME NEW s \in Inums
      PROVE  /\ Uses(proc'[p], s) => Uses(proc[p], s)
             /\ ~Uses(proc'[p], h)
  <2>1. RefCount(proc'[p], s) = RefCount(proc[p], s) /\ RefCount(proc'[p], h) = RefCount(proc[p], h)
    BY <1>2, <1>4, StageRefs
  <2>2. Spare(proc[p], s) = 0 /\ Spare(proc'[p], h) = 1
    BY <1>1, <1>4 DEF Spare, Eq
  <2>3. RefCount(proc[p], s) \in Nat /\ RefCount(proc[p], h) \in Nat
    BY <1>2, <1>3, HandUsed
  <2>4. RefCount(proc[p], h) <= 1
    BY <1>3, <1>6, RefsBound
  <2>5. Uses(proc'[p], s) => RefCount(proc[p], s) >= 1
    BY <1>2, <2>1, HandUsed
  <2> QED BY <2>1, <2>2, <2>3, <2>4, <2>5 DEF Uses
<1>8. ASSUME NEW q \in Procs
      PROVE  /\ ~Uses(proc'[q], h)
             /\ proc[q].pc = "created" => proc[q].ip # h
  <2>1. proc[q].pc = "created" => proc[q].ip # h
    BY <1>3 DEF IInv, Entries, EntryOf
  <2>2. CASE q = p
    BY <1>3, <1>7, <2>1, <2>2
  <2>3. CASE q # p
    <3>1. proc'[q] = proc[q]
      BY <1>4, <2>3 DEF Apart
    <3>2. ~Uses(proc[q], h)
      BY <1>3, <1>5, <2>3, NotGained
    <3> QED BY <2>1, <3>1, <3>2
  <2> QED BY <2>2, <2>3
<1>9. \A s \in Inums : \/ disk'[s] = disk[s]
                       \/ /\ disk'[s] = Free
                          /\ \A q \in Procs : /\ ~Uses(proc'[q], s)
                                              /\ proc[q].pc = "created" => proc[q].ip # s
  BY <1>1, <1>2, <1>3, <1>8 DEF DiskType
<1>10. Alone'
  <2> SUFFICES ASSUME NEW q \in Procs, Freed(proc'[q]) # 0
               PROVE  icache'[Freed(proc'[q])].ref = 1
    BY DEF Alone
  <2>1. q # p
    BY <1>4 DEF Freed
  <2>2. Freed(proc'[q]) = Freed(proc[q])
    BY <1>4, <2>1 DEF Apart
  <2>3. Freed(proc[q]) \in Inums
    BY <1>2, <2>2, HeadTailProperties DEF Freed, ProcType
  <2>4. icache[Freed(proc[q])].ref = 1 /\ RefCount(proc[p], Freed(proc[q])) = 0
    BY <1>5, <2>1, <2>3, NotGained
  <2>5. h # Freed(proc[q])
    <3>1. RefCount(proc[p], h) >= 1
      BY <1>2, <1>3, HandUsed
    <3> QED BY <2>4, <3>1
  <2>6. icache' = [Drop(icache, h) EXCEPT ![h] = [@ EXCEPT !.valid = FALSE, !.type = "free"]]
    BY DEF IputFree
  <2>7. icache'[Freed(proc[q])] = icache[Freed(proc[q])]
    BY <1>2, <1>3, <2>3, <2>5, <2>6 DEF Drop, CacheType
  <2> QED BY <2>2, <2>4, <2>7
<1> QED BY <1>1, <1>4, <1>7, <1>9, <1>10, PutUse

LEMMA IputDropUse ==
  ASSUME IInv, IInv', UInv, NEW p \in Procs, IputDrop(p)
  PROVE  UInv'
<1> DEFINE h == Head(proc[p].put)
<1>1. /\ panicked = "" /\ proc[p].put # <<>> /\ proc[p].stage = "drop" /\ Fixed /\ disk' = disk
      /\ icache' = [icache EXCEPT ![h] = IF @.ref = 1 THEN Blank
                                         ELSE [@ EXCEPT !.ref = icache[h].ref - 1]]
      /\ proc' = [proc EXCEPT ![p] = [@ EXCEPT !.stage = "lock", !.put = Tail(proc[p].put)]]
  BY DEF IputDrop, Putting
<1>2. /\ proc[p] \in ProcType /\ icache \in CacheType /\ proc \in [Procs -> ProcType]
      /\ \A q \in Procs : proc[q] \in ProcType /\ proc'[q] \in ProcType
  BY DEF IInv, Typed
<1>3. h \in Inums
  BY <1>1, <1>2, HeadTailProperties DEF ProcType
<1>4. /\ Apart(p) /\ proc'[p].pc = proc[p].pc /\ proc'[p].ip = proc[p].ip
      /\ proc'[p].dp = proc[p].dp /\ proc'[p].put = Tail(proc[p].put)
      /\ proc'[p].call = proc[p].call
      /\ proc'[p].rest = proc[p].rest /\ proc'[p].stage = "lock" /\ proc'[p].cwd = proc[p].cwd
      /\ proc'[p].files = proc[p].files
  BY <1>1, <1>2 DEF Apart, ProcType
<1>5. Used /\ Alone
  BY DEF UInv
<1>6. ASSUME NEW s \in Inums, Uses(proc'[p], s)
      PROVE  Uses(proc[p], s)
  <2>1. RefCount(proc'[p], s) >= 1
    BY <1>2, <1>6, HandUsed
  <2>2. In(proc[p].put, s) = In(Tail(proc[p].put), s) + Eq(h, s)
    BY <1>1, <1>2, InTail DEF ProcType
  <2>3. Spare(proc[p], s) = Eq(h, s)
    BY <1>1 DEF Spare
  <2>4. In(Tail(proc[p].put), s) \in Nat /\ In(proc[p].files, s) \in Nat
    <3>1. Tail(proc[p].put) \in Seq(Inums) /\ proc[p].files \in Seq(Inums)
      BY <1>1, <1>2, HeadTailProperties DEF ProcType
    <3> QED BY <3>1, InFinite
  <2>5. /\ Eq(proc[p].ip, s) \in Nat /\ Eq(proc[p].dp, s) \in Nat /\ Eq(proc[p].cwd, s) \in Nat
        /\ Eq(h, s) \in Nat
    BY DEF Eq
  <2>6. RefCount(proc[p], s) = RefCount(proc'[p], s) + Eq(h, s)
    BY <1>4, <2>2, <2>4, <2>5 DEF RefCount
  <2>7. RefCount(proc'[p], s) \in Nat
    BY <1>2, HandUsed
  <2> QED BY <2>1, <2>3, <2>5, <2>6, <2>7 DEF Uses
<1>7. Alone'
  <2> SUFFICES ASSUME NEW q \in Procs, Freed(proc'[q]) # 0
               PROVE  icache'[Freed(proc'[q])].ref = 1
    BY DEF Alone
  <2>1. q # p
    BY <1>4 DEF Freed
  <2>2. Freed(proc'[q]) = Freed(proc[q])
    BY <1>4, <2>1 DEF Apart
  <2>3. Freed(proc[q]) \in Inums
    BY <1>2, <2>2, HeadTailProperties DEF Freed, ProcType
  <2>4. icache[Freed(proc[q])].ref = 1 /\ RefCount(proc[p], Freed(proc[q])) = 0
    BY <1>5, <2>1, <2>3, NotGained
  <2>5. h # Freed(proc[q])
    <3>1. /\ Eq(proc[p].ip, h) + Eq(proc[p].dp, h) + In(proc[p].put, h) <= RefCount(proc[p], h)
          /\ In(proc[p].put, h) >= 1
          /\ Eq(proc[p].ip, h) \in Nat /\ Eq(proc[p].dp, h) \in Nat
          /\ In(proc[p].put, h) \in Nat /\ RefCount(proc[p], h) \in Nat
      BY <1>1, <1>2, <1>3, RefsHeld
    <3>2. RefCount(proc[p], h) # 0
      BY <3>1
    <3> QED BY <2>4, <3>2
  <2>6. icache'[Freed(proc[q])] = icache[Freed(proc[q])]
    BY <1>1, <1>2, <1>3, <2>3, <2>5 DEF CacheType
  <2> QED BY <2>2, <2>4, <2>6
<1> QED BY <1>1, <1>4, <1>6, <1>7, PutUse

-----------------------------------------------------------------------------
(* The calls that leave the disk alone.                                    *)

\* The cache, its link counts as the steps of a call may leave them on the way.
LooseCache == [Inums -> [ref : Nat, valid : BOOLEAN, nlink : Int,
                         type : {"free", "dir", "file"}, locker : Procs \cup {NoProc}]]

\* Only iget() moves ref, and no operator but ilock() the type.
LEMMA IgetMoves ==
  ASSUME NEW ic \in LooseCache, NEW s \in Inums
  PROVE  /\ Iget(ic, s) \in LooseCache
         /\ \A t \in Inums : /\ Iget(ic, s)[t].ref = ic[t].ref + Eq(s, t)
                             /\ Iget(ic, s)[t].type = ic[t].type
BY DEF LooseCache, Iget, Eq

LEMMA TakeMoves ==
  ASSUME NEW ic \in LooseCache, NEW s \in Inums, NEW p \in Procs
  PROVE  /\ Take(ic, s, p) \in LooseCache
         /\ \A t \in Inums : /\ Take(ic, s, p)[t].ref = ic[t].ref
                             /\ Take(ic, s, p)[t].type = ic[t].type
BY DEF LooseCache, Take

LEMMA DropMoves ==
  ASSUME NEW ic \in LooseCache, NEW s \in Inums
  PROVE  /\ Drop(ic, s) \in LooseCache
         /\ \A t \in Inums : /\ Drop(ic, s)[t].ref = ic[t].ref
                             /\ Drop(ic, s)[t].type = ic[t].type
BY DEF LooseCache, Drop

LEMMA RelinkMoves ==
  ASSUME NEW ic \in LooseCache, NEW s \in Inums, NEW k \in Int
  PROVE  /\ Relink(ic, s, k) \in LooseCache
         /\ \A t \in Inums : /\ Relink(ic, s, k)[t].ref = ic[t].ref
                             /\ Relink(ic, s, k)[t].type = ic[t].type
BY DEF LooseCache, Relink

\* ilock() leaves ref alone.
LEMMA ReadRefs ==
  ASSUME IInv, NEW s \in Inums
  PROVE  /\ Ilock(icache, s) \in LooseCache /\ icache \in LooseCache
         /\ \A t \in Inums : Ilock(icache, s)[t].ref = icache[t].ref
<1>1. icache \in CacheType /\ disk \in DiskType
  BY DEF IInv, Typed
<1>2. /\ Ilock(icache, s) \in CacheType
      /\ \A t \in Inums : Ilock(icache, s)[t].ref = icache[t].ref
  BY <1>1, IlockIs
<1>3. CacheType \subseteq LooseCache
  BY DEF CacheType, LooseCache
<1> QED BY <1>1, <1>2, <1>3

LEMMA GotoSets ==
  ASSUME proc \in [Procs -> ProcType], NEW p \in Procs, NEW place, NEW i, NEW d, NEW puts,
         Goto(p, place, i, d, puts)
  PROVE  /\ Apart(p) /\ proc'[p].pc = place /\ proc'[p].ip = i /\ proc'[p].dp = d
         /\ proc'[p].call = proc[p].call /\ proc'[p].rest = proc[p].rest
         /\ proc'[p].stage = proc[p].stage
BY DEF Goto, Apart, ProcType

LEMMA OpenFileSets ==
  ASSUME proc \in [Procs -> ProcType], NEW p \in Procs, NEW s, OpenFile(p, s)
  PROVE  /\ Apart(p) /\ proc'[p].pc \in Between /\ proc'[p].rest = proc[p].rest
         /\ proc'[p].stage = proc[p].stage
BY ZenonT(60) DEF OpenFile, Fail, Goto, Apart, ProcType, Between

\* What a process has to look up stays the same, but where a name is to be made.
LEMMA WayKept ==
  ASSUME NEW p \in Procs, WayOf(p), proc'[p].rest = proc[p].rest,
         proc'[p].pc \notin {"create", "mkdir", "created", "link2"},
         \/ proc'[p].pc \in Between
         \/ proc[p].pc \notin Between /\ proc'[p].call = proc[p].call
  PROVE  WayOf(p)'
BY DEF WayOf, Call

\* No reference is gained.
LEMMA GainsNone ==
  ASSUME IInv, NEW p \in Procs, \A s \in Inums : icache'[s].ref = icache[s].ref
  PROVE  Gains(p, 0)
<1>1. \A s \in Inums : Eq(0, s) = 0 /\ icache[s].ref \in Nat
  BY InumIs DEF Eq, IInv, Typed, CacheType
<1>2. 0 \in 0..NINODES
  BY FsAssumption
<1> QED BY <1>1, <1>2 DEF Gains

\* A step that moves no reference and leaves the disk alone.
LEMMA StillUse ==
  ASSUME IInv, IInv', UInv, NEW p \in Procs, proc[p].put = <<>>, Apart(p), panicked = "",
         proc[p].pc # "created", proc'[p].pc # "created", proc'[p].stage = proc[p].stage,
         Fixed, UNCHANGED disk, \A s \in Inums : icache'[s].ref = icache[s].ref, WayOf(p)'
  PROVE  UInv'
<1>1. Gains(p, 0)
  BY GainsNone
<1> QED BY <1>1, QuietUse

\* A reference is gained to inode g, which somebody uses or that has a link.
LEMMA GainsOne ==
  ASSUME IInv, Used, UNCHANGED disk, NEW p \in Procs, NEW g \in Inums,
         \A s \in Inums : icache'[s].ref = icache[s].ref + Eq(g, s),
         Uses(proc[p], g) \/ disk[g].nlink # 0
  PROVE  Gains(p, g)
<1>1. \A s \in Inums : Eq(g, s) \in Nat /\ icache[s].ref \in Nat
  BY DEF Eq, IInv, Typed, CacheType
<1>2. g \in 0..NINODES
  BY InumIs
<1>3. disk[g].type # "free"
  <2>1. disk[g].nlink # 0 => disk[g].type # "free"
    BY DEF IInv, Links, FreeIsFree, Free
  <2> QED BY <2>1 DEF Used
<1> QED BY <1>1, <1>2, <1>3 DEF Gains

\* What an entry names may be used: "." is the directory itself.
LEMMA EntryUsed ==
  ASSUME IInv, UInv, NEW p \in Procs, NEW s \in Inums, Uses(proc[p], s), proc[p].pc # "created",
         disk[s].type = "dir", NEW n \in Names, n # "..", Dirlookup(s, n) # 0
  PROVE  /\ Dirlookup(s, n) \in Inums
         /\ Uses(proc[p], Dirlookup(s, n)) \/ disk[Dirlookup(s, n)].nlink # 0
<1> DEFINE g == Dirlookup(s, n)
<1>1. g \in Inums /\ g = disk[s].ent[n]
  BY EntryIs DEF Dirlookup, IInv, Typed
<1>2. CASE n = "."
  <2>1. ~Making(s)
    BY DEF UInv, Fresh, FreshOf, Making
  <2>2. g = s
    BY <1>1, <1>2, <2>1 DEF UInv, DotsSelf
  <2> QED BY <1>1, <2>2
<1>3. CASE n # "."
  <2>1. n \in Names \ Dots
    BY <1>3 DEF Dots
  <2> HIDE DEF g
  <2>2. disk[g].nlink >= 1
    BY <1>1, <2>1, Linked DEF IInv
  <2>3. disk[g].nlink # 0
    BY <2>2
  <2> QED BY <1>1, <2>3 DEF g
<1> QED BY <1>2, <1>3

\* The inode namex() starts at.
LEMMA StartUsed ==
  ASSUME IInv, NEW p \in Procs, NEW path
  PROVE  /\ StartAt(p, path) \in Inums
         /\ Uses(proc[p], StartAt(p, path)) \/ disk[StartAt(p, path)].nlink # 0
<1>1. proc[p] \in ProcType /\ proc[p].cwd \in Inums
  BY ProcFacts
<1>2. Uses(proc[p], proc[p].cwd)
  BY <1>1, HandUsed
<1>3. Root \in Inums
  BY InumIs
<1>4. disk[Root].nlink >= 1
  BY <1>3, Linked DEF IInv
<1>5. disk[Root].nlink # 0
  BY <1>4
<1> QED BY <1>1, <1>2, <1>3, <1>5 DEF StartAt

\* The elements of a path that does not go up.
LEMMA DownElements ==
  ASSUME NEW q \in Paths, Down(q)
  PROVE  Down(Elements(q))
<1>1. CASE Absolute(q)
  <2>1. /\ q # <<>> /\ Elements(q) = Tail(q)
    BY <1>1 DEF Absolute, Elements
  <2>2. /\ Tail(q) \in Seq(Names \cup {"/"}) /\ Len(Tail(q)) = Len(q) - 1
        /\ \A i \in 1..Len(Tail(q)) : Tail(q)[i] = q[i + 1]
    BY <2>1, HeadTailProperties DEF Paths
  <2>3. ASSUME NEW k \in DOMAIN Tail(q) PROVE Tail(q)[k] # ".."
    <3>1. k \in 1..Len(Tail(q)) /\ k + 1 \in DOMAIN q
      BY <2>2, LenProperties DEF Paths
    <3> QED BY <2>2, <3>1 DEF Down
  <2> QED BY <2>1, <2>3 DEF Down
<1>2. CASE ~Absolute(q)
  BY <1>2 DEF Elements
<1> QED BY <1>1, <1>2

LEMMA BeginUse ==
  ASSUME NoUpwards, IInv, IInv', UInv, NEW p \in Procs, NEW c \in Calls[p], Begin(p, c)
  PROVE  UInv'
<1> DEFINE g == StartAt(p, c.path)
<1>1. /\ proc[p].pc = "user" /\ proc[p].put = <<>> /\ panicked = "" /\ Fixed /\ disk' = disk
      /\ icache' = Iget(icache, g)
      /\ proc' = [proc EXCEPT ![p] = [proc[p] EXCEPT !.pc = "walk", !.call = c,
                   !.calls = proc[p].calls + 1, !.rest = Elements(c.path), !.ip = g]]
  BY DEF Begin, At, Start
<1>2. proc \in [Procs -> ProcType]
  BY ProcFacts
<1>3. g \in Inums /\ (Uses(proc[p], g) \/ disk[g].nlink # 0)
  BY StartUsed
<1> HIDE DEF g
<1>4. /\ Apart(p) /\ proc'[p].pc = "walk" /\ proc'[p].call = c /\ proc'[p].rest = Elements(c.path)
      /\ proc'[p].stage = proc[p].stage
  BY <1>1, <1>2 DEF Apart, ProcType
<1>5. WayOf(p)'
  <2>1. c \in CallType /\ c.path \in Paths
    BY CallsAssumption DEF CallType
  <2>2. Down(c.path) /\ Down(c.new)
    BY DEF NoUpwards, Range, Down
  <2>3. Down(Elements(c.path))
    BY <2>1, <2>2, DownElements
  <2> QED BY <1>4, <2>2, <2>3 DEF WayOf, Call
<1>6. \A s \in Inums : icache'[s].ref = icache[s].ref + Eq(g, s)
  <2>1. icache \in LooseCache /\ g \in Inums
    BY <1>3, ReadRefs
  <2>2. \A s \in Inums : Iget(icache, g)[s].ref = icache[s].ref + Eq(g, s)
    BY <2>1, IgetMoves
  <2> QED BY <1>1, <2>2
<1>7. Gains(p, g)
  BY <1>1, <1>3, <1>6, GainsOne DEF UInv
<1> QED BY <1>1, <1>4, <1>5, <1>7, QuietUse

\* Where namex() gives up, or gives what it has come to.
LEMMA LookedUpUse ==
  ASSUME IInv, IInv', UInv, NEW p \in Procs, proc[p].put = <<>>, panicked = "",
         proc[p].pc \in {"walk", "walknew"}, Fixed, UNCHANGED disk,
         \A s \in Inums : icache'[s].ref = icache[s].ref,
         \/ Failed(p)
         \/ /\ Goto(p, Found(p), proc[p].ip, proc[p].dp, <<>>)
            /\ ForParent(p) => Name(p) # ".." /\ disk[proc[p].ip].type = "dir"
  PROVE  UInv'
<1>1. /\ proc \in [Procs -> ProcType] /\ proc[p] \in ProcType /\ PlaceOf(proc[p]) /\ Naming(p)
      /\ proc[p].rest \in Seq(Names)
  BY ProcFacts
<1>2. WayOf(p)
  BY DEF UInv, Ways
<1>3. CASE Failed(p)
  <2>1. /\ Apart(p) /\ proc'[p].pc \in {"bad", "failed"} /\ proc'[p].call = proc[p].call
        /\ proc'[p].rest = proc[p].rest /\ proc'[p].stage = proc[p].stage
    <3>1. CASE proc[p].pc = "walknew"
      <4>1. Goto(p, "bad", proc[p].dp, 0, <<proc[p].ip>>)
        BY <1>3, <3>1 DEF Failed
      <4> QED BY <1>1, <4>1, GotoSets
    <3>2. CASE proc[p].pc # "walknew"
      <4>1. Goto(p, "failed", 0, 0, <<proc[p].ip>>)
        BY <1>3, <3>2 DEF Failed, Fail
      <4> QED BY <1>1, <4>1, GotoSets
    <3> QED BY <3>1, <3>2
  <2>2. WayOf(p)'
    BY <1>2, <2>1, WayKept DEF Between
  <2> QED BY <2>1, <2>2, StillUse
<1>4. CASE /\ Goto(p, Found(p), proc[p].ip, proc[p].dp, <<>>)
           /\ ForParent(p) => Name(p) # ".." /\ disk[proc[p].ip].type = "dir"
  <2>1. /\ Apart(p) /\ proc'[p].pc = Found(p) /\ proc'[p].call = proc[p].call
        /\ proc'[p].rest = proc[p].rest /\ proc'[p].stage = proc[p].stage
        /\ proc'[p].ip = proc[p].ip
    <3>1. Goto(p, Found(p), proc[p].ip, proc[p].dp, <<>>)
      BY <1>4
    <3> DEFINE x == Found(p)
    <3> HIDE DEF x
    <3>2. Goto(p, x, proc[p].ip, proc[p].dp, <<>>)
      BY <3>1 DEF x
    <3>3. /\ Apart(p) /\ proc'[p].pc = x /\ proc'[p].call = proc[p].call
          /\ proc'[p].rest = proc[p].rest /\ proc'[p].stage = proc[p].stage
          /\ proc'[p].ip = proc[p].ip
      BY ONLY <1>1, <3>2, GotoSets, p \in Procs
    <3> QED BY <3>3 DEF x
  <2>2. Call(p).op \in {"open", "openw", "chdir", "create", "mkdir", "unlink", "link"}
    BY <1>1 DEF PlaceOf, Between, Call, CallType
  <2>3. Found(p) # "created" /\ Found(p) \notin Between
    BY <2>2 DEF Found, Between
  <2>4. Found(p) \in {"create", "mkdir", "link2"} => ForParent(p)
    BY <2>2 DEF Found, ForParent
  <2>5. ForParent(p) => Name(p) # ".."
    BY <1>4
  <2>6. Found(p) \in {"create", "mkdir", "link2"} => Name(p)' = Name(p)
    BY <2>1, <2>2 DEF Name, Call, Found
  <2>7. WayOf(p)'
    <3>1. Down(proc[p].rest) /\ Down(Call(p).new)
      BY <1>2 DEF WayOf, Between
    <3> QED BY <1>4, <2>1, <2>3, <2>4, <2>5, <2>6, <3>1 DEF WayOf, Call
  <2> QED BY <2>1, <2>3, <2>7, StillUse
<1> QED BY <1>3, <1>4

LEMMA WalkUse ==
  ASSUME IInv, IInv', UInv, NEW p \in Procs, Walk(p)
  PROVE  UInv'
<1> DEFINE s == proc[p].ip
           rest == proc[p].rest
           ic == Ilock(icache, s)
           next == Dirlookup(s, Head(rest))
           isParent == ForParent(p) /\ Len(rest) = 1
<1>1. /\ proc[p].put = <<>> /\ proc[p].pc \in {"walk", "walknew"} /\ rest # <<>> /\ panicked = ""
  BY DEF Walk, Locking, At
<1>2. /\ proc \in [Procs -> ProcType] /\ proc[p] \in ProcType /\ s \in Inums
      /\ rest \in Seq(Names) /\ Head(rest) \in Names
  BY <1>1, ProcFacts, HeadTailProperties DEF PlaceOf, One, Two
<1>3. Uses(proc[p], s) /\ disk[s].type # "free" /\ ~NoType(s)
  BY <1>2, InHand DEF UInv
<1>4. /\ ic \in LooseCache /\ \A t \in Inums : ic[t].ref = icache[t].ref
  BY <1>2, ReadRefs
<1>5. ic[s].type = disk[s].type
  BY <1>2, <1>3, ReadIs
<1>6. Fixed /\ disk' = disk
  BY <1>3 DEF Walk
<1>7. WayOf(p)
  BY DEF UInv, Ways
<1>8. CASE ic[s].type # "dir" \/ (next = 0 /\ ~isParent)
  <2>1. icache' = ic /\ Failed(p)
    BY <1>3, <1>8 DEF Walk
  <2> QED BY <1>1, <1>4, <1>6, <2>1, LookedUpUse
<1>9. CASE ~(ic[s].type # "dir" \/ (next = 0 /\ ~isParent)) /\ isParent
  <2>1. icache' = ic /\ Goto(p, Found(p), s, proc[p].dp, <<>>)
    BY <1>3, <1>9 DEF Walk
  <2>2. Name(p) # ".."
    <3>1. DOMAIN rest = 1..Len(rest) /\ Len(rest) = 1
      BY <1>2, <1>9, LenProperties
    <3>2. Name(p) = Last(rest)
      BY <1>1, ProcFacts DEF Naming
    <3> QED BY <1>7, <3>1, <3>2 DEF WayOf, Down, Last
  <2>3. disk[s].type = "dir"
    BY <1>5, <1>9
  <2> QED BY <1>1, <1>4, <1>6, <2>1, <2>2, <2>3, LookedUpUse
<1>10. CASE ~(ic[s].type # "dir" \/ (next = 0 /\ ~isParent)) /\ ~isParent
  <2>1. /\ icache' = Iget(ic, next)
        /\ proc' = [proc EXCEPT ![p] = [proc[p] EXCEPT !.ip = next, !.rest = Tail(rest), !.put = <<s>>]]
    BY <1>3, <1>10 DEF Walk
  <2>2. /\ Apart(p) /\ proc'[p].pc = proc[p].pc /\ proc'[p].call = proc[p].call
        /\ proc'[p].rest = Tail(rest) /\ proc'[p].stage = proc[p].stage
    BY <1>2, <2>1 DEF Apart, ProcType
  <2>3. Head(rest) # ".."
    <3>1. 1 \in DOMAIN rest /\ Head(rest) = rest[1]
      <4>1. Len(rest) # 0 /\ Len(rest) \in Nat /\ DOMAIN rest = 1..Len(rest)
        BY <1>1, <1>2, EmptySeq, LenProperties
      <4>2. Head(rest) = rest[1]
        OBVIOUS
      <4> QED BY <4>1, <4>2
    <3> QED BY <1>7, <3>1 DEF WayOf, Down
  <2>4. next \in Inums /\ (Uses(proc[p], next) \/ disk[next].nlink # 0)
    BY <1>1, <1>2, <1>3, <1>5, <1>10, <2>3, EntryUsed
  <2> HIDE DEF next, ic, isParent
  <2>5. \A t \in Inums : icache'[t].ref = icache[t].ref + Eq(next, t)
    BY <1>4, <2>1, <2>4, IgetMoves
  <2>6. Gains(p, next)
    BY <1>6, <2>4, <2>5, GainsOne DEF UInv
  <2>7. Down(Tail(rest))
    <3>1. /\ Len(Tail(rest)) = Len(rest) - 1 /\ Tail(rest) \in Seq(Names)
          /\ \A i \in 1..Len(Tail(rest)) : Tail(rest)[i] = rest[i + 1]
      BY <1>1, <1>2, HeadTailProperties
    <3>2. ASSUME NEW k \in DOMAIN Tail(rest) PROVE Tail(rest)[k] # ".."
      <4>1. k \in 1..Len(Tail(rest)) /\ k + 1 \in DOMAIN rest
        BY <1>2, <3>1, LenProperties
      <4> QED BY <1>7, <3>1, <4>1 DEF WayOf, Down
    <3> QED BY <3>2 DEF Down
  <2>8. WayOf(p)'
    BY <1>1, <1>7, <2>2, <2>7 DEF WayOf, Call, Between
  <2> QED BY <1>1, <1>6, <2>2, <2>6, <2>8, QuietUse
<1> QED BY <1>8, <1>9, <1>10

LEMMA WalkedUse ==
  ASSUME IInv, IInv', UInv, NEW p \in Procs, Walked(p)
  PROVE  UInv'
<1>1. /\ proc[p].put = <<>> /\ proc[p].pc \in {"walk", "walknew"} /\ panicked = ""
      /\ Fixed /\ disk' = disk /\ icache' = icache
  BY DEF Walked, At
<1>2. \/ Failed(p)
      \/ Goto(p, Found(p), proc[p].ip, proc[p].dp, <<>>) /\ ~ForParent(p)
  BY DEF Walked
<1> QED BY <1>1, <1>2, LookedUpUse

LEMMA EndUse ==
  ASSUME IInv, IInv', UInv, NEW p \in Procs, End(p)
  PROVE  UInv'
<1>1. /\ proc[p].put = <<>> /\ proc[p].pc \in {"end", "failed"} /\ panicked = ""
      /\ panicked' = panicked /\ disk' = disk /\ icache' = icache
      /\ proc' = [proc EXCEPT ![p] = [@ EXCEPT !.pc = "user", !.call = <<>>, !.rest = <<>>]]
  BY DEF End, At
<1>2. /\ proc \in [Procs -> ProcType] /\ proc[p].stage = "lock"
  BY <1>1, ProcFacts DEF PlaceOf
<1>3. /\ Apart(p) /\ proc'[p].pc = "user" /\ proc'[p].rest = <<>> /\ proc'[p].stage = "lock"
  BY <1>1, <1>2 DEF Apart, ProcType
<1>4. WayOf(p)' /\ FreshOf(p)'
  BY <1>3 DEF WayOf, FreshOf, Down, Between
<1>5. Gains(p, 0)
  BY <1>1, GainsNone
<1>6. DotsSelf'
  <2> SUFFICES ASSUME NEW s \in Inums, disk[s].type = "dir", disk[s].ent["."] # s
               PROVE  \E q \in Procs : proc'[q].pc = "created" /\ proc'[q].ip = s
    BY <1>1 DEF DotsSelf, Making
  <2>1. PICK q \in Procs : proc[q].pc = "created" /\ proc[q].ip = s
    BY DEF UInv, DotsSelf, Making
  <2> QED BY <1>1, <1>3, <2>1 DEF Apart
<1>7. DotsLast'
  <2>1. CASE durable' = durable
    BY <2>1 DEF UInv, DotsLast
  <2>2. CASE durable' = disk /\ \A q \in Procs \ {p} : proc[q].pc = "user"
    <3>1. \A s \in Inums : ~Making(s)
      BY <1>1, <2>2 DEF Making
    <3> QED BY <2>2, <3>1 DEF UInv, DotsSelf, DotsLast
  <2> QED BY <2>1, <2>2 DEF End
<1> QED BY <1>1, <1>3, <1>4, <1>5, <1>6, <1>7, UseStep

\* The calls that end, by keeping or putting what they have in hand.
LEMMA EndsUse ==
  ASSUME IInv, IInv', UInv, NEW p \in Procs, proc[p].put = <<>>, proc[p].pc # "created",
         panicked = "", Fixed, UNCHANGED disk, Apart(p), proc'[p].pc \in Between,
         proc'[p].rest = proc[p].rest, proc'[p].stage = proc[p].stage,
         \A s \in Inums : icache'[s].ref = icache[s].ref
  PROVE  UInv'
<1>1. WayOf(p)
  BY DEF UInv, Ways
<1>2. proc'[p].pc \notin {"create", "mkdir", "created", "link2"}
  BY DEF Between
<1>3. WayOf(p)'
  BY <1>1, <1>2, WayKept
<1> QED BY <1>2, <1>3, StillUse

LEMMA OpenUse ==
  ASSUME IInv, IInv', UInv, NEW p \in Procs, Open(p) \/ CreateExists(p)
  PROVE  UInv'
<1> DEFINE s == proc[p].ip
           ic == Ilock(icache, s)
<1>1. /\ proc[p].put = <<>> /\ proc[p].pc \in {"open", "openw", "exists"} /\ panicked = ""
  BY DEF Open, CreateExists, Locking, At
<1>2. /\ proc \in [Procs -> ProcType] /\ s \in Inums
  BY <1>1, ProcFacts DEF PlaceOf, One
<1>3. ~NoType(s)
  BY <1>2, InHand DEF UInv
<1>4. Fixed /\ disk' = disk /\ icache' = ic /\ (Fail(p, <<s>>) \/ OpenFile(p, s))
  <2>1. CASE Open(p)
    BY <1>3, <2>1 DEF Open
  <2>2. CASE CreateExists(p)
    BY <1>3, <2>2 DEF CreateExists
  <2> QED BY <2>1, <2>2
<1>5. \A t \in Inums : icache'[t].ref = icache[t].ref
  BY <1>2, <1>4, ReadRefs
<1>6. /\ Apart(p) /\ proc'[p].pc \in Between /\ proc'[p].rest = proc[p].rest
      /\ proc'[p].stage = proc[p].stage
  <2>1. CASE Fail(p, <<s>>)
    BY <1>2, <2>1 DEF Fail, Goto, Apart, ProcType, Between
  <2>2. CASE OpenFile(p, s)
    BY <1>2, <2>2, OpenFileSets
  <2> QED BY <1>4, <2>1, <2>2
<1> QED BY <1>1, <1>4, <1>5, <1>6, EndsUse

LEMMA ChdirUse ==
  ASSUME IInv, IInv', UInv, NEW p \in Procs, Chdir(p)
  PROVE  UInv'
<1> DEFINE s == proc[p].ip
           ic == Ilock(icache, s)
<1>1. /\ proc[p].put = <<>> /\ proc[p].pc = "chdir" /\ panicked = ""
  BY DEF Chdir, Locking, At
<1>2. /\ proc \in [Procs -> ProcType] /\ s \in Inums
  BY <1>1, ProcFacts DEF PlaceOf, One
<1>3. ~NoType(s)
  BY <1>2, InHand DEF UInv
<1>4. /\ Fixed /\ disk' = disk /\ icache' = ic
      /\ \/ Fail(p, <<s>>)
         \/ proc' = [proc EXCEPT ![p] = [@ EXCEPT !.pc = "end", !.ip = 0, !.cwd = s,
                                                  !.put = <<proc[p].cwd>>]]
  BY <1>3 DEF Chdir
<1>5. \A t \in Inums : icache'[t].ref = icache[t].ref
  BY <1>2, <1>4, ReadRefs
<1>6. /\ Apart(p) /\ proc'[p].pc \in Between /\ proc'[p].rest = proc[p].rest
      /\ proc'[p].stage = proc[p].stage
  BY <1>2, <1>4, ZenonT(60) DEF Fail, Goto, Apart, ProcType, Between
<1> QED BY <1>1, <1>4, <1>5, <1>6, EndsUse

LEMMA CloseUse ==
  ASSUME IInv, IInv', UInv, NEW p \in Procs, NEW k \in DOMAIN proc[p].files, Close(p, k)
  PROVE  UInv'
<1>1. /\ proc[p].put = <<>> /\ proc[p].pc = "user" /\ panicked = ""
      /\ Fixed /\ disk' = disk /\ icache' = icache
      /\ proc' = [proc EXCEPT ![p] = [@ EXCEPT !.pc = "end", !.files = RemoveAt(proc[p].files, k),
                                               !.put = <<proc[p].files[k]>>]]
  BY DEF Close, At
<1>2. proc \in [Procs -> ProcType]
  BY ProcFacts
<1>3. /\ Apart(p) /\ proc'[p].pc \in Between /\ proc'[p].rest = proc[p].rest
      /\ proc'[p].stage = proc[p].stage
  BY <1>1, <1>2 DEF Apart, ProcType, Between
<1> QED BY <1>1, <1>3, EndsUse

LEMMA CreateDoneUse ==
  ASSUME IInv, IInv', UInv, NEW p \in Procs, CreateDone(p)
  PROVE  UInv'
<1> DEFINE s == proc[p].ip
<1>1. /\ proc[p].put = <<>> /\ proc[p].pc = "new" /\ panicked = "" /\ Fixed /\ disk' = disk
      /\ icache' = Drop(icache, s) /\ (Finish(p, <<s>>) \/ OpenFile(p, s))
  BY DEF CreateDone, At
<1>2. /\ proc \in [Procs -> ProcType] /\ s \in Inums
  BY <1>1, ProcFacts DEF PlaceOf, One
<1>3. \A t \in Inums : icache'[t].ref = icache[t].ref
  <2>1. icache \in LooseCache
    BY <1>2, ReadRefs
  <2> QED BY <1>1, <1>2, <2>1, DropMoves
<1>4. /\ Apart(p) /\ proc'[p].pc \in Between /\ proc'[p].rest = proc[p].rest
      /\ proc'[p].stage = proc[p].stage
  <2>1. CASE Finish(p, <<s>>)
    BY <1>2, <2>1 DEF Finish, Goto, Apart, ProcType, Between
  <2>2. CASE OpenFile(p, s)
    BY <1>2, <2>2, OpenFileSets
  <2> QED BY <1>1, <2>1, <2>2
<1> QED BY <1>1, <1>3, <1>4, EndsUse

LEMMA LetParentGoUse ==
  ASSUME IInv, IInv', UInv, NEW p \in Procs, LetParentGo(p)
  PROVE  UInv'
<1> DEFINE d == proc[p].dp
<1>1. /\ proc[p].put = <<>> /\ proc[p].pc \in {"notempty", "linked"} /\ panicked = ""
      /\ Fixed /\ disk' = disk /\ icache' = Drop(icache, d)
      /\ \/ proc[p].pc = "notempty" /\ Fail(p, <<d>>)
         \/ proc[p].pc = "linked" /\ Goto(p, "bad", proc[p].ip, 0, <<d>>)
  BY DEF LetParentGo, At
<1>2. /\ proc \in [Procs -> ProcType] /\ d \in Inums
  BY <1>1, ProcFacts DEF PlaceOf, Two
<1>3. \A t \in Inums : icache'[t].ref = icache[t].ref
  <2>1. icache \in LooseCache
    BY <1>2, ReadRefs
  <2> QED BY <1>1, <1>2, <2>1, DropMoves
<1>4. /\ Apart(p) /\ proc'[p].pc \in {"failed", "bad"} /\ proc'[p].rest = proc[p].rest
      /\ proc'[p].stage = proc[p].stage /\ proc'[p].call = proc[p].call
  <2>1. \/ Goto(p, "failed", 0, 0, <<d>>)
        \/ Goto(p, "bad", proc[p].ip, 0, <<d>>)
    BY <1>1 DEF Fail
  <2> QED BY <1>2, <2>1, ZenonT(60) DEF Goto, Apart, ProcType
<1>5. WayOf(p)
  BY DEF UInv, Ways
<1>6. WayOf(p)'
  BY <1>1, <1>4, <1>5, WayKept DEF Between
<1> QED BY <1>1, <1>3, <1>4, <1>6, StillUse

LEMMA NamedRefs ==
  ASSUME IInv, NEW p \in Procs, NEW s \in Inums, NEW g \in Inums,
         \/ icache' = Iget(Ilock(icache, s), g)
         \/ icache' = Take(Iget(Ilock(icache, s), g), s, p)
  PROVE  \A t \in Inums : icache'[t].ref = icache[t].ref + Eq(g, t)
<1> DEFINE ic == Ilock(icache, s)
           ig == Iget(ic, g)
<1>1. /\ ic \in LooseCache /\ \A t \in Inums : ic[t].ref = icache[t].ref
  BY ReadRefs
<1>2. icache' = ig \/ icache' = Take(ig, s, p)
  OBVIOUS
<1> HIDE DEF ic
<1>3. ig \in LooseCache /\ \A t \in Inums : ig[t].ref = icache[t].ref + Eq(g, t)
  <2>1. ig \in LooseCache
    BY <1>1, IgetMoves
  <2>2. \A t \in Inums : ig[t].ref = ic[t].ref + Eq(g, t)
    BY <1>1, IgetMoves
  <2> HIDE DEF ig
  <2> QED BY <1>1, <2>1, <2>2
<1> HIDE DEF ig
<1>4. \A t \in Inums : Take(ig, s, p)[t].ref = ig[t].ref
  BY <1>3, TakeMoves
<1> QED BY <1>2, <1>3, <1>4

\* A call that has looked up a name, and refers to what it names.
LEMMA NamedUse ==
  ASSUME IInv, IInv', UInv, NEW p \in Procs, proc[p].put = <<>>, proc[p].pc # "created",
         proc[p].pc \notin Between, panicked = "", Fixed, UNCHANGED disk,
         NEW place \in {"exists", "unlinking", "linked"}, NEW i, NEW d, NEW puts,
         Goto(p, place, i, d, puts),
         NEW s \in Inums, NEW g \in Inums, Uses(proc[p], g) \/ disk[g].nlink # 0,
         \/ icache' = Iget(Ilock(icache, s), g)
         \/ icache' = Take(Iget(Ilock(icache, s), g), s, p)
  PROVE  UInv'
<1>1. proc \in [Procs -> ProcType]
  BY ProcFacts
<1>2. /\ Apart(p) /\ proc'[p].pc = place /\ proc'[p].rest = proc[p].rest
      /\ proc'[p].stage = proc[p].stage /\ proc'[p].call = proc[p].call
  BY <1>1, GotoSets
<1>3. \A t \in Inums : icache'[t].ref = icache[t].ref + Eq(g, t)
  BY NamedRefs
<1>4. WayOf(p)
  BY DEF UInv, Ways
<1>5. WayOf(p)'
  BY <1>2, <1>4, WayKept
<1>6. Gains(p, g)
  BY <1>3, GainsOne DEF UInv
<1> QED BY <1>2, <1>5, <1>6, QuietUse

LEMMA UnlinkUse ==
  ASSUME IInv, IInv', UInv, NEW p \in Procs, Unlink(p)
  PROVE  UInv'
<1> DEFINE d == proc[p].ip
           ic == Ilock(icache, d)
           i == Dirlookup(d, Name(p))
<1>1. /\ proc[p].put = <<>> /\ proc[p].pc = "unlink" /\ panicked = ""
  BY DEF Unlink, Locking, At
<1>2. /\ proc \in [Procs -> ProcType] /\ d \in Inums /\ Name(p) \in Names /\ disk \in DiskType
  BY <1>1, ProcFacts DEF PlaceOf, One, Naming
<1>3. ~NoType(d)
  BY <1>2, InHand DEF UInv
<1>4. Fixed /\ disk' = disk
  BY <1>3 DEF Unlink
<1>5. CASE Name(p) \in Dots \/ i = 0
  <2>1. icache' = ic /\ Fail(p, <<d>>)
    BY <1>3, <1>5 DEF Unlink
  <2>2. \A t \in Inums : icache'[t].ref = icache[t].ref
    BY <1>2, <2>1, ReadRefs
  <2>3. /\ Apart(p) /\ proc'[p].pc \in Between /\ proc'[p].rest = proc[p].rest
        /\ proc'[p].stage = proc[p].stage
    BY <1>2, <2>1 DEF Fail, Goto, Apart, ProcType, Between
  <2> QED BY <1>1, <1>4, <2>2, <2>3, EndsUse
<1>6. CASE Name(p) \notin Dots /\ i # 0
  <2>1. icache' = Take(Iget(ic, i), d, p) /\ Goto(p, "unlinking", i, d, <<>>)
    BY <1>3, <1>6 DEF Unlink
  <2>2. i \in Inums /\ i = disk[d].ent[Name(p)]
    BY <1>2, <1>6, EntryIs DEF Dirlookup
  <2>3. Name(p) \in Names \ Dots
    BY <1>2, <1>6
  <2> HIDE DEF i
  <2>4. disk[i].nlink >= 1
    BY <1>2, <2>2, <2>3, Linked DEF IInv
  <2>5. disk[i].nlink # 0
    BY <2>4
  <2>6. proc[p].pc # "created" /\ proc[p].pc \notin Between
    BY <1>1 DEF Between
  <2> QED BY <1>1, <1>2, <1>4, <2>1, <2>2, <2>5, <2>6, NamedUse
<1> QED BY <1>5, <1>6

-----------------------------------------------------------------------------
(* The calls that change the disk.                                         *)

LooseDisk == [Inums -> [type : {"free", "dir", "file"}, nlink : Int, ent : [Names -> 0..NINODES]]]

LEMMA DiskLoose == DiskType \subseteq LooseDisk
BY DEF DiskType, InodeType, LooseDisk

LEMMA EntryWritten ==
  ASSUME NEW e \in LooseDisk, NEW s \in Inums, NEW n \in Names, NEW i \in 0..NINODES
  PROVE  /\ WriteEntry(e, s, n, i) \in LooseDisk
         /\ \A t \in Inums : WriteEntry(e, s, n, i)[t].type = e[t].type
         /\ \A t \in Inums \ {s} : WriteEntry(e, s, n, i)[t] = e[t]
         /\ \A t \in Inums, m \in Names :
              WriteEntry(e, s, n, i)[t].ent[m] = IF t = s /\ m = n THEN i ELSE e[t].ent[m]
<1> DEFINE T == {"free", "dir", "file"}
           N == [Names -> 0..NINODES]
           D == [type : T, nlink : Int, ent : N]
<1>1. e \in [Inums -> D]
  BY DEF LooseDisk
<1>2. e[s] \in D /\ e[s].ent \in N
  BY <1>1
<1>3. [e[s].ent EXCEPT ![n] = i] \in N
  BY <1>2
<1>4. WriteEntry(e, s, n, i) = [e EXCEPT ![s] = [e[s] EXCEPT !.ent = [e[s].ent EXCEPT ![n] = i]]]
  BY DEF WriteEntry
<1>5. /\ WriteEntry(e, s, n, i) \in [Inums -> D]
      /\ \A t \in Inums : WriteEntry(e, s, n, i)[t].type = e[t].type
      /\ \A t \in Inums \ {s} : WriteEntry(e, s, n, i)[t] = e[t]
      /\ WriteEntry(e, s, n, i)[s].ent = [e[s].ent EXCEPT ![n] = i]
  <2> HIDE DEF N, T
  <2> QED BY <1>1, <1>2, <1>3, <1>4
<1>6. \A t \in Inums, m \in Names :
        WriteEntry(e, s, n, i)[t].ent[m] = IF t = s /\ m = n THEN i ELSE e[t].ent[m]
  <2>1. \A m \in Names : [e[s].ent EXCEPT ![n] = i][m] = IF m = n THEN i ELSE e[s].ent[m]
    BY <1>2
  <2> QED BY <1>5, <2>1
<1> QED BY <1>5, <1>6 DEF LooseDisk

LEMMA Iupdated ==
  ASSUME NEW e \in LooseDisk, NEW ic \in LooseCache, NEW s \in Inums
  PROVE  /\ Iupdate(e, ic, s) \in LooseDisk
         /\ \A t \in Inums \ {s} : Iupdate(e, ic, s)[t] = e[t]
         /\ Iupdate(e, ic, s)[s].type = ic[s].type
         /\ \A t \in Inums : Iupdate(e, ic, s)[t].ent = e[t].ent
BY DEF Iupdate, LooseDisk, LooseCache

\* The inode a process keeps locked is of the type the cache says.
LEMMA LockedType ==
  ASSUME IInv, NEW p \in Procs, NEW s \in Inums, PlaceLock(proc[p]) = s
  PROVE  icache[s].type = disk[s].type
<1>1. Holds(p, s)
  BY InumIs DEF Holds
<1> QED BY <1>1 DEF IInv, Holding, Coherent

\* "." of a directory that a process uses, and does not make, is there.
LEMMA DotThere ==
  ASSUME IInv, UInv, NEW p \in Procs, NEW d \in Inums, Uses(proc[p], d), disk[d].type = "dir",
         proc[p].pc = "created" => proc[p].ip # d
  PROVE  disk[d].ent["."] = d /\ disk[d].ent["."] # 0
<1>1. ~Making(d)
  BY DEF UInv, Fresh, FreshOf, Making
<1>2. disk[d].ent["."] = d
  BY <1>1 DEF UInv, DotsSelf
<1> QED BY <1>2, InumIs

\* A step that writes the inodes a process has in hand, and changes no type.
LEMMA WriteUse ==
  ASSUME IInv, IInv', UInv, NEW p \in Procs, proc[p].put = <<>>, panicked = "", Fixed, Apart(p),
         proc'[p].stage = proc[p].stage, proc'[p].pc # "created", WayOf(p)', NEW g, Gains(p, g),
         \A s \in Inums : s # proc[p].ip /\ s # proc[p].dp => disk'[s] = disk[s],
         \A s \in Inums : disk'[s].type = disk[s].type,
         \A s \in Inums : disk[s].type = "dir" => \/ disk'[s].ent["."] = disk[s].ent["."]
                                                  \/ disk'[s].ent["."] = s,
         \A s \in Inums : proc[p].pc = "created" /\ proc[p].ip = s /\ disk[s].type = "dir" =>
                            disk'[s].ent["."] = s
  PROVE  UInv'
<1>1. /\ durable' = durable /\ panicked' = "" /\ proc[p] \in ProcType
  BY ProcFacts DEF Fixed
<1>2. proc'[p].stage = "lock"
  BY ProcFacts DEF PlaceOf
<1>3. FreshOf(p)'
  BY DEF FreshOf
<1>4. DotsLast'
  BY <1>1 DEF UInv, DotsLast
<1>5. ASSUME NEW s \in Inums, ~Uses(proc[p], s) PROVE disk'[s].nlink = disk[s].nlink
  <2>1. s # proc[p].ip /\ s # proc[p].dp
    BY <1>1, <1>5, HandUsed
  <2> QED BY <2>1
<1>6. DotsSelf'
  <2> SUFFICES ASSUME NEW s \in Inums, disk'[s].type = "dir", disk'[s].ent["."] # s
               PROVE  \E q \in Procs : proc'[q].pc = "created" /\ proc'[q].ip = s
    BY DEF DotsSelf, Making
  <2>1. disk[s].type = "dir" /\ disk[s].ent["."] # s
    OBVIOUS
  <2>2. PICK q \in Procs : proc[q].pc = "created" /\ proc[q].ip = s
    BY <2>1 DEF UInv, DotsSelf, Making
  <2>3. q # p
    BY <2>1, <2>2
  <2> QED BY <2>2, <2>3 DEF Apart
<1> QED BY <1>1, <1>2, <1>3, <1>4, <1>5, <1>6, UseStep

\* A step that writes the link count of the inode it has in hand, and nothing else.
LEMMA RelinkUse ==
  ASSUME IInv, IInv', UInv, NEW p \in Procs, proc[p].put = <<>>, panicked = "", Fixed, Apart(p),
         proc'[p].stage = proc[p].stage, proc[p].pc # "created", proc'[p].pc # "created",
         WayOf(p)', NEW g, Gains(p, g), NEW s \in Inums, s = proc[p].ip,
         NEW ic \in LooseCache, ic[s].type = disk[s].type, disk' = Iupdate(disk, ic, s)
  PROVE  UInv'
<1>1. disk \in LooseDisk
  BY DiskLoose DEF IInv, Typed
<1>2. /\ disk'[s].type = ic[s].type
      /\ \A t \in Inums \ {s} : disk'[t] = disk[t]
      /\ \A t \in Inums : disk'[t].ent = disk[t].ent
  BY <1>1, Iupdated, ZenonT(60)
<1>3. \A t \in Inums : disk'[t].type = disk[t].type
  BY <1>2
<1>4. \A t \in Inums : t # proc[p].ip /\ t # proc[p].dp => disk'[t] = disk[t]
  BY <1>2
<1> QED BY <1>2, <1>3, <1>4, WriteUse

LEMMA UnlinkedUse ==
  ASSUME IInv, IInv', UInv, NEW p \in Procs, Unlinked(p)
  PROVE  UInv'
<1> DEFINE s == proc[p].ip
           ic == Relink(icache, s, -1)
<1>1. /\ proc[p].put = <<>> /\ proc[p].pc = "unlinked" /\ panicked = "" /\ Fixed
      /\ icache' = Drop(ic, s) /\ disk' = Iupdate(disk, ic, s) /\ Goto(p, "end", 0, 0, <<s>>)
  BY DEF Unlinked, At, Finish
<1>2. /\ proc \in [Procs -> ProcType] /\ s \in Inums
  BY <1>1, ProcFacts DEF PlaceOf, One
<1>3. icache \in LooseCache /\ -1 \in Int
  BY <1>2, ReadRefs
<1>4. /\ ic \in LooseCache
      /\ \A t \in Inums : ic[t].ref = icache[t].ref /\ ic[t].type = icache[t].type
  BY <1>2, <1>3, RelinkMoves
<1>5. icache[s].type = disk[s].type
  BY <1>1, <1>2, LockedType DEF PlaceLock
<1> HIDE DEF ic
<1>6. \A t \in Inums : icache'[t].ref = icache[t].ref
  BY <1>1, <1>2, <1>4, DropMoves
<1>7. /\ Apart(p) /\ proc'[p].pc = "end" /\ proc'[p].rest = proc[p].rest
      /\ proc'[p].stage = proc[p].stage
  BY <1>1, <1>2, GotoSets
<1>8. WayOf(p)'
  BY <1>7, WayKept DEF UInv, Ways, Between
<1>9. Gains(p, 0)
  BY <1>6, GainsNone
<1> QED BY <1>1, <1>2, <1>4, <1>5, <1>7, <1>8, <1>9, RelinkUse

LEMMA LinkBadUse ==
  ASSUME IInv, IInv', UInv, NEW p \in Procs, LinkBad(p)
  PROVE  UInv'
<1> DEFINE s == proc[p].ip
           ir == Ilock(icache, s)
           ic == Relink(ir, s, -1)
<1>1. /\ proc[p].put = <<>> /\ proc[p].pc = "bad" /\ panicked = "" /\ Fixed
      /\ icache' = ic /\ disk' = Iupdate(disk, ic, s) /\ Goto(p, "failed", 0, 0, <<s>>)
  BY DEF LinkBad, Locking, At, Fail
<1>2. /\ proc \in [Procs -> ProcType] /\ s \in Inums
  BY <1>1, ProcFacts DEF PlaceOf, One
<1>3. ~NoType(s)
  BY <1>2, InHand DEF UInv
<1>4. /\ ir \in LooseCache /\ -1 \in Int /\ \A t \in Inums : ir[t].ref = icache[t].ref
  BY <1>2, ReadRefs
<1>5. ir[s].type = disk[s].type
  BY <1>2, <1>3, ReadIs
<1> HIDE DEF ir
<1>6. /\ ic \in LooseCache
      /\ \A t \in Inums : ic[t].ref = ir[t].ref /\ ic[t].type = ir[t].type
  BY <1>2, <1>4, RelinkMoves
<1> HIDE DEF ic
<1>7. /\ Apart(p) /\ proc'[p].pc = "failed" /\ proc'[p].rest = proc[p].rest
      /\ proc'[p].stage = proc[p].stage
  BY <1>1, <1>2, GotoSets
<1>8. WayOf(p)'
  BY <1>7, WayKept DEF UInv, Ways, Between
<1>9. Gains(p, 0)
  BY <1>1, <1>4, <1>6, GainsNone
<1> QED BY <1>1, <1>2, <1>5, <1>6, <1>7, <1>8, <1>9, RelinkUse

LEMMA LinkUse ==
  ASSUME IInv, IInv', UInv, NEW p \in Procs, Link(p)
  PROVE  UInv'
<1> DEFINE s == proc[p].ip
           ir == Ilock(icache, s)
           ic == Relink(ir, s, 1)
           new == Call(p).new
           g == StartAt(p, new)
<1>1. /\ proc[p].put = <<>> /\ proc[p].pc = "link" /\ panicked = ""
  BY DEF Link, Locking, At
<1>2. /\ proc \in [Procs -> ProcType] /\ s \in Inums
  BY <1>1, ProcFacts DEF PlaceOf, One
<1>3. ~NoType(s)
  BY <1>2, InHand DEF UInv
<1>4. /\ ir \in LooseCache /\ 1 \in Int /\ \A t \in Inums : ir[t].ref = icache[t].ref
  BY <1>2, ReadRefs
<1>5. ir[s].type = disk[s].type
  BY <1>2, <1>3, ReadIs
<1>6. CASE ir[s].type = "dir"
  <2>1. Fixed /\ icache' = ir /\ Fail(p, <<s>>) /\ disk' = disk
    BY <1>3, <1>6 DEF Link
  <2>2. /\ Apart(p) /\ proc'[p].pc \in Between /\ proc'[p].rest = proc[p].rest
        /\ proc'[p].stage = proc[p].stage
    BY <1>2, <2>1 DEF Fail, Goto, Apart, ProcType, Between
  <2> QED BY <1>1, <1>4, <2>1, <2>2, EndsUse
<1>7. CASE ir[s].type # "dir"
  <2>1. /\ Fixed /\ icache' = Iget(ic, g) /\ disk' = Iupdate(disk, ic, s)
        /\ proc' = [proc EXCEPT ![p] = [proc[p] EXCEPT !.pc = "walknew", !.dp = s,
                                          !.rest = Elements(new), !.ip = g]]
    BY <1>3, <1>7 DEF Link, Start
  <2>2. /\ Apart(p) /\ proc'[p].pc = "walknew" /\ proc'[p].rest = Elements(new)
        /\ proc'[p].stage = proc[p].stage /\ proc'[p].call = proc[p].call
    BY <1>2, <2>1 DEF Apart, ProcType
  <2>3. g \in Inums /\ (Uses(proc[p], g) \/ disk[g].nlink # 0)
    BY StartUsed
  <2>4. Down(new) /\ Down(Elements(new))
    <3>1. Down(new)
      BY <1>1 DEF UInv, Ways, WayOf, Between
    <3>2. new \in Paths
      BY <1>1, ProcFacts DEF PlaceOf, Between, Call, CallType
    <3> QED BY <3>1, <3>2, DownElements
  <2>5. WayOf(p)'
    BY <2>2, <2>4 DEF WayOf, Call
  <2> HIDE DEF ir, g
  <2>6. /\ ic \in LooseCache
        /\ \A t \in Inums : ic[t].ref = ir[t].ref /\ ic[t].type = ir[t].type
    BY <1>2, <1>4, RelinkMoves
  <2> HIDE DEF ic
  <2>7. \A t \in Inums : icache'[t].ref = icache[t].ref + Eq(g, t)
    <3>1. \A t \in Inums : icache'[t].ref = ic[t].ref + Eq(g, t)
      BY <2>1, <2>3, <2>6, IgetMoves
    <3> QED BY <1>4, <2>6, <3>1
  <2>8. Gains(p, g)
    <3>1. disk'[g].type # "free"
      <4>1. disk \in LooseDisk
        BY DiskLoose DEF IInv, Typed
      <4>2. disk'[s].type = ic[s].type /\ \A t \in Inums \ {s} : disk'[t] = disk[t]
        BY <1>2, <2>1, <2>6, <4>1, Iupdated
      <4>3. disk[g].type # "free" /\ disk[s].type # "free"
        <5>1. disk[g].nlink # 0 => disk[g].type # "free"
          BY <2>3 DEF IInv, Links, FreeIsFree, Free
        <5> QED BY <1>2, <2>3, <5>1, InHand DEF UInv, Used
      <4> QED BY <1>2, <1>5, <2>3, <2>6, <4>2, <4>3
    <3>2. \A t \in Inums : Eq(g, t) \in Nat /\ icache[t].ref \in Nat
      BY DEF Eq, IInv, Typed, CacheType
    <3>3. g \in 0..NINODES
      BY <2>3, InumIs
    <3>4. \A t \in Inums : icache'[t].ref <= icache[t].ref + Eq(g, t)
      BY <2>7, <3>2
    <3> QED BY <2>3, <3>1, <3>3, <3>4 DEF Gains
  <2> QED BY <1>1, <1>2, <1>5, <2>1, <2>2, <2>5, <2>6, <2>8, RelinkUse
<1> QED BY <1>6, <1>7

LEMMA DotIs == "." \in Names /\ ".." \in Names /\ 0 \in 0..NINODES
BY FsAssumption DEF Dots

LEMMA LinkEntryUse ==
  ASSUME IInv, IInv', UInv, NEW p \in Procs, LinkEntry(p)
  PROVE  UInv'
<1> DEFINE d == proc[p].ip
           s == proc[p].dp
           ic == Ilock(icache, d)
           n == Name(p)
           i == Dirlookup(d, n)
<1>1. /\ proc[p].put = <<>> /\ proc[p].pc = "link2" /\ panicked = ""
  BY DEF LinkEntry, Locking, At
<1>2. /\ proc \in [Procs -> ProcType] /\ d \in Inums /\ s \in Inums /\ n \in Names /\ n # ".."
      /\ s \in 0..NINODES /\ disk[d].type = "dir"
  <2>1. /\ proc \in [Procs -> ProcType] /\ d \in Inums /\ s \in Inums /\ s \in 0..NINODES
    BY <1>1, ProcFacts DEF PlaceOf, Two
  <2>2. n \in Names
    BY <1>1, ProcFacts DEF Naming
  <2>3. n # ".." /\ disk[d].type = "dir"
    BY <1>1 DEF UInv, Ways, WayOf
  <2> QED BY <2>1, <2>2, <2>3
<1>3. Uses(proc[p], d) /\ ~NoType(d)
  BY <1>2, InHand DEF UInv
<1>4. Fixed
  BY <1>3 DEF LinkEntry
<1>5. proc[p].pc # "created" /\ proc[p].pc \notin Between
  BY <1>1 DEF Between
<1>6. CASE i # 0
  <2>1. /\ icache' = Take(Iget(ic, i), d, p) /\ disk' = disk
        /\ Goto(p, "linked", s, d, <<i>>)
    BY <1>3, <1>6 DEF LinkEntry
  <2>2. i \in Inums /\ (Uses(proc[p], i) \/ disk[i].nlink # 0)
    BY <1>2, <1>3, <1>5, <1>6, EntryUsed
  <2> HIDE DEF i, s
  <2> QED BY <1>1, <1>2, <1>4, <1>5, <2>1, <2>2, NamedUse
<1>7. CASE i = 0
  <2>1. /\ icache' = ic /\ disk' = WriteEntry(disk, d, n, s)
        /\ Goto(p, "end", 0, 0, <<d, s>>)
    BY <1>3, <1>7 DEF LinkEntry, Finish
  <2>2. /\ Apart(p) /\ proc'[p].pc = "end" /\ proc'[p].rest = proc[p].rest
        /\ proc'[p].stage = proc[p].stage
    BY <1>2, <2>1, GotoSets
  <2>3. WayOf(p)'
    BY <2>2, WayKept DEF UInv, Ways, Between
  <2>4. Gains(p, 0)
    BY <1>2, <2>1, ReadRefs, GainsNone
  <2>5. n # "."
    BY <1>2, <1>3, <1>5, <1>7, DotThere DEF Dirlookup
  <2>6. disk \in LooseDisk /\ "." \in Names
    BY DiskLoose, DotIs DEF IInv, Typed
  <2> HIDE DEF n, s, d
  <2>7. /\ \A t \in Inums : disk'[t].type = disk[t].type
        /\ \A t \in Inums \ {d} : disk'[t] = disk[t]
    BY <1>2, <2>1, <2>6, EntryWritten
  <2>8. \A t \in Inums : disk'[t].ent["."] = disk[t].ent["."]
    <3>1. \A t \in Inums, m \in Names :
            disk'[t].ent[m] = IF t = d /\ m = n THEN s ELSE disk[t].ent[m]
      BY <1>2, <2>1, <2>6, EntryWritten, SMTT(60)
    <3> QED BY <2>5, <2>6, <3>1
  <2>9. \A t \in Inums : t # proc[p].ip /\ t # proc[p].dp => disk'[t] = disk[t]
    BY <2>7 DEF d
  <2> QED BY <1>1, <1>4, <1>5, <2>2, <2>3, <2>4, <2>7, <2>8, <2>9, WriteUse
<1> QED BY <1>6, <1>7

LEMMA UnlinkingUse ==
  ASSUME IInv, IInv', UInv, NEW p \in Procs, Unlinking(p)
  PROVE  UInv'
<1> DEFINE s == proc[p].ip
           d == proc[p].dp
           ir == Ilock(icache, s)
           ic == Take(ir, s, p)
           k == -ParentLink(ic, s)
           less == Relink(ic, d, k)
           n == Name(p)
<1>1. /\ proc[p].put = <<>> /\ proc[p].pc = "unlinking" /\ panicked = ""
  BY DEF Unlinking, Locking, At
<1>2. /\ proc \in [Procs -> ProcType] /\ d \in Inums /\ s \in Inums
  BY <1>1, ProcFacts DEF PlaceOf, Two
<1>3. n \in Names /\ n # "."
  <2>1. n \in Names
    BY <1>1, ProcFacts DEF Naming
  <2>2. n \notin Dots
    BY <1>1 DEF IInv, Entries, EntryOf
  <2> QED BY <2>1, <2>2 DEF Dots
<1>4. ~NoType(s)
  BY <1>2, InHand DEF UInv
<1>5. ~(ic[s].nlink < 1)
  <2> SUFFICES ASSUME ic[s].nlink < 1 PROVE FALSE
    OBVIOUS
  <2>1. Panic("unlink: nlink < 1")
    BY <1>4 DEF Unlinking
  <2> QED BY <2>1 DEF Panic, IInv, Typed
<1>6. Fixed
  BY <1>4, <1>5 DEF Unlinking
<1>7. /\ ir \in LooseCache /\ \A t \in Inums : ir[t].ref = icache[t].ref
  BY <1>2, ReadRefs
<1>8. /\ ir[s].type = disk[s].type /\ \A t \in Inums \ {s} : ir[t] = icache[t]
  BY <1>2, <1>4, ReadIs
<1>9. ir[d].type = disk[d].type
  BY <1>1, <1>2, <1>8, LockedType DEF PlaceLock
<1>10. /\ ic \in LooseCache
       /\ \A t \in Inums : ic[t].ref = icache[t].ref /\ ic[t].type = ir[t].type
  <2> HIDE DEF ir
  <2> QED BY <1>2, <1>7, TakeMoves
<1>11. CASE ic[s].type = "dir" /\ ~Isdirempty(s)
  <2>1. icache' = Drop(ic, s) /\ Goto(p, "notempty", 0, d, <<s>>) /\ disk' = disk
    BY <1>4, <1>5, <1>11 DEF Unlinking
  <2>2. /\ Apart(p) /\ proc'[p].pc = "notempty" /\ proc'[p].rest = proc[p].rest
        /\ proc'[p].stage = proc[p].stage /\ proc'[p].call = proc[p].call
    BY <1>2, <2>1, GotoSets
  <2>3. WayOf(p)'
    BY <1>1, <2>2, WayKept DEF UInv, Ways, Between
  <2>4. \A t \in Inums : icache'[t].ref = icache[t].ref
    <3> HIDE DEF ic
    <3> QED BY <1>2, <1>10, <2>1, DropMoves
  <2> QED BY <1>1, <1>6, <2>1, <2>2, <2>3, <2>4, StillUse
<1>12. CASE ~(ic[s].type = "dir" /\ ~Isdirempty(s))
  <2> DEFINE w == WriteEntry(disk, d, n, 0)
  <2>1. icache' = Drop(less, d) /\ Goto(p, "unlinked", s, 0, <<d>>) /\ disk' = Iupdate(w, less, d)
    BY <1>4, <1>5, <1>12 DEF Unlinking
  <2>2. /\ Apart(p) /\ proc'[p].pc = "unlinked" /\ proc'[p].rest = proc[p].rest
        /\ proc'[p].stage = proc[p].stage /\ proc'[p].call = proc[p].call
    BY <1>2, <2>1, GotoSets
  <2>3. WayOf(p)'
    BY <1>1, <2>2, WayKept DEF UInv, Ways, Between
  <2>4. k \in Int
    BY DEF ParentLink
  <2> HIDE DEF ic, k
  <2>5. /\ less \in LooseCache
        /\ \A t \in Inums : less[t].ref = icache[t].ref /\ less[t].type = ir[t].type
    BY <1>2, <1>10, <2>4, RelinkMoves
  <2> HIDE DEF less
  <2>6. \A t \in Inums : icache'[t].ref = icache[t].ref
    BY <1>2, <2>1, <2>5, DropMoves
  <2>7. Gains(p, 0)
    BY <2>6, GainsNone
  <2>8. disk \in LooseDisk /\ "." \in Names /\ 0 \in 0..NINODES
    BY DiskLoose, DotIs DEF IInv, Typed
  <2> HIDE DEF n, d
  <2>9. /\ w \in LooseDisk
        /\ \A t \in Inums : w[t].type = disk[t].type
        /\ \A t \in Inums \ {d} : w[t] = disk[t]
        /\ \A t \in Inums : w[t].ent["."] = disk[t].ent["."]
    BY <1>2, <1>3, <2>8, EntryWritten
  <2> HIDE DEF w
  <2>10. /\ disk'[d].type = less[d].type
         /\ \A t \in Inums \ {d} : disk'[t] = w[t]
         /\ \A t \in Inums : disk'[t].ent = w[t].ent
    BY <1>2, <2>1, <2>5, <2>9, Iupdated
  <2>11. \A t \in Inums : /\ disk'[t].type = disk[t].type
                          /\ disk'[t].ent["."] = disk[t].ent["."]
                          /\ t # d => disk'[t] = disk[t]
    BY <1>2, <1>9, <2>5, <2>9, <2>10
  <2>12. \A t \in Inums : t # proc[p].ip /\ t # proc[p].dp => disk'[t] = disk[t]
    BY <2>11 DEF d
  <2>13. proc[p].pc # "created" /\ proc'[p].pc # "created"
    BY <1>1, <2>2
  <2> QED BY <1>1, <1>6, <2>2, <2>3, <2>7, <2>11, <2>12, <2>13, WriteUse
<1> QED BY <1>11, <1>12

LEMMA CreateUse ==
  ASSUME IInv, IInv', UInv, NEW p \in Procs, Create(p)
  PROVE  UInv'
<1> DEFINE d == proc[p].ip
           ic == Ilock(icache, d)
           n == Name(p)
           i == Dirlookup(d, n)
           frees == {j \in Inums : disk[j].type = "free"}
<1>1. /\ proc[p].put = <<>> /\ proc[p].pc \in {"create", "mkdir"} /\ panicked = ""
  BY DEF Create, Locking, At
<1>2. /\ proc \in [Procs -> ProcType] /\ d \in Inums /\ n \in Names /\ n # ".."
      /\ disk[d].type = "dir"
  <2>1. /\ proc \in [Procs -> ProcType] /\ d \in Inums
    BY <1>1, ProcFacts DEF PlaceOf, One
  <2>2. n \in Names
    BY <1>1, ProcFacts DEF Naming
  <2>3. n # ".." /\ disk[d].type = "dir"
    BY <1>1 DEF UInv, Ways, WayOf
  <2> QED BY <2>1, <2>2, <2>3
<1>3. Uses(proc[p], d) /\ ~NoType(d)
  BY <1>2, InHand DEF UInv
<1>4. proc[p].pc # "created" /\ proc[p].pc \notin Between
  BY <1>1 DEF Between
<1>5. CASE i # 0
  <2>1. icache' = Iget(ic, i) /\ Goto(p, "exists", i, 0, <<d>>) /\ Fixed /\ disk' = disk
    BY <1>3, <1>5 DEF Create
  <2>2. i \in Inums /\ (Uses(proc[p], i) \/ disk[i].nlink # 0)
    BY <1>2, <1>3, <1>4, <1>5, EntryUsed
  <2> HIDE DEF i, d
  <2> QED BY <1>1, <1>2, <1>4, <2>1, <2>2, NamedUse
<1>6. CASE i = 0 /\ frees = {}
  <2>1. Panic("ialloc: no inodes")
    BY <1>3, <1>6 DEF Create
  <2>2. /\ panicked' = "ialloc: no inodes" /\ disk' = disk /\ durable' = durable
        /\ icache' = icache /\ proc' = proc
    BY <2>1 DEF Panic
  <2>3. Used' /\ Alone'
    BY <2>2 DEF UInv, Used, Alone
  <2>4. Fresh'
    BY <2>2 DEF UInv, Fresh, FreshOf, Call
  <2>5. DotsSelf' /\ DotsLast'
    BY <2>2 DEF UInv, DotsSelf, DotsLast, Making
  <2>6. Ways'
    BY <2>2 DEF UInv, Ways, WayOf, Call, Name
  <2>7. Stopped'
    BY <1>6, <2>2 DEF Stopped
  <2> QED BY <2>3, <2>4, <2>5, <2>6, <2>7 DEF UInv
<1>7. CASE i = 0 /\ frees # {}
  <2> DEFINE j == Min(frees)
             x == IF Call(p).op = "mkdir" THEN "dir" ELSE "file"
  <2>1. /\ disk' = [disk EXCEPT ![j].type = x]
        /\ icache' = Take(Iget(ic, j), d, p) /\ Goto(p, "created", j, d, <<>>) /\ Fixed
    BY <1>3, <1>7 DEF Create
  <2>2. j \in Inums /\ disk[j].type = "free"
    <3>1. j \in frees
      BY <1>7, FirstIs
    <3> QED BY <3>1
  <2> HIDE DEF j, d
  <2>3. /\ Apart(p) /\ proc'[p].pc = "created" /\ proc'[p].rest = proc[p].rest
        /\ proc'[p].ip = j /\ proc'[p].stage = proc[p].stage /\ proc'[p].call = proc[p].call
    BY <1>2, <2>1, GotoSets
  <2>4. disk \in DiskType /\ x \in {"dir", "file"}
    BY DEF IInv, Typed
  <2>5. /\ disk'[j].type = x /\ disk'[j].nlink = disk[j].nlink
        /\ \A t \in Inums \ {j} : disk'[t] = disk[t]
    BY <2>1, <2>2, <2>4 DEF DiskType, InodeType
  <2> HIDE DEF x
  <2>6. \A t \in Inums : icache'[t].ref = icache[t].ref + Eq(j, t)
    BY <1>2, <2>1, <2>2, NamedRefs DEF d
  <2>7. Gains(p, j)
    <3>1. \A t \in Inums : Eq(j, t) \in Nat /\ icache[t].ref \in Nat
      BY DEF Eq, IInv, Typed, CacheType
    <3>2. \A t \in Inums : icache'[t].ref <= icache[t].ref + Eq(j, t)
      BY <2>6, <3>1
    <3>3. j \in 0..NINODES /\ x # "free"
      BY <2>2, <2>4, InumIs
    <3> QED BY <2>2, <2>5, <3>2, <3>3 DEF Gains
  <2>8. FreshOf(p)'
    <3>1. disk[j].nlink = 0
      BY <2>2 DEF IInv, Links, FreeIsFree, Free
    <3>2. \A q \in Procs \ {p} : ~Uses(proc'[q], j)
      BY <2>2, <2>3 DEF UInv, Used, Apart
    <3> QED BY <2>3, <2>5, <3>1, <3>2 DEF FreshOf, Call, x
  <2>9. WayOf(p)'
    <3>1. Name(p)' = n
      BY <1>1, <2>3 DEF Name, Call
    <3>2. WayOf(p)
      BY DEF UInv, Ways
    <3> QED BY <1>2, <1>4, <2>3, <3>1, <3>2 DEF WayOf, Call
  <2>10. DotsSelf'
    <3> SUFFICES ASSUME NEW s \in Inums, disk'[s].type = "dir", disk'[s].ent["."] # s
                 PROVE  \E q \in Procs : proc'[q].pc = "created" /\ proc'[q].ip = s
      BY DEF DotsSelf, Making
    <3>1. CASE s = j
      BY <2>3, <3>1
    <3>2. CASE s # j
      <4>1. PICK q \in Procs : proc[q].pc = "created" /\ proc[q].ip = s
        BY <2>5, <3>2 DEF UInv, DotsSelf, Making
      <4> QED BY <1>4, <2>3, <4>1 DEF Apart
    <3> QED BY <3>1, <3>2
  <2>11. DotsLast' /\ panicked' = "" /\ proc'[p].stage = "lock"
    <3>1. proc[p].stage = "lock"
      BY <1>1, ProcFacts DEF PlaceOf
    <3> QED BY <1>1, <2>1, <2>3, <3>1 DEF Fixed, UInv, DotsLast
  <2>12. \A t \in Inums : disk[t].type # "free" \/ t # j => disk'[t].type = disk[t].type
    BY <2>2, <2>5
  <2>13. \A t \in Inums : disk'[t].nlink = disk[t].nlink
    BY <2>5
  <2> QED BY <1>1, <2>3, <2>7, <2>8, <2>9, <2>10, <2>11, <2>12, <2>13, UseStep
<1> QED BY <1>5, <1>6, <1>7

LEMMA CreateNewUse ==
  ASSUME IInv, IInv', UInv, NEW p \in Procs, CreateNew(p)
  PROVE  UInv'
<1> DEFINE s == proc[p].ip
           d == proc[p].dp
           n == Name(p)
           ir == Ilock(icache, s)
           ic1 == Relink(ir, s, 1)
           k == ParentLink(ic1, s)
           ic2 == Relink(ic1, d, k)
           w1 == WriteEntry(disk, s, ".", s)
           w2 == WriteEntry(w1, s, "..", d)
           dots == IF Call(p).op = "mkdir" THEN w2 ELSE disk
           w == WriteEntry(dots, d, n, s)
           e == Iupdate(w, ic2, s)
           ic3 == Take(ic2, s, p)
<1>1. /\ proc[p].put = <<>> /\ proc[p].pc = "created" /\ panicked = "" /\ Fixed
      /\ disk' = Iupdate(e, ic2, d) /\ icache' = Drop(ic3, d) /\ Goto(p, "new", s, 0, <<d>>)
  BY DEF CreateNew, Locking, At
<1>2. /\ proc \in [Procs -> ProcType] /\ d \in Inums /\ s \in Inums
      /\ s \in 0..NINODES /\ d \in 0..NINODES
  BY <1>1, ProcFacts DEF PlaceOf, Two
<1>3. n \in Names /\ disk[d].ent[n] = 0 /\ s # d
  <2>1. n \in Names
    BY <1>1, ProcFacts DEF Naming
  <2> QED BY <1>1, <2>1 DEF IInv, Entries, EntryOf
<1>4. ~NoType(s) /\ Uses(proc[p], d)
  BY <1>2, InHand DEF UInv
<1>5. disk[d].type = "dir" => n # "."
  BY <1>2, <1>3, <1>4, DotThere
<1>6. disk[s].type = "dir" => Call(p).op = "mkdir"
  BY <1>1 DEF UInv, Fresh, FreshOf
<1>7. /\ Apart(p) /\ proc'[p].pc = "new" /\ proc'[p].rest = proc[p].rest
      /\ proc'[p].stage = proc[p].stage /\ proc'[p].call = proc[p].call
  BY <1>1, <1>2, GotoSets
<1>8. WayOf(p)'
  BY <1>1, <1>7, WayKept DEF UInv, Ways, Between
<1>9. /\ ir \in LooseCache /\ \A t \in Inums : ir[t].ref = icache[t].ref
  BY <1>2, ReadRefs
<1>10. ir[s].type = disk[s].type /\ ir[d].type = disk[d].type
  <2>1. /\ ir[s].type = disk[s].type /\ \A t \in Inums \ {s} : ir[t] = icache[t]
    BY <1>2, <1>4, ReadIs
  <2> QED BY <1>1, <1>2, <1>3, <2>1, LockedType DEF PlaceLock
<1> HIDE DEF ir
<1>11. /\ ic1 \in LooseCache
       /\ \A t \in Inums : ic1[t].ref = ir[t].ref /\ ic1[t].type = ir[t].type
  <2>1. 1 \in Int
    OBVIOUS
  <2> QED BY <1>2, <1>9, <2>1, RelinkMoves
<1>12. k \in Int
  BY DEF ParentLink
<1> HIDE DEF ic1, k
<1>13. /\ ic2 \in LooseCache
       /\ \A t \in Inums : ic2[t].ref = ir[t].ref /\ ic2[t].type = ir[t].type
  BY <1>2, <1>11, <1>12, RelinkMoves, ZenonT(60)
<1> HIDE DEF ic2
<1>14. /\ ic3 \in LooseCache /\ \A t \in Inums : ic3[t].ref = ic2[t].ref
  BY <1>2, <1>13, TakeMoves
<1> HIDE DEF ic3
<1>15. Gains(p, 0)
  <2>1. \A t \in Inums : icache'[t].ref = icache[t].ref
    <3>1. \A t \in Inums : Drop(ic3, d)[t].ref = ic3[t].ref
      BY <1>2, <1>14, DropMoves
    <3> QED BY <1>1, <1>9, <1>13, <1>14, <3>1
  <2> QED BY <2>1, GainsNone
<1>16. disk \in LooseDisk /\ "." \in Names /\ ".." \in Names
  BY DiskLoose, DotIs DEF IInv, Typed
<1> HIDE DEF n, d, s
<1>17. /\ w1 \in LooseDisk
       /\ \A t \in Inums : w1[t].type = disk[t].type
       /\ \A t \in Inums \ {s} : w1[t] = disk[t]
       /\ w1[s].ent["."] = s
  <2>1. /\ w1 \in LooseDisk
        /\ \A t \in Inums : w1[t].type = disk[t].type
        /\ \A t \in Inums \ {s} : w1[t] = disk[t]
        /\ \A t \in Inums, m \in Names :
             w1[t].ent[m] = IF t = s /\ m = "." THEN s ELSE disk[t].ent[m]
    <3>1. disk \in LooseDisk /\ s \in Inums /\ "." \in Names /\ s \in 0..NINODES
      BY <1>2, <1>16
    <3> QED BY ONLY <3>1, EntryWritten DEF w1
  <2> HIDE DEF w1
  <2> QED BY <1>2, <1>16, <2>1
<1> HIDE DEF w1
<1>18. /\ w2 \in LooseDisk
       /\ \A t \in Inums : w2[t].type = disk[t].type
       /\ \A t \in Inums \ {s} : w2[t] = disk[t]
       /\ w2[s].ent["."] = s
  <2>1. /\ w2 \in LooseDisk
        /\ \A t \in Inums : w2[t].type = w1[t].type
        /\ \A t \in Inums \ {s} : w2[t] = w1[t]
        /\ \A t \in Inums, m \in Names :
             w2[t].ent[m] = IF t = s /\ m = ".." THEN d ELSE w1[t].ent[m]
    BY <1>2, <1>16, <1>17, EntryWritten, SMTT(60)
  <2> HIDE DEF w2
  <2> QED BY <1>2, <1>16, <1>17, <2>1
<1> HIDE DEF w2
<1>19. /\ dots \in LooseDisk
       /\ \A t \in Inums : dots[t].type = disk[t].type
       /\ \A t \in Inums \ {s} : dots[t] = disk[t]
       /\ disk[s].type = "dir" => dots[s].ent["."] = s
  BY <1>6, <1>16, <1>18
<1> HIDE DEF dots
<1>20. /\ w \in LooseDisk
       /\ \A t \in Inums : w[t].type = disk[t].type
       /\ \A t \in Inums : t # s /\ t # d => w[t] = disk[t]
       /\ disk[s].type = "dir" => w[s].ent["."] = s
       /\ disk[d].type = "dir" => w[d].ent["."] = disk[d].ent["."]
  <2>1. /\ w \in LooseDisk
        /\ \A t \in Inums : w[t].type = dots[t].type
        /\ \A t \in Inums \ {d} : w[t] = dots[t]
        /\ \A t \in Inums, m \in Names :
             w[t].ent[m] = IF t = d /\ m = n THEN s ELSE dots[t].ent[m]
    BY <1>2, <1>3, <1>19, EntryWritten
  <2> HIDE DEF w
  <2>2. w[s] = dots[s] /\ dots[d] = disk[d]
    BY <1>2, <1>3, <1>19, <2>1
  <2>3. disk[d].type = "dir" => w[d].ent["."] = disk[d].ent["."]
    BY <1>2, <1>5, <1>16, <2>1, <2>2
  <2> QED BY <1>19, <2>1, <2>2, <2>3
<1> HIDE DEF w
<1>21. /\ e \in LooseDisk
       /\ \A t \in Inums : e[t].type = disk[t].type
       /\ \A t \in Inums \ {s} : e[t] = w[t]
       /\ \A t \in Inums : e[t].ent = w[t].ent
  <2>1. /\ e \in LooseDisk
        /\ \A t \in Inums \ {s} : e[t] = w[t]
        /\ e[s].type = ic2[s].type
        /\ \A t \in Inums : e[t].ent = w[t].ent
    BY <1>2, <1>13, <1>20, Iupdated
  <2> HIDE DEF e
  <2> QED BY <1>2, <1>10, <1>13, <1>20, <2>1
<1> HIDE DEF e
<1>22. /\ \A t \in Inums : disk'[t].type = disk[t].type
       /\ \A t \in Inums \ {d} : disk'[t] = e[t]
       /\ \A t \in Inums : disk'[t].ent = e[t].ent
  <2>1. /\ \A t \in Inums \ {d} : disk'[t] = e[t]
        /\ disk'[d].type = ic2[d].type
        /\ \A t \in Inums : disk'[t].ent = e[t].ent
    BY <1>1, <1>2, <1>13, <1>21, Iupdated, ZenonT(60)
  <2> QED BY <1>2, <1>10, <1>13, <1>21, <2>1
<1>23. \A t \in Inums : t # s /\ t # d => disk'[t] = disk[t]
  BY <1>20, <1>21, <1>22
<1>24. \A t \in Inums : disk[t].type = "dir" => \/ disk'[t].ent["."] = disk[t].ent["."]
                                                \/ disk'[t].ent["."] = t
  BY <1>20, <1>21, <1>22, <1>23
<1>25. \A t \in Inums : t = s /\ disk[t].type = "dir" => disk'[t].ent["."] = t
  BY <1>20, <1>21, <1>22
<1> QED BY <1>1, <1>7, <1>8, <1>15, <1>22, <1>23, <1>24, <1>25, WriteUse DEF s, d

-----------------------------------------------------------------------------
(* A crash, and the first state.                                           *)

\* A process between calls in the root directory uses that and no more.
LEMMA IdleUses ==
  ASSUME NEW r \in ProcType, r.ip = 0, r.dp = 0, r.cwd = Root, r.put = <<>>, r.files = <<>>,
         NEW s \in Inums, Uses(r, s)
  PROVE  s = Root
<1>1. In(r.put, s) = 0 /\ In(r.files, s) = 0
  BY InEmpty
<1>2. Eq(r.ip, s) = 0 /\ Eq(r.dp, s) = 0
  BY InumIs DEF Eq
<1>3. RefCount(r, s) >= 1
  BY HandUsed
<1>4. RefCount(r, s) = 0 + 0 + Eq(r.cwd, s) + 0 + 0
  BY <1>1, <1>2 DEF RefCount
<1>5. Eq(r.cwd, s) = 1
  BY <1>3, <1>4 DEF Eq
<1> QED BY <1>5 DEF Eq

\* What holds when the machine boots on the disk that is.
LEMMA BootUse ==
  ASSUME NEW f, f \in [Procs -> ProcType],
         \A q \in Procs : /\ f[q].pc = "user" /\ f[q].ip = 0 /\ f[q].dp = 0 /\ f[q].put = <<>>
                          /\ f[q].cwd = Root /\ f[q].files = <<>>,
         NEW q \in Procs
  PROVE  /\ \A s \in Inums : Uses(f[q], s) => s = Root
         /\ Freed(f[q]) = 0
BY IdleUses DEF Freed

LEMMA CrashUse ==
  ASSUME IInv, IInv', UInv, Crash
  PROVE  UInv'
<1> DEFINE c == [q \in Procs |-> proc[q].calls]
           f == proc'
<1>1. /\ disk' = durable /\ durable' = durable /\ panicked' = "" /\ f = [q \in Procs |-> Idle(1, c[q])]
  BY DEF Crash
<1>2. c \in [Procs -> Nat]
  BY DEF IInv, Typed, ProcType
<1> HIDE DEF c
<1>3. \A q \in Procs : f[q] = Idle(1, c[q]) /\ f[q].rest = <<>>
  BY <1>1 DEF Idle
<1> HIDE DEF f
<1>4. /\ f \in [Procs -> ProcType]
      /\ \A q \in Procs : /\ f[q].pc = "user" /\ f[q].ip = 0 /\ f[q].dp = 0 /\ f[q].put = <<>>
                          /\ f[q].cwd = Root /\ f[q].files = <<>>
  BY <1>1, <1>2, BootTypes, ZenonT(60)
<1>5. \A q \in Procs : Freed(f[q]) = 0 /\ \A s \in Inums : Uses(f[q], s) => s = Root
  BY <1>4, BootUse
<1>6. durable[Root].type # "free"
  <2>1. Root \in Inums /\ durable \in DiskType
    BY InumIs DEF IInv, Typed
  <2>2. /\ durable[Root].nlink >= Counted(durable, Root)
        /\ Cardinality(NamesOf(durable, Root)) \in Nat /\ Cardinality(Subs(durable, Root)) \in Nat
        /\ durable[Root].nlink \in Nat
    BY <2>1, CountedIs DEF IInv, Durable
  <2>3. durable[Root].nlink # 0
    BY <2>2 DEF Counted
  <2> QED BY <2>1, <2>3 DEF IInv, Durable, FreeIsFree, Free
<1>7. Used' /\ Alone'
  BY <1>1, <1>5, <1>6 DEF Used, Alone, f
<1>8. Fresh'
  BY <1>4 DEF Fresh, FreshOf, f
<1>9. DotsSelf' /\ DotsLast'
  BY <1>1 DEF UInv, DotsSelf, DotsLast
<1>10. Ways'
  BY <1>3, <1>4 DEF Ways, WayOf, Down, Between, f
<1>11. Stopped'
  BY <1>1 DEF Stopped
<1> QED BY <1>7, <1>8, <1>9, <1>10, <1>11 DEF UInv

LEMMA InitUse ==
  ASSUME Init
  PROVE  UInv
<1> DEFINE c == [q \in Procs |-> 0]
<1>1. /\ disk = Made /\ durable = Made /\ panicked = ""
      /\ proc = [q \in Procs |-> Idle(1, c[q])] /\ c \in [Procs -> Nat]
  BY DEF Init
<1> HIDE DEF c
<1>2. \A q \in Procs : proc[q].rest = <<>>
  BY <1>1 DEF Idle
<1>3. /\ proc \in [Procs -> ProcType]
      /\ \A q \in Procs : /\ proc[q].pc = "user" /\ proc[q].ip = 0 /\ proc[q].dp = 0
                          /\ proc[q].put = <<>> /\ proc[q].cwd = Root /\ proc[q].files = <<>>
  BY <1>1, BootTypes, ZenonT(60)
<1>4. \A q \in Procs : Freed(proc[q]) = 0 /\ \A s \in Inums : Uses(proc[q], s) => s = Root
  BY <1>3, BootUse
<1>5. Made[Root].type = "dir" /\ Made[Root].ent["."] = Root
  BY InumIs, DotIs DEF Made, Dots
<1>6. \A s \in Inums : s # Root => Made[s].type = "free"
  BY DEF Made, Free
<1>7. Used /\ Alone
  BY <1>1, <1>4, <1>5 DEF Used, Alone
<1>8. Fresh
  BY <1>3 DEF Fresh, FreshOf
<1>9. DotsSelf /\ DotsLast
  BY <1>1, <1>5, <1>6 DEF DotsSelf, DotsLast
<1>10. Ways
  BY <1>2, <1>3 DEF Ways, WayOf, Down, Between
<1>11. Stopped
  BY <1>1 DEF Stopped
<1> QED BY <1>7, <1>8, <1>9, <1>10, <1>11 DEF UInv

LEMMA StutterUse ==
  ASSUME UInv, UNCHANGED vars
  PROVE  UInv'
<1>1. disk' = disk /\ durable' = durable /\ icache' = icache /\ proc' = proc /\ panicked' = panicked
  BY DEF vars
<1>2. Used' /\ Alone' /\ Stopped'
  BY <1>1 DEF UInv, Used, Alone, Stopped
<1>3. Fresh'
  BY <1>1 DEF UInv, Fresh, FreshOf, Call
<1>4. DotsSelf' /\ DotsLast'
  BY <1>1 DEF UInv, DotsSelf, DotsLast, Making
<1>5. Ways'
  BY <1>1 DEF UInv, Ways, WayOf, Call, Name
<1> QED BY <1>2, <1>3, <1>4, <1>5 DEF UInv

LEMMA NextUse ==
  ASSUME NoUpwards, IInv, UInv, [Next]_vars
  PROVE  UInv'
<1>0. IInv'
  BY NextKeeps
<1>1. CASE UNCHANGED vars
  BY <1>1, StutterUse
<1>2. ASSUME NEW p \in Procs, Iput(p)
      PROVE  UInv'
  BY <1>0, <1>2, IputLockUse, IputFreeUse, IputDropUse DEF Iput
<1>3. ASSUME NEW p \in Procs, Syscall(p)
      PROVE  UInv'
  <2>1. ASSUME NEW c \in Calls[p], Begin(p, c) PROVE UInv'
    BY <1>0, <2>1, BeginUse
  <2>2. CASE Walk(p) \/ Walked(p) \/ End(p)
    BY <1>0, <2>2, WalkUse, WalkedUse, EndUse
  <2>3. CASE Open(p) \/ Chdir(p) \/ CreateExists(p)
    BY <1>0, <2>3, OpenUse, ChdirUse
  <2>4. ASSUME NEW k \in DOMAIN proc[p].files, Close(p, k) PROVE UInv'
    BY <1>0, <2>4, CloseUse
  <2>5. CASE Create(p) \/ CreateNew(p) \/ CreateDone(p)
    BY <1>0, <2>5, CreateUse, CreateNewUse, CreateDoneUse
  <2>6. CASE Unlink(p) \/ Unlinking(p) \/ Unlinked(p) \/ LetParentGo(p)
    BY <1>0, <2>6, UnlinkUse, UnlinkingUse, UnlinkedUse, LetParentGoUse
  <2>7. CASE Link(p) \/ LinkEntry(p) \/ LinkBad(p)
    BY <1>0, <2>7, LinkUse, LinkEntryUse, LinkBadUse
  <2> QED BY <1>3, <2>1, <2>2, <2>3, <2>4, <2>5, <2>6, <2>7 DEF Syscall
<1>4. CASE Crash
  BY <1>0, <1>4, CrashUse
<1>5. CASE Frozen
  BY <1>5, StutterUse DEF Frozen
<1> QED BY <1>1, <1>2, <1>3, <1>4, <1>5 DEF Next

\* iput() frees an inode only when nobody can get at it any more (fs.c:334-346), in every state
\* of any calls whose paths do not go up; and no ilock() panics.
THEOREM NothingFreedInUse == NoUpwards => (Spec => []NotFreedInUse)
<1> SUFFICES ASSUME NoUpwards PROVE Spec => []NotFreedInUse
  OBVIOUS
<1>1. Init => IInv /\ UInv
  BY InitHolds, InitUse
<1>2. (IInv /\ UInv) /\ [Next]_vars => (IInv /\ UInv)'
  BY NextKeeps, NextUse
<1>3. IInv /\ UInv => NotFreedInUse
  <2> SUFFICES ASSUME IInv, UInv PROVE NotFreedInUse
    OBVIOUS
  <2>1. panicked \in {"", "ialloc: no inodes"}
    BY DEF UInv, Stopped
  <2>2. ASSUME NEW p \in Procs, NEW s \in Inums,
               Cardinality(RefsOf(p, s))
                 > (IF Putting(p, "drop") /\ Head(proc[p].put) = s THEN 1 ELSE 0)
        PROVE  /\ disk[s].type # "free"
               /\ icache[s].valid => icache[s].type = disk[s].type /\ icache[s].nlink = disk[s].nlink
    <3>1. proc[p] \in ProcType
      BY ProcFacts
    <3>2. RefsOf(p, s) = RefSet(proc[p], s)
      BY DEF RefsOf, RefSet
    <3>3. Cardinality(RefsOf(p, s)) = RefCount(proc[p], s) /\ RefCount(proc[p], s) \in Nat
      BY <3>1, <3>2, RefSetCount
    <3>4. disk[s].type # "free"
      <4>1. CASE panicked # ""
        BY <4>1 DEF UInv, Stopped
      <4>2. CASE panicked = ""
        <5>1. Spare(proc[p], s) = IF Putting(p, "drop") /\ Head(proc[p].put) = s THEN 1 ELSE 0
          BY <4>2 DEF Spare, Putting, Eq
        <5>2. Uses(proc[p], s)
          BY <2>2, <3>3, <5>1 DEF Uses
        <5> QED BY <5>2 DEF UInv, Used
      <4> QED BY <4>1, <4>2
    <3> QED BY <3>4 DEF IInv, Coherent
  <2> QED BY <2>1, <2>2 DEF NotFreedInUse
<1> QED BY <1>1, <1>2, <1>3, PTL DEF Spec

-----------------------------------------------------------------------------
(* What a crash leaves is a tree, where no path goes up.                    *)
(*                                                                         *)
(* IInv has at least as many links as names. TInv has the other half for   *)
(* directories, and their shape: one name, that ".." goes back to, and     *)
(* none for the root. It is kept because create() names an inode that has  *)
(* no link, and so no name; because link() refuses directories; and        *)
(* because unlink() takes back the link it has taken the name of. A crash  *)
(* leaves the disk as it was when no call was under way, and then there is *)
(* no name that is gone and still counted.                                 *)

\* The root is a directory, its own parent, and nobody's entry.
RootAlone(d) ==
  /\ d[Root].type = "dir" /\ d[Root].ent[".."] = Root
  /\ \A x \in Inums, m \in Names \ Dots : d[x].ent[m] # Root

\* A directory has one name, and its ".." is where that name is.
OneHome(d) ==
  \A s, x, y \in Inums, m, n \in Names \ Dots :
    d[s].type = "dir" /\ d[x].ent[m] = s /\ d[y].ent[n] = s => x = y /\ m = n /\ d[s].ent[".."] = x

Shape(d) == RootAlone(d) /\ OneHome(d)

\* A directory has no link more than are counted or being lost.
Full == \A s \in Inums :
          disk[s].type = "dir" => disk[s].nlink <= Counted(disk, s) + Cardinality(Losing(s))
FullLast == \A s \in Inums : durable[s].type = "dir" => durable[s].nlink <= Counted(durable, s)

\* What create() is to name an inode in is still a directory.
InDirs == \A p \in Procs : proc[p].pc = "created" => disk[proc[p].dp].type = "dir"

\* All this holds of the disk, and the half a crash leaves of it.
TInv == Shape(disk) /\ Shape(durable) /\ Full /\ FullLast /\ InDirs

\* A step that leaves the disk alone, and neither takes a name away nor is about to make one.
LEMMA TreeStill ==
  ASSUME TInv, NEW p \in Procs, Apart(p), disk' = disk, durable' = durable,
         \/ /\ proc'[p].pc = proc[p].pc /\ proc'[p].ip = proc[p].ip /\ proc'[p].dp = proc[p].dp
         \/ proc[p].pc # "unlinked" /\ proc'[p].pc \notin {"created", "unlinked"}
  PROVE  TInv'
<1>1. \A q \in Procs : LostLink(proc'[q]) = LostLink(proc[q])
  BY DEF Apart, LostLink
<1>2. \A s : Losing(s)' = Losing(s)
  BY <1>1 DEF Losing
<1>3. Full' /\ FullLast'
  BY <1>2 DEF TInv, Full, FullLast, Counted, NamesOf, Subs
<1>4. Shape(disk)' /\ Shape(durable)'
  BY DEF TInv, Shape, RootAlone, OneHome
<1>5. InDirs'
  BY DEF TInv, InDirs, Apart
<1> QED BY <1>3, <1>4, <1>5 DEF TInv

\* The two steps of iput() that free nothing.
LEMMA IputTree ==
  ASSUME IInv, TInv, NEW p \in Procs, IputLock(p) \/ IputDrop(p)
  PROVE  TInv'
<1>1. proc \in [Procs -> ProcType] /\ disk' = disk /\ durable' = durable
  BY ProcFacts DEF IputLock, IputDrop, Fixed
<1>2. /\ Apart(p) /\ proc'[p].pc = proc[p].pc /\ proc'[p].ip = proc[p].ip
      /\ proc'[p].dp = proc[p].dp
  <2>1. CASE IputLock(p)
    <3>1. Stage(p, "free") \/ Stage(p, "drop")
      BY <2>1 DEF IputLock
    <3> QED BY <1>1, <3>1 DEF Stage, Apart, ProcType
  <2>2. CASE IputDrop(p)
    BY <1>1, <2>2 DEF IputDrop, Apart, ProcType
  <2> QED BY <2>1, <2>2
<1> QED BY <1>1, <1>2, TreeStill

\* A panic, and what else changes nothing.
LEMMA PanicTree ==
  ASSUME TInv, NEW why, Panic(why) \/ UNCHANGED vars
  PROVE  TInv'
<1>1. disk' = disk /\ durable' = durable /\ proc' = proc
  BY DEF Panic, vars
<1>2. CASE Procs # {}
  <2>1. PICK p \in Procs : TRUE
    BY <1>2
  <2> QED BY <1>1, TreeStill DEF Apart
<1>3. CASE Procs = {}
  <2>1. \A s : Losing(s)' = Losing(s)
    BY <1>1 DEF Losing
  <2> QED BY <1>1, <1>3, <2>1 DEF TInv, Shape, RootAlone, OneHome, Full, FullLast, InDirs,
                                  Counted, NamesOf, Subs
<1> QED BY <1>2, <1>3

\* namex() and its beginning.
LEMMA WalkTree ==
  ASSUME IInv, TInv, NEW p \in Procs,
         (\E c \in Calls[p] : Begin(p, c)) \/ Walk(p) \/ Walked(p)
  PROVE  TInv'
<1>1. proc \in [Procs -> ProcType]
  BY ProcFacts
<1>2. ASSUME NEW c \in Calls[p], Begin(p, c) PROVE TInv'
  <2>1. disk' = disk /\ durable' = durable /\ proc[p].pc = "user"
    BY <1>2 DEF Begin, At, Fixed
  <2>2. Apart(p) /\ proc'[p].pc = "walk"
    BY <1>1, <1>2 DEF Begin, Apart, ProcType
  <2> QED BY <2>1, <2>2, TreeStill
<1>3. ASSUME proc[p].pc \in {"walk", "walknew"}, Fixed, UNCHANGED disk,
             \/ Failed(p)
             \/ \E s, d : Goto(p, Found(p), s, d, <<>>)
             \/ Apart(p) /\ proc'[p].pc = proc[p].pc
      PROVE  TInv'
  <2>1. Apart(p) /\ proc'[p].pc \notin {"created", "unlinked"}
    <3>1. CASE Failed(p)
      <4>1. \/ \E puts : Goto(p, "bad", proc[p].dp, 0, puts)
            \/ \E puts : Goto(p, "failed", 0, 0, puts)
        BY <3>1 DEF Failed, Fail
      <4> QED BY <1>1, <4>1, GotoSets
    <3>2. CASE \E s, d : Goto(p, Found(p), s, d, <<>>)
      <4>1. Found(p) \notin {"created", "unlinked"}
        <5>1. proc[p].call \in CallType
          BY <1>3, ProcFacts DEF PlaceOf, Between
        <5> QED BY <5>1 DEF Found, Call, CallType
      <4> QED BY <1>1, <3>2, <4>1, GotoSets
    <3>3. CASE Apart(p) /\ proc'[p].pc = proc[p].pc
      BY <1>3, <3>3
    <3> QED BY <1>3, <3>1, <3>2, <3>3
  <2> QED BY <1>3, <2>1, TreeStill DEF Fixed
<1>4. CASE Walk(p)
  <2>1. proc[p].pc \in {"walk", "walknew"}
    BY <1>4 DEF Walk, Locking, At
  <2>2. CASE NoType(proc[p].ip)
    BY <1>4, <2>2, PanicTree DEF Walk
  <2>3. CASE ~NoType(proc[p].ip)
    <3>1. Fixed /\ UNCHANGED disk
      BY <1>4, <2>3 DEF Walk
    <3> DEFINE on == [proc EXCEPT ![p] =
                       [proc[p] EXCEPT !.ip = Dirlookup(proc[p].ip, Head(proc[p].rest)),
                                       !.rest = Tail(proc[p].rest), !.put = <<proc[p].ip>>]]
    <3>2. Failed(p) \/ (\E s, d : Goto(p, Found(p), s, d, <<>>)) \/ proc' = on
      BY <1>4, <2>3 DEF Walk
    <3>3. proc' = on => Apart(p) /\ proc'[p].pc = proc[p].pc
      BY <1>1 DEF Apart, ProcType
    <3> HIDE DEF on
    <3> QED BY <1>3, <2>1, <3>1, <3>2, <3>3
  <2> QED BY <2>2, <2>3
<1>5. CASE Walked(p)
  <2>1. proc[p].pc \in {"walk", "walknew"} /\ Fixed /\ UNCHANGED disk
    BY <1>5 DEF Walked, At
  <2>2. Failed(p) \/ \E s, d : Goto(p, Found(p), s, d, <<>>)
    BY <1>5 DEF Walked
  <2> QED BY <1>3, <2>1, <2>2
<1> QED BY <1>2, <1>4, <1>5

\* The calls that leave the disk alone, and no name to make or lose behind them.
LEMMA CallTree ==
  ASSUME IInv, TInv, NEW p \in Procs,
         \/ Open(p) \/ Chdir(p) \/ CreateExists(p) \/ CreateDone(p) \/ LetParentGo(p) \/ Unlink(p)
         \/ \E k \in DOMAIN proc[p].files : Close(p, k)
  PROVE  TInv'
<1>1. proc \in [Procs -> ProcType]
  BY ProcFacts
<1>2. ASSUME proc[p].pc # "unlinked", Fixed, UNCHANGED disk,
             \/ OpenFile(p, proc[p].ip)
             \/ \E place \in {"end", "failed", "bad", "unlinking"} :
                  \E i, d, puts : Goto(p, place, i, d, puts)
             \/ \E i, c, puts : proc' = [proc EXCEPT ![p] =
                               [proc[p] EXCEPT !.pc = "end", !.ip = i, !.cwd = c, !.put = puts]]
             \/ \E f, puts : proc' = [proc EXCEPT ![p] =
                               [proc[p] EXCEPT !.pc = "end", !.files = f, !.put = puts]]
      PROVE  TInv'
  <2>1. Apart(p) /\ proc'[p].pc \notin {"created", "unlinked"}
    <3>1. CASE OpenFile(p, proc[p].ip)
      BY <1>1, <3>1, OpenFileSets DEF Between
    <3>2. ASSUME NEW place \in {"end", "failed", "bad", "unlinking"}, NEW i, NEW d, NEW puts,
                 Goto(p, place, i, d, puts)
          PROVE  Apart(p) /\ proc'[p].pc \notin {"created", "unlinked"}
      BY <1>1, <3>2, GotoSets
    <3>3. ASSUME NEW i, NEW c, NEW puts,
                 proc' = [proc EXCEPT ![p] =
                            [proc[p] EXCEPT !.pc = "end", !.ip = i, !.cwd = c, !.put = puts]]
          PROVE  Apart(p) /\ proc'[p].pc \notin {"created", "unlinked"}
      BY <1>1, <3>3 DEF Apart, ProcType
    <3>4. ASSUME NEW f, NEW puts,
                 proc' = [proc EXCEPT ![p] = [proc[p] EXCEPT !.pc = "end", !.files = f, !.put = puts]]
          PROVE  Apart(p) /\ proc'[p].pc \notin {"created", "unlinked"}
      BY <1>1, <3>4 DEF Apart, ProcType
    <3> QED BY <1>2, <3>1, <3>2, <3>3, <3>4
  <2> QED BY <1>2, <2>1, TreeStill DEF Fixed
<1>3. CASE Open(p) \/ Chdir(p) \/ CreateExists(p) \/ Unlink(p)
  <2>1. CASE NoType(proc[p].ip)
    BY <1>3, <2>1, PanicTree DEF Open, Chdir, CreateExists, Unlink
  <2>2. CASE ~NoType(proc[p].ip)
    <3>1. proc[p].pc # "unlinked" /\ Fixed /\ UNCHANGED disk
      BY <1>3, <2>2 DEF Open, Chdir, CreateExists, Unlink, Locking, At
    <3>2. CASE Open(p)
      BY <1>2, <2>2, <3>1, <3>2 DEF Open, Fail
    <3>3. CASE Chdir(p)
      BY <1>2, <2>2, <3>1, <3>3 DEF Chdir, Fail
    <3>4. CASE CreateExists(p)
      BY <1>2, <2>2, <3>1, <3>4 DEF CreateExists, Fail
    <3>5. CASE Unlink(p)
      BY <1>2, <2>2, <3>1, <3>5 DEF Unlink, Fail
    <3> QED BY <1>3, <3>2, <3>3, <3>4, <3>5
  <2> QED BY <2>1, <2>2
<1>4. CASE CreateDone(p)
  BY <1>2, <1>4 DEF CreateDone, At, Finish
<1>5. CASE LetParentGo(p)
  BY <1>2, <1>5 DEF LetParentGo, At, Fail
<1>6. ASSUME NEW k \in DOMAIN proc[p].files, Close(p, k) PROVE TInv'
  BY <1>2, <1>6 DEF Close, At
<1> QED BY <1>3, <1>4, <1>5, <1>6

\* A step of p that changes the disk: what it does to the counts of each directory.
LEMMA TreeChange ==
  ASSUME IInv, IInv', TInv, NEW p \in Procs, Apart(p), Fixed, Shape(disk'),
         \A s \in Inums : disk[s].type # "free" /\ s # Freed(proc[p]) => disk'[s].type = disk[s].type,
         proc'[p].pc = "created" => disk'[proc'[p].dp].type = "dir",
         \A t \in Inums : disk'[t].type = "dir" =>
           \/ disk'[t].nlink = 0
           \/ /\ disk[t].type = "dir"
              /\ disk'[t].nlink + Counted(disk, t) + Eq(LostLink(proc[p]), t)
                   <= disk[t].nlink + Counted(disk', t) + Eq(LostLink(proc'[p]), t)
  PROVE  TInv'
<1> DEFINE losing(t) == {q \in Procs : LostLink(proc'[q]) = t}
<1>1. disk \in DiskType /\ disk' \in DiskType
  BY DEF IInv, Typed
<1>2. ASSUME NEW t \in Inums, disk'[t].type = "dir"
      PROVE  disk'[t].nlink <= Counted(disk', t) + Cardinality(losing(t))
  <2>1. /\ IsFiniteSet(Losing(t)) /\ Cardinality(Losing(t)) \in Nat
    BY <1>1, LinkSets
  <2>2. IsFiniteSet(losing(t)) /\ Cardinality(losing(t)) \in Nat
    <3>1. IsFiniteSet(Procs) /\ losing(t) \in SUBSET Procs
      BY FsAssumption
    <3> HIDE DEF losing
    <3> QED BY <3>1, FS_Subset, FS_CardinalityType
  <2>3. Losing(t) \ {p} = losing(t) \ {p}
    BY DEF Losing, Apart
  <2>4. /\ (IF p \in losing(t) THEN 1 ELSE 0) = Eq(LostLink(proc'[p]), t)
        /\ (IF p \in Losing(t) THEN 1 ELSE 0) = Eq(LostLink(proc[p]), t)
    BY DEF Losing, Eq
  <2> HIDE DEF losing
  <2>5. Cardinality(Losing(t)) + Eq(LostLink(proc'[p]), t)
          = Cardinality(losing(t)) + Eq(LostLink(proc[p]), t)
    BY <2>1, <2>2, <2>3, <2>4, OneMember
  <2>6. /\ Counted(disk, t) \in Nat /\ disk[t].nlink \in Nat
        /\ Counted(disk', t) \in Nat /\ disk'[t].nlink \in Nat
    BY <1>1, CountedIs
  <2>7. Eq(LostLink(proc'[p]), t) \in Nat /\ Eq(LostLink(proc[p]), t) \in Nat
    BY DEF Eq
  <2>8. CASE disk'[t].nlink = 0
    BY <2>2, <2>6, <2>8
  <2>9. CASE disk'[t].nlink # 0
    <3>1. disk[t].nlink <= Counted(disk, t) + Cardinality(Losing(t))
      BY <1>2, <2>9 DEF TInv, Full
    <3>2. disk'[t].nlink + Counted(disk, t) + Eq(LostLink(proc[p]), t)
            <= disk[t].nlink + Counted(disk', t) + Eq(LostLink(proc'[p]), t)
      BY <1>2, <2>9
    <3> QED BY <2>1, <2>2, <2>5, <2>6, <2>7, <3>1, <3>2
  <2> QED BY <2>8, <2>9
<1>3. Full'
  BY <1>2 DEF Full, Counted, NamesOf, Subs, Losing
<1>4. FullLast' /\ Shape(durable)'
  BY DEF TInv, FullLast, Shape, RootAlone, OneHome, Counted, NamesOf, Subs, Fixed
<1>5. Shape(disk)'
  BY DEF Shape, RootAlone, OneHome
<1>6. InDirs'
  <2> SUFFICES ASSUME NEW q \in Procs, proc'[q].pc = "created" PROVE disk'[proc'[q].dp].type = "dir"
    BY DEF InDirs
  <2>1. CASE q = p
    BY <2>1
  <2>2. CASE q # p
    <3>1. proc'[q] = proc[q]
      BY <2>2 DEF Apart
    <3>2. proc[q].dp \in Inums /\ disk[proc[q].dp].type = "dir"
      BY <3>1, ProcFacts DEF PlaceOf, Two, TInv, InDirs
    <3>3. Holds(q, proc[q].dp)
      BY <3>1, <3>2, InumIs DEF Holds, PlaceLock
    <3>4. proc[q].dp # Freed(proc[p])
      <4> SUFFICES ASSUME proc[q].dp = Freed(proc[p]) PROVE FALSE
        OBVIOUS
      <4>1. Holds(p, proc[q].dp)
        BY <3>2, InumIs DEF Holds
      <4> QED BY <2>2, <3>2, <3>3, <4>1, Exclusive DEF IInv
    <3> QED BY <3>1, <3>2, <3>4
  <2> QED BY <2>1, <2>2
<1> QED BY <1>3, <1>4, <1>5, <1>6 DEF TInv

\* A step that only writes link counts.
LEMMA RelinkTree ==
  ASSUME IInv, IInv', TInv, NEW p \in Procs, Apart(p), Fixed, proc'[p].pc # "created",
         \A t \in Inums : disk'[t].type = disk[t].type /\ disk'[t].ent = disk[t].ent,
         \A t \in Inums : disk[t].type = "dir" =>
           disk'[t].nlink + Eq(LostLink(proc[p]), t) <= disk[t].nlink + Eq(LostLink(proc'[p]), t)
  PROVE  TInv'
<1>1. disk \in DiskType /\ disk' \in DiskType
  BY DEF IInv, Typed
<1>2. Shape(disk')
  BY InumIs DEF TInv, Shape, RootAlone, OneHome
<1>3. ASSUME NEW t \in Inums, disk'[t].type = "dir"
      PROVE  /\ disk[t].type = "dir"
             /\ disk'[t].nlink + Counted(disk, t) + Eq(LostLink(proc[p]), t)
                  <= disk[t].nlink + Counted(disk', t) + Eq(LostLink(proc'[p]), t)
  <2>1. Counted(disk', t) = Counted(disk, t)
    BY <1>1, CountedSame
  <2>2. Counted(disk, t) \in Nat /\ disk[t].nlink \in Nat /\ disk'[t].nlink \in Nat
    BY <1>1, CountedIs
  <2>3. Eq(LostLink(proc'[p]), t) \in Nat /\ Eq(LostLink(proc[p]), t) \in Nat
    BY DEF Eq
  <2>4. disk[t].type = "dir"
    BY <1>3
  <2>5. disk'[t].nlink + Eq(LostLink(proc[p]), t) <= disk[t].nlink + Eq(LostLink(proc'[p]), t)
    BY <2>4
  <2> QED BY <2>1, <2>2, <2>3, <2>4, <2>5
<1> QED BY <1>2, <1>3, TreeChange

\* The inode written has the type the disk has for it, and one link more or less.
LEMMA Relinked ==
  ASSUME IInv, NEW s \in Inums, NEW k \in Int, NEW ic \in CacheType,
         ic[s].type = disk[s].type, ic[s].nlink = disk[s].nlink,
         disk' = Iupdate(disk, Relink(ic, s, k), s)
  PROVE  /\ \A t \in Inums : disk'[t].type = disk[t].type /\ disk'[t].ent = disk[t].ent
         /\ \A t \in Inums \ {s} : disk'[t] = disk[t]
         /\ disk'[s].nlink = disk[s].nlink + k
<1>1. disk \in DiskType
  BY DEF IInv, Typed
<1>2. Relink(ic, s, k)[s].type = disk[s].type /\ Relink(ic, s, k)[s].nlink = disk[s].nlink + k
  BY DEF Relink, CacheType
<1> QED BY <1>1, <1>2 DEF Iupdate, DiskType, InodeType

LEMMA UnlinkedTree ==
  ASSUME IInv, IInv', TInv, NEW p \in Procs, Unlinked(p)
  PROVE  TInv'
<1> DEFINE s == proc[p].ip
<1>1. /\ proc[p].pc = "unlinked" /\ Fixed /\ disk' = Iupdate(disk, Relink(icache, s, -1), s)
      /\ Goto(p, "end", 0, 0, <<s>>)
  BY DEF Unlinked, At, Finish
<1>2. /\ proc \in [Procs -> ProcType] /\ icache \in CacheType /\ s \in Inums
  BY <1>1, ProcFacts DEF PlaceOf, One
<1>3. icache[s].type = disk[s].type /\ icache[s].nlink = disk[s].nlink
  <2>1. Holds(p, s)
    BY <1>1, <1>2, InumIs DEF Holds, PlaceLock
  <2> QED BY <1>2, <2>1 DEF IInv, Holding, Coherent
<1>4. Apart(p) /\ proc'[p].pc = "end"
  BY <1>1, <1>2, GotoSets
<1>5. LostLink(proc[p]) = s /\ LostLink(proc'[p]) = 0
  BY <1>1, <1>4 DEF LostLink
<1> HIDE DEF s
<1>6. /\ \A t \in Inums : disk'[t].type = disk[t].type /\ disk'[t].ent = disk[t].ent
      /\ \A t \in Inums \ {s} : disk'[t] = disk[t]
      /\ disk'[s].nlink = disk[s].nlink + (-1)
  <2>1. -1 \in Int
    OBVIOUS
  <2> QED BY <1>1, <1>2, <1>3, <2>1, Relinked
<1>7. ASSUME NEW t \in Inums
      PROVE  disk'[t].nlink + Eq(s, t) <= disk[t].nlink + Eq(0, t)
  <2>1. disk[t].nlink \in Nat /\ t # 0
    BY InumIs DEF IInv, Typed, DiskType, InodeType
  <2> QED BY <1>6, <2>1 DEF Eq
<1> QED BY <1>1, <1>4, <1>5, <1>6, <1>7, RelinkTree

LEMMA LinkBadTree ==
  ASSUME IInv, IInv', UInv, TInv, NEW p \in Procs, LinkBad(p)
  PROVE  TInv'
<1> DEFINE s == proc[p].ip
           ic == Ilock(icache, s)
<1>1. /\ proc[p].pc = "bad" /\ Fixed /\ disk' = Iupdate(disk, Relink(ic, s, -1), s)
      /\ Goto(p, "failed", 0, 0, <<s>>)
  BY DEF LinkBad, Locking, At, Fail
<1>2. /\ proc \in [Procs -> ProcType] /\ s \in Inums
  BY <1>1, ProcFacts DEF PlaceOf, One
<1>3. ic \in CacheType /\ ic[s].type = disk[s].type /\ ic[s].nlink = disk[s].nlink
  <2>1. ~NoType(s)
    BY <1>2, InHand DEF UInv
  <2> QED BY <1>2, <2>1, ReadIs
<1>4. Apart(p) /\ proc'[p].pc = "failed"
  BY <1>1, <1>2, GotoSets
<1>5. LostLink(proc[p]) = 0 /\ LostLink(proc'[p]) = 0
  BY <1>1, <1>4 DEF LostLink
<1>6. disk[s].type = "file"
  BY <1>1, <1>2, InumIs DEF IInv, Entries, EntryOf, LinkTarget
<1> HIDE DEF s, ic
<1>7. /\ \A t \in Inums : disk'[t].type = disk[t].type /\ disk'[t].ent = disk[t].ent
      /\ \A t \in Inums \ {s} : disk'[t] = disk[t]
  <2>1. -1 \in Int
    OBVIOUS
  <2> QED BY <1>1, <1>2, <1>3, <2>1, Relinked
<1>8. ASSUME NEW t \in Inums, disk[t].type = "dir"
      PROVE  disk'[t].nlink + Eq(0, t) <= disk[t].nlink + Eq(0, t)
  <2>1. disk[t].nlink \in Nat
    BY DEF IInv, Typed, DiskType, InodeType
  <2>2. disk'[t].nlink = disk[t].nlink
    BY <1>6, <1>7, <1>8
  <2> QED BY <2>1, <2>2 DEF Eq
<1> QED BY <1>1, <1>4, <1>5, <1>7, <1>8, RelinkTree

LEMMA LinkTree ==
  ASSUME IInv, IInv', UInv, TInv, NEW p \in Procs, Link(p)
  PROVE  TInv'
<1> DEFINE s == proc[p].ip
           ic == Ilock(icache, s)
<1>1. proc[p].pc = "link"
  BY DEF Link, Locking, At
<1>2. /\ proc \in [Procs -> ProcType] /\ s \in Inums
  BY <1>1, ProcFacts DEF PlaceOf, One
<1>3. ~NoType(s)
  BY <1>2, InHand DEF UInv
<1>4. ic \in CacheType /\ ic[s].type = disk[s].type /\ ic[s].nlink = disk[s].nlink
  BY <1>2, <1>3, ReadIs
<1>5. Fixed
  BY <1>3 DEF Link
<1>6. CASE ic[s].type = "dir"
  <2>1. Goto(p, "failed", 0, 0, <<s>>) /\ disk' = disk
    BY <1>3, <1>6 DEF Link, Fail
  <2>2. Apart(p) /\ proc'[p].pc = "failed"
    BY <1>2, <2>1, GotoSets
  <2> QED BY <1>1, <1>5, <2>1, <2>2, TreeStill DEF Fixed
<1>7. CASE ic[s].type # "dir"
  <2>1. /\ disk' = Iupdate(disk, Relink(ic, s, 1), s)
        /\ proc' = [proc EXCEPT ![p] = [proc[p] EXCEPT !.pc = "walknew", !.dp = s,
                      !.rest = Elements(Call(p).new), !.ip = StartAt(p, Call(p).new)]]
    BY <1>3, <1>7 DEF Link
  <2>2. Apart(p) /\ proc'[p].pc = "walknew"
    BY <1>2, <2>1 DEF Apart, ProcType
  <2>3. LostLink(proc[p]) = 0 /\ LostLink(proc'[p]) = 0
    BY <1>1, <2>2 DEF LostLink
  <2>4. disk[s].type # "dir"
    BY <1>4, <1>7
  <2> HIDE DEF s, ic
  <2>5. /\ \A t \in Inums : disk'[t].type = disk[t].type /\ disk'[t].ent = disk[t].ent
        /\ \A t \in Inums \ {s} : disk'[t] = disk[t]
    <3>1. 1 \in Int
      OBVIOUS
    <3> QED BY <1>2, <1>4, <2>1, <3>1, Relinked
  <2>6. ASSUME NEW t \in Inums, disk[t].type = "dir"
        PROVE  disk'[t].nlink + Eq(0, t) <= disk[t].nlink + Eq(0, t)
    <3>1. disk[t].nlink \in Nat
      BY DEF IInv, Typed, DiskType, InodeType
    <3>2. disk'[t].nlink = disk[t].nlink
      BY <2>4, <2>5, <2>6
    <3> QED BY <3>1, <3>2 DEF Eq
  <2> QED BY <1>5, <2>2, <2>3, <2>5, <2>6, RelinkTree
<1> QED BY <1>6, <1>7

LEMMA EndTree ==
  ASSUME IInv, TInv, NEW p \in Procs, End(p)
  PROVE  TInv'
<1>1. /\ proc[p].pc \in {"end", "failed"} /\ disk' = disk /\ durable' \in {durable, disk}
      /\ durable' = disk \/ durable' = durable
      /\ proc' = [proc EXCEPT ![p] = [proc[p] EXCEPT !.pc = "user", !.call = <<>>, !.rest = <<>>]]
  BY DEF End, At
<1>2. Apart(p) /\ proc'[p].pc = "user"
  BY <1>1, ProcFacts DEF Apart, ProcType
<1>3. CASE durable' = durable
  BY <1>1, <1>2, <1>3, TreeStill
<1>4. CASE durable' # durable
  <2>1. durable' = disk /\ \A q \in Procs \ {p} : proc[q].pc = "user"
    BY <1>1, <1>4 DEF End
  <2>2. \A s : Losing(s)' = Losing(s)
    BY <1>1, <1>2 DEF Losing, LostLink, Apart
  <2>3. ASSUME NEW s \in Inums, disk[s].type = "dir" PROVE disk[s].nlink <= Counted(disk, s)
    <3>1. disk \in DiskType /\ Counted(disk, s) \in Nat /\ disk[s].nlink \in Nat
      BY CountedIs DEF IInv, Typed
    <3>2. Losing(s) = {}
      BY <1>1, <2>1, InumIs DEF Losing, LostLink
    <3>3. Cardinality(Losing(s)) = 0
      BY <3>2, FS_EmptySet
    <3>4. disk[s].nlink <= Counted(disk, s) + Cardinality(Losing(s))
      BY <2>3 DEF TInv, Full
    <3> QED BY <3>1, <3>3, <3>4
  <2>4. Full' /\ FullLast'
    BY <1>1, <2>1, <2>2, <2>3 DEF TInv, Full, FullLast, Counted, NamesOf, Subs
  <2>5. Shape(disk)' /\ Shape(durable)'
    BY <1>1, <2>1 DEF TInv, Shape, RootAlone, OneHome
  <2>6. InDirs'
    BY <1>1, <1>2 DEF TInv, InDirs, Apart
  <2> QED BY <2>4, <2>5, <2>6 DEF TInv
<1> QED BY <1>3, <1>4

LEMMA CrashTree ==
  ASSUME IInv, TInv, Crash
  PROVE  TInv'
<1>1. /\ disk' = durable /\ durable' = durable
      /\ \A q \in Procs : proc'[q].pc = "user"
  BY DEF Crash, Idle
<1>2. Shape(disk)' /\ Shape(durable)'
  BY <1>1 DEF TInv, Shape, RootAlone, OneHome
<1>3. InDirs'
  BY <1>1 DEF InDirs
<1>4. FullLast'
  BY <1>1 DEF TInv, FullLast, Counted, NamesOf, Subs
<1>5. Full'
  <2> SUFFICES ASSUME NEW s \in Inums, durable[s].type = "dir"
               PROVE  durable[s].nlink <= Counted(durable, s)
                        + Cardinality({q \in Procs : LostLink(proc'[q]) = s})
    BY <1>1 DEF Full, Counted, NamesOf, Subs, Losing
  <2>1. Cardinality({q \in Procs : LostLink(proc'[q]) = s}) = 0
    BY <1>1, NoLinks
  <2>2. durable \in DiskType /\ Counted(durable, s) \in Nat /\ durable[s].nlink \in Nat
    BY CountedIs DEF IInv, Typed
  <2> QED BY <2>1, <2>2 DEF TInv, FullLast
<1> QED BY <1>2, <1>3, <1>4, <1>5 DEF TInv

LEMMA InitTree ==
  ASSUME Init
  PROVE  TInv
<1>1. disk = Made /\ durable = Made /\ \A q \in Procs : proc[q].pc = "user"
  BY DEF Init, Idle
<1>2. \A s \in Inums, n \in Names \ Dots : Made[s].ent[n] = 0
  BY FsAssumption DEF Made, Free, NoEntries
<1>3. Made[Root].type = "dir" /\ Made[Root].ent[".."] = Root /\ \A s \in Inums \ {Root} : Made[s].type = "free"
  BY InumIs, DotIs DEF Made, Dots, Free
<1>4. Shape(Made)
  BY <1>2, <1>3, InumIs DEF Shape, RootAlone, OneHome
<1>5. ASSUME NEW s \in Inums, Made[s].type = "dir" PROVE Made[s].nlink <= Counted(Made, s)
  <2>1. s = Root /\ Made[s].nlink = 1
    BY <1>3, <1>5 DEF Made
  <2>2. Cardinality(NamesOf(Made, s)) \in Nat /\ Cardinality(Subs(Made, s)) \in Nat
    BY MadeIs, CountedIs
  <2> QED BY <2>1, <2>2 DEF Counted
<1>6. Full
  <2> SUFFICES ASSUME NEW s \in Inums, Made[s].type = "dir"
               PROVE  Made[s].nlink <= Counted(Made, s) + Cardinality(Losing(s))
    BY <1>1 DEF Full
  <2>1. Cardinality(Losing(s)) = 0
    BY <1>1, NoLinks DEF Losing
  <2>2. Counted(Made, s) \in Nat /\ Made[s].nlink \in Nat
    BY MadeIs, CountedIs
  <2> QED BY <1>5, <2>1, <2>2
<1>7. FullLast /\ InDirs
  BY <1>1, <1>5 DEF FullLast, InDirs
<1> QED BY <1>1, <1>4, <1>6, <1>7 DEF TInv

\* What has no link has no name, and names no directory.
LEMMA Unnamed ==
  ASSUME IInv, NEW s \in Inums, disk[s].nlink = 0
  PROVE  /\ s # Root
         /\ \A x \in Inums, m \in Names \ Dots : disk[x].ent[m] # s
         /\ \A m \in Names \ Dots : disk[s].ent[m] # 0 => disk[disk[s].ent[m]].type # "dir"
<1>1. \A x \in Inums, m \in Names \ Dots : disk[x].ent[m] # s
  BY Linked DEF IInv
<1>2. s # Root
  BY Linked DEF IInv
<1>3. Subs(disk, s) = {}
  <2>1. /\ disk[s].nlink >= Counted(disk, s) + Cardinality(Linking(s)) + Cardinality(Losing(s))
        /\ disk \in DiskType
    BY DEF IInv, Links, Typed
  <2>2. /\ IsFiniteSet(Subs(disk, s)) /\ Cardinality(Subs(disk, s)) \in Nat
        /\ Cardinality(NamesOf(disk, s)) \in Nat
        /\ Cardinality(Linking(s)) \in Nat /\ Cardinality(Losing(s)) \in Nat
    BY <2>1, LinkSets
  <2>3. Cardinality(Subs(disk, s)) = 0
    BY <2>1, <2>2 DEF Counted
  <2> QED BY <2>2, <2>3, FS_EmptySet
<1> QED BY <1>1, <1>2, <1>3 DEF Subs

LEMMA IputFreeTree ==
  ASSUME IInv, IInv', TInv, NEW p \in Procs, IputFree(p)
  PROVE  TInv'
<1> DEFINE s == Head(proc[p].put)
<1>1. /\ proc \in [Procs -> ProcType] /\ disk \in DiskType /\ proc[p].put \in Seq(Inums)
  BY ProcFacts
<1>2. /\ proc[p].put # <<>> /\ proc[p].stage = "free" /\ Stage(p, "drop") /\ Fixed
      /\ disk' = [disk EXCEPT ![s] = Free]
  BY DEF IputFree, Putting
<1>3. s \in Inums /\ s # 0 /\ Freed(proc[p]) = s
  BY <1>1, <1>2, HeadTailProperties, InumIs DEF Freed
<1>4. disk[s].nlink = 0
  BY <1>3 DEF IInv, Entries, EntryOf
<1>5. /\ Apart(p) /\ proc'[p].pc = proc[p].pc /\ proc'[p].ip = proc[p].ip
      /\ proc'[p].dp = proc[p].dp
  BY <1>1, <1>2, StageIs
<1> HIDE DEF s
<1>6. disk' \in DiskType /\ disk'[s] = Free /\ \A t \in Inums \ {s} : disk'[t] = disk[t]
  BY <1>1, <1>2, <1>3 DEF IInv, Typed, DiskType
<1>7. /\ s # Root
      /\ \A x \in Inums, m \in Names \ Dots : disk[x].ent[m] # s
      /\ \A m \in Names \ Dots : disk[s].ent[m] # 0 => disk[disk[s].ent[m]].type # "dir"
  BY <1>3, <1>4, Unnamed
<1>8. \A m \in Names \ Dots : disk'[s].ent[m] = 0
  BY <1>6 DEF Free, NoEntries
<1>9. Shape(disk')
  <2>1. RootAlone(disk')
    BY <1>6, <1>7, <1>8, InumIs DEF TInv, Shape, RootAlone
  <2>2. OneHome(disk')
    <3> SUFFICES ASSUME NEW t \in Inums, NEW x \in Inums, NEW y \in Inums,
                        NEW m \in Names \ Dots, NEW n \in Names \ Dots,
                        disk'[t].type = "dir", disk'[x].ent[m] = t, disk'[y].ent[n] = t
                 PROVE  x = y /\ m = n /\ disk'[t].ent[".."] = x
      BY DEF OneHome
    <3>1. t # s /\ x # s /\ y # s
      BY <1>6, <1>8, InumIs DEF Free
    <3> QED BY <1>6, <3>1 DEF TInv, Shape, OneHome
  <2> QED BY <2>1, <2>2 DEF Shape
<1>10. ASSUME NEW t \in Inums, disk'[t].type = "dir"
       PROVE  /\ disk[t].type = "dir"
              /\ disk'[t].nlink + Counted(disk, t) + Eq(LostLink(proc[p]), t)
                   <= disk[t].nlink + Counted(disk', t) + Eq(LostLink(proc'[p]), t)
  <2>1. t # s
    BY <1>6, <1>10 DEF Free
  <2>2. disk'[t] = disk[t]
    BY <1>6, <2>1
  <2>3. Counted(disk, t) <= Counted(disk', t)
    <3> DEFINE e == disk'
    <3>1. NamesOf(disk, t) \subseteq NamesOf(e, t)
      <4> SUFFICES ASSUME NEW z \in NamesOf(disk, t) PROVE z \in NamesOf(e, t)
        OBVIOUS
      <4>1. z \in Inums \X (Names \ Dots) /\ disk[z[1]].ent[z[2]] = t
        BY DEF NamesOf
      <4>2. z[1] # s
        BY <1>7, <1>10, <2>2, <4>1, InumIs
      <4> QED BY <1>6, <4>1, <4>2 DEF NamesOf
    <3>2. Subs(disk, t) \subseteq Subs(e, t)
      <4> SUFFICES ASSUME NEW m \in Subs(disk, t) PROVE m \in Subs(e, t)
        OBVIOUS
      <4>1. m \in Names \ Dots /\ disk[t].ent[m] # 0 /\ disk[disk[t].ent[m]].type = "dir"
        BY DEF Subs
      <4>2. disk[t].ent[m] \in Inums /\ disk[t].ent[m] # s
        BY <1>1, <1>7, <4>1, InumIs DEF DiskType, InodeType
      <4> QED BY <1>6, <2>2, <4>1, <4>2 DEF Subs
    <3>3. disk \in DiskType /\ e \in DiskType
      BY <1>1, <1>6
    <3> HIDE DEF e
    <3>4. Counted(disk, t) <= Counted(e, t)
      BY <3>1, <3>2, <3>3, CountedLess
    <3> QED BY <3>4 DEF e
  <2>4. LostLink(proc'[p]) = LostLink(proc[p])
    BY <1>5 DEF LostLink
  <2>5. /\ Counted(disk, t) \in Nat /\ Counted(disk', t) \in Nat /\ disk[t].nlink \in Nat
        /\ Eq(LostLink(proc[p]), t) \in Nat
    BY <1>1, <1>6, CountedIs DEF Eq
  <2>6. disk[t].type = "dir"
    BY <1>10, <2>2
  <2> QED BY <2>2, <2>3, <2>4, <2>5, <2>6
<1>11. proc'[p].pc = "created" => disk'[proc'[p].dp].type = "dir"
  <2> SUFFICES ASSUME proc[p].pc = "created" PROVE disk'[proc[p].dp].type = "dir"
    BY <1>5
  <2>1. proc[p].dp \in Inums /\ disk[proc[p].dp].type = "dir"
    BY ProcFacts DEF PlaceOf, Two, TInv, InDirs
  <2>2. PlaceLock(proc[p]) # s
    BY <1>3 DEF IInv, Entries, EntryOf
  <2> QED BY <1>6, <2>1, <2>2 DEF PlaceLock
<1>12. \A t \in Inums : disk[t].type # "free" /\ t # Freed(proc[p]) => disk'[t].type = disk[t].type
  BY <1>3, <1>6
<1> QED BY <1>2, <1>5, <1>9, <1>10, <1>11, <1>12, TreeChange

LEMMA CreateTree ==
  ASSUME IInv, IInv', UInv, TInv, NEW p \in Procs, Create(p)
  PROVE  TInv'
<1> DEFINE d == proc[p].ip
           i == Dirlookup(d, Name(p))
           frees == {j \in Inums : disk[j].type = "free"}
<1>1. proc[p].pc \in {"create", "mkdir"}
  BY DEF Create, Locking, At
<1>2. /\ proc \in [Procs -> ProcType] /\ disk \in DiskType /\ d \in Inums
  BY <1>1, ProcFacts DEF PlaceOf, One
<1>3. ~NoType(d) /\ disk[d].type = "dir"
  <2>1. ~NoType(d)
    BY <1>2, InHand DEF UInv
  <2> QED BY <1>1, <2>1 DEF UInv, Ways, WayOf
<1>4. CASE i # 0
  <2>1. Goto(p, "exists", i, 0, <<d>>) /\ Fixed /\ disk' = disk
    BY <1>3, <1>4 DEF Create
  <2>2. Apart(p) /\ proc'[p].pc = "exists"
    BY <1>2, <2>1, GotoSets
  <2> QED BY <1>1, <2>1, <2>2, TreeStill DEF Fixed
<1>5. CASE i = 0 /\ frees = {}
  BY <1>3, <1>5, PanicTree DEF Create
<1>6. CASE i = 0 /\ frees # {}
  <2> DEFINE j == Min(frees)
             x == IF Call(p).op = "mkdir" THEN "dir" ELSE "file"
  <2>1. disk' = [disk EXCEPT ![j].type = x] /\ Goto(p, "created", j, d, <<>>) /\ Fixed
    BY <1>3, <1>6 DEF Create
  <2>2. j \in Inums /\ disk[j].type = "free"
    <3>1. j \in frees
      BY <1>6, FirstIs
    <3> QED BY <3>1
  <2>3. x \in {"dir", "file"}
    OBVIOUS
  <2> HIDE DEF j, d, x
  <2>4. Apart(p) /\ proc'[p].pc = "created" /\ proc'[p].dp = d
    BY <1>2, <2>1, GotoSets
  <2>5. /\ disk'[j].type = x /\ disk'[j].nlink = disk[j].nlink
        /\ \A t \in Inums : disk'[t].ent = disk[t].ent
        /\ \A t \in Inums \ {j} : disk'[t] = disk[t]
    BY <1>2, <2>1, <2>2, <2>3 DEF DiskType, InodeType
  <2>6. disk[j].nlink = 0
    BY <2>2 DEF IInv, Links, FreeIsFree, Free
  <2>7. /\ j # Root /\ j # d
        /\ \A y \in Inums, m \in Names \ Dots : disk[y].ent[m] # j
    BY <1>3, <2>2, <2>6, Unnamed
  <2>8. Shape(disk')
    <3>1. RootAlone(disk')
      BY <2>5, <2>7, InumIs DEF TInv, Shape, RootAlone
    <3>2. OneHome(disk')
      <4> SUFFICES ASSUME NEW t \in Inums, NEW z \in Inums, NEW y \in Inums,
                          NEW m \in Names \ Dots, NEW n \in Names \ Dots,
                          disk'[t].type = "dir", disk'[z].ent[m] = t, disk'[y].ent[n] = t
                   PROVE  z = y /\ m = n /\ disk'[t].ent[".."] = z
        BY DEF OneHome
      <4>1. t # j /\ disk[z].ent[m] = t /\ disk[y].ent[n] = t
        BY <2>5, <2>7
      <4> QED BY <2>5, <4>1 DEF TInv, Shape, OneHome
    <3> QED BY <3>1, <3>2 DEF Shape
  <2>9. disk' \in DiskType
    BY DEF IInv, Typed
  <2>10. LostLink(proc[p]) = 0 /\ LostLink(proc'[p]) = 0
    BY <1>1, <2>4 DEF LostLink
  <2>11. ASSUME NEW t \in Inums, disk'[t].type = "dir"
         PROVE  \/ disk'[t].nlink = 0
                \/ /\ disk[t].type = "dir"
                   /\ disk'[t].nlink + Counted(disk, t) + Eq(LostLink(proc[p]), t)
                        <= disk[t].nlink + Counted(disk', t) + Eq(LostLink(proc'[p]), t)
    <3>1. CASE t = j
      BY <2>5, <2>6, <3>1
    <3>2. CASE t # j
      <4> DEFINE e == disk'
      <4>1. NamesOf(disk, t) \subseteq NamesOf(e, t)
        BY <2>5 DEF NamesOf
      <4>2. Subs(disk, t) \subseteq Subs(e, t)
        <5> SUFFICES ASSUME NEW m \in Subs(disk, t) PROVE m \in Subs(e, t)
          OBVIOUS
        <5>1. m \in Names \ Dots /\ disk[t].ent[m] # 0 /\ disk[disk[t].ent[m]].type = "dir"
          BY DEF Subs
        <5>2. disk[t].ent[m] \in Inums /\ disk[t].ent[m] # j
          BY <1>2, <2>7, <5>1, InumIs DEF DiskType, InodeType
        <5> QED BY <2>5, <5>1, <5>2 DEF Subs
      <4>3. disk \in DiskType /\ e \in DiskType
        BY <1>2, <2>9
      <4> HIDE DEF e
      <4>4. Counted(disk, t) <= Counted(e, t)
        BY <4>1, <4>2, <4>3, CountedLess
      <4>5. /\ Counted(disk, t) \in Nat /\ Counted(e, t) \in Nat /\ disk[t].nlink \in Nat
            /\ Eq(0, t) \in Nat
        BY <4>3, CountedIs DEF Eq
      <4>6. e[t] = disk[t]
        BY <2>5, <3>2 DEF e
      <4>7. disk[t].type = "dir"
        BY <2>11, <4>6 DEF e
      <4>8. e[t].nlink + Counted(disk, t) + Eq(0, t) <= disk[t].nlink + Counted(e, t) + Eq(0, t)
        BY <4>4, <4>5, <4>6
      <4> QED BY <2>10, <4>7, <4>8 DEF e
    <3> QED BY <3>1, <3>2
  <2>12. disk'[d].type = "dir"
    BY <1>2, <1>3, <2>5, <2>7
  <2>13. \A t \in Inums : disk[t].type # "free" /\ t # Freed(proc[p]) => disk'[t].type = disk[t].type
    BY <2>2, <2>5
  <2> HIDE DEF frees, i
  <2> QED BY <2>1, <2>4, <2>8, <2>11, <2>12, <2>13, TreeChange
<1> QED BY <1>4, <1>5, <1>6

LEMMA LinkEntryTree ==
  ASSUME IInv, IInv', UInv, TInv, NEW p \in Procs, LinkEntry(p)
  PROVE  TInv'
<1> DEFINE d == proc[p].ip
           s == proc[p].dp
           n == Name(p)
           i == Dirlookup(d, n)
<1>1. proc[p].pc = "link2"
  BY DEF LinkEntry, Locking, At
<1>2. /\ proc \in [Procs -> ProcType] /\ disk \in DiskType /\ d \in Inums /\ s \in Inums
      /\ s \in 0..NINODES /\ n \in Names
  <2>1. d \in Inums /\ s \in Inums
    BY <1>1, ProcFacts DEF PlaceOf, Two
  <2>2. n \in Names
    BY <1>1, ProcFacts DEF Naming
  <2> QED BY <2>1, <2>2, ProcFacts, InumIs
<1>3. ~NoType(d) /\ Uses(proc[p], d)
  BY <1>2, InHand DEF UInv
<1>4. n # ".." /\ disk[d].type = "dir"
  BY <1>1 DEF UInv, Ways, WayOf
<1>5. disk[s].type = "file"
  BY <1>1, <1>2, InumIs DEF IInv, Entries, EntryOf, LinkTarget
<1>6. Fixed
  BY <1>3 DEF LinkEntry
<1>7. CASE i # 0
  <2>1. Goto(p, "linked", s, d, <<i>>) /\ disk' = disk
    BY <1>3, <1>7 DEF LinkEntry
  <2>2. Apart(p) /\ proc'[p].pc = "linked"
    BY <1>2, <2>1, GotoSets
  <2> QED BY <1>1, <1>6, <2>1, <2>2, TreeStill DEF Fixed
<1>8. CASE i = 0
  <2>1. disk' = WriteEntry(disk, d, n, s) /\ Goto(p, "end", 0, 0, <<d, s>>)
    BY <1>3, <1>8 DEF LinkEntry, Finish
  <2>2. Apart(p) /\ proc'[p].pc = "end"
    BY <1>2, <2>1, GotoSets
  <2>3. disk[d].ent[n] = 0 /\ n # "."
    BY <1>1, <1>2, <1>3, <1>4, <1>8, DotThere DEF Dirlookup
  <2>4. n \in Names \ Dots
    BY <1>2, <1>4, <2>3 DEF Dots
  <2> HIDE DEF d, s, n, i
  <2>5. /\ \A t \in Inums : disk'[t].type = disk[t].type /\ disk'[t].nlink = disk[t].nlink
        /\ \A t \in Inums, m \in Names :
             disk'[t].ent[m] = IF t = d /\ m = n THEN s ELSE disk[t].ent[m]
    BY <1>2, <2>1, WriteIs
  <2>6. disk' \in DiskType
    BY DEF IInv, Typed
  <2>7. Shape(disk')
    <3>1. RootAlone(disk')
      BY <1>4, <1>5, <2>5, InumIs, DotIs DEF TInv, Shape, RootAlone
    <3>2. OneHome(disk')
      <4> SUFFICES ASSUME NEW t \in Inums, NEW z \in Inums, NEW y \in Inums,
                          NEW m \in Names \ Dots, NEW k \in Names \ Dots,
                          disk'[t].type = "dir", disk'[z].ent[m] = t, disk'[y].ent[k] = t
                   PROVE  z = y /\ m = k /\ disk'[t].ent[".."] = z
        BY DEF OneHome
      <4>1. disk[t].type = "dir" /\ disk[z].ent[m] = t /\ disk[y].ent[k] = t
        BY <1>5, <2>5
      <4>2. disk'[t].ent[".."] = disk[t].ent[".."]
        BY <1>4, <2>5, DotIs
      <4> QED BY <4>1, <4>2 DEF TInv, Shape, OneHome
    <3> QED BY <3>1, <3>2 DEF Shape
  <2>8. LostLink(proc[p]) = 0 /\ LostLink(proc'[p]) = 0
    BY <1>1, <2>2 DEF LostLink
  <2>9. ASSUME NEW t \in Inums, disk'[t].type = "dir"
        PROVE  /\ disk[t].type = "dir"
               /\ disk'[t].nlink + Counted(disk, t) + Eq(LostLink(proc[p]), t)
                    <= disk[t].nlink + Counted(disk', t) + Eq(LostLink(proc'[p]), t)
    <3> DEFINE e == disk'
               up == IF e[s].type = "dir" THEN Eq(d, t) ELSE 0
    <3>1. /\ e \in DiskType /\ disk \in DiskType /\ d \in Inums /\ n \in Names \ Dots /\ s \in Inums
          /\ e[d].ent[n] = s
          /\ \A y \in Inums, m \in Names \ Dots :
               disk[y].ent[m] = IF y = d /\ m = n THEN 0 ELSE e[y].ent[m]
          /\ \A y \in Inums : disk[y].type = e[y].type
          /\ e[t].nlink = disk[t].nlink
      BY <1>2, <2>3, <2>4, <2>5, <2>6
    <3> HIDE DEF e
    <3>2. Counted(disk, t) + Eq(s, t) + up <= Counted(e, t)
      BY <3>1, EntryGone
    <3>3. /\ Counted(disk, t) \in Nat /\ Counted(e, t) \in Nat /\ disk[t].nlink \in Nat
          /\ Eq(0, t) \in Nat /\ Eq(s, t) \in Nat /\ up \in Nat
      BY <3>1, CountedIs DEF Eq
    <3> HIDE DEF up
    <3>4. e[t].nlink + Counted(disk, t) + Eq(0, t) <= disk[t].nlink + Counted(e, t) + Eq(0, t)
      BY <3>1, <3>2, <3>3
    <3>5. disk[t].type = "dir"
      BY <2>5, <2>9
    <3> QED BY <2>8, <3>4, <3>5 DEF e
  <2> QED BY <1>6, <2>2, <2>5, <2>7, <2>9, TreeChange
<1> QED BY <1>7, <1>8

\* What iupdate() writes of an inode whose link count has been changed.
LEMMA WrittenBack ==
  ASSUME NEW e \in DiskType, NEW ic \in LooseCache, NEW s \in Inums
  PROVE  /\ Iupdate(e, ic, s)[s].type = ic[s].type /\ Iupdate(e, ic, s)[s].nlink = ic[s].nlink
         /\ \A t \in Inums \ {s} : Iupdate(e, ic, s)[t] = e[t]
         /\ \A t \in Inums : Iupdate(e, ic, s)[t].ent = e[t].ent
BY DEF Iupdate, DiskType, InodeType, LooseCache

LEMMA UnlinkingTree ==
  ASSUME IInv, IInv', UInv, TInv, NEW p \in Procs, Unlinking(p)
  PROVE  TInv'
<1> DEFINE s == proc[p].ip
           d == proc[p].dp
           ir == Ilock(icache, s)
           ic == Take(ir, s, p)
           k == -ParentLink(ic, s)
           less == Relink(ic, d, k)
           n == Name(p)
           w == WriteEntry(disk, d, n, 0)
<1>1. proc[p].pc = "unlinking"
  BY DEF Unlinking, Locking, At
<1>2. /\ proc \in [Procs -> ProcType] /\ disk \in DiskType /\ d \in Inums /\ s \in Inums
  BY <1>1, ProcFacts DEF PlaceOf, Two
<1>3. n \in Names \ Dots /\ disk[d].ent[n] = s
  <2>1. n \in Names
    BY <1>1, ProcFacts DEF Naming
  <2> QED BY <1>1, <2>1 DEF IInv, Entries, EntryOf
<1>4. ~NoType(s)
  BY <1>2, InHand DEF UInv
<1>5. ~(ic[s].nlink < 1)
  <2> SUFFICES ASSUME ic[s].nlink < 1 PROVE FALSE
    OBVIOUS
  <2>1. Panic("unlink: nlink < 1")
    BY <1>4 DEF Unlinking
  <2> QED BY <2>1 DEF Panic, IInv, Typed
<1>6. Fixed
  BY <1>4, <1>5 DEF Unlinking
<1>7. /\ ir \in LooseCache /\ ir[s].type = disk[s].type /\ ir[s].nlink = disk[s].nlink
      /\ \A t \in Inums \ {s} : ir[t] = icache[t]
  BY <1>2, <1>4, ReadIs, ReadRefs
<1>8. ir[d].type = disk[d].type /\ ir[d].nlink = disk[d].nlink
  <2>1. Holds(p, d)
    BY <1>1, <1>2, InumIs DEF Holds, PlaceLock
  <2>2. icache[d].type = disk[d].type /\ icache[d].nlink = disk[d].nlink
    BY <1>2, <2>1 DEF IInv, Holding, Coherent
  <2> QED BY <1>2, <1>7, <2>2
<1> HIDE DEF ir
<1>9. /\ ic \in LooseCache
      /\ \A t \in Inums : ic[t].type = ir[t].type /\ ic[t].nlink = ir[t].nlink
  BY <1>2, <1>7 DEF LooseCache, Take
<1>10. CASE ic[s].type = "dir" /\ ~Isdirempty(s)
  <2>1. Goto(p, "notempty", 0, d, <<s>>) /\ disk' = disk
    BY <1>4, <1>5, <1>10 DEF Unlinking, ir
  <2>2. Apart(p) /\ proc'[p].pc = "notempty"
    BY <1>2, <2>1, GotoSets
  <2> QED BY <1>1, <1>6, <2>1, <2>2, TreeStill DEF Fixed
<1>11. CASE ~(ic[s].type = "dir" /\ ~Isdirempty(s))
  <2>1. Goto(p, "unlinked", s, 0, <<d>>) /\ disk' = Iupdate(w, less, d)
    BY <1>4, <1>5, <1>11 DEF Unlinking, ir
  <2>2. Apart(p) /\ proc'[p].pc = "unlinked" /\ proc'[p].ip = s
    BY <1>2, <2>1, GotoSets
  <2>3. LostLink(proc[p]) = 0 /\ LostLink(proc'[p]) = s
    BY <1>1, <2>2 DEF LostLink
  <2>4. k = (IF disk[s].type = "dir" THEN -1 ELSE 0) /\ k \in Int
    BY <1>2, <1>7, <1>9 DEF ParentLink
  <2> HIDE DEF ic, k
  <2>5. less \in LooseCache /\ less[d].type = ic[d].type /\ less[d].nlink = ic[d].nlink + k
    BY <1>2, <1>9, <2>4 DEF LooseCache, Relink
  <2> HIDE DEF less, n, d, s
  <2>6. /\ w \in DiskType
        /\ \A t \in Inums : w[t].type = disk[t].type /\ w[t].nlink = disk[t].nlink
        /\ \A t \in Inums \ {d} : w[t] = disk[t]
        /\ \A t \in Inums, m \in Names :
             w[t].ent[m] = IF t = d /\ m = n THEN 0 ELSE disk[t].ent[m]
    BY <1>2, <1>3, DotIs, WriteIs
  <2> HIDE DEF w
  <2>7. /\ disk'[d].type = less[d].type /\ disk'[d].nlink = less[d].nlink
        /\ \A t \in Inums \ {d} : disk'[t] = w[t]
        /\ \A t \in Inums : disk'[t].ent = w[t].ent
    BY <1>2, <2>1, <2>5, <2>6, WrittenBack
  <2>8. \A t \in Inums : disk'[t].type = disk[t].type
    BY <1>2, <1>8, <1>9, <2>5, <2>6, <2>7
  <2>9. /\ disk'[d].nlink = disk[d].nlink + k
        /\ \A t \in Inums \ {d} : disk'[t].nlink = disk[t].nlink
    BY <1>2, <1>8, <1>9, <2>5, <2>6, <2>7
  <2>10. \A t \in Inums, m \in Names :
           disk'[t].ent[m] = IF t = d /\ m = n THEN 0 ELSE disk[t].ent[m]
    BY <2>6, <2>7
  <2>11. disk' \in DiskType
    BY DEF IInv, Typed
  <2>12. Shape(disk')
    <3>1. \A t \in Inums : disk'[t].ent[".."] = disk[t].ent[".."]
      BY <1>3, <2>10, DotIs DEF Dots
    <3>2. RootAlone(disk')
      BY <2>8, <2>10, <3>1, InumIs DEF TInv, Shape, RootAlone
    <3>3. OneHome(disk')
      <4> SUFFICES ASSUME NEW t \in Inums, NEW z \in Inums, NEW y \in Inums,
                          NEW m \in Names \ Dots, NEW l \in Names \ Dots,
                          disk'[t].type = "dir", disk'[z].ent[m] = t, disk'[y].ent[l] = t
                   PROVE  z = y /\ m = l /\ disk'[t].ent[".."] = z
        BY DEF OneHome
      <4>1. disk[t].type = "dir" /\ disk[z].ent[m] = t /\ disk[y].ent[l] = t
        BY <2>8, <2>10, InumIs
      <4> QED BY <3>1, <4>1 DEF TInv, Shape, OneHome
    <3> QED BY <3>2, <3>3 DEF Shape
  <2>13. ASSUME NEW t \in Inums, disk'[t].type = "dir"
         PROVE  /\ disk[t].type = "dir"
                /\ disk'[t].nlink + Counted(disk, t) + Eq(LostLink(proc[p]), t)
                     <= disk[t].nlink + Counted(disk', t) + Eq(LostLink(proc'[p]), t)
    <3> DEFINE e == disk'
               up == IF e[s].type = "dir" THEN Eq(d, t) ELSE 0
    <3>1. /\ e \in DiskType /\ disk \in DiskType /\ d \in Inums /\ n \in Names /\ s \in Inums
          /\ \A y \in Inums, m \in Names \ Dots :
               disk[y].ent[m] = IF y = d /\ m = n THEN s ELSE e[y].ent[m]
          /\ \A y \in Inums : disk[y].type = e[y].type
      BY <1>2, <1>3, <2>8, <2>10, <2>11
    <3>2. e[t].nlink = disk[t].nlink - up /\ up \in Nat
      BY <1>2, <2>4, <2>8, <2>9 DEF Eq, DiskType, InodeType
    <3> HIDE DEF e
    <3>3. Counted(disk, t) <= Counted(e, t) + Eq(s, t) + up
      BY <3>1, EntryMade
    <3>4. /\ Counted(disk, t) \in Nat /\ Counted(e, t) \in Nat /\ disk[t].nlink \in Nat
          /\ Eq(0, t) = 0 /\ Eq(s, t) \in Nat
      BY <3>1, CountedIs, InumIs DEF Eq
    <3> HIDE DEF up
    <3>5. e[t].nlink + Counted(disk, t) + Eq(0, t) <= disk[t].nlink + Counted(e, t) + Eq(s, t)
      BY <3>2, <3>3, <3>4
    <3>6. disk[t].type = "dir"
      BY <2>8, <2>13
    <3> QED BY <2>3, <3>5, <3>6 DEF e
  <2>14. \A t \in Inums : disk[t].type # "free" /\ t # Freed(proc[p]) => disk'[t].type = disk[t].type
    BY <2>8
  <2> QED BY <1>6, <2>2, <2>12, <2>13, <2>14, TreeChange
<1> QED BY <1>10, <1>11

LEMMA CreateNewTree ==
  ASSUME IInv, IInv', UInv, TInv, NEW p \in Procs, CreateNew(p)
  PROVE  TInv'
<1> DEFINE s == proc[p].ip
           d == proc[p].dp
           n == Name(p)
           ir == Ilock(icache, s)
           ic1 == Relink(ir, s, 1)
           k == ParentLink(ic1, s)
           ic2 == Relink(ic1, d, k)
           w1 == WriteEntry(disk, s, ".", s)
           w2 == WriteEntry(w1, s, "..", d)
           dots == IF Call(p).op = "mkdir" THEN w2 ELSE disk
           w == WriteEntry(dots, d, n, s)
           v == Iupdate(w, ic2, s)
<1>1. /\ proc[p].pc = "created" /\ Fixed /\ disk' = Iupdate(v, ic2, d) /\ Goto(p, "new", s, 0, <<d>>)
  BY DEF CreateNew, Locking, At
<1>2. /\ proc \in [Procs -> ProcType] /\ disk \in DiskType /\ d \in Inums /\ s \in Inums
      /\ s \in 0..NINODES /\ d \in 0..NINODES
  BY <1>1, ProcFacts DEF PlaceOf, Two
<1>3. disk[d].ent[n] = 0 /\ s # d
  BY <1>1 DEF IInv, Entries, EntryOf
<1>4. disk[d].type = "dir"
  BY <1>1 DEF TInv, InDirs
<1>5. disk[s].nlink = 0 /\ (disk[s].type = "dir" => Call(p).op = "mkdir")
  BY <1>1 DEF UInv, Fresh, FreshOf
<1>6. ~NoType(s) /\ Uses(proc[p], d)
  BY <1>2, InHand DEF UInv
<1>7. n \in Names \ Dots
  <2>1. n \in Names
    BY <1>1, ProcFacts DEF Naming
  <2>2. n # ".."
    BY <1>1 DEF UInv, Ways, WayOf
  <2>3. n # "."
    BY <1>1, <1>2, <1>3, <1>4, <1>6, DotThere
  <2> QED BY <2>1, <2>2, <2>3 DEF Dots
<1>8. Apart(p) /\ proc'[p].pc = "new"
  BY <1>1, <1>2, GotoSets
<1>9. LostLink(proc[p]) = 0 /\ LostLink(proc'[p]) = 0
  BY <1>1, <1>8 DEF LostLink
<1>10. /\ ir \in LooseCache /\ ir[s].type = disk[s].type /\ ir[s].nlink = disk[s].nlink
       /\ ir[d].type = disk[d].type /\ ir[d].nlink = disk[d].nlink
  <2>1. /\ ir \in LooseCache /\ ir[s].type = disk[s].type /\ ir[s].nlink = disk[s].nlink
        /\ \A t \in Inums \ {s} : ir[t] = icache[t]
    BY <1>2, <1>6, ReadIs, ReadRefs
  <2>2. Holds(p, d)
    BY <1>1, <1>2, InumIs DEF Holds, PlaceLock
  <2>3. icache[d].type = disk[d].type /\ icache[d].nlink = disk[d].nlink
    BY <1>2, <2>2 DEF IInv, Holding, Coherent
  <2> QED BY <1>2, <1>3, <2>1, <2>3
<1> HIDE DEF ir
<1>11. /\ ic1 \in LooseCache
       /\ ic1[s].nlink = disk[s].nlink + 1 /\ ic1[d].nlink = disk[d].nlink
       /\ ic1[s].type = disk[s].type /\ ic1[d].type = disk[d].type
  BY <1>2, <1>3, <1>10 DEF LooseCache, Relink
<1>12. k = (IF disk[s].type = "dir" THEN 1 ELSE 0) /\ k \in Int
  BY <1>11 DEF ParentLink
<1> HIDE DEF ic1, k
<1>13. /\ ic2 \in LooseCache
       /\ ic2[s].nlink = disk[s].nlink + 1 /\ ic2[d].nlink = disk[d].nlink + k
       /\ ic2[s].type = disk[s].type /\ ic2[d].type = disk[d].type
  <2> HIDE DEF s, d, n
  <2>1. ic2 = [ic1 EXCEPT ![d] = [ic1[d] EXCEPT !.nlink = ic1[d].nlink + k]]
    BY DEF Relink
  <2>2. ic1[d].nlink \in Int /\ ic1[d].nlink + k \in Int
    BY <1>2, <1>11, <1>12 DEF LooseCache
  <2> HIDE DEF ic2
  <2>3. ic2 \in LooseCache
    BY <1>2, <1>11, <2>1, <2>2 DEF LooseCache
  <2>4. ic2[s] = ic1[s] /\ ic2[d].nlink = ic1[d].nlink + k /\ ic2[d].type = ic1[d].type
    BY <1>2, <1>3, <1>11, <2>1 DEF LooseCache
  <2> QED BY <1>11, <2>3, <2>4
<1> HIDE DEF ic2, s, d, n
<1>14. /\ dots \in DiskType
       /\ \A t \in Inums : dots[t].type = disk[t].type /\ dots[t].nlink = disk[t].nlink
       /\ \A t \in Inums \ {s} : dots[t] = disk[t]
       /\ \A t \in Inums, m \in Names \ Dots : dots[t].ent[m] = disk[t].ent[m]
       /\ disk[s].type = "dir" => dots[s].ent[".."] = d
  <2>1. /\ w1 \in DiskType
        /\ \A t \in Inums : w1[t].type = disk[t].type /\ w1[t].nlink = disk[t].nlink
        /\ \A t \in Inums \ {s} : w1[t] = disk[t]
        /\ \A t \in Inums, m \in Names :
             w1[t].ent[m] = IF t = s /\ m = "." THEN s ELSE disk[t].ent[m]
    BY <1>2, DotIs, WriteIs, SMTT(60)
  <2> HIDE DEF w1
  <2>2. /\ w2 \in DiskType
        /\ \A t \in Inums : w2[t].type = w1[t].type /\ w2[t].nlink = w1[t].nlink
        /\ \A t \in Inums \ {s} : w2[t] = w1[t]
        /\ \A t \in Inums, m \in Names :
             w2[t].ent[m] = IF t = s /\ m = ".." THEN d ELSE w1[t].ent[m]
    <3>1. ".." \in Names
      BY DotIs
    <3> QED BY <1>2, <2>1, <3>1, WriteIs
  <2> HIDE DEF w2
  <2>3. /\ w2 \in DiskType
        /\ \A t \in Inums : w2[t].type = disk[t].type /\ w2[t].nlink = disk[t].nlink
        /\ \A t \in Inums \ {s} : w2[t] = disk[t]
        /\ \A t \in Inums, m \in Names \ Dots : w2[t].ent[m] = disk[t].ent[m]
        /\ w2[s].ent[".."] = d
    BY <1>2, <2>1, <2>2, DotIs DEF Dots
  <2> QED BY <1>2, <1>5, <2>3
<1> HIDE DEF dots
<1>15. /\ w \in DiskType
       /\ \A t \in Inums : w[t].type = disk[t].type /\ w[t].nlink = disk[t].nlink
       /\ \A t \in Inums, m \in Names \ Dots :
            w[t].ent[m] = IF t = d /\ m = n THEN s ELSE disk[t].ent[m]
       /\ \A t \in Inums \ {s} : w[t].ent[".."] = disk[t].ent[".."]
       /\ disk[s].type = "dir" => w[s].ent[".."] = d
  <2>1. /\ w \in DiskType
        /\ \A t \in Inums : w[t].type = dots[t].type /\ w[t].nlink = dots[t].nlink
        /\ \A t \in Inums \ {d} : w[t] = dots[t]
        /\ \A t \in Inums, m \in Names :
             w[t].ent[m] = IF t = d /\ m = n THEN s ELSE dots[t].ent[m]
    BY <1>2, <1>7, <1>14, WriteIs
  <2> HIDE DEF w
  <2>2. \A t \in Inums : w[t].ent[".."] = dots[t].ent[".."]
    BY <1>7, <2>1, DotIs DEF Dots
  <2> QED BY <1>2, <1>3, <1>14, <2>1, <2>2
<1> HIDE DEF w
<1> DEFINE e == disk'
<1>16. /\ \A t \in Inums : e[t].type = disk[t].type
       /\ e[s].nlink = disk[s].nlink + 1 /\ e[d].nlink = disk[d].nlink + k
       /\ \A t \in Inums \ {s, d} : e[t].nlink = disk[t].nlink
       /\ \A t \in Inums : e[t].ent = w[t].ent
  <2>1. /\ v[s].type = ic2[s].type /\ v[s].nlink = ic2[s].nlink
        /\ \A t \in Inums \ {s} : v[t] = w[t]
        /\ \A t \in Inums : v[t].ent = w[t].ent
    BY <1>2, <1>13, <1>15, WrittenBack
  <2>2. v \in LooseDisk
    BY <1>2, <1>13, <1>15, DiskLoose, Iupdated
  <2>3. /\ e[d].type = ic2[d].type /\ e[d].nlink = ic2[d].nlink
        /\ \A t \in Inums \ {d} : e[t] = v[t]
        /\ \A t \in Inums : e[t].ent = v[t].ent
    <3> HIDE DEF v
    <3>1. disk' = [v EXCEPT ![d] = [v[d] EXCEPT !.type = ic2[d].type, !.nlink = ic2[d].nlink]]
      BY <1>1 DEF Iupdate
    <3> QED BY <1>2, <2>2, <3>1 DEF LooseDisk
  <2> HIDE DEF v, e
  <2> QED BY <1>2, <1>3, <1>13, <1>15, <2>1, <2>3
<1>17. e \in DiskType
  BY DEF IInv, Typed
<1>18. /\ s # Root
       /\ \A x \in Inums, m \in Names \ Dots : disk[x].ent[m] # s
  BY <1>2, <1>5, Unnamed
<1>19. Shape(e)
  <2> HIDE DEF e
  <2>1. RootAlone(e)
    BY <1>15, <1>16, <1>18, InumIs DEF TInv, Shape, RootAlone
  <2>2. OneHome(e)
    <3> SUFFICES ASSUME NEW t \in Inums, NEW z \in Inums, NEW y \in Inums,
                        NEW m \in Names \ Dots, NEW l \in Names \ Dots,
                        e[t].type = "dir", e[z].ent[m] = t, e[y].ent[l] = t
                 PROVE  z = y /\ m = l /\ e[t].ent[".."] = z
      BY DEF OneHome
    <3>1. CASE t = s
      BY <1>15, <1>16, <1>18, <3>1
    <3>2. CASE t # s
      <4>1. disk[t].type = "dir" /\ disk[z].ent[m] = t /\ disk[y].ent[l] = t
        BY <1>15, <1>16, <3>2
      <4>2. e[t].ent[".."] = disk[t].ent[".."]
        BY <1>15, <1>16, <3>2
      <4> QED BY <4>1, <4>2 DEF TInv, Shape, OneHome
    <3> QED BY <3>1, <3>2
  <2> QED BY <2>1, <2>2 DEF Shape
<1>20. ASSUME NEW t \in Inums, e[t].type = "dir"
       PROVE  /\ disk[t].type = "dir"
              /\ e[t].nlink + Counted(disk, t) + Eq(LostLink(proc[p]), t)
                   <= disk[t].nlink + Counted(e, t) + Eq(LostLink(proc'[p]), t)
  <2> HIDE DEF e
  <2> DEFINE up == IF e[s].type = "dir" THEN Eq(d, t) ELSE 0
  <2>1. /\ disk \in DiskType /\ d \in Inums /\ n \in Names \ Dots /\ s \in Inums
        /\ e[d].ent[n] = s
        /\ \A y \in Inums, m \in Names \ Dots :
             disk[y].ent[m] = IF y = d /\ m = n THEN 0 ELSE e[y].ent[m]
        /\ \A y \in Inums : disk[y].type = e[y].type
    BY <1>2, <1>3, <1>7, <1>15, <1>16
  <2>2. Counted(disk, t) + Eq(s, t) + up <= Counted(e, t)
    BY <1>17, <2>1, EntryGone
  <2>3. e[t].nlink = disk[t].nlink + Eq(s, t) + up /\ up \in Nat /\ Eq(s, t) \in Nat
    <3>1. disk[t].nlink \in Nat
      BY <1>2 DEF DiskType, InodeType
    <3> QED BY <1>2, <1>3, <1>12, <1>16, <3>1 DEF Eq
  <2>4. /\ Counted(disk, t) \in Nat /\ Counted(e, t) \in Nat /\ disk[t].nlink \in Nat
        /\ Eq(0, t) \in Nat
    BY <1>17, <2>1, CountedIs DEF Eq
  <2> HIDE DEF up
  <2>5. e[t].nlink + Counted(disk, t) + Eq(0, t) <= disk[t].nlink + Counted(e, t) + Eq(0, t)
    BY <2>2, <2>3, <2>4
  <2> QED BY <1>9, <1>20, <2>1, <2>5
<1>21. \A t \in Inums : disk[t].type # "free" /\ t # Freed(proc[p]) => e[t].type = disk[t].type
  BY <1>16
<1> QED BY <1>1, <1>8, <1>19, <1>20, <1>21, TreeChange

LEMMA NextTree ==
  ASSUME NoUpwards, IInv, UInv, TInv, [Next]_vars
  PROVE  TInv'
<1>0. IInv'
  BY NextKeeps
<1>1. CASE UNCHANGED vars
  BY <1>1, PanicTree
<1>2. ASSUME NEW p \in Procs, Iput(p)
      PROVE  TInv'
  BY <1>0, <1>2, IputTree, IputFreeTree DEF Iput
<1>3. ASSUME NEW p \in Procs, Syscall(p)
      PROVE  TInv'
  <2>1. CASE (\E c \in Calls[p] : Begin(p, c)) \/ Walk(p) \/ Walked(p)
    BY <2>1, WalkTree
  <2>2. CASE End(p)
    BY <2>2, EndTree
  <2>3. CASE \/ Open(p) \/ Chdir(p) \/ CreateExists(p) \/ CreateDone(p) \/ LetParentGo(p) \/ Unlink(p)
             \/ \E k \in DOMAIN proc[p].files : Close(p, k)
    BY <2>3, CallTree
  <2>4. CASE Create(p) \/ CreateNew(p)
    BY <1>0, <2>4, CreateTree, CreateNewTree
  <2>5. CASE Unlinking(p) \/ Unlinked(p)
    BY <1>0, <2>5, UnlinkingTree, UnlinkedTree
  <2>6. CASE Link(p) \/ LinkEntry(p) \/ LinkBad(p)
    BY <1>0, <2>6, LinkTree, LinkEntryTree, LinkBadTree
  <2> QED BY <1>3, <2>1, <2>2, <2>3, <2>4, <2>5, <2>6 DEF Syscall
<1>4. CASE Crash
  BY <1>4, CrashTree
<1>5. CASE Frozen
  BY <1>1, <1>5 DEF Frozen
<1> QED BY <1>1, <1>2, <1>3, <1>4, <1>5 DEF Next

\* What can be reached: the root, and what something that can be reached has a name for.
LEMMA TreeIs ==
  ASSUME NEW d \in DiskType
  PROVE  /\ Tree(d) \subseteq Inums /\ Root \in Tree(d) /\ Closed(d, Tree(d))
         /\ \A i \in Tree(d) \ {Root} : \E j \in Tree(d), m \in Names \ Dots : d[j].ent[m] = i
<1> DEFINE t == Tree(d)
<1>1. t \subseteq Inums /\ Root \in t
  BY InumIs DEF Tree
<1>2. Closed(d, t)
  <2> SUFFICES ASSUME NEW j \in t, NEW m \in Names \ Dots, d[j].ent[m] # 0
               PROVE  d[j].ent[m] \in t
    BY DEF Closed
  <2>1. d[j].ent[m] \in Inums
    BY <1>1, InumIs DEF DiskType, InodeType
  <2>2. ASSUME NEW S \in SUBSET Inums, Root \in S, Closed(d, S)
        PROVE  d[j].ent[m] \in S
    <3>1. j \in S
      BY <2>2 DEF Tree
    <3> QED BY <2>2, <3>1 DEF Closed
  <2> QED BY <2>1, <2>2 DEF Tree
<1>3. ASSUME NEW i \in t \ {Root}, \A j \in t, m \in Names \ Dots : d[j].ent[m] # i
      PROVE  FALSE
  <2>1. t \ {i} \in SUBSET Inums /\ Root \in t \ {i}
    BY <1>1
  <2>2. Closed(d, t \ {i})
    BY <1>2, <1>3 DEF Closed
  <2>3. i \in t \ {i}
    BY <2>1, <2>2 DEF Tree
  <2> QED BY <2>3
<1> QED BY <1>1, <1>2, <1>3

\* The subdirectories of a directory are those it has names for, the root its own.
LEMMA SubdirsCounted ==
  ASSUME NEW d \in DiskType, Shape(d), NEW i \in Tree(d), d[i].type = "dir",
         NEW D, D = {j \in Tree(d) : d[j].type = "dir" /\ d[j].ent[".."] = i}
  PROVE  IsFiniteSet(D) /\ Cardinality(D) = Cardinality(Subs(d, i)) + (IF i = Root THEN 1 ELSE 0)
<1> DEFINE E == D \ {Root}
           f == [m \in Subs(d, i) |-> d[i].ent[m]]
<1>1. i \in Inums /\ Tree(d) \subseteq Inums /\ Root \in Tree(d) /\ Closed(d, Tree(d))
  BY TreeIs
<1>2. IsFiniteSet(Subs(d, i)) /\ Cardinality(Subs(d, i)) \in Nat
  BY <1>1, CountedIs
<1>3. ASSUME NEW m \in Subs(d, i) PROVE d[i].ent[m] \in E
  <2>1. m \in Names \ Dots /\ d[i].ent[m] # 0 /\ d[d[i].ent[m]].type = "dir"
    BY DEF Subs
  <2>2. d[i].ent[m] \in Tree(d)
    BY <1>1, <2>1 DEF Closed
  <2>3. d[i].ent[m] # Root
    BY <1>1, <2>1 DEF Shape, RootAlone
  <2>4. d[d[i].ent[m]].ent[".."] = i
    BY <1>1, <2>1, <2>2 DEF Shape, OneHome
  <2> QED BY <2>1, <2>2, <2>3, <2>4
<1>4. ASSUME NEW m \in Subs(d, i), NEW k \in Subs(d, i), d[i].ent[m] = d[i].ent[k]
      PROVE  m = k
  <2>1. d[i].ent[m] \in Inums
    BY <1>1, <1>3
  <2> QED BY <1>1, <1>4, <2>1 DEF Subs, Shape, OneHome
<1>5. ASSUME NEW j \in E PROVE \E m \in Subs(d, i) : d[i].ent[m] = j
  <2>1. j \in Inums /\ j \in Tree(d) \ {Root} /\ d[j].type = "dir" /\ d[j].ent[".."] = i
    BY <1>1
  <2>2. PICK x \in Tree(d), m \in Names \ Dots : d[x].ent[m] = j
    BY <2>1, TreeIs
  <2>3. x = i
    BY <1>1, <2>1, <2>2 DEF Shape, OneHome
  <2>4. m \in Subs(d, i)
    BY <2>1, <2>2, <2>3, InumIs DEF Subs
  <2> QED BY <2>2, <2>3, <2>4
<1>6. f \in Bijection(Subs(d, i), E)
  <2>1. f \in [Subs(d, i) -> E]
    BY <1>3
  <2>2. \A m, k \in Subs(d, i) : f[m] = f[k] => m = k
    BY <1>4
  <2>3. \A j \in E : \E m \in Subs(d, i) : f[m] = j
    BY <1>5
  <2> HIDE DEF f, E
  <2> QED BY <2>1, <2>2, <2>3 DEF Bijection, Injection, Surjection, IsInjective
<1>7. IsFiniteSet(E) /\ Cardinality(E) = Cardinality(Subs(d, i))
  BY <1>2, <1>6, FS_Bijection DEF ExistsBijection
<1>8. Root \in D <=> i = Root
  BY <1>1 DEF Shape, RootAlone
<1>9. CASE i = Root
  <2>1. D = E \cup {Root} /\ Root \notin E
    BY <1>8, <1>9
  <2> HIDE DEF E
  <2>2. IsFiniteSet(E \cup {Root}) /\ Cardinality(E \cup {Root}) = Cardinality(E) + 1
    BY <1>7, <2>1, FS_AddElement
  <2>3. Cardinality(D) = Cardinality(Subs(d, i)) + 1
    BY <1>7, <2>1, <2>2
  <2> QED BY <1>9, <2>1, <2>2, <2>3
<1>10. CASE i # Root
  <2>1. D = E
    BY <1>8, <1>10
  <2> HIDE DEF E, f
  <2>2. Cardinality(D) = Cardinality(Subs(d, i))
    BY <1>7, <2>1, Zenon
  <2>3. IsFiniteSet(D)
    BY <1>7, <2>1
  <2> QED BY <1>2, <1>10, <2>2, <2>3
<1> QED BY <1>9, <1>10

\* The names an inode that can be reached has in what can be reached: all of a directory's.
LEMMA NamedCounted ==
  ASSUME NEW d \in DiskType, NEW i \in Tree(d),
         NEW N, N = {e \in Tree(d) \X (Names \ Dots) : d[e[1]].ent[e[2]] = i}
  PROVE  /\ IsFiniteSet(N) /\ Cardinality(N) \in Nat /\ Cardinality(N) <= Cardinality(NamesOf(d, i))
         /\ i # Root => Cardinality(NamesOf(d, i)) >= 1
         /\ Shape(d) /\ d[i].type = "dir" =>
              /\ Cardinality(N) = (IF i = Root THEN 0 ELSE 1) /\ N = NamesOf(d, i)
              /\ \A e \in N : e[1] = d[i].ent[".."]
<1>1. i \in Inums /\ Tree(d) \subseteq Inums
  BY TreeIs
<1>2. IsFiniteSet(NamesOf(d, i)) /\ Cardinality(NamesOf(d, i)) \in Nat
  BY <1>1, CountedIs
<1>3. N \in SUBSET NamesOf(d, i)
  BY <1>1 DEF NamesOf
<1>4. IsFiniteSet(N) /\ Cardinality(N) \in Nat /\ Cardinality(N) <= Cardinality(NamesOf(d, i))
  BY <1>2, <1>3, FS_Subset, FS_CardinalityType
<1>5. i # Root => N # {}
  <2>1. ASSUME i # Root PROVE N # {}
    <3>1. PICK j \in Tree(d), m \in Names \ Dots : d[j].ent[m] = i
      BY <2>1, TreeIs
    <3>2. <<j, m>> \in N
      BY <3>1
    <3> QED BY <3>2
  <2> QED BY <2>1
<1>6. i # Root => Cardinality(NamesOf(d, i)) >= 1
  <2>1. i # Root => Cardinality(N) # 0
    BY <1>4, <1>5, FS_EmptySet
  <2> QED BY <1>2, <1>4, <2>1
<1>7. ASSUME Shape(d), d[i].type = "dir"
      PROVE  /\ Cardinality(N) = (IF i = Root THEN 0 ELSE 1) /\ N = NamesOf(d, i)
             /\ \A e \in N : e[1] = d[i].ent[".."]
  <2>1. CASE i = Root
    <3>1. NamesOf(d, i) = {}
      BY <1>7, <2>1 DEF NamesOf, Shape, RootAlone
    <3> QED BY <1>3, <2>1, <3>1, FS_EmptySet
  <2>2. CASE i # Root
    <3>1. PICK a \in N : TRUE
      BY <1>5, <2>2
    <3>2. \A b \in NamesOf(d, i) : b[1] = a[1] /\ b[2] = a[2] /\ d[i].ent[".."] = b[1]
      BY <1>1, <1>3, <1>7, <3>1 DEF NamesOf, Shape, OneHome
    <3>3. \A b \in NamesOf(d, i) : b = a
      <4> TAKE b \in NamesOf(d, i)
      <4>1. b = <<b[1], b[2]>> /\ a = <<a[1], a[2]>>
        BY <1>3, <3>1 DEF NamesOf
      <4>2. b[1] = a[1] /\ b[2] = a[2]
        BY <3>2
      <4> QED BY <4>1, <4>2
    <3>4. N = {a} /\ NamesOf(d, i) = {a}
      BY <1>3, <3>1, <3>3
    <3>5. Cardinality(N) = 1
      BY <3>4, FS_Singleton
    <3> QED BY <1>3, <2>2, <3>2, <3>4, <3>5
  <2> QED BY <2>1, <2>2
<1> QED BY <1>4, <1>6, <1>7

\* What can be reached from the root of what a crash leaves is a tree, whatever create(), link()
\* and unlink() were at (sysfile.c:127-165, 208-232, 263-280): a directory has one name and its
\* ".." is where that name is, nlink counts that name and its subdirectories, a file has a link
\* for each of its names, and no name is left dangling. In every state of any calls whose paths
\* do not go up.
THEOREM CrashLeavesTree == NoUpwards => (Spec => []TreeSound)
<1> SUFFICES ASSUME NoUpwards PROVE Spec => []TreeSound
  OBVIOUS
<1>1. Init => IInv /\ UInv /\ TInv
  BY InitHolds, InitUse, InitTree
<1>2. (IInv /\ UInv /\ TInv) /\ [Next]_vars => (IInv /\ UInv /\ TInv)'
  BY NextKeeps, NextUse, NextTree
<1>3. IInv /\ UInv /\ TInv => TreeSound
  <2> SUFFICES ASSUME IInv, UInv, TInv PROVE TreeSound
    OBVIOUS
  <2> DEFINE d == durable
             t == Tree(d)
             Named(i) == {e \in t \X (Names \ Dots) : d[e[1]].ent[e[2]] = i}
             Subdirs(i) == {j \in t : d[j].type = "dir" /\ d[j].ent[".."] = i}
  <2>1. /\ d \in DiskType /\ Shape(d) /\ FreeIsFree(d) /\ t \subseteq Inums
        /\ \A s \in Inums : /\ d[s].nlink >= Counted(d, s)
                            /\ d[s].type = "dir" => d[s].nlink <= Counted(d, s)
                            /\ d[s].type = "dir" => d[s].ent["."] = s
    BY TreeIs DEF IInv, Typed, Durable, UInv, DotsLast, TInv, FullLast
  <2> HIDE DEF d
  <2> SUFFICES ASSUME NEW i \in t
               PROVE  \/ d[i].type = "file" /\ d[i].nlink >= Cardinality(Named(i))
                      \/ /\ d[i].type = "dir" /\ d[i].ent["."] = i
                         /\ \A e \in Named(i) : e[1] = d[i].ent[".."]
                         /\ Cardinality(Named(i)) = IF i = Root THEN 0 ELSE 1
                         /\ d[i].nlink = Cardinality(Named(i)) + Cardinality(Subdirs(i))
    BY DEF TreeSound, d
  <2>2. /\ i \in Inums /\ Counted(d, i) \in Nat /\ d[i].nlink \in Nat
        /\ Cardinality(NamesOf(d, i)) \in Nat /\ Cardinality(Subs(d, i)) \in Nat
        /\ Counted(d, i) = Cardinality(NamesOf(d, i)) + Cardinality(Subs(d, i))
                             + (IF i = Root THEN 1 ELSE 0)
    BY <2>1, CountedIs DEF Counted
  <2>3. /\ Cardinality(Named(i)) \in Nat /\ Cardinality(Named(i)) <= Cardinality(NamesOf(d, i))
        /\ i # Root => Cardinality(NamesOf(d, i)) >= 1
        /\ d[i].type = "dir" =>
             /\ Cardinality(Named(i)) = (IF i = Root THEN 0 ELSE 1) /\ Named(i) = NamesOf(d, i)
             /\ \A e \in Named(i) : e[1] = d[i].ent[".."]
    BY <2>1, NamedCounted
  <2>4. d[i].type \in {"dir", "file"}
    <3>1. CASE i = Root
      BY <2>1, <3>1 DEF Shape, RootAlone
    <3>2. CASE i # Root
      <4>1. d[i].nlink # 0
        BY <2>1, <2>2, <2>3, <3>2
      <4>2. d[i].type # "free"
        BY <2>1, <2>2, <4>1 DEF FreeIsFree, Free
      <4> QED BY <2>1, <2>2, <4>2 DEF DiskType, InodeType
    <3> QED BY <3>1, <3>2
  <2>5. CASE d[i].type = "file"
    <3>1. d[i].nlink >= Cardinality(Named(i))
      <4> HIDE DEF Named
      <4> QED BY <2>1, <2>2, <2>3
    <3> QED BY <2>5, <3>1
  <2>6. CASE d[i].type = "dir"
    <3>1. Cardinality(Subdirs(i)) = Cardinality(Subs(d, i)) + (IF i = Root THEN 1 ELSE 0)
      BY <2>1, <2>6, SubdirsCounted
    <3>2. /\ d[i].nlink = Counted(d, i) /\ d[i].ent["."] = i
          /\ Cardinality(Named(i)) = Cardinality(NamesOf(d, i))
      BY <2>1, <2>2, <2>3, <2>6
    <3> HIDE DEF Named, Subdirs
    <3> QED BY <2>2, <2>3, <2>6, <3>1, <3>2
  <2> QED BY <2>4, <2>5, <2>6
<1> QED BY <1>1, <1>2, <1>3, PTL DEF Spec

=============================================================================
