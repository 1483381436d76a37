---------------------------------- MODULE Fs ----------------------------------
(***************************************************************************)
(* Inodes, directories and path names: the inode cache of fs.c, and the    *)
(* system calls of sysfile.c that look names up and change them, made by   *)
(* several processes on one disk that may crash.                           *)
(*                                                                         *)
(* What a call does between two places where it may wait or be seen is one *)
(* step: an inode is looked at and changed by the holder of its lock only, *)
(* so a step takes the lock, does its work and, where the code does, lets  *)
(* it go. A call that asks for an inode lock while it holds another has a  *)
(* step for each. The disk is the one the log gives its users (AtomicDisk, *)
(* which Log implements): it becomes durable when the last call under way  *)
(* ends, and a crash goes back to that.                                    *)
(***************************************************************************)
EXTENDS Integers, Sequences, FiniteSets, FiniteSetsExt, SequencesExt

CONSTANTS
  Procs,
  NINODES,       \* the disk's inodes are 1..NINODES
  Names,         \* names in directories, "." and ".." among them
  Calls,         \* the calls a process makes: [op, path, new], an absolute path with "/" first
  MaxCalls,      \* bound: the calls a process makes, closing its file apart
  NOFILE,        \* files a process may have open
  MayCrash,
  NoProc

Inums == 1..NINODES
Root  == 1
Dots  == {".", ".."}

ASSUME FsAssumption ==
  /\ IsFiniteSet(Procs) /\ IsFiniteSet(Names) /\ NINODES \in Nat \ {0}
  /\ Dots \subseteq Names /\ "/" \notin Names /\ NoProc \notin Procs

VARIABLES
  disk,       \* the inodes on the disk: type, nlink, and a directory's entries
  durable,    \* the disk as a crash leaves it
  icache,     \* the cache's entry for each inode: ref, valid, type, nlink, and
              \* who has its lock; ref is 0 when there is none
  proc,       \* each process: where it is in which call, and the inodes it refers to
  panicked    \* what panic() has said, "" if nothing

vars == <<disk, durable, icache, proc, panicked>>

NoEntries == [n \in Names |-> 0]
Free == [type |-> "free", nlink |-> 0, ent |-> NoEntries]

\* What mkfs leaves: a root directory that is its own parent.
Made == [i \in Inums |->
          IF i = Root THEN [type |-> "dir", nlink |-> 1,
                            ent |-> [n \in Names |-> IF n \in Dots THEN Root ELSE 0]]
          ELSE Free]

\* A process between calls, in directory d, after k calls.
Idle(d, k) == [pc |-> "user", call |-> <<>>, rest |-> <<>>, ip |-> 0, dp |-> 0, put |-> <<>>,
            stage |-> "lock", cwd |-> d, files |-> <<>>, calls |-> k]

Blank == [ref |-> 0, valid |-> FALSE, type |-> "free", nlink |-> 0, locker |-> NoProc]

\* The cache after boot: every process works in the root directory.
Booted == [[i \in Inums |-> Blank] EXCEPT ![Root].ref = Cardinality(Procs)]

Init ==
  /\ disk = Made /\ durable = Made
  /\ icache = Booted
  /\ proc = [p \in Procs |-> Idle(1, 0)]
  /\ panicked = ""

-----------------------------------------------------------------------------
(* The inode cache. The operators take and give a cache, so that a step can *)
(* do several of these things.                                             *)

\* iget(), idup(): one reference more. An entry iget() recycles is not valid: it is
\* Blank since its last reference was dropped.
Iget(ic, i) == [ic EXCEPT ![i].ref = @ + 1]

\* ilock(), once it has the lock: the inode is read unless the entry is valid.
Ilock(ic, s) ==
  IF ic[s].valid THEN ic
  ELSE [ic EXCEPT ![s] = [@ EXCEPT !.valid = TRUE, !.type = disk[s].type,
                                   !.nlink = disk[s].nlink]]

\* Nobody has the lock of entry s, and what ilock(s) reads is an inode.
CanLock(s) == icache[s].locker = NoProc
NoType(s) == Ilock(icache, s)[s].type = "free"

\* The lock of s is taken, or let go.
Take(ic, s, p) == [ic EXCEPT ![s].locker = p]
Drop(ic, s)    == [ic EXCEPT ![s].locker = NoProc]

\* ip->nlink += k, in the cache.
Relink(ic, s, k) == [ic EXCEPT ![s].nlink = @ + k]

\* iupdate(ip), on a disk.
Iupdate(d, ic, s) ==
  [d EXCEPT ![s] = [@ EXCEPT !.type = ic[s].type, !.nlink = ic[s].nlink]]

\* Mutant: a subdirectory's ".." is not counted.
Uncounted(ic, s) == 0

\* The link that ".." of inode s is to its parent, for dp->nlink++ and dp->nlink--.
ParentLink(ic, s) == IF ic[s].type = "dir" THEN 1 ELSE 0

\* writei() of the entry called n in directory s.
WriteEntry(d, s, n, i) == [d EXCEPT ![s].ent[n] = i]

\* dirlookup(): the inode that entry n of directory s names, 0 if there is none.
Dirlookup(s, n) == disk[s].ent[n]

\* isdirempty()
Isdirempty(s) == \A n \in Names \ Dots : Dirlookup(s, n) = 0

-----------------------------------------------------------------------------
(* Where a process is.                                                     *)

At(p, place) == panicked = "" /\ proc[p].pc = place /\ proc[p].put = <<>>

\* p goes on from place, having waited for the lock of inode ip.
Locking(p, place) ==
  /\ At(p, place)
  /\ CanLock(proc[p].ip)

Panic(why) == panicked' = why /\ UNCHANGED <<disk, durable, icache, proc>>

\* p goes to place with inodes i and d in hand and those in puts to be put.
Goto(p, place, i, d, puts) ==
  proc' = [proc EXCEPT ![p] = [@ EXCEPT !.pc = place, !.ip = i, !.dp = d, !.put = puts]]

Fixed == UNCHANGED <<durable, panicked>>

\* The call only puts what is in puts, and ends; or ends with -1.
Finish(p, puts) == Goto(p, "end", 0, 0, puts)
Fail(p, puts)   == Goto(p, "failed", 0, 0, puts)

Call(p) == proc[p].call
Name(p) == Last(IF proc[p].pc \in {"walknew", "link2"} THEN Call(p).new ELSE Call(p).path)

\* Where namex() starts on a path: at the root or in the current directory.
Absolute(path)     == path # <<>> /\ Head(path) = "/"
StartAt(p, path)   == IF Absolute(path) THEN Root ELSE proc[p].cwd
Start(ic, p, path) == Iget(ic, StartAt(p, path))
Elements(path)     == IF Absolute(path) THEN Tail(path) ELSE path

\* The calls of programs: "/" is nowhere but at the front of a path.
Paths == Seq(Names \cup {"/"})
CallType == [op : {"open", "openw", "chdir", "create", "mkdir", "unlink", "link"},
             path : Paths, new : Paths]

ASSUME CallsAssumption ==
  /\ NOFILE \in Nat /\ MaxCalls \in Nat
  /\ Calls \in [Procs -> SUBSET CallType]
  /\ \A p \in Procs : \A c \in Calls[p] :
       Elements(c.path) \in Seq(Names) /\ Elements(c.new) \in Seq(Names)

\* No path goes up by "..". (A directory that is removed while a process works in it keeps
\* its "..", which names its parent for as long and longer.)
NoUpwards == \A p \in Procs : \A c \in Calls[p] : ".." \notin Range(c.path) \cup Range(c.new)

\* The calls that look up the parent of what they name.
ForParent(p) == proc[p].pc = "walknew" \/ Call(p).op \in {"create", "mkdir", "unlink"}

-----------------------------------------------------------------------------
(* iput(), of the first inode a process has to put                         *)

Putting(p, stage) == panicked = "" /\ proc[p].put # <<>> /\ proc[p].stage = stage
Stage(p, stage) == proc' = [proc EXCEPT ![p].stage = stage]

\* Mutant: ref is not looked at.
IputLockAnyRef(p) ==
  LET s == Head(proc[p].put) IN
  /\ Putting(p, "lock") /\ CanLock(s)
  /\ IF icache[s].valid /\ icache[s].nlink = 0
     THEN icache' = Take(icache, s, p) /\ Stage(p, "free")
     ELSE UNCHANGED icache /\ Stage(p, "drop")
  /\ Fixed /\ UNCHANGED disk

\* Under the inode's lock: has the inode no link and no other reference?
IputLock(p) ==
  LET s == Head(proc[p].put) IN
  /\ Putting(p, "lock") /\ CanLock(s)
  /\ IF icache[s].valid /\ icache[s].nlink = 0 /\ icache[s].ref = 1
     THEN icache' = Take(icache, s, p) /\ Stage(p, "free")
     ELSE UNCHANGED icache /\ Stage(p, "drop")
  /\ Fixed /\ UNCHANGED disk

\* Then it is truncated and freed ...
IputFree(p) ==
  LET s == Head(proc[p].put) IN
  /\ Putting(p, "free")
  /\ disk' = [disk EXCEPT ![s] = Free]
  /\ icache' = [Drop(icache, s) EXCEPT ![s] = [@ EXCEPT !.valid = FALSE, !.type = "free"]]
  /\ Stage(p, "drop") /\ Fixed

\* ... and the reference is dropped, with only icache.lock held.
IputDrop(p) ==
  LET s == Head(proc[p].put) IN
  /\ Putting(p, "drop")
  /\ icache' = [icache EXCEPT ![s] = IF @.ref = 1 THEN Blank ELSE [@ EXCEPT !.ref = icache[s].ref - 1]]
  /\ proc' = [proc EXCEPT ![p] = [@ EXCEPT !.stage = "lock", !.put = Tail(proc[p].put)]]
  /\ Fixed /\ UNCHANGED disk

Iput(p) == IputLock(p) \/ IputFree(p) \/ IputDrop(p)

-----------------------------------------------------------------------------
(* A call begins; namex(); end_op()                                        *)

\* begin_op(), and the start of the first path.
Begin(p, c) ==
  /\ At(p, "user") /\ proc[p].calls < MaxCalls
  /\ icache' = Start(icache, p, c.path)
  /\ proc' = [proc EXCEPT ![p] =
                [@ EXCEPT !.pc = "walk", !.call = c, !.calls = proc[p].calls + 1,
                          !.rest = Elements(c.path), !.ip = StartAt(p, c.path)]]
  /\ Fixed /\ UNCHANGED disk

\* Where a call goes on when namex() has given it an inode, or 0.
Found(p)  == IF proc[p].pc = "walknew" THEN "link2" ELSE Call(p).op

\* Mutant: a failing namex() forgets to put the inode it has come to.
FailedLeaks(p) ==
  IF proc[p].pc = "walknew" THEN Goto(p, "bad", proc[p].dp, 0, <<>>) ELSE Fail(p, <<>>)

Failed(p) ==
  IF proc[p].pc = "walknew" THEN Goto(p, "bad", proc[p].dp, 0, <<proc[p].ip>>)
  ELSE Fail(p, <<proc[p].ip>>)

\* One turn of namex(), under the lock of the inode it has come to: nothing but a
\* directory goes on, to stop at the parent or to take the next element.
Walk(p) ==
  LET s == proc[p].ip
      rest == proc[p].rest
      ic == Ilock(icache, s)
      next == Dirlookup(s, Head(rest))
      isParent == ForParent(p) /\ Len(rest) = 1
  IN
  /\ Locking(p, "walk") \/ Locking(p, "walknew")
  /\ rest # <<>>
  /\ IF NoType(s) THEN Panic("ilock: no type")
     ELSE /\ Fixed /\ UNCHANGED disk
          /\ IF ic[s].type # "dir" \/ (next = 0 /\ ~isParent)
             THEN icache' = ic /\ Failed(p)
             ELSE IF isParent
             THEN icache' = ic /\ Goto(p, Found(p), s, proc[p].dp, <<>>)
             ELSE /\ icache' = Iget(ic, next)
                  /\ proc' = [proc EXCEPT ![p] =
                       [@ EXCEPT !.ip = next, !.rest = Tail(rest), !.put = <<s>>]]

\* Mutant: namex() that has no parent to give keeps the inode it has come to.
WalkedKeeps(p) ==
  /\ At(p, "walk") \/ At(p, "walknew")
  /\ proc[p].rest = <<>>
  /\ IF ForParent(p) THEN FailedLeaks(p) ELSE Goto(p, Found(p), proc[p].ip, proc[p].dp, <<>>)
  /\ Fixed /\ UNCHANGED <<disk, icache>>

\* The path is at its end: a call that wants a parent has none.
Walked(p) ==
  /\ At(p, "walk") \/ At(p, "walknew")
  /\ proc[p].rest = <<>>
  /\ IF ForParent(p) THEN Failed(p) ELSE Goto(p, Found(p), proc[p].ip, proc[p].dp, <<>>)
  /\ Fixed /\ UNCHANGED <<disk, icache>>

\* end_op(): the disk becomes durable if no other call is under way. (Where no crash can
\* come, nobody asks.)
End(p) ==
  /\ At(p, "end") \/ At(p, "failed")
  /\ proc' = [proc EXCEPT ![p] = [@ EXCEPT !.pc = "user", !.call = <<>>, !.rest = <<>>]]
  /\ durable' = IF MayCrash /\ \A q \in Procs \ {p} : proc[q].pc = "user" THEN disk ELSE durable
  /\ UNCHANGED <<disk, icache, panicked>>

-----------------------------------------------------------------------------
(* open(), chdir(), close()                                                *)

\* filealloc() and fdalloc() for the inode s, locked: it becomes one of the process's
\* files, or there is no room and it is put.
OpenFile(p, s) ==
  IF Len(proc[p].files) < NOFILE
  THEN proc' = [proc EXCEPT ![p] = [@ EXCEPT !.pc = "end", !.ip = 0,
                                          !.files = Append(proc[p].files, s)]]
  ELSE Fail(p, <<s>>)

\* open() of what is there, for reading or, "openw", for writing.
Open(p) ==
  LET s == proc[p].ip
      ic == Ilock(icache, s)
      refused == ic[s].type = "dir" /\ Call(p).op = "openw"
  IN
  /\ Locking(p, "open") \/ Locking(p, "openw")
  /\ IF NoType(s) THEN Panic("ilock: no type")
     ELSE /\ icache' = ic
          /\ IF refused THEN Fail(p, <<s>>) ELSE OpenFile(p, s)
          /\ Fixed /\ UNCHANGED disk

\* chdir(): the old directory is put, the new one takes its place.
Chdir(p) ==
  LET s == proc[p].ip
      ic == Ilock(icache, s)
  IN
  /\ Locking(p, "chdir")
  /\ IF NoType(s) THEN Panic("ilock: no type")
     ELSE /\ icache' = ic
          /\ IF ic[s].type # "dir" THEN Fail(p, <<s>>)
             ELSE proc' = [proc EXCEPT ![p] = [@ EXCEPT !.pc = "end", !.ip = 0, !.cwd = s,
                                                        !.put = <<proc[p].cwd>>]]
          /\ Fixed /\ UNCHANGED disk

\* close() of the k-th file: its reference to its inode is put in a transaction.
Close(p, k) ==
  /\ At(p, "user")
  /\ proc' = [proc EXCEPT ![p] = [@ EXCEPT !.pc = "end", !.files = RemoveAt(proc[p].files, k),
                                           !.put = <<proc[p].files[k]>>]]
  /\ Fixed /\ UNCHANGED <<disk, icache>>

-----------------------------------------------------------------------------
(* create(), for open() and mkdir()                                        *)

\* Under the lock of the directory: the name is there, or ialloc() marks the
\* first free inode it comes to.
Create(p) ==
  LET d == proc[p].ip
      ic == Ilock(icache, d)
      i == Dirlookup(d, Name(p))
      frees == {j \in Inums : disk[j].type = "free"}
  IN
  /\ Locking(p, "create") \/ Locking(p, "mkdir")
  /\ IF NoType(d) THEN Panic("ilock: no type")
     ELSE IF i # 0
     THEN /\ icache' = Iget(ic, i) /\ Goto(p, "exists", i, 0, <<d>>)
          /\ Fixed /\ UNCHANGED disk
     ELSE IF frees = {} THEN Panic("ialloc: no inodes")
     ELSE LET j == Min(frees) IN
          /\ disk' = [disk EXCEPT ![j].type = IF Call(p).op = "mkdir" THEN "dir" ELSE "file"]
          /\ icache' = Take(Iget(ic, j), d, p) /\ Goto(p, "created", j, d, <<>>)
          /\ Fixed

\* A file that is there may be opened, anything else not.
CreateExists(p) ==
  LET s == proc[p].ip
      ic == Ilock(icache, s)
  IN
  /\ Locking(p, "exists")
  /\ IF NoType(s) THEN Panic("ilock: no type")
     ELSE /\ icache' = ic
          /\ IF Call(p).op = "create" /\ ic[s].type = "file" THEN OpenFile(p, s)
             ELSE Fail(p, <<s>>)
          /\ Fixed /\ UNCHANGED disk

\* The new inode: nlink, in a directory the dots, and its name in the parent,
\* which is then let go.
CreateNew(p) ==
  LET s == proc[p].ip
      d == proc[p].dp
      ic1 == Relink(Ilock(icache, s), s, 1)
      ic2 == Relink(ic1, d, ParentLink(ic1, s))
      dots == IF Call(p).op = "mkdir" THEN WriteEntry(WriteEntry(disk, s, ".", s), s, "..", d)
              ELSE disk
  IN
  /\ Locking(p, "created")
  /\ disk' = Iupdate(Iupdate(WriteEntry(dots, d, Name(p), s), ic2, s), ic2, d)
  /\ icache' = Drop(Take(ic2, s, p), d)
  /\ Goto(p, "new", s, 0, <<d>>)
  /\ Fixed

\* With the parent put, the new inode is opened, or in mkdir() put too.
CreateDone(p) ==
  LET s == proc[p].ip IN
  /\ At(p, "new")
  /\ icache' = Drop(icache, s)
  /\ IF Call(p).op = "create" THEN OpenFile(p, s) ELSE Finish(p, <<s>>)
  /\ Fixed /\ UNCHANGED disk

-----------------------------------------------------------------------------
(* unlink()                                                                *)

\* The parent is locked and the name looked up in it.
Unlink(p) ==
  LET d == proc[p].ip
      ic == Ilock(icache, d)
      i == Dirlookup(d, Name(p))
  IN
  /\ Locking(p, "unlink")
  /\ IF NoType(d) THEN Panic("ilock: no type")
     ELSE /\ IF Name(p) \in Dots \/ i = 0
             THEN icache' = ic /\ Fail(p, <<d>>)
             ELSE icache' = Take(Iget(ic, i), d, p) /\ Goto(p, "unlinking", i, d, <<>>)
          /\ Fixed /\ UNCHANGED disk

\* With the parent locked, the inode is too: a directory that is not empty stays,
\* else the entry goes, and the parent is let go.
Unlinking(p) ==
  LET s == proc[p].ip
      d == proc[p].dp
      ic == Take(Ilock(icache, s), s, p)
      less == Relink(ic, d, -ParentLink(ic, s))
  IN
  /\ Locking(p, "unlinking")
  /\ IF NoType(s) THEN Panic("ilock: no type")
     ELSE IF ic[s].nlink < 1 THEN Panic("unlink: nlink < 1")
     ELSE /\ Fixed
          /\ IF ic[s].type = "dir" /\ ~Isdirempty(s)
             THEN icache' = Drop(ic, s) /\ Goto(p, "notempty", 0, d, <<s>>) /\ UNCHANGED disk
             ELSE /\ disk' = Iupdate(WriteEntry(disk, d, Name(p), 0), less, d)
                  /\ icache' = Drop(less, d)
                  /\ Goto(p, "unlinked", s, 0, <<d>>)

\* With the parent put: one link less.
Unlinked(p) ==
  LET s == proc[p].ip
      ic == Relink(icache, s, -1)
  IN
  /\ At(p, "unlinked")
  /\ icache' = Drop(ic, s) /\ disk' = Iupdate(disk, ic, s)
  /\ Finish(p, <<s>>) /\ Fixed

\* The inode is put, then the parent, in unlink() of a directory in use and in
\* link() to a name that is there.
LetParentGo(p) ==
  LET d == proc[p].dp IN
  /\ \/ At(p, "notempty") /\ Fail(p, <<d>>)
     \/ At(p, "linked") /\ Goto(p, "bad", proc[p].ip, 0, <<d>>)
  /\ icache' = Drop(icache, d)
  /\ Fixed /\ UNCHANGED disk

-----------------------------------------------------------------------------
(* link()                                                                  *)

\* One more link is counted before the new name is looked up.
Link(p) ==
  LET s == proc[p].ip
      ic == Ilock(icache, s)
      more == Relink(ic, s, 1)
  IN
  /\ Locking(p, "link")
  /\ IF NoType(s) THEN Panic("ilock: no type")
     ELSE /\ Fixed
          /\ IF ic[s].type = "dir" THEN icache' = ic /\ Fail(p, <<s>>) /\ UNCHANGED disk
             ELSE /\ icache' = Start(more, p, Call(p).new) /\ disk' = Iupdate(disk, more, s)
                  /\ proc' = [proc EXCEPT ![p] =
                       [@ EXCEPT !.pc = "walknew", !.dp = s, !.rest = Elements(Call(p).new),
                                 !.ip = StartAt(p, Call(p).new)]]

\* dirlink() in the new parent: the entry is written, or the name is there and
\* its inode is put, with the parent's lock held, before the call fails.
LinkEntry(p) ==
  LET d == proc[p].ip
      s == proc[p].dp
      ic == Ilock(icache, d)
      i == Dirlookup(d, Name(p))
  IN
  /\ Locking(p, "link2")
  /\ IF NoType(d) THEN Panic("ilock: no type")
     ELSE /\ Fixed
          /\ IF i # 0
             THEN /\ icache' = Take(Iget(ic, i), d, p) /\ UNCHANGED disk
                  /\ Goto(p, "linked", s, d, <<i>>)
             ELSE /\ icache' = ic /\ disk' = WriteEntry(disk, d, Name(p), s)
                  /\ Finish(p, <<d, s>>)

\* bad: the link is taken back.
LinkBad(p) ==
  LET s == proc[p].ip
      ic == Relink(Ilock(icache, s), s, -1)
  IN
  /\ Locking(p, "bad")
  /\ icache' = ic /\ disk' = Iupdate(disk, ic, s)
  /\ Fail(p, <<s>>) /\ Fixed

-----------------------------------------------------------------------------

\* Power fails, and the machine boots.
Crash ==
  /\ MayCrash /\ panicked = ""
  /\ disk' = durable /\ icache' = Booted
  /\ proc' = [p \in Procs |-> Idle(1, proc[p].calls)]
  /\ UNCHANGED <<durable, panicked>>

Syscall(p) ==
  \/ \E c \in Calls[p] : Begin(p, c)
  \/ Walk(p) \/ Walked(p) \/ End(p)
  \/ Open(p) \/ Chdir(p) \/ \E k \in DOMAIN proc[p].files : Close(p, k)
  \/ Create(p) \/ CreateExists(p) \/ CreateNew(p) \/ CreateDone(p)
  \/ Unlink(p) \/ Unlinking(p) \/ Unlinked(p) \/ LetParentGo(p)
  \/ Link(p) \/ LinkEntry(p) \/ LinkBad(p)

\* panic() stops the machine.
Frozen == panicked # "" /\ UNCHANGED vars

Next ==
  \/ \E p \in Procs : Iput(p) \/ Syscall(p)
  \/ Crash
  \/ Frozen

Spec == Init /\ [][Next]_vars

-----------------------------------------------------------------------------
(* Properties.                                                             *)

InodeType == [type : {"free", "dir", "file"}, nlink : Nat, ent : [Names -> 0..NINODES]]

TypeOK ==
  /\ disk \in [Inums -> InodeType] /\ durable \in [Inums -> InodeType]
  /\ icache \in [Inums -> [ref : Nat, valid : BOOLEAN, nlink : Nat,
                           type : {"free", "dir", "file"}, locker : Procs \cup {NoProc}]]
  /\ \A p \in Procs :
       proc[p].cwd \in Inums /\ {proc[p].ip, proc[p].dp} \cup Range(proc[p].files) \subseteq Inums \cup {0}

\* The pointers that process p has to entry s.
RefsOf(p, s) ==
  ({f \in {"ip", "dp", "cwd"} : proc[p][f] = s} \X {0})
    \cup ({"put"} \X {k \in DOMAIN proc[p].put : proc[p].put[k] = s})
    \cup ({"files"} \X {k \in DOMAIN proc[p].files : proc[p].files[k] = s})

\* ref is the number of pointers to a cache entry (fs.c:123-128), through every
\* failing path of every call.
RefsExact ==
  \A s \in Inums : icache[s].ref = Cardinality(UNION {{p} \X RefsOf(p, s) : p \in Procs})

\* The names that inode s has on disk d.
NamesOf(d, s) == {e \in Inums \X (Names \ Dots) : d[e[1]].ent[e[2]] = s}

\* nlink never falls short of the names an inode has on the disk, nor, after a crash at any
\* point, of those it has on what is left: a file outlives all its names but the last, and
\* unlink() never panics (sysfile.c:211).
LinksSuffice ==
  /\ \A s \in Inums : /\ disk[s].nlink >= Cardinality(NamesOf(disk, s))
                      /\ durable[s].nlink >= Cardinality(NamesOf(durable, s))
  /\ panicked # "unlink: nlink < 1"

\* Both counts of an inode are right: of the pointers to it, and of its names.
CountsSound == TypeOK /\ RefsExact /\ LinksSuffice

\* iput() frees an inode only when nobody can get at it any more (fs.c:334-346):
\* who refers to an inode, other than the one that has just freed it, refers to
\* one that is allocated, so that no ilock() panics, and what the cache says of it is
\* true. This is so for calls whose paths have no ".."; a walk up from a directory that
\* has been removed can come to one that is freed.
NotFreedInUse ==
  /\ panicked \in {"", "ialloc: no inodes"}
  /\ \A p \in Procs, s \in Inums :
       Cardinality(RefsOf(p, s)) > (IF Putting(p, "drop") /\ Head(proc[p].put) = s THEN 1 ELSE 0)
         => LET i == disk[s] IN
            /\ i.type # "free"
            /\ icache[s].valid => icache[s].type = i.type /\ icache[s].nlink = i.nlink

\* The inodes that can be reached from the root of the disk d: the least set that has the
\* root and whatever it has names for.
Closed(d, S) == \A j \in S, n \in Names \ Dots : d[j].ent[n] \in S \cup {0}
Tree(d) == {i \in Inums : \A S \in SUBSET Inums : Root \in S /\ Closed(d, S) => i \in S}

\* What a crash leaves is a tree: a directory has one name, its ".." is where that
\* name is, and nlink counts its name and its subdirectories; a file that has names
\* has at least as many links, so that it outlives them; no name is left dangling.
\* This, too, for calls whose paths have no "..".
TreeSound ==
  LET d == durable
      t == Tree(d)
      Named(i) == {e \in t \X (Names \ Dots) : d[e[1]].ent[e[2]] = i}
      Subdirs(i) == {j \in t : d[j].type = "dir" /\ d[j].ent[".."] = i}
  IN \A i \in t :
       \/ d[i].type = "file" /\ d[i].nlink >= Cardinality(Named(i))
       \/ /\ d[i].type = "dir" /\ d[i].ent["."] = i
          /\ \A e \in Named(i) : e[1] = d[i].ent[".."]
          /\ Cardinality(Named(i)) = IF i = Root THEN 0 ELSE 1
          /\ d[i].nlink = Cardinality(Named(i)) + Cardinality(Subdirs(i))

\* The cache entry whose lock p waits for, 0 if it waits for none.
Wanted(p) ==
  IF proc[p].put # <<>> THEN IF proc[p].stage = "lock" THEN Head(proc[p].put) ELSE 0
  ELSE IF proc[p].pc \in {"walk", "walknew", "open", "openw", "chdir", "create", "mkdir", "exists",
                          "created", "unlink", "unlinking", "link", "link2", "bad"}
       THEN proc[p].ip ELSE 0

\* Locks are asked for in an order that cannot end in a circle (sysfile.c:208, 280), nor
\* does a process wait for itself.
NoLockCycle ==
  \A Q \in SUBSET Procs \ {{}} :
    \E p \in Q : Wanted(p) = 0 \/ icache[Wanted(p)].locker \notin Q

\* "iput() frees if the reference and link counts have fallen to zero" (fs.c:119-121).
LastPutFrees ==
  \A i \in Inums :
    disk[i].type # "free" /\ disk[i].nlink = 0 => icache[i].ref > 0

=============================================================================
