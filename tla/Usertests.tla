------------------------------- MODULE Usertests -------------------------------
(***************************************************************************)
(* The tests of names, links and directories in usertests.c, run on Fs: a  *)
(* test is the calls it makes, each with what the test wants of it, and    *)
(* the processes it forks run in every order. What the files contain is    *)
(* Blocks' business. Loops are shorter, and a few directories and files    *)
(* stand for many.                                                         *)
(***************************************************************************)
EXTENDS Fs

CONSTANT Chosen   \* the tests that are run

VARIABLES
  test,     \* its name
  todo,     \* what each process still has to do; one that has nothing is none
  oops      \* the calls a test has complained about

testVars == <<test, todo, oops>>

-----------------------------------------------------------------------------
(* What a test says: the call, and how it may end.                         *)

Want(op, path, ends) == [op |-> op, path |-> path, new |-> <<>>, ends |-> ends]
Must(op, path) == Want(op, path, {"end"})
Not(op, path)  == Want(op, path, {"failed"})
May(op, path)  == Want(op, path, {"end", "failed"})
LinkTo(path, new, ends) == [op |-> "link", path |-> path, new |-> new, ends |-> ends]
MustLink(path, new) == LinkTo(path, new, {"end"})
NotLink(path, new)  == LinkTo(path, new, {"failed"})

OneOf(rounds) == [op |-> "any", rounds |-> rounds]
Fork(child) == [op |-> "fork", child |-> child]
Shut == [op |-> "close", ends |-> {"end"}]
Wait == [op |-> "wait"]
Exit == [op |-> "exit", ends |-> {"end"}]

\* open() that has to succeed or may fail, of a file that is closed at once.
Touch(op, path) == <<Must(op, path), Shut>>
Try(op, path)   == <<May(op, path), Shut>>

\* for(i = 0; i < n; i++)
Loop(n, body(_)) == FlattenSeq([k \in 1..n |-> body(k - 1)])

-----------------------------------------------------------------------------
(* The tests of one process, or of one that waits for the other.           *)

Removed(d) == <<Must("mkdir", <<d>>), Must("chdir", <<d>>), Must("unlink", <<"..", d>>)>>

Iputtest == Removed("iputdir") \o <<Must("chdir", <<"/">>)>>

Exitiputtest == <<Fork(Removed("iputdir")), Wait>>

Opentest == Touch("open", <<"README">>) \o <<Not("open", <<"doesnotexist">>)>>

Createtest ==
  LET File(i) == <<"a", "b", "c">>[i + 1] IN
  Loop(3, LAMBDA i : Try("create", <<File(i)>>)) \o Loop(3, LAMBDA i : <<May("unlink", <<File(i)>>)>>)

Dirtest ==
  << Must("mkdir", <<"dir0">>), Must("chdir", <<"dir0">>), Must("chdir", <<"..">>),
     Must("unlink", <<"dir0">>) >>

Unlinkread ==
  Touch("create", <<"unlinkread">>)
    \o <<Must("openw", <<"unlinkread">>), Must("unlink", <<"unlinkread">>)>>
    \o Try("create", <<"unlinkread">>)
    \o <<Shut, May("unlink", <<"unlinkread">>)>>

Linktest ==
  <<May("unlink", <<"lf1">>), May("unlink", <<"lf2">>)>>
    \o Touch("create", <<"lf1">>)
    \o <<MustLink(<<"lf1">>, <<"lf2">>), May("unlink", <<"lf1">>), Not("open", <<"lf1">>)>>
    \o Touch("open", <<"lf2">>)
    \o <<NotLink(<<"lf2">>, <<"lf2">>), May("unlink", <<"lf2">>), NotLink(<<"lf2">>, <<"lf1">>),
         NotLink(<<".">>, <<"lf1">>)>>

Bigdir ==
  LET File(i) == <<"a", "b", "c">>[i + 1] IN
  <<May("unlink", <<"bd">>)>> \o Touch("create", <<"bd">>)
    \o Loop(3, LAMBDA i : <<MustLink(<<"bd">>, <<File(i)>>)>>)
    \o <<May("unlink", <<"bd">>)>>
    \o Loop(3, LAMBDA i : <<Must("unlink", <<File(i)>>)>>)

Subdir ==
  <<May("unlink", <<"ff">>), Must("mkdir", <<"dd">>)>>
    \o Touch("create", <<"dd", "ff">>)
    \o <<Not("unlink", <<"dd">>), Must("mkdir", <<"/", "dd", "dd">>)>>
    \o Touch("create", <<"dd", "dd", "ff">>)
    \o Touch("open", <<"dd", "dd", "..", "ff">>)
    \o << MustLink(<<"dd", "dd", "ff">>, <<"dd", "dd", "ffff">>),
          Must("unlink", <<"dd", "dd", "ff">>), Not("open", <<"dd", "dd", "ff">>),
          Must("chdir", <<"dd">>), Must("chdir", <<"dd", "..", "..", "dd">>),
          Must("chdir", <<"dd", "..", "..", "..", "dd">>), Must("chdir", <<".", "..">>) >>
    \o Touch("open", <<"dd", "dd", "ffff">>)
    \o << Not("open", <<"dd", "dd", "ff">>), Not("create", <<"dd", "ff", "ff">>),
          Not("create", <<"dd", "xx", "ff">>), Not("create", <<"dd">>), Not("openw", <<"dd">>),
          NotLink(<<"dd", "ff", "ff">>, <<"dd", "dd", "xx">>),
          NotLink(<<"dd", "xx", "ff">>, <<"dd", "dd", "xx">>),
          NotLink(<<"dd", "ff">>, <<"dd", "dd", "ffff">>),
          Not("mkdir", <<"dd", "ff", "ff">>), Not("mkdir", <<"dd", "xx", "ff">>),
          Not("mkdir", <<"dd", "dd", "ffff">>), Not("unlink", <<"dd", "xx", "ff">>),
          Not("unlink", <<"dd", "ff", "ff">>), Not("chdir", <<"dd", "ff">>), Not("chdir", <<"dd", "xx">>),
          Must("unlink", <<"dd", "dd", "ffff">>), Must("unlink", <<"dd", "ff">>), Not("unlink", <<"dd">>),
          Must("unlink", <<"dd", "dd">>), Must("unlink", <<"dd">>) >>

\* skipelem() keeps DIRSIZ characters of an element.
Name14 == "12345678901234"
Name15 == "123456789012345"
Cut(path) == [k \in DOMAIN path |-> IF path[k] = Name15 THEN Name14 ELSE path[k]]

Fourteen ==
  <<Must("mkdir", <<Name14>>), Must("mkdir", Cut(<<Name14, Name15>>))>>
    \o Touch("create", Cut(<<Name15, Name15, Name15>>))
    \o Touch("open", <<Name14, Name14, Name14>>)
    \o <<Not("mkdir", <<Name14, Name14>>), Not("mkdir", Cut(<<Name15, Name14>>))>>

Rmdot ==
  << Must("mkdir", <<"dots">>), Must("chdir", <<"dots">>), Not("unlink", <<".">>), Not("unlink", <<"..">>),
     Must("chdir", <<"/">>), Not("unlink", <<"dots", ".">>), Not("unlink", <<"dots", "..">>),
     Must("unlink", <<"dots">>) >>

Dirfile ==
  Touch("create", <<"dirfile">>)
    \o << Not("chdir", <<"dirfile">>), Not("open", <<"dirfile", "xx">>), Not("create", <<"dirfile", "xx">>),
          Not("mkdir", <<"dirfile", "xx">>), Not("unlink", <<"dirfile", "xx">>),
          NotLink(<<"README">>, <<"dirfile", "xx">>), Must("unlink", <<"dirfile">>), Not("openw", <<".">>) >>
    \o Try("open", <<".">>)

\* The references are counted after each call, so that two rounds do.
Iref ==
  LET Round(i) == <<Must("mkdir", <<"irefd">>), Must("chdir", <<"irefd">>),
                    May("mkdir", <<>>), LinkTo(<<"README">>, <<>>, {"end", "failed"})>>
                  \o Try("create", <<>>) \o Try("create", <<"xx">>) \o <<May("unlink", <<"xx">>)>>
  IN  Loop(2, Round) \o <<May("chdir", <<"/">>)>>

-----------------------------------------------------------------------------
(* The tests of processes side by side.                                    *)

Openiputtest == <<Must("mkdir", <<"oidir">>), Fork(<<Not("openw", <<"oidir">>)>>), Must("unlink", <<"oidir">>), Wait>>

\* Two children and four names for each, of which the second goes again. What is
\* unlinked at the end is p0, q1, r2 and so on, each as often as there are children.
CreatedeleteNames == <<<<"p0", "p1", "p2", "p3">>, <<"q0", "q1", "q2", "q3">>>>
Createdelete ==
  LET Child(pi) == Loop(4, LAMBDA i :
        Touch("create", <<CreatedeleteNames[pi][i + 1]>>)
          \o IF i > 0 /\ i % 2 = 0 THEN <<Must("unlink", <<CreatedeleteNames[pi][i \div 2 + 1]>>)>> ELSE <<>>)
      Look(pi, i) == IF i = 0 \/ i >= 4 \div 2 THEN Touch("open", <<CreatedeleteNames[pi][i + 1]>>)
                     ELSE <<Not("open", <<CreatedeleteNames[pi][i + 1]>>)>>
      Clean(i) == <<May("unlink", <<CreatedeleteNames[i + 1][i + 1]>>),
                    May("unlink", <<CreatedeleteNames[i + 1][i + 1]>>)>>
  IN  <<Fork(Child(1)), Fork(Child(2)), Wait>>
        \o Loop(4, LAMBDA i : Look(1, i) \o Look(2, i)) \o Loop(2, Clean)

\* The two rounds of file i; README is the other name, and the listing of the
\* directory between them has to show the file.
Concreate(i) ==
  LET c == <<"C">>
      Make(linked) == IF linked THEN <<LinkTo(<<"README">>, c, {"end", "failed"})>> ELSE Touch("create", c)
      Use(opens) == IF opens THEN Try("open", c) \o Try("open", c) ELSE <<May("unlink", c), May("unlink", c)>>
  IN  <<May("unlink", c), Fork(Make(i % 5 = 1))>> \o Make(i % 3 = 1) \o <<Wait>> \o Touch("open", c)
        \o <<Fork(Use(i % 3 = 0))>> \o Use(i % 3 = 1) \o <<Wait>>

\* The test's random numbers may be any; two rounds.
Linkunlink ==
  LET Round(i) == <<OneOf({Try("create", <<"x">>), <<May("unlink", <<"x">>)>>,
                         <<LinkTo(<<"README">>, <<"x">>, {"end", "failed"})>>})>>
  IN  <<May("unlink", <<"x">>), Fork(Loop(2, Round))>> \o Loop(2, Round) \o <<Wait>>

-----------------------------------------------------------------------------

Tests ==
  [ iputtest |-> Iputtest, exitiputtest |-> Exitiputtest, opentest |-> Opentest,
    createtest |-> Createtest, dirtest |-> Dirtest, unlinkread |-> Unlinkread, linktest |-> Linktest,
    bigdir |-> Bigdir, subdir |-> Subdir, fourteen |-> Fourteen, rmdot |-> Rmdot,
    dirfile |-> Dirfile, iref |-> Iref,
    openiputtest |-> Openiputtest, createdelete |-> Createdelete,
    concreate0 |-> Concreate(0), concreate1 |-> Concreate(1), concreate2 |-> Concreate(2),
    concreate4 |-> Concreate(4), concreate6 |-> Concreate(6), concreate11 |-> Concreate(11),
    linkunlink |-> Linkunlink ]

\* The tests whose processes work beside each other; of concreate's files, one for each
\* way in which its conditions on i come out.
Racing == {"openiputtest", "createdelete", "concreate0", "concreate1", "concreate2", "concreate4",
           "concreate6", "concreate11", "linkunlink"}

\* Those in which one process makes a file by a name that another links or unlinks.
Circling == {"concreate4", "concreate6", "concreate11", "linkunlink"}

First == CHOOSE p \in Procs : \A q \in Procs : p <= q

\* README stands for every file that mkfs puts on the disk.
TestInit ==
  /\ test \in Chosen
  /\ todo = [p \in Procs |-> IF p = First THEN Tests[test] ELSE <<>>]
  /\ oops = {}
  /\ disk = [Made EXCEPT ![2] = [Free EXCEPT !.type = "file", !.nlink = 1], ![Root].ent["README"] = 2]
  /\ durable = disk
  /\ icache = [i \in Inums |-> IF i = Root THEN [Blank EXCEPT !.ref = 1] ELSE Blank]
  /\ proc = [p \in Procs |-> Idle(IF p = First THEN Root ELSE 0, 0)]
  /\ panicked = ""

Does(p, op) == proc[p].pc = "user" /\ todo[p] # <<>> /\ Head(todo[p]).op = op
Advance(p) == todo' = [todo EXCEPT ![p] = Tail(@)]

\* A call of Fs begins, or a close() of the file opened last, if there is one.
BeginTest(p) ==
  /\ todo[p] # <<>> /\ Head(todo[p]).op \notin {"any", "fork", "wait", "close", "exit"}
  /\ Begin(p, Head(todo[p])) /\ UNCHANGED <<todo, oops>>

CloseTest(p) ==
  /\ Does(p, "close")
  /\ IF proc[p].files = <<>> THEN Advance(p) /\ UNCHANGED <<vars, oops>>
     ELSE Close(p, Len(proc[p].files)) /\ UNCHANGED <<todo, oops>>

\* A call ends, and the test looks at what it has returned. The one that ends in exit() is
\* gone.
EndTest(p) ==
  /\ End(p) /\ Advance(p)
  /\ oops' = oops \cup (IF proc[p].pc \in Head(todo[p]).ends THEN {} ELSE {Head(todo[p])})

AnyTest(p) ==
  /\ Does(p, "any")
  /\ \E s \in Head(todo[p]).rounds : todo' = [todo EXCEPT ![p] = s \o Tail(@)]
  /\ UNCHANGED <<vars, oops>>

\* fork(): the child works in the same directory.
ForkTest(p) ==
  LET q == Min({r \in Procs : todo[r] = <<>>}) IN
  /\ Does(p, "fork")
  /\ todo' = [todo EXCEPT ![p] = Tail(@), ![q] = Append(Head(todo[p]).child, Exit)]
  /\ icache' = Iget(icache, proc[p].cwd)
  /\ proc' = [proc EXCEPT ![q] = Idle(proc[p].cwd, 0)]
  /\ UNCHANGED <<disk, durable, panicked, oops>>

\* wait(), for every child.
WaitTest(p) ==
  /\ Does(p, "wait") /\ \A q \in Procs \ {p} : todo[q] = <<>>
  /\ Advance(p) /\ UNCHANGED <<vars, oops>>

\* exit() puts the directory, in a transaction.
ExitTest(p) ==
  /\ Does(p, "exit") /\ At(p, "user")
  /\ proc' = [proc EXCEPT ![p] = [@ EXCEPT !.pc = "end", !.cwd = 0, !.put = <<proc[p].cwd>>]]
  /\ UNCHANGED <<disk, durable, icache, panicked, todo, oops>>

Working(p) ==
  \/ Iput(p) \/ Walk(p) \/ Walked(p) \/ Open(p) \/ Chdir(p)
  \/ Create(p) \/ CreateExists(p) \/ CreateNew(p) \/ CreateDone(p)
  \/ Unlink(p) \/ Unlinking(p) \/ Unlinked(p) \/ LetParentGo(p)
  \/ Link(p) \/ LinkEntry(p) \/ LinkBad(p)

TestNext ==
  /\ UNCHANGED test
  /\ \E p \in Procs :
       \/ BeginTest(p) \/ CloseTest(p) \/ EndTest(p) \/ AnyTest(p)
       \/ ForkTest(p) \/ WaitTest(p) \/ ExitTest(p)
       \/ Working(p) /\ UNCHANGED <<todo, oops>>

TestSpec == TestInit /\ [][TestNext]_<<vars, testVars>>

-----------------------------------------------------------------------------

\* The tests pass, whatever the order in which their processes run: no call ends as a
\* test does not want it, nothing panics, and every reference is put. Unless one process
\* makes a name that another links or unlinks, they never wait for each other in a
\* circle; and a process alone leaves no inode behind that has no name.
TestsPass ==
  /\ oops = {} /\ panicked = "" /\ RefsExact
  /\ test \notin Circling => NoLockCycle
  /\ test \notin Racing => LastPutFrees

=============================================================================
