--------------------------------- MODULE Parser ---------------------------------
(***************************************************************************)
(* The parser of the shell, sh.c, over the tokens of gettoken(): a word is *)
(* "a", and ">>" is "+". A function returns the command and the tokens     *)
(* that are left, and passes on the panic of what it calls.                *)
(***************************************************************************)
EXTENDS Integers, Sequences, SequencesExt

CONSTANT MAXARGS

Tokens == {"a", "<", ">", "+", "|", "&", ";", "(", ")"}

Exec(argc)  == [type |-> "EXEC", argc |-> argc]
Redir(c, t) == [type |-> "REDIR", cmd |-> c, fd |-> IF t = "<" THEN 0 ELSE 1]
Pipe(l, r)  == [type |-> "PIPE", left |-> l, right |-> r]
List(l, r)  == [type |-> "LIST", left |-> l, right |-> r]
Back(c)     == [type |-> "BACK", cmd |-> c]

Panic == [type |-> "panic"]
Syntax == [cmd |-> Panic, rest |-> <<>>]
Fails(r) == r.cmd.type = "panic"

Peek(ts, set) == ts # <<>> /\ ts[1] \in set

\* parseredirs(): each redirection goes around what has been read before it.
RECURSIVE Parseredirs(_, _)
Parseredirs(cmd, ts) ==
  IF ~Peek(ts, {"<", ">", "+"}) THEN [cmd |-> cmd, rest |-> ts]
  ELSE IF ~Peek(Tail(ts), {"a"}) THEN Syntax
  ELSE Parseredirs(Redir(cmd, ts[1]), SubSeq(ts, 3, Len(ts)))

\* The words of parseexec(): one more argument in the execcmd inside the redirections.
RECURSIVE WithWord(_), Argc(_)
WithWord(cmd) == IF cmd.type = "EXEC" THEN Exec(cmd.argc + 1) ELSE [cmd EXCEPT !.cmd = WithWord(@)]
Argc(cmd) == IF cmd.type = "EXEC" THEN cmd.argc ELSE Argc(cmd.cmd)

RECURSIVE Words(_)
Words(r) ==
  IF Fails(r) \/ r.rest = <<>> \/ Peek(r.rest, {"|", ")", "&", ";"}) THEN r
  ELSE IF r.rest[1] # "a" \/ Argc(r.cmd) + 1 >= MAXARGS THEN Syntax
  ELSE Words(Parseredirs(WithWord(r.cmd), Tail(r.rest)))

RECURSIVE Parseline(_), Parsepipe(_), Parseblock(_), Backs(_)

Parseexec(ts) == IF Peek(ts, {"("}) THEN Parseblock(ts) ELSE Words(Parseredirs(Exec(0), ts))

Parseblock(ts) ==
  LET r == Parseline(Tail(ts)) IN
  IF Fails(r) \/ ~Peek(r.rest, {")"}) THEN Syntax ELSE Parseredirs(r.cmd, Tail(r.rest))

Parsepipe(ts) ==
  LET l == Parseexec(ts)
      r == Parsepipe(Tail(l.rest))
  IN
  IF Fails(l) \/ ~Peek(l.rest, {"|"}) THEN l
  ELSE IF Fails(r) THEN r ELSE [cmd |-> Pipe(l.cmd, r.cmd), rest |-> r.rest]

Backs(r) == IF ~Peek(r.rest, {"&"}) THEN r ELSE Backs([cmd |-> Back(r.cmd), rest |-> Tail(r.rest)])

Parseline(ts) ==
  LET l == Backs(Parsepipe(ts))
      r == Parseline(Tail(l.rest))
  IN
  IF Fails(l) \/ ~Peek(l.rest, {";"}) THEN l
  ELSE IF Fails(r) THEN r ELSE [cmd |-> List(l.cmd, r.cmd), rest |-> r.rest]

\* parsecmd(): the whole line, or panic.
Parsecmd(ts) == LET r == Parseline(ts) IN IF r.rest # <<>> THEN Panic ELSE r.cmd

-----------------------------------------------------------------------------
(* The grammar the parser is for: the commands a line of tokens stands for.*)

Upto(ts, k) == SubSeq(ts, 1, k)
After(ts, k) == SubSeq(ts, k + 1, Len(ts))

RECURSIVE Lines(_), Pipes(_), Execs(_), Wrapped(_, _), Simple(_)

\* Redirections ts around the commands cs, the first innermost.
Wrapped(cs, ts) ==
  IF ts = <<>> THEN cs
  ELSE IF Len(ts) >= 2 /\ ts[1] \in {"<", ">", "+"} /\ ts[2] = "a"
  THEN Wrapped({Redir(c, ts[1]) : c \in cs}, After(ts, 2)) ELSE {}

\* Words and redirections in any order.
Simple(ts) ==
  LET file(k) == k > 1 /\ ts[k - 1] \in {"<", ">", "+"}
      marked == [k \in 1..Len(ts) |-> IF ts[k] = "a" /\ ~file(k) THEN "word" ELSE ts[k]]
      words == SelectSeq(marked, LAMBDA t : t = "word")
      redirs == SelectSeq(marked, LAMBDA t : t # "word")
  IN  IF Len(words) < MAXARGS THEN Wrapped({Exec(Len(words))}, redirs) ELSE {}

Execs(ts) ==
  Simple(ts) \cup
  UNION {Wrapped(Lines(SubSeq(ts, 2, k - 1)), After(ts, k)) : k \in {k \in 2..Len(ts) : ts[1] = "(" /\ ts[k] = ")"}}

Pipes(ts) ==
  Execs(ts) \cup
  UNION {{Pipe(l, r) : l \in Execs(Upto(ts, k - 1)), r \in Pipes(After(ts, k))} : k \in {k \in 1..Len(ts) : ts[k] = "|"}}

RECURSIVE Backed(_)
Backed(ts) == Pipes(ts) \cup (IF ts # <<>> /\ Last(ts) = "&" THEN {Back(c) : c \in Backed(Front(ts))} ELSE {})

Lines(ts) ==
  Backed(ts) \cup
  UNION {{List(l, r) : l \in Backed(Upto(ts, k - 1)), r \in Lines(After(ts, k))} : k \in {k \in 1..Len(ts) : ts[k] = ";"}}

=============================================================================
