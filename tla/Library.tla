-------------------------------- MODULE Library --------------------------------
(***************************************************************************)
(* What the programs read and print with: gets() of ulib.c, printf() and   *)
(* the kernel's cprintf(), wc.c and the line buffer of grep.c, loop by     *)
(* loop, beside what they are for. A read() may return less than was       *)
(* asked. A character is a string, "nl" the newline.                       *)
(***************************************************************************)
EXTENDS Integers, Sequences, FiniteSets, FiniteSetsExt, SequencesExt

CONSTANTS
  BUFSIZE,   \* of grep's buffer
  Texts,     \* what is read
  Formats    \* what is printed, of "a", "%", "d", "s", "c"

VARIABLE call   \* what was called, with what, and what came out

\* The lines of a text with their newlines; the last may have none.
RECURSIVE LinesOf(_)
LinesOf(text) ==
  LET ends == {k \in DOMAIN text : text[k] = "nl"} IN
  IF ends = {} THEN (IF text = <<>> THEN <<>> ELSE <<text>>)
  ELSE <<SubSeq(text, 1, Min(ends))>> \o LinesOf(SubSeq(text, Min(ends) + 1, Len(text)))

-----------------------------------------------------------------------------
(* gets(), a byte at a time, and the loop of sh.c, which ends at an empty   *)
(* line without a newline.                                                  *)

RECURSIVE Gets(_, _, _), GetsAll(_, _)
Gets(buf, text, max) ==
  IF Len(buf) + 1 >= max \/ text = <<>> THEN buf
  ELSE IF Head(text) = "nl" THEN Append(buf, "nl")
  ELSE Gets(Append(buf, Head(text)), Tail(text), max)

GetsAll(text, max) ==
  LET buf == Gets(<<>>, text, max) IN
  IF buf = <<>> THEN <<>> ELSE <<buf>> \o GetsAll(SubSeq(text, Len(buf) + 1, Len(text)), max)

Reads ==
  \E text \in Texts, max \in 2..4 :
    call' = [op |-> "gets", text |-> text, max |-> max, out |-> GetsAll(text, max)]

\* The lines are what was typed, each cut where it is longer than the buffer, and each
\* fits with its NUL.
ReadsRight ==
  call.op = "gets" =>
    /\ FlattenSeq(call.out) = call.text
    /\ \A k \in DOMAIN call.out :
         LET line == call.out[k] IN
         /\ Len(line) < call.max
         /\ \A i \in 1..Len(line) - 1 : line[i] # "nl"
         /\ Last(line) = "nl" \/ Len(line) = call.max - 1 \/ k = Len(call.out)

-----------------------------------------------------------------------------
(* printf() of printf.c, with its state, and cprintf() of console.c, which  *)
(* looks ahead. What is printed is a character or, by its number, an argument. *)

Arg(p)    == [p EXCEPT !.out = Append(@, [c |-> "arg", n |-> p.used + 1]), !.used = @ + 1]
Put(p, c) == [p EXCEPT !.out = Append(@, [c |-> c, n |-> 0])]

Printf(fmt) ==
  FoldLeft(LAMBDA p, c :
             IF ~p.percent THEN (IF c = "%" THEN [p EXCEPT !.percent = TRUE] ELSE Put(p, c))
             ELSE [(CASE c \in {"d", "s", "c"} -> Arg(p)
                      [] c = "%" -> Put(p, c)
                      [] OTHER -> Put(Put(p, "%"), c)) EXCEPT !.percent = FALSE],
           [out |-> <<>>, used |-> 0, percent |-> FALSE], fmt)

RECURSIVE Cprintf(_, _, _)
Cprintf(p, fmt, i) ==
  IF i > Len(fmt) THEN p
  ELSE IF fmt[i] # "%" THEN Cprintf(Put(p, fmt[i]), fmt, i + 1)
  ELSE IF i + 1 > Len(fmt) THEN p
  ELSE LET c == fmt[i + 1] IN
       Cprintf(CASE c \in {"d", "s"} -> Arg(p)
                 [] c = "%" -> Put(p, c)
                 [] OTHER -> Put(Put(p, "%"), c), fmt, i + 2)

Formatted ==
  \E fmt \in Formats :
    call' = [op |-> "printf", fmt |-> fmt, user |-> Printf(fmt),
             kernel |-> Cprintf([out |-> <<>>, used |-> 0], fmt, 1)]

\* A % opens a directive when those before it in a row are even in number.
Opens(fmt, k) ==
  fmt[k] = "%" /\ \E j \in 1..k : /\ (k - j) % 2 = 0 /\ \A i \in j..k : fmt[i] = "%"
                                  /\ j = 1 \/ fmt[j - 1] # "%"

\* Each directive takes one argument, in their order, and whatever is no directive is
\* printed; the kernel and the library agree. printf.c:38 does not count %c among what
\* printf() understands, which it takes an argument for: nothing is claimed of it.
FormattedRight ==
  call.op = "printf" =>
    LET directives(cs) == {k \in 1..Len(call.fmt) - 1 : Opens(call.fmt, k) /\ call.fmt[k + 1] \in cs}
        numbers(p) == SelectSeq(p.out, LAMBDA x : x.c = "arg")
    IN
    directives({"c"}) = {} =>
      /\ call.user.out = call.kernel.out /\ call.user.used = call.kernel.used
      /\ call.user.used = Cardinality(directives({"d", "s"}))
      /\ numbers(call.user) = [k \in 1..call.user.used |-> [c |-> "arg", n |-> k]]

-----------------------------------------------------------------------------
(* wc(): characters, words and lines.                                       *)

Wc(text) ==
  FoldLeft(LAMBDA w, c :
             LET space == c \in {" ", "nl"} IN
             [c |-> w.c + 1, l |-> w.l + (IF c = "nl" THEN 1 ELSE 0),
              w |-> w.w + (IF ~space /\ ~w.inword THEN 1 ELSE 0), inword |-> ~space],
           [c |-> 0, l |-> 0, w |-> 0, inword |-> FALSE], text)

-----------------------------------------------------------------------------
(* grep() of a pattern that is one "a": buf holds the beginning of a line   *)
(* that has not ended. A read() returns as much as there is room for, or as *)
(* cut says when that is less.                                              *)

Wanted(line) == "a" \in {line[k] : k \in DOMAIN line}
Ended(line)  == Last(line) = "nl"

RECURSIVE Grep(_, _, _)
Grep(buf, text, cut) ==
  LET room == BUFSIZE - Len(buf) - 1
      n == Min({room, Len(text), IF cut = <<>> THEN room ELSE Head(cut)})
      full == buf \o SubSeq(text, 1, n)
      ended == SelectSeq(LinesOf(full), Ended)
      p == Len(FlattenSeq(ended))
      kept == IF p = 0 THEN <<>> ELSE SubSeq(full, p + 1, Len(full))
  IN
  IF n = 0 THEN <<>>
  ELSE SelectSeq(ended, Wanted)
         \o Grep(kept, SubSeq(text, n + 1, Len(text)), IF cut = <<>> THEN <<>> ELSE Tail(cut))

Filters ==
  \E text \in Texts :
    \/ call' = [op |-> "wc", text |-> text, out |-> Wc(text)]
    \/ \E cut \in BoundedSeq(1..3, 3) :
         call' = [op |-> "grep", text |-> text, cut |-> cut, out |-> Grep(<<>>, text, cut)]

\* Of a file, whose reads fill the buffer, grep() prints exactly the lines that match,
\* when each of them fits; and so it does when every read brings the end of a line, as
\* those of the console and of line-wise writers do. A last line without a newline is
\* never printed. Of other reads, it prints nothing but ends of lines that match.
FiltersRight ==
  /\ call.op = "wc" =>
       LET space(k) == call.text[k] \in {" ", "nl"} IN
       /\ call.out.c = Len(call.text)
       /\ call.out.l = Len(SelectSeq(LinesOf(call.text), Ended))
       /\ call.out.w = Cardinality({k \in DOMAIN call.text : ~space(k) /\ (k = 1 \/ space(k - 1))})
  /\ call.op = "grep" =>
       LET lines == LinesOf(call.text)
           due == SelectSeq(SelectSeq(lines, Ended), Wanted)
           until(k) == FoldLeft(LAMBDA a, b : a + b, 0, SubSeq(call.cut, 1, k))
           brings(k) == \E i \in until(k - 1) + 1..Min({until(k), Len(call.text)}) : call.text[i] = "nl"
           fits == \A k \in DOMAIN lines : Len(lines[k]) < BUFSIZE
           linewise == \A k \in DOMAIN call.cut :
                         brings(k) /\ (k > 1 => call.cut[k - 1] + call.cut[k] < BUFSIZE)
       IN
       /\ fits /\ linewise => call.out = due
       /\ \A k \in DOMAIN call.out :
            Wanted(call.out[k]) /\ \E line \in {lines[i] : i \in DOMAIN lines} : IsSuffix(call.out[k], line)

-----------------------------------------------------------------------------

LibraryNext == call.op = "none" /\ (Reads \/ Formatted \/ Filters)

LibraryRight == ReadsRight /\ FormattedRight /\ FiltersRight

=============================================================================
