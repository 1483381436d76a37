-------------------------------- MODULE Umalloc --------------------------------
(***************************************************************************)
(* malloc() and free() of umalloc.c: the free blocks in a circular list by *)
(* address, through headers that lie in the memory it hands out.           *)
(*                                                                         *)
(* Memory is counted in units of a header. A program has one thread, so    *)
(* that a call is one step, but for malloc() when it calls sbrk().         *)
(***************************************************************************)
EXTENDS Integers, FiniteSets, FiniteSetsExt

CONSTANTS
  HEAP,         \* units sbrk() can reach
  NALLOC,       \* units morecore() asks for at least (4096)
  Requests      \* units, the header included, a program asks for

Base == 0       \* the address of base, below the heap
Units == 1..HEAP

\* A header that nobody will read; what is in it does not matter.
Blank == [ptr |-> Base, size |-> 0]

VARIABLES
  s,            \* [ptr, size] of the header at each address
  freep,        \* the list's head; -1 before the first malloc()
  brk,          \* the first unit the program does not have
  wanted,       \* what malloc() is to go on with after morecore(), or 0
  used,         \* the size of each block the program has, by address
  own           \* units it has got from sbrk() itself

vars == <<s, freep, brk, wanted, used, own>>

Init ==
  /\ s = [a \in {Base} \cup Units |-> Blank]
  /\ freep = -1 /\ brk = 1 /\ wanted = 0
  /\ used = [a \in {} |-> 0] /\ own = 0

\* The list from freep on, as far as it can be long.
Walk == LET walk[k \in 0..HEAP + 1] == IF k = 0 THEN freep ELSE s[walk[k - 1]].ptr IN walk

-----------------------------------------------------------------------------

\* free() of the block at bp, of the given size: p is the block after which it belongs,
\* through the wrap at the ends; it is merged with the block above and the one below.
Free(bp, size) ==
  LET after(p) == LET next == s[p].ptr IN
                  \/ bp > p /\ bp < next
                  \/ p >= next /\ (bp > p \/ bp < next)
      p == Walk[Min({k \in DOMAIN Walk : after(Walk[k])})]
      next == s[p].ptr
      upper == IF bp + size = next THEN [ptr |-> s[next].ptr, size |-> size + s[next].size]
               ELSE [ptr |-> next, size |-> size]
      below == IF bp + size = next THEN [s EXCEPT ![next] = Blank] ELSE s
  IN
  /\ s' = IF p + s[p].size = bp
          THEN [below EXCEPT ![bp] = Blank, ![p] = [ptr |-> upper.ptr, size |-> s[p].size + upper.size]]
          ELSE [below EXCEPT ![bp] = upper, ![p].ptr = bp]
  /\ freep' = p

Fits(n) == {k \in 1..HEAP + 1 : s[Walk[k]].size >= n}

\* Mutant: the header of the part taken is left as it was.
TakeUnsized(n) ==
  LET k == Min(Fits(n))
      p == Walk[k]
      rest == s[p].size - n
      got == p + rest
  IN
  /\ Fits(n) # {}
  /\ s' = IF rest = 0 THEN [s EXCEPT ![Walk[k - 1]].ptr = s[p].ptr]
          ELSE [s EXCEPT ![p].size = rest]
  /\ used' = [a \in DOMAIN used \cup {got} |-> IF a = got THEN n ELSE used[a]]
  /\ freep' = Walk[k - 1] /\ wanted' = 0
  /\ UNCHANGED <<brk, own>>

\* malloc() takes the first block that is large enough, or the upper part of it.
Take(n) ==
  LET k == Min(Fits(n))
      p == Walk[k]
      rest == s[p].size - n
      got == p + rest
  IN
  /\ Fits(n) # {}
  /\ s' = IF rest = 0 THEN [s EXCEPT ![Walk[k - 1]].ptr = s[p].ptr, ![p].ptr = Base]
          ELSE [s EXCEPT ![p].size = rest, ![got].size = n]
  /\ used' = [a \in DOMAIN used \cup {got} |-> IF a = got THEN n ELSE used[a]]
  /\ freep' = Walk[k - 1] /\ wanted' = 0
  /\ UNCHANGED <<brk, own>>

\* The first call makes the list of base alone.
First == freep = -1 /\ freep' = Base /\ UNCHANGED <<s, brk, wanted, used, own>>

Malloc(n) == freep # -1 /\ wanted = 0 /\ Take(n)

\* morecore(), when nothing is large enough; without memory malloc() returns 0.
Morecore(n) ==
  LET nu == Max({n, NALLOC}) IN
  /\ freep # -1 /\ wanted = 0 /\ Fits(n) = {}
  /\ brk + nu <= HEAP + 1
  /\ Free(brk, nu)
  /\ brk' = brk + nu /\ wanted' = n
  /\ UNCHANGED <<used, own>>

Resume == wanted # 0 /\ Take(wanted)

\* free() of a block the program has; its size is in its header.
Release(a) ==
  /\ wanted = 0 /\ a \in DOMAIN used
  /\ Free(a, s[a].size)
  /\ used' = [b \in DOMAIN used \ {a} |-> used[b]]
  /\ UNCHANGED <<brk, wanted, own>>

\* The program calls sbrk() itself, and keeps what it gets.
Sbrk ==
  /\ wanted = 0 /\ brk <= HEAP
  /\ brk' = brk + 1 /\ own' = own + 1
  /\ UNCHANGED <<s, freep, wanted, used>>

Next ==
  \/ First \/ Resume \/ Sbrk
  \/ \E n \in Requests : Malloc(n) \/ Morecore(n)
  \/ \E a \in Units : Release(a)

Spec == Init /\ [][Next]_vars

-----------------------------------------------------------------------------

Span(a, n) == a..a + n - 1

\* The list leads through free blocks back to its head, by address but for one wrap; the
\* free blocks and those of the program are apart and together all there is, and no two
\* free ones are neighbours: no memory is lost or handed out twice, wherever in the
\* circle free() starts to look, and all of it can be handed out again.
HeapSound ==
  LET list == {Walk[k] : k \in DOMAIN Walk}
      free == list \ {Base}
  IN
  freep # -1 =>
    /\ Base \in list
    /\ Cardinality({a \in list : s[a].ptr <= a}) = 1
    /\ \A a, b \in free : a # b => /\ Span(a, s[a].size) \cap Span(b, s[b].size) = {}
                                   /\ a + s[a].size # b
    /\ \A a \in DOMAIN used :
         /\ s[a].size = used[a]
         /\ \A b \in free : Span(a, used[a]) \cap Span(b, s[b].size) = {}
         /\ \A b \in DOMAIN used \ {a} : Span(a, used[a]) \cap Span(b, used[b]) = {}
    /\ MapThenSumSet(LAMBDA a : s[a].size, free) + MapThenSumSet(LAMBDA a : used[a], DOMAIN used)
         = brk - 1 - own

=============================================================================
