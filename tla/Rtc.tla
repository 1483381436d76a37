---------------------------------- MODULE Rtc ----------------------------------
(***************************************************************************)
(* Reading the time: cmostime() of lapic.c, register by register, while    *)
(* the clock goes on. The clock says when it changes its registers, and    *)
(* while it does they may hold anything. It changes them once a second; a  *)
(* round of cmostime(), two times six reads, is taken to be shorter.       *)
(***************************************************************************)
EXTENDS Integers, Sequences

CONSTANTS
  Radix,    \* of each register, the lowest first: 60, 60, 24, ...
  MaxTime   \* bound: the clock stops there

Registers == 1..Len(Radix)

VARIABLES
  time,     \* external: the clock's own count
  uip,      \* external: CMOS_UIP, it changes its registers
  pc,       \* where cmostime() is: <<"t1", k>>, <<"uip">>, <<"t2", k>>, <<"done">>
  t1, t2,   \* what it has read
  since,    \* the count when it was called
  still     \* no change has begun in this round

vars == <<time, uip, pc, t1, t2, since, still>>

RECURSIVE Place(_)
Place(k) == IF k = 1 THEN 1 ELSE Place(k - 1) * Radix[k - 1]

\* The registers for a count. They are two digits of four bits each, when bcd is set.
Shown(t) == [k \in Registers |-> (t \div Place(k)) % Radix[k]]

Init ==
  /\ time \in 0..MaxTime /\ uip = FALSE
  /\ pc = <<"t1", 1>> /\ t1 = Shown(0) /\ t2 = Shown(0) /\ since = time /\ still = TRUE

\* The clock changes.
UpdateBegin ==
  /\ ~uip /\ still /\ time < MaxTime
  /\ uip' = TRUE /\ still' = FALSE
  /\ UNCHANGED <<time, pc, t1, t2, since>>

UpdateEnd ==
  /\ uip /\ uip' = FALSE /\ time' = time + 1
  /\ UNCHANGED <<pc, t1, t2, since, still>>

\* cmos_read(): in an update, whatever the register may hold.
Cmos_read(k) == IF uip THEN 0..Radix[k] - 1 ELSE {Shown(time)[k]}

\* fill_rtcdate() of the one, a register at a time, and what comes after it.
Fill1(k) ==
  /\ pc = <<"t1", k>>
  /\ \E x \in Cmos_read(k) : t1' = [t1 EXCEPT ![k] = x]
  /\ pc' = IF k < Len(Radix) THEN <<"t1", k + 1>> ELSE <<"uip">>
  /\ UNCHANGED <<time, uip, t2, since, still>>

Fill2(k) ==
  /\ pc = <<"t2", k>>
  /\ \E x \in Cmos_read(k) : t2' = [t2 EXCEPT ![k] = x]
  /\ pc' = IF k < Len(Radix) THEN <<"t2", k + 1>>
           ELSE IF t1 = t2' THEN <<"done">> ELSE <<"t1", 1>>
  /\ still' = (still \/ (pc' = <<"t1", 1>> /\ ~uip))
  /\ UNCHANGED <<time, uip, t1, since>>

TestUip ==
  /\ pc = <<"uip">> /\ pc' = IF uip THEN <<"t1", 1>> ELSE <<"t2", 1>>
  /\ UNCHANGED <<time, uip, t1, t2, since, still>>

Next ==
  \/ UpdateBegin \/ UpdateEnd \/ TestUip
  \/ \E k \in Registers : Fill1(k) \/ Fill2(k)

Spec == Init /\ [][Next]_vars

-----------------------------------------------------------------------------

\* The time cmostime() returns is one the clock has shown since it was called, whatever
\* registers change between its reads.
TimeTrue == pc = <<"done">> => \E t \in since..time : t1 = Shown(t)

=============================================================================
