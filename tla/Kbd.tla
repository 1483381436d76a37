---------------------------------- MODULE Kbd ----------------------------------
(***************************************************************************)
(* The keyboard: kbd.c, and beside it a keyboard that is typed on, which   *)
(* sends one or two bytes for a key that goes down, does so again while it *)
(* is held, and for one that comes up. The interrupt takes the bytes later *)
(* than they are sent, one by one.                                         *)
(***************************************************************************)
EXTENDS Integers, Sequences, FiniteSets, TLC

CONSTANTS
  Keys,      \* [code, e0]: the scan code, and whether 0xE0 comes before it
  MaxBytes   \* bound: the bytes the keyboard has sent and nobody has read

VARIABLES
  shift,     \* kbd.c: the set of its bits that are on
  port,      \* the bytes not yet read
  got,       \* what kbdgetc() has returned last
  held,      \* the keys that are down
  lost,      \* the modifiers of which one key has come up while another is down
  locked,    \* the lock keys that have gone down an odd number of times
  due        \* what kbdgetc() should return for each byte in port, and for the last

vars == <<shift, port, got, held, lost, locked, due>>

Modifiers == {"SHIFT", "CTL", "ALT"}

-----------------------------------------------------------------------------
(* kbd.h, for the keys of these numbers; 128 and more are those with 0xE0. *)

shiftcode(data) ==
  CASE data \in {29, 157} -> {"CTL"} [] data \in {42, 54} -> {"SHIFT"}
    [] data \in {56, 184} -> {"ALT"} [] OTHER -> {}

togglecode(data) ==
  CASE data = 58 -> {"CAPSLOCK"} [] data = 69 -> {"NUMLOCK"} [] data = 70 -> {"SCROLLLOCK"}
    [] OTHER -> {}

\* 30 is the key A, 53 that of / and ?, 181 the / of the keypad, 200 the arrow up.
normalmap == (30 :> "a") @@ (53 :> "/") @@ (181 :> "/") @@ (200 :> "up")
shiftmap  == (30 :> "A") @@ (53 :> "?") @@ (181 :> "/") @@ (200 :> "up")
ctlmap    == (30 :> "^A") @@ (53 :> "^/") @@ (181 :> "^/") @@ (200 :> "up")

charcode(bits, data) ==
  LET map == IF "CTL" \in bits THEN ctlmap ELSE IF "SHIFT" \in bits THEN shiftmap ELSE normalmap
  IN  IF data \in DOMAIN map THEN map[data] ELSE "NO"

Swapped(c) == CASE c = "a" -> "A" [] c = "A" -> "a" [] OTHER -> c

-----------------------------------------------------------------------------

Init ==
  /\ shift = {} /\ port = <<>> /\ got = "none"
  /\ held = {} /\ lost = {} /\ locked = {} /\ due = <<"none">>

\* The bytes of key k: those of a release have the top bit.
Scan(k, up) == (IF k.e0 THEN <<224>> ELSE <<>>) \o <<k.code + (IF up THEN 128 ELSE 0)>>

\* What the key means: NO for a modifier, and else what is written on it.
Data(k) == k.code + (IF k.e0 THEN 128 ELSE 0)
KeysOf(m) == {k \in Keys : m \in shiftcode(Data(k))}

\* What kbdgetc() is to return for bytes of which the last is of key k.
Send(bytes, c) ==
  /\ Len(port) + Len(bytes) <= MaxBytes
  /\ port' = port \o bytes
  /\ due' = due \o [i \in 1..Len(bytes) |-> IF i < Len(bytes) THEN "NO" ELSE c]

KeyDown(k) ==
  LET mods == {m \in Modifiers : KeysOf(m) \cap held' # {} /\ m \notin lost'}
      c == charcode(mods, Data(k))
  IN
  /\ held' = held \cup {k}
  /\ lost' = lost \ shiftcode(Data(k))
  /\ locked' = (locked \ togglecode(Data(k))) \cup (togglecode(Data(k)) \ locked)
  /\ Send(Scan(k, FALSE), IF "CAPSLOCK" \in locked' THEN Swapped(c) ELSE c)
  /\ UNCHANGED <<shift, got>>

\* The driver has one bit for both keys of a modifier: it is off when one comes up.
KeyUp(k) ==
  /\ k \in held /\ held' = held \ {k}
  /\ lost' = {m \in lost \cup shiftcode(Data(k)) : KeysOf(m) \cap held' # {}}
  /\ Send(Scan(k, TRUE), "NO")
  /\ UNCHANGED <<shift, got, locked>>

-----------------------------------------------------------------------------

\* kbdgetc(), when there is a byte.
Kbdgetc ==
  LET byte == Head(port)
      escaped == "E0ESC" \in shift
      data == IF byte >= 128 THEN (IF escaped THEN byte ELSE byte - 128)
              ELSE byte + (IF escaped THEN 128 ELSE 0)
      down == (shift \ {"E0ESC"}) \cup shiftcode(data)
      bits == (down \ togglecode(data)) \cup (togglecode(data) \ down)
      c == charcode(bits, data)
  IN
  /\ port # <<>>
  /\ port' = Tail(port) /\ due' = Tail(due)
  /\ \/ byte = 224 /\ shift' = shift \cup {"E0ESC"} /\ got' = "NO"
     \/ byte >= 128 /\ byte # 224 /\ shift' = shift \ (shiftcode(data) \cup {"E0ESC"}) /\ got' = "NO"
     \/ byte < 128 /\ shift' = bits /\ got' = IF "CAPSLOCK" \in bits THEN Swapped(c) ELSE c
  /\ UNCHANGED <<held, lost, locked>>

Next == Kbdgetc \/ \E k \in Keys : KeyDown(k) \/ KeyUp(k)

Spec == Init /\ [][Next]_vars

-----------------------------------------------------------------------------

\* However late the bytes are read, and whatever goes down and comes up between, each
\* key gives the character it stands for with the modifiers that were down when it went
\* down, and no modifier and no half of a code is left when all keys are up. A modifier
\* of which two keys are down is over when the first comes up.
KeysRight ==
  /\ got = Head(due)
  /\ port = <<>> =>
       /\ shift \cap Modifiers = {m \in Modifiers : KeysOf(m) \cap held # {}} \ lost
       /\ shift \ Modifiers = locked

=============================================================================
