------------------------------ MODULE Console ------------------------------
(***************************************************************************)
(* term_putchar (term.c) called by two parties at once: cmain prints with  *)
(* interrupts enabled, and keyboard_handler (keybd.c) echoes each key into *)
(* the same terminal. xpos, ypos and the VGA index register are shared and *)
(* nothing protects them.                                                  *)
(*                                                                         *)
(* The handler is atomic (interrupt gate). cmain's call is cut at every    *)
(* load and store of shared memory, with the registers the shipped         *)
(* d3.kernel keeps: rx and ry hold the xpos and ypos of the last load, the *)
(* scroll test uses ry, ypos is loaded again after the scroll and xpos     *)
(* again before the character is put.                                      *)
(***************************************************************************)
EXTENDS TermCursor, Sequences

CONSTANTS
  ByteSize,   \* 256: update_cursor sends its position as two bytes
  Burst       \* bound: keys echoed during one term_putchar of cmain
ASSUME ByteAssumption  == ByteSize \in Nat \ {0}
\* Two bytes are enough for a position.
ASSUME FitAssumption   == width * height < ByteSize * ByteSize
ASSUME BurstAssumption == Burst \in Nat

VARIABLES
  xpos, ypos,          \* the cursor in the terminal's record
  wrote,               \* position of the last cell written by term_putentryat
  scrolled,            \* has the screen ever scrolled?
  crtc,                \* VGA index register: which half of the cursor is selected
  cursor,              \* the VGA cursor registers, [lo, hi]
  pc, c, rx, ry,       \* cmain: next step, character, registers
  echoes               \* how many echoes interrupted cmain's latest call

shared == <<xpos, ypos, wrote, scrolled, crtc, cursor>>
vars   == <<shared, pc, c, rx, ry, echoes>>

Chars == {NL, BS, "ch"}

PC == {"idle", "ldX", "ldY", "nlX", "nlY", "bsX", "bsPut", "wrapX", "wrapY",
       "scroll", "reY", "stY", "reX", "put", "inc", "cur1", "cur2", "cur3", "cur4"}

TypeOK ==
  /\ xpos \in Nat
  /\ ypos \in Nat
  /\ wrote \in [x : Nat, y : Nat]
  /\ scrolled \in BOOLEAN
  /\ crtc \in {"lo", "hi"}
  /\ cursor \in [lo : 0 .. ByteSize - 1, hi : 0 .. ByteSize - 1]
  /\ pc \in PC
  /\ c \in Chars
  /\ rx \in Nat
  /\ ry \in Nat
  /\ echoes \in Nat

Init ==
  /\ xpos = 0 /\ ypos = 0
  /\ wrote = [x |-> 0, y |-> 0]
  /\ scrolled = FALSE
  /\ crtc = "lo" /\ cursor = [lo |-> 0, hi |-> 0]
  /\ pc = "idle" /\ c = NL /\ rx = 0 /\ ry = 0
  /\ echoes = 0

\* The 16-bit cursor position of update_cursor, split into two bytes.
Low(p)  == (p.y * width + p.x) % ByteSize
High(p) == ((p.y * width + p.x) \div ByteSize) % ByteSize

-----------------------------------------------------------------------------
(* keyboard_handler's echo: the whole of term_putchar, not interruptible.  *)

\* The cells a call writes: a blank for '\b', the character otherwise.
Written(p, ch) ==
  CASE Ordinary(ch) -> {Target(p, ch)}
    [] ch = BS /\ p.x > 0 -> {Move(p, ch)}
    [] OTHER -> {}

Echo(ch) ==
  LET p == [x |-> xpos, y |-> ypos]
      q == PutcharPos(p, ch)
  IN  /\ pc # "idle" => echoes < Burst
      /\ xpos' = q.x /\ ypos' = q.y
      /\ IF Written(p, ch) = {} THEN wrote' = wrote ELSE wrote' \in Written(p, ch)
      /\ scrolled' = (scrolled \/ NeedsScroll(Wrap(Move(p, ch))))
      /\ crtc' = "hi" /\ cursor' = [lo |-> Low(q), hi |-> High(q)]
      /\ echoes' = IF pc = "idle" THEN 0 ELSE echoes + 1
      /\ UNCHANGED <<pc, c, rx, ry>>

-----------------------------------------------------------------------------
(* cmain's term_putchar, one access to shared memory per step.             *)

\* After the '\n' and '\b' cases: wrap, scroll or go on, decided in registers.
Fit(y)       == IF y >= height THEN "scroll" ELSE "reX"
Resume(x, y) == IF x + 1 >= width THEN "wrapX" ELSE Fit(y)

Call(ch) ==
  /\ pc = "idle"
  /\ c' = ch /\ echoes' = 0
  /\ pc' = IF ch = NL THEN "ldY" ELSE "ldX"
  /\ UNCHANGED <<shared, rx, ry>>

LoadX ==
  /\ pc = "ldX" /\ pc' = "ldY"
  /\ rx' = xpos
  /\ UNCHANGED <<shared, c, ry, echoes>>

\* Mutant: '\b' in the first column is not left alone.
LoadYUnguarded ==
  /\ pc = "ldY"
  /\ ry' = ypos
  /\ pc' = CASE c = NL -> "nlX" [] c = BS -> "bsX" [] OTHER -> Resume(rx, ypos)
  /\ UNCHANGED <<shared, c, rx, echoes>>

LoadY ==
  /\ pc = "ldY"
  /\ ry' = ypos
  /\ pc' = CASE c = NL -> "nlX"
             [] c = BS /\ rx > 0 -> "bsX"
             [] OTHER -> Resume(rx, ypos)
  /\ UNCHANGED <<shared, c, rx, echoes>>

NewlineX ==
  /\ pc = "nlX" /\ pc' = "nlY"
  /\ xpos' = 0 /\ rx' = 0
  /\ UNCHANGED <<ypos, wrote, scrolled, crtc, cursor, c, ry, echoes>>

NewlineY ==
  /\ pc = "nlY" /\ pc' = Resume(rx, ry + 1)
  /\ ypos' = ry + 1 /\ ry' = ry + 1
  /\ UNCHANGED <<xpos, wrote, scrolled, crtc, cursor, c, rx, echoes>>

BackX ==
  /\ pc = "bsX" /\ pc' = "bsPut"
  /\ xpos' = rx - 1 /\ rx' = rx - 1
  /\ UNCHANGED <<ypos, wrote, scrolled, crtc, cursor, c, ry, echoes>>

BackPut ==
  /\ pc = "bsPut" /\ pc' = Resume(rx, ry)
  /\ wrote' = [x |-> rx, y |-> ry]
  /\ UNCHANGED <<xpos, ypos, scrolled, crtc, cursor, c, rx, ry, echoes>>

WrapX ==
  /\ pc = "wrapX" /\ pc' = "wrapY"
  /\ xpos' = 0 /\ rx' = 0
  /\ UNCHANGED <<ypos, wrote, scrolled, crtc, cursor, c, ry, echoes>>

WrapY ==
  /\ pc = "wrapY" /\ pc' = Fit(ry + 1)
  /\ ypos' = ry + 1 /\ ry' = ry + 1
  /\ UNCHANGED <<xpos, wrote, scrolled, crtc, cursor, c, rx, echoes>>

\* term_scroll (what it does to the cells is Term's subject).
ScrollUp ==
  /\ pc = "scroll" /\ pc' = "reY"
  /\ scrolled' = TRUE
  /\ UNCHANGED <<xpos, ypos, wrote, crtc, cursor, c, rx, ry, echoes>>

\* Another party may have moved the cursor since.
ReloadY ==
  /\ pc = "reY" /\ pc' = "stY"
  /\ ry' = ypos
  /\ UNCHANGED <<shared, c, rx, echoes>>

\* Mutant: two lines back.
StoreYTwice ==
  /\ pc = "stY" /\ pc' = "reX"
  /\ ypos' = ry - 2 /\ ry' = ry - 2
  /\ UNCHANGED <<xpos, wrote, scrolled, crtc, cursor, c, rx, echoes>>

StoreY ==
  /\ pc = "stY" /\ pc' = "reX"
  /\ ypos' = ry - 1 /\ ry' = ry - 1
  /\ UNCHANGED <<xpos, wrote, scrolled, crtc, cursor, c, rx, echoes>>

ReloadX ==
  /\ pc = "reX"
  /\ rx' = xpos
  /\ pc' = IF Ordinary(c) THEN "put" ELSE "cur1"
  /\ UNCHANGED <<shared, c, ry, echoes>>

PutEntry ==
  /\ pc = "put"
  /\ wrote' = [x |-> rx, y |-> ry]
  /\ pc' = IF rx < width THEN "inc" ELSE "cur1"
  /\ UNCHANGED <<xpos, ypos, scrolled, crtc, cursor, c, rx, ry, echoes>>

StepRight ==
  /\ pc = "inc" /\ pc' = "cur1"
  /\ xpos' = rx + 1 /\ rx' = rx + 1
  /\ UNCHANGED <<ypos, wrote, scrolled, crtc, cursor, c, ry, echoes>>

\* update_cursor: select the low byte, send it, select the high byte, send it.
SelectLow ==
  /\ pc = "cur1" /\ pc' = "cur2"
  /\ crtc' = "lo"
  /\ UNCHANGED <<xpos, ypos, wrote, scrolled, cursor, c, rx, ry, echoes>>

SendLow ==
  /\ pc = "cur2" /\ pc' = "cur3"
  /\ cursor' = [cursor EXCEPT ![crtc] = Low([x |-> rx, y |-> ry])]
  /\ UNCHANGED <<xpos, ypos, wrote, scrolled, crtc, c, rx, ry, echoes>>

SelectHigh ==
  /\ pc = "cur3" /\ pc' = "cur4"
  /\ crtc' = "hi"
  /\ UNCHANGED <<xpos, ypos, wrote, scrolled, cursor, c, rx, ry, echoes>>

\* Mutant: the second byte of the position is the first one again.
SendLowTwice ==
  /\ pc = "cur4" /\ pc' = "idle"
  /\ cursor' = [cursor EXCEPT ![crtc] = Low([x |-> rx, y |-> ry])]
  /\ UNCHANGED <<xpos, ypos, wrote, scrolled, crtc, c, rx, ry, echoes>>

SendHigh ==
  /\ pc = "cur4" /\ pc' = "idle"
  /\ cursor' = [cursor EXCEPT ![crtc] = High([x |-> rx, y |-> ry])]
  /\ UNCHANGED <<xpos, ypos, wrote, scrolled, crtc, c, rx, ry, echoes>>

update_cursor == SelectLow \/ SendLow \/ SelectHigh \/ SendHigh

term_putchar ==
  \/ \E ch \in Chars : Call(ch)
  \/ LoadX \/ LoadY \/ NewlineX \/ NewlineY \/ BackX \/ BackPut
  \/ WrapX \/ WrapY \/ ScrollUp \/ ReloadY \/ StoreY
  \/ ReloadX \/ PutEntry \/ StepRight \/ update_cursor

Next == term_putchar \/ \E ch \in Chars : Echo(ch)

Spec == Init /\ [][Next]_vars

-----------------------------------------------------------------------------
(* Properties.                                                             *)

\* No interleaving of a printing cmain with echoed keys lets term_putentryat
\* write outside the screen's rows and columns by more than the one row
\* below the screen (which a racing '\b' can hit), nor lets the cursor leave
\* that area: the unprotected updates of xpos and ypos do not add up.
WritesContained == /\ wrote.x < width /\ wrote.y <= height
                   /\ xpos <= width /\ ypos <= height

\* Whatever happened during it, a finished call leaves the row on screen.
RowOnScreen == pc = "idle" => ypos < height

\* Lost updates and doubled scrolls move the prompt up by one row at most
\* (a burst of more than three echoed newlines inside one call can cost more):
\* once the screen has scrolled, the cursor stays in its last rows.
LowestRow     == height - (IF Burst <= 3 THEN 2 ELSE Burst - 1)
NoUpwardDrift == scrolled => ypos >= LowestRow

\* The hardware cursor is where the terminal thinks it is after every call
\* of cmain that no echo interrupted, and after every echo between calls: a
\* cursor torn by a race is repaired by the next call.
CursorShown ==
  (pc = "idle" /\ echoes = 0) =>
    cursor.hi * ByteSize + cursor.lo = ypos * width + xpos
=============================================================================
