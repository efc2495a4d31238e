-------------------------------- MODULE Term --------------------------------
(***************************************************************************)
(* The terminal of term.c, used by one party: a flat array of cells that   *)
(* term_putchar writes at ypos * width + xpos and term_scroll shifts by    *)
(* one row with mem_cpy. (Two parties at once: module Console.)            *)
(*                                                                         *)
(* The array has one row more than the screen: term_scroll copies          *)
(* width * height cells starting one row down, so it reads that row, which *)
(* term_clear does not clear.                                              *)
(***************************************************************************)
EXTENDS TermCursor, Sequences

CONSTANTS Glyphs, Colors, Blank

VARIABLES buffer, xpos, ypos, color,
          below     \* history: what lies under the screen when term_init runs

vars == <<buffer, xpos, ypos, color, below>>

Cells  == 0 .. width * (height + 1) - 1
Screen == 0 .. width * height - 1
Cell   == (Glyphs \cup {Blank}) \X Colors
Index(p) == p.y * width + p.x

TypeOK ==
  /\ buffer \in [Cells -> Cell]
  /\ xpos \in 0 .. width - 1
  /\ ypos \in 0 .. height - 1
  /\ color \in Colors
  /\ below \in Cell

make_vgaentry(ch) == <<ch, color>>

\* term_init and the term_clear it ends with.
Init ==
  /\ color \in Colors
  /\ below \in Cell
  /\ buffer = [k \in Cells |-> IF k \in Screen THEN <<Blank, color>> ELSE below]
  /\ xpos = 0 /\ ypos = 0

\* Mutant: one row too few is copied.
ScrollShort(buf) ==
  [k \in Cells |-> IF k \in 0 .. width * (height - 1) - 1 THEN buf[k + width] ELSE buf[k]]

\* term_scroll: mem_cpy(buffer, buffer + width, width * height * 2).
term_scroll(buf) == [k \in Cells |-> IF k \in Screen THEN buf[k + width] ELSE buf[k]]

term_putentryat(buf, ch, p) == [buf EXCEPT ![Index(p)] = make_vgaentry(ch)]

term_putchar(ch) ==
  LET p      == [x |-> xpos, y |-> ypos]
      moved  == Move(p, ch)
      wiped  == IF ch = BS /\ xpos > 0 THEN term_putentryat(buffer, Blank, moved) ELSE buffer
      onPage == IF NeedsScroll(Wrap(moved)) THEN term_scroll(wiped) ELSE wiped
      target == Target(p, ch)
      after  == PutcharPos(p, ch)
  IN  /\ buffer' = IF Ordinary(ch) THEN term_putentryat(onPage, ch, target) ELSE onPage
      /\ xpos' = after.x
      /\ ypos' = after.y
      /\ UNCHANGED <<color, below>>

term_setcolor(col) ==
  /\ color' = col
  /\ UNCHANGED <<buffer, xpos, ypos, below>>

Next == \/ \E ch \in Glyphs \cup {Blank, NL, BS} : term_putchar(ch)
        \/ \E col \in Colors : term_setcolor(col)

Spec == Init /\ [][Next]_vars

-----------------------------------------------------------------------------
(* Properties.                                                             *)

\* The flat array, its index arithmetic, the lazy wrap and the scrolling by
\* mem_cpy implement a page of rows: nothing is written to a wrong row, a
\* scroll shifts the text by exactly one row, and the row that comes in is
\* always the one found below the screen at boot.
OnPage == INSTANCE Page WITH
  Glyphs <- Glyphs \cup {Blank},
  rows   <- [r \in 1 .. height |-> [k \in 1 .. width |-> buffer[(r - 1) * width + (k - 1)]]],
  at     <- [x |-> xpos, y |-> ypos],
  below  <- [k \in 1 .. width |-> below]

ShowsPage == OnPage!Spec
=============================================================================
