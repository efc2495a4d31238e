----------------------------- MODULE TermCursor -----------------------------
(***************************************************************************)
(* What term_putchar (term.c) does to the cursor of a terminal, phase by   *)
(* phase. A position is a record [x, y] of xpos and ypos. Characters are   *)
(* abstracted to '\n', '\b' and everything else.                           *)
(***************************************************************************)
EXTENDS Integers

CONSTANTS width, height

\* term_init is only called for an 80 by 25 screen.
ASSUME ScreenAssumption == /\ width \in Nat /\ width >= 2
                           /\ height \in Nat /\ height >= 2

NL == "\\n"
BS == "\\b"
Ordinary(c) == c # NL /\ c # BS

\* '\n' goes to the start of the next line, '\b' one column back.
Move(p, c) ==
  CASE c = NL -> [x |-> 0, y |-> p.y + 1]
    [] c = BS /\ p.x > 0 -> [p EXCEPT !.x = p.x - 1]
    [] OTHER -> p

\* Mutant: only a cursor beyond the last column wraps.
WrapLate(p) == IF p.x >= width THEN [x |-> 0, y |-> p.y + 1] ELSE p

\* "Do I need to wrap?"
Wrap(p) == IF p.x + 1 >= width THEN [x |-> 0, y |-> p.y + 1] ELSE p

NeedsScroll(p) == p.y >= height

\* Mutant: the row is not pushed back after scrolling.
PushBackNever(p) == p

\* "Push back y pos", once, if the screen scrolled.
PushBack(p) == IF NeedsScroll(p) THEN [p EXCEPT !.y = p.y - 1] ELSE p

\* Where an ordinary character goes.
Target(p, c) == PushBack(Wrap(Move(p, c)))

\* An ordinary character leaves the cursor one column further.
Advance(p, c) == IF Ordinary(c) /\ p.x < width THEN [p EXCEPT !.x = p.x + 1] ELSE p

\* The whole of term_putchar.
PutcharPos(p, c) == Advance(Target(p, c), c)
=============================================================================
