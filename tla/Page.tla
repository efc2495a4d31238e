-------------------------------- MODULE Page --------------------------------
(***************************************************************************)
(* What a terminal promises: a page of rows that shows the text written so *)
(* far. A character goes to the cursor, or to the start of the next row    *)
(* when the cursor is in the last column (which stays empty); '\b' wipes   *)
(* the character before the cursor within a row; a row below the last one  *)
(* pushes the page up.                                                     *)
(***************************************************************************)
EXTENDS Integers, Sequences

CONSTANTS width, height,
          Glyphs,     \* printable characters
          Colors,
          Blank       \* the space

VARIABLES rows,    \* the page: a sequence of rows, each a sequence of cells
          at,      \* cursor [x, y], counted from 0
          color,   \* of the text written next
          below    \* the row that scrolls in at the bottom

vars == <<rows, at, color, below>>

RowOf(cell) == [k \in 1 .. width |-> cell]
Set(page, x, y, ch) == [page EXCEPT ![y + 1][x + 1] = <<ch, color>>]

Init ==
  /\ color \in Colors
  /\ rows = [r \in 1 .. height |-> RowOf(<<Blank, color>>)]
  /\ at = [x |-> 0, y |-> 0]
  /\ \E ch \in Glyphs \cup {Blank}, col \in Colors : below = RowOf(<<ch, col>>)

\* The page and the row of the cursor once it has moved down.
NextRow  == IF at.y + 1 = height THEN at.y ELSE at.y + 1
PageDown == IF at.y + 1 = height THEN Append(Tail(rows), below) ELSE rows

NewLine ==
  /\ rows' = PageDown
  /\ at' = [x |-> 0, y |-> NextRow]
  /\ UNCHANGED <<color, below>>

Type(ch) ==
  /\ IF at.x = width - 1
       THEN /\ rows' = Set(PageDown, 0, NextRow, ch)
            /\ at' = [x |-> 1, y |-> NextRow]
       ELSE /\ rows' = Set(rows, at.x, at.y, ch)
            /\ at' = [at EXCEPT !.x = at.x + 1]
  /\ UNCHANGED <<color, below>>

Erase ==
  /\ at.x > 0
  /\ rows' = Set(rows, at.x - 1, at.y, Blank)
  /\ at' = [at EXCEPT !.x = at.x - 1]
  /\ UNCHANGED <<color, below>>

SetColor ==
  /\ color' \in Colors
  /\ UNCHANGED <<rows, at, below>>

Next == NewLine \/ Erase \/ SetColor \/ \E ch \in Glyphs : Type(ch)

Spec == Init /\ [][Next]_vars
=============================================================================
