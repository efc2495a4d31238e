--------------------------- MODULE ConsoleProofs ---------------------------
(***************************************************************************)
(* Proofs about Console: for every screen size and every burst of keys,    *)
(* the unprotected cursor stays within one row of the screen.              *)
(***************************************************************************)
EXTENDS Console, TLAPS

\* cmain holds a ypos in ry and has not stored ry + 1 yet.
Holding == pc \in {"nlX", "nlY", "bsX", "bsPut", "wrapX", "wrapY"}

\* cmain is about to scroll, or has scrolled and not pushed ypos back yet.
Scrolling == pc \in {"scroll", "reY", "stY"}

\* cmain's row is final for this call.
Settled == pc \in {"reX", "put", "inc", "cur1", "cur2", "cur3", "cur4"}

ColumnInv ==
  /\ xpos <= width /\ rx <= width
  /\ xpos = width => \/ pc \in {"idle", "ldX", "cur1", "cur2", "cur3", "cur4"}
                     \/ pc \in {"ldY", "nlX"} /\ c = NL
                     \/ pc \in {"ldY", "bsX", "wrapX"} /\ rx = width
  /\ pc \in {"put", "inc", "bsPut"} => rx < width
  /\ pc = "bsX" => rx >= 1
  /\ pc = "nlY" => rx = 0
  /\ pc \in {"nlX", "nlY"} => c = NL
  /\ wrote.x < width

RowInv ==
  /\ ypos <= height
  /\ ypos = height => Scrolling
  /\ Holding \/ Settled => ry < height
  /\ pc \in {"scroll", "reY"} => ypos >= height - 1
  /\ pc = "stY" => ry >= height - 1 /\ ry <= height
  /\ wrote.y <= height

\* An echo moves ypos down by one at most, so a scroll during cmain's call
\* means that the row in ry was near the bottom.
DriftInv ==
  /\ echoes <= Burst
  /\ scrolled => ypos >= LowestRow
  /\ Holding /\ scrolled => ry + 1 >= LowestRow
  /\ Holding /\ ~scrolled => ypos <= ry + echoes

IInv == TypeOK /\ ColumnInv /\ RowInv /\ DriftInv

-----------------------------------------------------------------------------
\* Both bytes of a cursor position fit their registers.
LEMMA ByteType ==
  ASSUME NEW x \in Nat, NEW y \in Nat
  PROVE  /\ Low([x |-> x, y |-> y]) \in 0 .. ByteSize - 1
         /\ High([x |-> x, y |-> y]) \in 0 .. ByteSize - 1
<1> DEFINE n == y * width + x
<1>1. n \in Nat
  BY ScreenAssumption
<1> HIDE DEF n
<1>2. n % ByteSize \in 0 .. ByteSize - 1 /\ n \div ByteSize \in Nat
  BY <1>1, ByteAssumption
<1>3. (n \div ByteSize) % ByteSize \in 0 .. ByteSize - 1
  BY <1>2, ByteAssumption
<1> QED
  BY <1>2, <1>3 DEF Low, High, n

\* What one uninterrupted term_putchar does to the cursor: the column stays
\* left of the margin, and the row moves down by one at most and scrolls
\* only at the bottom.
LEMMA PutcharBounds ==
  ASSUME NEW x \in 0 .. width, NEW y \in 0 .. height, NEW ch \in Chars
  PROVE  LET p == [x |-> x, y |-> y]
             q == PutcharPos(p, ch)
         IN  /\ q.x \in 0 .. width - 1
             /\ q.y \in 0 .. height
             /\ q.y = height => y = height
             /\ q.y >= y - 1 /\ q.y <= y + 1
             /\ y >= height - 1 => q.y >= height - 1
             /\ y <= height - 2 => q.y >= y
             /\ NeedsScroll(Wrap(Move(p, ch))) => y >= height - 1
             /\ q = [x |-> q.x, y |-> q.y]
             /\ \A w \in Written(p, ch) : w \in [x : 0 .. width - 1, y : 0 .. height]
<1> DEFINE p == [x |-> x, y |-> y]
           m == Move(p, ch)
           v == Wrap(m)
           t == PushBack(v)
<1> USE ScreenAssumption
<1>1. /\ m.x \in 0 .. width /\ m.y \in y .. y + 1 /\ m = [x |-> m.x, y |-> m.y]
      /\ m.y = y + 1 => m.x = 0
      /\ ch = BS /\ x > 0 => m.x < width /\ m.y = y
  BY DEF Move, Chars, NL, BS
<1> HIDE DEF m
<1>2. /\ v.x \in 0 .. width - 2 /\ v.y \in y .. y + 1 /\ v = [x |-> v.x, y |-> v.y]
  BY <1>1 DEF Wrap
<1> HIDE DEF v
<1>3. /\ t.x = v.x /\ t = [x |-> t.x, y |-> t.y]
      /\ t.y = IF v.y >= height THEN v.y - 1 ELSE v.y
  BY <1>2 DEF PushBack, NeedsScroll
<1> HIDE DEF t
<1>4. /\ PutcharPos(p, ch).y = t.y
      /\ PutcharPos(p, ch).x \in {t.x, t.x + 1}
      /\ PutcharPos(p, ch) = [x |-> PutcharPos(p, ch).x, y |-> PutcharPos(p, ch).y]
  BY <1>2, <1>3 DEF PutcharPos, Target, Advance, t, v, m
<1>5. \A w \in Written(p, ch) : w \in [x : 0 .. width - 1, y : 0 .. height]
  <2>1. CASE Ordinary(ch)
    <3>1. Written(p, ch) = {t}
      BY <2>1 DEF Written, Target, Ordinary, t, v, m
    <3>2. t \in [x : 0 .. width - 1, y : 0 .. height]
      BY <1>2, <1>3
    <3> QED
      BY <3>1, <3>2
  <2>2. CASE ch = BS /\ x > 0
    BY <2>2, <1>1 DEF Written, m, Ordinary
  <2>3. CASE ~ Ordinary(ch) /\ ~ (ch = BS /\ x > 0)
    BY <2>3 DEF Written
  <2> QED
    BY <2>1, <2>2, <2>3
<1>6. NeedsScroll(Wrap(Move(p, ch))) => y >= height - 1
  BY <1>2 DEF NeedsScroll, v, m
<1> QED
  BY <1>2, <1>3, <1>4, <1>5, <1>6

\* The terminal starts empty with its cursor in the corner.
LEMMA InitInv == Init => IInv
<1> SUFFICES ASSUME Init PROVE IInv
  OBVIOUS
<1> USE ScreenAssumption, ByteAssumption, BurstAssumption DEF Init
<1>1. TypeOK
  <2>1. scrolled \in BOOLEAN
    OBVIOUS
  <2>2. wrote \in [x : Nat, y : Nat]
    OBVIOUS
  <2>3. cursor \in [lo : 0 .. ByteSize - 1, hi : 0 .. ByteSize - 1]
    OBVIOUS
  <2> QED
    BY <2>1, <2>2, <2>3 DEF TypeOK, PC, Chars
<1>2. ColumnInv
  BY DEF ColumnInv
<1>3. RowInv
  BY DEF RowInv, Holding, Scrolling, Settled
<1>4. DriftInv
  BY DEF DriftInv, Holding
<1> QED
  BY <1>1, <1>2, <1>3, <1>4 DEF IInv

\* An echo keeps the invariant, wherever it interrupts cmain.
LEMMA EchoInv ==
  ASSUME IInv, NEW ch \in Chars, Echo(ch)
  PROVE  IInv'
<1> DEFINE p == [x |-> xpos, y |-> ypos]
           q == PutcharPos(p, ch)
<1> USE ScreenAssumption, ByteAssumption, BurstAssumption
<1>1. xpos \in 0 .. width /\ ypos \in 0 .. height
  BY DEF IInv, TypeOK, ColumnInv, RowInv
<1>2. /\ q.x \in 0 .. width - 1
      /\ q.y \in 0 .. height
      /\ q.y = height => ypos = height
      /\ q.y >= ypos - 1 /\ q.y <= ypos + 1
      /\ ypos >= height - 1 => q.y >= height - 1
      /\ ypos <= height - 2 => q.y >= ypos
      /\ NeedsScroll(Wrap(Move(p, ch))) => ypos >= height - 1
      /\ q = [x |-> q.x, y |-> q.y]
      /\ \A w \in Written(p, ch) : w \in [x : 0 .. width - 1, y : 0 .. height]
  BY <1>1, PutcharBounds
<1>3. /\ xpos' = q.x /\ ypos' = q.y
      /\ pc' = pc /\ c' = c /\ rx' = rx /\ ry' = ry
      /\ crtc' = "hi" /\ cursor' = [lo |-> Low(q), hi |-> High(q)]
      /\ echoes' = IF pc = "idle" THEN 0 ELSE echoes + 1
      /\ pc # "idle" => echoes < Burst
      /\ scrolled' = (scrolled \/ NeedsScroll(Wrap(Move(p, ch))))
      /\ wrote' = wrote \/ wrote' \in Written(p, ch)
  BY DEF Echo
<1> HIDE DEF q
<1>4. wrote' \in [x : Nat, y : Nat] /\ wrote'.x < width /\ wrote'.y <= height
  BY <1>2, <1>3 DEF IInv, TypeOK, ColumnInv, RowInv
<1>5. TypeOK'
  <2>1. Low(q) \in 0 .. ByteSize - 1 /\ High(q) \in 0 .. ByteSize - 1
    BY <1>2, ByteType
  <2>2. scrolled' \in BOOLEAN
    BY <1>3 DEF IInv, TypeOK
  <2> QED
    BY <1>2, <1>3, <1>4, <2>1, <2>2 DEF IInv, TypeOK
<1>6. ColumnInv'
  BY <1>2, <1>3, <1>4 DEF IInv, TypeOK, ColumnInv
<1>7. RowInv'
  BY <1>2, <1>3, <1>4 DEF IInv, TypeOK, RowInv, Holding, Scrolling, Settled
<1>8. DriftInv'
  <2>1. CASE scrolled
    <3>1. scrolled' /\ ypos >= LowestRow /\ (Holding => ry + 1 >= LowestRow)
      BY <2>1, <1>3 DEF IInv, DriftInv
    <3>2. ypos' >= LowestRow /\ echoes' <= Burst
      BY <3>1, <1>2, <1>3 DEF IInv, TypeOK, DriftInv, LowestRow
    <3> QED
      BY <3>1, <3>2, <1>3 DEF DriftInv, Holding, LowestRow
  <2>2. CASE ~scrolled /\ NeedsScroll(Wrap(Move(p, ch)))
    <3>1. scrolled' /\ ypos >= height - 1
      BY <2>2, <1>2, <1>3
    <3>2. ypos' >= LowestRow /\ echoes' <= Burst
      BY <3>1, <1>2, <1>3 DEF IInv, TypeOK, DriftInv, LowestRow
    <3>3. Holding => ypos <= ry + echoes
      BY <2>2 DEF IInv, DriftInv
    <3>4. Holding => ry + 1 >= LowestRow
      BY <3>1, <3>3, <1>3 DEF IInv, TypeOK, LowestRow, Holding
    <3> QED
      BY <3>1, <3>2, <3>4, <1>3 DEF DriftInv, Holding, LowestRow
  <2>3. CASE ~scrolled /\ ~NeedsScroll(Wrap(Move(p, ch)))
    <3>1. ~scrolled'
      BY <2>3, <1>3
    <3>2. Holding => ypos <= ry + echoes
      BY <2>3 DEF IInv, DriftInv
    <3>3. echoes' <= Burst /\ (Holding' => ypos' <= ry' + echoes')
      BY <3>2, <1>2, <1>3 DEF IInv, TypeOK, DriftInv, Holding
    <3> QED
      BY <3>1, <3>3 DEF DriftInv
  <2> QED
    BY <2>1, <2>2, <2>3
<1> QED
  BY <1>5, <1>6, <1>7, <1>8 DEF IInv

\* Neither does any step of cmain's own call break it.
LEMMA PutcharInv == ASSUME IInv, term_putchar PROVE IInv'
<1> USE ScreenAssumption, ByteAssumption, BurstAssumption
    DEF shared, Holding, Scrolling, Settled
<1>1. ASSUME NEW ch \in Chars, Call(ch) PROVE IInv'
  BY <1>1 DEF Call, IInv, TypeOK, PC, ColumnInv, RowInv, DriftInv, LowestRow, NL
<1>2. CASE LoadX
  BY <1>2 DEF LoadX, IInv, TypeOK, PC, ColumnInv, RowInv, DriftInv, LowestRow
<1>3. CASE LoadY
  <2> USE <1>3 DEF LoadY
  <2>1. ry' = ypos /\ ypos < height /\ UNCHANGED <<xpos, ypos, wrote, scrolled, c, rx, echoes>>
    BY DEF IInv, TypeOK, RowInv
  <2>2. pc' \in {"nlX", "bsX", "wrapX", "reX"}
    BY <2>1 DEF Resume, Fit, IInv, TypeOK
  <2>3. /\ pc' = "nlX" <=> c = NL
        /\ pc' = "bsX" => rx > 0
        /\ pc' = "reX" => rx + 1 < width
    <3>1. CASE c = NL
      BY <3>1 DEF NL, BS
    <3>2. CASE c = BS /\ rx > 0
      BY <3>2 DEF NL, BS
    <3>3. CASE c # NL /\ ~(c = BS /\ rx > 0)
      BY <3>3, <2>1 DEF Resume, Fit, IInv, TypeOK
    <3> QED
      BY <3>1, <3>2, <3>3
  <2>4. TypeOK'
    BY <2>1, <2>2 DEF IInv, TypeOK, PC
  <2>5. ColumnInv'
    BY <2>1, <2>2, <2>3 DEF IInv, TypeOK, ColumnInv
  <2>6. RowInv'
    BY <2>1, <2>2 DEF IInv, TypeOK, RowInv
  <2>7. DriftInv'
    BY <2>1, <2>2 DEF IInv, TypeOK, DriftInv, LowestRow
  <2> QED
    BY <2>4, <2>5, <2>6, <2>7 DEF IInv
<1>4. CASE NewlineX
  <2> USE <1>4 DEF NewlineX
  <2>1. TypeOK'
    BY DEF IInv, TypeOK, PC, ColumnInv, RowInv
  <2>2. ColumnInv'
    BY DEF IInv, TypeOK, ColumnInv
  <2>3. RowInv'
    BY DEF IInv, TypeOK, ColumnInv, RowInv
  <2>4. DriftInv'
    BY DEF IInv, TypeOK, ColumnInv, RowInv, DriftInv, LowestRow
  <2> QED
    BY <2>1, <2>2, <2>3, <2>4 DEF IInv
<1>5. CASE NewlineY
  <2> USE <1>5 DEF NewlineY, Resume, Fit
  <2>1. TypeOK'
    BY DEF IInv, TypeOK, PC, ColumnInv, RowInv
  <2>2. ColumnInv'
    BY DEF IInv, TypeOK, ColumnInv
  <2>3. RowInv'
    BY DEF IInv, TypeOK, ColumnInv, RowInv
  <2>4. DriftInv'
    BY DEF IInv, TypeOK, ColumnInv, RowInv, DriftInv, LowestRow
  <2> QED
    BY <2>1, <2>2, <2>3, <2>4 DEF IInv
<1>6. CASE BackX
  <2> USE <1>6 DEF BackX
  <2>1. TypeOK'
    BY DEF IInv, TypeOK, PC, ColumnInv, RowInv
  <2>2. ColumnInv'
    BY DEF IInv, TypeOK, ColumnInv
  <2>3. RowInv'
    BY DEF IInv, TypeOK, ColumnInv, RowInv
  <2>4. DriftInv'
    BY DEF IInv, TypeOK, ColumnInv, RowInv, DriftInv, LowestRow
  <2> QED
    BY <2>1, <2>2, <2>3, <2>4 DEF IInv
<1>7. CASE BackPut
  <2> USE <1>7 DEF BackPut, Resume, Fit
  <2>1. TypeOK'
    BY DEF IInv, TypeOK, PC, ColumnInv, RowInv
  <2>2. ColumnInv'
    BY DEF IInv, TypeOK, ColumnInv
  <2>3. RowInv'
    BY DEF IInv, TypeOK, ColumnInv, RowInv
  <2>4. DriftInv'
    BY DEF IInv, TypeOK, ColumnInv, RowInv, DriftInv, LowestRow
  <2> QED
    BY <2>1, <2>2, <2>3, <2>4 DEF IInv
<1>8. CASE WrapX
  <2> USE <1>8 DEF WrapX
  <2>1. TypeOK'
    BY DEF IInv, TypeOK, PC, ColumnInv, RowInv
  <2>2. ColumnInv'
    BY DEF IInv, TypeOK, ColumnInv
  <2>3. RowInv'
    BY DEF IInv, TypeOK, ColumnInv, RowInv
  <2>4. DriftInv'
    BY DEF IInv, TypeOK, ColumnInv, RowInv, DriftInv, LowestRow
  <2> QED
    BY <2>1, <2>2, <2>3, <2>4 DEF IInv
<1>9. CASE WrapY
  <2> USE <1>9 DEF WrapY, Fit
  <2>1. TypeOK'
    BY DEF IInv, TypeOK, PC, ColumnInv, RowInv
  <2>2. ColumnInv'
    BY DEF IInv, TypeOK, ColumnInv
  <2>3. RowInv'
    BY DEF IInv, TypeOK, ColumnInv, RowInv
  <2>4. DriftInv'
    BY DEF IInv, TypeOK, ColumnInv, RowInv, DriftInv, LowestRow
  <2> QED
    BY <2>1, <2>2, <2>3, <2>4 DEF IInv
<1>10. CASE ScrollUp
  <2> USE <1>10 DEF ScrollUp
  <2>1. TypeOK'
    BY DEF IInv, TypeOK, PC, ColumnInv, RowInv
  <2>2. ColumnInv'
    BY DEF IInv, TypeOK, ColumnInv
  <2>3. RowInv'
    BY DEF IInv, TypeOK, ColumnInv, RowInv
  <2>4. DriftInv'
    BY DEF IInv, TypeOK, ColumnInv, RowInv, DriftInv, LowestRow
  <2> QED
    BY <2>1, <2>2, <2>3, <2>4 DEF IInv
<1>11. CASE ReloadY
  <2> USE <1>11 DEF ReloadY
  <2>1. TypeOK'
    BY DEF IInv, TypeOK, PC, ColumnInv, RowInv
  <2>2. ColumnInv'
    BY DEF IInv, TypeOK, ColumnInv
  <2>3. RowInv'
    BY DEF IInv, TypeOK, ColumnInv, RowInv
  <2>4. DriftInv'
    BY DEF IInv, TypeOK, ColumnInv, RowInv, DriftInv, LowestRow
  <2> QED
    BY <2>1, <2>2, <2>3, <2>4 DEF IInv
<1>12. CASE StoreY
  <2> USE <1>12 DEF StoreY
  <2>1. TypeOK'
    BY DEF IInv, TypeOK, PC, ColumnInv, RowInv
  <2>2. ColumnInv'
    BY DEF IInv, TypeOK, ColumnInv
  <2>3. RowInv'
    BY DEF IInv, TypeOK, ColumnInv, RowInv
  <2>4. DriftInv'
    BY DEF IInv, TypeOK, ColumnInv, RowInv, DriftInv, LowestRow
  <2> QED
    BY <2>1, <2>2, <2>3, <2>4 DEF IInv
<1>13. CASE ReloadX
  <2> USE <1>13 DEF ReloadX
  <2>1. TypeOK'
    BY DEF IInv, TypeOK, PC, ColumnInv, RowInv
  <2>2. ColumnInv'
    BY DEF IInv, TypeOK, ColumnInv
  <2>3. RowInv'
    BY DEF IInv, TypeOK, ColumnInv, RowInv
  <2>4. DriftInv'
    BY DEF IInv, TypeOK, ColumnInv, RowInv, DriftInv, LowestRow
  <2> QED
    BY <2>1, <2>2, <2>3, <2>4 DEF IInv
<1>14. CASE PutEntry
  <2> USE <1>14 DEF PutEntry
  <2>1. TypeOK'
    BY DEF IInv, TypeOK, PC, ColumnInv, RowInv
  <2>2. ColumnInv'
    BY DEF IInv, TypeOK, ColumnInv
  <2>3. RowInv'
    BY DEF IInv, TypeOK, ColumnInv, RowInv
  <2>4. DriftInv'
    BY DEF IInv, TypeOK, ColumnInv, RowInv, DriftInv, LowestRow
  <2> QED
    BY <2>1, <2>2, <2>3, <2>4 DEF IInv
<1>15. CASE StepRight
  <2> USE <1>15 DEF StepRight
  <2>1. TypeOK'
    BY DEF IInv, TypeOK, PC, ColumnInv, RowInv
  <2>2. ColumnInv'
    BY DEF IInv, TypeOK, ColumnInv
  <2>3. RowInv'
    BY DEF IInv, TypeOK, ColumnInv, RowInv
  <2>4. DriftInv'
    BY DEF IInv, TypeOK, ColumnInv, RowInv, DriftInv, LowestRow
  <2> QED
    BY <2>1, <2>2, <2>3, <2>4 DEF IInv
<1>16. CASE update_cursor
  <2>1. /\ Low([x |-> rx, y |-> ry]) \in 0 .. ByteSize - 1
        /\ High([x |-> rx, y |-> ry]) \in 0 .. ByteSize - 1
    BY ByteType DEF IInv, TypeOK
  <2>2. /\ crtc' \in {"lo", "hi"}
        /\ cursor' \in [lo : 0 .. ByteSize - 1, hi : 0 .. ByteSize - 1]
        /\ pc \in {"cur1", "cur2", "cur3", "cur4"}
        /\ pc' \in {"cur2", "cur3", "cur4", "idle"}
        /\ UNCHANGED <<xpos, ypos, wrote, scrolled, c, rx, ry, echoes>>
    BY <1>16, <2>1 DEF update_cursor, SelectLow, SendLow, SelectHigh, SendHigh, IInv, TypeOK
  <2>3. TypeOK'
    BY <2>2 DEF IInv, TypeOK, PC
  <2>4. ColumnInv' /\ RowInv' /\ DriftInv'
    BY <2>2 DEF IInv, TypeOK, ColumnInv, RowInv, DriftInv, LowestRow
  <2> QED
    BY <2>3, <2>4 DEF IInv
<1> QED
  BY <1>1, <1>2, <1>3, <1>4, <1>5, <1>6, <1>7, <1>8, <1>9, <1>10, <1>11, <1>12, <1>13, <1>14, <1>15, <1>16 DEF term_putchar

\* The invariant holds in every reachable state.
THEOREM Invariance == Spec => []IInv
<1>1. IInv /\ [Next]_vars => IInv'
  <2> SUFFICES ASSUME IInv, [Next]_vars PROVE IInv'
    OBVIOUS
  <2>1. CASE term_putchar
    BY <2>1, PutcharInv
  <2>2. ASSUME NEW ch \in Chars, Echo(ch) PROVE IInv'
    BY <2>2, EchoInv
  <2>3. CASE UNCHANGED vars
    BY <2>3 DEF vars, shared, IInv, TypeOK, ColumnInv, RowInv, DriftInv,
                Holding, Scrolling, Settled, LowestRow
  <2> QED
    BY <2>1, <2>2, <2>3 DEF Next
<1> QED
  BY <1>1, InitInv, PTL DEF Spec

\* Positions stay natural numbers: no race makes xpos or ypos wrap below zero.
THEOREM TypeCorrect == Spec => []TypeOK
<1>1. IInv => TypeOK
  BY DEF IInv
<1> QED
  BY <1>1, Invariance, PTL

\* For every screen size, races between printing and echoing write at most
\* into the row below the screen.
THEOREM Containment == Spec => []WritesContained
<1>1. IInv => WritesContained
  BY DEF IInv, ColumnInv, RowInv, WritesContained
<1> QED
  BY <1>1, Invariance, PTL

\* A finished call of cmain leaves the cursor's row on the screen.
THEOREM RowIsOnScreen == Spec => []RowOnScreen
<1>1. IInv => RowOnScreen
  BY ScreenAssumption DEF IInv, TypeOK, RowInv, RowOnScreen, Scrolling
<1> QED
  BY <1>1, Invariance, PTL

\* Races do not walk the prompt up the screen.
THEOREM DriftBounded == Spec => []NoUpwardDrift
<1>1. IInv => NoUpwardDrift
  BY DEF IInv, DriftInv, NoUpwardDrift
<1> QED
  BY <1>1, Invariance, PTL

-----------------------------------------------------------------------------
(* The hardware cursor.                                                    *)

\* As long as no echo has come, cmain's registers are the terminal's record
\* from their load on, and the cursor registers what was sent so far.
CursorInv ==
  echoes = 0 =>
    /\ pc \notin {"idle", "ldX", "ldY"} => ry = ypos
    /\ pc \in {"put", "inc", "cur1", "cur2", "cur3", "cur4"} => rx = xpos
    /\ pc = "cur2" => crtc = "lo"
    /\ pc = "cur4" => crtc = "hi"
    /\ pc \in {"idle", "cur3", "cur4"} => cursor.lo = Low([x |-> xpos, y |-> ypos])
    /\ pc = "idle" => cursor.hi = High([x |-> xpos, y |-> ypos])

\* A number below ByteSize squared is its two bytes put together.
LEMMA TwoBytes ==
  ASSUME NEW n \in Nat, n < ByteSize * ByteSize
  PROVE  ((n \div ByteSize) % ByteSize) * ByteSize + (n % ByteSize) = n
<1>1. PICK B \in Nat \ {0} : B = ByteSize
  BY ByteAssumption
<1>2. PICK q \in Int, r \in Int : q = n \div B /\ r = n % B /\ n = B * q + r /\ r >= 0 /\ r < B
  OBVIOUS
<1>3. q >= 0
  BY <1>2
<1>4. q < B
  <2>1. ASSUME q >= B PROVE FALSE
    <3>1. B * q >= B * B
      BY <2>1
    <3>2. B * q \in Int /\ B * B \in Int
      OBVIOUS
    <3>3. QED
      BY <1>1, <1>2, <3>1, <3>2
  <2>2. QED
    BY <2>1
<1>5. q % B = q
  BY <1>3, <1>4
<1>6. q * B + r = n
  BY <1>2
<1>7. QED
  BY <1>1, <1>2, <1>5, <1>6

\* Every position that a finished call leaves fits the two registers.
LEMMA PositionFits ==
  ASSUME NEW x \in Nat, NEW y \in Nat, x <= width, y < height
  PROVE  y * width + x \in Nat /\ y * width + x < ByteSize * ByteSize
<1>1. width \in Nat /\ height \in Nat /\ ByteSize \in Nat
  BY ScreenAssumption, ByteAssumption
<1>2. PICK k \in Nat : height = y + 1 + k
  <2>1. height - (y + 1) \in Nat /\ height = y + 1 + (height - (y + 1))
    BY <1>1
  <2>2. QED
    BY <2>1
<1>3. width * height = (width * y) + width + (width * k) /\ width * k \in Nat
      /\ width * y \in Nat /\ y * width = width * y
  BY <1>1, <1>2
<1>4. QED
  BY <1>1, <1>3, FitAssumption

\* The cursor starts in the corner.
LEMMA InitCursor == Init => CursorInv
<1> SUFFICES ASSUME Init PROVE CursorInv
  OBVIOUS
<1>1. 0 * width + 0 = 0 /\ 0 % ByteSize = 0 /\ 0 \div ByteSize = 0
  BY ScreenAssumption, ByteAssumption
<1>2. QED
  BY <1>1 DEF Init, CursorInv, Low, High

\* Every step keeps it: an echo between two calls sets the whole cursor, an
\* echo inside a call ends its claim.
LEMMA NextCursor == IInv /\ CursorInv /\ [Next]_vars => CursorInv'
<1> SUFFICES ASSUME IInv, CursorInv, [Next]_vars PROVE CursorInv'
  OBVIOUS
<1>0. echoes \in Nat /\ pc \in PC
  BY DEF IInv, TypeOK
<1>1. ASSUME NEW ch \in Chars, Echo(ch) PROVE CursorInv'
  <2>1. CASE pc = "idle"
    <3> DEFINE q == PutcharPos([x |-> xpos, y |-> ypos], ch)
    <3>1. /\ xpos' = q.x /\ ypos' = q.y /\ pc' = "idle"
          /\ cursor' = [lo |-> Low(q), hi |-> High(q)]
      BY <1>1, <2>1 DEF Echo
    <3>2. xpos \in 0 .. width /\ ypos \in 0 .. height
      BY ScreenAssumption DEF IInv, TypeOK, ColumnInv, RowInv
    <3>3. q = [x |-> q.x, y |-> q.y]
      BY <3>2, PutcharBounds
    <3> HIDE DEF q
    <3>4. QED
      BY <3>1, <3>3 DEF CursorInv
  <2>2. CASE pc # "idle"
    <3>1. echoes' # 0
      BY <1>1, <2>2, <1>0 DEF Echo
    <3>2. QED
      BY <3>1 DEF CursorInv
  <2>3. QED
    BY <2>1, <2>2
<1>2. ASSUME NEW ch \in Chars, Call(ch) PROVE CursorInv'
  BY <1>2 DEF Call, CursorInv
<1>3. CASE LoadX \/ LoadY
  BY <1>3 DEF LoadX, LoadY, CursorInv, shared, Resume, Fit
<1>4. CASE NewlineX \/ NewlineY \/ BackX \/ BackPut
  BY <1>4 DEF NewlineX, NewlineY, BackX, BackPut, CursorInv, Resume, Fit
<1>5. CASE WrapX \/ WrapY \/ ScrollUp
  BY <1>5 DEF WrapX, WrapY, ScrollUp, CursorInv, Fit
<1>6. CASE ReloadY \/ StoreY
  BY <1>6 DEF ReloadY, StoreY, CursorInv, shared
<1>7. CASE ReloadX \/ PutEntry \/ StepRight
  BY <1>7 DEF ReloadX, PutEntry, StepRight, CursorInv, shared
<1>8. CASE SelectLow \/ SelectHigh
  BY <1>8 DEF SelectLow, SelectHigh, CursorInv
<1>9. CASE SendLow
  <2>1. ASSUME echoes = 0
        PROVE  cursor'.lo = Low([x |-> xpos, y |-> ypos])
    <3>1. crtc = "lo" /\ rx = xpos /\ ry = ypos
      BY <1>9, <2>1 DEF SendLow, CursorInv
    <3>2. cursor' = [cursor EXCEPT !["lo"] = Low([x |-> xpos, y |-> ypos])]
      BY <1>9, <3>1 DEF SendLow
    <3>3. QED
      BY <3>2 DEF IInv, TypeOK
  <2>2. QED
    BY <1>9, <2>1 DEF SendLow, CursorInv
<1>10. CASE SendHigh
  <2>1. ASSUME echoes = 0
        PROVE  /\ cursor'.hi = High([x |-> xpos, y |-> ypos])
               /\ cursor'.lo = Low([x |-> xpos, y |-> ypos])
    <3>1. crtc = "hi" /\ rx = xpos /\ ry = ypos /\ cursor.lo = Low([x |-> xpos, y |-> ypos])
      BY <1>10, <2>1 DEF SendHigh, CursorInv
    <3>2. cursor' = [cursor EXCEPT !["hi"] = High([x |-> xpos, y |-> ypos])]
      BY <1>10, <3>1 DEF SendHigh
    <3>3. QED
      BY <3>1, <3>2 DEF IInv, TypeOK
  <2>2. QED
    BY <1>10, <2>1 DEF SendHigh, CursorInv
<1>11. CASE UNCHANGED vars
  BY <1>11 DEF vars, shared, CursorInv
<1>12. QED
  BY <1>1, <1>2, <1>3, <1>4, <1>5, <1>6, <1>7, <1>8, <1>9, <1>10, <1>11
     DEF Next, term_putchar, update_cursor

\* A call that no echo interrupted leaves the hardware cursor where the
\* terminal's record says, and so does an echo between two calls.
THEOREM CursorIsShown == Spec => []CursorShown
<1>1. IInv /\ CursorInv => CursorShown
  <2> SUFFICES ASSUME IInv, CursorInv, pc = "idle", echoes = 0
               PROVE  cursor.hi * ByteSize + cursor.lo = ypos * width + xpos
    BY DEF CursorShown
  <2> DEFINE n == ypos * width + xpos
  <2>1. cursor.lo = n % ByteSize /\ cursor.hi = (n \div ByteSize) % ByteSize
    BY DEF CursorInv, Low, High
  <2>2. xpos \in Nat /\ ypos \in Nat /\ xpos <= width /\ ypos < height
    BY ScreenAssumption DEF IInv, TypeOK, ColumnInv, RowInv, Scrolling
  <2>3. n \in Nat /\ n < ByteSize * ByteSize
    BY <2>2, PositionFits
  <2> HIDE DEF n
  <2>4. QED
    BY <2>1, <2>3, TwoBytes DEF n
<1>2. Spec => []CursorInv
  BY InitCursor, NextCursor, Invariance, PTL DEF Spec
<1>3. QED
  BY <1>1, <1>2, Invariance, PTL
=============================================================================
