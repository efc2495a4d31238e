----------------------------- MODULE TermProofs -----------------------------
(***************************************************************************)
(* Proofs about MemCpy and Term. mem_cpy moves its bytes correctly for     *)
(* every memory size and every overlap; a scroll is such a move; and for   *)
(* every screen size, alphabet and text, the flat array with its index     *)
(* arithmetic implements the page of module Page.                          *)
(***************************************************************************)
EXTENDS Term, MemCpy, TLAPS, SequenceTheorems

-----------------------------------------------------------------------------
(* mem_cpy. The loop invariant says that each loop has moved its part and  *)
(* that the part of the source still to be read is as it was at the call:  *)
(* going forwards below the source, or backwards above it, never writes    *)
(* ahead of the reads.                                                     *)

\* The offsets already moved.
MovedPart == CASE pc = "fwd"  -> 0 .. i - 1
               [] pc = "bwd"  -> i .. size - 1
               [] pc = "done" -> 0 .. size - 1

CopyInv ==
  /\ CallTypeOK
  /\ pc = "fwd" => dst < src
  /\ pc = "bwd" => dst >= src
  /\ \A k \in MovedPart : mem[dst + k] = mem0[src + k]
  /\ \A a \in Addr : (\A k \in MovedPart : a # dst + k) => mem[a] = mem0[a]

\* At the call nothing has been moved.
LEMMA CallCopyInv == Call => CopyInv
BY TopAssumption DEF Call, CopyInv, CallTypeOK, MovedPart, Addr, Forwards

\* Each turn moves one more byte, read before anything overwrote it.
LEMMA StepCopyInv == CopyInv /\ [Step]_callVars => CopyInv'
<1> SUFFICES ASSUME CopyInv, [Step]_callVars PROVE CopyInv'
  OBVIOUS
<1> USE TopAssumption DEF Addr, MoreForward, MoreBackward
<1>1. CASE StepForward
  <2> USE <1>1 DEF StepForward
  <2>1. src + i \in Addr /\ dst + i \in Addr /\ dst < src
    BY DEF CopyInv, CallTypeOK
  <2>2. mem[src + i] = mem0[src + i]
    BY <2>1, SMTT(30) DEF CopyInv, CallTypeOK, MovedPart
  <2>3. CallTypeOK'
    BY <2>1 DEF CopyInv, CallTypeOK
  <2>4. MovedPart = 0 .. i - 1 /\ MovedPart' = 0 .. i
    BY DEF CopyInv, CallTypeOK, MovedPart
  <2>5. \A k \in MovedPart' : mem'[dst + k] = mem0'[src + k]
    BY <2>1, <2>2, <2>4 DEF CopyInv, CallTypeOK
  <2>6. \A a \in Addr : (\A k \in MovedPart' : a # dst + k) => mem'[a] = mem0'[a]
    BY <2>1, <2>4 DEF CopyInv, CallTypeOK
  <2> QED
    BY <2>1, <2>3, <2>5, <2>6 DEF CopyInv
<1>2. CASE StepBackward
  <2> USE <1>2 DEF StepBackward
  <2>1. src + i - 1 \in Addr /\ dst + i - 1 \in Addr /\ dst >= src
    BY DEF CopyInv, CallTypeOK
  <2>2. mem[src + i - 1] = mem0[src + i - 1]
    BY <2>1 DEF CopyInv, CallTypeOK, MovedPart
  <2>3. CallTypeOK'
    BY <2>1 DEF CopyInv, CallTypeOK
  <2>4. MovedPart = i .. size - 1 /\ MovedPart' = i - 1 .. size - 1
    BY DEF CopyInv, CallTypeOK, MovedPart
  <2>5. \A k \in MovedPart' : mem'[dst + k] = mem0'[src + k]
    BY <2>1, <2>2, <2>4 DEF CopyInv, CallTypeOK
  <2>6. \A a \in Addr : (\A k \in MovedPart' : a # dst + k) => mem'[a] = mem0'[a]
    BY <2>1, <2>4 DEF CopyInv, CallTypeOK
  <2> QED
    BY <2>1, <2>3, <2>5, <2>6 DEF CopyInv
<1>3. CASE Return
  <2>1. MovedPart' = MovedPart
    BY <1>3 DEF Return, CopyInv, CallTypeOK, MovedPart
  <2> QED
    BY <1>3, <2>1 DEF Return, CopyInv, CallTypeOK
<1>4. CASE UNCHANGED callVars
  BY <1>4 DEF callVars, CopyInv, CallTypeOK, MovedPart
<1> QED
  BY <1>1, <1>2, <1>3, <1>4 DEF Step

\* The loop invariant holds throughout every call.
THEOREM CopyInvariance == CopySpec => []CopyInv
BY CallCopyInv, StepCopyInv, PTL DEF CopySpec

\* mem_cpy is a correct overlapping move, as its comment claims.
THEOREM MoveCorrect == CopySpec => []Moved
<1>1. CopyInv => Moved
  <2> SUFFICES ASSUME CopyInv, pc = "done", NEW a \in Addr
               PROVE  mem[a] = IF a \in dst .. dst + size - 1
                               THEN mem0[src + (a - dst)] ELSE mem0[a]
    BY DEF Moved
  <2>1. MovedPart = 0 .. size - 1
    BY DEF MovedPart
  <2>2. CASE a \in dst .. dst + size - 1
    <3>1. a - dst \in MovedPart /\ dst + (a - dst) = a
      BY <2>1, <2>2 DEF CopyInv, CallTypeOK, Addr
    <3> QED
      BY <2>2, <3>1 DEF CopyInv
  <2>3. CASE a \notin dst .. dst + size - 1
    BY <2>1, <2>3, TopAssumption DEF CopyInv, CallTypeOK, Addr
  <2> QED
    BY <2>2, <2>3
<1> QED
  BY <1>1, CopyInvariance, PTL

\* The loop's index stays within size and every access within memory.
THEOREM CallTypeCorrect == CopySpec => []CallTypeOK
<1>1. CopyInv => CallTypeOK
  BY DEF CopyInv
<1> QED
  BY <1>1, CopyInvariance, PTL

\* The call that term_scroll makes: width * height cells of two bytes, from
\* one row down.
ScrollCall ==
  /\ Top = 2 * (width * (height + 1))
  /\ src = 2 * width /\ dst = 0 /\ size = 2 * (width * height)

\* Memory as cells of two bytes.
CellsOf(m) == [k \in Cells |-> <<m[2 * k], m[2 * k + 1]>>]

\* Term's one-step term_scroll is what the loop of mem_cpy has done to the
\* screen when it returns, although the areas overlap in all rows but one.
THEOREM ScrollByMemCpy ==
  CopySpec => [](pc = "done" /\ ScrollCall => CellsOf(mem) = term_scroll(CellsOf(mem0)))
<1>1. Moved => (pc = "done" /\ ScrollCall => CellsOf(mem) = term_scroll(CellsOf(mem0)))
  <2> SUFFICES ASSUME Moved, pc = "done", ScrollCall
               PROVE  CellsOf(mem) = term_scroll(CellsOf(mem0))
    OBVIOUS
  <2> USE ScreenAssumption
  <2>1. PICK all \in Nat : all = width * height
    OBVIOUS
  <2>2. Cells = 0 .. all + width - 1 /\ Screen = 0 .. all - 1
    <3>1. width * (height + 1) = width * height + width
      OBVIOUS
    <3> QED
      BY <2>1, <3>1 DEF Cells, Screen
  <2>3. Addr = 0 .. 2 * (all + width) - 1 /\ src = 2 * width /\ dst = 0 /\ size = 2 * all
    <3>1. width * (height + 1) = all + width
      BY <2>1
    <3> QED
      BY <2>1, <3>1 DEF ScrollCall, Addr
  <2>4. ASSUME NEW a \in Addr
        PROVE  mem[a] = IF a \in 0 .. 2 * all - 1 THEN mem0[2 * width + a] ELSE mem0[a]
    <3>1. mem[a] = IF a \in dst .. dst + size - 1 THEN mem0[src + (a - dst)] ELSE mem0[a]
      BY <2>4 DEF Moved
    <3>2. dst + size - 1 = 2 * all - 1 /\ a - dst = a
      BY <2>3
    <3> QED
      BY <2>3, <3>1, <3>2
  <2>5. ASSUME NEW k \in Cells
        PROVE  CellsOf(mem)[k] = term_scroll(CellsOf(mem0))[k]
    <3>1. k \in Int /\ 2 * k \in Addr /\ 2 * k + 1 \in Addr
      BY <2>2, <2>3
    <3>2. CellsOf(mem)[k] = <<mem[2 * k], mem[2 * k + 1]>>
      BY DEF CellsOf
    <3>3. CASE k \in Screen
      <4>1. 2 * k \in 0 .. 2 * all - 1 /\ 2 * k + 1 \in 0 .. 2 * all - 1 /\ k + width \in Cells
        BY <2>2, <3>3
      <4>2. mem[2 * k] = mem0[2 * width + 2 * k] /\ mem[2 * k + 1] = mem0[2 * width + (2 * k + 1)]
        BY <2>4, <3>1, <4>1
      <4>3. 2 * width + 2 * k = 2 * (k + width) /\ 2 * width + (2 * k + 1) = 2 * (k + width) + 1
        BY <3>1
      <4>4. term_scroll(CellsOf(mem0))[k] = <<mem0[2 * (k + width)], mem0[2 * (k + width) + 1]>>
        BY <3>3, <4>1 DEF term_scroll, CellsOf
      <4> QED
        BY <3>2, <4>2, <4>3, <4>4
    <3>4. CASE k \notin Screen
      <4>1. 2 * k \notin 0 .. 2 * all - 1 /\ 2 * k + 1 \notin 0 .. 2 * all - 1
        BY <2>2, <3>4
      <4>2. mem[2 * k] = mem0[2 * k] /\ mem[2 * k + 1] = mem0[2 * k + 1]
        BY <2>4, <3>1, <4>1
      <4>3. term_scroll(CellsOf(mem0))[k] = <<mem0[2 * k], mem0[2 * k + 1]>>
        BY <3>4 DEF term_scroll, CellsOf
      <4> QED
        BY <3>2, <4>2, <4>3
    <3> QED
      BY <3>3, <3>4
  <2> QED
    BY <2>5 DEF CellsOf, term_scroll
<1> QED
  BY <1>1, MoveCorrect, PTL

-----------------------------------------------------------------------------
(* The terminal.                                                           *)

\* The row under the screen, which every scroll reads, stays what it was:
\* without it nothing is known of the row that a scroll brings in.
RowBelow == \A k \in Cells : k \notin Screen => buffer[k] = below

IInv == TypeOK /\ RowBelow

\* The rows that an array shows: what Page calls rows.
RowsOf(buf) == [r \in 1 .. height |-> [k \in 1 .. width |-> buf[(r - 1) * width + (k - 1)]]]

RowUnder == [k \in 1 .. width |-> below]

-----------------------------------------------------------------------------
(* Index arithmetic.                                                       *)

\* ypos * width + xpos of a place on the screen is a cell of the screen, and
\* one row further down still a cell of the array.
LEMMA IndexRange ==
  ASSUME NEW x \in 0 .. width - 1, NEW y \in 0 .. height
  PROVE  /\ y * width + x \in Cells
         /\ y < height => y * width + x \in Screen
         /\ y = height => y * width + x \notin Screen
<1> USE ScreenAssumption
<1>1. y * width \in Nat /\ width * height \in Nat /\ height * width = width * height
  OBVIOUS
<1>2. width * (height + 1) = width * height + width
  OBVIOUS
<1>3. ASSUME NEW n \in 0 .. height PROVE n * width <= height * width
  <2>1. PICK d \in Nat : height = n + d
    <3>1. height - n \in Nat /\ height = n + (height - n)
      OBVIOUS
    <3> QED
      BY <3>1
  <2>2. height * width = n * width + d * width
    BY <2>1
  <2>3. d * width \in Nat /\ n * width \in Nat
    OBVIOUS
  <2> QED
    BY <2>2, <2>3
<1>4. CASE y < height
  <2>1. y + 1 \in 0 .. height
    BY <1>4
  <2>2. (y + 1) * width <= height * width
    BY <1>3, <2>1
  <2>3. (y + 1) * width = y * width + width
    OBVIOUS
  <2>4. y * width + x >= 0 /\ y * width + x < width * height
    BY <1>1, <2>2, <2>3
  <2> QED
    BY <1>1, <1>2, <1>4, <2>4 DEF Cells, Screen
<1>5. CASE y = height
  <2>1. y * width + x = width * height + x
    BY <1>1, <1>5
  <2> QED
    BY <1>1, <1>2, <1>5, <2>1 DEF Cells, Screen
<1> QED
  BY <1>4, <1>5

\* Two places have two cells.
LEMMA IndexInjective ==
  ASSUME NEW x \in 0 .. width - 1, NEW y \in Nat, NEW u \in 0 .. width - 1, NEW v \in Nat,
         y * width + x = v * width + u
  PROVE  x = u /\ y = v
<1> USE ScreenAssumption
<1>1. ASSUME NEW a \in Nat, NEW b \in Nat, NEW s \in 0 .. width - 1, NEW t \in 0 .. width - 1, a < b
      PROVE  a * width + s < b * width + t
  <2>1. PICK d \in Nat : b = a + 1 + d
    <3>1. b - a - 1 \in Nat /\ b = a + 1 + (b - a - 1)
      BY <1>1
    <3> QED
      BY <3>1
  <2>2. b * width = a * width + width + d * width
    BY <2>1
  <2>3. d * width \in Nat /\ a * width \in Nat
    OBVIOUS
  <2> QED
    BY <2>2, <2>3
<1>2. ~(y < v) /\ ~(v < y)
  <2>1. y * width \in Nat /\ v * width \in Nat
    OBVIOUS
  <2> QED
    BY <1>1, <2>1
<1>3. y = v
  BY <1>2
<1>4. y * width \in Nat
  OBVIOUS
<1> QED
  BY <1>3, <1>4

-----------------------------------------------------------------------------
(* What the two operations on the array do to the rows.                    *)

\* term_putentryat sets one cell of the page.
LEMMA PutRows ==
  ASSUME NEW buf \in [Cells -> Cell], NEW x \in 0 .. width - 1, NEW y \in 0 .. height - 1, NEW ch
  PROVE  RowsOf(term_putentryat(buf, ch, [x |-> x, y |-> y]))
           = OnPage!Set(RowsOf(buf), x, y, ch)
<1> USE ScreenAssumption
<1> DEFINE new == term_putentryat(buf, ch, [x |-> x, y |-> y])
           page == [RowsOf(buf) EXCEPT ![y + 1][x + 1] = <<ch, color>>]
           n == y * width + x
<1>1. new = [buf EXCEPT ![n] = <<ch, color>>]
  BY DEF term_putentryat, Index, make_vgaentry
<1>2. n \in Cells
  <2>1. y \in 0 .. height
    OBVIOUS
  <2> QED
    BY <2>1, IndexRange
<1>3. ASSUME NEW r \in 1 .. height, NEW k \in 1 .. width
      PROVE  new[(r - 1) * width + (k - 1)] = page[r][k]
  <2> DEFINE j == (r - 1) * width + (k - 1)
  <2>1. j \in Cells
    <3>1. k - 1 \in 0 .. width - 1 /\ r - 1 \in 0 .. height
      OBVIOUS
    <3> QED
      BY <3>1, IndexRange
  <2>2. CASE r = y + 1 /\ k = x + 1
    <3>1. r - 1 = y /\ k - 1 = x
      BY <2>2
    <3>2. j = n
      BY <3>1
    <3>3. page[r][k] = <<ch, color>>
      BY <2>2 DEF RowsOf
    <3> QED
      BY <1>1, <1>2, <3>2, <3>3
  <2>3. CASE ~(r = y + 1 /\ k = x + 1)
    <3>1. j # n
      <4>1. k - 1 \in 0 .. width - 1 /\ r - 1 \in Nat /\ y \in Nat
        OBVIOUS
      <4>2. ~(k - 1 = x /\ r - 1 = y)
        BY <2>3
      <4> QED
        BY <4>1, <4>2, IndexInjective
    <3>2. page[r][k] = buf[j]
      BY <2>3 DEF RowsOf
    <3>3. new[j] = buf[j]
      <4> HIDE DEF n, j, new
      <4> QED
        BY <1>1, <1>2, <2>1, <3>1
    <3> QED
      BY <3>2, <3>3
  <2> QED
    BY <2>2, <2>3
<1>4. RowsOf(new) = [r \in 1 .. height |-> [k \in 1 .. width |-> page[r][k]]]
  BY <1>3 DEF RowsOf
<1>5. page = [r \in 1 .. height |-> [k \in 1 .. width |-> page[r][k]]]
  BY DEF RowsOf
<1> QED
  BY <1>4, <1>5 DEF OnPage!Set

\* term_scroll shifts the page by one row and brings in the row below.
LEMMA ScrollRows ==
  ASSUME NEW buf \in [Cells -> Cell], \A k \in Cells : k \notin Screen => buf[k] = below
  PROVE  RowsOf(term_scroll(buf)) = Append(Tail(RowsOf(buf)), RowUnder)
<1> USE ScreenAssumption
<1> DEFINE Row == [1 .. width -> Cell \cup {below}]
           old == RowsOf(buf)
           new == RowsOf(term_scroll(buf))
           tail == Tail(old)
           page == Append(tail, RowUnder)
<1>1. ASSUME NEW r \in 1 .. height, NEW k \in 1 .. width
      PROVE  /\ (r - 1) * width + (k - 1) \in Screen
             /\ ((r - 1) * width + (k - 1)) + width = r * width + (k - 1)
             /\ r * width + (k - 1) \in Cells
             /\ r = height => r * width + (k - 1) \notin Screen
  <2>1. k - 1 \in 0 .. width - 1 /\ r - 1 \in 0 .. height /\ r - 1 < height /\ r \in 0 .. height
    OBVIOUS
  <2>2. (r - 1) * width + (k - 1) \in Screen
    BY <2>1, IndexRange
  <2>3. r * width = (r - 1) * width + width
    OBVIOUS
  <2>4. r * width \in Int /\ (r - 1) * width \in Int
    OBVIOUS
  <2>5. ((r - 1) * width + (k - 1)) + width = r * width + (k - 1)
    BY <2>3, <2>4
  <2>6. r * width + (k - 1) \in Cells /\ (r = height => r * width + (k - 1) \notin Screen)
    BY <2>1, IndexRange
  <2> QED
    BY <2>2, <2>5, <2>6
<1>2. ASSUME NEW r \in 1 .. height, NEW k \in 1 .. width
      PROVE  new[r][k] = buf[r * width + (k - 1)]
  <2>1. new[r][k] = term_scroll(buf)[(r - 1) * width + (k - 1)]
    BY DEF RowsOf
  <2>2. PICK n : n = (r - 1) * width + (k - 1)
    OBVIOUS
  <2>3. n \in Screen /\ n \in Cells /\ n + width = r * width + (k - 1)
    <3>1. r - 1 \in 0 .. height /\ k - 1 \in 0 .. width - 1
      OBVIOUS
    <3> QED
      BY <1>1, <2>2, <3>1, IndexRange
  <2>4. term_scroll(buf)[n] = buf[n + width]
    BY <2>3 DEF term_scroll
  <2> QED
    BY <2>1, <2>2, <2>3, <2>4
<1>3. old \in Seq(Row) /\ Len(old) = height /\ RowUnder \in Row
  <2>1. ASSUME NEW r \in 1 .. height PROVE old[r] \in Row
    <3>1. \A k \in 1 .. width : (r - 1) * width + (k - 1) \in Cells
      <4>1. r - 1 \in 0 .. height /\ \A k \in 1 .. width : k - 1 \in 0 .. width - 1
        OBVIOUS
      <4> QED
        BY <4>1, IndexRange
    <3>2. \A k \in 1 .. width : buf[(r - 1) * width + (k - 1)] \in Cell
      BY <3>1
    <3> QED
      BY <3>2 DEF RowsOf
  <2>2. old \in [1 .. height -> Row]
    BY <2>1 DEF RowsOf
  <2>3. RowUnder \in Row
    BY DEF RowUnder
  <2> HIDE DEF old, Row
  <2> QED
    BY <2>2, <2>3
<1>4. new \in [1 .. height -> [1 .. width -> Cell \cup {below}]] /\ new \in Seq(Row) /\ Len(new) = height
  <2>1. ASSUME NEW r \in 1 .. height PROVE new[r] \in Row
    <3>1. \A k \in 1 .. width : new[r][k] \in Cell
      BY <1>1, <1>2
    <3> QED
      BY <3>1 DEF RowsOf
  <2>2. new \in [1 .. height -> Row]
    BY <2>1 DEF RowsOf
  <2> HIDE DEF new
  <2> QED
    BY <2>2
<1>5. \A r \in 1 .. height, k \in 1 .. width : old[r][k] = buf[(r - 1) * width + (k - 1)]
  BY DEF RowsOf
<1> HIDE DEF old, new, Row
<1>6. /\ tail \in Seq(Row) /\ Len(tail) = height - 1
      /\ \A r \in 1 .. height - 1 : tail[r] = old[r + 1]
  <2>1. old # << >>
    BY <1>3
  <2> QED
    BY <1>3, <2>1, HeadTailProperties
<1> HIDE DEF tail
<1>7. /\ page \in Seq(Row) /\ Len(page) = height /\ page[height] = RowUnder
      /\ \A r \in 1 .. height - 1 : page[r] = old[r + 1]
  BY <1>3, <1>6
<1> HIDE DEF page
<1>8. ASSUME NEW r \in 1 .. height PROVE new[r] = page[r]
  <2>1. CASE r = height
    <3>1. \A k \in 1 .. width : new[r][k] = below
      BY <1>1, <1>2, <2>1
    <3>2. new[r] = RowUnder
      BY <1>4, <3>1 DEF RowUnder
    <3> QED
      BY <1>7, <2>1, <3>2
  <2>2. CASE r # height
    <3>1. r + 1 \in 1 .. height /\ (r + 1) - 1 = r /\ r \in 1 .. height - 1
      BY <2>2
    <3>2. \A k \in 1 .. width : new[r][k] = old[r + 1][k]
      BY <1>2, <1>5, <3>1
    <3>3. old[r + 1] \in [1 .. width -> Cell \cup {below}] /\ new[r] \in [1 .. width -> Cell \cup {below}]
      BY <1>3, <1>4, <3>1 DEF Row
    <3>4. new[r] = old[r + 1]
      BY <3>2, <3>3
    <3> QED
      BY <1>7, <3>1, <3>4
  <2> QED
    BY <2>1, <2>2
<1>9. new = page
  BY <1>4, <1>7, <1>8, SeqEqual
<1> QED
  BY <1>9 DEF new, page, tail, old

-----------------------------------------------------------------------------
(* term_putchar, character by character.                                   *)

\* The row below the cursor's, and the array once it is on the screen.
NextY      == IF ypos + 1 = height THEN ypos ELSE ypos + 1
NextBuffer == IF ypos + 1 = height THEN term_scroll(buffer) ELSE buffer

\* '\n'
LEMMA PutNewLine ==
  ASSUME TypeOK, term_putchar(NL)
  PROVE  buffer' = NextBuffer /\ xpos' = 0 /\ ypos' = NextY
<1> USE ScreenAssumption DEF TypeOK
<1> DEFINE p == [x |-> xpos, y |-> ypos]
<1>1. Move(p, NL) = [x |-> 0, y |-> ypos + 1]
  BY DEF Move, NL, BS
<1>2. Wrap(Move(p, NL)) = [x |-> 0, y |-> ypos + 1]
  BY <1>1 DEF Wrap
<1>3. NeedsScroll(Wrap(Move(p, NL))) <=> ypos + 1 = height
  BY <1>2 DEF NeedsScroll
<1>4. Target(p, NL) = [x |-> 0, y |-> NextY]
  BY <1>2, <1>3 DEF Target, PushBack, NextY
<1>5. PutcharPos(p, NL) = [x |-> 0, y |-> NextY]
  BY <1>4 DEF PutcharPos, Advance, Ordinary
<1> QED
  BY <1>3, <1>5 DEF term_putchar, NextBuffer, Ordinary, NL, BS

\* '\b', which does not leave the row.
LEMMA PutBackspace ==
  ASSUME TypeOK, term_putchar(BS)
  PROVE  /\ xpos > 0 => /\ buffer' = term_putentryat(buffer, Blank, [x |-> xpos - 1, y |-> ypos])
                        /\ xpos' = xpos - 1 /\ ypos' = ypos
         /\ xpos = 0 => buffer' = buffer /\ xpos' = xpos /\ ypos' = ypos
<1> USE ScreenAssumption DEF TypeOK
<1> DEFINE p == [x |-> xpos, y |-> ypos]
           left == IF xpos > 0 THEN xpos - 1 ELSE xpos
<1>1. Move(p, BS) = [x |-> left, y |-> ypos]
  BY DEF Move, NL, BS
<1>2. Wrap(Move(p, BS)) = [x |-> left, y |-> ypos]
  BY <1>1 DEF Wrap
<1>3. ~NeedsScroll(Wrap(Move(p, BS)))
  BY <1>2 DEF NeedsScroll
<1>4. PutcharPos(p, BS) = [x |-> left, y |-> ypos]
  BY <1>2, <1>3 DEF PutcharPos, Target, PushBack, Advance, Ordinary
<1> QED
  BY <1>1, <1>3, <1>4 DEF term_putchar, Ordinary

\* Any other character wraps first if the cursor is in the last column.
LEMMA PutOrdinary ==
  ASSUME TypeOK, NEW ch, Ordinary(ch), term_putchar(ch)
  PROVE  /\ xpos = width - 1 => /\ buffer' = term_putentryat(NextBuffer, ch, [x |-> 0, y |-> NextY])
                                /\ xpos' = 1 /\ ypos' = NextY
         /\ xpos # width - 1 => /\ buffer' = term_putentryat(buffer, ch, [x |-> xpos, y |-> ypos])
                                /\ xpos' = xpos + 1 /\ ypos' = ypos
<1> USE ScreenAssumption DEF TypeOK
<1> DEFINE p == [x |-> xpos, y |-> ypos]
<1>1. Move(p, ch) = p
  BY DEF Move, Ordinary
<1>2. CASE xpos = width - 1
  <2>1. Wrap(Move(p, ch)) = [x |-> 0, y |-> ypos + 1]
    BY <1>1, <1>2 DEF Wrap
  <2>2. NeedsScroll(Wrap(Move(p, ch))) <=> ypos + 1 = height
    BY <2>1 DEF NeedsScroll
  <2>3. Target(p, ch) = [x |-> 0, y |-> NextY]
    BY <2>1, <2>2 DEF Target, PushBack, NextY
  <2>4. PutcharPos(p, ch) = [x |-> 1, y |-> NextY]
    BY <2>3 DEF PutcharPos, Advance
  <2> QED
    BY <1>2, <2>2, <2>3, <2>4 DEF term_putchar, Ordinary, NextBuffer
<1>3. CASE xpos # width - 1
  <2>1. Wrap(Move(p, ch)) = p
    BY <1>1, <1>3 DEF Wrap
  <2>2. ~NeedsScroll(Wrap(Move(p, ch)))
    BY <2>1 DEF NeedsScroll
  <2>3. Target(p, ch) = p
    BY <2>1, <2>2 DEF Target, PushBack
  <2>4. PutcharPos(p, ch) = [x |-> xpos + 1, y |-> ypos]
    BY <2>3 DEF PutcharPos, Advance
  <2> QED
    BY <1>3, <2>2, <2>3, <2>4 DEF term_putchar, Ordinary
<1> QED
  BY <1>2, <1>3

-----------------------------------------------------------------------------
(* The invariant.                                                          *)

\* An array of cells with the row below in it.
Array(buf) == buf \in [Cells -> Cell] /\ \A k \in Cells : k \notin Screen => buf[k] = below

\* term_scroll reads within the array and leaves the row below alone.
LEMMA ScrollKeeps == ASSUME NEW buf, Array(buf) PROVE Array(term_scroll(buf))
<1>1. ASSUME NEW k \in Screen PROVE k + width \in Cells
  <2>1. width * (height + 1) = width * height + width /\ width * height \in Nat
    BY ScreenAssumption
  <2> QED
    BY <2>1, ScreenAssumption DEF Cells, Screen
<1> QED
  BY <1>1 DEF Array, term_scroll

\* term_putentryat at a place on the screen leaves it alone too.
LEMMA PutKeeps ==
  ASSUME NEW buf, Array(buf), NEW x \in 0 .. width - 1, NEW y \in 0 .. height - 1,
         NEW ch \in Glyphs \cup {Blank}, color \in Colors
  PROVE  Array(term_putentryat(buf, ch, [x |-> x, y |-> y]))
<1> DEFINE n == y * width + x
<1>1. n \in Screen
  <2>1. y \in 0 .. height /\ y < height
    BY ScreenAssumption
  <2> QED
    BY <2>1, IndexRange
<1>2. term_putentryat(buf, ch, [x |-> x, y |-> y]) = [buf EXCEPT ![n] = <<ch, color>>]
  BY DEF term_putentryat, Index, make_vgaentry
<1>3. <<ch, color>> \in Cell
  BY DEF Cell
<1> HIDE DEF n
<1> QED
  BY <1>1, <1>2, <1>3 DEF Array

\* The screen starts blank.
LEMMA InitInv == Init => IInv
<1> SUFFICES ASSUME Init PROVE IInv
  OBVIOUS
<1>1. buffer \in [Cells -> Cell]
  <2>1. <<Blank, color>> \in Cell /\ below \in Cell
    BY DEF Init, Cell
  <2> QED
    BY <2>1 DEF Init
<1>2. TypeOK
  BY <1>1, ScreenAssumption DEF Init, TypeOK
<1>3. RowBelow
  BY DEF Init, RowBelow
<1> QED
  BY <1>2, <1>3 DEF IInv

\* A character, whichever it is, keeps the invariant.
LEMMA PutcharInv ==
  ASSUME IInv, NEW ch \in Glyphs \cup {Blank, NL, BS}, term_putchar(ch)
  PROVE  IInv'
<1> USE ScreenAssumption
<1>1. color' = color /\ below' = below
  BY DEF term_putchar
<1>2. Array(buffer) /\ color \in Colors
  BY DEF IInv, TypeOK, RowBelow, Array
<1>3. Array(NextBuffer) /\ NextY \in 0 .. height - 1
  BY <1>2, ScrollKeeps DEF NextBuffer, NextY, IInv, TypeOK
<1>4. Array(buffer') /\ xpos' \in 0 .. width - 1 /\ ypos' \in 0 .. height - 1
  <2>1. CASE ch = NL
    BY <1>3, <2>1, PutNewLine DEF IInv
  <2>2. CASE ch = BS /\ xpos > 0
    <3>1. xpos - 1 \in 0 .. width - 1 /\ ypos \in 0 .. height - 1
      BY <2>2 DEF IInv, TypeOK
    <3>2. Array(term_putentryat(buffer, Blank, [x |-> xpos - 1, y |-> ypos]))
      BY <1>2, <3>1, PutKeeps
    <3> QED
      BY <2>2, <3>1, <3>2, PutBackspace DEF IInv
  <2>3. CASE ch = BS /\ xpos = 0
    BY <1>2, <2>3, PutBackspace DEF IInv, TypeOK
  <2>4. CASE Ordinary(ch) /\ xpos = width - 1
    <3>1. 0 \in 0 .. width - 1 /\ ch \in Glyphs \cup {Blank}
      BY <2>4 DEF Ordinary
    <3>2. Array(term_putentryat(NextBuffer, ch, [x |-> 0, y |-> NextY]))
      BY <1>2, <1>3, <3>1, PutKeeps
    <3> QED
      BY <1>3, <2>4, <3>2, PutOrdinary DEF IInv
  <2>5. CASE Ordinary(ch) /\ xpos # width - 1
    <3>1. xpos \in 0 .. width - 1 /\ ypos \in 0 .. height - 1 /\ ch \in Glyphs \cup {Blank}
      BY <2>5 DEF Ordinary, IInv, TypeOK
    <3>2. Array(term_putentryat(buffer, ch, [x |-> xpos, y |-> ypos]))
      BY <1>2, <3>1, PutKeeps
    <3> QED
      BY <2>5, <3>1, <3>2, PutOrdinary DEF IInv
  <2>6. xpos > 0 \/ xpos = 0
    BY DEF IInv, TypeOK
  <2> QED
    BY <2>1, <2>2, <2>3, <2>4, <2>5, <2>6 DEF Ordinary
<1>5. TypeOK'
  BY <1>1, <1>4 DEF IInv, TypeOK, Array, Cells, Cell
<1>6. RowBelow'
  BY <1>1, <1>4 DEF RowBelow, Array, Cells, Screen
<1> QED
  BY <1>5, <1>6 DEF IInv

\* Every step keeps the invariant.
LEMMA StepInv == IInv /\ [Next]_vars => IInv'
<1> SUFFICES ASSUME IInv, [Next]_vars PROVE IInv'
  OBVIOUS
<1>1. ASSUME NEW ch \in Glyphs \cup {Blank, NL, BS}, term_putchar(ch) PROVE IInv'
  BY <1>1, PutcharInv
<1>2. ASSUME NEW col \in Colors, term_setcolor(col) PROVE IInv'
  BY <1>2 DEF term_setcolor, IInv, TypeOK, RowBelow, Cells, Screen, Cell
<1>3. CASE UNCHANGED vars
  BY <1>3 DEF vars, IInv, TypeOK, RowBelow, Cells, Screen, Cell
<1> QED
  BY <1>1, <1>2, <1>3 DEF Next

\* The invariant holds for every screen and text.
THEOREM Invariance == Spec => []IInv
BY InitInv, StepInv, PTL DEF Spec

\* term_putchar never leaves the screen with its cursor, nor the array.
THEOREM TypeCorrect == Spec => []TypeOK
<1>1. IInv => TypeOK
  BY DEF IInv
<1> QED
  BY <1>1, Invariance, PTL

-----------------------------------------------------------------------------
(* The refinement.                                                         *)

\* A blank screen is a blank page.
LEMMA InitRefines == Init => OnPage!Init
<1> SUFFICES ASSUME Init PROVE OnPage!Init
  OBVIOUS
<1> USE ScreenAssumption
<1>1. ASSUME NEW r \in 1 .. height, NEW k \in 1 .. width
      PROVE  buffer[(r - 1) * width + (k - 1)] = <<Blank, color>>
  <2>1. r - 1 \in 0 .. height /\ r - 1 < height /\ k - 1 \in 0 .. width - 1
    OBVIOUS
  <2>2. (r - 1) * width + (k - 1) \in Screen /\ (r - 1) * width + (k - 1) \in Cells
    BY <2>1, IndexRange
  <2> QED
    BY <2>2 DEF Init
<1>2. RowsOf(buffer) = [r \in 1 .. height |-> OnPage!RowOf(<<Blank, color>>)]
  BY <1>1 DEF RowsOf, OnPage!RowOf
<1>3. \E ch \in (Glyphs \cup {Blank}) \cup {Blank}, col \in Colors : RowUnder = OnPage!RowOf(<<ch, col>>)
  BY DEF Init, Cell, RowUnder, OnPage!RowOf
<1>4. color \in Colors /\ [x |-> xpos, y |-> ypos] = [x |-> 0, y |-> 0]
  BY DEF Init
<1> QED
  BY <1>2, <1>3, <1>4 DEF OnPage!Init, RowsOf, RowUnder

\* When the cursor moves down, the page does.
LEMMA PageMoves ==
  ASSUME IInv
  PROVE  /\ RowsOf(NextBuffer) = OnPage!PageDown
         /\ NextY = OnPage!NextRow
<1>1. CASE ypos + 1 = height
  <2>1. RowsOf(term_scroll(buffer)) = Append(Tail(RowsOf(buffer)), RowUnder)
    BY ScrollRows DEF IInv, TypeOK, RowBelow
  <2> QED
    BY <1>1, <2>1 DEF NextBuffer, NextY, OnPage!PageDown, OnPage!NextRow, RowsOf, RowUnder
<1>2. CASE ypos + 1 # height
  BY <1>2 DEF NextBuffer, NextY, OnPage!PageDown, OnPage!NextRow, RowsOf
<1> QED
  BY <1>1, <1>2

\* Every character is a step of the page: '\n' a NewLine, '\b' an Erase, or
\* nothing in the first column, and any other character is typed.
LEMMA PutcharRefines ==
  ASSUME IInv, NEW ch \in Glyphs \cup {Blank, NL, BS}, term_putchar(ch)
  PROVE  OnPage!Next \/ UNCHANGED OnPage!vars
<1> USE ScreenAssumption
<1>1. color' = color /\ below' = below
  BY DEF term_putchar
<1>2. /\ buffer \in [Cells -> Cell] /\ xpos \in 0 .. width - 1 /\ ypos \in 0 .. height - 1
      /\ NextBuffer \in [Cells -> Cell] /\ NextY \in 0 .. height - 1 /\ TypeOK
  BY ScrollKeeps DEF IInv, TypeOK, RowBelow, Array, NextBuffer, NextY
<1>3. RowsOf(NextBuffer) = OnPage!PageDown /\ NextY = OnPage!NextRow
  BY PageMoves
<1>4. CASE ch = NL
  <2>1. buffer' = NextBuffer /\ xpos' = 0 /\ ypos' = NextY
    BY <1>2, <1>4, PutNewLine
  <2>2. OnPage!NewLine
    BY <1>1, <1>3, <2>1 DEF OnPage!NewLine, RowsOf
  <2> QED
    BY <2>2 DEF OnPage!Next
<1>5. CASE ch = BS /\ xpos > 0
  <2>1. /\ buffer' = term_putentryat(buffer, Blank, [x |-> xpos - 1, y |-> ypos])
        /\ xpos' = xpos - 1 /\ ypos' = ypos
    BY <1>2, <1>5, PutBackspace
  <2>2. xpos - 1 \in 0 .. width - 1
    BY <1>2, <1>5
  <2>3. RowsOf(buffer') = OnPage!Set(RowsOf(buffer), xpos - 1, ypos, Blank)
    BY <1>2, <2>1, <2>2, PutRows
  <2>4. OnPage!Erase
    BY <1>1, <1>5, <2>1, <2>3 DEF OnPage!Erase, RowsOf
  <2> QED
    BY <2>4 DEF OnPage!Next
<1>6. CASE ch = BS /\ xpos = 0
  <2>1. buffer' = buffer /\ xpos' = xpos /\ ypos' = ypos
    BY <1>2, <1>6, PutBackspace
  <2> QED
    BY <1>1, <2>1 DEF OnPage!vars
<1>7. CASE Ordinary(ch) /\ xpos = width - 1
  <2>1. /\ buffer' = term_putentryat(NextBuffer, ch, [x |-> 0, y |-> NextY])
        /\ xpos' = 1 /\ ypos' = NextY
    BY <1>2, <1>7, PutOrdinary
  <2>2. 0 \in 0 .. width - 1
    OBVIOUS
  <2>3. RowsOf(buffer') = OnPage!Set(RowsOf(NextBuffer), 0, NextY, ch)
    BY <1>2, <2>1, <2>2, PutRows
  <2>4. OnPage!Type(ch)
    BY <1>1, <1>3, <1>7, <2>1, <2>3 DEF OnPage!Type, RowsOf
  <2>5. ch \in Glyphs \cup {Blank}
    BY <1>7 DEF Ordinary
  <2> QED
    BY <2>4, <2>5 DEF OnPage!Next
<1>8. CASE Ordinary(ch) /\ xpos # width - 1
  <2>1. /\ buffer' = term_putentryat(buffer, ch, [x |-> xpos, y |-> ypos])
        /\ xpos' = xpos + 1 /\ ypos' = ypos
    BY <1>2, <1>8, PutOrdinary
  <2>2. RowsOf(buffer') = OnPage!Set(RowsOf(buffer), xpos, ypos, ch)
    BY <1>2, <2>1, PutRows
  <2>3. OnPage!Type(ch)
    BY <1>1, <1>8, <2>1, <2>2 DEF OnPage!Type, RowsOf
  <2>4. ch \in Glyphs \cup {Blank}
    BY <1>8 DEF Ordinary
  <2> QED
    BY <2>3, <2>4 DEF OnPage!Next
<1>9. xpos > 0 \/ xpos = 0
  BY <1>2
<1> QED
  BY <1>4, <1>5, <1>6, <1>7, <1>8, <1>9 DEF Ordinary

\* Every step is one of the page or leaves it alone.
LEMMA StepRefines == IInv /\ [Next]_vars => [OnPage!Next]_OnPage!vars
<1> SUFFICES ASSUME IInv, [Next]_vars PROVE [OnPage!Next]_OnPage!vars
  OBVIOUS
<1>1. ASSUME NEW ch \in Glyphs \cup {Blank, NL, BS}, term_putchar(ch)
      PROVE  [OnPage!Next]_OnPage!vars
  BY <1>1, PutcharRefines
<1>2. ASSUME NEW col \in Colors, term_setcolor(col) PROVE OnPage!Next
  <2>1. OnPage!SetColor
    BY <1>2 DEF term_setcolor, OnPage!SetColor
  <2> QED
    BY <2>1 DEF OnPage!Next
<1>3. CASE UNCHANGED vars
  BY <1>3 DEF vars, OnPage!vars
<1> QED
  BY <1>1, <1>2, <1>3 DEF Next

\* The terminal of term.c implements the page, for every screen size,
\* alphabet and text.
THEOREM Refinement == Spec => ShowsPage
BY InitRefines, StepRefines, Invariance, PTL DEF Spec, ShowsPage, OnPage!Spec
=============================================================================
