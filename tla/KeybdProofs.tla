---------------------------- MODULE KeybdProofs ----------------------------
(***************************************************************************)
(* Proofs about Keybd: the safety invariants of the line reader, for every *)
(* buffer size, every set of keys and every number of keystrokes.          *)
(***************************************************************************)
EXTENDS Keybd, FiniteSetTheorems, TLAPS

\* Between passing the lock and storing kb_i = 0 get_kbd owns the raised flag.
Locked == pc \in {"size", "copy", "term", "mset", "rstI"}

\* A raised flag comes with a non-empty buffer, except after ResetIndex.
LockInv ==
  /\ Locked => kb_buffer_pending = 1
  /\ (kb_buffer_pending = 1 /\ pc # "rstP") => kb_i >= 1

\* Serial number of the keystroke before the one in kb_buffer[0].
Base == Len(echoed) - kb_i

\* kb_buffer holds the latest kb_i keystrokes until it is wiped, and is full
\* when a byte is stored outside it.
BufferInv ==
  /\ last <= Base
  /\ pc = "wild" => kb_i >= BufSize
  /\ pc \notin {"mset", "rstI", "wild"} =>
       \A k \in Index : k < kb_i => kb_buffer[k] = Base + 1 + k

\* What has been copied, and that the handler appends beyond it.
CopyInv ==
  /\ pc = "copy" =>
       /\ size < kb_i /\ i <= size
       /\ \A k \in Index : i <= k /\ k < size => buffer[k] = Base + 1 + k
  /\ pc \in {"term", "mset", "rstI"} =>
       /\ size < kb_i
       /\ \A k \in Index : k < size => buffer[k] = Base + 1 + k
  /\ pc = "mset" => i <= BufSize - 1
  /\ pc \in {"rstP", "cmd"} =>
       /\ size < BufSize
       /\ \A k \in Index : k < size => /\ buffer[k] = buffer[0] + k
                                       /\ buffer[k] > last
                                       /\ buffer[k] <= Base

\* From the second prompt on, everything beyond the copied bytes is NUL.
ZeroInv ==
  printed # << >> =>
    /\ pc \in {"prompt", "spin", "size"} => \A k \in Index : buffer[k] = NUL
    /\ pc \notin {"prompt", "spin", "size"} =>
         \A k \in Index : size <= k => buffer[k] = NUL

IInv == TypeOK /\ LockInv /\ BufferInv /\ CopyInv /\ ZeroInv

-----------------------------------------------------------------------------
\* The C string of any buffer is a text: strlen is a number and every byte
\* stands for a character.
LEMMA CStringType ==
  ASSUME echoed \in Seq(Char), NEW buf \in [Index -> Byte]
  PROVE  CString(buf) \in Text
<1> DEFINE S == {n \in Index : \A k \in 0 .. n : buf[k] # NUL}
<1>1. IsFiniteSet(Index)
  BY FS_Interval, SizesAssumption DEF Index
<1>2. IsFiniteSet(S)
  BY <1>1, FS_Subset
<1>3. StrLen(buf) \in Nat
  BY <1>2, FS_CardinalityType DEF StrLen
<1>4. \A b : CharOf(b) \in Char \cup {JunkChar}
  BY DEF CharOf
<1> QED
  BY <1>3, <1>4 DEF CString, Text

\* The program starts with an empty buffer and a lowered flag.
LEMMA InitInv == Init => IInv
BY SizesAssumption, UsersAssumption
   DEF Init, IInv, TypeOK, LockInv, BufferInv, CopyInv, ZeroInv, Locked, Base,
       Index, Byte, PC, NUL, Junk

\* Neither the user nor the prompt loop breaks the invariant: one step for
\* the handler's branches and one for each step of the loop.
LEMMA NextInv == IInv /\ [Next]_vars => IInv'
<1> SUFFICES ASSUME IInv, [Next]_vars
             PROVE  IInv'
  OBVIOUS
<1> USE SizesAssumption DEF Index, NUL
<1>1. ASSUME NEW sc \in Key, KeyPressed(sc)
      PROVE  IInv'
  <2> USE <1>1 DEF KeyPressed, mainVars
  <2>1. Len(echoed') = Len(echoed) + 1 /\ echoed' \in Seq(Char)
    BY DEF IInv, TypeOK, Char, Key, kbdus, kbdus_shifted
  <2>2. Base' = Base /\ kb_i \in 0 .. BufSize
    BY <2>1 DEF IInv, TypeOK, Base
  <2>3. CASE kb_i \in Index
    <3> USE <2>3 DEF StoreKey
    <3>1. /\ kb_buffer' = [kb_buffer EXCEPT ![kb_i] = Len(echoed) + 1]
          /\ pc' = pc
      OBVIOUS
    <3>2. TypeOK'
      BY <2>1, <3>1 DEF IInv, TypeOK
    <3>3. LockInv'
      BY <3>1 DEF IInv, TypeOK, LockInv, Locked
    <3>4. BufferInv'
      BY <2>2, <3>1 DEF IInv, TypeOK, BufferInv, Base
    <3>5. CopyInv'
      BY <2>2, <3>1, SMTT(30) DEF IInv, TypeOK, CopyInv
    <3>6. ZeroInv'
      BY <3>1 DEF IInv, ZeroInv
    <3> QED
      BY <3>2, <3>3, <3>4, <3>5, <3>6 DEF IInv
  <2>4. CASE kb_i \notin Index
    <3> USE <2>4 DEF StoreKey
    <3>1. pc' = "wild" /\ kb_buffer' = kb_buffer /\ kb_i' = BufSize + 1
      BY <2>2
    <3>2. TypeOK'
      BY <2>1, <3>1 DEF IInv, TypeOK, PC
    <3>3. LockInv' /\ BufferInv' /\ CopyInv'
      BY <2>2, <3>1 DEF IInv, TypeOK, LockInv, Locked, BufferInv, CopyInv
    <3>4. ZeroInv'
      BY <3>1 DEF IInv, ZeroInv
    <3> QED
      BY <3>2, <3>3, <3>4 DEF IInv
  <2> QED
    BY <2>3, <2>4
<1>2. ASSUME NEW sc \in ShiftScancodes, ShiftKey(sc)
      PROVE  IInv'
  <2>1. kb_shifted' \in {0, 1}
    <3>1. 1 - kb_shifted \in {0, 1}
      BY DEF IInv, TypeOK
    <3>2. sc = "shift down" \/ sc = "shift up" \/ sc = "caps"
      BY <1>2 DEF ShiftScancodes
    <3> QED
      BY <1>2, <3>1, <3>2 DEF ShiftKey
  <2> QED
    BY <1>2, <2>1 DEF ShiftKey, mainVars, IInv, TypeOK, LockInv, Locked,
                      BufferInv, CopyInv, ZeroInv, Base
<1>3. CASE Prompt
  BY <1>3 DEF Prompt, kbVars, IInv, TypeOK, PC, LockInv, Locked,
              BufferInv, CopyInv, ZeroInv, Base
<1>4. CASE Spin
  BY <1>4 DEF Spin, kbVars, IInv, TypeOK, PC, LockInv, Locked,
              BufferInv, CopyInv, ZeroInv, Base
<1>5. CASE CopySize
  <2>1. kb_i >= 1 /\ size' = kb_i - 1 /\ i' = size'
    BY <1>5 DEF CopySize, IInv, TypeOK, LockInv, Locked
  <2> QED
    BY <1>5, <2>1 DEF CopySize, kbVars, IInv, TypeOK, PC, LockInv, Locked,
                      BufferInv, CopyInv, ZeroInv, Base
<1>6. CASE CopyByte
  <2> USE <1>6 DEF CopyByte, kbVars
  <2>1. i - 1 \in Index /\ i - 1 < kb_i
    BY DEF IInv, TypeOK, CopyInv
  <2>2. buffer' \in [Index -> Byte] /\ i' \in Nat
    BY <2>1 DEF IInv, TypeOK, Byte
  <2>3. TypeOK' /\ LockInv' /\ BufferInv' /\ Base' = Base
    BY <2>2 DEF IInv, TypeOK, LockInv, Locked, BufferInv, Base
  <2>4. kb_buffer[i - 1] = Base + 1 + (i - 1)
    BY <2>1 DEF IInv, BufferInv
  <2>5. CopyInv'
    BY <2>1, <2>2, <2>3, <2>4 DEF IInv, TypeOK, CopyInv
  <2>6. ZeroInv'
    BY <2>1 DEF IInv, TypeOK, CopyInv, ZeroInv
  <2> QED
    BY <2>3, <2>5, <2>6 DEF IInv
<1>7. CASE CopyDone
  BY <1>7, SMTT(30) DEF CopyDone, kbVars, IInv, TypeOK, PC, LockInv, Locked,
              BufferInv, CopyInv, ZeroInv, Base
<1>8. CASE Terminate
  <2> USE <1>8 DEF Terminate, kbVars
  <2>1. TypeOK'
    BY DEF IInv, TypeOK, PC, Byte
  <2>2. LockInv' /\ BufferInv' /\ ZeroInv'
    BY DEF IInv, TypeOK, LockInv, Locked, BufferInv, ZeroInv, Base
  <2>3. CopyInv'
    BY DEF IInv, TypeOK, CopyInv, Base
  <2> QED
    BY <2>1, <2>2, <2>3 DEF IInv
<1>9. CASE ClearByte
  BY <1>9, SMTT(30) DEF ClearByte, kbVars, IInv, TypeOK, PC, LockInv, Locked,
              BufferInv, CopyInv, ZeroInv, Base
<1>10. CASE ClearDone
  BY <1>10 DEF ClearDone, kbVars, IInv, TypeOK, PC, LockInv, Locked,
               BufferInv, CopyInv, ZeroInv, Base
<1>11. CASE ResetIndex
  <2> USE <1>11 DEF ResetIndex
  <2>1. TypeOK' /\ LockInv' /\ ZeroInv'
    BY DEF IInv, TypeOK, PC, LockInv, Locked, ZeroInv
  <2>2. Base' = Len(echoed) /\ Base <= Base' /\ Base \in Int
    BY DEF IInv, TypeOK, Base
  <2>3. BufferInv'
    BY <2>2 DEF IInv, TypeOK, BufferInv
  <2>4. \A k \in Index : k < size => /\ buffer[k] = buffer[0] + k
                                     /\ buffer[k] > last
                                     /\ buffer[k] <= Len(echoed)
    <3> TAKE k \in Index
    <3> HAVE k < size
    <3>1. buffer[k] = Base + 1 + k /\ buffer[0] = Base + 1 + 0 /\ size < kb_i
      BY DEF IInv, TypeOK, CopyInv
    <3>2. last <= Base /\ last \in Nat /\ Len(echoed) \in Nat /\ kb_i \in Nat
      BY DEF IInv, TypeOK, BufferInv
    <3> QED
      BY <3>1, <3>2 DEF Base, IInv, TypeOK
  <2>5. CopyInv'
    BY <2>2, <2>4 DEF IInv, TypeOK, CopyInv
  <2> QED
    BY <2>1, <2>3, <2>5 DEF IInv
<1>12. CASE ResetPending
  BY <1>12 DEF ResetPending, IInv, TypeOK, PC, LockInv, Locked,
               BufferInv, CopyInv, ZeroInv, Base
<1>13. CASE RunCommand
  <2> USE <1>13 DEF RunCommand, PrintAnswer, kbVars
  <2>1. CString(buffer) \in Text
    BY CStringType DEF IInv, TypeOK
  <2>2. printed' \in Seq(Reply)
    BY <2>1 DEF IInv, TypeOK, Reply, Answer
  <2>3. last' \in Nat /\ last' <= Base
    BY DEF IInv, TypeOK, CopyInv, BufferInv, Base, Byte, Junk
  <2>4. TypeOK'
    BY <2>2, <2>3 DEF IInv, TypeOK, PC, Byte
  <2>5. LockInv' /\ BufferInv' /\ CopyInv' /\ ZeroInv'
    BY <2>3 DEF IInv, TypeOK, LockInv, Locked, BufferInv, CopyInv, ZeroInv, Base
  <2> QED
    BY <2>4, <2>5 DEF IInv
<1>14. CASE UNCHANGED vars
  BY <1>14 DEF vars, kbVars, mainVars, IInv, TypeOK, LockInv, Locked,
               BufferInv, CopyInv, ZeroInv, Base
<1> QED
  BY <1>1, <1>2, <1>3, <1>4, <1>5, <1>6, <1>7, <1>8, <1>9, <1>10, <1>11,
     <1>12, <1>13, <1>14
  DEF Next, keyboard_handler, cmain, get_kbd, clear_kb_buffer

\* The strengthened invariant holds in every reachable state.
THEOREM Invariance == Spec => []IInv
BY InitInv, NextInv, PTL DEF Spec

\* Every variable keeps its type: in particular kb_i passes the end of the
\* buffers only with the byte that is stored outside them, and every printed
\* reply is a text.
THEOREM TypeCorrect == Spec => []TypeOK
<1>1. IInv => TypeOK
  BY DEF IInv
<1> QED
  BY <1>1, Invariance, PTL

\* get_kbd never passes SIZE_MAX to mem_cpy, whatever is typed while it runs.
THEOREM CopyIsSane == Spec => []CopySizeSane
<1>1. IInv => CopySizeSane
  BY SizesAssumption DEF IInv, TypeOK, CopyInv, CopySizeSane, Index
<1> QED
  BY <1>1, Invariance, PTL

\* The bytes mem_cpy reads are never the ones the handler writes.
THEOREM CopyIsStable == Spec => []CopyStable
<1>1. IInv => CopyStable
  BY DEF IInv, CopyInv, CopyStable
<1> QED
  BY <1>1, Invariance, PTL

\* Only a full buffer is overrun: the index never outgrows the keys typed
\* since the last one that was read.
THEOREM OverrunIsFull == Spec => []OverrunNeedsFullBuffer
<1>1. IInv => OverrunNeedsFullBuffer
  BY SizesAssumption DEF IInv, TypeOK, BufferInv, Base, OverrunNeedsFullBuffer
<1> QED
  BY <1>1, Invariance, PTL

\* cmain receives unbroken runs of keystrokes, each later than all before.
THEOREM DeliveryInOrder == Spec => []LinesInOrder
<1>1. IInv => LinesInOrder
  <2> SUFFICES ASSUME IInv, pc = "cmd", NEW k \in 0 .. size - 1
               PROVE  buffer[k] = buffer[0] + k /\ buffer[k] > last
    BY DEF LinesInOrder
  <2>1. k \in Index /\ k < size
    BY SizesAssumption DEF IInv, TypeOK, CopyInv, Index
  <2> QED
    BY <2>1 DEF IInv, CopyInv
<1> QED
  BY <1>1, Invariance, PTL

\* Every line but the first is terminated right after the copied bytes.
THEOREM TerminatedLater == Spec => []LaterLinesTerminated
<1>1. IInv => LaterLinesTerminated
  BY SizesAssumption DEF IInv, TypeOK, CopyInv, ZeroInv, LaterLinesTerminated, Index
<1> QED
  BY <1>1, Invariance, PTL

-----------------------------------------------------------------------------
(* The replies to a user who waits for the prompt. e[1] .. e[m] are the    *)
(* places of the newlines echoed so far, of which the last one belongs to  *)
(* the line being read unless the line is still open.                      *)

\* The line being typed has no Enter yet (nor has one that ran out of the buffer).
Open == pc \in {"prompt", "spin", "wild"} /\ kb_buffer_pending = 0

Split(e, m) ==
  /\ e[0] = 0
  /\ \A j, n \in 0 .. m : j < n => e[j] < e[n]
  /\ Ends(echoed) = {e[n] : n \in 1 .. m}

LineAt(e, n) == SubSeq(echoed, e[n - 1] + 1, e[n] - 1)
ReplyTo(line) == [answer |-> Answer(line), text |-> line]

Echoes(e, m) ==
  /\ Split(e, m)
  /\ m = IF Open THEN Len(printed) ELSE Len(printed) + 1
  /\ e[m] = IF Open THEN Base ELSE Len(echoed)
  /\ ~Open /\ pc \notin {"rstP", "cmd"} => e[m - 1] = Base
  /\ pc \in {"copy", "term", "mset", "rstI"} => size = kb_i - 1
  /\ pc \in {"rstP", "cmd"} =>
       /\ kb_i = 0 /\ e[m - 1] = Len(echoed) - (size + 1)
       /\ \A k \in Index : k < size => buffer[k] = e[m - 1] + 1 + k
  /\ pc \in {"prompt", "cmd"} => kb_buffer_pending = 0
  /\ \A n \in 2 .. Len(printed) : printed[n] = ReplyTo(LineAt(e, n))

EchoInv == patient => \E m \in Nat : \E e \in [0 .. m -> Nat] : Echoes(e, m)

\* Only Enter echoes a newline, shifted or not.
LEMMA NewLineTyped ==
  ASSUME NEW sc \in Key
  PROVE  /\ kbdus(sc) = NewLine <=> sc = Enter
         /\ kbdus_shifted(sc) = NewLine <=> sc = Enter
BY DEF kbdus, kbdus_shifted, NewLine

\* One more character adds its place to the ends if it is a newline.
LEMMA EndsAppend ==
  ASSUME NEW S, NEW s \in Seq(S), NEW c \in S
  PROVE  /\ Ends(s) \subseteq 1 .. Len(s)
         /\ Ends(Append(s, c)) = IF c = NewLine THEN Ends(s) \cup {Len(s) + 1} ELSE Ends(s)
<1>1. Len(s) \in Nat /\ Len(Append(s, c)) = Len(s) + 1
  OBVIOUS
<1>2. \A k \in 1 .. Len(s) : Append(s, c)[k] = s[k]
  BY <1>1
<1>3. Append(s, c)[Len(s) + 1] = c
  BY <1>1
<1>4. \A k : k \in 1 .. (Len(s) + 1) <=> k \in 1 .. Len(s) \/ k = Len(s) + 1
  BY <1>1
<1>5. QED
  BY <1>1, <1>2, <1>3, <1>4 DEF Ends

\* The lines before it stay as they are.
LEMMA LinesAppend ==
  ASSUME NEW S, NEW s \in Seq(S), NEW c \in S, NEW a \in Nat, NEW b \in Nat, b <= Len(s)
  PROVE  SubSeq(Append(s, c), a + 1, b - 1) = SubSeq(s, a + 1, b - 1)
<1>1. Len(s) \in Nat
  OBVIOUS
<1>2. SubSeq(s, a + 1, b - 1) = [k \in 1 .. (b - 1 - a) |-> s[k + a]]
  BY <1>1
<1>3. SubSeq(Append(s, c), a + 1, b - 1) = [k \in 1 .. (b - 1 - a) |-> Append(s, c)[k + a]]
  BY <1>1
<1>4. \A k \in 1 .. (b - 1 - a) : Append(s, c)[k + a] = s[k + a]
  BY <1>1
<1>5. QED
  BY <1>2, <1>3, <1>4

\* Where the newlines stand decides which one ends the n-th line.
LEMMA EndOfSplit ==
  ASSUME NEW m \in Nat, NEW e \in [0 .. m -> Nat], Split(e, m), NEW n \in 1 .. m
  PROVE  EndOf(echoed, n) = e[n]
<1>1. ASSUME NEW j \in 1 .. m
      PROVE  Cardinality({k \in Ends(echoed) : k <= e[j]}) = j
  <2> DEFINE T == {e[l] : l \in 1 .. j}
             f == [l \in 1 .. j |-> e[l]]
  <2>1. j \in Nat /\ \A l \in 1 .. j : l \in 0 .. m /\ l \in 1 .. m
    OBVIOUS
  <2>2. {k \in Ends(echoed) : k <= e[j]} = T
    <3>1. \A l \in 1 .. m : (e[l] <= e[j]) <=> l \in 1 .. j
      <4> TAKE l \in 1 .. m
      <4>1. l \in 0 .. m /\ j \in 0 .. m /\ e[l] \in Nat /\ e[j] \in Nat
        OBVIOUS
      <4>2. (l < j => e[l] < e[j]) /\ (j < l => e[j] < e[l])
        BY <4>1 DEF Split
      <4>3. QED
        BY <4>1, <4>2
    <3>2. Ends(echoed) = {e[l] : l \in 1 .. m}
      BY DEF Split
    <3>3. QED
      BY <2>1, <3>1, <3>2
  <2>3. f \in Bijection(1 .. j, T)
    <3>1. \A x, y \in 1 .. j : e[x] = e[y] => x = y
      <4> TAKE x, y \in 1 .. j
      <4>1. x \in 0 .. m /\ y \in 0 .. m /\ e[x] \in Nat /\ e[y] \in Nat
        BY <2>1
      <4>2. (x < y => e[x] < e[y]) /\ (y < x => e[y] < e[x])
        BY <4>1 DEF Split
      <4>3. QED
        BY <4>1, <4>2
    <3>2. QED
      BY <3>1 DEF Bijection, Injection, Surjection, IsInjective
  <2>4. Cardinality(T) = Cardinality(1 .. j)
    BY <2>3, <2>1, FS_Interval, FS_Bijection DEF ExistsBijection
  <2>5. Cardinality(1 .. j) = j
    BY <2>1, FS_Interval
  <2>6. QED
    BY <2>2, <2>4, <2>5
<1>2. Ends(echoed) = {e[l] : l \in 1 .. m}
  BY DEF Split
<1>3. \A x \in Ends(echoed) : Cardinality({k \in Ends(echoed) : k <= x}) = n <=> x = e[n]
  BY <1>1, <1>2
<1>4. e[n] \in Ends(echoed)
  BY <1>2
<1>5. QED
  BY <1>3, <1>4 DEF EndOf

\* A buffer with size keystrokes and nothing behind them reads as those
\* characters.
LEMMA CStringIsLine ==
  ASSUME TypeOK, NEW b \in Nat, size < BufSize, b + size <= Len(echoed),
         \A k \in Index : k < size => buffer[k] = b + 1 + k,
         \A k \in Index : size <= k => buffer[k] = NUL
  PROVE  CString(buffer) = SubSeq(echoed, b + 1, b + size)
<1> USE SizesAssumption
<1>1. size \in Nat /\ BufSize \in Nat /\ Len(echoed) \in Nat
  BY DEF TypeOK
<1>2. {n \in Index : \A k \in 0 .. n : buffer[k] # NUL} = 0 .. (size - 1)
  <2>1. ASSUME NEW n \in Index
        PROVE  (\A k \in 0 .. n : buffer[k] # NUL) <=> n < size
    <3>1. CASE n < size
      <4>1. ASSUME NEW k \in 0 .. n PROVE buffer[k] # NUL
        <5>1. k \in Index /\ k < size /\ k \in Nat
          BY <1>1, <2>1, <3>1 DEF Index
        <5>2. buffer[k] = b + 1 + k
          BY <5>1
        <5>3. QED
          BY <5>1, <5>2 DEF NUL
      <4>2. QED
        BY <3>1, <4>1
    <3>2. CASE ~(n < size)
      <4>1. n \in 0 .. n /\ buffer[n] = NUL
        BY <1>1, <2>1, <3>2 DEF Index
      <4>2. QED
        BY <3>2, <4>1
    <3>3. QED
      BY <3>1, <3>2
  <2>2. \A n : n \in Index /\ n < size <=> n \in 0 .. (size - 1)
    BY <1>1 DEF Index
  <2>3. QED
    BY <2>1, <2>2
<1>3. StrLen(buffer) = size
  <2>1. Cardinality(0 .. (size - 1)) = size
    BY <1>1, FS_Interval
  <2>2. QED
    BY <1>2, <2>1 DEF StrLen
<1>4. ASSUME NEW k \in 1 .. size
      PROVE  CharOf(buffer[k - 1]) = echoed[k + b]
  <2>1. k - 1 \in Index /\ k - 1 < size
    BY <1>1 DEF Index
  <2>2. buffer[k - 1] = b + 1 + (k - 1)
    BY <2>1
  <2>3. b + 1 + (k - 1) = k + b /\ k + b \in 1 .. Len(echoed)
    BY <1>1
  <2>4. QED
    BY <2>2, <2>3 DEF CharOf
<1>5. CString(buffer) = [k \in 1 .. size |-> echoed[k + b]]
  BY <1>3, <1>4 DEF CString
<1>6. SubSeq(echoed, b + 1, b + size) = [k \in 1 .. size |-> echoed[k + b]]
  BY <1>1
<1>7. QED
  BY <1>5, <1>6

\* The first line is open when the program starts.
LEMMA InitEcho == Init => EchoInv
<1> SUFFICES ASSUME Init PROVE EchoInv
  OBVIOUS
<1> DEFINE e == [n \in 0 .. 0 |-> 0]
<1>1. e \in [0 .. 0 -> Nat] /\ e[0] = 0 /\ 1 .. 0 = {} /\ 0 \in Nat
  OBVIOUS
<1>2. Ends(echoed) = {} /\ Len(echoed) = 0 /\ Len(printed) = 0
  BY DEF Init, Ends
<1> HIDE DEF e
<1>3. Split(e, 0)
  <2>1. \A j, n \in 0 .. 0 : ~(j < n)
    OBVIOUS
  <2>2. QED
    BY <1>1, <1>2, <2>1 DEF Split
<1>4. Open /\ Base = 0
  BY <1>2 DEF Init, Open, Base
<1>5. \A n \in 2 .. Len(printed) : FALSE
  BY <1>2
<1>6. Echoes(e, 0)
  BY <1>1, <1>2, <1>3, <1>4, <1>5 DEF Echoes, Init
<1>7. QED
  BY <1>1, <1>6 DEF EchoInv

\* A typed key extends the open line, or ends it.
LEMMA KeyEcho ==
  ASSUME IInv, patient, NEW m \in Nat, NEW e \in [0 .. m -> Nat], Echoes(e, m),
         NEW sc \in Key, KeyPressed(sc)
  PROVE  \E m2 \in Nat : \E e2 \in [0 .. m2 -> Nat] : Echoes(e2, m2)'
<1> DEFINE c == IF kb_shifted = 1 THEN kbdus_shifted(sc) ELSE kbdus(sc)
<1>1. /\ pc = "spin" /\ pc' \in {"spin", "wild"} /\ kb_buffer_pending = 0 /\ Open
      /\ echoed' = Append(echoed, c)
      /\ kb_buffer_pending' = IF sc = Enter THEN 1 ELSE 0
      /\ kb_i' = kb_i + 1 /\ printed' = printed
  BY DEF KeyPressed, StoreKey, UserMayType, Open
<1>2. /\ echoed \in Seq(Char) /\ Len(echoed) \in Nat /\ kb_i \in Nat /\ Len(printed) \in Nat
      /\ printed \in Seq(Reply)
  BY SizesAssumption DEF IInv, TypeOK, Index
<1>3. c \in Char /\ (c = NewLine <=> sc = Enter)
  BY NewLineTyped DEF Char, Key, kbdus, kbdus_shifted
<1> HIDE DEF c
<1>4. /\ Ends(echoed) \subseteq 1 .. Len(echoed)
      /\ Ends(echoed') = IF sc = Enter THEN Ends(echoed) \cup {Len(echoed) + 1} ELSE Ends(echoed)
  BY <1>1, <1>2, <1>3, EndsAppend
<1>5. Len(echoed') = Len(echoed) + 1 /\ Base' = Base
  BY <1>1, <1>2, <1>3 DEF Base
<1>6. m = Len(printed) /\ e[m] = Base /\ Split(e, m)
  BY <1>1 DEF Echoes
<1>7. \A n \in 0 .. m : e[n] \in Nat /\ e[n] <= Len(echoed)
  <2>1. \A n \in 1 .. m : e[n] \in 1 .. Len(echoed)
    BY <1>4, <1>6 DEF Split
  <2>2. e[0] = 0
    BY <1>6 DEF Split
  <2>3. \A n \in 0 .. m : n = 0 \/ n \in 1 .. m
    OBVIOUS
  <2>4. QED
    BY <1>2, <2>1, <2>2, <2>3
<1>8. ASSUME NEW n \in 2 .. Len(printed)
      PROVE  printed'[n] = ReplyTo(SubSeq(echoed', e[n - 1] + 1, e[n] - 1))
  <2>1. n - 1 \in 0 .. m /\ n \in 0 .. m
    BY <1>2, <1>6
  <2>2. SubSeq(echoed', e[n - 1] + 1, e[n] - 1) = SubSeq(echoed, e[n - 1] + 1, e[n] - 1)
    <3>1. PICK a \in Nat, b \in Nat : a = e[n - 1] /\ b = e[n] /\ b <= Len(echoed)
      BY <1>7, <2>1
    <3>2. echoed \in Seq(Char) /\ c \in Char /\ b <= Len(echoed)
      BY <1>2, <1>3, <3>1
    <3>3. SubSeq(Append(echoed, c), a + 1, b - 1) = SubSeq(echoed, a + 1, b - 1)
      BY ONLY <3>2, a \in Nat, b \in Nat, LinesAppend, Zenon
    <3>4. QED
      BY <1>1, <3>1, <3>3
  <2>3. QED
    BY <1>1, <2>2 DEF Echoes, LineAt
<1>9. CASE sc # Enter
  <2>1. Open' /\ Ends(echoed') = Ends(echoed)
    BY <1>1, <1>4, <1>9 DEF Open
  <2>2. Split(e, m)'
    BY <2>1, <1>6 DEF Split
  <2>3. (\A n \in 2 .. Len(printed) : printed[n] = ReplyTo(LineAt(e, n)))'
    BY <1>1, <1>8 DEF LineAt, ReplyTo, Answer
  <2>4. Echoes(e, m)'
    BY <1>1, <1>5, <1>6, <1>9, <2>1, <2>2, <2>3 DEF Echoes
  <2>5. QED
    BY <2>4
<1>10. CASE sc = Enter
  <2>1. PICK e2 : e2 = [n \in 0 .. m + 1 |-> IF n = m + 1 THEN Len(echoed) + 1 ELSE e[n]]
    OBVIOUS
  <2>2. /\ e2[m + 1] = Len(echoed) + 1
        /\ \A n \in 0 .. m : e2[n] = e[n]
    BY <2>1
  <2>3. \A n : n \in 0 .. m + 1 <=> n \in 0 .. m \/ n = m + 1
    OBVIOUS
  <2>4. e2 \in [0 .. m + 1 -> Nat]
    BY <1>2, <1>7, <2>1
  <2>5. Split(e2, m + 1)'
    <3>1. e2[0] = 0
      BY <1>6, <2>2 DEF Split
    <3>2. ASSUME NEW j \in 0 .. m + 1, NEW n \in 0 .. m + 1, j < n
          PROVE  e2[j] < e2[n]
      <4>1. j \in 0 .. m
        BY <3>2
      <4>2. CASE n \in 0 .. m
        BY <4>1, <4>2, <3>2, <2>2, <1>6 DEF Split
      <4>3. CASE n = m + 1
        BY <4>1, <4>3, <2>2, <1>2, <1>7
      <4>4. QED
        BY <4>2, <4>3, <2>3
    <3>3. Ends(echoed') = {e2[n] : n \in 1 .. m + 1}
      <4>1. Ends(echoed) = {e[n] : n \in 1 .. m}
        BY <1>6 DEF Split
      <4>2. \A n : n \in 1 .. m + 1 <=> n \in 1 .. m \/ n = m + 1
        OBVIOUS
      <4>3. \A n \in 1 .. m : e2[n] = e[n]
        BY <2>2
      <4>4. Ends(echoed') = Ends(echoed) \cup {e2[m + 1]}
        BY <1>4, <1>10, <2>2
      <4>5. {e2[n] : n \in 1 .. m + 1} = {e2[n] : n \in 1 .. m} \cup {e2[m + 1]}
        BY <4>2
      <4>6. {e2[n] : n \in 1 .. m} = {e[n] : n \in 1 .. m}
        BY <4>3
      <4>7. QED
        BY <4>1, <4>4, <4>5, <4>6
    <3>4. QED
      BY <3>1, <3>2, <3>3 DEF Split
  <2>6. ~Open'
    BY <1>1, <1>10 DEF Open
  <2>7. (\A n \in 2 .. Len(printed) : printed[n] = ReplyTo(LineAt(e2, n)))'
    <3>1. ASSUME NEW n \in 2 .. Len(printed)
          PROVE  printed'[n] = ReplyTo(SubSeq(echoed', e2[n - 1] + 1, e2[n] - 1))
      <4>1. n - 1 \in 0 .. m /\ n \in 0 .. m
        BY <1>2, <1>6
      <4>2. QED
        BY <4>1, <1>8, <2>2
    <3>2. QED
      BY <3>1, <1>1 DEF LineAt, ReplyTo, Answer
  <2>8. e2[m + 1] = Len(echoed') /\ e2[(m + 1) - 1] = Base'
    BY <1>5, <1>6, <2>2
  <2>9. Echoes(e2, m + 1)'
    BY <1>1, <1>6, <2>5, <2>6, <2>7, <2>8 DEF Echoes
  <2>10. QED
    BY <2>4, <2>9
<1>11. QED
  BY <1>9, <1>10

\* The answer to a line that was read is the reply to what was echoed.
LEMMA CommandEcho ==
  ASSUME IInv, patient, NEW m \in Nat, NEW e \in [0 .. m -> Nat], Echoes(e, m), RunCommand
  PROVE  Echoes(e, m)'
<1>1. /\ pc = "cmd" /\ pc' = "prompt" /\ kb_buffer_pending = 0
      /\ UNCHANGED <<echoed, kb_i, kb_buffer_pending, size>>
      /\ printed' = Append(printed, ReplyTo(CString(buffer)))
  BY DEF RunCommand, PrintAnswer, kbVars, Echoes, ReplyTo
<1>2. ~Open /\ Open'
  BY <1>1 DEF Open
<1>3. /\ m = Len(printed) + 1 /\ e[m] = Len(echoed) /\ Split(e, m)
      /\ kb_i = 0 /\ e[m - 1] = Len(echoed) - (size + 1)
      /\ \A k \in Index : k < size => buffer[k] = e[m - 1] + 1 + k
      /\ \A n \in 2 .. Len(printed) : printed[n] = ReplyTo(LineAt(e, n))
  BY <1>1, <1>2 DEF Echoes
<1>4. /\ TypeOK /\ printed \in Seq(Reply) /\ Len(printed) \in Nat /\ size \in Nat
      /\ Len(echoed) \in Nat /\ size < BufSize
  BY <1>1 DEF IInv, TypeOK, CopyInv
<1>5. Len(printed') = Len(printed) + 1 /\ Base' = Len(echoed)
  BY <1>1, <1>3, <1>4 DEF Base
<1>6. /\ \A n \in 1 .. Len(printed) : printed'[n] = printed[n]
      /\ printed'[Len(printed) + 1] = ReplyTo(CString(buffer))
  BY <1>1, <1>4
<1>7. ASSUME m >= 2
      PROVE  CString(buffer) = LineAt(e, m)
  <2>0. m - 1 \in 0 .. m
    BY <1>7
  <2>1. PICK b \in Nat : b = e[m - 1]
    BY <2>0
  <2>2. b + size <= Len(echoed) /\ b + size = e[m] - 1
    BY <1>3, <1>4, <2>1
  <2>3. printed # << >>
    BY <1>3, <1>4, <1>7
  <2>4. \A k \in Index : size <= k => buffer[k] = NUL
    BY <1>1, <2>3 DEF IInv, ZeroInv
  <2>5. CString(buffer) = SubSeq(echoed, b + 1, b + size)
    BY <1>3, <1>4, <2>1, <2>2, <2>4, CStringIsLine
  <2>6. QED
    BY <2>1, <2>2, <2>5 DEF LineAt
<1>8. (\A n \in 2 .. Len(printed) : printed[n] = ReplyTo(LineAt(e, n)))'
  <2>1. \A n : LineAt(e, n)' = LineAt(e, n)
    BY <1>1 DEF LineAt
  <2>2. ASSUME NEW n \in 2 .. Len(printed')
        PROVE  printed'[n] = ReplyTo(LineAt(e, n))
    <3>1. CASE n \in 2 .. Len(printed)
      <4>1. n \in 1 .. Len(printed)
        BY <1>4, <3>1
      <4>2. printed[n] = ReplyTo(LineAt(e, n))
        BY <1>3, <3>1
      <4>3. QED
        BY <1>6, <4>1, <4>2
    <3>2. CASE n = Len(printed) + 1
      BY <1>3, <1>4, <1>6, <1>7, <2>2, <3>2
    <3>3. QED
      BY <1>4, <1>5, <2>2, <3>1, <3>2
  <2>3. QED
    BY <2>1, <2>2 DEF ReplyTo, Answer
<1>9. Split(e, m)'
  BY <1>1, <1>3 DEF Split
<1>10. QED
  BY <1>1, <1>2, <1>3, <1>5, <1>8, <1>9 DEF Echoes

\* No step of a user who waits, or of the loop, loses track of the lines.
LEMMA NextEcho == IInv /\ EchoInv /\ [Next]_vars => EchoInv'
<1> SUFFICES ASSUME IInv, EchoInv, [Next]_vars, patient'
             PROVE  \E m \in Nat : \E e \in [0 .. m -> Nat] : Echoes(e, m)'
  BY DEF EchoInv
<1>1. patient
  BY DEF Next, keyboard_handler, cmain, get_kbd, clear_kb_buffer, KeyPressed, ShiftKey, Prompt, Spin,
         CopySize, CopyByte, CopyDone, Terminate, ClearByte, ClearDone, ResetIndex, ResetPending,
         RunCommand, vars
<1>2. PICK m \in Nat : \E e \in [0 .. m -> Nat] : Echoes(e, m)
  BY <1>1 DEF EchoInv
<1>3. PICK e \in [0 .. m -> Nat] : Echoes(e, m)
  BY <1>2
<1>4. ASSUME NEW sc \in Key, KeyPressed(sc)
      PROVE  \E m2 \in Nat : \E e2 \in [0 .. m2 -> Nat] : Echoes(e2, m2)'
  BY <1>1, <1>3, <1>4, KeyEcho
<1>5. ASSUME UNCHANGED <<echoed, printed>>
      PROVE  /\ Split(e, m)'
             /\ (\A n \in 2 .. Len(printed) : printed[n] = ReplyTo(LineAt(e, n)))'
  BY <1>3, <1>5 DEF Echoes, Split, LineAt, ReplyTo, Answer
<1>6. ASSUME NEW sc \in ShiftScancodes, ShiftKey(sc)
      PROVE  Echoes(e, m)'
  <2>1. UNCHANGED <<echoed, printed, pc, size, kb_i, kb_buffer_pending, buffer>>
    BY <1>6 DEF ShiftKey, mainVars
  <2>2. QED
    BY <1>3, <1>5, <2>1 DEF Echoes, Open, Base
<1>7. CASE Prompt \/ Spin
  <2>1. /\ UNCHANGED <<echoed, printed, size, kb_i, kb_buffer_pending, buffer>>
        /\ \/ pc = "prompt" /\ pc' = "spin"
           \/ pc = "spin" /\ pc' = "spin"
           \/ pc = "spin" /\ pc' = "size" /\ kb_buffer_pending = 1
    BY <1>7 DEF Prompt, Spin, kbVars
  <2>2. Open' = Open /\ Base' = Base
    BY <2>1, <1>3 DEF Open, Base, Echoes
  <2>3. QED
    BY <1>3, <1>5, <2>1, <2>2 DEF Echoes
<1>8. CASE CopySize
  <2>1. /\ UNCHANGED <<echoed, printed, kb_i, kb_buffer_pending, buffer>>
        /\ pc = "size" /\ pc' = "copy"
    BY <1>8 DEF CopySize, kbVars
  <2>2. kb_i >= 1 /\ kb_i \in Int
    BY <2>1, SizesAssumption DEF IInv, LockInv, Locked, TypeOK, Index
  <2>3. size' = kb_i' - 1
    BY <1>8, <2>1, <2>2 DEF CopySize
  <2>4. ~Open /\ ~Open' /\ Base' = Base
    BY <2>1 DEF Open, Base
  <2>5. QED
    BY <1>3, <1>5, <2>1, <2>3, <2>4 DEF Echoes
<1>9. CASE CopyByte \/ CopyDone \/ Terminate \/ ClearByte \/ ClearDone
  <2>1. /\ UNCHANGED <<echoed, printed, kb_i, kb_buffer_pending, size>>
        /\ pc \in {"copy", "term", "mset"} /\ pc' \in {"copy", "term", "mset", "rstI", "wild"}
    BY <1>9 DEF CopyByte, CopyDone, Terminate, ClearByte, ClearDone, kbVars
  <2>2. ~Open /\ ~Open' /\ Base' = Base
    BY <2>1 DEF Open, Base, IInv, LockInv, Locked
  <2>3. QED
    BY <1>3, <1>5, <2>1, <2>2 DEF Echoes
<1>10. CASE ResetIndex
  <2>1. /\ UNCHANGED <<echoed, printed, kb_buffer_pending, size, buffer>>
        /\ pc = "rstI" /\ pc' = "rstP" /\ kb_i' = 0
    BY <1>10 DEF ResetIndex
  <2>2. ~Open /\ ~Open'
    BY <2>1 DEF Open
  <2>3. e[m - 1] = Base /\ size = kb_i - 1
    BY <1>3, <2>1, <2>2 DEF Echoes
  <2>4. Base = Len(echoed) - (size + 1)
    BY <2>3, SizesAssumption DEF Base, IInv, TypeOK, Index
  <2>5. \A k \in Index : k < size => buffer[k] = Base + 1 + k
    BY <2>1 DEF IInv, CopyInv
  <2>6. QED
    BY <1>3, <1>5, <2>1, <2>2, <2>3, <2>4, <2>5, ZenonT(60) DEF Echoes
<1>11. CASE ResetPending
  <2>1. /\ UNCHANGED <<echoed, printed, kb_i, size, buffer>>
        /\ pc = "rstP" /\ pc' = "cmd" /\ kb_buffer_pending' = 0
    BY <1>11 DEF ResetPending
  <2>2. ~Open /\ ~Open'
    BY <2>1 DEF Open
  <2>3. QED
    BY <1>3, <1>5, <2>1, <2>2 DEF Echoes
<1>12. CASE RunCommand
  BY <1>1, <1>3, <1>12, CommandEcho
<1>13. CASE UNCHANGED vars
  <2>1. UNCHANGED <<echoed, printed, pc, size, kb_i, kb_buffer_pending, buffer>>
    BY <1>13 DEF vars, kbVars, mainVars
  <2>2. QED
    BY <1>3, <1>5, <2>1 DEF Echoes, Open, Base
<1>14. QED
  BY <1>4, <1>6, <1>7, <1>8, <1>9, <1>10, <1>11, <1>12, <1>13
     DEF Next, keyboard_handler, cmain, get_kbd, clear_kb_buffer

\* A user who waits for the prompt gets, for every line but the first, the
\* reply to exactly what was echoed, however many lines are typed.
THEOREM RepliesAreRight == Spec => []RepliesMatchEcho
<1>1. IInv /\ EchoInv => RepliesMatchEcho
  <2> SUFFICES ASSUME IInv, EchoInv, patient, NEW n \in 2 .. Len(printed)
               PROVE  printed[n] = OwedReply(n)
    BY DEF RepliesMatchEcho
  <2>1. PICK m \in Nat : \E e \in [0 .. m -> Nat] : Echoes(e, m)
    BY DEF EchoInv
  <2>2. PICK e \in [0 .. m -> Nat] : Echoes(e, m)
    BY <2>1
  <2>3. Len(printed) \in Nat /\ n \in 1 .. m /\ n - 1 \in 1 .. m /\ n # 1
    <3>1. Len(printed) \in Nat
      BY DEF IInv, TypeOK
    <3>2. m >= Len(printed)
      BY <2>2, <3>1 DEF Echoes
    <3>3. QED
      BY <3>1, <3>2
  <2>4. EndOf(echoed, n) = e[n] /\ EndOf(echoed, n - 1) = e[n - 1]
    BY <2>2, <2>3, EndOfSplit DEF Echoes
  <2>5. Line(echoed, n) = LineAt(e, n)
    BY <2>3, <2>4 DEF Line, LineAt
  <2>6. QED
    BY <2>2, <2>5 DEF Echoes, OwedReply, ReplyTo
<1>2. Spec => []EchoInv
  BY InitEcho, NextEcho, Invariance, PTL DEF Spec
<1>3. QED
  BY <1>1, <1>2, Invariance, PTL
=============================================================================
