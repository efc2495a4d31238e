------------------------------- MODULE Keybd -------------------------------
(***************************************************************************)
(* The line reader of d3: the keyboard interrupt handler (keybd.c), which  *)
(* appends to kb_buffer, and the prompt loop of cmain (kernel.c), which    *)
(* spins on kb_buffer_pending in get_kbd and then copies and clears the    *)
(* same buffer with interrupts enabled.                                    *)
(*                                                                         *)
(* The handler runs through an interrupt gate, so it is one atomic step;   *)
(* the prompt loop is preempted by it between any two memory accesses.     *)
(* The step order of get_kbd and clear_kb_buffer is the statement order,   *)
(* which the shipped d3.kernel keeps (kb_i is read again for the           *)
(* terminator, and stored before kb_buffer_pending).                       *)
(*                                                                         *)
(* Bytes are abstracted: a byte of a buffer is NUL, Junk (uninitialised    *)
(* stack) or the serial number of the keystroke it came from; echoed[s] is *)
(* the character of keystroke s.                                           *)
(*                                                                         *)
(* Neither the handler nor get_kbd tests an index against the size of its  *)
(* array. The first byte stored outside kb_buffer or outside cmain's       *)
(* buffer takes the model to pc = "wild": it lands in other variables or   *)
(* in the stack, and what the loop does from there the source does not say.*)
(***************************************************************************)
EXTENDS Integers, Sequences, FiniteSets

CONSTANTS
  Letters,    \* keys with an entry in kbdus[] other than Enter (Backspace is one)
  Enter,      \* the key of scancode 0x1C
  Command,    \* the word cmain compares the line with ("test")
  BufSize,    \* 256: bytes of kb_buffer and of cmain's buffer
  SizeMax,    \* SIZE_MAX: what kb_i - 1 becomes as a size_t when kb_i = 0
  MaxKeys,    \* bound: keystrokes in one behaviour
  Users       \* subset of BOOLEAN: TRUE for a user who waits for the prompt

ASSUME KeysAssumption    == Enter \notin Letters
ASSUME SizesAssumption   == /\ BufSize \in Nat /\ BufSize >= 2
                            /\ SizeMax \in Nat /\ SizeMax >= BufSize
ASSUME BoundsAssumption  == MaxKeys \in Nat
ASSUME UsersAssumption   == Users \subseteq BOOLEAN

VARIABLES
  kb_i,              \* next free index of kb_buffer
  kb_buffer,         \* written by the handler, read and cleared by get_kbd
  kb_buffer_pending, \* the "lock": 1 once Enter was pressed
  kb_shifted,
  echoed,            \* every character the handler passed to term_putchar, in order
  pc,                \* where the prompt loop is
  size,              \* the size_t argument of get_kbd's mem_cpy
  i,                 \* loop index of mem_cpy and mem_set
  buffer,            \* cmain's char buffer[256]
  printed,           \* the answers cmain has printed, in order
  last,              \* history: serial of the last keystroke handed to cmain
  patient            \* does this user type only at a waiting prompt?

kbVars   == <<kb_i, kb_buffer, kb_buffer_pending, kb_shifted, echoed>>
mainVars == <<pc, size, i, buffer, printed, last>>
vars     == <<kbVars, mainVars, patient>>

NUL  == 0
Junk == -1

Index == 0 .. BufSize - 1
Byte  == Nat \cup {Junk}
Key   == Letters \cup {Enter}
Char  == Key \X {0, 1}

\* The two scancode tables: Enter is '\n' in both of them.
kbdus(sc)         == <<sc, 0>>
kbdus_shifted(sc) == <<sc, IF sc = Enter THEN 0 ELSE 1>>
NewLine           == kbdus(Enter)

\* CString can also hold the character of a junk byte.
JunkChar == <<"junk", 0>>
Text     == Seq(Char \cup {JunkChar})
Reply    == [answer : {"AYYYYYY", "echo"}, text : Text]

PC == {"prompt", "spin", "size", "copy", "term", "mset", "rstI", "rstP", "cmd", "wild"}

TypeOK ==
  /\ kb_i \in 0 .. BufSize + 1 /\ (kb_i > BufSize => pc = "wild")
  /\ kb_buffer \in [Index -> Nat]
  /\ kb_buffer_pending \in {0, 1}
  /\ kb_shifted \in {0, 1}
  /\ echoed \in Seq(Char)
  /\ pc \in PC
  /\ size \in Nat
  /\ i \in Nat
  /\ buffer \in [Index -> Byte]
  /\ printed \in Seq(Reply)
  /\ last \in Nat
  /\ patient \in BOOLEAN

\* Zeroed .bss; cmain's buffer is uninitialised stack.
Init ==
  /\ kb_i = 0
  /\ kb_buffer = [k \in Index |-> NUL]
  /\ kb_buffer_pending = 0
  /\ kb_shifted = 0
  /\ echoed = << >>
  /\ pc = "prompt"
  /\ size = 0
  /\ i = 0
  /\ buffer \in [Index -> {NUL, Junk}]
  /\ printed = << >>
  /\ last = 0
  /\ patient \in Users

-----------------------------------------------------------------------------
(* The interrupt handler, one action per branch on the scancode.           *)

\* kb_buffer[kb_i] = c, whatever kb_i is.
StoreKey(c) ==
  \/ /\ kb_i \in Index
     /\ kb_buffer' = [kb_buffer EXCEPT ![kb_i] = c]
     /\ UNCHANGED pc
  \/ /\ kb_i \notin Index
     /\ pc' = "wild"
     /\ UNCHANGED kb_buffer

\* A patient user types only while get_kbd waits and no line is pending.
UserMayType == patient => (pc = "spin" /\ kb_buffer_pending = 0)

\* Mutant: Enter on an empty line does not raise the flag.
KeyPressedIgnoringEmptyLine(sc) ==
  /\ pc # "wild" /\ Len(echoed) < MaxKeys /\ UserMayType
  /\ echoed' = Append(echoed, kbdus(sc))
  /\ kb_buffer_pending' = IF sc = Enter /\ kb_i > 0 THEN 1 ELSE kb_buffer_pending
  /\ StoreKey(Len(echoed) + 1)
  /\ kb_i' = kb_i + 1
  /\ UNCHANGED <<kb_shifted, size, i, buffer, printed, last, patient>>

\* A key with a character: echo it, raise the flag for Enter, append it.
KeyPressed(sc) ==
  /\ pc # "wild" /\ Len(echoed) < MaxKeys /\ UserMayType
  /\ LET c == IF kb_shifted = 1 THEN kbdus_shifted(sc) ELSE kbdus(sc)
     IN  echoed' = Append(echoed, c)
  /\ kb_buffer_pending' = IF sc = Enter THEN 1 ELSE kb_buffer_pending
  /\ StoreKey(Len(echoed) + 1)
  /\ kb_i' = kb_i + 1
  /\ UNCHANGED <<kb_shifted, size, i, buffer, printed, last, patient>>

\* Mutant: caps lock with ~ for !.
ShiftKeyBitwise(sc) ==
  /\ kb_shifted' = CASE sc = "shift down" -> 1
                     [] sc = "shift up"   -> 0
                     [] sc = "caps"       -> -kb_shifted - 1
  /\ UNCHANGED <<kb_i, kb_buffer, kb_buffer_pending, echoed, mainVars, patient>>

\* Scancodes 0x2A and 0x36 (shift down), 0xAA and 0xB6 (up), 0x3A (caps).
ShiftKey(sc) ==
  /\ kb_shifted' = CASE sc = "shift down" -> 1
                     [] sc = "shift up"   -> 0
                     [] sc = "caps"       -> 1 - kb_shifted
  /\ UNCHANGED <<kb_i, kb_buffer, kb_buffer_pending, echoed, mainVars, patient>>

ShiftScancodes == {"shift down", "shift up", "caps"}

keyboard_handler ==
  \/ \E sc \in Key : KeyPressed(sc)
  \/ \E sc \in ShiftScancodes : ShiftKey(sc)

-----------------------------------------------------------------------------
(* The prompt loop of cmain.                                               *)

\* term_writestring("\n>>>"), then the call of get_kbd.
Prompt ==
  /\ pc = "prompt"
  /\ pc' = "spin"
  /\ UNCHANGED <<kbVars, size, i, buffer, printed, last, patient>>

\* while(!kb_buffer_pending){}
Spin ==
  /\ pc = "spin"
  /\ pc' = IF kb_buffer_pending = 1 THEN "size" ELSE "spin"
  /\ UNCHANGED <<kbVars, size, i, buffer, printed, last, patient>>

\* Mutant: the whole buffer, the newline included, is copied.
CopyNewLineToo ==
  /\ pc = "size"
  /\ size' = kb_i
  /\ i' = size'
  /\ pc' = "copy"
  /\ UNCHANGED <<kbVars, buffer, printed, last, patient>>

\* The argument kb_i - 1, converted to size_t. buffer is on the stack, above
\* kb_buffer, so mem_cpy runs its loop from size down to 1.
CopySize ==
  /\ pc = "size"
  /\ size' = IF kb_i = 0 THEN SizeMax ELSE kb_i - 1
  /\ i' = size'
  /\ pc' = "copy"
  /\ UNCHANGED <<kbVars, buffer, printed, last, patient>>

CopyByte ==
  /\ pc = "copy" /\ i # 0
  /\ buffer' = [buffer EXCEPT ![i - 1] = kb_buffer[i - 1]]
  /\ i' = i - 1
  /\ UNCHANGED <<kbVars, pc, size, printed, last, patient>>

CopyDone ==
  /\ pc = "copy" /\ i = 0
  /\ pc' = "term"
  /\ UNCHANGED <<kbVars, size, i, buffer, printed, last, patient>>

\* dest[kb_i] = 0, with kb_i as it is now: one byte past cmain's buffer when
\* kb_buffer is full.
Terminate ==
  /\ pc = "term"
  /\ \/ /\ kb_i \in Index
        /\ buffer' = [buffer EXCEPT ![kb_i] = NUL]
        /\ i' = 0
        /\ pc' = "mset"
     \/ /\ kb_i \notin Index
        /\ pc' = "wild"
        /\ UNCHANGED <<i, buffer>>
  /\ UNCHANGED <<kbVars, size, printed, last, patient>>

\* clear_kb_buffer: mem_set of all bytes but the last one...
ClearByte ==
  /\ pc = "mset" /\ i < BufSize - 1
  /\ kb_buffer' = [kb_buffer EXCEPT ![i] = NUL]
  /\ i' = i + 1
  /\ UNCHANGED <<kb_i, kb_buffer_pending, kb_shifted, echoed,
                 pc, size, buffer, printed, last, patient>>

ClearDone ==
  /\ pc = "mset" /\ i = BufSize - 1
  /\ pc' = "rstI"
  /\ UNCHANGED <<kbVars, size, i, buffer, printed, last, patient>>

\* ... then kb_i = 0 ...
ResetIndex ==
  /\ pc = "rstI"
  /\ kb_i' = 0
  /\ pc' = "rstP"
  /\ UNCHANGED <<kb_buffer, kb_buffer_pending, kb_shifted, echoed,
                 size, i, buffer, printed, last, patient>>

\* ... then kb_buffer_pending = 0.
ResetPending ==
  /\ pc = "rstP"
  /\ kb_buffer_pending' = 0
  /\ pc' = "cmd"
  /\ UNCHANGED <<kb_i, kb_buffer, kb_shifted, echoed,
                 size, i, buffer, printed, last, patient>>

\* Mutant: the two stores of clear_kb_buffer in the other order.
clear_pending_first ==
  \/ ClearByte \/ ClearDone
  \/ /\ pc = "rstI" /\ pc' = "rstP" /\ kb_buffer_pending' = 0
     /\ UNCHANGED <<kb_i, kb_buffer, kb_shifted, echoed,
                    size, i, buffer, printed, last, patient>>
  \/ /\ pc = "rstP" /\ pc' = "cmd" /\ kb_i' = 0
     /\ UNCHANGED <<kb_buffer, kb_buffer_pending, kb_shifted, echoed,
                    size, i, buffer, printed, last, patient>>

\* Mutant: clear_kb_buffer forgets the index.
clear_without_index ==
  \/ ClearByte \/ ClearDone \/ ResetPending
  \/ /\ pc = "rstI" /\ pc' = "rstP"
     /\ UNCHANGED <<kbVars, size, i, buffer, printed, last, patient>>

clear_kb_buffer == ClearByte \/ ClearDone \/ ResetIndex \/ ResetPending

\* The C string in a buffer, as characters.
StrLen(buf)  == Cardinality({n \in Index : \A k \in 0 .. n : buf[k] # NUL})
CharOf(b)    == IF b \in 1 .. Len(echoed) THEN echoed[b] ELSE JunkChar
CString(buf) == [k \in 1 .. StrLen(buf) |-> CharOf(buf[k - 1])]

\* strcmp of str.c is 1 on equal strings: cmain greets the command and prints
\* any other line back.
Answer(text) == IF text = Command THEN "AYYYYYY" ELSE "echo"

\* Print the answer.
PrintAnswer ==
  /\ printed' = Append(printed, [answer |-> Answer(CString(buffer)),
                                 text   |-> CString(buffer)])
  /\ last' = IF size = 0 THEN last ELSE buffer[size - 1]

\* Mutant: the buffer is not zeroed for the next line.
CommandWithoutZero ==
  /\ pc = "cmd"
  /\ PrintAnswer
  /\ pc' = "prompt"
  /\ UNCHANGED <<kbVars, size, i, buffer, patient>>

\* The rest of the loop's body: answer, then mem_set(&buffer, 0, 256).
RunCommand ==
  /\ pc = "cmd"
  /\ PrintAnswer
  /\ buffer' = [k \in Index |-> NUL]
  /\ pc' = "prompt"
  /\ UNCHANGED <<kbVars, size, i, patient>>

get_kbd == Spin \/ CopySize \/ CopyByte \/ CopyDone \/ Terminate \/ clear_kb_buffer

cmain == Prompt \/ get_kbd \/ RunCommand

Next == keyboard_handler \/ cmain

\* The CPU always runs the loop between interrupts; the user owes nothing.
Spec == Init /\ [][Next]_vars /\ WF_vars(cmain)

-----------------------------------------------------------------------------
(* Properties.                                                             *)

\* get_kbd never asks mem_cpy for kb_i - 1 = SIZE_MAX bytes. The flag and the
\* index are two words that no step reads or writes together: the order of
\* the two stores in clear_kb_buffer is what keeps a raised flag from being
\* seen with an index of zero, whatever the user types in between.
CopySizeSane == pc = "copy" => size < BufSize

\* The copy runs while the handler appends: it must not read a byte the
\* handler may still write.
CopyStable == pc = "copy" => size < kb_i

\* However typing races with reading, a line handed to cmain is an unbroken
\* run of keystrokes, in the order typed, all later than those of the lines
\* before: nothing is delivered twice, swapped or invented.
LinesInOrder ==
  pc = "cmd" => \A k \in 0 .. size - 1 : /\ buffer[k] = buffer[0] + k
                                         /\ buffer[k] > last

\* A byte is stored outside the buffers only if as many keys as kb_buffer
\* holds were typed after the last one handed to cmain: no number of shorter
\* lines, empty lines or lost keys ever adds up to it.
OverrunNeedsFullBuffer == pc = "wild" => Len(echoed) - last >= BufSize

\* From the second prompt on the line is terminated where the copy ended,
\* although get_kbd stores its NUL one byte (or, in a race, several bytes)
\* too far: cmain's own mem_set provides the terminator.
LaterLinesTerminated ==
  (pc = "cmd" /\ printed # << >>) => buffer[size] = NUL

\* The lines a sequence of characters holds, each without its newline.
Ends(s) == {k \in 1 .. Len(s) : s[k] = NewLine}
EndOf(s, n) == CHOOSE e \in Ends(s) : Cardinality({k \in Ends(s) : k <= e}) = n
Line(s, n) ==
  SubSeq(s, IF n = 1 THEN 1 ELSE EndOf(s, n - 1) + 1, EndOf(s, n) - 1)

\* The reply cmain owes to its n-th line.
OwedReply(n) == [answer |-> Answer(Line(echoed, n)), text |-> Line(echoed, n)]

\* A user who waits for the prompt gets, for every line but the first, the
\* reply to exactly what was echoed.
RepliesMatchEcho ==
  patient => \A n \in 2 .. Len(printed) : printed[n] = OwedReply(n)

\* The same of the first line, which is read into an uninitialised buffer.
FirstReplyMatchesEcho ==
  patient /\ Len(printed) = 1 => printed[1] = OwedReply(1)

\* A user who waits for the prompt gets a reply to every Enter, unless a line
\* overran the buffers.
EveryEnterAnswered ==
  \A n \in 1 .. MaxKeys :
    (patient /\ Cardinality(Ends(echoed)) >= n) ~> (Len(printed) >= n \/ pc = "wild")

\* "Put buffer contents into given dest //...then clear out the buffer": all
\* that clear_kb_buffer discards, but for the newline, was copied first.
KeysReadBeforeCleared == pc = "rstI" => kb_i = size + 1
=============================================================================
