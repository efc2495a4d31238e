------------------------------ MODULE VmProofs ------------------------------
(***************************************************************************)
(* Proofs about Vm: for every program, heap and content of unset memory,   *)
(* the machine keeps its types and a plain program is executed as it was   *)
(* assembled.                                                              *)
(***************************************************************************)
EXTENDS Vm, TLAPS, SequenceTheorems, WellFoundedInduction

Instruction == [1 .. 10 -> 0 .. 255]

ImageInv == image \in Seq(Instruction) /\ 10 * Len(image) <= HeapSize

Registers(rs) ==
  /\ rs \in [0 .. 7 -> Shorts]
  /\ \A r \in 0 .. 7 : r \notin {IP, SP} => rs[r] \in 0 .. 255

\* The stack stays behind the instruction pointer: a push moves sp by two
\* and ip by ten. So from ip on the heap is as it was loaded. Behind the
\* image it has one value everywhere, and an instruction of ten equal bytes
\* cannot write anything but the stack.
CodeAhead ==
  (Plain /\ status \in {READY, RUN}) =>
    /\ regs[IP] >= 0 /\ regs[IP] % 10 = 0 /\ 5 * regs[SP] <= regs[IP]
    /\ \E junk \in Junk : \A i \in Addresses : i >= regs[IP] => heap[i] = Copied(image, junk)[i]

MachineInv == Registers(regs) /\ status \in Statuses /\ heap \in [Addresses -> 0 .. 255]

IInv == ImageInv /\ MachineInv /\ CodeAhead

-----------------------------------------------------------------------------
(* Bytes, shorts and the assemblers.                                       *)

\* A char is a byte, a short has sixteen bits and keeps a value that fits.
LEMMA Widths ==
  ASSUME NEW n \in Int
  PROVE  /\ Byte(n) \in 0 .. 255
         /\ Short(n) \in Shorts
         /\ n \in Shorts => Short(n) = n
<1>1. Byte(n) \in 0 .. 255
  BY DEF Byte
<1>2. Short(n) \in Shorts
  BY DEF Short, Shorts
<1>3. ASSUME n \in Shorts PROVE Short(n) = n
  <2>1. (n + 32768) % 65536 = n + 32768
    BY <1>3 DEF Shorts
  <2> QED
    BY <2>1 DEF Short
<1> QED
  BY <1>1, <1>2, <1>3

\* The range of a short in full.
LEMMA ShortRange == /\ \A n \in Shorts : n \in Int
                    /\ \A n \in Int : n \in Shorts <=> n + 32768 >= 0 /\ n <= 32767
<1>1. ASSUME NEW n \in Shorts PROVE n \in Int
  BY <1>1 DEF Shorts
<1>2. ASSUME NEW n \in Int, n \in Shorts PROVE n + 32768 >= 0 /\ n <= 32767
  BY <1>2 DEF Shorts
<1>3. ASSUME NEW n \in Int, n + 32768 >= 0, n <= 32767 PROVE n \in Shorts
  BY <1>3 DEF Shorts
<1> QED
  BY <1>1, <1>2, <1>3

\* A nonempty set of places in a table has a first one.
LEMMA FirstPlace ==
  ASSUME NEW S \in SUBSET (1 .. 7), S # {}
  PROVE  \E i \in S : \A j \in S : i <= j
<1>1. CASE 1 \in S
  BY <1>1
<1>2. CASE 1 \notin S /\ 2 \in S
  BY <1>2
<1>3. CASE {1, 2} \cap S = {} /\ 3 \in S
  BY <1>3
<1>4. CASE {1, 2, 3} \cap S = {} /\ 4 \in S
  BY <1>4
<1>5. CASE {1, 2, 3, 4} \cap S = {} /\ 5 \in S
  BY <1>5
<1>6. CASE {1, 2, 3, 4, 5} \cap S = {} /\ 6 \in S
  BY <1>6
<1>7. CASE {1, 2, 3, 4, 5, 6} \cap S = {} /\ 7 \in S
  BY <1>7
<1>8. PICK s \in S : TRUE
  OBVIOUS
<1>9. s \in Int /\ s >= 1 /\ s <= 7
  OBVIOUS
<1>10. s = 1 \/ s = 2 \/ s = 3 \/ s = 4 \/ s = 5 \/ s = 6 \/ s = 7
  BY <1>9
<1> QED
  BY <1>1, <1>2, <1>3, <1>4, <1>5, <1>6, <1>7, <1>10

\* A lookup in one of the tables gives a place, or -1.
LEMMA LookupType ==
  ASSUME NEW table, NEW at, NEW name, Len(table) \in 0 .. 7
  PROVE  Lookup(table, at, name) \in (0 - 1) .. 6
<1> DEFINE found == {i \in 1 .. Len(table) : Compared(at, name, table[i]) = 0}
<1>1. found \in SUBSET (1 .. 7)
  OBVIOUS
<1>2. CASE found = {}
  BY <1>2 DEF Lookup
<1>3. CASE found # {}
  <2>1. \E i \in found : \A j \in found : i <= j
    BY <1>1, <1>3, FirstPlace
  <2>2. (CHOOSE i \in found : \A j \in found : i <= j) \in found
    BY <2>1
  <2>3. Lookup(table, at, name) = (CHOOSE i \in found : \A j \in found : i <= j) - 1
    BY <1>3 DEF Lookup
  <2> QED
    BY <1>1, <2>2, <2>3, SMTT(30)
<1> QED
  BY <1>2, <1>3

\* An argument has one of the four masks and a short.
LEMMA ArgType ==
  ASSUME NEW at, NEW token \in Argument
  PROVE  parse_arg(at, token).m \in 0 .. 3 /\ parse_arg(at, token).a \in Int
<1>1. get_reg(at, token[2]) \in Int
  BY LookupType DEF get_reg, RegNames
<1>2. CASE token \in {"number", "pointer"} \X Int
  <2>1. PICK k \in {"number", "pointer"}, v \in Int : token = <<k, v>>
    BY <1>2
  <2>2. Short(v) \in Int
    BY DEF Short
  <2>3. CASE k = "number"
    <3>1. parse_arg(at, token) = [m |-> 0, a |-> Short(v)]
      BY <2>1, <2>3 DEF parse_arg
    <3> QED
      BY <3>1, <2>2
  <2>4. CASE k = "pointer"
    <3>1. parse_arg(at, token) = [m |-> 2, a |-> Short(v)]
      BY <2>1, <2>4 DEF parse_arg
    <3> QED
      BY <3>1, <2>2
  <2> QED
    BY <2>3, <2>4
<1>3. CASE token \in {"register", "register pointer"} \X STRING
  <2>1. CASE token[1] = "register"
    <3>1. parse_arg(at, token) = [m |-> 1, a |-> get_reg(at, token[2])]
      BY <2>1 DEF parse_arg
    <3> QED
      BY <3>1, <1>1
  <2>2. CASE token[1] = "register pointer"
    <3>1. parse_arg(at, token) = [m |-> 3, a |-> get_reg(at, token[2])]
      BY <2>2 DEF parse_arg
    <3> QED
      BY <3>1, <1>1
  <2> QED
    BY <1>3, <2>1, <2>2
<1> QED
  BY <1>2, <1>3 DEF Argument

\* The pieces of an instruction put together.
LEMMA Pieces ==
  ASSUME NEW S, NEW m \in Seq(S), NEW c \in Seq(S), NEW a \in Seq(S), NEW b \in Seq(S),
         Len(m) = 1, Len(c) = 1, Len(a) = 4, Len(b) = 4
  PROVE  m \o (c \o a \o b) \in [1 .. 10 -> S]
<1> DEFINE d == c \o a
           e == d \o b
           ins == m \o e
<1>1. d \in Seq(S) /\ Len(d) = Len(c) + Len(a)
  BY ConcatProperties, Zenon
<1> HIDE DEF d
<1>2. e \in Seq(S) /\ Len(e) = Len(d) + Len(b)
  BY <1>1, ConcatProperties, Zenon
<1> HIDE DEF e
<1>3. ins \in Seq(S) /\ Len(ins) = Len(m) + Len(e)
  BY <1>2, ConcatProperties, Zenon
<1> HIDE DEF ins
<1>4. Len(ins) = 10
  BY <1>1, <1>2, <1>3
<1>5. ins \in [1 .. 10 -> S]
  BY <1>3, <1>4, LenProperties
<1> QED
  BY <1>5 DEF ins, e, d

\* An instruction is ten bytes.
LEMMA ParseType ==
  ASSUME NEW table, NEW at, Len(table) \in 0 .. 7, NEW line \in SourceLine,
         NEW unset \in 0 .. 255, NEW pad \in 0 .. 255, NEW mask \in 0 .. 255
  PROVE  <<mask>> \o parse(table, at, line, unset, pad) \in Instruction
<1> DEFINE B == 0 .. 255
           Arg(i) == IF i <= Len(line.args)
                       THEN LET p == parse_arg(at, line.args[i])
                            IN  <<p.m, pad, Byte(p.a), Byte(p.a \div 256)>>
                       ELSE <<unset, pad, unset, unset>>
           op   == Lookup(table, at, line.op)
           code == <<IF op = -1 THEN unset ELSE op>>
<1>1. code \in Seq(B) /\ Len(code) = 1
  <2>1. op \in (0 - 1) .. 6
    BY LookupType
  <2>2. (IF op = -1 THEN unset ELSE op) \in B
    BY <2>1
  <2> QED
    BY <2>2
<1>2. ASSUME NEW i \in 1 .. 2
      PROVE  Arg(i) \in Seq(B) /\ Len(Arg(i)) = 4
  <2>1. CASE i <= Len(line.args)
    <3> DEFINE p == parse_arg(at, line.args[i])
    <3>1. line.args \in Seq(Argument)
      BY DEF SourceLine
    <3>2. line.args[i] \in Argument
      BY <2>1, <3>1
    <3>3. p.m \in 0 .. 3 /\ p.a \in Int
      BY <3>2, ArgType
    <3> HIDE DEF p
    <3>4. PICK m \in 0 .. 3, a \in Int : p.m = m /\ p.a = a
      BY <3>3
    <3>5. Byte(a) \in B /\ Byte(a \div 256) \in B
      BY DEF Byte
    <3>6. Arg(i) = <<m, pad, Byte(a), Byte(a \div 256)>>
      BY <2>1, <3>4 DEF p
    <3>7. m \in B
      OBVIOUS
    <3> HIDE DEF Arg
    <3> QED
      BY <3>5, <3>6, <3>7
  <2>2. CASE ~(i <= Len(line.args))
    BY <2>2
  <2> QED
    BY <2>1, <2>2
<1>3. parse(table, at, line, unset, pad) = code \o Arg(1) \o Arg(2)
  BY DEF parse
<1>4. <<mask>> \in Seq(B) /\ Len(<<mask>>) = 1
  OBVIOUS
<1>5. Arg(1) \in Seq(B) /\ Len(Arg(1)) = 4 /\ Arg(2) \in Seq(B) /\ Len(Arg(2)) = 4
  BY <1>2
<1> HIDE DEF Arg, code
<1>6. <<mask>> \o (code \o Arg(1) \o Arg(2)) \in [1 .. 10 -> B]
  BY <1>1, <1>4, <1>5, Pieces, ZenonT(60)
<1> QED
  BY <1>3, <1>6 DEF Instruction

\* Every set of naturals has a least element.
LEMMA Least ==
  ASSUME NEW S \in SUBSET Nat, S # {}
  PROVE  \E m \in S : \A k \in S : m <= k
<1>1. PICK R : R = OpToRel(<, Nat)
  OBVIOUS
<1>2. IsWellFoundedOn(R, Nat)
  BY <1>1, NatLessThanWellFounded
<1>3. PICK m \in S : \A y \in S : ~(<<y, m>> \in R)
  BY <1>2, WFMin
<1>4. \A y, x \in Nat : y < x => <<y, x>> \in R
  BY <1>1 DEF OpToRel
<1>5. ASSUME NEW k \in S PROVE m <= k
  <2>1. k \in Nat /\ m \in Nat /\ ~(<<k, m>> \in R)
    BY <1>3, <1>5
  <2>2. ~(k < m)
    BY <1>4, <2>1
  <2>3. QED
    BY <2>1, <2>2
<1>6. QED
  BY <1>5

\* Induction, for a set.
LEMMA Induction ==
  ASSUME NEW T, 0 \in T, \A k \in Nat : k \in T => k + 1 \in T
  PROVE  \A k \in Nat : k \in T
<1>1. SUFFICES ASSUME NEW k \in Nat, k \notin T PROVE FALSE
  OBVIOUS
<1>2. PICK S : S = {j \in Nat : j \notin T}
  OBVIOUS
<1>3. PICK m \in S : \A j \in S : m <= j
  BY <1>1, <1>2, Least
<1>4. m \in Nat /\ m \notin T
  BY <1>2, <1>3
<1>5. m # 0
  BY <1>4
<1>6. m - 1 \in Nat /\ (m - 1) + 1 = m /\ ~(m <= m - 1)
  BY <1>4, <1>5
<1>7. m - 1 \in T
  BY <1>2, <1>3, <1>6
<1>8. QED
  BY <1>4, <1>6, <1>7

\* One line of the loop over the text, with what f says of the rest.
Rest(p, f, i) ==
  IF i > Len(p) \/ (i <= Len(p) /\ p[i].op = "#") THEN << >>
  ELSE IF p[i].op # "" \/ i = 1 THEN <<p[i]>> \o f[i + 1]
  ELSE IF i = Len(p) THEN << >>
  ELSE <<[p[i + 1] EXCEPT !.op = "?"]>> \o f[i + 2]

\* Where the rest is lines and no more than there are left, so is this.
LEMMA RestType ==
  ASSUME NEW p \in Seq(SourceLine), NEW f, NEW i \in 1 .. Len(p) + 1,
         \A j \in i + 1 .. Len(p) + 1 : f[j] \in Seq(SourceLine) /\ Len(f[j]) <= Len(p) + 1 - j
  PROVE  Rest(p, f, i) \in Seq(SourceLine) /\ Len(Rest(p, f, i)) <= Len(p) + 1 - i
<1>1. PICK n \in Nat : n = Len(p)
  OBVIOUS
<1>2. ASSUME NEW x \in SourceLine, NEW s \in Seq(SourceLine)
      PROVE  <<x>> \o s \in Seq(SourceLine) /\ Len(<<x>> \o s) = Len(s) + 1 /\ Len(s) \in Nat
  OBVIOUS
<1>3. CASE Rest(p, f, i) = << >>
  BY <1>1, <1>3
<1>4. CASE i <= n /\ Rest(p, f, i) = <<p[i]>> \o f[i + 1]
  <2>1. p[i] \in SourceLine /\ i + 1 \in i + 1 .. n + 1 /\ i \in Nat
    BY <1>1, <1>4
  <2>2. f[i + 1] \in Seq(SourceLine) /\ Len(f[i + 1]) <= n + 1 - (i + 1)
    BY <1>1, <2>1
  <2>3. <<p[i]>> \o f[i + 1] \in Seq(SourceLine) /\ Len(<<p[i]>> \o f[i + 1]) = Len(f[i + 1]) + 1
        /\ Len(f[i + 1]) \in Nat
    BY <1>2, <2>1, <2>2
  <2>4. QED
    BY <1>1, <1>4, <2>1, <2>2, <2>3
<1>5. CASE i < n /\ Rest(p, f, i) = <<[p[i + 1] EXCEPT !.op = "?"]>> \o f[i + 2]
  <2>1. i + 1 \in 1 .. n /\ i + 2 \in i + 1 .. n + 1 /\ i \in Nat
    BY <1>1, <1>5
  <2>2. PICK x : x = [p[i + 1] EXCEPT !.op = "?"]
    OBVIOUS
  <2>3. p[i + 1] \in SourceLine
    BY <1>1, <2>1
  <2>4. x \in SourceLine
    <3>1. PICK A, y : A = Seq(Argument) /\ y = p[i + 1]
      OBVIOUS
    <3>2. SourceLine = [op : Word, args : A]
      BY <3>1 DEF SourceLine
    <3>3. "?" \in Word
      BY DEF Word
    <3>4. QED
      BY <2>2, <2>3, <3>1, <3>2, <3>3
  <2>5. f[i + 2] \in Seq(SourceLine) /\ Len(f[i + 2]) <= n + 1 - (i + 2)
    BY <1>1, <2>1
  <2>6. <<x>> \o f[i + 2] \in Seq(SourceLine) /\ Len(<<x>> \o f[i + 2]) = Len(f[i + 2]) + 1
        /\ Len(f[i + 2]) \in Nat
    BY <1>2, <2>4, <2>5
  <2>7. \A l \in Nat : l <= n + 1 - (i + 2) => l + 1 <= n + 1 - i
    BY <2>1
  <2>8. Rest(p, f, i) = <<x>> \o f[i + 2]
    BY <1>5, <2>2
  <2>9. QED
    BY <1>1, <2>5, <2>6, <2>7, <2>8
<1>6. i <= n \/ i > n
  BY <1>1
<1>7. i <= n => i = n \/ i < n
  BY <1>1
<1>8. QED
  BY <1>1, <1>3, <1>4, <1>5, <1>6, <1>7 DEF Rest

\* The recursion of Instructions has a solution,
LEMMA Solution ==
  ASSUME NEW p \in Seq(SourceLine)
  PROVE  \E f : f = [i \in 1 .. Len(p) + 1 |-> Rest(p, f, i)]
<1>1. PICK n \in Nat : n = Len(p)
  OBVIOUS
<1> DEFINE From(k) == {i \in 1 .. n + 1 : i + k > n + 1}
           T == {k \in Nat : \E g : g = [i \in From(k) |-> Rest(p, g, i)]}
<1>2. 0 \in T
  <2>1. From(0) = {}
    OBVIOUS
  <2>2. PICK g : g = [i \in {} |-> Rest(p, << >>, i)]
    OBVIOUS
  <2>3. g = [i \in {} |-> Rest(p, g, i)]
    BY <2>2
  <2>4. QED
    BY <2>1, <2>3
<1>3. ASSUME NEW k \in Nat, k \in T PROVE k + 1 \in T
  <2>1. PICK g : g = [i \in From(k) |-> Rest(p, g, i)]
    BY <1>3
  <2>2. PICK h : h = [i \in From(k + 1) |-> IF i \in From(k) THEN g[i] ELSE Rest(p, g, i)]
    OBVIOUS
  <2>3. ASSUME NEW i \in From(k + 1) PROVE Rest(p, h, i) = Rest(p, g, i)
    <3>1. ASSUME NEW j, j \in {i + 1, i + 2}, j <= n + 1 PROVE h[j] = g[j]
      <4>1. j \in From(k) /\ j \in From(k + 1)
        BY <2>3, <3>1
      <4>2. QED
        BY <2>2, <4>1
    <3>2. i \in Nat /\ (i <= n \/ i > n)
      BY <2>3
    <3>3. CASE i > n
      BY <1>1, <3>3 DEF Rest
    <3>4. CASE i = n
      <4>1. h[i + 1] = g[i + 1]
        BY <3>1, <3>2, <3>4
      <4>2. QED
        BY <1>1, <3>4, <4>1 DEF Rest
    <3>5. CASE i < n
      <4>1. h[i + 1] = g[i + 1] /\ h[i + 2] = g[i + 2]
        <5>1. i + 1 <= n + 1 /\ i + 2 <= n + 1
          BY <3>2, <3>5
        <5>2. QED
          BY <3>1, <5>1
      <4>2. QED
        BY <4>1 DEF Rest
    <3>6. QED
      BY <3>2, <3>3, <3>4, <3>5
  <2>4. ASSUME NEW i \in From(k + 1)
        PROVE  (IF i \in From(k) THEN g[i] ELSE Rest(p, g, i)) = Rest(p, h, i)
    <3>1. i \in From(k) => g[i] = Rest(p, g, i)
      BY <2>1
    <3>2. QED
      BY <2>3, <2>4, <3>1
  <2>5. h = [i \in From(k + 1) |-> Rest(p, h, i)]
    BY <2>2, <2>4
  <2>6. k + 1 \in Nat
    OBVIOUS
  <2> HIDE DEF From
  <2>7. QED
    BY <2>5, <2>6
<1>4. n + 1 \in T
  <2>1. n + 1 \in Nat
    OBVIOUS
  <2> HIDE DEF T
  <2>2. \A k \in Nat : k \in T => k + 1 \in T
    BY <1>3
  <2>3. QED
    BY <1>2, <2>1, <2>2, Induction
<1>5. From(n + 1) = 1 .. n + 1
  OBVIOUS
<1>6. QED
  BY <1>1, <1>4, <1>5

\* and what any solution says of the whole text are lines of it.
LEMMA SolutionType ==
  ASSUME NEW p \in Seq(SourceLine), NEW f, f = [i \in 1 .. Len(p) + 1 |-> Rest(p, f, i)]
  PROVE  f[1] \in Seq(SourceLine) /\ Len(f[1]) <= Len(p)
<1>1. PICK n \in Nat : n = Len(p)
  OBVIOUS
<1> DEFINE Good(i) == f[i] \in Seq(SourceLine) /\ Len(f[i]) <= Len(p) + 1 - i
           T == {k \in Nat : \A i \in 1 .. n + 1 : i + k > n + 1 => Good(i)}
<1>2. 0 \in T
  OBVIOUS
<1>3. ASSUME NEW k \in Nat, k \in T PROVE k + 1 \in T
  <2>1. ASSUME NEW i \in 1 .. n + 1, i + (k + 1) > n + 1 PROVE Good(i)
    <3>1. ASSUME NEW j \in i + 1 .. Len(p) + 1 PROVE Good(j)
      <4>1. j \in 1 .. n + 1 /\ j + k > n + 1
        BY <1>1, <2>1, <3>1
      <4>2. QED
        BY <1>3, <4>1
    <3>2. f[i] = Rest(p, f, i)
      BY <1>1, <2>1
    <3>3. Rest(p, f, i) \in Seq(SourceLine) /\ Len(Rest(p, f, i)) <= Len(p) + 1 - i
      BY <1>1, <2>1, <3>1, RestType
    <3>4. QED
      BY <3>2, <3>3
  <2> HIDE DEF Good
  <2>2. QED
    BY <2>1
<1>4. n + 1 \in T
  <2>1. n + 1 \in Nat
    OBVIOUS
  <2> HIDE DEF T
  <2>2. \A k \in Nat : k \in T => k + 1 \in T
    BY <1>3
  <2>3. QED
    BY <1>2, <2>1, <2>2, Induction
<1>5. Good(1)
  <2>1. 1 \in 1 .. n + 1 /\ 1 + (n + 1) > n + 1
    OBVIOUS
  <2> HIDE DEF Good
  <2>2. QED
    BY <1>4, <2>1
<1>6. QED
  BY <1>1, <1>5

\* Of a text of any length, what the loop over it in dasm and main makes
\* instructions of are source lines, and no more of them than the text has:
\* so the instructions fit wherever ten bytes a line fit.
THEOREM InstructionsType ==
  ASSUME NEW p \in Seq(SourceLine)
  PROVE  Instructions(p) \in Seq(SourceLine) /\ Len(Instructions(p)) <= Len(p)
<1>1. PICK f : f = CHOOSE g : g = [i \in 1 .. Len(p) + 1 |-> Rest(p, g, i)]
  OBVIOUS
<1>2. f = [i \in 1 .. Len(p) + 1 |-> Rest(p, f, i)]
  BY <1>1, Solution, Zenon
<1>3. Instructions(p) = f[1]
  BY <1>1 DEF Instructions, Rest
<1>4. QED
  BY <1>2, <1>3, SolutionType

\* What either assembler makes of a program that may be run is a sequence
\* of instructions that fits the heap.
LEMMA AssembledType ==
  ASSUME NEW p \in Programs, NEW junk \in Junk, NEW im \in {dasm(p, junk), main(p, junk)}
  PROVE  im \in Seq(Instruction) /\ 10 * Len(im) <= HeapSize
<1> DEFINE ins == Instructions(p)
<1>1. ins \in Seq(SourceLine) /\ Len(ins) <= Len(p) /\ Len(p) \in Nat /\ Len(ins) \in Nat
      /\ 10 * Len(p) <= HeapSize /\ HeapSize \in Nat
  BY VmAssumption, InstructionsType
<1>2. junk \in 0 .. 255
  BY VmAssumption
<1>3. \A i \in 1 .. Len(ins) : ins[i] \in SourceLine
  BY <1>1
<1>4. /\ Len(ops) \in 0 .. 7 /\ Len(host_ops) \in 0 .. 7
      /\ 15 \in 0 .. 255 /\ 0 \in 0 .. 255
  BY DEF ops, host_ops
<1> HIDE DEF ins
<1>5. CASE im = dasm(p, junk)
  <2> DEFINE e(i) == <<15>> \o parse(ops, "kernel", ins[i], junk, junk)
  <2>1. ASSUME NEW i \in 1 .. Len(ins) PROVE e(i) \in Instruction
    <3>1. ins[i] \in SourceLine
      BY <1>3
    <3> QED
      BY <1>2, <1>4, <3>1, ParseType, Zenon
  <2>2. im = [i \in 1 .. Len(ins) |-> e(i)]
    BY <1>5 DEF dasm, ins
  <2> HIDE DEF e
  <2>3. im \in Seq(Instruction) /\ Len(im) = Len(ins)
    BY <1>1, <2>1, <2>2
  <2> QED
    BY <1>1, <2>3
<1>6. CASE im = main(p, junk)
  <2> DEFINE e(i) == <<0>> \o parse(host_ops, "host", ins[i], 0, junk)
  <2>1. ASSUME NEW i \in 1 .. Len(ins) PROVE e(i) \in Instruction
    <3>1. ins[i] \in SourceLine
      BY <1>3
    <3> QED
      BY <1>2, <1>4, <3>1, ParseType, Zenon
  <2>2. im = [i \in 1 .. Len(ins) |-> e(i)]
    BY <1>6 DEF main, ins
  <2> HIDE DEF e
  <2>3. im \in Seq(Instruction) /\ Len(im) = Len(ins)
    BY <1>1, <2>1, <2>2
  <2> QED
    BY <1>1, <2>3
<1> QED
  BY <1>5, <1>6

-----------------------------------------------------------------------------
(* Registers and heap stay what they are.                                  *)

\* A store through unsigned char* replaces the low byte of a register.
LEMMA LowByte ==
  ASSUME NEW x \in Int, NEW v \in Int
  PROVE  /\ x \in Shorts => x - Byte(x) + Byte(v) \in Shorts
         /\ x \in 0 .. 255 => x - Byte(x) + Byte(v) \in 0 .. 255
<1>1. Byte(v) \in 0 .. 255
  BY Widths
<1>2. ASSUME x \in Shorts PROVE x - Byte(x) + Byte(v) \in Shorts
  <2>1. PICK q \in Int, b \in 0 .. 255, c \in 0 .. 255 :
          x = 256 * q + b /\ Byte(x) = b /\ Byte(v) = c
    <3>1. x \div 256 \in Int /\ x % 256 \in 0 .. 255 /\ x = 256 * (x \div 256) + (x % 256)
      OBVIOUS
    <3> QED
      BY <1>1, <3>1, ZenonT(60) DEF Byte
  <2>2. x + 32768 >= 0 /\ x <= 32767
    BY <1>2, ShortRange
  <2>3. (256 * q + c) + 32768 >= 0 /\ 256 * q + c <= 32767
    BY <2>1, <2>2
  <2>4. x - Byte(x) + Byte(v) = 256 * q + c
    BY <2>1
  <2> QED
    BY <2>3, <2>4, ShortRange
<1>3. ASSUME x \in 0 .. 255 PROVE x - Byte(x) + Byte(v) \in 0 .. 255
  BY <1>1, <1>3 DEF Byte
<1> QED
  BY <1>2, <1>3

\* The end of the loop moves ip and nothing else.
LEMMA AdvanceType ==
  ASSUME NEW rs, Registers(rs)
  PROVE  /\ Registers(Advance(rs))
         /\ Advance(rs)[IP] = Short(rs[IP] + 10)
         /\ Advance(rs)[SP] = rs[SP]
<1>1. rs[IP] \in Int
  <2>1. rs[IP] \in Shorts
    BY DEF Registers, IP
  <2> QED
    BY <2>1, ShortRange
<1>2. Short(rs[IP] + 10) \in Shorts
  BY <1>1, Widths
<1> QED
  BY <1>2 DEF Registers, Advance, IP, SP

\* What an operand reads is a number.
LEMMA ReadType ==
  ASSUME MachineInv, NEW rs, Registers(rs), NEW m \in Int, NEW a \in Int, Known(rs, m, a)
  PROVE  vm_read(rs, m, a) \in Int
<1>1. status \in Int
  BY DEF MachineInv, Statuses, RUN, WILD
<1>2. ASSUME m \in {1, 3} PROVE RegisterByte(rs, a) \in Int
  <2>0. CASE a = -2
    BY <1>1, <2>0, Widths DEF RegisterByte
  <2>1. CASE a = -1
    <3>1. status \div 65536 \in Int /\ a # -2
      BY <1>1, <2>1
    <3> QED
      BY <2>1, <3>1, Widths DEF RegisterByte
  <2>2. CASE a # -1 /\ a # -2
    <3>1. a \in 0 .. 7
      BY <1>2, <2>2 DEF Known, FLAGS
    <3>2. rs[a] \in Int
      <4>1. rs[a] \in Shorts
        BY <3>1 DEF Registers
      <4> QED
        BY <4>1, ShortRange
    <3> QED
      BY <2>2, <3>2, Widths DEF RegisterByte
  <2> QED
    BY <2>0, <2>1, <2>2
<1>3. ASSUME m \in {2, 3} PROVE heap[Pointer(rs, m, a)] \in Int
  BY <1>3 DEF Known, MachineInv
<1>4. CASE m = 0
  BY <1>4 DEF vm_read
<1>5. CASE m = 1
  BY <1>2, <1>5 DEF vm_read
<1>6. CASE m \in {2, 3}
  BY <1>3, <1>6 DEF vm_read
<1>7. CASE m \notin {0, 1, 2, 3}
  BY <1>7 DEF vm_read
<1> QED
  BY <1>4, <1>5, <1>6, <1>7

\* A write keeps the types; one that names no pointer and only a data
\* register leaves heap, status and sp alone.
LEMMA WriteType ==
  ASSUME MachineInv, NEW rs, Registers(rs), NEW m \in Int, NEW a \in Int, NEW v \in Int,
         Known(rs, m, a), vm_write(rs, m, a, v)
  PROVE  /\ MachineInv'
         /\ m = 0 \/ (m = 1 /\ a \in 0 .. 3) =>
              heap' = heap /\ status' = status /\ regs'[IP] = Short(rs[IP] + 10) /\ regs'[SP] = rs[SP]
<1>1. Byte(v) \in 0 .. 255
  BY Widths
<1>2. heap' \in [Addresses -> 0 .. 255]
  BY <1>1 DEF vm_write, Known, MachineInv
<1>3. status' \in Statuses
  <2>0. CASE m = 1 /\ a = -2
    BY <1>1, <2>0 DEF vm_write, StatusWith, Statuses
  <2>1. CASE m = 1 /\ a = -1
    <3>1. status' = RUN + 65536 * Byte(v)
      BY <2>1 DEF vm_write, StatusWith
    <3>2. PICK b \in 0 .. 255 : b = Byte(v)
      BY <1>1
    <3>3. b = 0 \/ b \in 1 .. 255
      OBVIOUS
    <3>4. b = 0 => status' \in 0 .. 255
      BY <3>1, <3>2 DEF RUN
    <3>5. b \in 1 .. 255 => status' \in {RUN + 65536 * c : c \in 1 .. 255}
      BY <3>1, <3>2
    <3> QED
      BY <3>3, <3>4, <3>5 DEF Statuses
  <2>2. CASE ~(m = 1 /\ a = -1) /\ ~(m = 1 /\ a = -2)
    BY <2>2 DEF vm_write, StatusWith, MachineInv, Statuses
  <2> QED
    BY <2>0, <2>1, <2>2
<1> DEFINE ws == IF m = 1 /\ a >= 0 THEN [rs EXCEPT ![a] = rs[a] - Byte(rs[a]) + Byte(v)] ELSE rs
<1>4. Registers(ws)
  <2>1. CASE m = 1 /\ a >= 0
    <3>1. a \in 0 .. 7
      BY <2>1 DEF Known, FLAGS
    <3> DEFINE x == rs[a]
    <3>2. x \in Shorts /\ (a \notin {IP, SP} => x \in 0 .. 255)
      BY <3>1 DEF Registers
    <3>3. x \in Int
      BY <3>2, ShortRange
    <3>4. /\ x - Byte(x) + Byte(v) \in Shorts
          /\ a \notin {IP, SP} => x - Byte(x) + Byte(v) \in 0 .. 255
      BY <3>2, <3>3, LowByte
    <3>5. ws = [rs EXCEPT ![a] = x - Byte(x) + Byte(v)]
      BY <2>1
    <3> HIDE DEF x, ws
    <3> QED
      BY <3>1, <3>4, <3>5 DEF Registers
  <2>2. CASE ~(m = 1 /\ a >= 0)
    BY <2>2
  <2> QED
    BY <2>1, <2>2
<1>5. regs' = Advance(ws)
  BY DEF vm_write
<1>6. MachineInv'
  <2>1. Registers(regs')
    BY <1>4, <1>5, AdvanceType
  <2> QED
    BY <1>2, <1>3, <2>1 DEF MachineInv, Registers, Addresses
<1>7. ASSUME m = 0 \/ (m = 1 /\ a \in 0 .. 3)
      PROVE  /\ heap' = heap /\ status' = status
             /\ regs'[IP] = Short(rs[IP] + 10) /\ regs'[SP] = rs[SP]
  <2>1. heap' = heap /\ status' = status
    BY <1>7 DEF vm_write, StatusWith
  <2>2. ws[IP] = rs[IP] /\ ws[SP] = rs[SP]
    BY <1>7 DEF Registers, IP, SP
  <2> QED
    BY <1>4, <1>5, <2>1, <2>2, AdvanceType
<1> QED
  BY <1>6, <1>7

-----------------------------------------------------------------------------
(* What vm_get_instuction finds.                                           *)

\* Ten bytes make an instruction with masks and shorts.
LEMMA DecodeType ==
  ASSUME NEW b \in Instruction
  PROVE  LET ins == Decode(b)
         IN  ins.m0 \in 0 .. 255 /\ ins.m1 \in 0 .. 255 /\ ins.a0 \in Int /\ ins.a1 \in Int
<1>1. \A k \in 1 .. 10 : b[k] \in 0 .. 255
  BY DEF Instruction
<1>2. \A c, d \in 0 .. 255 : Short(c + 256 * d) \in Int
  BY DEF Short
<1>3. /\ b[3] \in 0 .. 255 /\ b[5] \in 0 .. 255 /\ b[6] \in 0 .. 255
      /\ b[7] \in 0 .. 255 /\ b[9] \in 0 .. 255 /\ b[10] \in 0 .. 255
  BY <1>1
<1>4. Short(b[5] + 256 * b[6]) \in Int /\ Short(b[9] + 256 * b[10]) \in Int
  BY <1>2, <1>3, ZenonT(60)
<1> QED
  BY <1>3, <1>4 DEF Decode

\* In the heap there are bytes, hence such an instruction.
LEMMA InsType ==
  ASSUME MachineInv, InHeap
  PROVE  Ins.m0 \in Int /\ Ins.m1 \in Int /\ Ins.a0 \in Int /\ Ins.a1 \in Int
<1> DEFINE b == [k \in 1 .. 10 |-> heap[regs[IP] + k - 1]]
<1>1. PICK ip \in Int : ip = regs[IP]
  BY ShortRange DEF MachineInv, Registers, IP
<1>2. \A k \in 1 .. 10 : ip + k - 1 \in Addresses
  BY <1>1, VmAssumption DEF InHeap, Addresses
<1>3. \A k \in 1 .. 10 : heap[ip + k - 1] \in 0 .. 255
  BY <1>2 DEF MachineInv
<1>4. b \in Instruction
  BY <1>1, <1>3 DEF Instruction
<1>5. Ins = Decode(b)
  BY DEF Ins, vm_get_instuction
<1> HIDE DEF b
<1> QED
  BY <1>4, <1>5, DecodeType

\* Ten bytes from a multiple of ten are one instruction of the image.
LEMMA Tens ==
  ASSUME NEW ip \in Nat, ip % 10 = 0, NEW k \in 1 .. 10
  PROVE  (ip + k - 1) \div 10 = ip \div 10 /\ (ip + k - 1) % 10 = k - 1
<1>1. PICK q \in Nat : ip = 10 * q
  <2>1. ip = 10 * (ip \div 10) + (ip % 10) /\ ip \div 10 \in Nat
    OBVIOUS
  <2> QED
    BY <2>1
<1> QED
  BY <1>1

\* While the machine is in a plain program's code, it finds at ip what the
\* assembler made.
LEMMA FoundAsAssembled ==
  ASSUME IInv, Plain, status \in {READY, RUN}, regs[IP] < 10 * Len(image)
  PROVE  LET n == (regs[IP] \div 10) + 1
         IN  n \in 1 .. Len(image) /\ vm_get_instuction(heap, regs[IP]) = Decode(image[n])
<1>1. PICK ip \in Int : ip = regs[IP]
  BY ShortRange DEF IInv, MachineInv, Registers, IP
<1>2. ip >= 0 /\ ip % 10 = 0
  BY <1>1 DEF IInv, CodeAhead
<1>3. PICK junk \in Junk : \A i \in Addresses : i >= ip => heap[i] = Copied(image, junk)[i]
  BY <1>1 DEF IInv, CodeAhead
<1>4. PICK l \in Nat : l = Len(image) /\ ip < 10 * l /\ 10 * l <= HeapSize
  BY <1>1 DEF IInv, ImageInv
<1> DEFINE n == (ip \div 10) + 1
           b == [k \in 1 .. 10 |-> heap[ip + k - 1]]
<1>5. n \in 1 .. l
  BY <1>2, <1>4
<1>6. ASSUME NEW k \in 1 .. 10 PROVE b[k] = image[n][k]
  <2>1. PICK i \in Int : i = ip + k - 1
    OBVIOUS
  <2>2. i \div 10 = ip \div 10 /\ i % 10 = k - 1
    <3>1. ip \in Nat
      BY <1>2
    <3> QED
      BY <1>2, <2>1, <3>1, Tens
  <2>3. i \in Addresses /\ i >= ip /\ i < 10 * l
    <3>1. ip + 9 < 10 * l
      BY <1>2, <1>4
    <3> QED
      BY <1>2, <1>4, <2>1, <3>1, VmAssumption DEF Addresses
  <2>4. Copied(image, junk)[i] = image[(i \div 10) + 1][(i % 10) + 1]
    BY <1>4, <2>3 DEF Copied
  <2>5. (i % 10) + 1 = k
    BY <2>2
  <2>6. heap[i] = image[n][k]
    BY <1>3, <2>2, <2>3, <2>4, <2>5
  <2> QED
    BY <2>1, <2>6
<1>7. Decode(b) = Decode(image[n])
  <2> HIDE DEF b, n
  <2>1. /\ b[2] = image[n][2] /\ b[3] = image[n][3] /\ b[5] = image[n][5] /\ b[6] = image[n][6]
        /\ b[7] = image[n][7] /\ b[9] = image[n][9] /\ b[10] = image[n][10]
    BY <1>6
  <2> QED
    BY <2>1 DEF Decode
<1> QED
  BY <1>1, <1>4, <1>5, <1>7 DEF vm_get_instuction

\* Behind a plain program's code all bytes are equal. A mov or a pop of such
\* bytes names a register that there is not; so no instruction that is
\* executed writes through a pointer or to another register than the data
\* registers, except that a push writes to the stack.
LEMMA PlainWrites ==
  ASSUME IInv, Plain, status = RUN, InHeap, Ins.op \in {1, 3},
         Ins.m0 \in {1, 3} => Ins.a0 <= 7
  PROVE  Ins.m0 = 0 \/ (Ins.m0 = 1 /\ Ins.a0 \in 0 .. 3)
<1>1. CASE regs[IP] < 10 * Len(image)
  <2> DEFINE n == (regs[IP] \div 10) + 1
  <2>1. n \in 1 .. Len(image) /\ Ins = Decode(image[n])
    BY <1>1, FoundAsAssembled DEF Ins
  <2> HIDE DEF n
  <2>2. Ins.op # 0 => Ins.m0 = 0 \/ (Ins.m0 = 1 /\ Ins.a0 \in 0 .. 3)
    BY <2>1 DEF Plain
  <2>3. Ins.op # 0
    OBVIOUS
  <2> QED
    BY <2>2, <2>3
<1>2. CASE ~(regs[IP] < 10 * Len(image))
  <2>1. PICK ip \in Int : ip = regs[IP]
    BY ShortRange DEF IInv, MachineInv, Registers, IP
  <2>2. PICK junk \in Junk : \A i \in Addresses : i >= ip => heap[i] = Copied(image, junk)[i]
    BY <2>1 DEF IInv, CodeAhead
  <2>3. PICK l \in Nat : l = Len(image) /\ ip >= 10 * l
    BY <1>2, <2>1 DEF IInv, ImageInv
  <2>4. ASSUME NEW k \in 1 .. 10 PROVE heap[ip + k - 1] = junk
    <3>1. PICK i \in Int : i = ip + k - 1
      OBVIOUS
    <3>2. i \in Addresses
      BY <2>1, <3>1, VmAssumption DEF InHeap, Addresses
    <3>3. i >= ip /\ ~(i < 10 * l)
      BY <2>3, <3>1
    <3>4. Copied(image, junk)[i] = junk
      BY <2>3, <3>2, <3>3 DEF Copied
    <3> QED
      BY <2>2, <3>1, <3>2, <3>3, <3>4
  <2> DEFINE b == [k \in 1 .. 10 |-> heap[ip + k - 1]]
  <2>5. Ins = Decode(b)
    BY <2>1 DEF Ins, vm_get_instuction
  <2>6. b[2] = junk /\ b[3] = junk /\ b[5] = junk /\ b[6] = junk
    BY <2>4
  <2> HIDE DEF b
  <2>7. Ins.op = junk /\ Ins.m0 = junk /\ Ins.a0 = Short(junk + 256 * junk)
    BY <2>5, <2>6 DEF Decode
  <2>8. junk = 1 \/ junk = 3
    BY <2>7
  <2>9. Short(1 + 256 * 1) = 257 /\ Short(3 + 256 * 3) = 771
    BY DEF Short
  <2>10. Ins.a0 = 257 \/ Ins.a0 = 771
    BY <2>7, <2>8, <2>9
  <2>11. Ins.a0 <= 7
    BY <2>7, <2>8
  <2> QED
    BY <2>10, <2>11
<1> QED
  BY <1>1, <1>2

-----------------------------------------------------------------------------
(* The steps.                                                              *)

\* A step that moves ip on by ten and sp by two at most, and changes no byte
\* beyond the instruction, keeps the stack behind.
LEMMA StaysAhead ==
  ASSUME IInv, status = RUN, InHeap, image' = image,
         Plain => /\ regs'[IP] = Short(regs[IP] + 10)
                  /\ regs'[SP] \in Int /\ 5 * regs'[SP] <= regs[IP] + 10
                  /\ \A i \in Addresses : i >= regs[IP] + 10 => heap'[i] = heap[i]
  PROVE  CodeAhead'
<1> SUFFICES ASSUME Plain'
             PROVE  /\ regs'[IP] >= 0 /\ regs'[IP] % 10 = 0 /\ 5 * regs'[SP] <= regs'[IP]
                    /\ \E junk \in Junk : \A i \in Addresses :
                         i >= regs'[IP] => heap'[i] = Copied(image', junk)[i]
  BY DEF CodeAhead, Copied, Addresses
<1>1. Plain
  BY DEF Plain, Count, OpOf
<1>2. PICK ip \in Int : ip = regs[IP]
  BY ShortRange DEF IInv, MachineInv, Registers, IP
<1>3. ip >= 0 /\ ip % 10 = 0
  BY <1>1, <1>2 DEF IInv, CodeAhead
<1>4. PICK junk \in Junk : \A i \in Addresses : i >= ip => heap[i] = Copied(image, junk)[i]
  BY <1>1, <1>2 DEF IInv, CodeAhead
<1>5. regs'[IP] = ip + 10
  <2>1. ip + 10 \in Shorts
    BY <1>2, <1>3, VmAssumption, ShortRange DEF InHeap
  <2> QED
    BY <1>1, <1>2, <2>1, Widths
<1>6. (ip + 10) >= 0 /\ (ip + 10) % 10 = 0 /\ 5 * regs'[SP] <= ip + 10
  BY <1>1, <1>2, <1>3
<1>7. ASSUME NEW i \in Addresses, i >= ip + 10
      PROVE  heap'[i] = Copied(image, junk)[i]
  <2>1. i \in Int /\ i >= ip
    BY <1>7, VmAssumption DEF Addresses
  <2>2. heap'[i] = heap[i]
    BY <1>1, <1>2, <1>7
  <2> QED
    BY <1>4, <2>1, <2>2
<1> QED
  BY <1>5, <1>6, <1>7

\* In a plain program sp is behind ip.
LEMMA StackBehind ==
  ASSUME IInv, status = RUN
  PROVE  /\ regs[IP] \in Int /\ regs[SP] \in Int
         /\ Plain => regs[IP] >= 0 /\ 5 * regs[SP] <= regs[IP]
<1>1. regs[IP] \in Shorts /\ regs[SP] \in Shorts
  BY DEF IInv, MachineInv, Registers, IP, SP
<1> QED
  BY <1>1, ShortRange DEF IInv, CodeAhead

\* op_mov
LEMMA MovInv == ASSUME IInv, op_mov PROVE IInv'
<1> DEFINE v == vm_read(regs, Ins.m1, Ins.a1)
<1>1. /\ status = RUN /\ InHeap /\ Ins.op = 1 /\ Known(regs, Ins.m1, Ins.a1)
      /\ Known(regs, Ins.m0, Ins.a0) /\ vm_write(regs, Ins.m0, Ins.a0, v)
      /\ image' = image
  BY DEF op_mov, vm_run_op
<1>2. MachineInv /\ Registers(regs)
  BY DEF IInv, MachineInv
<1>3. Ins.m0 \in Int /\ Ins.m1 \in Int /\ Ins.a0 \in Int /\ Ins.a1 \in Int
  BY <1>1, <1>2, InsType
<1>4. v \in Int
  BY <1>1, <1>2, <1>3, ReadType
<1> HIDE DEF v
<1>5. /\ MachineInv'
      /\ Ins.m0 = 0 \/ (Ins.m0 = 1 /\ Ins.a0 \in 0 .. 3) =>
           heap' = heap /\ regs'[IP] = Short(regs[IP] + 10) /\ regs'[SP] = regs[SP]
  BY <1>1, <1>2, <1>3, <1>4, WriteType
<1>6. CodeAhead'
  <2>1. Plain => Ins.m0 = 0 \/ (Ins.m0 = 1 /\ Ins.a0 \in 0 .. 3)
    BY <1>1, PlainWrites DEF Known, FLAGS
  <2>2. Plain => /\ heap' = heap /\ regs'[IP] = Short(regs[IP] + 10)
                 /\ regs'[SP] \in Int /\ 5 * regs'[SP] <= regs[IP] + 10
    BY <1>1, <1>5, <2>1, StackBehind
  <2> QED
    BY <1>1, <2>2, StaysAhead
<1>7. ImageInv'
  BY <1>1 DEF IInv, ImageInv
<1> QED
  BY <1>5, <1>6, <1>7 DEF IInv

\* op_push
LEMMA PushInv == ASSUME IInv, op_push PROVE IInv'
<1> DEFINE v == vm_read(regs, Ins.m0, Ins.a0)
           rs == [regs EXCEPT ![SP] = Short(regs[SP] + 2)]
<1>1. /\ status = RUN /\ InHeap /\ Known(regs, Ins.m0, Ins.a0) /\ regs[SP] \in Addresses
      /\ heap' = [heap EXCEPT ![regs[SP]] = Byte(v)] /\ regs' = Advance(rs)
      /\ image' = image /\ status' = status
  BY DEF op_push, vm_run_op
<1>2. MachineInv /\ Registers(regs)
  BY DEF IInv, MachineInv
<1>3. Ins.m0 \in Int /\ Ins.a0 \in Int
  BY <1>1, <1>2, InsType
<1>4. Byte(v) \in 0 .. 255
  BY <1>1, <1>2, <1>3, ReadType, Widths
<1> HIDE DEF v
<1>5. PICK sp \in Int : sp = regs[SP] /\ sp >= 0 /\ sp < HeapSize
  BY <1>1, VmAssumption DEF Addresses
<1>6. Short(sp + 2) \in Shorts /\ Short(sp + 2) \in Int /\ Short(sp + 2) <= sp + 2
  BY <1>5, Widths DEF Short
<1>7. Registers(rs) /\ rs[IP] = regs[IP] /\ rs[SP] = Short(sp + 2)
  BY <1>2, <1>5, <1>6 DEF Registers, IP, SP
<1> HIDE DEF rs
<1>8. Registers(regs') /\ regs'[IP] = Short(regs[IP] + 10) /\ regs'[SP] = Short(sp + 2)
  BY <1>1, <1>7, AdvanceType
<1>9. MachineInv'
  BY <1>1, <1>2, <1>4, <1>8, SMTT(30) DEF MachineInv, Registers, Statuses, Addresses
<1>10. CodeAhead'
  <2>1. ASSUME Plain
        PROVE  /\ regs'[IP] = Short(regs[IP] + 10)
               /\ regs'[SP] \in Int /\ 5 * regs'[SP] <= regs[IP] + 10
               /\ \A i \in Addresses : i >= regs[IP] + 10 => heap'[i] = heap[i]
    <3>1. PICK ip \in Int : ip = regs[IP] /\ ip >= 0 /\ 5 * sp <= ip
      BY <1>1, <1>5, <2>1, StackBehind
    <3>2. 5 * Short(sp + 2) <= ip + 10
      BY <1>6, <3>1
    <3>3. \A i \in Addresses : i >= ip + 10 => i # sp
      BY <3>1, <1>5, VmAssumption DEF Addresses
    <3>4. \A i \in Addresses : i # sp => heap'[i] = heap[i]
      BY <1>1, <1>2, <1>5 DEF MachineInv
    <3> QED
      BY <1>6, <1>8, <3>1, <3>2, <3>3, <3>4
  <2> QED
    BY <1>1, <2>1, StaysAhead
<1>11. ImageInv'
  BY <1>1 DEF IInv, ImageInv
<1> QED
  BY <1>9, <1>10, <1>11 DEF IInv

\* op_pop
LEMMA PopInv == ASSUME IInv, op_pop PROVE IInv'
<1>1. /\ status = RUN /\ InHeap /\ Ins.op = 3 /\ Known(Popped, Ins.m0, Ins.a0)
      /\ regs[SP] \in Addresses /\ vm_write(Popped, Ins.m0, Ins.a0, heap[regs[SP]])
      /\ image' = image
  BY DEF op_pop, vm_run_op
<1>2. MachineInv /\ Registers(regs)
  BY DEF IInv, MachineInv
<1>3. Ins.m0 \in Int /\ Ins.a0 \in Int
  BY <1>1, <1>2, InsType
<1>4. heap[regs[SP]] \in Int
  BY <1>1, <1>2 DEF MachineInv
<1>5. PICK sp \in Int : sp = regs[SP] /\ sp >= 0 /\ sp < HeapSize
  BY <1>1, VmAssumption DEF Addresses
<1>6. Short(sp - 1) \in Shorts /\ Short(sp - 1) = sp - 1
  <2>1. sp - 1 \in Shorts
    BY <1>5, VmAssumption, ShortRange
  <2> QED
    BY <2>1, Widths
<1>7. Registers(Popped) /\ Popped[IP] = regs[IP] /\ Popped[SP] = sp - 1
  BY <1>2, <1>5, <1>6 DEF Popped, Registers, IP, SP
<1>8. /\ MachineInv'
      /\ Ins.m0 = 0 \/ (Ins.m0 = 1 /\ Ins.a0 \in 0 .. 3) =>
           heap' = heap /\ regs'[IP] = Short(Popped[IP] + 10) /\ regs'[SP] = Popped[SP]
  BY <1>1, <1>2, <1>3, <1>4, <1>7, WriteType
<1>9. CodeAhead'
  <2>1. Plain => Ins.m0 = 0 \/ (Ins.m0 = 1 /\ Ins.a0 \in 0 .. 3)
    BY <1>1, PlainWrites DEF Known, FLAGS
  <2>2. Plain => /\ heap' = heap /\ regs'[IP] = Short(regs[IP] + 10) /\ regs'[SP] = sp - 1
    BY <1>7, <1>8, <2>1
  <2>3. Plain => regs'[SP] \in Int /\ 5 * regs'[SP] <= regs[IP] + 10
    BY <1>1, <1>5, <2>2, StackBehind
  <2> QED
    BY <1>1, <2>2, <2>3, StaysAhead
<1>10. ImageInv'
  BY <1>1 DEF IInv, ImageInv
<1> QED
  BY <1>8, <1>9, <1>10 DEF IInv

\* op_cmp sets or clears three bits of a byte.
LEMMA CmpInv == ASSUME IInv, op_cmp PROVE IInv'
<1> DEFINE a0 == vm_read(regs, Ins.m0, Ins.a0)
           a1 == vm_read(regs, Ins.m1, Ins.a1)
           rs == [regs EXCEPT ![FLAGS] = Compare(regs[FLAGS], a0, a1)]
<1>1. /\ status = RUN /\ InHeap /\ regs' = Advance(rs)
      /\ image' = image /\ heap' = heap /\ status' = status
  BY DEF op_cmp, vm_run_op
<1>2. MachineInv /\ Registers(regs)
  BY DEF IInv, MachineInv
<1>3. Compare(regs[FLAGS], a0, a1) \in 0 .. 255
  <2>1. PICK f \in 0 .. 255 : f = regs[FLAGS]
    BY <1>2 DEF Registers, FLAGS, IP, SP
  <2>2. PICK q \in Int : q = f \div 8 /\ 0 <= q /\ q <= 31
    OBVIOUS
  <2>3. \A b : Bit(b, 1) \in {0, 1} /\ Bit(b, 2) \in {0, 2} /\ Bit(b, 4) \in {0, 4}
    BY DEF Bit
  <2>4. PICK x \in {0, 1}, y \in {0, 2}, z \in {0, 4} :
          x = Bit(a0 = a1, 1) /\ y = Bit(a0 >= a1, 2) /\ z = Bit(a0 <= a1, 4)
    BY <2>3
  <2>5. Compare(f, a0, a1) = 8 * q + x + y + z
    BY <2>2, <2>4 DEF Compare
  <2> QED
    BY <2>1, <2>2, <2>5
<1>4. Registers(rs) /\ rs[IP] = regs[IP] /\ rs[SP] = regs[SP]
  <2>1. PICK c \in 0 .. 255 : c = Compare(regs[FLAGS], a0, a1)
    BY <1>3
  <2>2. c \in Shorts /\ rs = [regs EXCEPT ![7] = c]
    BY <2>1, ShortRange DEF FLAGS
  <2> HIDE DEF rs
  <2> QED
    BY <1>2, <2>2 DEF Registers, IP, SP
<1> HIDE DEF a0, a1, rs
<1>5. Registers(regs') /\ regs'[IP] = Short(regs[IP] + 10) /\ regs'[SP] = regs[SP]
  BY <1>1, <1>4, AdvanceType
<1>6. MachineInv'
  BY <1>1, <1>2, <1>5 DEF MachineInv, Registers, Statuses, Addresses
<1>7. CodeAhead'
  <2>1. Plain => regs'[SP] \in Int /\ 5 * regs'[SP] <= regs[IP] + 10
    BY <1>1, <1>5, StackBehind
  <2> QED
    BY <1>1, <1>5, <2>1, StaysAhead
<1>8. ImageInv'
  BY <1>1 DEF IInv, ImageInv
<1> QED
  BY <1>6, <1>7, <1>8 DEF IInv

\* op_halt, and the steps that leave the machine as it is.
LEMMA OtherInv == ASSUME IInv, op_halt \/ vm_run \/ Wild \/ UNCHANGED vars PROVE IInv'
<1>1. CASE op_halt
  <2>1. /\ status' = DONE /\ regs' = Advance(regs) /\ image' = image /\ heap' = heap
    BY <1>1 DEF op_halt
  <2>2. Registers(regs')
    BY <2>1, AdvanceType DEF IInv, MachineInv
  <2>3. MachineInv'
    BY <2>1, <2>2 DEF IInv, MachineInv, Registers, Statuses, Addresses, DONE
  <2>4. CodeAhead'
    BY <2>1 DEF CodeAhead, DONE, READY, RUN
  <2>5. ImageInv'
    BY <2>1 DEF IInv, ImageInv
  <2> QED
    BY <2>3, <2>4, <2>5 DEF IInv
<1>2. CASE vm_run \/ Wild \/ UNCHANGED vars
  <2>1. /\ image' = image /\ heap' = heap /\ regs' = regs
        /\ (status = READY /\ status' = RUN) \/ status' = WILD \/ status' = status
    BY <1>2 DEF vm_run, Wild, vars
  <2>2. status' \in Statuses
    BY <2>1 DEF IInv, MachineInv, Statuses, RUN
  <2>3. MachineInv'
    BY <2>1, <2>2 DEF IInv, MachineInv, Registers, Addresses
  <2>4. Plain' => Plain
    BY <2>1 DEF Plain, Count, OpOf
  <2>5. status' \in {READY, RUN} => status \in {READY, RUN}
    BY <2>1 DEF READY, RUN, WILD
  <2>6. CodeAhead'
    BY <2>1, <2>4, <2>5 DEF IInv, CodeAhead, Copied, Addresses
  <2>7. ImageInv'
    BY <2>1 DEF IInv, ImageInv
  <2> QED
    BY <2>3, <2>6, <2>7 DEF IInv
<1> QED
  BY <1>1, <1>2

\* The program is loaded at the start of the heap, and so is the stack.
LEMMA LoadInv ==
  ASSUME NEW junk \in Junk, ImageInv, heap = Copied(image, junk),
         regs = [r \in 0 .. FLAGS |-> 0], status = READY
  PROVE  IInv
<1>1. Registers(regs)
  BY ShortRange DEF Registers, FLAGS
<1>2. status \in Statuses
  BY DEF Statuses, READY
<1>3. heap \in [Addresses -> 0 .. 255]
  <2>1. junk \in 0 .. 255
    BY VmAssumption
  <2>2. ASSUME NEW i \in Addresses, i < 10 * Len(image)
        PROVE  image[(i \div 10) + 1][(i % 10) + 1] \in 0 .. 255
    <3>1. i \in Int /\ i >= 0 /\ Len(image) \in Nat
      BY VmAssumption DEF Addresses, ImageInv
    <3>2. (i \div 10) + 1 \in 1 .. Len(image) /\ (i % 10) + 1 \in 1 .. 10
      BY <2>2, <3>1
    <3>3. image[(i \div 10) + 1] \in Instruction
      BY <3>2 DEF ImageInv
    <3> QED
      BY <3>2, <3>3 DEF Instruction
  <2> QED
    BY <2>1, <2>2 DEF Copied
<1>4. CodeAhead
  <2>1. regs[IP] = 0 /\ regs[SP] = 0
    BY DEF IP, SP, FLAGS
  <2>2. regs[IP] >= 0 /\ regs[IP] % 10 = 0 /\ 5 * regs[SP] <= regs[IP]
    BY <2>1
  <2> QED
    BY <2>2 DEF CodeAhead
<1> QED
  BY <1>1, <1>2, <1>3, <1>4 DEF IInv, MachineInv

\* An assembler, vm_init and vm_copy_to_heap.
LEMMA InitInv == Init => IInv
<1> SUFFICES ASSUME Init PROVE IInv
  OBVIOUS
<1>1. PICK p \in Programs, junk \in Junk :
        image \in {dasm(p, junk), main(p, junk)} /\ heap = Copied(image, junk)
  BY DEF Init
<1>2. ImageInv
  BY <1>1, AssembledType DEF ImageInv
<1> QED
  BY <1>1, <1>2, LoadInv DEF Init

\* Every step keeps the invariant.
LEMMA StepInv == IInv /\ [Next]_vars => IInv'
<1> SUFFICES ASSUME IInv, [Next]_vars PROVE IInv'
  OBVIOUS
<1>1. CASE op_mov
  BY <1>1, MovInv
<1>2. CASE op_push
  BY <1>2, PushInv
<1>3. CASE op_pop
  BY <1>3, PopInv
<1>4. CASE op_cmp
  BY <1>4, CmpInv
<1>5. CASE op_halt \/ vm_run \/ Wild \/ UNCHANGED vars
  BY <1>5, OtherInv
<1> QED
  BY <1>1, <1>2, <1>3, <1>4, <1>5 DEF Next

\* What the invariant says of the instruction at ip.
LEMMA Executes == IInv => ExecutesAsAssembled
<1> SUFFICES ASSUME IInv, status = RUN, Plain, regs[IP] < 10 * Len(image)
             PROVE  /\ regs[IP] % 10 = 0
                    /\ vm_get_instuction(heap, regs[IP]) = Decode(image[(regs[IP] \div 10) + 1])
  BY DEF ExecutesAsAssembled
<1>1. regs[IP] % 10 = 0
  BY DEF IInv, CodeAhead
<1> QED
  BY <1>1, FoundAsAssembled

-----------------------------------------------------------------------------
\* The invariant holds of every program that either assembler takes.
THEOREM Invariance == Spec => []IInv
BY InitInv, StepInv, PTL DEF Spec

\* Bytes stay bytes, registers that programs use as data never have more
\* than a byte, and an instruction has ten bytes.
THEOREM TypeCorrect == Spec => []TypeOK
<1>1. IInv => TypeOK
  <2> SUFFICES ASSUME IInv PROVE TypeOK
    OBVIOUS
  <2>1. \A i \in 1 .. Len(image) : Len(image[i]) = 10 /\ \A k \in 1 .. 10 : image[i][k] \in 0 .. 255
    <3>1. ASSUME NEW i \in 1 .. Len(image) PROVE image[i] \in [1 .. 10 -> 0 .. 255]
      BY DEF IInv, ImageInv, Instruction
    <3>2. ASSUME NEW b \in [1 .. 10 -> 0 .. 255] PROVE Len(b) = 10
      OBVIOUS
    <3> QED
      BY <3>1, <3>2, ZenonT(60)
  <2>2. heap \in [Addresses -> 0 .. 255] /\ DOMAIN regs = 0 .. FLAGS
    BY DEF IInv, MachineInv, Registers, FLAGS
  <2>3. \A r \in 0 .. FLAGS : regs[r] \in (IF r \in {IP, SP} THEN Shorts ELSE 0 .. 255)
    BY DEF IInv, MachineInv, Registers, FLAGS
  <2>4. status \in Statuses
    BY DEF IInv, MachineInv
  <2> QED
    BY <2>1, <2>2, <2>3, <2>4 DEF TypeOK
<1> QED
  BY <1>1, Invariance, PTL

\* A plain program of any length is executed as it was assembled, although
\* its stack overwrites its code.
THEOREM PlainIsExecuted == Spec => []ExecutesAsAssembled
BY Invariance, Executes, PTL

\* vm_copy_to_heap with any image that fits the heap, whoever made it.
Load ==
  /\ ImageInv /\ \E junk \in Junk : heap = Copied(image, junk)
  /\ regs = [r \in 0 .. FLAGS |-> 0]
  /\ status = READY

\* A plain image of ten-byte instructions is executed as it was loaded,
\* whatever assembler made it: nothing of the assemblers is used.
THEOREM AnyImage == Load /\ [][Next]_vars => []ExecutesAsAssembled
<1>1. Load => IInv
  BY LoadInv DEF Load
<1> QED
  BY <1>1, Executes, StepInv, PTL
=============================================================================
