--------------------------------- MODULE Vm ---------------------------------
(***************************************************************************)
(* The virtual machine of vm.c and vm_ops.c, running what one of the two   *)
(* assemblers makes of a program. Code and stack share the heap, both from *)
(* its first byte: the instruction pointer moves by 10 bytes an            *)
(* instruction, the stack pointer up by 2 a push and down by 1 a pop.      *)
(*                                                                         *)
(* A register operand is an index of the shorts of vm_regs_t: 7 is flags,  *)
(* and -1 and -2 are the halves of status, which lies before them. Only a  *)
(* program that rewrites itself has 7 or -2. Any other access outside heap *)
(* and registers hits something else of the kernel; the model stops there  *)
(* ("WILD").                                                               *)
(***************************************************************************)
EXTENDS Dasm, FiniteSets

CONSTANTS
  Programs,    \* programs that may be run: sequences of lines
  HeapSize,    \* bytes of the heap
  Junk         \* values of bytes that nobody has set

\* The heap is malloc(1024); ip and sp are shorts.
ASSUME VmAssumption ==
  /\ HeapSize \in Nat /\ HeapSize <= 32767 /\ Junk \subseteq 0 .. 255
  /\ \A p \in Programs : p \in Seq(SourceLine) /\ 10 * Len(p) <= HeapSize

VARIABLES
  image,      \* the instructions that the assembler made
  heap,       \* the bytes of the heap
  regs,       \* registers 0 to 6, see RegNames, and the flags
  status      \* the int of enum vm_status

vars == <<image, heap, regs, status>>

READY == 0
RUN   == 1
DONE  == 2
WILD  == -1

\* A store to register -2 changes the low byte, one to -1 the third byte.
Statuses == {WILD} \cup 0 .. 255 \cup {RUN + 65536 * b : b \in 1 .. 255}

Addresses == 0 .. HeapSize - 1

IP == 4
SP == 5
BP == 6
FLAGS == 7

-----------------------------------------------------------------------------
(* The machine.                                                            *)

\* Ten bytes as a vm_ins.
Decode(b) == [op |-> b[2], m0 |-> b[3], a0 |-> Short(b[5] + 256 * b[6]),
                           m1 |-> b[7], a1 |-> Short(b[9] + 256 * b[10])]

\* The instruction in a heap at an address.
vm_get_instuction(h, i) == Decode([k \in 1 .. 10 |-> h[i + k - 1]])

\* What lies at regs[2 * a]: the low byte of a register and, before register
\* 0, the third and the first byte of status.
RegisterByte(r, a) == CASE a = -2  -> Byte(status)
                        [] a = -1  -> Byte(status \div 65536)
                        [] OTHER   -> Byte(r[a])

\* The heap index an operand means, for the masks that mean one.
Pointer(r, m, a) == IF m = 2 THEN a + r[BP] ELSE RegisterByte(r, a) + r[BP]

\* The operand names a register or a byte of the heap, or neither is needed.
Known(r, m, a) ==
  /\ m \in {1, 3} => -2 <= a /\ a <= FLAGS
  /\ m \in {2, 3} => Pointer(r, m, a) \in Addresses

vm_read(r, m, a) ==
  CASE m = 0        -> a
    [] m = 1        -> RegisterByte(r, a)
    [] m \in {2, 3} -> heap[Pointer(r, m, a)]
    [] OTHER        -> 0

\* Mutant: the bytes an instruction has without its padding.
AdvanceUnpadded(r) == [r EXCEPT ![IP] = Short(r[IP] + 8)]

\* The end of vm_run's loop.
Advance(r) == [r EXCEPT ![IP] = Short(r[IP] + 10)]

\* The status after a write: while the loop runs it is RUN before.
StatusWith(m, a, v) == CASE m = 1 /\ a = -2 -> Byte(v)
                         [] m = 1 /\ a = -1 -> RUN + 65536 * Byte(v)
                         [] OTHER           -> status

\* Mutant: a register takes all of the value.
vm_write_short(r, m, a, v) ==
  /\ heap' = IF m \in {2, 3} THEN [heap EXCEPT ![Pointer(r, m, a)] = Byte(v)] ELSE heap
  /\ regs' = Advance(IF m = 1 /\ a >= 0 THEN [r EXCEPT ![a] = v] ELSE r)
  /\ status' = StatusWith(m, a, v)

\* A write of value v, starting from registers r, and the end of the loop.
vm_write(r, m, a, v) ==
  /\ heap' = IF m \in {2, 3} THEN [heap EXCEPT ![Pointer(r, m, a)] = Byte(v)] ELSE heap
  /\ regs' = Advance(IF m = 1 /\ a >= 0 THEN [r EXCEPT ![a] = r[a] - Byte(r[a]) + Byte(v)] ELSE r)
  /\ status' = StatusWith(m, a, v)

Ins == vm_get_instuction(heap, regs[IP])

InHeap == regs[IP] >= 0 /\ regs[IP] + 9 < HeapSize

\* vm_run_op calls the handler of operation o.
vm_run_op(o) == status = RUN /\ InHeap /\ Ins.op = o

\* Mutant: the machine is left ready to be run.
op_halt_ready ==
  /\ vm_run_op(0)
  /\ status' = READY
  /\ regs' = Advance(regs)
  /\ UNCHANGED <<image, heap>>

op_halt ==
  /\ vm_run_op(0)
  /\ status' = DONE
  /\ regs' = Advance(regs)
  /\ UNCHANGED <<image, heap>>

op_mov ==
  /\ vm_run_op(1)
  /\ Known(regs, Ins.m1, Ins.a1) /\ Known(regs, Ins.m0, Ins.a0)
  /\ vm_write(regs, Ins.m0, Ins.a0, vm_read(regs, Ins.m1, Ins.a1))
  /\ UNCHANGED image

\* The byte goes to where sp points; sp moves on by two.
op_push ==
  /\ vm_run_op(2)
  /\ Known(regs, Ins.m0, Ins.a0) /\ regs[SP] \in Addresses
  /\ heap' = [heap EXCEPT ![regs[SP]] = Byte(vm_read(regs, Ins.m0, Ins.a0))]
  /\ regs' = Advance([regs EXCEPT ![SP] = Short(regs[SP] + 2)])
  /\ UNCHANGED <<image, status>>

\* The byte comes from where sp points, above what was pushed; sp moves
\* back by one.
Popped == [regs EXCEPT ![SP] = Short(regs[SP] - 1)]

op_pop ==
  /\ vm_run_op(3)
  /\ regs[SP] \in Addresses /\ Known(Popped, Ins.m0, Ins.a0)
  /\ vm_write(Popped, Ins.m0, Ins.a0, heap[regs[SP]])
  /\ UNCHANGED image

\* Each of the three bits is set or cleared, the others stay.
Bit(b, w) == IF b THEN w ELSE 0
Compare(f, a0, a1) ==
  8 * (f \div 8) + Bit(a0 = a1, 1) + Bit(a0 >= a1, 2) + Bit(a0 <= a1, 4)

op_cmp ==
  /\ vm_run_op(4)
  /\ Known(regs, Ins.m0, Ins.a0) /\ Known(regs, Ins.m1, Ins.a1)
  /\ LET a0 == vm_read(regs, Ins.m0, Ins.a0)
         a1 == vm_read(regs, Ins.m1, Ins.a1)
     IN  regs' = Advance([regs EXCEPT ![FLAGS] = Compare(regs[FLAGS], a0, a1)])
  /\ UNCHANGED <<image, heap, status>>

\* An operation without a handler, or an access to something else.
Wild ==
  /\ status = RUN
  /\ \/ ~InHeap
     \/ InHeap /\ Ins.op \notin 0 .. 4
     \/ InHeap /\ Ins.op \in {1, 2, 4} /\ ~Known(regs, Ins.m0, Ins.a0)
     \/ InHeap /\ Ins.op \in {1, 4} /\ ~Known(regs, Ins.m1, Ins.a1)
     \/ InHeap /\ Ins.op \in {2, 3} /\ regs[SP] \notin Addresses
     \/ InHeap /\ Ins.op = 3 /\ ~Known(Popped, Ins.m0, Ins.a0)
  /\ status' = WILD
  /\ UNCHANGED <<image, heap, regs>>

\* The bytes of the heap after vm_copy_to_heap.
Copied(ins, junk) ==
  [i \in Addresses |-> IF i < 10 * Len(ins) THEN ins[(i \div 10) + 1][(i % 10) + 1] ELSE junk]

\* An assembler, vm_init and vm_copy_to_heap.
Init ==
  /\ \E p \in Programs, junk \in Junk :
       image \in {dasm(p, junk), main(p, junk)} /\ heap = Copied(image, junk)
  /\ regs = [r \in 0 .. FLAGS |-> 0]
  /\ status = READY

\* vm_run does nothing unless the machine is READY.
vm_run ==
  /\ status = READY /\ status' = RUN
  /\ UNCHANGED <<image, heap, regs>>

Next == vm_run \/ op_halt \/ op_mov \/ op_push \/ op_pop \/ op_cmp \/ Wild

\* The loop of vm_run goes on.
Spec == Init /\ [][Next]_vars /\ WF_vars(Next)

-----------------------------------------------------------------------------
(* Properties.                                                             *)

\* A register that programs use as data never has more than a byte, and no
\* write or comparison makes more than a byte of the flags.
TypeOK ==
  /\ \A i \in 1 .. Len(image) : Len(image[i]) = 10 /\ \A k \in 1 .. 10 : image[i][k] \in 0 .. 255
  /\ heap \in [Addresses -> 0 .. 255] /\ DOMAIN regs = 0 .. FLAGS
  /\ \A r \in 0 .. FLAGS : regs[r] \in (IF r \in {IP, SP} THEN Shorts ELSE 0 .. 255)
  /\ status \in Statuses

\* A plain program has the five operations, uses the four data registers
\* and no pointer, and pops no more than it has pushed.
OpOf(n) == Decode(image[n]).op
Count(n, o) == Cardinality({i \in 1 .. n : OpOf(i) = o})
Plain ==
  \A n \in 1 .. Len(image) :
    LET ins == Decode(image[n])
    IN  /\ ins.op \in 0 .. 4
        /\ ins.op # 0 => ins.m0 = 0 \/ (ins.m0 = 1 /\ ins.a0 \in 0 .. 3)
        /\ ins.op \in {1, 4} => ins.m1 = 0 \/ (ins.m1 = 1 /\ ins.a1 \in 0 .. 3)
        /\ Count(n, 3) <= Count(n, 2)

\* The stack of a plain program grows over its code, but never reaches an
\* instruction that is still to come: what vm_run_op finds at ip is what the
\* assembler made.
ExecutesAsAssembled ==
  (status = RUN /\ Plain /\ regs[IP] < 10 * Len(image)) =>
    /\ regs[IP] % 10 = 0
    /\ vm_get_instuction(heap, regs[IP]) = Decode(image[(regs[IP] \div 10) + 1])

\* A plain program with a hlt ends, by that hlt.
PlainProgramsHalt == (Plain /\ \E n \in 1 .. Len(image) : OpOf(n) = 0) ~> (status = DONE)
=============================================================================
