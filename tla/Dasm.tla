-------------------------------- MODULE Dasm --------------------------------
(***************************************************************************)
(* The two assemblers for the virtual machine: dasm of dasm.c, in the      *)
(* kernel, and main of dasm/dasm.c, which writes a file on the host. Their *)
(* text is almost the same, and both look names up by strcmp(...) == 0:    *)
(* but the kernel's own strcmp is 1 on equal strings and 0 on others, so   *)
(* that the kernel's assembler finds the first name that is not the token. *)
(*                                                                         *)
(* A line of source is its first word and its arguments, an argument is    *)
(* <<kind, number or register name>>. The first word "" is a blank line,   *)
(* "#" a comment, and "?" a word that no table has. Memory for words is    *)
(* taken to be zero, as fresh memory is: they are terminated one byte too  *)
(* far.                                                                    *)
(***************************************************************************)
EXTENDS Integers, Sequences

Argument == ({"number", "pointer"} \X Int) \cup ({"register", "register pointer"} \X STRING)
Word == {"hlt", "mov", "push", "pop", "cmp", "", "#", "?"}
SourceLine == [op : Word, args : Seq(Argument)]

Byte(n)  == n % 256
Shorts   == {n \in Int : n >= -32768 /\ n <= 32767}
Short(n) == ((n + 32768) % 65536) - 32768

ops      == <<"hlt", "mov", "push", "pop", "cmp">>
host_ops == <<"hlt", "mov", "push", "pop">>
RegNames == <<"r0", "r1", "r2", "r3", "ip", "sp", "bp">>

strcmp(s1, s2)      == IF s1 = s2 THEN 1 ELSE 0
libc_strcmp(s1, s2) == IF s1 = s2 THEN 0 ELSE 1

Compared(at, s1, s2) == IF at = "kernel" THEN strcmp(s1, s2) ELSE libc_strcmp(s1, s2)

\* The place in a table of the first name that strcmp is 0 for, from 0;
\* else -1.
Lookup(table, at, name) ==
  LET found == {i \in 1 .. Len(table) : Compared(at, name, table[i]) = 0}
  IN  IF found = {} THEN -1 ELSE (CHOOSE i \in found : \A j \in found : i <= j) - 1

get_reg(at, name) == Lookup(RegNames, at, name)

\* An argument's mask and value.
parse_arg(at, token) ==
  CASE token[1] = "number"           -> [m |-> 0, a |-> Short(token[2])]
    [] token[1] = "register"         -> [m |-> 1, a |-> get_reg(at, token[2])]
    [] token[1] = "pointer"          -> [m |-> 2, a |-> Short(token[2])]
    [] token[1] = "register pointer" -> [m |-> 3, a |-> get_reg(at, token[2])]

\* The operation and the bytes of two arguments. An operation that is not
\* found, and an argument that is not there, leave what was in the memory.
parse(table, at, line, unset, pad) ==
  LET op == Lookup(table, at, line.op)
      Arg(i) == IF i <= Len(line.args)
                  THEN LET p == parse_arg(at, line.args[i])
                       IN  <<p.m, pad, Byte(p.a), Byte(p.a \div 256)>>
                  ELSE <<unset, pad, unset, unset>>
  IN  <<IF op = -1 THEN unset ELSE op>> \o Arg(1) \o Arg(2)

\* The lines that become instructions. A comment takes the rest of the text
\* with it, since its start stays where the next line is looked for. The
\* newline of a blank line is stepped over and begins the word of the line
\* that follows; there is nothing before a first line to step over it.
Instructions(source) ==
  LET from[i \in 1 .. Len(source) + 1] ==
        IF i > Len(source) \/ (i <= Len(source) /\ source[i].op = "#") THEN << >>
        ELSE IF source[i].op # "" \/ i = 1 THEN <<source[i]>> \o from[i + 1]
        ELSE IF i = Len(source) THEN << >>
        ELSE <<[source[i + 1] EXCEPT !.op = "?"]>> \o from[i + 2]
  IN  from[1]

\* The instructions, 10 bytes each with the padding.
dasm(source, junk) ==
  LET ins == Instructions(source)
  IN  [i \in 1 .. Len(ins) |-> <<15>> \o parse(ops, "kernel", ins[i], junk, junk)]

\* The host's: its array is static, hence zero, and its op_mask is written.
main(source, junk) ==
  LET ins == Instructions(source)
  IN  [i \in 1 .. Len(ins) |-> <<0>> \o parse(host_ops, "host", ins[i], 0, junk)]
=============================================================================
