-------------------------------- MODULE MCVm --------------------------------
(* Vm with all short programs over a set of lines, and with longer ones     *)
(* over the lines of plain and of self-modifying programs.                  *)
EXTENDS Vm

CONSTANTS Length, LongLength    \* bounds: lines of a program

num(v)  == <<"number", v>>
reg(v)  == <<"register", v>>
ptr(v)  == <<"pointer", v>>
rptr(v) == <<"register pointer", v>>
Line(op, args) == [op |-> op, args |-> args]

PlainLines == {Line("hlt", << >>), Line("mov", <<reg("r0"), num(300)>>), Line("push", <<num(7)>>),
               Line("pop", <<reg("r1")>>)}

\* Byte 21 is the operation of the third line, byte 24 its first operand, which
\* becomes the flags, or the low byte of status; a loop leads back to it.
SelfLines == {Line("mov", <<reg("r0"), num(v)>>) : v \in {4, 9}} \cup
             {Line("mov", <<ptr(24), num(v)>>) : v \in {7, 254}} \cup
             {Line("mov", <<ptr(21), reg("r0")>>), Line("mov", <<reg("ip"), num(10)>>)}

Lines == PlainLines \cup SelfLines \cup
         {Line("mov", <<reg("sp"), num(30)>>), Line("mov", <<rptr("r0"), num(2)>>),
          Line("mov", <<reg("?"), num(5)>>), Line("push", <<reg("r0")>>),
          Line("pop", <<rptr("bp")>>), Line("cmp", <<reg("r1"), ptr(2)>>),
          Line("", << >>), Line("#", << >>)}

MCPrograms == UNION {[1 .. l -> Lines] : l \in 1 .. Length}
              \cup [1 .. LongLength -> PlainLines] \cup [1 .. LongLength -> SelfLines]
=============================================================================
