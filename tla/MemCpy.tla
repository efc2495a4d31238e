------------------------------- MODULE MemCpy -------------------------------
(***************************************************************************)
(* mem_cpy of mem.c: byte loops over one memory, forwards when the         *)
(* destination is below the source and backwards otherwise. term_scroll    *)
(* relies on it with overlapping areas, get_kbd with disjoint ones.        *)
(***************************************************************************)
EXTENDS Integers

CONSTANTS Top,     \* number of bytes of memory
          Bytes    \* values of a byte

ASSUME TopAssumption == Top \in Nat

Addr == 0 .. Top - 1

VARIABLES mem,              \* memory
          src, dst, size,   \* the arguments
          i,                \* loop index
          pc,               \* "fwd", "bwd" or "done"
          mem0              \* history: memory when mem_cpy was called

callVars == <<mem, src, dst, size, i, pc, mem0>>

CallTypeOK ==
  /\ mem \in [Addr -> Bytes] /\ mem0 \in [Addr -> Bytes]
  /\ src \in Nat /\ dst \in Nat /\ size \in Nat
  /\ src + size <= Top /\ dst + size <= Top
  /\ i \in 0 .. size
  /\ pc \in {"fwd", "bwd", "done"}

\* Mutant: the test the wrong way round.
Backwards(d, s) == d > s

\* if(dst < src)
Forwards(d, s) == d < s

\* Any call whose two areas lie in memory.
Call ==
  /\ mem \in [Addr -> Bytes] /\ mem0 = mem
  /\ src \in 0 .. Top /\ dst \in 0 .. Top /\ size \in 0 .. Top
  /\ src + size <= Top /\ dst + size <= Top
  /\ IF Forwards(dst, src) THEN pc = "fwd" /\ i = 0 ELSE pc = "bwd" /\ i = size

\* The tests of the two loops: mem_cpy returns when its loop's fails.
MoreForward  == i < size
MoreBackward == i # 0

StepForward ==
  /\ pc = "fwd" /\ MoreForward
  /\ mem' = [mem EXCEPT ![dst + i] = mem[src + i]]
  /\ i' = i + 1
  /\ UNCHANGED <<src, dst, size, pc, mem0>>

\* Mutant: the loop without its i--.
StepBackwardUncounted ==
  /\ pc = "bwd" /\ MoreBackward
  /\ mem' = [mem EXCEPT ![dst + i - 1] = mem[src + i - 1]]
  /\ UNCHANGED <<src, dst, size, i, pc, mem0>>

\* Mutant: two bytes per turn are counted and one is moved.
StepBackwardByTwo ==
  /\ pc = "bwd" /\ MoreBackward
  /\ mem' = [mem EXCEPT ![dst + i - 1] = mem[src + i - 1]]
  /\ i' = i - 2
  /\ UNCHANGED <<src, dst, size, pc, mem0>>

StepBackward ==
  /\ pc = "bwd" /\ MoreBackward
  /\ mem' = [mem EXCEPT ![dst + i - 1] = mem[src + i - 1]]
  /\ i' = i - 1
  /\ UNCHANGED <<src, dst, size, pc, mem0>>

Return ==
  /\ \/ pc = "fwd" /\ ~MoreForward
     \/ pc = "bwd" /\ ~MoreBackward
  /\ pc' = "done"
  /\ UNCHANGED <<mem, src, dst, size, i, mem0>>

Step == StepForward \/ StepBackward \/ Return

CopySpec == Call /\ [][Step]_callVars /\ WF_callVars(Step)

-----------------------------------------------------------------------------
(* Properties.                                                             *)

\* "Safe even if &srcptr and &dstprt are close together": when mem_cpy
\* returns, the destination holds what the source held at the call, however
\* the two areas overlap, and no other byte has changed.
Moved ==
  pc = "done" =>
    \A a \in Addr :
      mem[a] = IF a \in dst .. dst + size - 1 THEN mem0[src + (a - dst)] ELSE mem0[a]

\* The loops end.
Returns == <>(pc = "done")
=============================================================================
