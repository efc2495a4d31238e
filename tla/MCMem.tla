------------------------------- MODULE MCMem -------------------------------
(* Mem on memory maps of three areas, of which the last is managed. Of the  *)
(* sizes 4, 5 and 8 the first two are within a quarter of each other; the   *)
(* area of 2 is too small for init_mm. The client that frees in any order   *)
(* gets the smaller area: it makes far more lists.                          *)
EXTENDS Mem

Map(len) == <<[type |-> 1, addr |-> 1, len |-> 3], [type |-> 2, addr |-> 4, len |-> 6],
              [type |-> 1, addr |-> 10, len |-> len]>>
AnyOrder == {[map |-> Map(38), lifo |-> FALSE], [map |-> Map(2), lifo |-> FALSE]}
MCSetups == AnyOrder \cup {[map |-> Map(46), lifo |-> TRUE]}
\* Room enough that nothing of the exhausted heap is in the way.
Roomy    == {[map |-> Map(60), lifo |-> FALSE]}
=============================================================================
