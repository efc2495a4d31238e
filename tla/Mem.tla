-------------------------------- MODULE Mem --------------------------------
(***************************************************************************)
(* The memory manager of mem.c: init_mm, malloc and free on two linked     *)
(* lists of mp_t headers, mm_free and mm_used, and the client that calls   *)
(* them. mm_free is at once the list head and the header of the large free *)
(* area; malloc either reuses a freed block of about the right size or     *)
(* carves a new one off the top of the largest area.                       *)
(*                                                                         *)
(* Pointers are addresses; what lies in a block's payload is left out.     *)
(***************************************************************************)
EXTENDS Integers, Sequences

CONSTANTS
  HDR,          \* sizeof(mp_t): 16
  Heap,         \* mm_heap_size, kept back at the bottom of the region: 256 headers
  Setups,       \* [map, lifo]: a multiboot memory map, a sequence of
                \* [type, addr, len], and whether the client frees its youngest
                \* block first, or in any order
  BootRequest,  \* the size init_mm tests malloc with: 1024
  Requests,     \* sizes the client asks for
  Margin,       \* room in the large area for any request, its header and as much again
  MaxHeld       \* bound: blocks the client holds at once

ASSUME MemAssumption ==
  /\ HDR \in Nat \ {0} /\ Heap \in Nat \ {0}
  /\ BootRequest \in Nat \ {0} /\ Requests \subseteq Nat \ {0}
  /\ Margin \in Nat /\ MaxHeld \in Nat
  /\ \A s \in Requests \cup {BootRequest} : Margin >= 2 * s + HDR

\* The entry of a memory map that init_mm stacks last of the usable ones.
IsLastUsable(map, k) ==
  map[k].type = 1 /\ \A j \in DOMAIN map : map[j].type = 1 => j <= k

\* The loader reports at least one usable area (init_mm would read
\* mb_free.data[-1] otherwise).
ASSUME SetupsAssumption ==
  \A setup \in Setups : /\ setup.map \in Seq([type : Nat, addr : Nat, len : Nat])
                        /\ \E k \in DOMAIN setup.map : IsLastUsable(setup.map, k)
                        /\ setup.lifo \in BOOLEAN

VARIABLES
  mp,        \* the headers: pointer -> [prev, next, address, size]
  held,      \* the blocks the client holds, oldest first
  boot,      \* what init_mm has left to do: "malloc", "free" or "done"
  pc,        \* "idle", "scan" (in malloc's loop), "carve", "panic" or "wild"
  size,      \* malloc's argument
  temp, largest,
  lifo       \* which client this is

vars == <<mp, held, boot, pc, size, temp, largest, lifo>>

NULL    == 0
mm_free == -1
mm_used == -2

Header(p, n, a, s) == [prev |-> p, next |-> n, address |-> a, size |-> s]
\* The blocks malloc has carved.
Blocks == DOMAIN mp \ {mm_free, mm_used}

TypeOK ==
  /\ {mm_free, mm_used} \subseteq DOMAIN mp /\ NULL \notin DOMAIN mp
  /\ \A b \in DOMAIN mp : /\ {mp[b].prev, mp[b].next} \subseteq DOMAIN mp \cup {NULL}
                          /\ mp[b].address \in Nat /\ mp[b].size \in Nat
  /\ held \in Seq(DOMAIN mp \ {mm_used})
  /\ boot \in {"malloc", "free", "done"}
  /\ pc \in {"idle", "scan", "carve", "panic", "wild"}
  /\ size \in Requests \cup {BootRequest}
  /\ {temp, largest} \subseteq DOMAIN mp
  /\ lifo \in BOOLEAN

\* init_mm stacks the usable areas and takes the one stacked last.
LastUsable(map) == map[CHOOSE k \in DOMAIN map : IsLastUsable(map, k)]

Heads(free, used) == [b \in {mm_free, mm_used} |-> IF b = mm_free THEN free ELSE used]

\* The list heads of init_mm, or its panic if the area is too small.
Init ==
  /\ \E setup \in Setups :
       LET top == LastUsable(setup.map) IN
       /\ lifo = setup.lifo
       /\ IF top.len > Heap
            THEN /\ mp = Heads(Header(NULL, NULL, top.addr + Heap, top.len - Heap),
                               Header(NULL, NULL, top.addr, Heap))
                 /\ pc = "idle"
            ELSE /\ mp = Heads(Header(NULL, NULL, 0, 0), Header(NULL, NULL, 0, 0))
                 /\ pc = "panic"
  /\ held = << >> /\ boot = "malloc"
  /\ size = BootRequest /\ temp = mm_free /\ largest = mm_free

-----------------------------------------------------------------------------
(* The lists. A store through NULL hits address 0, which nothing reads.    *)

SetNext(m, b, n) == IF b = NULL THEN m ELSE [m EXCEPT ![b].next = n]
SetPrev(m, b, p) == IF b = NULL THEN m ELSE [m EXCEPT ![b].prev = p]

\* The old first entry keeps its prev: it still points to the head.
add_mm_list_entry(m, entry, new) ==
  SetNext(SetNext(SetPrev(m, new, entry), new, m[entry].next), entry, new)

\* Mutant: the entry's neighbours are not joined.
remove_without_unlink(m, entry) ==
  SetPrev(SetNext(m, entry, NULL), entry, NULL)

remove_mm_list_entry(m, entry) ==
  LET prev == m[entry].prev
      next == m[entry].next
  IN  SetPrev(SetNext(SetPrev(SetNext(m, prev, next), next, prev), entry, NULL), entry, NULL)

-----------------------------------------------------------------------------
(* malloc: a loop over the free list, then a carve if nothing fitted.      *)

Malloc(s) ==
  /\ pc = "idle" /\ Len(held) < MaxHeld
  /\ boot # "free" /\ s \in (IF boot = "malloc" THEN {BootRequest} ELSE Requests)
  /\ pc' = "scan" /\ size' = s
  /\ temp' = mm_free /\ largest' = mm_free
  /\ UNCHANGED <<mp, held, boot, lifo>>

\* malloc returns b to its caller.
HandOut(b) ==
  /\ held' = Append(held, b)
  /\ boot' = IF boot = "malloc" THEN "free" ELSE boot
  /\ pc' = "idle"

\* A size within a quarter of the request.
Fits(b) == mp[b].size >= size /\ 4 * mp[b].size <= 5 * size

\* The loop stops before the last entry of the list is looked at. Its first
\* entry is mm_free: the large area, and with it the list's head, can fit too.
Reuse ==
  /\ pc = "scan" /\ mp[temp].next # NULL /\ Fits(temp)
  /\ mp' = add_mm_list_entry(remove_mm_list_entry(mp, temp), mm_used, temp)
  /\ HandOut(temp)
  /\ UNCHANGED <<size, temp, largest, lifo>>

\* Mutant: the loop does not move on.
LookAgain ==
  /\ pc = "scan" /\ mp[temp].next # NULL /\ ~Fits(temp)
  /\ UNCHANGED vars

\* Mutant: the loop steps over an entry.
LookPastNext ==
  /\ pc = "scan" /\ mp[temp].next # NULL /\ ~Fits(temp)
  /\ largest' = IF mp[temp].size > mp[largest].size THEN temp ELSE largest
  /\ temp' = mp[mp[temp].next].next
  /\ UNCHANGED <<mp, held, boot, pc, size, lifo>>

LookNext ==
  /\ pc = "scan" /\ mp[temp].next # NULL /\ ~Fits(temp)
  /\ largest' = IF mp[temp].size > mp[largest].size THEN temp ELSE largest
  /\ temp' = mp[temp].next
  /\ UNCHANGED <<mp, held, boot, pc, size, lifo>>

EndOfList ==
  /\ pc = "scan" /\ mp[temp].next = NULL
  /\ pc' = IF mp[largest].size < size THEN "panic" ELSE "carve"
  /\ UNCHANGED <<mp, held, boot, size, temp, largest, lifo>>

\* A new header at the address b.
Placed(m, b, header) == [x \in DOMAIN m \cup {b} |-> IF x = b THEN header ELSE m[x]]

\* The large area has room for the block and its header.
HasRoom == largest = mm_free /\ mp[mm_free].size >= size + HDR

\* Mutant: no room is kept for the header.
CarveWithoutHeader ==
  /\ pc = "carve" /\ HasRoom
  /\ LET left  == mp[largest].size - size
         block == mp[largest].address + left
         small == [mp EXCEPT ![largest].size = left]
         new   == Header(NULL, NULL, block + HDR * HDR, size)
     IN  /\ mp' = add_mm_list_entry(Placed(small, block, new), mm_used, block)
         /\ HandOut(block)
  /\ UNCHANGED <<size, temp, largest, lifo>>

\* Shrink the largest area by the block and its header, and put the header
\* there. The payload's address is sizeof(mp_t) headers further on, not one.
Carve ==
  /\ pc = "carve" /\ HasRoom
  /\ LET left  == mp[largest].size - (size + HDR)
         block == mp[largest].address + left
         small == [mp EXCEPT ![largest].size = left]
         new   == Header(NULL, NULL, block + HDR * HDR, size)
     IN  /\ mp' = add_mm_list_entry(Placed(small, block, new), mm_used, block)
         /\ HandOut(block)
  /\ UNCHANGED <<size, temp, largest, lifo>>

\* The same stores where the room is not there: the size wraps below zero, or
\* the largest area is a block, whose address lies HDR headers above it. The
\* new block ends outside the area it is carved from, over other blocks, the
\* reserved heap or memory of nobody; what the stores overwrite is not modelled.
CarveOutside ==
  /\ pc = "carve" /\ ~HasRoom
  /\ pc' = "wild"
  /\ UNCHANGED <<mp, held, boot, size, temp, largest, lifo>>

malloc == Reuse \/ LookNext \/ EndOfList \/ Carve \/ CarveOutside

-----------------------------------------------------------------------------
\* free, of a block the client holds: any one, or its youngest.
MayFree(k) == lifo => k = Len(held)

Free(k) ==
  /\ pc = "idle" /\ boot # "malloc" /\ MayFree(k)
  /\ mp' = add_mm_list_entry(remove_mm_list_entry(mp, held[k]), mm_free, held[k])
  /\ held' = SubSeq(held, 1, k - 1) \o SubSeq(held, k + 1, Len(held))
  /\ boot' = "done"
  /\ UNCHANGED <<pc, size, temp, largest, lifo>>

\* The system stops in a panic, is lost, or stops when the client has nothing left to do.
Next == malloc \/ \E s \in Requests \cup {BootRequest} : Malloc(s)
               \/ \E k \in DOMAIN held : Free(k)

\* A call of malloc runs to its end; the client owes nothing.
Spec == Init /\ [][Next]_vars /\ WF_vars(malloc)

-----------------------------------------------------------------------------
(* Properties.                                                             *)

\* "Record that this is in use": no block is handed to the client while the
\* client holds it.
NoDoubleAllocation == \A j, k \in DOMAIN held : j # k => held[j] # held[k]

\* malloc's checks leave the exhausted heap to chance: it can hand out the
\* large area with the list head (mem.c:122), carve out of a block (131) and
\* wrap a size (145). What follows holds until the large area is that small;
\* it never grows, so Ample held at every earlier call as well.
Ample == mp[mm_free].size >= Margin

\* The lists' prev pointers go stale (add_mm_list_entry), but a client that
\* frees its youngest block first never meets a stale one on mm_used.
LifoNoDoubleAllocation == lifo /\ Ample => NoDoubleAllocation

\* In whatever order the client frees, malloc carves inside the large area
\* only, never hands that area itself out, and the areas of every two blocks
\* ever carved are disjoint and lie above what is left of it.
Area(b) == b .. b + HDR + mp[b].size - 1
AreasDisjoint ==
  Ample => /\ pc # "wild" /\ \A k \in DOMAIN held : held[k] # mm_free
           /\ \A a, b \in Blocks : a # b => Area(a) \cap Area(b) = {}
           /\ \A b \in Blocks : b >= mp[mm_free].address + mp[mm_free].size

\* For a client that frees its youngest block first every malloc returns: the free list is no ring.
MallocReturns ==
  (lifo /\ Ample /\ pc \in {"scan", "carve"}) ~> (pc \in {"idle", "panic"})
=============================================================================
