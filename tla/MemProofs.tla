----------------------------- MODULE MemProofs -----------------------------
(***************************************************************************)
(* Proofs about Mem, for every memory map, header size and request size,   *)
(* and with no bound on the number of calls: the lists' pointers lead to   *)
(* headers whatever the client frees and however little memory is left;    *)
(* and while the large area is Ample no two blocks overlap, and a client   *)
(* that frees its youngest block first is never given a block it holds.    *)
(***************************************************************************)
EXTENDS Mem, TLAPS, SequenceTheorems

-----------------------------------------------------------------------------
(* The operations on the lists. D is the set of headers, N those of them   *)
(* that are entries of a list.                                             *)

\* Well-formed headers: prev may name any header, next only an entry.
Lists(D, N) ==
  [D -> [prev : D \cup {NULL}, next : N \cup {NULL}, address : Nat, size : Nat]]

\* The stores of the list operations leave the extent of every area alone.
SameAreas(m, n, D) ==
  \A x \in D : n[x].address = m[x].address /\ n[x].size = m[x].size

\* A store to one next field.
LEMMA SetNextSpec ==
  ASSUME NEW D, NULL \notin D, NEW N \in SUBSET D, NEW m \in Lists(D, N), NEW b \in D \cup {NULL},
         NEW n \in N \cup {NULL}
  PROVE  /\ SetNext(m, b, n) \in Lists(D, N)
         /\ SameAreas(m, SetNext(m, b, n), D)
         /\ \A x \in D : /\ SetNext(m, b, n)[x].next = IF x = b THEN n ELSE m[x].next
                         /\ SetNext(m, b, n)[x].prev = m[x].prev
<1>1. CASE b = NULL
  BY <1>1 DEF SetNext, SameAreas
<1>2. CASE b \in D /\ b # NULL
  BY <1>2 DEF SetNext, SameAreas, Lists
<1>3. QED
  BY <1>1, <1>2

\* A store to one prev field.
LEMMA SetPrevSpec ==
  ASSUME NEW D, NULL \notin D, NEW N \in SUBSET D, NEW m \in Lists(D, N), NEW b \in D \cup {NULL},
         NEW p \in D \cup {NULL}
  PROVE  /\ SetPrev(m, b, p) \in Lists(D, N)
         /\ SameAreas(m, SetPrev(m, b, p), D)
         /\ \A x \in D : /\ SetPrev(m, b, p)[x].prev = IF x = b THEN p ELSE m[x].prev
                         /\ SetPrev(m, b, p)[x].next = m[x].next
<1>1. CASE b = NULL
  BY <1>1 DEF SetPrev, SameAreas
<1>2. CASE b \in D /\ b # NULL
  BY <1>2 DEF SetPrev, SameAreas, Lists
<1>3. QED
  BY <1>1, <1>2

\* What add_mm_list_entry does behind a list head.
LEMMA AddSpec ==
  ASSUME NEW D, NULL \notin D, NEW N \in SUBSET D, NEW m \in Lists(D, N),
         NEW head \in D, NEW new \in N
  PROVE  LET r == add_mm_list_entry(m, head, new)
         IN  /\ r \in Lists(D, N)
             /\ SameAreas(m, r, D)
             /\ \A x \in D : /\ r[x].next = IF x = head THEN new
                                            ELSE IF x = new THEN m[head].next ELSE m[x].next
                             /\ r[x].prev = IF x = new THEN head ELSE m[x].prev
<1> DEFINE n  == m[head].next
           m1 == SetPrev(m, new, head)
           m2 == SetNext(m1, new, n)
           m3 == SetNext(m2, head, new)
<1>1. n \in N \cup {NULL}
  BY DEF Lists
<1>2. new \in D \cup {NULL} /\ head \in D \cup {NULL}
  OBVIOUS
<1>3. add_mm_list_entry(m, head, new) = m3
  BY DEF add_mm_list_entry
<1> HIDE DEF n
<1>4. /\ m1 \in Lists(D, N)
      /\ SameAreas(m, m1, D)
      /\ \A x \in D : m1[x].prev = (IF x = new THEN head ELSE m[x].prev) /\ m1[x].next = m[x].next
  BY <1>2, SetPrevSpec
<1> HIDE DEF m1
<1>5. /\ m2 \in Lists(D, N)
      /\ SameAreas(m1, m2, D)
      /\ \A x \in D : /\ m2[x].next = IF x = new THEN n ELSE m1[x].next
                      /\ m2[x].prev = m1[x].prev
  BY <1>1, <1>4, <1>2, SetNextSpec
<1> HIDE DEF m2
<1>6. /\ m3 \in Lists(D, N)
      /\ SameAreas(m2, m3, D)
      /\ \A x \in D : /\ m3[x].next = IF x = head THEN new ELSE m2[x].next
                      /\ m3[x].prev = m2[x].prev
  BY <1>5, <1>2, SetNextSpec
<1> HIDE DEF m3
<1>7. SameAreas(m, m3, D)
  BY <1>4, <1>5, <1>6 DEF SameAreas
<1>8. QED
  BY <1>4, <1>5, <1>6, <1>3, <1>7 DEF n

\* What remove_mm_list_entry does, whatever its entry's prev and next are.
LEMMA RemoveSpec ==
  ASSUME NEW D, NULL \notin D, NEW N \in SUBSET D, NEW m \in Lists(D, N), NEW entry \in D
  PROVE  LET r == remove_mm_list_entry(m, entry)
         IN  /\ r \in Lists(D, N)
             /\ SameAreas(m, r, D)
             /\ \A x \in D \ {entry} :
                  /\ r[x].next = IF x = m[entry].prev THEN m[entry].next ELSE m[x].next
                  /\ r[x].prev = IF x = m[entry].next THEN m[entry].prev ELSE m[x].prev
<1> DEFINE p  == m[entry].prev
           n  == m[entry].next
           m1 == SetNext(m, p, n)
           m2 == SetPrev(m1, n, p)
           m3 == SetNext(m2, entry, NULL)
           m4 == SetPrev(m3, entry, NULL)
<1>1. /\ p \in D \cup {NULL} /\ n \in D \cup {NULL}
      /\ n \in N \cup {NULL}
  BY DEF Lists
<1>2. remove_mm_list_entry(m, entry) = m4
  BY DEF remove_mm_list_entry
<1> HIDE DEF p, n
<1>3. /\ m1 \in Lists(D, N)
      /\ SameAreas(m, m1, D)
      /\ \A x \in D : m1[x].next = (IF x = p THEN n ELSE m[x].next) /\ m1[x].prev = m[x].prev
  BY <1>1, SetNextSpec
<1> HIDE DEF m1
<1>4. /\ m2 \in Lists(D, N)
      /\ SameAreas(m1, m2, D)
      /\ \A x \in D : m2[x].prev = (IF x = n THEN p ELSE m1[x].prev) /\ m2[x].next = m1[x].next
  <2>1. n \in D \cup {NULL} /\ p \in D \cup {NULL} /\ m1 \in Lists(D, N)
    BY <1>1, <1>3
  <2>2. QED
    BY <2>1, SetPrevSpec, Z3T(20)
<1> HIDE DEF m2
<1>5. /\ m3 \in Lists(D, N)
      /\ SameAreas(m2, m3, D)
      /\ \A x \in D : m3[x].next = (IF x = entry THEN NULL ELSE m2[x].next) /\ m3[x].prev = m2[x].prev
  BY <1>4, SetNextSpec
<1> HIDE DEF m3
<1>6. /\ m4 \in Lists(D, N)
      /\ SameAreas(m3, m4, D)
      /\ \A x \in D : m4[x].prev = (IF x = entry THEN NULL ELSE m3[x].prev) /\ m4[x].next = m3[x].next
  BY <1>5, SetPrevSpec
<1> HIDE DEF m4
<1>7. SameAreas(m, m4, D)
  BY <1>3, <1>4, <1>5, <1>6 DEF SameAreas
<1>8. QED
  BY <1>2, <1>3, <1>4, <1>5, <1>6, <1>7 DEF p, n

\* What free and the reusing malloc do: a block leaves the list it is on for
\* the front of the list of head.
Moved(m, head, b) == add_mm_list_entry(remove_mm_list_entry(m, b), head, b)

\* Such a move, of any entry, changes no area and leads to entries only.
LEMMA MovedType ==
  ASSUME NEW D, NULL \notin D, NEW N \in SUBSET D, NEW m \in Lists(D, N),
         NEW head \in D, NEW b \in N
  PROVE  Moved(m, head, b) \in Lists(D, N) /\ SameAreas(m, Moved(m, head, b), D)
<1> DEFINE r == remove_mm_list_entry(m, b)
           a == add_mm_list_entry(r, head, b)
<1>1. r \in Lists(D, N) /\ SameAreas(m, r, D)
  BY RemoveSpec
<1> HIDE DEF r
<1>2. a \in Lists(D, N) /\ SameAreas(r, a, D)
  BY <1>1, AddSpec
<1>3. Moved(m, head, b) = a
  BY DEF Moved, r
<1> HIDE DEF a
<1>4. QED
  BY <1>1, <1>2, <1>3 DEF SameAreas

\* The pointers and areas after such a move, field by field.
LEMMA MovedSpec ==
  ASSUME NEW D, NULL \notin D, NEW N \in SUBSET D, NEW m \in Lists(D, N),
         NEW head \in D, NEW b \in N, b # head
  PROVE  /\ Moved(m, head, b) \in Lists(D, N)
         /\ SameAreas(m, Moved(m, head, b), D)
         /\ Moved(m, head, b)[head].next = b
         /\ Moved(m, head, b)[b].prev = head
         /\ Moved(m, head, b)[b].next = IF head = m[b].prev THEN m[b].next ELSE m[head].next
         /\ \A x \in D \ {head, b} :
              Moved(m, head, b)[x].next = IF x = m[b].prev THEN m[b].next ELSE m[x].next
         /\ \A x \in D \ {b} :
              Moved(m, head, b)[x].prev = IF x = m[b].next THEN m[b].prev ELSE m[x].prev
<1> DEFINE r == remove_mm_list_entry(m, b)
           a == add_mm_list_entry(r, head, b)
<1>1. /\ r \in Lists(D, N)
      /\ SameAreas(m, r, D)
      /\ \A x \in D \ {b} :
           /\ r[x].next = IF x = m[b].prev THEN m[b].next ELSE m[x].next
           /\ r[x].prev = IF x = m[b].next THEN m[b].prev ELSE m[x].prev
  BY RemoveSpec
<1> HIDE DEF r
<1>2. /\ a \in Lists(D, N)
      /\ SameAreas(r, a, D)
      /\ \A x \in D : /\ a[x].next = IF x = head THEN b
                                     ELSE IF x = b THEN r[head].next ELSE r[x].next
                      /\ a[x].prev = IF x = b THEN head ELSE r[x].prev
  BY <1>1, AddSpec
<1>3. Moved(m, head, b) = a
  BY DEF Moved, r
<1> HIDE DEF a
<1>4. SameAreas(m, a, D)
  BY <1>1, <1>2 DEF SameAreas
<1>5. QED
  BY <1>1, <1>2, <1>3, <1>4

-----------------------------------------------------------------------------
(* The lists' shape and the areas' layout.                                 *)

Sizes == Requests \cup {BootRequest}

\* What malloc and free may put on a list: blocks, and at the boundary the
\* head of the free list itself.
Entries == DOMAIN mp \ {mm_used}

\* Every pointer leads to a header, and next and the client's pointers to an
\* entry, however little memory is left.
TypeInv ==
  /\ {mm_free, mm_used} \subseteq DOMAIN mp
  /\ mp \in Lists(DOMAIN mp, Entries)
  /\ \A b \in Blocks : b \in Nat \ {0} /\ mp[b].size \in Sizes
  /\ held \in Seq(Entries)
  /\ boot \in {"malloc", "free", "done"}
  /\ pc \in {"idle", "scan", "carve", "panic", "wild"}
  /\ size \in Sizes
  /\ temp \in Entries /\ largest \in Entries
  /\ lifo \in BOOLEAN
  /\ pc # "panic" => mp[mm_free].address >= 1

\* While the large area is Ample it is the one malloc carves, and neither it
\* nor the head of a list is ever an entry.
Shape ==
  /\ {mm_free, mm_used} \subseteq DOMAIN mp
  /\ mp \in Lists(DOMAIN mp, Blocks)
  /\ \A b \in Blocks : b \in Nat \ {0} /\ mp[b].size \in Sizes
  /\ held \in Seq(Blocks)
  /\ boot \in {"malloc", "free", "done"}
  /\ pc \in {"idle", "scan", "carve", "panic"}
  /\ size \in Sizes
  /\ temp \in Blocks \cup {mm_free} /\ largest = mm_free
  /\ lifo \in BOOLEAN
  /\ Ample

\* Of two blocks one lies below the other, and the large area below both.
Layout ==
  /\ \A a, b \in Blocks : a # b => \/ a + HDR + mp[a].size <= b
                                   \/ b + HDR + mp[b].size <= a
  /\ \A b \in Blocks : b >= mp[mm_free].address + mp[mm_free].size

\* The list heads are no addresses of blocks, and not NULL.
LEMMA HeadsDiffer ==
  mm_free # mm_used /\ mm_free \notin Nat /\ mm_used \notin Nat /\ NULL \in Nat
BY DEF mm_free, mm_used, NULL

\* The client's margin covers every request twice, and a header.
LEMMA SizesAreSmall ==
  \A s \in Sizes : s \in Nat \ {0} /\ Margin >= (2 * s) + HDR
BY MemAssumption DEF Sizes

\* What Shape says of single headers.
LEMMA ShapeFacts ==
  ASSUME Shape
  PROVE  /\ NULL \notin DOMAIN mp
         /\ DOMAIN mp = Blocks \cup {mm_free, mm_used}
         /\ mm_free \notin Blocks /\ mm_used \notin Blocks /\ NULL \notin Blocks
         /\ \A x \in DOMAIN mp :
              /\ mp[x].prev \in DOMAIN mp \cup {NULL}
              /\ mp[x].next \in Blocks \cup {NULL}
              /\ mp[x].address \in Nat /\ mp[x].size \in Nat
<1>1. \A b \in Blocks : b \in Nat /\ b # 0
  BY DEF Shape
<1>2. NULL \notin DOMAIN mp
  BY <1>1, HeadsDiffer DEF Blocks, NULL
<1>3. DOMAIN mp = Blocks \cup {mm_free, mm_used}
  BY DEF Blocks, Shape
<1>4. \A x \in DOMAIN mp :
              /\ mp[x].prev \in DOMAIN mp \cup {NULL}
              /\ mp[x].next \in Blocks \cup {NULL}
              /\ mp[x].address \in Nat /\ mp[x].size \in Nat
  BY DEF Shape, Lists
<1>5. QED
  BY <1>2, <1>3, <1>4 DEF Blocks

\* Only headers' pointers change when a block moves to another list.
LEMMA MoveKeepsAreas ==
  ASSUME Shape, NEW head \in {mm_free, mm_used}, NEW b \in Blocks,
         mp' = Moved(mp, head, b)
  PROVE  /\ mp' \in Lists(DOMAIN mp, Blocks)
         /\ DOMAIN mp' = DOMAIN mp /\ Blocks' = Blocks
         /\ \A x \in DOMAIN mp : mp'[x].address = mp[x].address /\ mp'[x].size = mp[x].size
<1>1. /\ NULL \notin DOMAIN mp
      /\ Blocks \in SUBSET DOMAIN mp
      /\ mp \in Lists(DOMAIN mp, Blocks)
      /\ head \in DOMAIN mp /\ b # head
  BY ShapeFacts DEF Shape, Blocks
<1>2. mp' \in Lists(DOMAIN mp, Blocks) /\ SameAreas(mp, mp', DOMAIN mp)
  BY <1>1, MovedSpec
<1>3. DOMAIN mp' = DOMAIN mp
  BY <1>2 DEF Lists
<1>4. QED
  BY <1>2, <1>3 DEF SameAreas, Blocks

\* A move between the lists keeps the headers well formed and the areas apart.
LEMMA MoveKeepsShape ==
  ASSUME Shape, Layout, NEW head \in {mm_free, mm_used}, NEW b \in Blocks,
         mp' = Moved(mp, head, b),
         held' \in Seq(Blocks), pc = "scan" \/ pc = "idle", pc' = "idle",
         boot' \in {"malloc", "free", "done"}, UNCHANGED <<size, temp, largest, lifo>>
  PROVE  Shape' /\ Layout'
<1>1. /\ mp' \in Lists(DOMAIN mp', Blocks')
      /\ DOMAIN mp' = DOMAIN mp /\ Blocks' = Blocks
      /\ \A x \in DOMAIN mp : mp'[x].address = mp[x].address /\ mp'[x].size = mp[x].size
  BY MoveKeepsAreas
<1>2. \A x \in Blocks : x \in DOMAIN mp
  BY DEF Blocks
<1>3. mm_free \in DOMAIN mp
  BY DEF Shape
<1>4. Shape'
  <2>1. Ample'
    BY <1>1, <1>3 DEF Shape, Ample
  <2>2. QED
    BY <1>1, <1>2, <2>1 DEF Shape, Sizes
<1>5. Layout'
  BY <1>1, <1>2, <1>3 DEF Layout
<1>6. QED
  BY <1>4, <1>5

\* A carved block lies between what is left of the large area and the blocks
\* carved before it.
LEMMA CarveSpec ==
  ASSUME Shape, Layout, Carve
  PROVE  LET block == mp[mm_free].address + (mp[mm_free].size - (size + HDR))
         IN  /\ block \in Nat \ {0} /\ block \notin DOMAIN mp
             /\ DOMAIN mp' = DOMAIN mp \cup {block}
             /\ mp' \in Lists(DOMAIN mp', Blocks')
             /\ Blocks' = Blocks \cup {block}
             /\ block + HDR + size = mp[mm_free].address + mp[mm_free].size
             /\ mp'[block].size = size
             /\ mp'[mm_free].address + mp'[mm_free].size = block
             /\ \A x \in Blocks : mp'[x].size = mp[x].size
             /\ mp'[block].prev = mm_used /\ mp'[block].next = mp[mm_used].next
             /\ mp'[mm_used].next = block /\ mp'[mm_free].next = mp[mm_free].next
             /\ \A x \in Blocks : mp'[x].prev = mp[x].prev /\ mp'[x].next = mp[x].next
             /\ held' = Append(held, block)
<1> DEFINE left  == mp[mm_free].size - (size + HDR)
           block == mp[mm_free].address + left
           small == [mp EXCEPT ![mm_free].size = left]
           new   == Header(NULL, NULL, block + HDR * HDR, size)
           D     == DOMAIN mp \cup {block}
           N     == Blocks \cup {block}
           m     == Placed(small, block, new)
<1>1. largest = mm_free /\ mp' = add_mm_list_entry(m, mm_used, block) /\ held' = Append(held, block)
  BY DEF Carve, Shape, HandOut
<1>2. /\ mp[mm_free].address \in Nat /\ mp[mm_free].size \in Nat
      /\ size \in Nat \ {0} /\ HDR \in Nat \ {0} /\ HDR * HDR \in Nat
      /\ Margin >= (2 * size) + HDR /\ Margin \in Nat /\ mp[mm_free].size >= Margin
  <2>1. mp[mm_free].size >= Margin
    BY DEF Shape, Ample
  <2>2. HDR \in Nat \ {0} /\ HDR * HDR \in Nat /\ Margin \in Nat
    BY MemAssumption
  <2>3. mm_free \in DOMAIN mp /\ size \in Sizes
    BY DEF Shape
  <2>4. QED
    BY <2>1, <2>2, <2>3, ShapeFacts, SizesAreSmall
<1>3. left \in Nat \ {0} /\ block \in Nat \ {0}
      /\ block + HDR + size = mp[mm_free].address + mp[mm_free].size
  BY <1>2
<1>4. \A b \in Blocks : b >= mp[mm_free].address + mp[mm_free].size /\ b \in Nat
  BY DEF Layout, Shape
<1>5. block \notin Blocks
  BY <1>2, <1>3, <1>4
<1>6. block \notin DOMAIN mp
  BY <1>3, <1>5, HeadsDiffer, ShapeFacts
<1>7. /\ small \in Lists(DOMAIN mp, Blocks)
      /\ small[mm_free].size = left
      /\ \A x \in DOMAIN mp : /\ small[x].address = mp[x].address
                              /\ small[x].next = mp[x].next /\ small[x].prev = mp[x].prev
                              /\ x # mm_free => small[x].size = mp[x].size
  <2> HIDE DEF left
  <2>1. mp \in Lists(DOMAIN mp, Blocks) /\ mm_free \in DOMAIN mp
    BY DEF Shape
  <2>2. QED
    BY <2>1, <1>3 DEF Lists
<1>8. new.prev = NULL /\ new.next = NULL /\ new.size = size
      /\ new \in [prev : D \cup {NULL}, next : N \cup {NULL}, address : Nat, size : Nat]
  <2> HIDE DEF block, D, N
  <2>1. block + HDR * HDR \in Nat
    BY <1>2, <1>3
  <2>2. QED
    BY <1>2, <2>1 DEF Header
<1>9. /\ m \in Lists(D, N)
      /\ m[block] = new
      /\ \A x \in DOMAIN mp : m[x] = small[x]
  <2> HIDE DEF small, new, block
  <2>1. DOMAIN small = DOMAIN mp
    BY <1>7 DEF Lists
  <2>2. QED
    BY <1>6, <1>7, <1>8, <2>1 DEF Lists, Placed
<1>10. /\ NULL \notin D /\ mm_used \in D /\ N \in SUBSET D
       /\ block \in D \ {mm_free, mm_used} /\ block \in N
  <2>1. mm_used \in DOMAIN mp
    BY DEF Shape
  <2> HIDE DEF block
  <2>2. QED
    BY <2>1, <1>3, HeadsDiffer, ShapeFacts DEF NULL
<1> HIDE DEF left, block, small, new, D, N, m
<1>11. /\ mp' \in Lists(D, N)
       /\ SameAreas(m, mp', D)
       /\ \A x \in D : /\ mp'[x].next = IF x = mm_used THEN block
                                        ELSE IF x = block THEN m[mm_used].next ELSE m[x].next
                       /\ mp'[x].prev = IF x = block THEN mm_used ELSE m[x].prev
  BY <1>1, <1>9, <1>10, AddSpec
<1>12. DOMAIN mp' = D /\ mp' \in Lists(DOMAIN mp', Blocks') /\ Blocks' = Blocks \cup {block}
  <2>1. DOMAIN mp' = D
    BY <1>11 DEF Lists
  <2>2. Blocks' = N
    BY <2>1, <1>10 DEF Blocks, D, N
  <2>3. QED
    BY <2>1, <2>2, <1>11 DEF N
<1>13. mp'[block].size = size /\ \A x \in Blocks : mp'[x].size = mp[x].size
  BY <1>7, <1>8, <1>9, <1>11, <1>12, ShapeFacts DEF SameAreas, D
<1>14. mp'[mm_free].address + mp'[mm_free].size = block
  <2>1. mm_free \in DOMAIN mp
    BY DEF Shape
  <2>2. mp'[mm_free].address = mp[mm_free].address /\ mp'[mm_free].size = left
    BY <2>1, <1>7, <1>9, <1>11 DEF SameAreas, D
  <2>3. QED
    BY <2>2 DEF block
<1>15. /\ mp'[block].prev = mm_used /\ mp'[block].next = mp[mm_used].next
       /\ mp'[mm_used].next = block /\ mp'[mm_free].next = mp[mm_free].next
       /\ \A x \in Blocks : mp'[x].prev = mp[x].prev /\ mp'[x].next = mp[x].next
  BY <1>6, <1>7, <1>9, <1>10, <1>11, ShapeFacts, HeadsDiffer DEF D
<1>16. QED
  BY <1>1, <1>3, <1>6, <1>12, <1>13, <1>14, <1>15 DEF block, left, D

AreaInv == Ample => Shape /\ Layout

\* init_mm's two heads, or its panic, establish shape and layout.
LEMMA InitAreaInv == Init => TypeInv /\ AreaInv
<1> SUFFICES ASSUME Init PROVE TypeInv /\ AreaInv
  OBVIOUS
<1> DEFINE H == {mm_free, mm_used}
<1>1. PICK setup \in Setups :
        LET top == LastUsable(setup.map) IN
        /\ lifo = setup.lifo
        /\ IF top.len > Heap
             THEN /\ mp = Heads(Header(NULL, NULL, top.addr + Heap, top.len - Heap),
                                Header(NULL, NULL, top.addr, Heap))
                  /\ pc = "idle"
             ELSE /\ mp = Heads(Header(NULL, NULL, 0, 0), Header(NULL, NULL, 0, 0))
                  /\ pc = "panic"
  BY DEF Init
<1> DEFINE map == setup.map
           top == LastUsable(map)
<1>2. top.addr \in Nat /\ top.len \in Nat
  <2> DEFINE Entry == [type : Nat, addr : Nat, len : Nat]
             last  == CHOOSE k \in DOMAIN map : IsLastUsable(map, k)
  <2>1. map \in Seq(Entry) /\ \E k \in DOMAIN map : IsLastUsable(map, k)
    BY SetupsAssumption
  <2>2. last \in DOMAIN map
    BY <2>1
  <2>3. LastUsable(map) = map[last]
    BY DEF LastUsable
  <2> HIDE DEF last, Entry, map
  <2>4. map[last] \in Entry
    BY <2>1, <2>2, ElementOfSeq
  <2>5. QED
    BY <2>3, <2>4 DEF Entry
<1> HIDE DEF map
<1>3. \E a1, s1, a2, s2 \in Nat :
        /\ mp = Heads(Header(NULL, NULL, a1, s1), Header(NULL, NULL, a2, s2))
        /\ pc # "panic" => a1 >= 1
  <2>1. CASE top.len > Heap
    <3>1. top.addr + Heap \in Nat /\ top.len - Heap \in Nat /\ Heap \in Nat /\ top.addr + Heap >= 1
      BY <2>1, <1>2, MemAssumption
    <3>2. mp = Heads(Header(NULL, NULL, top.addr + Heap, top.len - Heap),
                     Header(NULL, NULL, top.addr, Heap))
      BY <1>1, <2>1 DEF map
    <3> HIDE DEF top
    <3>3. QED
      BY <1>2, <3>1, <3>2
  <2>2. CASE ~(top.len > Heap)
    BY <1>1, <2>2 DEF map
  <2>3. QED
    BY <2>1, <2>2
<1>4. DOMAIN mp = H /\ mp \in Lists(H, {}) /\ (pc # "panic" => mp[mm_free].address >= 1)
  <2>1. PICK a1, s1, a2, s2 \in Nat :
          /\ mp = Heads(Header(NULL, NULL, a1, s1), Header(NULL, NULL, a2, s2))
          /\ pc # "panic" => a1 >= 1
    BY <1>3
  <2>2. QED
    BY <2>1 DEF Heads, Header, Lists
<1>5. Blocks = {} /\ mm_free \in Entries
  BY <1>4, HeadsDiffer DEF Blocks, Entries
<1>6. mp \in Lists(H, Entries)
  BY <1>4 DEF Lists
<1>7. Layout
  BY <1>5 DEF Layout
<1>8. pc \in {"idle", "panic"} /\ lifo \in BOOLEAN
  BY <1>1, SetupsAssumption
<1>9. held \in Seq(Blocks) /\ held \in Seq(Entries)
  BY EmptySeq DEF Init
<1>10. TypeInv
  BY <1>4, <1>5, <1>6, <1>8, <1>9 DEF Init, TypeInv, Sizes
<1>11. Ample => Shape
  BY <1>4, <1>5, <1>8, <1>9 DEF Init, Shape, Sizes
<1>12. QED
  BY <1>7, <1>10, <1>11 DEF AreaInv

\* The large area is too large to be reused, so what fits is a block.
LEMMA FitsIsBlock ==
  ASSUME Shape, pc = "scan", Fits(temp)
  PROVE  temp \in Blocks
<1>1. mp[mm_free].size >= Margin /\ mp[mm_free].size \in Nat /\ size \in Sizes
  BY ShapeFacts DEF Shape, Ample
<1>2. Margin \in Nat /\ HDR \in Nat /\ size \in Nat \ {0} /\ Margin >= (2 * size) + HDR
  BY <1>1, SizesAreSmall, MemAssumption
<1>3. ~(4 * mp[mm_free].size <= 5 * size)
  BY <1>1, <1>2
<1>4. temp # mm_free
  BY <1>3 DEF Fits
<1>5. QED
  BY <1>4 DEF Shape

\* A block is smaller than the large area malloc looked at first.
LEMMA LargestIsFirst ==
  ASSUME Shape, pc = "scan"
  PROVE  (IF mp[temp].size > mp[largest].size THEN temp ELSE largest) = mm_free
<1>1. /\ mp[mm_free].size >= Margin /\ mp[mm_free].size \in Nat /\ largest = mm_free
      /\ temp \in Blocks \cup {mm_free}
  BY ShapeFacts DEF Shape, Ample
<1>2. CASE temp \in Blocks
  <2>1. mp[temp].size \in Sizes
    BY <1>2 DEF Shape
  <2>2. mp[temp].size \in Nat /\ Margin \in Nat /\ HDR \in Nat /\ Margin >= (2 * mp[temp].size) + HDR
    BY <2>1, SizesAreSmall, MemAssumption
  <2>3. ~(mp[temp].size > mp[mm_free].size)
    BY <1>1, <2>2
  <2>4. QED
    BY <1>1, <2>3
<1>3. QED
  BY <1>1, <1>2

\* An Ample large area has room for every block and header.
LEMMA RoomForEvery ==
  ASSUME Shape
  PROVE  HasRoom
<1>1. mp[mm_free].size >= Margin /\ mp[mm_free].size \in Nat /\ size \in Sizes /\ largest = mm_free
  BY ShapeFacts DEF Shape, Ample
<1>2. Margin \in Nat /\ HDR \in Nat /\ size \in Nat \ {0} /\ Margin >= (2 * size) + HDR
  BY <1>1, SizesAreSmall, MemAssumption
<1>3. QED
  BY <1>1, <1>2 DEF HasRoom

\* The block at position k leaves the sequence of held blocks.
LEMMA HeldAfterFree ==
  ASSUME NEW S, NEW h \in Seq(S), NEW k \in DOMAIN h
  PROVE  SubSeq(h, 1, k - 1) \o SubSeq(h, k + 1, Len(h)) \in Seq(S)
<1>1. Len(h) \in Nat /\ DOMAIN h = 1 .. Len(h) /\ \A i \in 1 .. Len(h) : h[i] \in S
  BY ElementOfSeq, LenProperties
<1>2. k \in 1 .. Len(h) /\ k \in Int
  BY <1>1
<1>3. SubSeq(h, 1, k - 1) \in Seq(S)
  BY <1>1, <1>2
<1>4. SubSeq(h, k + 1, Len(h)) \in Seq(S)
  BY <1>1, <1>2
<1>5. QED
  BY <1>3, <1>4, ConcatProperties

\* What TypeInv says of single headers.
LEMMA TypeFacts ==
  ASSUME TypeInv
  PROVE  /\ NULL \notin DOMAIN mp /\ Entries \in SUBSET DOMAIN mp
         /\ mm_free \in Entries /\ mm_free \in DOMAIN mp /\ mm_used \in DOMAIN mp
         /\ \A x \in DOMAIN mp : /\ mp[x].prev \in DOMAIN mp \cup {NULL}
                                 /\ mp[x].next \in Entries \cup {NULL}
                                 /\ mp[x].address \in Nat /\ mp[x].size \in Nat
<1>1. \A b \in Blocks : b # 0
  BY DEF TypeInv
<1>2. NULL \notin DOMAIN mp
  BY <1>1, HeadsDiffer DEF Blocks, NULL
<1>3. mm_free \in Entries
  BY HeadsDiffer DEF TypeInv, Entries
<1>4. QED
  BY <1>2, <1>3 DEF TypeInv, Lists, Entries

\* A move between the lists, of the list head too, leads to headers only.
LEMMA MoveKeepsType ==
  ASSUME TypeInv, NEW head \in {mm_free, mm_used}, NEW b \in Entries,
         mp' = Moved(mp, head, b),
         held' \in Seq(Entries), pc # "panic", pc' = "idle",
         boot' \in {"malloc", "free", "done"}, UNCHANGED <<size, temp, largest, lifo>>
  PROVE  TypeInv' /\ mp'[mm_free].size = mp[mm_free].size
<1>1. /\ NULL \notin DOMAIN mp /\ Entries \in SUBSET DOMAIN mp
      /\ mp \in Lists(DOMAIN mp, Entries) /\ head \in DOMAIN mp
  BY TypeFacts DEF TypeInv
<1>2. mp' \in Lists(DOMAIN mp, Entries) /\ SameAreas(mp, mp', DOMAIN mp)
  BY <1>1, MovedType
<1>3. DOMAIN mp' = DOMAIN mp
  BY <1>2 DEF Lists
<1>4. Blocks' = Blocks /\ Entries' = Entries
  BY <1>3 DEF Blocks, Entries
<1>5. \A x \in DOMAIN mp : mp'[x].address = mp[x].address /\ mp'[x].size = mp[x].size
  BY <1>2 DEF SameAreas
<1>6. mm_free \in DOMAIN mp /\ \A x \in Blocks : x \in DOMAIN mp
  BY TypeFacts DEF Blocks
<1>7. QED
  BY <1>2, <1>3, <1>4, <1>5, <1>6 DEF TypeInv, Sizes

\* A block carved inside the large area is a header like the others.
LEMMA CarveKeepsType ==
  ASSUME TypeInv, Carve
  PROVE  TypeInv' /\ mp'[mm_free].size <= mp[mm_free].size
<1> DEFINE left  == mp[mm_free].size - (size + HDR)
           block == mp[mm_free].address + left
           small == [mp EXCEPT ![mm_free].size = left]
           new   == Header(NULL, NULL, block + HDR * HDR, size)
           D     == DOMAIN mp \cup {block}
           N     == Entries \cup {block}
           m     == Placed(small, block, new)
<1>1. /\ pc = "carve" /\ largest = mm_free /\ mp[mm_free].size >= size + HDR
      /\ mp' = add_mm_list_entry(m, mm_used, block) /\ held' = Append(held, block)
      /\ pc' = "idle" /\ boot' \in {"malloc", "free", "done"}
      /\ UNCHANGED <<size, temp, largest, lifo>>
  BY DEF Carve, HasRoom, HandOut, TypeInv
<1>2. /\ mp[mm_free].address \in Nat /\ mp[mm_free].size \in Nat /\ mp[mm_free].address >= 1
      /\ size \in Nat \ {0} /\ HDR \in Nat \ {0} /\ HDR * HDR \in Nat
  <2>1. size \in Sizes /\ mp[mm_free].address >= 1
    BY <1>1 DEF TypeInv
  <2>2. QED
    BY <2>1, TypeFacts, SizesAreSmall, MemAssumption
<1>3. left \in Nat /\ left <= mp[mm_free].size /\ block \in Nat \ {0}
  <2>1. mp[mm_free].size >= size + HDR
    BY <1>1
  <2>2. QED
    BY <2>1, <1>2
<1>4. block # mm_free /\ block # mm_used /\ block # NULL
  <2> HIDE DEF block
  <2>1. QED
    BY <1>3, HeadsDiffer DEF NULL
<1>5. /\ small \in Lists(DOMAIN mp, Entries) /\ small[mm_free].size = left
      /\ \A x \in DOMAIN mp : /\ small[x].address = mp[x].address
                              /\ x # mm_free => small[x].size = mp[x].size
  <2> HIDE DEF left
  <2>1. mp \in Lists(DOMAIN mp, Entries) /\ mm_free \in DOMAIN mp
    BY DEF TypeInv
  <2>2. QED
    BY <2>1, <1>3 DEF Lists
<1>6. /\ new.size = size
      /\ new \in [prev : D \cup {NULL}, next : N \cup {NULL}, address : Nat, size : Nat]
  <2> HIDE DEF block, D, N
  <2>1. block + HDR * HDR \in Nat
    BY <1>2, <1>3
  <2>2. QED
    BY <1>2, <2>1 DEF Header
<1>7. /\ m \in Lists(D, N) /\ m[block] = new
      /\ \A x \in DOMAIN mp : x # block => m[x] = small[x]
  <2> HIDE DEF small, new, block
  <2>1. DOMAIN small = DOMAIN mp
    BY <1>5 DEF Lists
  <2>2. QED
    BY <1>5, <1>6, <2>1 DEF Lists, Placed
<1>8. NULL \notin D /\ N \in SUBSET D /\ mm_used \in D /\ block \in N
  BY <1>4, TypeFacts
<1> HIDE DEF left, block, small, new, D, N, m
<1>9. mp' \in Lists(D, N) /\ SameAreas(m, mp', D)
  BY <1>1, <1>7, <1>8, AddSpec
<1>10. DOMAIN mp' = D /\ Entries' = N /\ Blocks' = Blocks \cup {block}
  <2>1. DOMAIN mp' = D
    BY <1>9 DEF Lists
  <2>2. QED
    BY <2>1, <1>4 DEF Entries, Blocks, D, N
<1>11. mm_free \in DOMAIN mp /\ mm_used \in DOMAIN mp
  BY TypeFacts
<1>12. mp'[mm_free].address = mp[mm_free].address /\ mp'[mm_free].size = left
  BY <1>4, <1>5, <1>7, <1>9, <1>11 DEF SameAreas, D
<1>13. ASSUME NEW b \in Blocks'
       PROVE  b \in Nat \ {0} /\ mp'[b].size \in Sizes
  <2>1. CASE b = block
    <3>1. mp'[b].size = size
      BY <2>1, <1>6, <1>7, <1>9 DEF SameAreas, D
    <3>2. QED
      BY <2>1, <3>1, <1>3 DEF TypeInv
  <2>2. CASE b \in Blocks /\ b # block
    <3>1. b \in DOMAIN mp /\ b # mm_free
      BY <2>2 DEF Blocks
    <3>2. mp'[b].size = mp[b].size
      BY <2>2, <3>1, <1>5, <1>7, <1>9 DEF SameAreas, D
    <3>3. QED
      BY <2>2, <3>2 DEF TypeInv
  <2>3. QED
    BY <2>1, <2>2, <1>10
<1>14. held' \in Seq(Entries')
  <2>1. held \in Seq(N) /\ block \in N
    BY SeqMonotonic DEF TypeInv, N
  <2>2. QED
    BY <2>1, <1>1, <1>10, AppendProperties
<1>15. TypeInv'
  <2>1. mp' \in Lists(DOMAIN mp', Entries') /\ {mm_free, mm_used} \subseteq DOMAIN mp'
    BY <1>9, <1>10, <1>11 DEF D
  <2>2. temp' \in Entries' /\ largest' \in Entries' /\ size' \in Sizes /\ lifo' \in BOOLEAN
    BY <1>1, <1>10 DEF TypeInv, N
  <2>3. pc' # "panic" => mp'[mm_free].address >= 1
    BY <1>2, <1>12
  <2>4. QED
    BY <2>1, <2>2, <2>3, <1>1, <1>13, <1>14 DEF TypeInv, Sizes
<1>16. QED
  BY <1>3, <1>12, <1>15

\* Every step follows pointers to headers, and the large area never grows.
LEMMA NextTypeInv ==
  ASSUME TypeInv, [Next]_vars
  PROVE  TypeInv' /\ mp'[mm_free].size <= mp[mm_free].size
<1>0. mp[mm_free].size \in Nat
  BY TypeFacts
<1>1. CASE Reuse
  <2>1. temp \in Entries /\ held \in Seq(Entries)
    BY DEF TypeInv
  <2>2. /\ mp' = Moved(mp, mm_used, temp) /\ held' = Append(held, temp)
        /\ pc = "scan" /\ pc' = "idle" /\ UNCHANGED <<size, temp, largest, lifo>>
        /\ boot' \in {"malloc", "free", "done"}
    BY <1>1 DEF Reuse, Moved, HandOut, TypeInv
  <2>3. held' \in Seq(Entries)
    BY <2>1, <2>2, AppendProperties
  <2>4. TypeInv' /\ mp'[mm_free].size = mp[mm_free].size
    BY <2>1, <2>2, <2>3, MoveKeepsType
  <2>5. QED
    BY <2>4, <1>0
<1>2. CASE LookNext
  <2>1. UNCHANGED <<mp, held, boot, pc, size, lifo>> /\ pc = "scan" /\ temp' = mp[temp].next
        /\ mp[temp].next # NULL /\ largest' \in {temp, largest}
    BY <1>2 DEF LookNext
  <2>2. temp' \in Entries /\ largest' \in Entries
    BY <2>1, TypeFacts DEF TypeInv
  <2>3. QED
    BY <2>1, <2>2, <1>0 DEF TypeInv, Entries, Blocks
<1>3. CASE EndOfList \/ CarveOutside
  <2>1. UNCHANGED <<mp, held, boot, size, temp, largest, lifo>> /\ pc \in {"scan", "carve"}
        /\ pc' \in {"panic", "carve", "wild"}
    BY <1>3 DEF EndOfList, CarveOutside
  <2>2. QED
    BY <2>1, <1>0 DEF TypeInv, Entries, Blocks
<1>4. CASE Carve
  BY <1>4, CarveKeepsType
<1>5. ASSUME NEW s \in Requests \cup {BootRequest}, Malloc(s)
      PROVE  TypeInv' /\ mp'[mm_free].size <= mp[mm_free].size
  <2>1. UNCHANGED <<mp, held, boot, lifo>> /\ pc = "idle" /\ pc' = "scan" /\ size' \in Sizes
        /\ temp' = mm_free /\ largest' = mm_free
    BY <1>5 DEF Malloc, Sizes
  <2>2. QED
    BY <2>1, <1>0, TypeFacts DEF TypeInv, Entries, Blocks
<1>6. ASSUME NEW k \in DOMAIN held, Free(k)
      PROVE  TypeInv' /\ mp'[mm_free].size <= mp[mm_free].size
  <2>1. held[k] \in Entries /\ held \in Seq(Entries)
    BY <1>6, ElementOfSeq DEF TypeInv
  <2>2. /\ mp' = Moved(mp, mm_free, held[k])
        /\ held' = SubSeq(held, 1, k - 1) \o SubSeq(held, k + 1, Len(held))
        /\ pc = "idle" /\ pc' = "idle" /\ UNCHANGED <<size, temp, largest, lifo>>
        /\ boot' \in {"malloc", "free", "done"}
    BY <1>6 DEF Free, Moved
  <2>3. held' \in Seq(Entries)
    BY <1>6, <2>1, <2>2, HeldAfterFree
  <2>4. TypeInv' /\ mp'[mm_free].size = mp[mm_free].size
    BY <2>1, <2>2, <2>3, MoveKeepsType
  <2>5. QED
    BY <2>4, <1>0
<1>7. CASE UNCHANGED vars
  BY <1>7, <1>0 DEF vars, TypeInv, Entries, Blocks
<1>8. QED
  BY <1>1, <1>2, <1>3, <1>4, <1>5, <1>6, <1>7 DEF Next, malloc

\* Where the large area is Ample, it was before the step.
LEMMA AmpleBefore ==
  ASSUME TypeInv, [Next]_vars, Ample'
  PROVE  Ample
<1>1. mp'[mm_free].size <= mp[mm_free].size /\ mp'[mm_free].size \in Nat /\ mp[mm_free].size \in Nat
  <2>1. TypeInv' /\ mp'[mm_free].size <= mp[mm_free].size
    BY NextTypeInv
  <2>2. mm_free \in DOMAIN mp' /\ mp' \in Lists(DOMAIN mp', Entries')
    BY <2>1 DEF TypeInv
  <2>3. mp'[mm_free].size \in Nat
    BY <2>2 DEF Lists
  <2>4. QED
    BY <2>1, <2>3, TypeFacts
<1>2. QED
  BY <1>1, MemAssumption DEF Ample

\* Every step of malloc, free and the client keeps shape and layout.
LEMMA NextAreaInv == TypeInv /\ AreaInv /\ [Next]_vars => AreaInv'
<1> SUFFICES ASSUME TypeInv, AreaInv, [Next]_vars, Ample' PROVE Shape' /\ Layout'
  BY DEF AreaInv
<1> Shape /\ Layout
  BY AmpleBefore DEF AreaInv
<1>1. CASE Reuse
  <2>1. temp \in Blocks
    BY <1>1, FitsIsBlock DEF Reuse
  <2>2. /\ mp' = Moved(mp, mm_used, temp) /\ held' = Append(held, temp)
        /\ pc = "scan" /\ pc' = "idle" /\ UNCHANGED <<size, temp, largest, lifo>>
        /\ boot' \in {"malloc", "free", "done"}
    BY <1>1 DEF Reuse, Moved, HandOut, Shape
  <2>3. held' \in Seq(Blocks)
    BY <2>1, <2>2, AppendProperties DEF Shape
  <2>4. QED
    BY <2>1, <2>2, <2>3, MoveKeepsShape
<1>2. CASE LookNext
  <2>1. UNCHANGED <<mp, held, boot, pc, size, lifo>> /\ pc = "scan" /\ temp' = mp[temp].next
        /\ mp[temp].next # NULL
    BY <1>2 DEF LookNext
  <2>2. largest' = mm_free
    BY <1>2, LargestIsFirst DEF LookNext
  <2>3. temp' \in Blocks
    BY <2>1, ShapeFacts DEF Shape
  <2>4. QED
    BY <2>1, <2>2, <2>3 DEF Shape, Layout, Blocks
<1>3. CASE EndOfList
  <2>1. UNCHANGED <<mp, held, boot, size, temp, largest, lifo>> /\ pc = "scan"
        /\ pc' \in {"panic", "carve"}
    BY <1>3 DEF EndOfList
  <2>2. QED
    BY <2>1 DEF Shape, Layout, Blocks
<1>4. CASE Carve
  <2> DEFINE block == mp[mm_free].address + (mp[mm_free].size - (size + HDR))
  <2>1. /\ block \in Nat \ {0} /\ block \notin DOMAIN mp
        /\ DOMAIN mp' = DOMAIN mp \cup {block}
        /\ mp' \in Lists(DOMAIN mp', Blocks')
        /\ Blocks' = Blocks \cup {block}
        /\ block + HDR + size = mp[mm_free].address + mp[mm_free].size
        /\ mp'[block].size = size
        /\ mp'[mm_free].address + mp'[mm_free].size = block
        /\ \A x \in Blocks : mp'[x].size = mp[x].size
        /\ held' = Append(held, block)
    BY <1>4, CarveSpec
  <2> HIDE DEF block
  <2>2. /\ pc' = "idle" /\ pc = "carve" /\ UNCHANGED <<size, temp, largest, lifo>>
        /\ boot' \in {"malloc", "free", "done"}
    BY <1>4 DEF Carve, HandOut, Shape
  <2>3. held' \in Seq(Blocks')
    <3>1. held \in Seq(Blocks') /\ block \in Blocks'
      BY <2>1, SeqMonotonic DEF Shape
    <3>2. QED
      BY <3>1, <2>1, AppendProperties
  <2>4. Shape'
    BY <2>1, <2>2, <2>3 DEF Shape, Sizes
  <2>5. \A b \in Blocks : /\ b \in Nat /\ mp[b].size \in Nat
                          /\ b >= block + HDR + size
    BY <2>1, <2>2, ShapeFacts DEF Layout, Shape
  <2>6. \A b \in Blocks' : b >= mp'[mm_free].address + mp'[mm_free].size
    BY <2>1, <2>5, MemAssumption, SizesAreSmall DEF Shape
  <2>7. ASSUME NEW a \in Blocks', NEW b \in Blocks', a # b
        PROVE  a + HDR + mp'[a].size <= b \/ b + HDR + mp'[b].size <= a
    <3>1. CASE a \in Blocks /\ b \in Blocks
      BY <2>1, <2>7, <3>1 DEF Layout
    <3>2. CASE a = block /\ b \in Blocks
      BY <2>1, <2>5, <3>2
    <3>3. CASE a \in Blocks /\ b = block
      BY <2>1, <2>5, <3>3
    <3>4. QED
      BY <2>1, <2>7, <3>1, <3>2, <3>3
  <2>8. QED
    BY <2>4, <2>6, <2>7 DEF Layout
<1>5. ASSUME NEW s \in Requests \cup {BootRequest}, Malloc(s)
      PROVE  Shape' /\ Layout'
  BY <1>5 DEF Malloc, Shape, Layout, Blocks, Sizes
<1>6. ASSUME NEW k \in DOMAIN held, Free(k)
      PROVE  Shape' /\ Layout'
  <2>1. held[k] \in Blocks /\ held \in Seq(Blocks)
    BY <1>6, ElementOfSeq DEF Shape
  <2>2. /\ mp' = Moved(mp, mm_free, held[k])
        /\ held' = SubSeq(held, 1, k - 1) \o SubSeq(held, k + 1, Len(held))
        /\ pc = "idle" /\ pc' = "idle" /\ UNCHANGED <<size, temp, largest, lifo>>
        /\ boot' \in {"malloc", "free", "done"}
    BY <1>6 DEF Free, Moved
  <2>3. held' \in Seq(Blocks)
    BY <1>6, <2>1, <2>2, HeldAfterFree
  <2>4. QED
    BY <2>1, <2>2, <2>3, MoveKeepsShape
<1>7. CASE UNCHANGED vars
  BY <1>7 DEF vars, Shape, Layout, Blocks
<1>8. CASE CarveOutside
  BY <1>8, RoomForEvery DEF CarveOutside
<1>9. QED
  BY <1>1, <1>2, <1>3, <1>4, <1>5, <1>6, <1>7, <1>8 DEF Next, malloc

-----------------------------------------------------------------------------
(* The lists of a client that frees its youngest block first. mm_used holds *)
(* exactly the blocks of the client, youngest first, and every prev there   *)
(* names the head. On mm_free blocks may drop out of reach (a reused block  *)
(* takes those in front of it along), but following next from the head only *)
(* meets blocks the client does not hold, in a falling rank.                *)

\* The entry behind the k-th held block, or behind the head.
Behind(k) == IF k = 0 THEN NULL ELSE held[k]

UsedChain ==
  /\ mp[mm_used].next = Behind(Len(held))
  /\ \A k \in 1 .. Len(held) : /\ mp[held[k]].prev = mm_used
                               /\ mp[held[k]].next = Behind(k - 1)

FreeChain(F, rank, n) ==
  /\ \A b \in F : /\ rank[b] \in Nat /\ rank[b] < n
                  /\ mp[b].prev = mm_free
                  /\ mp[b].next # NULL => mp[b].next \in F /\ rank[mp[b].next] < rank[b]
  /\ mp[mm_free].next \in F \cup {NULL}
  /\ \A k \in 1 .. Len(held) : held[k] \notin F
  /\ pc = "scan" => temp \in F \cup {mm_free}

Lifo ==
  /\ NoDoubleAllocation
  /\ UsedChain
  /\ \E F \in SUBSET Blocks : \E n \in Nat : \E rank : FreeChain(F, rank, n)

LifoInv == lifo /\ Ample => Lifo

\* Empty lists are in order.
LEMMA InitLifoInv == Init => LifoInv
<1> SUFFICES ASSUME Init PROVE Lifo
  BY DEF LifoInv
<1>1. held = << >> /\ Len(held) = 0 /\ DOMAIN held = {} /\ 1 .. Len(held) = {} /\ pc # "scan"
  BY DEF Init
<1>2. mp[mm_used].next = NULL /\ mp[mm_free].next = NULL
  BY HeadsDiffer DEF Init, Heads, Header
<1>3. NoDoubleAllocation /\ UsedChain
  BY <1>1, <1>2 DEF NoDoubleAllocation, UsedChain, Behind
<1>4. FreeChain({}, << >>, 0)
  BY <1>1, <1>2 DEF FreeChain
<1>5. QED
  BY <1>3, <1>4 DEF Lifo

\* The held blocks are the client's, by position.
LEMMA HeldFacts ==
  ASSUME Shape
  PROVE  /\ Len(held) \in Nat /\ DOMAIN held = 1 .. Len(held)
         /\ \A k \in 1 .. Len(held) : held[k] \in Blocks
  BY ElementOfSeq, LenProperties DEF Shape

\* A block that is not held joins the held ones at the front of mm_used.
LEMMA UsedChainGrows ==
  ASSUME Shape, NoDoubleAllocation, UsedChain, NEW b,
         \A k \in 1 .. Len(held) : held[k] # b,
         held' = Append(held, b),
         mp'[mm_used].next = b, mp'[b].prev = mm_used, mp'[b].next = mp[mm_used].next,
         \A k \in 1 .. Len(held) : /\ mp'[held[k]].prev = mp[held[k]].prev
                                   /\ mp'[held[k]].next = mp[held[k]].next
  PROVE  /\ NoDoubleAllocation' /\ UsedChain'
         /\ Len(held') = Len(held) + 1
         /\ \A k \in 1 .. Len(held') : held'[k] = IF k <= Len(held) THEN held[k] ELSE b
<1>1. Len(held) \in Nat /\ DOMAIN held = 1 .. Len(held) /\ held \in Seq(Blocks)
  BY HeldFacts DEF Shape
<1>2. /\ Len(held') = Len(held) + 1 /\ DOMAIN held' = 1 .. Len(held')
      /\ \A k \in 1 .. Len(held) : held'[k] = held[k]
      /\ held'[Len(held) + 1] = b
  BY <1>1
<1>3. \A k \in 1 .. Len(held') : held'[k] = IF k <= Len(held) THEN held[k] ELSE b
  BY <1>1, <1>2
<1>4. NoDoubleAllocation'
  <2> SUFFICES ASSUME NEW j \in 1 .. Len(held'), NEW k \in 1 .. Len(held'), j # k
               PROVE  held'[j] # held'[k]
    BY <1>2 DEF NoDoubleAllocation
  <2>1. CASE j \in 1 .. Len(held) /\ k \in 1 .. Len(held)
    BY <1>1, <1>2, <2>1 DEF NoDoubleAllocation
  <2>2. CASE j = Len(held) + 1 /\ k \in 1 .. Len(held)
    BY <1>1, <1>2, <2>2
  <2>3. CASE j \in 1 .. Len(held) /\ k = Len(held) + 1
    BY <1>1, <1>2, <2>3
  <2>4. QED
    BY <1>1, <1>2, <2>1, <2>2, <2>3
<1>5. \A k \in 0 .. Len(held) : Behind(k)' = Behind(k)
  BY <1>1, <1>2 DEF Behind
<1>6. Behind(Len(held))' = b
  BY <1>1, <1>2 DEF Behind
<1>7. ASSUME NEW k \in 1 .. Len(held')
      PROVE  mp'[held'[k]].prev = mm_used /\ mp'[held'[k]].next = Behind(k - 1)'
  <2>1. CASE k \in 1 .. Len(held)
    <3>1. held'[k] = held[k] /\ k - 1 \in 0 .. Len(held)
      BY <1>1, <1>2, <2>1
    <3>2. Behind(k - 1)' = Behind(k - 1)
      BY <3>1, <1>5
    <3>3. QED
      BY <2>1, <3>1, <3>2 DEF UsedChain
  <2>2. CASE k = Len(held) + 1
    <3>1. held'[k] = b /\ k - 1 = Len(held) /\ Len(held) \in 0 .. Len(held)
      BY <1>1, <1>2, <2>2
    <3>2. QED
      BY <3>1, <1>5 DEF UsedChain
  <2>3. QED
    BY <1>1, <1>2, <1>7, <2>1, <2>2
<1>8. QED
  BY <1>2, <1>3, <1>4, <1>6, <1>7 DEF UsedChain

\* Without its last element a sequence keeps the others.
LEMMA HeldAfterFreeLast ==
  ASSUME NEW S, NEW h \in Seq(S), NEW r, Len(h) >= 1,
         r = SubSeq(h, 1, Len(h) - 1) \o SubSeq(h, Len(h) + 1, Len(h))
  PROVE  /\ Len(r) = Len(h) - 1 /\ DOMAIN r = 1 .. (Len(h) - 1)
         /\ \A i \in 1 .. (Len(h) - 1) : r[i] = h[i]
<1>1. Len(h) \in Nat /\ DOMAIN h = 1 .. Len(h)
  BY LenProperties
<1>2. SubSeq(h, Len(h) + 1, Len(h)) = << >>
  BY <1>1, SubSeqEmpty
<1>3. /\ SubSeq(h, 1, Len(h) - 1) \in Seq(S)
      /\ Len(SubSeq(h, 1, Len(h) - 1)) = Len(h) - 1
      /\ \A i \in 1 .. (Len(h) - 1) : SubSeq(h, 1, Len(h) - 1)[i] = h[i]
  BY <1>1
<1>4. r = SubSeq(h, 1, Len(h) - 1)
  BY <1>2, <1>3, ConcatEmptySeq
<1>5. QED
  BY <1>3, <1>4, LenProperties

\* What a move does to the pointers of the other headers.
LEMMA MovePointers ==
  ASSUME Shape, NEW head \in {mm_free, mm_used}, NEW b \in Blocks,
         mp' = Moved(mp, head, b)
  PROVE  /\ mp'[head].next = b
         /\ mp'[b].prev = head
         /\ mp'[b].next = IF head = mp[b].prev THEN mp[b].next ELSE mp[head].next
         /\ \A x \in DOMAIN mp \ {head, b} :
              mp'[x].next = IF x = mp[b].prev THEN mp[b].next ELSE mp[x].next
         /\ \A x \in DOMAIN mp \ {b} :
              mp'[x].prev = IF x = mp[b].next THEN mp[b].prev ELSE mp[x].prev
<1>1. /\ NULL \notin DOMAIN mp
      /\ Blocks \in SUBSET DOMAIN mp
      /\ mp \in Lists(DOMAIN mp, Blocks)
      /\ head \in DOMAIN mp /\ b # head
  BY ShapeFacts DEF Shape, Blocks
<1>2. QED
  BY <1>1, MovedSpec

\* A reused block is on the free list, with the head before it: it takes the
\* head's next along, and the blocks in front of it drop out of reach.
LEMMA ReuseLifo ==
  ASSUME Shape, Lifo, Reuse
  PROVE  Lifo'
<1> DEFINE b == temp
           n == mp[temp].next
<1>1. /\ b \in Blocks /\ pc = "scan" /\ n # NULL /\ pc' = "idle"
      /\ mp' = Moved(mp, mm_used, b) /\ held' = Append(held, b)
  BY FitsIsBlock DEF Reuse, Moved, HandOut
<1>2. PICK F \in SUBSET Blocks : \E c \in Nat : \E rank : FreeChain(F, rank, c)
  BY DEF Lifo
<1>3. PICK c \in Nat : \E rank : FreeChain(F, rank, c)
  BY <1>2
<1>4. PICK rank : FreeChain(F, rank, c)
  BY <1>3
<1>5. /\ b \in F /\ n \in F /\ rank[n] < rank[b] /\ mp[b].prev = mm_free
      /\ \A k \in 1 .. Len(held) : held[k] \notin F
      /\ \A x \in F : rank[x] \in Nat /\ rank[x] < c
  BY <1>1, <1>4, ShapeFacts DEF FreeChain
<1>6. /\ \A x \in DOMAIN mp : x # mm_free => mp[b].prev # x
      /\ mm_free \in DOMAIN mp \ {mm_used, b} /\ mm_used # mm_free
      /\ \A x \in Blocks : x \in DOMAIN mp /\ x # mm_free /\ x # mm_used
  BY <1>1, <1>5, HeadsDiffer, ShapeFacts
<1> HIDE DEF b, n
<1>7. /\ mp'[mm_used].next = b
      /\ mp'[b].prev = mm_used /\ mp'[b].next = mp[mm_used].next
      /\ mp'[mm_free].next = n
      /\ \A x \in Blocks \ {b} : mp'[x].next = mp[x].next
      /\ \A x \in Blocks \ {b} : mp'[x].prev = IF x = n THEN mm_free ELSE mp[x].prev
  <2>1. /\ mp'[mm_used].next = b
        /\ mp'[b].prev = mm_used
        /\ mp'[b].next = IF mm_used = mp[b].prev THEN mp[b].next ELSE mp[mm_used].next
        /\ \A x \in DOMAIN mp \ {mm_used, b} :
             mp'[x].next = IF x = mp[b].prev THEN mp[b].next ELSE mp[x].next
        /\ \A x \in DOMAIN mp \ {b} :
             mp'[x].prev = IF x = mp[b].next THEN mp[b].prev ELSE mp[x].prev
    BY <1>1, MovePointers
  <2>2. mp[b].next = n
    BY DEF b, n
  <2>3. QED
    BY <2>1, <2>2, <1>5, <1>6
<1>8. \A k \in 1 .. Len(held) : /\ held[k] # b /\ held[k] \in Blocks
                                /\ mp'[held[k]].prev = mp[held[k]].prev
                                /\ mp'[held[k]].next = mp[held[k]].next
  BY <1>5, <1>7, HeldFacts
<1>9. /\ NoDoubleAllocation' /\ UsedChain'
      /\ \A k \in 1 .. Len(held') : held'[k] = IF k <= Len(held) THEN held[k] ELSE b
      /\ Len(held') = Len(held) + 1
  BY <1>1, <1>7, <1>8, UsedChainGrows DEF Lifo
<1>10. PICK G : G = {x \in F : rank[x] < rank[b]}
  OBVIOUS
<1>11. G \in SUBSET (Blocks')
  BY <1>1, <1>10, <1>2, MoveKeepsAreas
<1>12. FreeChain(G, rank, c)'
  <2>1. ASSUME NEW x \in G
        PROVE  /\ rank[x] \in Nat /\ rank[x] < c
               /\ mp'[x].prev = mm_free
               /\ mp'[x].next # NULL => mp'[x].next \in G /\ rank[mp'[x].next] < rank[x]
    <3>1. x \in F /\ x # b /\ x \in Blocks /\ rank[x] < rank[b] /\ rank[x] \in Nat /\ rank[x] < c
      BY <1>5, <2>1, <1>2, <1>10
    <3>2. mp'[x].prev = mm_free /\ mp'[x].next = mp[x].next
      BY <3>1, <1>4, <1>7 DEF FreeChain
    <3>3. ASSUME mp[x].next # NULL
          PROVE  mp[x].next \in F /\ rank[mp[x].next] < rank[x]
      BY <3>1, <3>3, <1>4 DEF FreeChain
    <3>4. ASSUME mp[x].next # NULL
          PROVE  rank[mp[x].next] < rank[b]
      BY <3>1, <3>3, <3>4, <1>5
    <3>5. QED
      BY <3>1, <3>2, <3>3, <3>4, <1>10
  <2>2. mp'[mm_free].next \in G
    BY <1>5, <1>7, <1>10
  <2>3. \A k \in 1 .. Len(held') : held'[k] \notin G
    <3>1. b \notin G
      BY <1>5, <1>10
    <3>2. Len(held) \in Nat
      BY HeldFacts
    <3>3. QED
      BY <3>1, <3>2, <1>5, <1>9, <1>10
  <2>4. QED
    BY <2>1, <2>2, <2>3, <1>1 DEF FreeChain
<1>13. QED
  BY <1>9, <1>11, <1>12 DEF Lifo

\* A carved block is new to both lists and goes in front of mm_used.
LEMMA CarveLifo ==
  ASSUME Shape, Layout, Lifo, Carve
  PROVE  Lifo'
<1> DEFINE b == mp[mm_free].address + (mp[mm_free].size - (size + HDR))
<1>1. /\ b \notin DOMAIN mp /\ Blocks' = Blocks \cup {b}
      /\ mp'[b].prev = mm_used /\ mp'[b].next = mp[mm_used].next
      /\ mp'[mm_used].next = b /\ mp'[mm_free].next = mp[mm_free].next
      /\ \A x \in Blocks : mp'[x].prev = mp[x].prev /\ mp'[x].next = mp[x].next
      /\ held' = Append(held, b)
  BY CarveSpec
<1> HIDE DEF b
<1>2. pc' = "idle"
  BY DEF Carve, HandOut
<1>3. PICK F \in SUBSET Blocks : \E c \in Nat : \E rank : FreeChain(F, rank, c)
  BY DEF Lifo
<1>4. PICK c \in Nat : \E rank : FreeChain(F, rank, c)
  BY <1>3
<1>5. PICK rank : FreeChain(F, rank, c)
  BY <1>4
<1>6. b \notin Blocks /\ b \notin F
  BY <1>1, <1>3 DEF Blocks
<1>7. \A k \in 1 .. Len(held) : /\ held[k] # b /\ held[k] \in Blocks
                                /\ mp'[held[k]].prev = mp[held[k]].prev
                                /\ mp'[held[k]].next = mp[held[k]].next
  BY <1>1, <1>6, HeldFacts
<1>8. /\ NoDoubleAllocation' /\ UsedChain'
      /\ \A k \in 1 .. Len(held') : held'[k] = IF k <= Len(held) THEN held[k] ELSE b
      /\ Len(held') = Len(held) + 1
  BY <1>1, <1>7, UsedChainGrows DEF Lifo
<1>9. F \in SUBSET (Blocks')
  BY <1>1, <1>3
<1>10. FreeChain(F, rank, c)'
  <2>1. \A x \in F : mp'[x].prev = mp[x].prev /\ mp'[x].next = mp[x].next
    BY <1>1, <1>3
  <2>2. \A k \in 1 .. Len(held') : held'[k] \notin F
    <3>1. Len(held) \in Nat
      BY HeldFacts
    <3>2. \A k \in 1 .. Len(held) : held[k] \notin F
      BY <1>5 DEF FreeChain
    <3>3. QED
      BY <3>1, <3>2, <1>6, <1>8
  <2>3. QED
    BY <2>1, <2>2, <1>1, <1>2, <1>5 DEF FreeChain
<1>11. QED
  BY <1>8, <1>9, <1>10 DEF Lifo

\* The youngest held block is the first of mm_used, so taking it off leaves
\* the rest of the list as it was, and it goes in front of all free blocks.
LEMMA FreeLifo ==
  ASSUME Shape, Lifo, lifo, NEW k \in DOMAIN held, Free(k)
  PROVE  Lifo'
<1>1. Len(held) \in Nat /\ DOMAIN held = 1 .. Len(held)
      /\ \A i \in 1 .. Len(held) : held[i] \in Blocks
  BY HeldFacts
<1>2. k = Len(held) /\ Len(held) >= 1
  BY <1>1 DEF Free, MayFree
<1>3. PICK b : b = held[k]
  OBVIOUS
<1>4. /\ b \in Blocks /\ mp' = Moved(mp, mm_free, b) /\ pc' = "idle"
      /\ mp[b].prev = mm_used /\ mp[b].next = Behind(Len(held) - 1)
      /\ mp[mm_used].next = b
  <2>1. b \in Blocks /\ mp[b].prev = mm_used /\ mp[b].next = Behind(Len(held) - 1)
    BY <1>1, <1>2, <1>3 DEF Lifo, UsedChain
  <2>2. mp[mm_used].next = b
    BY <1>1, <1>2, <1>3 DEF Lifo, UsedChain, Behind
  <2>3. mp' = Moved(mp, mm_free, b) /\ pc' = "idle"
    BY <1>3 DEF Free, Moved
  <2>4. QED
    BY <2>1, <2>2, <2>3
<1>5. /\ Len(held') = Len(held) - 1 /\ DOMAIN held' = 1 .. (Len(held) - 1)
      /\ \A i \in 1 .. (Len(held) - 1) : held'[i] = held[i]
  <2>1. held' = SubSeq(held, 1, Len(held) - 1) \o SubSeq(held, Len(held) + 1, Len(held))
    BY <1>2 DEF Free
  <2>2. QED
    BY <2>1, <1>2, HeldAfterFreeLast DEF Shape
<1>6. PICK F \in SUBSET Blocks : \E c \in Nat : \E rank : FreeChain(F, rank, c)
  BY DEF Lifo
<1>7. PICK c \in Nat : \E rank : FreeChain(F, rank, c)
  BY <1>6
<1>8. PICK rank : FreeChain(F, rank, c)
  BY <1>7
<1>9. /\ mm_used \in DOMAIN mp \ {mm_free, b} /\ mm_used # mm_free
      /\ \A x \in Blocks : x \in DOMAIN mp /\ x # mm_free /\ x # mm_used
  BY <1>4, HeadsDiffer, ShapeFacts
<1>10. /\ mp'[mm_free].next = b
       /\ mp'[b].prev = mm_free /\ mp'[b].next = mp[mm_free].next
       /\ mp'[mm_used].next = Behind(Len(held) - 1)
       /\ \A x \in Blocks \ {b} :
            /\ mp'[x].next = mp[x].next
            /\ mp'[x].prev = IF x = Behind(Len(held) - 1) THEN mm_used ELSE mp[x].prev
  <2>1. /\ mp'[mm_free].next = b
        /\ mp'[b].prev = mm_free
        /\ mp'[b].next = IF mm_free = mp[b].prev THEN mp[b].next ELSE mp[mm_free].next
        /\ \A x \in DOMAIN mp \ {mm_free, b} :
             mp'[x].next = IF x = mp[b].prev THEN mp[b].next ELSE mp[x].next
        /\ \A x \in DOMAIN mp \ {b} :
             mp'[x].prev = IF x = mp[b].next THEN mp[b].prev ELSE mp[x].prev
    BY <1>4, MovePointers
  <2>2. QED
    BY <2>1, <1>4, <1>9
<1>11. \A i \in 1 .. (Len(held) - 1) : held[i] # b /\ held[i] \in Blocks /\ i \in 1 .. Len(held)
  BY <1>1, <1>2, <1>3 DEF Lifo, NoDoubleAllocation
<1>12. NoDoubleAllocation'
  BY <1>1, <1>5, <1>11 DEF Lifo, NoDoubleAllocation
<1>13. \A i \in 0 .. (Len(held) - 1) : Behind(i)' = Behind(i)
  BY <1>1, <1>5 DEF Behind
<1>14. UsedChain'
  <2>1. mp'[mm_used].next = Behind(Len(held))'
    <3>1. Len(held) - 1 \in 0 .. (Len(held) - 1)
      BY <1>1, <1>2
    <3>2. QED
      BY <3>1, <1>5, <1>10, <1>13 DEF Behind
  <2>2. ASSUME NEW i \in 1 .. (Len(held) - 1)
        PROVE  mp'[held'[i]].prev = mm_used /\ mp'[held'[i]].next = Behind(i - 1)'
    <3>1. held'[i] = held[i] /\ i - 1 \in 0 .. (Len(held) - 1)
      BY <1>1, <1>5
    <3>2. mp[held[i]].prev = mm_used /\ mp[held[i]].next = Behind(i - 1)
      BY <1>11 DEF Lifo, UsedChain
    <3>3. QED
      BY <3>1, <3>2, <1>10, <1>11, <1>13
  <2>3. QED
    BY <2>1, <2>2, <1>5 DEF UsedChain
<1>15. PICK G : G = F \cup {b}
  OBVIOUS
<1>16. PICK over : over = [x \in G |-> IF x = b THEN c ELSE rank[x]]
  OBVIOUS
<1>17. G \in SUBSET (Blocks')
  BY <1>4, <1>6, <1>15, MoveKeepsAreas
<1>18. FreeChain(G, over, c + 1)'
  <2>1. /\ b \notin F
        /\ \A i \in 1 .. Len(held) : held[i] \notin F
        /\ \A x \in F : rank[x] \in Nat /\ rank[x] < c
    BY <1>1, <1>2, <1>3, <1>8 DEF FreeChain
  <2>2. over[b] = c /\ \A x \in F : over[x] = rank[x]
    BY <2>1, <1>15, <1>16
  <2>3. Behind(Len(held) - 1) \notin F
    <3>1. CASE Len(held) - 1 = 0
      BY <3>1, <1>6, ShapeFacts DEF Behind
    <3>2. CASE Len(held) - 1 \in 1 .. Len(held)
      BY <3>2, <2>1 DEF Behind
    <3>3. QED
      BY <3>1, <3>2, <1>1, <1>2
  <2>4. ASSUME NEW x \in F
        PROVE  /\ over[x] \in Nat /\ over[x] < c + 1
               /\ mp'[x].prev = mm_free
               /\ mp'[x].next # NULL => mp'[x].next \in G /\ over[mp'[x].next] < over[x]
    <3>1. mp'[x].prev = mp[x].prev /\ mp'[x].next = mp[x].next
      BY <2>1, <2>3, <1>6, <1>10
    <3>2. /\ mp[x].prev = mm_free
          /\ mp[x].next # NULL => mp[x].next \in F /\ rank[mp[x].next] < rank[x]
      BY <1>8 DEF FreeChain
    <3>3. over[x] \in Nat /\ over[x] < c + 1
      BY <2>1, <2>2
    <3>4. QED
      BY <3>1, <3>2, <3>3, <2>2, <1>15
  <2>5. /\ over[b] \in Nat /\ over[b] < c + 1
        /\ mp'[b].prev = mm_free
        /\ mp'[b].next # NULL => mp'[b].next \in G /\ over[mp'[b].next] < over[b]
    <3>1. mp[mm_free].next \in F \cup {NULL}
      BY <1>8 DEF FreeChain
    <3>2. over[b] \in Nat /\ over[b] < c + 1
      BY <2>2
    <3>3. QED
      BY <3>1, <3>2, <1>10, <2>1, <2>2, <1>15
  <2>6. \A i \in 1 .. Len(held') : held'[i] \notin G
    BY <1>5, <1>11, <1>15, <2>1
  <2>7. mp'[mm_free].next \in G \cup {NULL} /\ pc' # "scan"
    BY <1>4, <1>10, <1>15
  <2>8. \A x \in G : /\ over[x] \in Nat /\ over[x] < c + 1
                     /\ mp'[x].prev = mm_free
                     /\ mp'[x].next # NULL => mp'[x].next \in G /\ over[mp'[x].next] < over[x]
    BY <2>4, <2>5, <1>15
  <2>9. QED
    BY <2>6, <2>7, <2>8 DEF FreeChain
<1>19. QED
  BY <1>12, <1>14, <1>17, <1>18 DEF Lifo

-----------------------------------------------------------------------------
(* The theorems.                                                           *)

IInv == TypeInv /\ AreaInv /\ LifoInv

\* The scan follows next from the head, so it stays on free blocks.
LEMMA LookNextLifo ==
  ASSUME Shape, Lifo, LookNext
  PROVE  Lifo'
<1>1. /\ UNCHANGED <<mp, held, pc>> /\ pc = "scan"
      /\ temp' = mp[temp].next /\ mp[temp].next # NULL
  BY DEF LookNext
<1>2. PICK F \in SUBSET Blocks : \E c \in Nat : \E rank : FreeChain(F, rank, c)
  BY DEF Lifo
<1>3. PICK c \in Nat : \E rank : FreeChain(F, rank, c)
  BY <1>2
<1>4. PICK rank : FreeChain(F, rank, c)
  BY <1>3
<1>5. temp' \in F
  BY <1>1, <1>4 DEF FreeChain
<1>6. FreeChain(F, rank, c)'
  BY <1>1, <1>4, <1>5 DEF FreeChain
<1>7. NoDoubleAllocation' /\ UsedChain' /\ Blocks' = Blocks
  BY <1>1 DEF Lifo, NoDoubleAllocation, UsedChain, Behind, Blocks
<1>8. QED
  BY <1>2, <1>6, <1>7 DEF Lifo

\* A step that moves no pointer and no block, and starts no scan off the list.
LEMMA QuietLifo ==
  ASSUME Lifo, UNCHANGED <<mp, held>>, pc' = "scan" => temp' = mm_free
  PROVE  Lifo'
<1>1. PICK F \in SUBSET Blocks : \E c \in Nat : \E rank : FreeChain(F, rank, c)
  BY DEF Lifo
<1>2. PICK c \in Nat : \E rank : FreeChain(F, rank, c)
  BY <1>1
<1>3. PICK rank : FreeChain(F, rank, c)
  BY <1>2
<1>4. FreeChain(F, rank, c)'
  BY <1>3 DEF FreeChain
<1>5. NoDoubleAllocation' /\ UsedChain' /\ Blocks' = Blocks
  BY DEF Lifo, NoDoubleAllocation, UsedChain, Behind, Blocks
<1>6. QED
  BY <1>1, <1>4, <1>5 DEF Lifo

\* No step of a client that frees its youngest block first disturbs the order.
LEMMA NextLifoInv == IInv /\ [Next]_vars => LifoInv'
<1> SUFFICES ASSUME IInv, [Next]_vars, lifo', Ample' PROVE Lifo'
  BY DEF LifoInv
<1>0. Ample
  BY AmpleBefore DEF IInv
<1>1. Shape /\ Layout
  BY <1>0 DEF IInv, AreaInv
<1>2. lifo /\ lifo' = lifo
  BY DEF Next, malloc, Reuse, LookNext, EndOfList, Carve, CarveOutside, Malloc, Free, vars
<1>3. Lifo
  BY <1>0, <1>2 DEF IInv, LifoInv
<1>4. CASE Reuse
  BY <1>1, <1>3, <1>4, ReuseLifo
<1>5. CASE LookNext
  BY <1>1, <1>3, <1>5, LookNextLifo
<1>6. CASE EndOfList \/ CarveOutside
  BY <1>3, <1>6, QuietLifo DEF EndOfList, CarveOutside
<1>7. CASE Carve
  BY <1>1, <1>3, <1>7, CarveLifo
<1>8. ASSUME NEW s \in Requests \cup {BootRequest}, Malloc(s)
      PROVE  Lifo'
  BY <1>3, <1>8, QuietLifo DEF Malloc
<1>9. ASSUME NEW k \in DOMAIN held, Free(k)
      PROVE  Lifo'
  BY <1>1, <1>2, <1>3, <1>9, FreeLifo
<1>10. CASE UNCHANGED vars
  <2>1. UNCHANGED <<mp, held, pc, temp>>
    BY <1>10 DEF vars
  <2>2. PICK F \in SUBSET Blocks : \E c \in Nat : \E rank : FreeChain(F, rank, c)
    BY <1>3 DEF Lifo
  <2>3. PICK c \in Nat : \E rank : FreeChain(F, rank, c)
    BY <2>2
  <2>4. PICK rank : FreeChain(F, rank, c)
    BY <2>3
  <2>5. FreeChain(F, rank, c)'
    BY <2>1, <2>4 DEF FreeChain
  <2>6. NoDoubleAllocation' /\ UsedChain' /\ Blocks' = Blocks
    BY <2>1, <1>3 DEF Lifo, NoDoubleAllocation, UsedChain, Behind, Blocks
  <2>7. QED
    BY <2>2, <2>5, <2>6 DEF Lifo
<1>11. QED
  BY <1>4, <1>5, <1>6, <1>7, <1>8, <1>9, <1>10 DEF Next, malloc

\* The headers stay well formed, the areas apart, and the lists of a client
\* that frees its youngest block first in order.
THEOREM Invariance == Spec => []IInv
<1>1. Init => IInv
  BY InitAreaInv, InitLifoInv DEF IInv
<1>2. IInv /\ [Next]_vars => IInv'
  BY NextTypeInv, NextAreaInv, NextLifoInv DEF IInv
<1>3. QED
  BY <1>1, <1>2, PTL DEF Spec

\* Every pointer malloc and free follow leads to a header, in whatever order
\* the client frees and however little memory is left: their stores go astray
\* in CarveOutside only.
THEOREM TypeCorrect == Spec => []TypeOK
<1>1. IInv => TypeOK
  <2> SUFFICES ASSUME TypeInv PROVE TypeOK
    BY DEF IInv
  <2>1. QED
    BY TypeFacts DEF TypeInv, TypeOK, Sizes, Entries
<1>2. QED
  BY <1>1, Invariance, PTL

\* While the large area is Ample, blocks never overlap one another or what is
\* left of it, and malloc neither hands it out nor carves outside it.
THEOREM AreasApart == Spec => []AreasDisjoint
<1>1. IInv => AreasDisjoint
  <2> SUFFICES ASSUME Ample, Shape, Layout
               PROVE  /\ pc # "wild" /\ \A k \in DOMAIN held : held[k] # mm_free
                      /\ \A a, b \in Blocks : a # b => Area(a) \cap Area(b) = {}
                      /\ \A b \in Blocks : b >= mp[mm_free].address + mp[mm_free].size
    BY DEF IInv, AreaInv, AreasDisjoint
  <2>1. HDR \in Nat /\ \A b \in Blocks : b \in Nat /\ mp[b].size \in Nat
    BY MemAssumption, ShapeFacts DEF Shape
  <2>2. ASSUME NEW a \in Blocks, NEW b \in Blocks, a # b
        PROVE  Area(a) \cap Area(b) = {}
    BY <2>1, <2>2 DEF Layout, Area
  <2>3. pc # "wild" /\ \A k \in DOMAIN held : held[k] # mm_free
    BY HeldFacts, ShapeFacts DEF Shape
  <2>4. QED
    BY <2>2, <2>3 DEF Layout
<1>2. QED
  BY <1>1, Invariance, PTL

\* While the large area is Ample, a client that frees its youngest block first
\* is never given a block that it still holds.
THEOREM LifoClientIsSafe == Spec => []LifoNoDoubleAllocation
<1>1. IInv => LifoNoDoubleAllocation
  BY DEF IInv, LifoInv, Lifo, LifoNoDoubleAllocation
<1>2. QED
  BY <1>1, Invariance, PTL
=============================================================================
