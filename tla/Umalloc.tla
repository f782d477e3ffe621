------------------------------- MODULE Umalloc ------------------------------
(***************************************************************************)
(* The heap of a program (user/umalloc.c): a circular list of free blocks  *)
(* in the order of their addresses, beginning at a block of size 0 below   *)
(* the heap, from which malloc() takes and to which free() returns.        *)
(*                                                                         *)
(* Addresses and sizes are in units of a header.                           *)
(***************************************************************************)
EXTENDS Integers, FiniteSets, TLC

CONSTANTS
  LIMIT,        \* sbrk() fails above this
  NALLOC,       \* 4096: the least that morecore() asks for
  HEADER,       \* sizeof(Header), 8 bytes
  Want          \* the numbers of bytes that the program asks for

VARIABLES
  node,         \* the free blocks: address -> size and next block
  freep,        \* where the next search starts; NULL before the first
  brk,          \* the end of the heap
  live          \* the blocks the program has: address -> size

uvars == <<node, freep, brk, live>>

base == 0
NULL == -1

Without(f, a) == [x \in DOMAIN f \ {a} |-> f[x]]

UInit ==
  /\ node = (base :> [ptr |-> base, size |-> 0])
  /\ freep = NULL
  /\ brk = 1
  /\ live = <<>>

-----------------------------------------------------------------------------
(* free                                                                    *)

\* The loop of free(): from p on, the block after which bp belongs.
RECURSIVE Place(_, _, _)
Place(nd, p, bp) ==
  LET q == nd[p].ptr IN
  IF (bp > p /\ bp < q) \/ (p >= q /\ (bp > p \/ bp < q)) THEN p
  ELSE Place(nd, q, bp)

\* Faulty variant: the block is not joined to the one after it.
FreeLower(h, bp, size) ==
  LET p == Place(h.node, h.freep, bp)
      q == h.node[p].ptr
      joins == p + h.node[p].size = bp
  IN [h EXCEPT !.freep = p,
       !.node = IF joins THEN [@ EXCEPT ![p].size = @ + size]
                ELSE (bp :> [ptr |-> q, size |-> size]) @@ [@ EXCEPT ![p].ptr = bp]]

\* free() of the block at bp: joined to its neighbours where they touch.
Free(h, bp, size) ==
  LET p == Place(h.node, h.freep, bp)
      q == h.node[p].ptr
      up == bp + size = q
      b == IF up THEN [ptr |-> h.node[q].ptr, size |-> size + h.node[q].size]
           ELSE [ptr |-> q, size |-> size]
      rest == IF up THEN Without(h.node, q) ELSE h.node
  IN [h EXCEPT !.freep = p,
       !.node = IF p + rest[p].size = bp
                  THEN [rest EXCEPT ![p] = [ptr |-> b.ptr, size |-> @.size + b.size]]
                  ELSE (bp :> b) @@ [rest EXCEPT ![p].ptr = bp]]

-----------------------------------------------------------------------------
(* malloc                                                                  *)

\* morecore(): a new piece of heap, freed into the list.
Morecore(h, nu) ==
  LET n == IF nu < NALLOC THEN NALLOC ELSE nu IN
  IF h.brk + n > LIMIT THEN [h EXCEPT !.got = NULL]
  ELSE Free([h EXCEPT !.brk = @ + n], h.brk, n)

\* Take nunits from block p: all of it, or its end.
Taken(h, prevp, p, nunits) ==
  LET rest == h.node[p].size - nunits IN
  IF rest = 0
    THEN [h EXCEPT !.node = Without([@ EXCEPT ![prevp].ptr = h.node[p].ptr], p),
                   !.freep = prevp, !.got = p]
    ELSE [h EXCEPT !.node[p].size = rest, !.freep = prevp, !.got = p + rest]

\* The search: first fit from freep; a whole round without one asks for more.
RECURSIVE Search(_, _, _, _)
Search(h, prevp, p, nunits) ==
  IF h.node[p].size >= nunits THEN Taken(h, prevp, p, nunits)
  ELSE IF p = h.freep
    THEN LET m == Morecore(h, nunits) IN
         IF m.got = NULL THEN m
         ELSE Search(m, m.freep, m.node[m.freep].ptr, nunits)
  ELSE Search(h, p, h.node[p].ptr, nunits)

\* got is what malloc() returns: base until it is known, NULL when there is no
\* memory.
Heap == [node |-> node, freep |-> IF freep = NULL THEN base ELSE freep, brk |-> brk,
         got |-> base]

Malloc(nbytes) ==
  LET nunits == (nbytes + HEADER - 1) \div HEADER + 1
      h == Search(Heap, Heap.freep, Heap.node[Heap.freep].ptr, nunits)
  IN /\ node' = h.node /\ freep' = h.freep /\ brk' = h.brk
     /\ live' = IF h.got = NULL THEN live ELSE (h.got :> nunits) @@ live

CallFree(bp) ==
  LET h == Free(Heap, bp, live[bp]) IN
  /\ node' = h.node /\ freep' = h.freep
  /\ live' = Without(live, bp)
  /\ UNCHANGED brk

\* The program calls sbrk() itself: the heap is in pieces.
Sbrk(n) ==
  /\ brk + n <= LIMIT
  /\ brk' = brk + n
  /\ UNCHANGED <<node, freep, live>>

UNext ==
  \/ \E nbytes \in Want : Malloc(nbytes)
  \/ \E bp \in DOMAIN live : CallFree(bp)
  \/ Sbrk(1)

USpec == UInit /\ [][UNext]_uvars

-----------------------------------------------------------------------------
(* Properties                                                              *)

Units(a, n) == a .. (a + n - 1)

\* Whatever the order of malloc() and free(), and wherever the program has moved
\* the break itself, the free list is one cycle through the free blocks in the
\* order of their addresses, no two free blocks touch, and no unit of the heap
\* is in two blocks: the search ends and no block overlaps another.
HeapExact ==
  LET a == DOMAIN node
      d == DOMAIN live
      next(x) == {y \in a : y > x /\ \A z \in a : z > x => y <= z}
  IN /\ freep \in a \cup {NULL}
     /\ \A x \in a :
          /\ node[x].ptr \in a
          /\ IF next(x) = {} THEN node[x].ptr = base
             ELSE /\ node[x].ptr \in next(x)
                  /\ x + node[x].size < node[x].ptr
     /\ a \cap d = {}
     /\ \A x, y \in a : x < y => Units(x, node[x].size) \cap Units(y, node[y].size) = {}
     /\ \A x, y \in d : x < y => Units(x, live[x]) \cap Units(y, live[y]) = {}
     /\ \A x \in a, y \in d : Units(x, node[x].size) \cap Units(y, live[y]) = {}
     /\ \A x \in d : Units(x, live[x]) \subseteq 1 .. (brk - 1)
     /\ \A x \in a : Units(x, node[x].size) \subseteq 1 .. (brk - 1)
=============================================================================
