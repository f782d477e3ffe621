------------------------------ MODULE MCStorage -----------------------------
(***************************************************************************)
(* Small instances, for TLC, of what keeps blocks and pages: the contents  *)
(* of files, the memory of processes and the heap of a program.  They      *)
(* share nothing: a behaviour is one of them, by the value of which, while *)
(* the others stay as they begin.                                          *)
(***************************************************************************)
EXTENDS Filedata, Vm, TLC

CONSTANTS LIMIT, NALLOC, HEADER, Want

VARIABLES
  which,
  node, freep, brk, live

uvars == <<node, freep, brk, live>>
vars == <<which, fvars, vvars, uvars>>

\* Changes of size across pages and within one, and programs with one and two
\* segments, one that does not load, one with more arguments than stack, and
\* one that is not aligned.
Increments == {-3, -1, 1, 3}
Seg(v, m, l) == [vaddr |-> v, memsz |-> m, loads |-> l]
Programs ==
  {[segs |-> <<Seg(0, 1, TRUE)>>, args |-> 1],
   [segs |-> <<Seg(0, 1, TRUE), Seg(4, 1, TRUE)>>, args |-> 2],
   [segs |-> <<Seg(0, 1, TRUE), Seg(2, 1, FALSE)>>, args |-> 1],
   [segs |-> <<Seg(0, 1, TRUE)>>, args |-> 3],
   [segs |-> <<Seg(1, 2, TRUE)>>, args |-> 1]}

U == INSTANCE Umalloc

Init ==
  /\ which \in {"files", "memory", "heap"}
  /\ FInit /\ VInit /\ U!UInit

FileStep == which = "files" /\ FNext /\ UNCHANGED <<which, vvars, uvars>>
MemoryStep == which = "memory" /\ VNext /\ UNCHANGED <<which, fvars, uvars>>
HeapStep == which = "heap" /\ U!UNext /\ UNCHANGED <<which, fvars, vvars>>

Next == FileStep \/ MemoryStep \/ HeapStep

Spec == Init /\ [][Next]_vars

Symmetry == Permutations(Proc)

-----------------------------------------------------------------------------
\* Umalloc: malloc() and free() keep the free list exact.
HeapExact == which = "heap" => U!HeapExact
=============================================================================
