--------------------------------- MODULE Vm ---------------------------------
(***************************************************************************)
(* Physical pages and address spaces: kernel/kalloc.c, kernel/vm.c and the *)
(* calls that build, copy, grow and replace an address space: fork, exit   *)
(* and wait, sbrk, exec.                                                   *)
(*                                                                         *)
(* Pages are interchangeable, so the free list is the number of its pages. *)
(* Routines are functions on a record m with the free pages and the        *)
(* address space they work on; m.r is what the last of them returned and   *)
(* m.ok whether it was not an error.  A call touches its own address space *)
(* and takes pages one by one from the list; where it runs out depends on  *)
(* how many are left, and the steps of the other processes vary that       *)
(* number, so a call is one step.                                          *)
(***************************************************************************)
EXTENDS Integers, Sequences, FiniteSets, Loops

CONSTANTS
  NPROC, NPAGES,
  PGSIZE, NPTENTRIES,
  KERNBASE,
  NKPT,           \* page-table pages that the mappings of kmap[] need
  Incr,           \* bound: what sbrk() is asked for, besides -sz
  Program         \* what exec() is given: segments, and the size of the arguments

\* Memory is enough for the first process, without which the kernel panics as
\* it starts.
ASSUME VmAssumption ==
  /\ NPROC \in Nat /\ NPROC > 0 /\ NKPT \in Nat
  /\ NPAGES \in Nat /\ NPAGES >= NKPT + 5
  /\ PGSIZE \in Nat /\ PGSIZE > 0 /\ NPTENTRIES \in Nat /\ NPTENTRIES > 0
  /\ KERNBASE \in Nat /\ KERNBASE > PGSIZE /\ KERNBASE % PGSIZE = 0
  /\ Incr \subseteq Int
  /\ Program \subseteq
       [segs : Seq([vaddr : Nat, memsz : Nat, loads : BOOLEAN]), args : Nat]

Slot == 1..NPROC
Va == 0 .. (KERNBASE \div PGSIZE - 1)      \* user pages by number
PDX(va) == va \div NPTENTRIES

\* PGROUNDUP by the number of the page, and in bytes.
Up(sz) == (sz + PGSIZE - 1) \div PGSIZE
PGROUNDUP(sz) == Up(sz) * PGSIZE

\* How many of the addresses PGROUNDUP(a), PGROUNDUP(a) + PGSIZE, ... are below b.
Turns(a, b) == IF a < b THEN Up(b) - Up(a) ELSE 0

VARIABLES
  free,      \* kmem.freelist: how many pages
  lost,      \* how many pages nothing points to any more
  proc,      \* state, kstack, mmt_start, sz and address space of each slot
  ret,       \* how the last call ended
  vpanic

vvars == <<free, lost, proc, ret, vpanic>>

\* An address space: pages for the directory and the kernel's page tables, the
\* page tables and the pages of the user that are there, and those not for it.
NoSpace == [pgdir |-> 0, kpt |-> 0, tab |-> {}, pte |-> {}, guard |-> {}]
Directory(n) == [pgdir |-> 1, kpt |-> n, tab |-> {}, pte |-> {}, guard |-> {}]
Freed(n) == [state |-> "UNUSED", kstack |-> 0, mmt |-> n, sz |-> 0, space |-> NoSpace]

State(f, l, sp) == [free |-> f, lost |-> l, sp |-> sp, r |-> 0, ok |-> TRUE, panic |-> FALSE]
With(sp) == State(free, lost, sp)

\* A routine returns v, or an error, or turns to another address space.
Ret(m, v) == [m EXCEPT !.r = v]
Fail(m) == [m EXCEPT !.ok = FALSE]
Onto(m, sp) == [m EXCEPT !.sp = sp]

-----------------------------------------------------------------------------
(* kalloc.c                                                                *)

\* kfree() of n pages.
Kfree(m, n) == [m EXCEPT !.free = @ + n]

\* kalloc(): r is 1 for a page and 0 for none.
Kalloc(m) ==
  IF m.free = 0 THEN Ret(m, 0) ELSE Ret(Kfree(m, -1), 1)

-----------------------------------------------------------------------------
(* vm.c                                                                    *)

\* walkpgdir(pgdir, va, 1): makes the page table of va if there is none.
Walkpgdir(m, va) ==
  LET k == Kalloc(m) IN
  IF PDX(va) \in m.sp.tab THEN m
  ELSE IF k.r = 0 THEN Fail(m)
  ELSE [k EXCEPT !.sp.tab = @ \cup {PDX(va)}]

\* mappages() of the page at hand.
Mappages(m, va) ==
  LET w == Walkpgdir(m, va)
      u == [w EXCEPT !.panic = @ \/ va \in w.sp.pte]
  IN IF ~w.ok THEN w ELSE [u EXCEPT !.sp.pte = @ \cup {va}]

\* Faulty variant: the page of newsz itself is freed.
DeallocuvmDown(m, oldsz, newsz) ==
  LET vas == {va \in Va : va >= newsz \div PGSIZE /\ va * PGSIZE < oldsz}
      f == Kfree(m, Cardinality(m.sp.pte \cap vas))
  IN IF newsz >= oldsz THEN Ret(m, oldsz) ELSE Ret([f EXCEPT !.sp.pte = @ \ vas], newsz)

\* deallocuvm(): free the pages from newsz up to oldsz that there are.
Deallocuvm(m, oldsz, newsz) ==
  LET vas == {va \in Va : va * PGSIZE >= PGROUNDUP(newsz) /\ va * PGSIZE < oldsz}
      f == Kfree(m, Cardinality(m.sp.pte \cap vas))
  IN IF newsz >= oldsz THEN Ret(m, oldsz) ELSE Ret([f EXCEPT !.sp.pte = @ \ vas], newsz)

\* Faulty variant: the page tables stay.
FreevmNoTables(m) ==
  LET d == Deallocuvm(m, KERNBASE, 0) IN
  Onto(Kfree(d, d.sp.pgdir + d.sp.kpt), NoSpace)

\* freevm(): the user pages, the page tables and the directory.
Freevm(m) ==
  LET d == Deallocuvm(m, KERNBASE, 0) IN
  Onto(Kfree(d, d.sp.pgdir + d.sp.kpt + Cardinality(d.sp.tab)), NoSpace)

\* setupkvm(): a directory, and the page tables of the kernel part.
Setupkvm(m) ==
  LET d == Kalloc(m)
      n == IF d.free < NKPT THEN d.free ELSE NKPT
      k == Onto(Kfree(d, -n), Directory(n))
  IN IF d.r = 0 THEN Fail(Onto(m, NoSpace))
     ELSE IF n < NKPT THEN Fail(Freevm(k))
     ELSE k

\* Faulty variant: the pages of a growth that fails stay.
AllocuvmKeeps(m, oldsz, newsz) ==
  LET page(t, j) ==
        LET k == Kalloc(t)
            w == Mappages(k, Up(oldsz) + j - 1)
        IN IF ~t.ok THEN t
           ELSE IF k.r = 0 THEN Fail(t)
           ELSE IF ~w.ok THEN Kfree(w, 1)
           ELSE w
      t == Loop(page, m, Turns(oldsz, newsz))
  IN IF newsz >= KERNBASE THEN Fail(m)
     ELSE IF newsz < oldsz THEN Ret(m, oldsz)
     ELSE Ret(t, newsz)

\* A turn of the loop of allocuvm(): when there is no page for va or for its page
\* table, what was added is freed again.
AllocPage(t, va, oldsz, newsz) ==
  LET k == Kalloc(t)
      w == Mappages(k, va)
  IN IF ~t.ok THEN t
     ELSE IF k.r = 0 THEN Fail(Deallocuvm(t, newsz, oldsz))
     ELSE IF ~w.ok THEN Kfree(Deallocuvm(w, newsz, oldsz), 1)
     ELSE w

\* allocuvm(), a page at a time.
Allocuvm(m, oldsz, newsz) ==
  LET page(t, k) == AllocPage(t, Up(oldsz) + k - 1, oldsz, newsz)
      t == Loop(page, m, Turns(oldsz, newsz))
  IN IF newsz >= KERNBASE THEN Fail(m)
     ELSE IF newsz < oldsz THEN Ret(m, oldsz)
     ELSE IF newsz = 0 THEN Fail(Ret(t, newsz))
     ELSE Ret(t, newsz)

\* A turn of the loop of copyuvm().  If there is no page for the page table of va,
\* the copy at hand is in no address space yet.
CopyPage(t, va, from) ==
  LET f == [t EXCEPT !.panic = @ \/ va \notin from.pte]
      k == Kalloc(f)
      w == Mappages(k, va)
  IN IF ~t.ok THEN t
     ELSE IF k.r = 0 THEN Fail(f)
     ELSE IF ~w.ok THEN [w EXCEPT !.lost = @ + 1]
     ELSE [w EXCEPT !.sp.guard = IF va \in from.guard THEN @ \cup {va} ELSE @]

\* copyuvm(): a new address space with a copy of each page below sz.
Copyuvm(m, from, sz) ==
  LET page(t, k) == CopyPage(t, k - 1, from)
      d == Setupkvm(m)
      t == Loop(page, d, Turns(0, sz))
  IN IF ~d.ok THEN d
     ELSE IF ~t.ok THEN Fail(Freevm(t))
     ELSE t

\* copyout() of the len bytes that end at va: every page must be there for the
\* user; the page under the stack is not.
Copyout(m, va, len) ==
  \A a \in (va - len) .. (va - 1) :
    a >= 0 /\ a \div PGSIZE \in m.sp.pte \ m.sp.guard

-----------------------------------------------------------------------------
(* The calls                                                               *)

\* A call of slot p ends with the pages of m.
Ends(m, result) ==
  /\ free' = m.free /\ lost' = m.lost /\ vpanic' = (vpanic \/ m.panic)
  /\ ret' = result

Running(p) == proc[p].state = "RUNNING"

\* Process p with another state, size or address space.
Resized(p, state, sz, sp) ==
  [state |-> state, kstack |-> proc[p].kstack, mmt |-> proc[p].mmt, sz |-> sz, space |-> sp]

\* After userinit(): one process with one page, with the pages of the
\* kernel's own page table set aside.
VInit ==
  LET k == Setupkvm(State(NPAGES - 2, 0, NoSpace))
      a == Allocuvm(k, 0, PGSIZE)
  IN /\ free = a.free /\ lost = 0
     /\ proc = [p \in Slot |-> IF p = 1
                  THEN [state |-> "RUNNING", kstack |-> 1, mmt |-> 1, sz |-> PGSIZE,
                        space |-> a.sp]
                  ELSE Freed(0)]
     /\ ret = "ok" /\ vpanic = FALSE

\* fork() and allocproc(): a kernel stack, a page for the table of memory maps,
\* which may be missing, and the copy.  The table that the slot had before, or
\* has when the copy fails, is forgotten.
Fork(p) ==
  \E q \in Slot :
    LET st == Kalloc([With(NoSpace) EXCEPT !.lost = @ + proc[q].mmt])
        mt == Kalloc(st)
        c == Copyuvm(mt, proc[p].space, proc[p].sz)
        new == [state |-> "RUNNING", kstack |-> st.r, mmt |-> mt.r, sz |-> proc[p].sz,
                space |-> c.sp]
    IN /\ Running(p) /\ proc[q].state = "UNUSED"
       /\ IF st.r = 0 THEN Ends(With(NoSpace), "fail") /\ UNCHANGED proc
          ELSE IF ~c.ok
            THEN /\ proc' = [proc EXCEPT ![q] = Freed(mt.r)]
                 /\ Ends(Kfree(c, 1), "fail")
            ELSE proc' = [proc EXCEPT ![q] = new] /\ Ends(c, "ok")

\* exit(), and a fault of a process whose memory is gone.
Exit(p) ==
  /\ p # 1 /\ proc[p].state \in {"RUNNING", "FAULTING"}
  /\ proc' = [proc EXCEPT ![p].state = "ZOMBIE"]
  /\ ret' = "ok" /\ UNCHANGED <<free, lost, vpanic>>

\* wait() by the parent: the stack and the address space are freed, and the
\* table of memory maps stays with the slot.
Wait(q) ==
  LET m == Freevm(With(proc[q].space)) IN
  /\ proc[q].state = "ZOMBIE"
  /\ proc' = [proc EXCEPT ![q] = Freed(proc[q].mmt)]
  /\ Ends(Kfree(m, proc[q].kstack), "ok")

\* sys_sbrk() and growproc().  A size of 0 from deallocuvm() is taken for an
\* error after the pages are gone: the process faults as it returns.
Growproc(p, n) ==
  LET sz == proc[p].sz
      m == With(proc[p].space)
      g == IF n > 0 THEN Allocuvm(m, sz, sz + n)
           ELSE Deallocuvm(m, sz, IF sz + n < 0 THEN KERNBASE ELSE sz + n)
  IN /\ Running(p) /\ n # 0
     /\ IF g.ok /\ g.r # 0
          THEN /\ proc' = [proc EXCEPT ![p] = Resized(p, "RUNNING", g.r, g.sp)]
               /\ Ends(g, "ok")
          ELSE /\ proc' = [proc EXCEPT ![p] =
                              Resized(p, IF g.ok THEN "FAULTING" ELSE "RUNNING", sz, g.sp)]
               /\ Ends(g, "fail")

\* exec(): the turn of its loop for segment s.
ExecSegment(t, s) ==
  LET a == Allocuvm(t, t.r, s.vaddr + s.memsz) IN
  IF ~t.ok THEN t
  ELSE IF s.vaddr % PGSIZE = 0 /\ s.loads THEN a
  ELSE Fail(a)

\* exec(): all segments.
ExecSegments(m, segs) ==
  LET seg(t, k) == ExecSegment(t, segs[k]) IN
  Loop(seg, Ret(m, 0), Len(segs))

\* exec(): two pages for the stack, of which the lower one is not for the user.
ExecStack(t) ==
  LET base == PGROUNDUP(t.r)
      st == Allocuvm(t, base, base + 2 * PGSIZE)
  IN IF ~t.ok THEN t
     ELSE IF ~st.ok THEN st
     ELSE [st EXCEPT !.sp.guard = {base \div PGSIZE}]

\* exec(): the arguments, which may be too many for the stack.
ExecArgs(t, args) == IF t.ok /\ ~Copyout(t, t.r, args) THEN Fail(t) ELSE t

\* exec(): the segments, the stack and the arguments, in an address space of its
\* own.
ExecImage(m, prog) ==
  LET new == Setupkvm(m) IN
  IF ~new.ok THEN new
  ELSE ExecArgs(ExecStack(ExecSegments(new, prog.segs)), prog.args)

\* exec(): at the end the new address space takes the place of the old one, and
\* on any error it is thrown away, if there is one.
Exec(p, prog) ==
  LET new == ExecImage(With(NoSpace), prog) IN
  /\ Running(p)
  /\ IF new.ok
       THEN /\ proc' = [proc EXCEPT ![p] = Resized(p, "RUNNING", new.r, new.sp)]
            /\ Ends(Freevm(Onto(new, proc[p].space)), "ok")
       ELSE /\ Ends(IF new.sp.pgdir = 0 THEN new ELSE Freevm(new), "fail")
            /\ UNCHANGED proc

VNext ==
  \E p \in Slot :
    \/ Fork(p) \/ Exit(p) \/ Wait(p)
    \/ \E n \in Incr \cup {-proc[p].sz} : Growproc(p, n)
    \/ \E prog \in Program : Exec(p, prog)

VSpec == VInit /\ [][VNext]_vvars

-----------------------------------------------------------------------------
(* The checks of syscall.c on what a process passes                        *)

\* fetchint() is Argptr of four bytes; argptr() itself.
Argptr(p, addr, size) == addr < proc[p].sz /\ addr + size <= proc[p].sz

\* fetchstr(): the string, from addr to the first zero in zeros, must end below
\* the size.
Fetchstr(p, addr, zeros) ==
  addr < proc[p].sz /\ \E a \in zeros : a >= addr /\ a < proc[p].sz

-----------------------------------------------------------------------------
(* Properties                                                              *)

Pages(p) ==
  LET sp == proc[p].space IN
  proc[p].kstack + proc[p].mmt + sp.pgdir + sp.kpt + Cardinality(sp.tab) + Cardinality(sp.pte)

\* The pages of all processes.
InUse ==
  LET upto[n \in 0..NPROC] == IF n = 0 THEN 0 ELSE upto[n - 1] + Pages(n)
  IN upto[NPROC]

\* No error path of fork(), exec() or sbrk() frees a page twice or drops one:
\* at all times a page is free, or has one use in one process, or is one of
\* those that copyuvm() and allocproc() forget.
PagesConserved == free + lost + InUse = NPAGES

\* Below its size a process has all of its pages and above it none, whatever
\* sizes sbrk() has been through: fork() does not panic over a page that is
\* not there, and what argptr() and fetchstr() let through is mapped.
SizeIsMapped ==
  /\ ~vpanic
  /\ \A p \in Slot : Running(p) =>
       /\ proc[p].space.pte = {a \in Va : a * PGSIZE < proc[p].sz}
       /\ \A addr \in 0 .. (KERNBASE - 1), size \in 0..KERNBASE :
            Argptr(p, addr, size) =>
              \A a \in addr .. (addr + size - 1) : a \div PGSIZE \in proc[p].space.pte
       /\ \A addr, zero \in 0 .. (KERNBASE - 1) :
            Fetchstr(p, addr, {zero}) => zero \div PGSIZE \in proc[p].space.pte

\* q is again what p was, but for page tables and the table of memory maps.
Restored(p, q) ==
  /\ q.state = p.state /\ q.kstack = p.kstack /\ q.sz = p.sz
  /\ q.space.pgdir = p.space.pgdir /\ q.space.kpt = p.space.kpt
  /\ q.space.pte = p.space.pte /\ q.space.guard = p.space.guard

\* A fork(), exec() or sbrk() that fails leaves every process as it was, apart
\* from page tables that sbrk() keeps and the page that allocproc() took, and
\* with it, by PagesConserved, the free pages.  The exception is sbrk() to
\* nothing, which fails after it has freed the memory.
FailureRestores ==
  [][ret' = "fail" =>
       \A p \in Slot :
         proc'[p].state = "FAULTING" \/ Restored(proc[p], proc'[p])]_vvars
=============================================================================
