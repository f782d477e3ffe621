------------------------------ MODULE VmProofs ------------------------------
(***************************************************************************)
(* Proofs about module Vm, for every number of slots and pages, every size *)
(* of a page and of memory, and all programs and increments.               *)
(*                                                                         *)
(* Each routine has a lemma that says what it adds and takes away and that *)
(* the sum of the pages stays; a loop goes through states that its turns   *)
(* lead to one by one.  Each call then changes one slot by the predicate   *)
(* Step, which keeps the invariant VmInv.                                  *)
(***************************************************************************)
EXTENDS Vm, FiniteSetTheorems, NaturalsInduction, WellFoundedInduction, TLAPS

-----------------------------------------------------------------------------
(* Loops                                                                   *)

\* What holds before the first turn of a loop, and after a turn if it held
\* before it, holds after each.
LEMMA Induct ==
  ASSUME NEW n \in Nat, NEW P, 0 \in P, \A k \in 1..n : k - 1 \in P => k \in P
  PROVE  \A k \in 0..n : k \in P
<1> SUFFICES ASSUME NEW j \in 0..n, j \notin P PROVE FALSE
  BY Zenon
<1> DEFINE B == {k \in 0..n : k \notin P}
<1>1. B \subseteq Nat /\ B # {}
  <2>1. 0..n \subseteq Nat
    OBVIOUS
  <2> QED BY Zenon, <2>1 DEF B
<1>2. PICK k \in B : \A m \in B : ~(<<m, k>> \in OpToRel(<, Nat))
  BY Zenon, <1>1, WFMin, NatLessThanWellFounded
<1>3. \A m \in B : ~(m < k)
  BY Zenon, <1>1, <1>2 DEF OpToRel
<1>4. k \in 0..n /\ k \notin P /\ k # 0
  BY Zenon
<1>5. k \in 1..n /\ k - 1 \in 0..n /\ k - 1 < k
  BY <1>4
<1>6. k - 1 \in P
  BY Zenon, <1>3, <1>5
<1> QED BY Zenon, <1>4, <1>5, <1>6

\* f has the states of a loop of n turns from m, where G[k] is the k-th turn and
\* S[k] has the states that may follow it.
IsRun(f, n, m, S, G) ==
  /\ f = [k \in 0..n |-> f[k]] /\ f[0] = m
  /\ \A k \in 1..n : f[k] = G[k][f[k - 1]]
  /\ \A k \in 0..n : f[k] \in S[k]

\* A loop has states to go through.
LEMMA Runs ==
  ASSUME NEW n \in Nat, NEW S, NEW m \in S[0], NEW G,
         \A k \in 1..n : \A t \in S[k - 1] : G[k][t] \in S[k]
  PROVE  \E f : IsRun(f, n, m, S, G)
<1> DEFINE Run(f, j) == /\ f = [k \in 0..j |-> f[k]] /\ f[0] = m
                        /\ \A k \in 1..j : f[k] = G[k][f[k - 1]]
                        /\ \A k \in 0..j : f[k] \in S[k]
           P == {j \in 0..n : \E f : Run(f, j)}
<1>1. 0 \in P
  <2> DEFINE g == [k \in 0..0 |-> m]
  <2>1. 0 \in 0..0 /\ (\A k \in 0..0 : k = 0) /\ 1..0 = {} /\ 0 \in 0..n
    OBVIOUS
  <2>2. Run(g, 0)
    BY Zenon, <2>1
  <2> HIDE DEF Run
  <2> QED BY Zenon, <2>1, <2>2 DEF P
<1>2. ASSUME NEW j \in 1..n, j - 1 \in P PROVE j \in P
  <2>1. PICK f : Run(f, j - 1)
    BY Zenon, <1>2
  <2> DEFINE g == [k \in 0..j |-> IF k = j THEN G[j][f[j - 1]] ELSE f[k]]
  <2>2. j - 1 \in 0 .. (j - 1) /\ 0 # j /\ 0 \in 0..j /\ j \in 0..n
    OBVIOUS
  <2>3. G[j][f[j - 1]] \in S[j]
    BY Zenon, <2>1, <2>2
  <2>4. ASSUME NEW k \in 0..j PROVE g[k] \in S[k]
    <3>1. k # j => k \in 0 .. (j - 1)
      OBVIOUS
    <3> QED BY Zenon, <2>1, <2>3, <3>1
  <2>5. g = [k \in 0..j |-> g[k]] /\ g[0] = m
    BY Zenon, <2>1, <2>2
  <2>6. ASSUME NEW k \in 1..j PROVE g[k] = G[k][g[k - 1]]
    <3>1. k \in 0..j /\ k - 1 \in 0..j /\ k - 1 # j /\ (k # j => k \in 1 .. (j - 1))
      OBVIOUS
    <3>2. g[k - 1] = f[k - 1]
      BY Zenon, <3>1
    <3>3. CASE k = j
      BY Zenon, <3>1, <3>2, <3>3
    <3>4. CASE k # j
      BY Zenon, <2>1, <3>1, <3>2, <3>4
    <3> QED BY Zenon, <3>3, <3>4
  <2> HIDE DEF g
  <2>7. Run(g, j)
    BY Zenon, <2>4, <2>5, <2>6
  <2> HIDE DEF Run
  <2> QED BY Zenon, <2>2, <2>7 DEF P
<1>3. n \in P
  <2>1. \A k \in 0..n : k \in P
    <3> HIDE DEF P
    <3> QED BY Zenon, <1>1, <1>2, Induct
  <2>2. n \in 0..n
    OBVIOUS
  <2> QED BY Zenon, <2>1, <2>2
<1> QED BY Zenon, <1>3 DEF IsRun

-----------------------------------------------------------------------------
(* Pages                                                                   *)

\* Division of integers.
LEMMA DivMod ==
  ASSUME NEW a \in Int, NEW n \in Nat \ {0}
  PROVE  /\ a % n \in 0 .. (n - 1) /\ a \div n \in Int
         /\ a = n * (a \div n) + (a % n)
OBVIOUS

\* A product with a positive number is as large as the other factor says.
LEMMA Times ==
  ASSUME NEW n \in Nat \ {0}, NEW x \in Int, NEW y \in Int
  PROVE  x < y <=> n * x <= n * y - n
<1>1. CASE x < y
  <2>1. n * (y - x - 1) >= 0
    BY <1>1
  <2> QED BY <1>1, <2>1
<1>2. CASE x >= y
  <2>1. n * (x - y) >= 0
    BY <1>2
  <2> QED BY <1>2, <2>1
<1> QED BY <1>1, <1>2

\* The quotient of a number that is written with one.
LEMMA DivIs ==
  ASSUME NEW n \in Nat \ {0}, NEW q \in Int, NEW m \in 0 .. (n - 1),
         NEW a \in Int, a = n * q + m
  PROVE  a \div n = q
<1> DEFINE x == a \div n
           y == a % n
<1>1. a = n * x + y /\ y \in 0 .. (n - 1) /\ x \in Int
  BY Zenon, DivMod
<1> HIDE DEF x, y
<1>2. ~(q < x)
  <2> SUFFICES ASSUME q < x PROVE FALSE
    BY Zenon
  <2>1. n * q <= n * x - n
    BY Zenon, <1>1, Times
  <2> QED BY <1>1, <2>1
<1>3. ~(x < q)
  <2> SUFFICES ASSUME x < q PROVE FALSE
    BY Zenon
  <2>1. n * x <= n * q - n
    BY Zenon, <1>1, Times
  <2> QED BY <1>1, <2>1
<1>4. x = q
  BY <1>1, <1>2, <1>3
<1> QED BY Zenon, <1>4 DEF x

\* The constants are numbers, and memory ends at the end of a page.
LEMMA Sizes ==
  /\ PGSIZE \in Nat \ {0} /\ NPTENTRIES \in Nat \ {0} /\ KERNBASE \in Nat
  /\ KERNBASE \div PGSIZE \in Nat /\ KERNBASE = (KERNBASE \div PGSIZE) * PGSIZE
<1>1. PGSIZE \in Nat \ {0} /\ NPTENTRIES \in Nat \ {0} /\ KERNBASE \in Nat
  BY VmAssumption
<1> DEFINE q == KERNBASE \div PGSIZE
<1>2. KERNBASE = PGSIZE * q + (KERNBASE % PGSIZE) /\ q \in Int
  BY <1>1, DivMod
<1> HIDE DEF q
<1>3. KERNBASE % PGSIZE = 0
  BY Zenon, VmAssumption
<1>4. KERNBASE = PGSIZE * q
  BY <1>1, <1>2, <1>3
<1>5. q >= 0
  <2> SUFFICES ASSUME q < 0 PROVE FALSE
    BY <1>2
  <2>1. PGSIZE * q <= PGSIZE * 0 - PGSIZE
    BY <1>1, <1>2, Times
  <2> QED BY <1>1, <1>2, <1>4, <2>1
<1>6. q \in Nat /\ KERNBASE = q * PGSIZE
  BY <1>1, <1>2, <1>4, <1>5
<1> QED BY Zenon, <1>1, <1>6 DEF q

\* PGROUNDUP is at most a page away.
LEMMA UpIs ==
  ASSUME NEW sz \in Nat
  PROVE  Up(sz) \in Nat /\ sz <= PGSIZE * Up(sz) /\ PGSIZE * Up(sz) < sz + PGSIZE
<1> DEFINE a == sz + PGSIZE - 1
           x == a \div PGSIZE
           y == a % PGSIZE
<1>1. PGSIZE \in Nat \ {0} /\ a \in Nat
  BY Sizes
<1>2. a = PGSIZE * x + y /\ y \in 0 .. (PGSIZE - 1) /\ x \in Int
  <2>1. a \in Int
    BY <1>1
  <2> HIDE DEF a
  <2> QED BY Zenon, <1>1, <2>1, DivMod DEF x, y
<1>3. Up(sz) = x
  BY Zenon DEF Up, x, a
<1> HIDE DEF x, y
<1>4. x >= 0
  <2> SUFFICES ASSUME x < 0 PROVE FALSE
    BY <1>2
  <2>1. PGSIZE * x <= PGSIZE * 0 - PGSIZE
    BY <1>1, <1>2, Times
  <2> QED BY <1>1, <1>2, <2>1
<1> QED BY <1>1, <1>2, <1>3, <1>4 DEF a

\* The pages with addresses below sz are those below Up(sz).
LEMMA UpWhen ==
  ASSUME NEW sz \in Nat, NEW a \in Int
  PROVE  a * PGSIZE < sz <=> a < Up(sz)
<1>1. PGSIZE \in Nat \ {0} /\ Up(sz) \in Nat /\ sz <= PGSIZE * Up(sz) /\ PGSIZE * Up(sz) < sz + PGSIZE
  BY Zenon, Sizes, UpIs
<1> DEFINE u == Up(sz)
<1> HIDE DEF u
<1>2. u \in Nat /\ sz <= PGSIZE * u /\ PGSIZE * u < sz + PGSIZE
  BY Zenon, <1>1 DEF u
<1>3. ASSUME a < u PROVE a * PGSIZE < sz
  <2>1. PGSIZE * a <= PGSIZE * u - PGSIZE
    BY <1>1, <1>2, <1>3, Times
  <2> QED BY <1>1, <1>2, <2>1
<1>4. ASSUME ~(a < u) PROVE ~(a * PGSIZE < sz)
  <2>1. u < a + 1
    BY <1>2, <1>4
  <2>2. PGSIZE * u <= PGSIZE * (a + 1) - PGSIZE
    BY <1>1, <1>2, <2>1, Times
  <2> QED BY <1>1, <1>2, <2>2
<1> QED BY Zenon, <1>3, <1>4 DEF u

\* A larger size has no fewer pages.
LEMMA UpMono ==
  ASSUME NEW a \in Nat, NEW b \in Nat, a <= b
  PROVE  Up(a) <= Up(b)
<1> DEFINE u == Up(a)
           v == Up(b)
<1>1. u \in Nat /\ v \in Nat
  BY Zenon, UpIs
<1>2. (v * PGSIZE < a <=> v < u) /\ (v * PGSIZE < b <=> v < v)
  <2>1. v \in Int
    BY <1>1
  <2> QED BY Zenon, <2>1, UpWhen DEF u, v
<1> HIDE DEF u, v
<1>3. u <= v
  BY <1>1, <1>2, Sizes
<1> QED BY Zenon, <1>3 DEF u, v

\* PGROUNDUP of the end of a page.
LEMMA UpExact ==
  ASSUME NEW x \in Nat
  PROVE  Up(x * PGSIZE) = x
<1>1. PGSIZE \in Nat \ {0}
  BY Zenon, Sizes
<1> DEFINE a == x * PGSIZE + PGSIZE - 1
<1>2. a \in Int /\ a = PGSIZE * x + (PGSIZE - 1) /\ PGSIZE - 1 \in 0 .. (PGSIZE - 1)
  BY <1>1
<1>3. Up(x * PGSIZE) = a \div PGSIZE
  BY Zenon DEF Up, a
<1> HIDE DEF a
<1>4. a \div PGSIZE = x
  BY <1>1, <1>2, DivIs
<1> QED BY Zenon, <1>3, <1>4

\* A size below the kernel has its pages below the kernel.
LEMMA UpFits ==
  ASSUME NEW sz \in Nat, sz < KERNBASE
  PROVE  Up(sz) <= KERNBASE \div PGSIZE
<1> DEFINE u == Up(sz)
           k == KERNBASE \div PGSIZE
<1>1. u \in Nat /\ k \in Nat /\ KERNBASE = k * PGSIZE /\ KERNBASE \in Nat
  BY Zenon, UpIs, Sizes
<1>2. k \in Int
  BY <1>1
<1>3. k * PGSIZE < sz <=> k < u
  BY Zenon, <1>2, UpWhen
<1> HIDE DEF u, k
<1>4. u <= k
  BY <1>1, <1>3
<1> QED BY Zenon, <1>4 DEF u, k

\* The page of an address below sz.
LEMMA PageBelow ==
  ASSUME NEW sz \in Nat, NEW a \in Nat, a < sz
  PROVE  a \div PGSIZE \in Nat /\ a \div PGSIZE < Up(sz)
<1> DEFINE q == a \div PGSIZE
           y == a % PGSIZE
<1>1. PGSIZE \in Nat \ {0} /\ a \in Int
  BY Sizes
<1>2. a = PGSIZE * q + y /\ y \in 0 .. (PGSIZE - 1) /\ q \in Int
  BY Zenon, <1>1, DivMod
<1> HIDE DEF q, y
<1>3. q * PGSIZE < sz
  BY <1>1, <1>2
<1>4. q >= 0
  <2> SUFFICES ASSUME q < 0 PROVE FALSE
    BY <1>2
  <2>1. PGSIZE * q <= PGSIZE * 0 - PGSIZE
    BY <1>1, <1>2, Times
  <2> QED BY <1>1, <1>2, <2>1
<1>5. q < Up(sz)
  BY Zenon, <1>2, <1>3, UpWhen
<1>6. q \in Nat
  BY <1>2, <1>4
<1> QED BY Zenon, <1>5, <1>6 DEF q

\* The pages of the user with numbers below n.
Below(n) == {va \in Va : va < n}

\* What deallocuvm() leaves of the pages in S.
Outside(S, x, y) == {va \in S : va < x \/ va >= y}

\* The next page.
LEMMA BelowNext ==
  ASSUME NEW n \in Va
  PROVE  n \notin Below(n) /\ Below(n) \cup {n} = Below(n + 1)
<1>1. \A va \in Va : (va < n + 1 <=> va < n \/ va = n) /\ ~(n < n)
  BY Sizes DEF Va
<1> QED BY Zenon, <1>1 DEF Below

\* Freeing from page x on undoes what was added since there were x pages.
LEMMA BelowBack ==
  ASSUME NEW n \in Nat, NEW x \in Nat, NEW y \in Nat, x <= n, n <= y
  PROVE  Outside(Below(n), x, y) = Below(x)
<1>1. \A va \in Va : va < n /\ (va < x \/ va >= y) <=> va < x
  BY Sizes DEF Va
<1> QED BY Zenon, <1>1 DEF Below, Outside

-----------------------------------------------------------------------------
(* The routines on states                                                  *)

Space ==
  [pgdir : Nat, kpt : Nat, tab : {t \in SUBSET Int : IsFiniteSet(t)},
   pte : SUBSET Va, guard : SUBSET Int]
Mem == [free : Nat, lost : Nat, sp : Space, r : Int, ok : BOOLEAN, panic : BOOLEAN]

\* The pages of an address space, and all that a routine works on.
Cost(sp) == sp.pgdir + sp.kpt + Cardinality(sp.tab) + Cardinality(sp.pte)
Sum(m) == m.free + m.lost + Cost(m.sp)

\* What most routines leave as it is.
Like(m, t) ==
  /\ t.lost = m.lost /\ t.panic = m.panic
  /\ t.sp.pgdir = m.sp.pgdir /\ t.sp.kpt = m.sp.kpt /\ t.sp.guard = m.sp.guard

\* The pages and page tables of an address space are finitely many.
LEMMA SpaceIs ==
  ASSUME NEW sp \in Space
  PROVE  /\ IsFiniteSet(sp.tab) /\ IsFiniteSet(sp.pte) /\ sp.pte \subseteq Va
         /\ Cardinality(sp.tab) \in Nat /\ Cardinality(sp.pte) \in Nat /\ Cost(sp) \in Nat
<1>1. sp.pgdir \in Nat /\ sp.kpt \in Nat /\ IsFiniteSet(sp.tab) /\ sp.pte \subseteq Va
  BY Zenon DEF Space
<1>2. IsFiniteSet(Va)
  <2>1. 0 \in Int /\ (KERNBASE \div PGSIZE) - 1 \in Int
    BY Sizes
  <2> QED BY Zenon, <2>1, FS_Interval DEF Va
<1>3. IsFiniteSet(sp.pte)
  BY Zenon, <1>1, <1>2, FS_Subset
<1>4. Cardinality(sp.tab) \in Nat /\ Cardinality(sp.pte) \in Nat
  BY Zenon, <1>1, <1>3, FS_CardinalityType
<1>5. Cost(sp) \in Nat
  BY <1>1, <1>4 DEF Cost
<1> QED BY Zenon, <1>1, <1>3, <1>4, <1>5

\* The fields of a state.
LEMMA MemIs ==
  ASSUME NEW m \in Mem
  PROVE  /\ m.free \in Nat /\ m.lost \in Nat /\ m.sp \in Space /\ m.r \in Int
         /\ m.ok \in BOOLEAN /\ m.panic \in BOOLEAN
         /\ Cost(m.sp) \in Nat /\ Sum(m) \in Nat
<1>1. /\ m.free \in Nat /\ m.lost \in Nat /\ m.sp \in Space /\ m.r \in Int
      /\ m.ok \in BOOLEAN /\ m.panic \in BOOLEAN
  BY Zenon DEF Mem
<1>2. Cost(m.sp) \in Nat
  BY Zenon, <1>1, SpaceIs
<1>3. Sum(m) \in Nat
  BY <1>1, <1>2 DEF Sum
<1> QED BY Zenon, <1>1, <1>2, <1>3

\* Ret sets the value a routine returns, and nothing else.
LEMMA RetIs ==
  ASSUME NEW m \in Mem, NEW v \in Int
  PROVE  /\ Ret(m, v) \in Mem /\ Ret(m, v).r = v /\ Ret(m, v).free = m.free
         /\ Ret(m, v).lost = m.lost /\ Ret(m, v).sp = m.sp
         /\ Ret(m, v).ok = m.ok /\ Ret(m, v).panic = m.panic
BY Zenon DEF Mem, Ret

\* Fail marks an error, and nothing else.
LEMMA FailIs ==
  ASSUME NEW m \in Mem
  PROVE  /\ Fail(m) \in Mem /\ Fail(m).ok = FALSE /\ Fail(m).free = m.free
         /\ Fail(m).lost = m.lost /\ Fail(m).sp = m.sp
         /\ Fail(m).r = m.r /\ Fail(m).panic = m.panic
BY Zenon DEF Mem, Fail

\* Onto changes the address space, and nothing else.
LEMMA OntoIs ==
  ASSUME NEW m \in Mem, NEW sp \in Space
  PROVE  /\ Onto(m, sp) \in Mem /\ Onto(m, sp).sp = sp /\ Onto(m, sp).free = m.free
         /\ Onto(m, sp).lost = m.lost /\ Onto(m, sp).ok = m.ok
         /\ Onto(m, sp).r = m.r /\ Onto(m, sp).panic = m.panic
BY Zenon DEF Mem, Onto

\* kfree() gives pages back, or with n < 0 takes as many as there are.
LEMMA KfreeIs ==
  ASSUME NEW m \in Mem, NEW n \in Int, m.free + n >= 0
  PROVE  /\ Kfree(m, n) \in Mem /\ Kfree(m, n).free = m.free + n /\ Kfree(m, n).sp = m.sp
         /\ Kfree(m, n).lost = m.lost /\ Kfree(m, n).ok = m.ok
         /\ Kfree(m, n).r = m.r /\ Kfree(m, n).panic = m.panic
<1>1. m.free + n \in Nat
  BY MemIs
<1> QED BY Zenon, <1>1 DEF Mem, Kfree

\* kalloc() takes a page, if there is one.
LEMMA KallocIs ==
  ASSUME NEW m \in Mem
  PROVE  LET k == Kalloc(m) IN
         /\ k \in Mem /\ k.sp = m.sp /\ k.lost = m.lost /\ k.ok = m.ok /\ k.panic = m.panic
         /\ \/ k.r = 0 /\ k.free = m.free /\ m.free = 0
            \/ k.r = 1 /\ k.free = m.free - 1 /\ m.free > 0
<1> DEFINE k == Kalloc(m)
<1>1. CASE m.free = 0
  <2>1. k = Ret(m, 0)
    BY Zenon, <1>1 DEF Kalloc
  <2>0. 0 \in Int
    OBVIOUS
  <2> HIDE DEF k
  <2>2. /\ k \in Mem /\ k.sp = m.sp /\ k.lost = m.lost /\ k.ok = m.ok /\ k.panic = m.panic
        /\ k.r = 0 /\ k.free = m.free
    BY Zenon, <2>0, <2>1, RetIs
  <2> QED BY Zenon, <1>1, <2>2 DEF k
<1>2. CASE m.free # 0
  <2> DEFINE f == Kfree(m, -1)
  <2>1. k = Ret(f, 1)
    BY Zenon, <1>2 DEF Kalloc
  <2>2. m.free - 1 >= 0 /\ m.free + (-1) >= 0 /\ m.free > 0 /\ m.free + (-1) = m.free - 1 /\ -1 \in Int /\ 1 \in Int
    BY <1>2, MemIs
  <2>3. /\ f \in Mem /\ f.sp = m.sp /\ f.lost = m.lost /\ f.ok = m.ok /\ f.panic = m.panic
        /\ f.free = m.free - 1
    BY Zenon, <2>2, KfreeIs
  <2> HIDE DEF k, f
  <2>4. /\ k \in Mem /\ k.sp = m.sp /\ k.lost = m.lost /\ k.ok = m.ok /\ k.panic = m.panic
        /\ k.r = 1 /\ k.free = m.free - 1
    BY Zenon, <2>1, <2>2, <2>3, RetIs
  <2> QED BY Zenon, <2>2, <2>4 DEF k
<1> QED BY Zenon, <1>1, <1>2

\* walkpgdir() takes a page for a table that is not there.
LEMMA WalkIs ==
  ASSUME NEW m \in Mem, NEW va \in Va, m.ok
  PROVE  LET w == Walkpgdir(m, va) IN
         /\ w \in Mem /\ Like(m, w) /\ w.sp.pte = m.sp.pte /\ Sum(w) = Sum(m)
         /\ m.free > 0 => w.ok
<1> DEFINE k == Kalloc(m)
           d == PDX(va)
<1>1. /\ k \in Mem /\ k.sp = m.sp /\ k.lost = m.lost /\ k.ok = m.ok /\ k.panic = m.panic
      /\ \/ k.r = 0 /\ k.free = m.free /\ m.free = 0
         \/ k.r = 1 /\ k.free = m.free - 1 /\ m.free > 0
  BY Zenon, KallocIs
<1>2. d \in Int
  BY Sizes DEF PDX, Va
<1>3. m.sp \in Space /\ IsFiniteSet(m.sp.tab) /\ Cardinality(m.sp.tab) \in Nat /\ m.sp.tab \subseteq Int
  BY Zenon, SpaceIs, MemIs DEF Space
<1>0. m.free > 0 => k.r # 0
  <2>1. 1 # 0 /\ ~(0 > 0)
    OBVIOUS
  <2> QED BY Zenon, <1>1, <2>1
<1>4. CASE d \in m.sp.tab
  <2>1. Walkpgdir(m, va) = m
    BY Zenon, <1>4 DEF Walkpgdir
  <2> QED BY Zenon, <2>1 DEF Like
<1>5. CASE d \notin m.sp.tab /\ k.r = 0
  <2>1. Walkpgdir(m, va) = Fail(m)
    BY Zenon, <1>5 DEF Walkpgdir
  <2> HIDE DEF k, d
  <2>2. /\ Walkpgdir(m, va) \in Mem /\ Walkpgdir(m, va).sp = m.sp
        /\ Walkpgdir(m, va).lost = m.lost /\ Walkpgdir(m, va).panic = m.panic
        /\ Walkpgdir(m, va).free = m.free
    BY Zenon, <2>1, FailIs
  <2> QED BY Zenon, <1>0, <1>5, <2>2 DEF Like, Sum
<1>6. CASE d \notin m.sp.tab /\ k.r # 0
  <2> DEFINE w == Walkpgdir(m, va)
  <2>1. w = [k EXCEPT !.sp.tab = @ \cup {d}]
    BY Zenon, <1>6 DEF Walkpgdir
  <2>2. /\ IsFiniteSet(m.sp.tab \cup {d}) /\ m.sp.tab \cup {d} \subseteq Int
        /\ Cardinality(m.sp.tab \cup {d}) = Cardinality(m.sp.tab) + 1
    BY Zenon, <1>2, <1>3, <1>6, FS_AddElement
  <2> HIDE DEF k, d, w
  <2>3. /\ w \in Mem /\ w.lost = m.lost /\ w.panic = m.panic /\ w.free = k.free /\ w.ok = m.ok
        /\ w.sp.pgdir = m.sp.pgdir /\ w.sp.kpt = m.sp.kpt /\ w.sp.guard = m.sp.guard
        /\ w.sp.pte = m.sp.pte /\ w.sp.tab = m.sp.tab \cup {d}
    BY Zenon, <1>1, <2>1, <2>2 DEF Mem, Space
  <2>4. Sum(w) = Sum(m)
    <3>1. Cardinality(m.sp.pte) \in Nat /\ m.sp.pgdir \in Nat /\ m.sp.kpt \in Nat /\ m.lost \in Nat /\ m.free \in Nat
      BY Zenon, <1>3, SpaceIs, MemIs DEF Space
    <3> QED BY <1>1, <1>3, <1>6, <2>2, <2>3, <3>1 DEF Sum, Cost
  <2> QED BY Zenon, <2>3, <2>4 DEF Like, w
<1> QED BY Zenon, <1>4, <1>5, <1>6

\* mappages() puts the page at hand at va, where there was none.
LEMMA MapIs ==
  ASSUME NEW m \in Mem, NEW va \in Va, m.ok, va \notin m.sp.pte
  PROVE  LET w == Mappages(m, va) IN
         /\ w \in Mem /\ Like(m, w)
         /\ w.ok => w.sp.pte = m.sp.pte \cup {va} /\ Sum(w) = Sum(m) + 1
         /\ ~w.ok => w.sp.pte = m.sp.pte /\ Sum(w) = Sum(m)
         /\ m.free > 0 => w.ok
<1> DEFINE w == Walkpgdir(m, va)
           u == [w EXCEPT !.panic = @ \/ va \in w.sp.pte]
           v == [u EXCEPT !.sp.pte = @ \cup {va}]
<1>1. w \in Mem /\ Like(m, w) /\ w.sp.pte = m.sp.pte /\ Sum(w) = Sum(m) /\ (m.free > 0 => w.ok)
  BY Zenon, WalkIs
<1>2. CASE ~w.ok
  <2>1. Mappages(m, va) = w
    BY Zenon, <1>2 DEF Mappages
  <2> HIDE DEF w
  <2> QED BY Zenon, <1>1, <1>2, <2>1
<1>3. CASE w.ok
  <2>1. Mappages(m, va) = v
    BY Zenon, <1>3 DEF Mappages
  <2> HIDE DEF w
  <2>2. w.panic = (w.panic \/ va \in w.sp.pte)
    BY Zenon, <1>1, MemIs
  <2>3. /\ u \in Mem /\ u.sp = w.sp /\ u.free = w.free /\ u.lost = w.lost /\ u.ok = w.ok
        /\ u.panic = w.panic
    BY Zenon, <1>1, <2>2 DEF Mem
  <2> HIDE DEF u
  <2>4. /\ v \in Mem /\ v.free = w.free /\ v.lost = w.lost /\ v.ok = w.ok /\ v.panic = w.panic
        /\ v.sp.pgdir = w.sp.pgdir /\ v.sp.kpt = w.sp.kpt /\ v.sp.tab = w.sp.tab
        /\ v.sp.guard = w.sp.guard /\ v.sp.pte = w.sp.pte \cup {va}
    <3>1. w.sp \in Space
      BY Zenon, <1>1, MemIs
    <3>2. w.sp.pte \cup {va} \subseteq Va
      BY Zenon, <3>1, SpaceIs
    <3>3. u.sp.pte = w.sp.pte
      BY Zenon, <2>3
    <3> QED BY Zenon, <2>3, <3>2, <3>3 DEF Mem, Space
  <2> HIDE DEF v
  <2>5. Cardinality(v.sp.pte) = Cardinality(w.sp.pte) + 1
    <3>1. IsFiniteSet(w.sp.pte)
      BY Zenon, <1>1, MemIs, SpaceIs
    <3> QED BY Zenon, <1>1, <2>4, <3>1, FS_AddElement
  <2>6. Sum(v) = Sum(w) + 1
    <3>1. /\ Cardinality(w.sp.pte) \in Nat /\ w.sp.pgdir \in Nat /\ w.sp.kpt \in Nat
          /\ w.lost \in Nat /\ w.free \in Nat /\ Cardinality(w.sp.tab) \in Nat
      BY Zenon, <1>1, SpaceIs, MemIs DEF Space
    <3> QED BY <2>4, <2>5, <3>1 DEF Sum, Cost
  <2>7. Like(m, v)
    BY Zenon, <1>1, <2>4 DEF Like
  <2> QED BY Zenon, <1>1, <1>3, <2>1, <2>4, <2>6, <2>7
<1> QED BY Zenon, <1>2, <1>3

\* d is m without the pages from newsz to oldsz.
Shrunk(m, d, oldsz, newsz) ==
  /\ d \in Mem /\ Like(m, d) /\ d.ok = m.ok /\ Sum(d) = Sum(m)
  /\ d.r = (IF newsz >= oldsz THEN oldsz ELSE newsz)
  /\ d.sp.pte = Outside(m.sp.pte, Up(newsz), Up(oldsz))

\* deallocuvm() frees the pages between the two sizes.
LEMMA DeallocIs ==
  ASSUME NEW m \in Mem, NEW oldsz \in Nat, NEW newsz \in Nat
  PROVE  Shrunk(m, Deallocuvm(m, oldsz, newsz), oldsz, newsz)
<1> DEFINE d == Deallocuvm(m, oldsz, newsz)
           vas == {va \in Va : va * PGSIZE >= PGROUNDUP(newsz) /\ va * PGSIZE < oldsz}
           low == Outside(m.sp.pte, Up(newsz), Up(oldsz))
<1>1. oldsz \in Int /\ newsz \in Int /\ Up(oldsz) \in Nat /\ Up(newsz) \in Nat
  <2>1. Up(oldsz) \in Nat /\ Up(newsz) \in Nat
    BY Zenon, UpIs
  <2> QED BY <2>1
<1>2. m.sp \in Space /\ m.sp.pte \subseteq Va /\ IsFiniteSet(m.sp.pte)
  BY Zenon, MemIs, SpaceIs
<1>3. CASE newsz >= oldsz
  <2>1. d = Ret(m, oldsz)
    BY Zenon, <1>3 DEF Deallocuvm
  <2>2. Up(oldsz) <= Up(newsz)
    BY Zenon, <1>3, UpMono
  <2>3. \A va \in Va : va < Up(newsz) \/ va >= Up(oldsz)
    BY <1>1, <2>2 DEF Va
  <2>4. low = m.sp.pte
    BY Zenon, <1>2, <2>3 DEF Outside
  <2> HIDE DEF d
  <2>5. /\ d \in Mem /\ d.r = oldsz /\ d.free = m.free /\ d.lost = m.lost /\ d.sp = m.sp
        /\ d.ok = m.ok /\ d.panic = m.panic
    BY Zenon, <1>1, <2>1, RetIs
  <2> QED BY Zenon, <1>3, <2>4, <2>5 DEF Like, Sum, d, Shrunk
<1>4. CASE ~(newsz >= oldsz)
  <2> DEFINE n == Cardinality(m.sp.pte \cap vas)
             f == Kfree(m, n)
             g == [f EXCEPT !.sp.pte = @ \ vas]
  <2>1. d = Ret(g, newsz)
    BY Zenon, <1>4 DEF Deallocuvm
  <2>2. m.sp.pte \ vas = low
    <3>1. ASSUME NEW va \in Va PROVE va \notin vas <=> va < Up(newsz) \/ va >= Up(oldsz)
      <4>1. va \in Int
        BY Sizes DEF Va
      <4>2. va * PGSIZE < oldsz <=> va < Up(oldsz)
        BY Zenon, <4>1, UpWhen
      <4>3. va * PGSIZE >= Up(newsz) * PGSIZE <=> ~(va < Up(newsz))
        <5> DEFINE x == Up(newsz)
        <5>1. x \in Int /\ PGSIZE \in Nat \ {0}
          BY <1>1, Sizes
        <5> HIDE DEF x
        <5>2. va < x <=> PGSIZE * va <= PGSIZE * x - PGSIZE
          BY Zenon, <4>1, <5>1, Times
        <5>3. x < va + 1 <=> PGSIZE * x <= PGSIZE * (va + 1) - PGSIZE
          BY <4>1, <5>1, Times
        <5>4. va * PGSIZE >= x * PGSIZE <=> ~(va < x)
          BY <4>1, <5>1, <5>2, <5>3
        <5> QED BY Zenon, <5>4 DEF x
      <4>4. va \in vas <=> ~(va < Up(newsz)) /\ va < Up(oldsz)
        BY Zenon, <4>2, <4>3 DEF PGROUNDUP
      <4> HIDE DEF vas
      <4> QED BY <1>1, <4>1, <4>4
    <3> HIDE DEF vas
    <3> QED BY Zenon, <1>2, <3>1 DEF Outside
  <2>3. /\ IsFiniteSet(low) /\ n \in Nat
        /\ Cardinality(low) = Cardinality(m.sp.pte) - n
    <3>1. m.sp.pte \cap vas \subseteq m.sp.pte
      BY Zenon
    <3>2. IsFiniteSet(m.sp.pte \cap vas)
      BY Zenon, <1>2, <3>1, FS_Subset
    <3> HIDE DEF vas
    <3>3. /\ IsFiniteSet(m.sp.pte \ vas)
          /\ Cardinality(m.sp.pte \ vas) = Cardinality(m.sp.pte) - Cardinality(m.sp.pte \cap vas)
      BY Zenon, <1>2, FS_Difference
    <3> HIDE DEF low
    <3> QED BY Zenon, <2>2, <3>2, <3>3, FS_CardinalityType
  <2> HIDE DEF n, vas
  <2>4. /\ f \in Mem /\ f.sp = m.sp /\ f.lost = m.lost /\ f.ok = m.ok /\ f.panic = m.panic
        /\ f.free = m.free + n
    <3>1. n \in Int /\ m.free + n >= 0
      BY <2>3, MemIs
    <3> QED BY Zenon, <3>1, KfreeIs
  <2> HIDE DEF f
  <2>5. /\ g \in Mem /\ g.free = m.free + n /\ g.lost = m.lost /\ g.ok = m.ok /\ g.panic = m.panic
        /\ g.sp.pgdir = m.sp.pgdir /\ g.sp.kpt = m.sp.kpt /\ g.sp.tab = m.sp.tab
        /\ g.sp.guard = m.sp.guard /\ g.sp.pte = low
    <3>1. f.sp.pte \ vas = low /\ low \subseteq Va
      BY Zenon, <1>2, <2>2, <2>4 DEF Outside
    <3> HIDE DEF low
    <3> QED BY Zenon, <2>4, <3>1 DEF Mem, Space
  <2> HIDE DEF g, d, low
  <2>6. /\ d \in Mem /\ d.r = newsz /\ d.free = g.free /\ d.lost = g.lost /\ d.sp = g.sp
        /\ d.ok = g.ok /\ d.panic = g.panic
    BY Zenon, <1>1, <2>1, <2>5, RetIs
  <2>7. Sum(d) = Sum(m)
    <3>1. /\ Cardinality(m.sp.pte) \in Nat /\ m.sp.pgdir \in Nat /\ m.sp.kpt \in Nat
          /\ m.lost \in Nat /\ m.free \in Nat /\ Cardinality(m.sp.tab) \in Nat
      BY Zenon, SpaceIs, MemIs DEF Space
    <3>2. /\ d.sp.pte = low /\ d.sp.pgdir = m.sp.pgdir /\ d.sp.kpt = m.sp.kpt /\ d.sp.tab = m.sp.tab
          /\ d.free = m.free + n /\ d.lost = m.lost
      BY Zenon, <2>5, <2>6
    <3> QED BY <2>3, <3>1, <3>2 DEF Sum, Cost
  <2>8. Like(m, d)
    BY Zenon, <2>5, <2>6 DEF Like
  <2> QED BY Zenon, <1>4, <2>5, <2>6, <2>7, <2>8 DEF d, low, Shrunk
<1> QED BY Zenon, <1>3, <1>4

\* Empty address spaces.
LEMMA EmptySpaces ==
  /\ NoSpace \in Space /\ Cost(NoSpace) = 0 /\ NoSpace.pte = {}
  /\ \A n \in Nat : /\ Directory(n) \in Space /\ Cost(Directory(n)) = n + 1
                    /\ Directory(n).pte = {} /\ Directory(n).guard = {}
<1>1. IsFiniteSet({}) /\ Cardinality({}) = 0
  BY Zenon, FS_EmptySet
<1>2. NoSpace \in Space /\ NoSpace.pte = {} /\ NoSpace.tab = {} /\ NoSpace.pgdir = 0 /\ NoSpace.kpt = 0
  BY Zenon, <1>1 DEF NoSpace, Space
<1>3. Cost(NoSpace) = 0
  BY <1>1, <1>2 DEF Cost
<1>4. ASSUME NEW n \in Nat
      PROVE  /\ Directory(n) \in Space /\ Cost(Directory(n)) = n + 1
             /\ Directory(n).pte = {} /\ Directory(n).guard = {}
  <2>1. /\ Directory(n) \in Space /\ Directory(n).pte = {} /\ Directory(n).guard = {}
        /\ Directory(n).tab = {} /\ Directory(n).pgdir = 1 /\ Directory(n).kpt = n
    BY Zenon, <1>1 DEF Directory, Space
  <2>2. Cost(Directory(n)) = n + 1
    BY <1>1, <2>1 DEF Cost
  <2> QED BY Zenon, <2>1, <2>2
<1> QED BY Zenon, <1>2, <1>3, <1>4

\* freevm() frees all of an address space.
LEMMA FreevmIs ==
  ASSUME NEW m \in Mem
  PROVE  LET f == Freevm(m) IN
         /\ f \in Mem /\ f.sp = NoSpace /\ f.free = m.free + Cost(m.sp)
         /\ f.lost = m.lost /\ f.ok = m.ok /\ f.panic = m.panic /\ Sum(f) = Sum(m)
<1> DEFINE d == Deallocuvm(m, KERNBASE, 0)
           n == d.sp.pgdir + d.sp.kpt + Cardinality(d.sp.tab)
           k == Kfree(d, n)
           f == Freevm(m)
<1>1. f = Onto(k, NoSpace)
  BY Zenon DEF Freevm
<1>2. /\ d \in Mem /\ Like(m, d) /\ d.ok = m.ok /\ Sum(d) = Sum(m)
      /\ d.sp.pte = Outside(m.sp.pte, Up(0), Up(KERNBASE))
  <2>1. KERNBASE \in Nat /\ 0 \in Nat
    BY Zenon, Sizes
  <2>2. Shrunk(m, d, KERNBASE, 0)
    BY Zenon, <2>1, DeallocIs
  <2> QED BY Zenon, <2>2 DEF Shrunk
<1>3. d.sp.pte = {}
  <2>1. Up(0) = 0
    <3>1. 0 * PGSIZE = 0 /\ 0 \in Nat
      BY Sizes
    <3> QED BY Zenon, <3>1, UpExact
  <2>2. Up(KERNBASE) = KERNBASE \div PGSIZE
    BY Zenon, Sizes, UpExact
  <2>3. \A va \in Va : ~(va < 0 \/ va >= KERNBASE \div PGSIZE)
    BY Sizes DEF Va
  <2>4. m.sp.pte \subseteq Va
    BY Zenon, MemIs, SpaceIs
  <2> HIDE DEF d
  <2> QED BY Zenon, <1>2, <2>1, <2>2, <2>3, <2>4 DEF Outside
<1> HIDE DEF d
<1>4. /\ m.free \in Nat /\ m.lost \in Nat /\ Cost(m.sp) \in Nat /\ d.free \in Nat /\ d.lost = m.lost
      /\ d.sp.pgdir \in Nat /\ d.sp.kpt \in Nat /\ Cardinality(d.sp.tab) \in Nat
  <2>1. d.sp \in Space /\ d.free \in Nat
    BY Zenon, <1>2, MemIs
  <2>2. d.sp.pgdir \in Nat /\ d.sp.kpt \in Nat
    BY Zenon, <2>1 DEF Space
  <2> QED BY Zenon, <1>2, <2>1, <2>2, MemIs, SpaceIs DEF Like
<1>5. n \in Nat /\ d.free + n = m.free + Cost(m.sp)
  <2>1. Cardinality({}) = 0
    BY Zenon, FS_EmptySet
  <2>2. Cost(d.sp) = n
    BY <1>3, <1>4, <2>1 DEF Cost
  <2>3. n \in Nat
    BY <1>4
  <2> HIDE DEF n
  <2> QED BY <1>2, <1>4, <2>2, <2>3 DEF Sum
<1> HIDE DEF n
<1>6. /\ k \in Mem /\ k.free = m.free + Cost(m.sp) /\ k.lost = d.lost /\ k.ok = d.ok /\ k.panic = d.panic
  <2>1. n \in Int /\ d.free + n >= 0
    BY <1>4, <1>5
  <2> QED BY Zenon, <1>2, <1>5, <2>1, KfreeIs
<1> HIDE DEF k, f
<1>7. /\ f \in Mem /\ f.sp = NoSpace /\ f.free = m.free + Cost(m.sp) /\ f.lost = d.lost
      /\ f.ok = d.ok /\ f.panic = d.panic
  BY Zenon, <1>1, <1>6, OntoIs, EmptySpaces
<1>8. Sum(f) = Sum(m)
  <2>1. Cost(f.sp) = 0
    BY Zenon, <1>7, EmptySpaces
  <2> QED BY <1>4, <1>7, <2>1 DEF Sum
<1> QED BY Zenon, <1>2, <1>7, <1>8 DEF f, Like

\* setupkvm() has its pages, or none.
LEMMA SetupIs ==
  ASSUME NEW m \in Mem, m.sp = NoSpace, m.ok
  PROVE  LET d == Setupkvm(m) IN
         /\ d \in Mem /\ d.lost = m.lost /\ d.panic = m.panic /\ Sum(d) = Sum(m)
         /\ d.sp = IF d.ok THEN Directory(NKPT) ELSE NoSpace
         /\ m.free > NKPT => d.ok
<1> DEFINE d == Kalloc(m)
           n == IF d.free < NKPT THEN d.free ELSE NKPT
           f == Kfree(d, -n)
           k == Onto(f, Directory(n))
           o == Onto(m, NoSpace)
<1>1. /\ d \in Mem /\ d.sp = m.sp /\ d.lost = m.lost /\ d.ok = m.ok /\ d.panic = m.panic
      /\ \/ d.r = 0 /\ d.free = m.free /\ m.free = 0
         \/ d.r = 1 /\ d.free = m.free - 1 /\ m.free > 0
  BY Zenon, KallocIs
<1>2. /\ NoSpace \in Space /\ Cost(NoSpace) = 0 /\ NKPT \in Nat /\ m.free \in Nat /\ m.lost \in Nat
  BY Zenon, EmptySpaces, VmAssumption, MemIs
<1>3. CASE d.r = 0
  <2>1. Setupkvm(m) = Fail(o)
    BY Zenon, <1>3 DEF Setupkvm
  <2>2. o \in Mem /\ o.sp = NoSpace /\ o.free = m.free /\ o.lost = m.lost /\ o.panic = m.panic
    BY Zenon, <1>2, OntoIs
  <2>3. ~(m.free > NKPT)
    BY <1>1, <1>2, <1>3
  <2> HIDE DEF o
  <2> DEFINE e == Fail(o)
  <2>4. /\ e \in Mem /\ e.ok = FALSE /\ e.free = m.free /\ e.lost = m.lost /\ e.sp = NoSpace
        /\ e.panic = m.panic
    BY Zenon, <2>2, FailIs
  <2> HIDE DEF e
  <2>5. Sum(e) = Sum(m)
    BY Zenon, <2>4 DEF Sum
  <2> QED BY Zenon, <2>1, <2>3, <2>4, <2>5 DEF e
<1>4. CASE d.r # 0
  <2>1. d.free \in Nat /\ d.free = m.free - 1
    BY <1>1, <1>2, <1>4
  <2> HIDE DEF d
  <2>2. n \in Nat /\ d.free + (-n) >= 0 /\ -n \in Int /\ d.free + (-n) = d.free - n
    BY <1>2, <2>1
  <2> HIDE DEF n
  <2>3. /\ f \in Mem /\ f.free = d.free - n /\ f.lost = d.lost /\ f.ok = d.ok /\ f.panic = d.panic
    BY Zenon, <1>1, <2>2, KfreeIs
  <2> HIDE DEF f
  <2>4. Directory(n) \in Space /\ Cost(Directory(n)) = n + 1
    BY Zenon, <2>2, EmptySpaces
  <2>5. /\ k \in Mem /\ k.free = d.free - n /\ k.lost = m.lost /\ k.ok = m.ok /\ k.panic = m.panic
        /\ k.sp = Directory(n)
    BY Zenon, <1>1, <2>3, <2>4, OntoIs
  <2> HIDE DEF k
  <2>6. Sum(k) = Sum(m)
    <3>1. Cost(k.sp) = n + 1 /\ Cost(m.sp) = 0
      BY Zenon, <1>2, <2>4, <2>5
    <3> QED BY <1>2, <2>1, <2>2, <2>5, <3>1 DEF Sum
  <2>7. CASE n < NKPT
    <3> DEFINE v == Freevm(k)
               e == Fail(v)
    <3>1. Setupkvm(m) = e
      BY Zenon, <1>4, <2>7 DEF Setupkvm, d, n, f, k
    <3>2. v \in Mem /\ v.sp = NoSpace /\ v.lost = k.lost /\ v.panic = k.panic /\ Sum(v) = Sum(k)
      BY Zenon, <2>5, FreevmIs
    <3> HIDE DEF v
    <3>3. /\ e \in Mem /\ e.ok = FALSE /\ e.free = v.free /\ e.lost = v.lost /\ e.sp = NoSpace
          /\ e.panic = v.panic
      BY Zenon, <3>2, FailIs
    <3> HIDE DEF e
    <3>4. Sum(e) = Sum(m)
      BY Zenon, <2>6, <3>2, <3>3 DEF Sum
    <3>5. ~(m.free > NKPT)
      BY <1>2, <2>1, <2>7 DEF n
    <3> QED BY Zenon, <2>5, <3>1, <3>2, <3>3, <3>4, <3>5
  <2>8. CASE ~(n < NKPT)
    <3>1. Setupkvm(m) = k
      BY Zenon, <1>4, <2>8 DEF Setupkvm, d, n, f, k
    <3>2. n = NKPT
      BY Zenon, <1>2, <2>1, <2>8 DEF n
    <3> QED BY Zenon, <2>5, <2>6, <3>1, <3>2
  <2> QED BY Zenon, <2>7, <2>8
<1> QED BY Zenon, <1>3, <1>4

\* The state in the loop of allocuvm(), from the page x on, before page y.
Grown(m, t, x, y) ==
  /\ t \in Mem /\ Like(m, t) /\ Sum(t) = Sum(m)
  /\ t.sp.pte = IF t.ok THEN Below(y) ELSE Below(x)

\* A turn of that loop.
LEMMA AllocPageIs ==
  ASSUME NEW m \in Mem, NEW oldsz \in Nat, NEW newsz \in Nat, NEW va \in Va, NEW t,
         Up(oldsz) <= va, va < Up(newsz), Grown(m, t, Up(oldsz), va)
  PROVE  Grown(m, AllocPage(t, va, oldsz, newsz), Up(oldsz), va + 1)
<1> DEFINE a == AllocPage(t, va, oldsz, newsz)
           k == Kalloc(t)
           w == Mappages(k, va)
<1>1. /\ t \in Mem /\ Like(m, t) /\ Sum(t) = Sum(m)
      /\ t.ok => t.sp.pte = Below(va)
      /\ ~t.ok => t.sp.pte = Below(Up(oldsz))
  BY Zenon DEF Grown
<1>2. CASE ~t.ok
  <2>1. a = t
    BY Zenon, <1>2 DEF AllocPage
  <2> QED BY Zenon, <1>1, <1>2, <2>1 DEF Grown
<1> SUFFICES ASSUME t.ok PROVE Grown(m, a, Up(oldsz), va + 1)
  BY Zenon, <1>2
<1>3. va \in Nat /\ Up(oldsz) \in Nat /\ Up(newsz) \in Nat /\ va <= Up(newsz)
  <2>1. Up(oldsz) \in Nat /\ Up(newsz) \in Nat
    BY Zenon, UpIs
  <2>2. va \in Nat
    BY Sizes DEF Va
  <2> QED BY <2>1, <2>2
<1>4. Outside(Below(va), Up(oldsz), Up(newsz)) = Below(Up(oldsz))
  BY Zenon, <1>3, BelowBack
<1>5. va \notin Below(va) /\ Below(va) \cup {va} = Below(va + 1)
  BY Zenon, BelowNext
<1>6. /\ k \in Mem /\ k.sp = t.sp /\ k.lost = t.lost /\ k.ok = t.ok /\ k.panic = t.panic
      /\ \/ k.r = 0 /\ k.free = t.free /\ t.free = 0
         \/ k.r = 1 /\ k.free = t.free - 1 /\ t.free > 0
  BY Zenon, <1>1, KallocIs
<1>7. CASE k.r = 0
  <2> DEFINE d == Deallocuvm(t, newsz, oldsz)
  <2>1. a = Fail(d)
    BY Zenon, <1>7 DEF AllocPage
  <2>2. /\ d \in Mem /\ Like(t, d) /\ Sum(d) = Sum(t) /\ d.sp.pte = Outside(t.sp.pte, Up(oldsz), Up(newsz))
    <3>1. Shrunk(t, d, newsz, oldsz)
      BY Zenon, <1>1, DeallocIs
    <3> QED BY Zenon, <3>1 DEF Shrunk
  <2> HIDE DEF d, a
  <2>3. /\ a \in Mem /\ a.ok = FALSE /\ a.free = d.free /\ a.lost = d.lost /\ a.sp = d.sp
        /\ a.panic = d.panic
    BY Zenon, <2>1, <2>2, FailIs
  <2>4. Sum(a) = Sum(m)
    BY Zenon, <1>1, <2>2, <2>3 DEF Sum
  <2>5. Like(m, a)
    BY Zenon, <1>1, <2>2, <2>3 DEF Like
  <2>6. a.sp.pte = Below(Up(oldsz))
    BY Zenon, <1>1, <1>4, <2>2, <2>3
  <2> QED BY Zenon, <2>3, <2>4, <2>5, <2>6 DEF Grown
<1>8. CASE k.r # 0
  <2>0. Sum(k) + 1 = Sum(t)
    <3>1. t.free \in Nat /\ t.lost \in Nat /\ Cost(t.sp) \in Nat
      BY Zenon, <1>1, MemIs
    <3> HIDE DEF k
    <3> QED BY <1>6, <1>8, <3>1 DEF Sum
  <2>1. /\ w \in Mem /\ Like(k, w)
        /\ w.ok => w.sp.pte = k.sp.pte \cup {va} /\ Sum(w) = Sum(k) + 1
        /\ ~w.ok => w.sp.pte = k.sp.pte /\ Sum(w) = Sum(k)
    <3>1. k.ok /\ va \notin k.sp.pte
      BY Zenon, <1>1, <1>5, <1>6
    <3> HIDE DEF k
    <3> QED BY Zenon, <1>6, <3>1, MapIs
  <2>2. CASE w.ok
    <3>1. a = w
      BY Zenon, <1>8, <2>2 DEF AllocPage
    <3> HIDE DEF w, k, a
    <3>2. a.sp.pte = Below(va + 1)
      BY Zenon, <1>1, <1>5, <1>6, <2>1, <2>2, <3>1
    <3>3. Like(m, a)
      BY Zenon, <1>1, <1>6, <2>1, <3>1 DEF Like
    <3>4. Sum(a) = Sum(m)
      BY Zenon, <1>1, <2>0, <2>1, <2>2, <3>1
    <3> QED BY Zenon, <2>1, <2>2, <3>1, <3>2, <3>3, <3>4 DEF Grown
  <2>3. CASE ~w.ok
    <3> DEFINE d == Deallocuvm(w, newsz, oldsz)
    <3>1. a = Kfree(d, 1)
      BY Zenon, <1>8, <2>3 DEF AllocPage
    <3> HIDE DEF w
    <3>2. /\ d \in Mem /\ Like(w, d) /\ Sum(d) = Sum(w) /\ d.ok = w.ok
          /\ d.sp.pte = Outside(w.sp.pte, Up(oldsz), Up(newsz))
      <4>1. Shrunk(w, d, newsz, oldsz)
        BY Zenon, <2>1, DeallocIs
      <4> QED BY Zenon, <4>1 DEF Shrunk
    <3> HIDE DEF d, a, k
    <3>3. /\ a \in Mem /\ a.ok = d.ok /\ a.free = d.free + 1 /\ a.lost = d.lost /\ a.sp = d.sp
          /\ a.panic = d.panic
      <4>1. d.free + 1 >= 0 /\ 1 \in Int
        BY <3>2, MemIs
      <4> QED BY Zenon, <3>1, <3>2, <4>1, KfreeIs
    <3>4. Sum(a) = Sum(d) + 1
      <4>1. d.free \in Nat /\ d.lost \in Nat /\ Cost(d.sp) \in Nat
        BY Zenon, <3>2, MemIs
      <4> QED BY <3>3, <4>1 DEF Sum
    <3>5. Sum(a) = Sum(m)
      BY Zenon, <1>1, <2>0, <2>1, <2>3, <3>2, <3>4
    <3>6. Like(m, a)
      BY Zenon, <1>1, <1>6, <2>1, <3>2, <3>3 DEF Like
    <3>7. a.sp.pte = Below(Up(oldsz))
      BY Zenon, <1>1, <1>4, <1>6, <2>1, <2>3, <3>2, <3>3
    <3> QED BY Zenon, <2>3, <3>2, <3>3, <3>5, <3>6, <3>7 DEF Grown
  <2> QED BY Zenon, <2>2, <2>3
<1> QED BY Zenon, <1>7, <1>8

\* Two pages are enough for a turn.
LEMMA AllocPageOk ==
  ASSUME NEW t \in Mem, NEW oldsz, NEW newsz, NEW va \in Va,
         t.ok, t.free >= 2, va \notin t.sp.pte
  PROVE  AllocPage(t, va, oldsz, newsz).ok
<1> DEFINE k == Kalloc(t)
           w == Mappages(k, va)
<1>1. /\ k \in Mem /\ k.sp = t.sp /\ k.lost = t.lost /\ k.ok = t.ok /\ k.panic = t.panic
      /\ \/ k.r = 0 /\ k.free = t.free /\ t.free = 0
         \/ k.r = 1 /\ k.free = t.free - 1 /\ t.free > 0
  BY Zenon, KallocIs
<1>2. k.r # 0 /\ k.free > 0
  <2>1. t.free \in Nat
    BY Zenon, MemIs
  <2> HIDE DEF k
  <2> QED BY <1>1, <2>1
<1>3. w.ok
  <2> HIDE DEF k
  <2> QED BY Zenon, <1>1, <1>2, MapIs
<1>4. AllocPage(t, va, oldsz, newsz) = w
  BY Zenon, <1>2, <1>3 DEF AllocPage
<1> HIDE DEF w
<1> QED BY Zenon, <1>3, <1>4

\* t is how the loop of allocuvm() ends.
AllocEnds(m, t, oldsz, newsz) ==
  /\ Grown(m, t, Up(oldsz), Up(newsz))
  /\ Allocuvm(m, oldsz, newsz) = IF newsz = 0 THEN Fail(Ret(t, newsz)) ELSE Ret(t, newsz)
  /\ Turns(oldsz, newsz) = 0 => t = m
  /\ Turns(oldsz, newsz) = 1 => t = AllocPage(m, Up(oldsz), oldsz, newsz)

\* The loop of allocuvm() as a whole.
LEMMA AllocRuns ==
  ASSUME NEW m \in Mem, NEW oldsz \in Nat, NEW newsz \in Nat,
         m.ok, m.sp.pte = Below(Up(oldsz)), oldsz <= newsz, newsz < KERNBASE
  PROVE  \E t : AllocEnds(m, t, oldsz, newsz)
<1> DEFINE x == Up(oldsz)
           n == Turns(oldsz, newsz)
           page(t, k) == AllocPage(t, x + k - 1, oldsz, newsz)
           S == [k \in 0..n |-> {t \in Mem : Grown(m, t, x, x + k)}]
           G == [k \in 1..n |-> [t \in S[k - 1] |-> page(t, k)]]
<1>1. n \in Nat /\ x \in Nat /\ x + n = Up(newsz) /\ Up(newsz) <= KERNBASE \div PGSIZE
  <2>1. Up(oldsz) \in Nat /\ Up(newsz) \in Nat /\ Up(oldsz) <= Up(newsz)
    BY Zenon, UpIs, UpMono
  <2>2. CASE oldsz = newsz
    BY <2>1, <2>2, UpFits DEF Turns
  <2>3. CASE oldsz # newsz
    BY <2>1, <2>3, UpFits DEF Turns
  <2> QED BY Zenon, <2>2, <2>3
<1> HIDE DEF n, x
<1>2. m \in S[0]
  <2>1. 0 \in 0..n /\ x + 0 = x
    BY <1>1
  <2>2. Grown(m, m, x, x)
    BY Zenon DEF Grown, Like, x
  <2> QED BY Zenon, <2>1, <2>2
<1>3. ASSUME NEW k \in 1..n, NEW t \in S[k - 1] PROVE page(t, k) \in S[k]
  <2>1. k - 1 \in 0..n /\ k \in 0..n /\ x + (k - 1) = x + k - 1 /\ (x + k - 1) + 1 = x + k
        /\ x + k - 1 \in Va /\ x <= x + k - 1 /\ x + k - 1 < Up(newsz)
    BY <1>1, Sizes DEF Va
  <2>2. Grown(m, t, x, x + k - 1)
    BY Zenon, <2>1
  <2>3. Grown(m, page(t, k), x, x + k)
    BY Zenon, <2>1, <2>2, AllocPageIs DEF x
  <2>4. page(t, k) \in Mem
    BY Zenon, <2>3 DEF Grown
  <2> QED BY Zenon, <2>1, <2>3, <2>4
<1>4. PICK f : /\ f = [k \in 0..n |-> f[k]] /\ f[0] = m
               /\ \A k \in 1..n : f[k] = G[k][f[k - 1]]
               /\ \A k \in 0..n : f[k] \in S[k]
  <2>1. \A k \in 1..n : \A t \in S[k - 1] : G[k][t] \in S[k]
    BY Zenon, <1>3
  <2> HIDE DEF S, G
  <2>2. \E f : IsRun(f, n, m, S, G)
    BY Zenon, <1>1, <1>2, <2>1, Runs
  <2> QED BY Zenon, <2>2 DEF IsRun
<1>5. ASSUME NEW k \in 1..n PROVE k - 1 \in 0..n /\ k \in 0..n /\ k # 0 /\ f[k] = page(f[k - 1], k)
  <2>1. k - 1 \in 0..n /\ k \in 0..n /\ k # 0
    BY <1>1
  <2> HIDE DEF page, S
  <2> QED BY Zenon, <1>4, <2>1
<1> DEFINE e == [k \in 0..n |-> IF k = 0 THEN m ELSE page(f[k - 1], k)]
           after == CHOOSE g : g = [k \in 0..n |-> IF k = 0 THEN m ELSE page(g[k - 1], k)]
<1>6. f = e
  <2>1. \A k \in 0..n : k = 0 \/ k \in 1..n
    BY <1>1
  <2> HIDE DEF page
  <2>2. \A k \in 0..n : f[k] = IF k = 0 THEN m ELSE page(f[k - 1], k)
    BY Zenon, <1>4, <1>5, <2>1
  <2> QED BY Zenon, <1>4, <2>2
<1>7. after = [k \in 0..n |-> IF k = 0 THEN m ELSE page(after[k - 1], k)]
  <2> HIDE DEF page
  <2> QED BY Zenon, <1>6
<1> HIDE DEF after
<1>8. \A k \in 0..n : after[k] = f[k]
  <2> DEFINE P == {k \in 0..n : after[k] = f[k]}
  <2>1. 0 \in 0..n
    BY <1>1
  <2>2. 0 \in P
    BY Zenon, <1>4, <1>7, <2>1
  <2>3. ASSUME NEW k \in 1..n, k - 1 \in P PROVE k \in P
    <3> HIDE DEF page
    <3>1. after[k] = page(after[k - 1], k)
      BY Zenon, <1>5, <1>7
    <3> QED BY Zenon, <1>5, <2>3, <3>1
  <2>4. \A k \in 0..n : k \in P
    <3> HIDE DEF P
    <3> QED BY Zenon, <1>1, <2>2, <2>3, Induct
  <2> QED BY Zenon, <2>4
<1>9. n \in 0..n
  BY <1>1
<1>10. Allocuvm(m, oldsz, newsz) = IF newsz = 0 THEN Fail(Ret(after[n], newsz)) ELSE Ret(after[n], newsz)
  <2>1. ~(newsz >= KERNBASE) /\ ~(newsz < oldsz)
    BY Sizes
  <2> QED BY Zenon, <2>1 DEF Allocuvm, Loop, after, n, page, x
<1>11. Grown(m, f[n], x, Up(newsz))
  BY Zenon, <1>1, <1>4, <1>9
<1>12. n = 1 => f[n] = AllocPage(m, x, oldsz, newsz)
  <2>1. n = 1 => 1 \in 1..n /\ 1 - 1 = 0 /\ x + 1 - 1 = x
    BY <1>1
  <2> HIDE DEF S, G
  <2> QED BY Zenon, <1>4, <1>5, <2>1
<1> QED BY Zenon, <1>4, <1>8, <1>9, <1>10, <1>11, <1>12 DEF x, n, AllocEnds

\* a is m with the pages from oldsz to newsz, or m again but for page tables.
Alloced(m, a, oldsz, newsz) ==
  /\ a \in Mem /\ Like(m, a) /\ Sum(a) = Sum(m)
  /\ a.ok => /\ newsz < KERNBASE /\ a.r = (IF newsz < oldsz THEN oldsz ELSE newsz)
             /\ a.sp.pte = Below(Up(a.r))
  /\ ~a.ok => a.sp.pte = m.sp.pte

\* allocuvm() adds all of the pages or none.
LEMMA AllocIs ==
  ASSUME NEW m \in Mem, NEW oldsz \in Nat, NEW newsz \in Nat,
         m.ok, m.sp.pte = Below(Up(oldsz))
  PROVE  Alloced(m, Allocuvm(m, oldsz, newsz), oldsz, newsz)
<1> DEFINE a == Allocuvm(m, oldsz, newsz)
<1>0. oldsz \in Int /\ newsz \in Int /\ KERNBASE \in Nat
  BY Sizes
<1>1. CASE newsz >= KERNBASE
  <2>1. a = Fail(m)
    BY Zenon, <1>1 DEF Allocuvm
  <2> HIDE DEF a
  <2>2. /\ a \in Mem /\ a.ok = FALSE /\ a.free = m.free /\ a.lost = m.lost /\ a.sp = m.sp
        /\ a.panic = m.panic
    BY Zenon, <2>1, FailIs
  <2> QED BY Zenon, <2>2 DEF Alloced, Like, Sum, a
<1>2. CASE newsz < KERNBASE /\ newsz < oldsz
  <2>1. ~(newsz >= KERNBASE)
    BY <1>0, <1>2
  <2>2. a = Ret(m, oldsz)
    BY Zenon, <1>2, <2>1 DEF Allocuvm
  <2> HIDE DEF a
  <2>3. /\ a \in Mem /\ a.ok = m.ok /\ a.free = m.free /\ a.lost = m.lost /\ a.sp = m.sp
        /\ a.panic = m.panic /\ a.r = oldsz
    BY Zenon, <1>0, <2>2, RetIs
  <2> QED BY Zenon, <1>2, <2>3 DEF Alloced, Like, Sum, a
<1>3. CASE newsz < KERNBASE /\ ~(newsz < oldsz)
  <2>1. oldsz <= newsz
    BY <1>0, <1>3
  <2>2. PICK t : /\ Grown(m, t, Up(oldsz), Up(newsz))
                 /\ a = IF newsz = 0 THEN Fail(Ret(t, newsz)) ELSE Ret(t, newsz)
                 /\ Turns(oldsz, newsz) = 0 => t = m
    <3>1. \E t : AllocEnds(m, t, oldsz, newsz)
      BY Zenon, <1>3, <2>1, AllocRuns
    <3> QED BY Zenon, <3>1 DEF AllocEnds
  <2>3. /\ t \in Mem /\ Like(m, t) /\ Sum(t) = Sum(m)
        /\ t.ok => t.sp.pte = Below(Up(newsz))
        /\ ~t.ok => t.sp.pte = m.sp.pte
    BY Zenon, <2>2 DEF Grown
  <2> HIDE DEF a
  <2> DEFINE b == Ret(t, newsz)
  <2>4. /\ b \in Mem /\ b.ok = t.ok /\ b.free = t.free /\ b.lost = t.lost /\ b.sp = t.sp
        /\ b.panic = t.panic /\ b.r = newsz
    BY Zenon, <1>0, <2>3, RetIs
  <2> HIDE DEF b
  <2>5. CASE newsz # 0
    <3>1. a = b
      BY Zenon, <2>2, <2>5 DEF b
    <3> QED BY Zenon, <1>3, <2>3, <2>4, <3>1 DEF Alloced, Like, Sum, a
  <2>6. CASE newsz = 0
    <3>1. a = Fail(b)
      BY Zenon, <2>2, <2>6 DEF b
    <3>2. /\ a \in Mem /\ a.ok = FALSE /\ a.free = b.free /\ a.lost = b.lost /\ a.sp = b.sp
          /\ a.panic = b.panic
      BY Zenon, <2>4, <3>1, FailIs
    <3>3. Turns(oldsz, newsz) = 0
      BY <2>1, <2>6 DEF Turns
    <3> QED BY Zenon, <2>2, <2>4, <3>2, <3>3 DEF Alloced, Like, Sum, a
  <2> QED BY Zenon, <2>5, <2>6
<1>4. newsz >= KERNBASE \/ newsz < KERNBASE
  BY <1>0
<1> QED BY Zenon, <1>1, <1>2, <1>3, <1>4

\* allocuvm() of the first page finds memory.
LEMMA AllocFirst ==
  ASSUME NEW m \in Mem, m.ok, m.sp.pte = {}, m.free >= 2
  PROVE  Allocuvm(m, 0, PGSIZE).ok
<1>1. 0 \in Nat /\ PGSIZE \in Nat /\ 0 <= PGSIZE /\ PGSIZE < KERNBASE /\ PGSIZE # 0 /\ PGSIZE \in Int
  BY VmAssumption
<1>2. Up(0) = 0 /\ Up(PGSIZE) = 1
  <2>1. 0 * PGSIZE = 0 /\ 1 * PGSIZE = PGSIZE /\ 0 \in Nat /\ 1 \in Nat
    BY Sizes
  <2> QED BY Zenon, <2>1, UpExact
<1>3. 0 \in Va
  <2>1. 1 <= KERNBASE \div PGSIZE
    BY Zenon, <1>1, <1>2, UpFits
  <2> QED BY <2>1, Sizes DEF Va
<1>4. Below(0) = {}
  <2>1. \A va \in Va : ~(va < 0)
    BY Sizes DEF Va
  <2> QED BY Zenon, <2>1 DEF Below
<1>5. Turns(0, PGSIZE) = 1
  BY <1>1, <1>2 DEF Turns
<1>6. PICK t : /\ Grown(m, t, Up(0), Up(PGSIZE))
               /\ Allocuvm(m, 0, PGSIZE) = IF PGSIZE = 0 THEN Fail(Ret(t, PGSIZE)) ELSE Ret(t, PGSIZE)
               /\ t = AllocPage(m, Up(0), 0, PGSIZE)
  <2>1. m.sp.pte = Below(Up(0))
    BY Zenon, <1>2, <1>4
  <2>2. \E t : AllocEnds(m, t, 0, PGSIZE)
    BY Zenon, <1>1, <2>1, AllocRuns
  <2> QED BY Zenon, <1>5, <2>2 DEF AllocEnds
<1>7. t.ok /\ t \in Mem
  BY Zenon, <1>2, <1>3, <1>6, AllocPageOk DEF Grown
<1> QED BY Zenon, <1>1, <1>6, <1>7, RetIs

-----------------------------------------------------------------------------
(* copyuvm                                                                 *)

\* The state in the loop of copyuvm() before page y.
Copied(m, t, y) ==
  t \in Mem /\ ~t.panic /\ Sum(t) = Sum(m) /\ (t.ok => t.sp.pte = Below(y))

\* A turn of that loop, for a page that is there.
LEMMA CopyPageIs ==
  ASSUME NEW m \in Mem, NEW from, NEW va \in Va, NEW t, va \in from.pte, Copied(m, t, va)
  PROVE  Copied(m, CopyPage(t, va, from), va + 1)
<1> DEFINE c == CopyPage(t, va, from)
           f == [t EXCEPT !.panic = @ \/ va \notin from.pte]
           k == Kalloc(f)
           w == Mappages(k, va)
           u == IF va \in from.guard THEN w.sp.guard \cup {va} ELSE w.sp.guard
<1>1. t \in Mem /\ ~t.panic /\ Sum(t) = Sum(m) /\ (t.ok => t.sp.pte = Below(va))
  BY Zenon DEF Copied
<1>2. CASE ~t.ok
  <2>1. c = t
    BY Zenon, <1>2 DEF CopyPage
  <2> QED BY Zenon, <1>1, <1>2, <2>1 DEF Copied
<1> SUFFICES ASSUME t.ok PROVE Copied(m, c, va + 1)
  BY Zenon, <1>2
<1>3. va \notin Below(va) /\ Below(va) \cup {va} = Below(va + 1)
  BY Zenon, BelowNext
<1>4. /\ f \in Mem /\ f.sp = t.sp /\ f.lost = t.lost /\ f.ok = t.ok /\ f.free = t.free
      /\ f.panic = FALSE
  <2>1. (t.panic \/ va \notin from.pte) = FALSE
    BY Zenon, <1>1
  <2>2. f = [t EXCEPT !.panic = FALSE]
    BY Zenon, <2>1
  <2> HIDE DEF f
  <2> QED BY Zenon, <1>1, <2>2 DEF Mem
<1>5. /\ k \in Mem /\ k.sp = f.sp /\ k.lost = f.lost /\ k.ok = f.ok /\ k.panic = f.panic
      /\ \/ k.r = 0 /\ k.free = f.free /\ f.free = 0
         \/ k.r = 1 /\ k.free = f.free - 1 /\ f.free > 0
  <2> HIDE DEF f
  <2> QED BY Zenon, <1>4, KallocIs
<1>6. CASE k.r = 0
  <2>1. c = Fail(f)
    BY Zenon, <1>6 DEF CopyPage
  <2> HIDE DEF f, c
  <2>2. /\ c \in Mem /\ c.ok = FALSE /\ c.free = f.free /\ c.lost = f.lost /\ c.sp = f.sp
        /\ c.panic = f.panic
    BY Zenon, <1>4, <2>1, FailIs
  <2> QED BY Zenon, <1>1, <1>4, <2>2 DEF Copied, Sum
<1>7. CASE k.r # 0
  <2>0. Sum(k) + 1 = Sum(t)
    <3>1. t.free \in Nat /\ t.lost \in Nat /\ Cost(t.sp) \in Nat
      BY Zenon, <1>1, MemIs
    <3> HIDE DEF k, f
    <3> QED BY <1>4, <1>5, <1>7, <3>1 DEF Sum
  <2>1. /\ w \in Mem /\ Like(k, w)
        /\ w.ok => w.sp.pte = k.sp.pte \cup {va} /\ Sum(w) = Sum(k) + 1
        /\ ~w.ok => w.sp.pte = k.sp.pte /\ Sum(w) = Sum(k)
    <3>1. k.ok /\ va \notin k.sp.pte
      BY Zenon, <1>1, <1>3, <1>4, <1>5
    <3> HIDE DEF k
    <3> QED BY Zenon, <1>5, <3>1, MapIs
  <2>2. w.panic = FALSE
    BY Zenon, <1>4, <1>5, <2>1 DEF Like
  <2>3. CASE w.ok
    <3>1. c = [w EXCEPT !.sp.guard = u]
      BY Zenon, <1>7, <2>3 DEF CopyPage
    <3> HIDE DEF w, k, c, f
    <3>2. u \subseteq Int
      <4>1. w.sp \in Space /\ va \in Int
        BY <2>1, MemIs, Sizes DEF Va
      <4>2. w.sp.guard \subseteq Int
        BY Zenon, <4>1 DEF Space
      <4> QED BY Zenon, <4>1, <4>2
    <3> HIDE DEF u
    <3>3. /\ c \in Mem /\ c.panic = w.panic /\ c.ok = w.ok /\ c.free = w.free /\ c.lost = w.lost
          /\ c.sp.pte = w.sp.pte /\ c.sp.tab = w.sp.tab /\ c.sp.pgdir = w.sp.pgdir /\ c.sp.kpt = w.sp.kpt
      BY Zenon, <2>1, <3>1, <3>2 DEF Mem, Space
    <3>4. Sum(c) = Sum(m)
      BY ZenonT(30), <1>1, <2>0, <2>1, <2>3, <3>3 DEF Sum, Cost
    <3>5. c.sp.pte = Below(va + 1)
      BY Zenon, <1>1, <1>3, <1>4, <1>5, <2>1, <2>3, <3>3
    <3> QED BY Zenon, <2>2, <3>3, <3>4, <3>5 DEF Copied
  <2>4. CASE ~w.ok
    <3>1. c = [w EXCEPT !.lost = @ + 1]
      BY Zenon, <1>7, <2>4 DEF CopyPage
    <3> HIDE DEF w, k, c, f
    <3>2. /\ c \in Mem /\ c.panic = w.panic /\ c.ok = w.ok /\ c.free = w.free /\ c.lost = w.lost + 1
          /\ c.sp = w.sp
      BY <2>1, <3>1 DEF Mem
    <3>3. Sum(c) = Sum(w) + 1
      <4>1. w.free \in Nat /\ w.lost \in Nat /\ Cost(w.sp) \in Nat
        BY Zenon, <2>1, MemIs
      <4> QED BY <3>2, <4>1 DEF Sum
    <3>4. Sum(c) = Sum(m)
      BY Zenon, <1>1, <2>0, <2>1, <2>4, <3>3
    <3> QED BY Zenon, <2>2, <2>4, <3>2, <3>4 DEF Copied
  <2> QED BY Zenon, <2>3, <2>4
<1> QED BY Zenon, <1>6, <1>7

\* t is how the loop of copyuvm() ends.
CopyEnds(m, t, from, sz) ==
  /\ Copied(m, t, Up(sz))
  /\ Copyuvm(m, from, sz) = IF ~Setupkvm(m).ok THEN Setupkvm(m)
                            ELSE IF ~t.ok THEN Fail(Freevm(t))
                            ELSE t

\* The loop of copyuvm() as a whole.
LEMMA CopyRuns ==
  ASSUME NEW m \in Mem, NEW from, NEW sz \in Nat,
         m.ok, ~m.panic, m.sp = NoSpace, sz < KERNBASE, from.pte = Below(Up(sz))
  PROVE  \E t : CopyEnds(m, t, from, sz)
<1> DEFINE d == Setupkvm(m)
           n == Turns(0, sz)
           page(t, k) == CopyPage(t, k - 1, from)
           S == [k \in 0..n |-> {t \in Mem : Copied(m, t, k)}]
           G == [k \in 1..n |-> [t \in S[k - 1] |-> page(t, k)]]
<1>0. /\ d \in Mem /\ d.panic = m.panic /\ Sum(d) = Sum(m)
      /\ d.sp = IF d.ok THEN Directory(NKPT) ELSE NoSpace
  BY Zenon, SetupIs
<1>1. n \in Nat /\ n = Up(sz) /\ n <= KERNBASE \div PGSIZE
  <2>1. Up(0) = 0
    <3>1. 0 * PGSIZE = 0 /\ 0 \in Nat
      BY Sizes
    <3> QED BY Zenon, <3>1, UpExact
  <2>2. Up(sz) \in Nat /\ Up(sz) <= KERNBASE \div PGSIZE
    BY Zenon, UpIs, UpFits
  <2>3. CASE 0 < sz
    BY <2>1, <2>2, <2>3 DEF Turns
  <2>4. CASE sz = 0
    BY <2>1, <2>2, <2>4 DEF Turns
  <2> QED BY <2>3, <2>4
<1> HIDE DEF n
<1>2. d \in S[0]
  <2>1. 0 \in 0..n
    BY <1>1
  <2>2. Below(0) = {}
    <3>1. \A va \in Va : ~(va < 0)
      BY Sizes DEF Va
    <3> QED BY Zenon, <3>1 DEF Below
  <2>3. NoSpace.pte = {} /\ Directory(NKPT).pte = {}
    BY Zenon, EmptySpaces, VmAssumption
  <2>4. Copied(m, d, 0)
    <3> HIDE DEF d
    <3> QED BY Zenon, <1>0, <2>2, <2>3 DEF Copied
  <2> HIDE DEF d
  <2> QED BY Zenon, <1>0, <2>1, <2>4
<1> HIDE DEF d
<1>3. ASSUME NEW k \in 1..n, NEW t \in S[k - 1] PROVE page(t, k) \in S[k]
  <2>1. k - 1 \in 0..n /\ k \in 0..n /\ (k - 1) + 1 = k /\ k - 1 \in Va /\ k - 1 < Up(sz)
    BY <1>1, Sizes DEF Va
  <2>2. Copied(m, t, k - 1)
    BY Zenon, <2>1
  <2>3. k - 1 \in from.pte
    BY Zenon, <2>1 DEF Below
  <2>4. Copied(m, page(t, k), k)
    BY Zenon, <2>1, <2>2, <2>3, CopyPageIs
  <2>5. page(t, k) \in Mem
    BY Zenon, <2>4 DEF Copied
  <2> QED BY Zenon, <2>1, <2>4, <2>5
<1>4. PICK f : /\ f = [k \in 0..n |-> f[k]] /\ f[0] = d
               /\ \A k \in 1..n : f[k] = G[k][f[k - 1]]
               /\ \A k \in 0..n : f[k] \in S[k]
  <2>1. \A k \in 1..n : \A t \in S[k - 1] : G[k][t] \in S[k]
    BY Zenon, <1>3
  <2> HIDE DEF S, G
  <2>2. \E f : IsRun(f, n, d, S, G)
    BY Zenon, <1>1, <1>2, <2>1, Runs
  <2> QED BY Zenon, <2>2 DEF IsRun
<1>5. ASSUME NEW k \in 1..n PROVE k - 1 \in 0..n /\ k \in 0..n /\ k # 0 /\ f[k] = page(f[k - 1], k)
  <2>1. k - 1 \in 0..n /\ k \in 0..n /\ k # 0
    BY <1>1
  <2> HIDE DEF page, S
  <2> QED BY Zenon, <1>4, <2>1
<1> DEFINE e == [k \in 0..n |-> IF k = 0 THEN d ELSE page(f[k - 1], k)]
           after == CHOOSE g : g = [k \in 0..n |-> IF k = 0 THEN d ELSE page(g[k - 1], k)]
<1>6. f = e
  <2>1. \A k \in 0..n : k = 0 \/ k \in 1..n
    BY <1>1
  <2> HIDE DEF page
  <2>2. \A k \in 0..n : f[k] = IF k = 0 THEN d ELSE page(f[k - 1], k)
    BY Zenon, <1>4, <1>5, <2>1
  <2> QED BY Zenon, <1>4, <2>2
<1>7. after = [k \in 0..n |-> IF k = 0 THEN d ELSE page(after[k - 1], k)]
  <2> HIDE DEF page
  <2> QED BY Zenon, <1>6
<1> HIDE DEF after
<1>8. \A k \in 0..n : after[k] = f[k]
  <2> DEFINE P == {k \in 0..n : after[k] = f[k]}
  <2>1. 0 \in 0..n
    BY <1>1
  <2>2. 0 \in P
    BY Zenon, <1>4, <1>7, <2>1
  <2>3. ASSUME NEW k \in 1..n, k - 1 \in P PROVE k \in P
    <3> HIDE DEF page
    <3>1. after[k] = page(after[k - 1], k)
      BY Zenon, <1>5, <1>7
    <3> QED BY Zenon, <1>5, <2>3, <3>1
  <2>4. \A k \in 0..n : k \in P
    <3> HIDE DEF P
    <3> QED BY Zenon, <1>1, <2>2, <2>3, Induct
  <2> QED BY Zenon, <2>4
<1>9. n \in 0..n
  BY <1>1
<1>10. Copyuvm(m, from, sz) = IF ~d.ok THEN d ELSE IF ~after[n].ok THEN Fail(Freevm(after[n])) ELSE after[n]
  BY Zenon DEF Copyuvm, Loop, after, n, page, d
<1>11. Copied(m, f[n], n)
  BY Zenon, <1>4, <1>9
<1> QED BY Zenon, <1>1, <1>8, <1>9, <1>10, <1>11 DEF CopyEnds, d

\* copyuvm() makes a whole copy, or gives back the pages of what it has made.
LEMMA CopyIs ==
  ASSUME NEW m \in Mem, NEW from, NEW sz \in Nat,
         m.ok, ~m.panic, m.sp = NoSpace, sz < KERNBASE, from.pte = Below(Up(sz))
  PROVE  LET c == Copyuvm(m, from, sz) IN
         /\ c \in Mem /\ ~c.panic /\ Sum(c) = Sum(m)
         /\ c.ok => c.sp.pte = Below(Up(sz))
         /\ ~c.ok => c.sp = NoSpace
<1> DEFINE c == Copyuvm(m, from, sz)
           d == Setupkvm(m)
<1>1. PICK t : CopyEnds(m, t, from, sz)
  BY Zenon, CopyRuns
<1>2. /\ t \in Mem /\ ~t.panic /\ Sum(t) = Sum(m) /\ (t.ok => t.sp.pte = Below(Up(sz)))
      /\ c = IF ~d.ok THEN d ELSE IF ~t.ok THEN Fail(Freevm(t)) ELSE t
  BY Zenon, <1>1 DEF CopyEnds, Copied
<1>3. /\ d \in Mem /\ d.panic = m.panic /\ Sum(d) = Sum(m)
      /\ d.sp = IF d.ok THEN Directory(NKPT) ELSE NoSpace
  BY Zenon, SetupIs
<1> HIDE DEF c, d
<1>4. CASE ~d.ok
  BY Zenon, <1>2, <1>3, <1>4 DEF c
<1>5. CASE d.ok /\ t.ok
  BY Zenon, <1>2, <1>5 DEF c
<1>6. CASE d.ok /\ ~t.ok
  <2> DEFINE v == Freevm(t)
  <2>1. v \in Mem /\ v.sp = NoSpace /\ v.panic = t.panic /\ Sum(v) = Sum(t)
    BY Zenon, <1>2, FreevmIs
  <2>2. c = Fail(v)
    BY Zenon, <1>2, <1>6
  <2> HIDE DEF v
  <2>3. /\ c \in Mem /\ c.ok = FALSE /\ c.free = v.free /\ c.lost = v.lost /\ c.sp = v.sp
        /\ c.panic = v.panic
    BY Zenon, <2>1, <2>2, FailIs
  <2> QED BY Zenon, <1>2, <2>1, <2>3 DEF c, Sum
<1> QED BY Zenon, <1>4, <1>5, <1>6

Segment == [vaddr : Nat, memsz : Nat, loads : BOOLEAN]

\* The state in the loop of exec(): the size so far has its pages.
Loaded(m, t) ==
  /\ t \in Mem /\ t.panic = m.panic /\ Sum(t) = Sum(m)
  /\ t.ok => t.r \in Nat /\ t.r < KERNBASE /\ t.sp.pte = Below(Up(t.r))
  /\ m.sp.pgdir # 0 => t.sp.pgdir # 0

\* A turn of that loop.
LEMMA LoadIs ==
  ASSUME NEW m, NEW t, NEW s \in Segment, Loaded(m, t)
  PROVE  Loaded(m, ExecSegment(t, s))
<1> DEFINE end == s.vaddr + s.memsz
           a == Allocuvm(t, t.r, end)
           x == ExecSegment(t, s)
<1>1. end \in Nat
  BY DEF Segment
<1> HIDE DEF end
<1>2. CASE ~t.ok
  <2>1. x = t
    BY Zenon, <1>2 DEF ExecSegment
  <2> QED BY Zenon, <2>1
<1>3. CASE t.ok
  <2>0. t \in Mem /\ t.r \in Nat /\ t.r < KERNBASE /\ t.sp.pte = Below(Up(t.r))
        /\ t.panic = m.panic /\ Sum(t) = Sum(m) /\ (m.sp.pgdir # 0 => t.sp.pgdir # 0)
    BY Zenon, <1>3 DEF Loaded
  <2>1. Alloced(t, a, t.r, end)
    BY Zenon, <1>1, <1>3, <2>0, AllocIs
  <2>2. x = a \/ x = Fail(a)
    BY Zenon, <1>3 DEF ExecSegment, end
  <2> HIDE DEF a
  <2>3. /\ a \in Mem /\ a.panic = t.panic /\ Sum(a) = Sum(t) /\ a.sp.pgdir = t.sp.pgdir
        /\ a.ok => /\ end < KERNBASE /\ a.r = (IF end < t.r THEN t.r ELSE end)
                   /\ a.sp.pte = Below(Up(a.r))
    BY Zenon, <2>1 DEF Alloced, Like
  <2>4. a.ok => a.r \in Nat /\ a.r < KERNBASE
    BY Zenon, <1>1, <2>0, <2>3
  <2>5. CASE x = a
    BY Zenon, <2>0, <2>3, <2>4, <2>5 DEF Loaded
  <2>6. CASE x = Fail(a)
    <3>1. Fail(a) \in Mem /\ Fail(a).ok = FALSE /\ Fail(a).panic = a.panic
          /\ Fail(a).free = a.free /\ Fail(a).lost = a.lost /\ Fail(a).sp = a.sp
      BY Zenon, <2>3, FailIs
    <3>2. Sum(Fail(a)) = Sum(a)
      BY Zenon, <3>1 DEF Sum
    <3> QED BY Zenon, <2>0, <2>3, <2>6, <3>1, <3>2 DEF Loaded
  <2> QED BY Zenon, <2>2, <2>5, <2>6
<1> QED BY Zenon, <1>2, <1>3

\* The loop of exec() over the segments.
LEMMA SegmentsIs ==
  ASSUME NEW m \in Mem, NEW segs \in Seq(Segment), m.sp.pte = {}
  PROVE  Loaded(m, ExecSegments(m, segs))
<1> DEFINE z == Ret(m, 0)
           n == Len(segs)
           seg(t, k) == ExecSegment(t, segs[k])
           S == [k \in 0..n |-> {t \in Mem : Loaded(m, t)}]
           G == [k \in 1..n |-> [t \in S[k - 1] |-> seg(t, k)]]
<1>1. n \in Nat /\ \A k \in 1..n : segs[k] \in Segment
  OBVIOUS
<1> HIDE DEF n
<1>2. z \in S[0]
  <2>1. 0 \in 0..n /\ 0 \in Int /\ 0 \in Nat /\ 0 < KERNBASE
    BY <1>1, VmAssumption
  <2>2. z \in Mem /\ z.r = 0 /\ z.sp = m.sp /\ z.free = m.free /\ z.lost = m.lost /\ z.panic = m.panic
    BY Zenon, <2>1, RetIs
  <2>3. Below(Up(0)) = {}
    <3>1. 0 * PGSIZE = 0
      BY Sizes
    <3>2. Up(0) = 0
      BY Zenon, <2>1, <3>1, UpExact
    <3>3. \A va \in Va : ~(va < 0)
      BY Sizes DEF Va
    <3> QED BY Zenon, <3>2, <3>3 DEF Below
  <2> HIDE DEF z
  <2>4. Loaded(m, z)
    BY Zenon, <2>1, <2>2, <2>3 DEF Loaded, Sum
  <2> QED BY Zenon, <2>1, <2>2, <2>4
<1> HIDE DEF z
<1>3. ASSUME NEW k \in 1..n, NEW t \in S[k - 1] PROVE seg(t, k) \in S[k]
  <2>1. k - 1 \in 0..n /\ k \in 0..n
    BY <1>1
  <2>2. Loaded(m, t)
    BY Zenon, <2>1
  <2>3. Loaded(m, seg(t, k))
    BY Zenon, <1>1, <2>2, LoadIs
  <2>4. seg(t, k) \in Mem
    BY Zenon, <2>3 DEF Loaded
  <2> QED BY Zenon, <2>1, <2>3, <2>4
<1>4. PICK f : /\ f = [k \in 0..n |-> f[k]] /\ f[0] = z
               /\ \A k \in 1..n : f[k] = G[k][f[k - 1]]
               /\ \A k \in 0..n : f[k] \in S[k]
  <2>1. \A k \in 1..n : \A t \in S[k - 1] : G[k][t] \in S[k]
    BY Zenon, <1>3
  <2> HIDE DEF S, G
  <2>2. \E f : IsRun(f, n, z, S, G)
    BY Zenon, <1>1, <1>2, <2>1, Runs
  <2> QED BY Zenon, <2>2 DEF IsRun
<1>5. ASSUME NEW k \in 1..n PROVE k - 1 \in 0..n /\ k \in 0..n /\ k # 0 /\ f[k] = seg(f[k - 1], k)
  <2>1. k - 1 \in 0..n /\ k \in 0..n /\ k # 0
    BY <1>1
  <2> HIDE DEF seg, S
  <2> QED BY Zenon, <1>4, <2>1
<1> DEFINE e == [k \in 0..n |-> IF k = 0 THEN z ELSE seg(f[k - 1], k)]
           after == CHOOSE g : g = [k \in 0..n |-> IF k = 0 THEN z ELSE seg(g[k - 1], k)]
<1>6. f = e
  <2>1. \A k \in 0..n : k = 0 \/ k \in 1..n
    BY <1>1
  <2> HIDE DEF seg
  <2>2. \A k \in 0..n : f[k] = IF k = 0 THEN z ELSE seg(f[k - 1], k)
    BY Zenon, <1>4, <1>5, <2>1
  <2> QED BY Zenon, <1>4, <2>2
<1>7. after = [k \in 0..n |-> IF k = 0 THEN z ELSE seg(after[k - 1], k)]
  <2> HIDE DEF seg
  <2> QED BY Zenon, <1>6
<1> HIDE DEF after
<1>8. \A k \in 0..n : after[k] = f[k]
  <2> DEFINE P == {k \in 0..n : after[k] = f[k]}
  <2>1. 0 \in 0..n
    BY <1>1
  <2>2. 0 \in P
    BY Zenon, <1>4, <1>7, <2>1
  <2>3. ASSUME NEW k \in 1..n, k - 1 \in P PROVE k \in P
    <3> HIDE DEF seg
    <3>1. after[k] = seg(after[k - 1], k)
      BY Zenon, <1>5, <1>7
    <3> QED BY Zenon, <1>5, <2>3, <3>1
  <2>4. \A k \in 0..n : k \in P
    <3> HIDE DEF P
    <3> QED BY Zenon, <1>1, <2>2, <2>3, Induct
  <2> QED BY Zenon, <2>4
<1>9. n \in 0..n
  BY <1>1
<1>10. ExecSegments(m, segs) = after[n]
  BY Zenon DEF ExecSegments, Loop, after, n, seg, z
<1>11. Loaded(m, f[n])
  BY Zenon, <1>4, <1>9
<1> QED BY Zenon, <1>8, <1>9, <1>10, <1>11

\* The stack that exec() adds.
LEMMA StackIs ==
  ASSUME NEW m, NEW t, Loaded(m, t)
  PROVE  Loaded(m, ExecStack(t))
<1> DEFINE base == PGROUNDUP(t.r)
           st == Allocuvm(t, base, base + 2 * PGSIZE)
           x == ExecStack(t)
           G == {base \div PGSIZE}
<1>1. CASE ~t.ok
  <2>1. x = t
    BY Zenon, <1>1 DEF ExecStack
  <2> QED BY Zenon, <2>1
<1>2. CASE t.ok
  <2>1. /\ t \in Mem /\ t.r \in Nat /\ t.sp.pte = Below(Up(t.r)) /\ t.panic = m.panic
        /\ Sum(t) = Sum(m) /\ (m.sp.pgdir # 0 => t.sp.pgdir # 0)
    BY Zenon, <1>2 DEF Loaded
  <2>2. Up(t.r) \in Nat
    BY Zenon, <2>1, UpIs
  <2>3. base = Up(t.r) * PGSIZE
    BY Zenon DEF PGROUNDUP
  <2>4. Up(base) = Up(t.r)
    BY Zenon, <2>2, <2>3, UpExact
  <2>5. x = IF ~st.ok THEN st ELSE [st EXCEPT !.sp.guard = G]
    BY Zenon, <1>2 DEF ExecStack
  <2> HIDE DEF base
  <2>6. base \in Nat /\ base + 2 * PGSIZE \in Nat
    <3> DEFINE u == Up(t.r)
    <3>1. u \in Nat /\ base = u * PGSIZE
      BY Zenon, <2>2, <2>3
    <3> HIDE DEF u
    <3> QED BY <3>1, Sizes
  <2>7. Alloced(t, st, base, base + 2 * PGSIZE)
    BY Zenon, <1>2, <2>1, <2>4, <2>6, AllocIs
  <2>8. G \subseteq Int
    BY <2>6, Sizes
  <2> HIDE DEF st, G
  <2>9. /\ st \in Mem /\ st.panic = m.panic /\ Sum(st) = Sum(m)
        /\ m.sp.pgdir # 0 => st.sp.pgdir # 0
        /\ st.ok => /\ base + 2 * PGSIZE < KERNBASE /\ st.sp.pte = Below(Up(st.r))
                    /\ st.r = IF base + 2 * PGSIZE < base THEN base ELSE base + 2 * PGSIZE
    BY Zenon, <2>1, <2>7 DEF Alloced, Like
  <2>10. CASE ~st.ok
    BY Zenon, <1>2, <2>5, <2>9, <2>10 DEF Loaded
  <2>11. CASE st.ok
    <3>1. st.r \in Nat /\ st.r < KERNBASE
      BY <2>6, <2>9, <2>11, Sizes
    <3>2. x = [st EXCEPT !.sp.guard = G]
      BY Zenon, <2>5, <2>11
    <3> HIDE DEF x
    <3>3. /\ x \in Mem /\ x.free = st.free /\ x.lost = st.lost /\ x.panic = st.panic
          /\ x.r = st.r
          /\ x.sp.pgdir = st.sp.pgdir /\ x.sp.kpt = st.sp.kpt
          /\ x.sp.tab = st.sp.tab /\ x.sp.pte = st.sp.pte
      BY <2>8, <2>9, <3>2 DEF Mem, Space
    <3>4. Sum(x) = Sum(m)
      BY Zenon, <2>9, <3>3 DEF Sum, Cost
    <3> QED BY Zenon, <1>2, <2>9, <2>11, <3>1, <3>3, <3>4 DEF Loaded, x
  <2> QED BY Zenon, <2>10, <2>11
<1> QED BY Zenon, <1>1, <1>2

\* exec() up to its end: the new address space has the pages below the new size,
\* or it has still to be freed, if there is one.
LEMMA ImageIs ==
  ASSUME NEW m \in Mem, NEW prog, prog.segs \in Seq(Segment), m.sp = NoSpace, m.ok
  PROVE  LET x == ExecImage(m, prog) IN
         Loaded(m, x) /\ (~x.ok /\ x.sp.pgdir = 0 => x.sp = NoSpace)
<1> DEFINE new == Setupkvm(m)
           text == ExecSegments(new, prog.segs)
           st == ExecStack(text)
           a == ExecArgs(st, prog.args)
           x == ExecImage(m, prog)
<1>1. /\ new \in Mem /\ new.panic = m.panic /\ Sum(new) = Sum(m)
      /\ new.sp = IF new.ok THEN Directory(NKPT) ELSE NoSpace
  BY Zenon, SetupIs
<1>2. CASE ~new.ok
  <2>1. x = new
    BY Zenon, <1>2 DEF ExecImage
  <2> HIDE DEF x, new
  <2>2. m.sp.pgdir = 0
    BY DEF NoSpace
  <2> QED BY Zenon, <1>1, <1>2, <2>1, <2>2 DEF Loaded, x
<1>3. CASE new.ok
  <2>0. x = a
    BY Zenon, <1>3 DEF ExecImage
  <2>1. /\ Directory(NKPT).pte = {}
        /\ new.sp.pgdir # 0 /\ m.sp.pgdir = 0
    BY <1>1, <1>3, EmptySpaces, VmAssumption DEF Directory, NoSpace
  <2> HIDE DEF new
  <2>2. Loaded(new, text)
    BY Zenon, <1>1, <1>3, <2>1, SegmentsIs
  <2> HIDE DEF text
  <2>3. Loaded(new, st)
    BY Zenon, <2>2, StackIs
  <2> HIDE DEF st
  <2>4. a = st \/ a = Fail(st)
    BY Zenon DEF ExecArgs
  <2> HIDE DEF a
  <2>5. st \in Mem
    BY Zenon, <2>3 DEF Loaded
  <2>6. Loaded(m, a) /\ a.sp.pgdir # 0
    <3>1. /\ Fail(st) \in Mem /\ Fail(st).ok = FALSE /\ Fail(st).free = st.free
          /\ Fail(st).lost = st.lost /\ Fail(st).sp = st.sp /\ Fail(st).panic = st.panic
      BY Zenon, <2>5, FailIs
    <3>2. Sum(Fail(st)) = Sum(st)
      BY Zenon, <3>1 DEF Sum
    <3> QED BY Zenon, <1>1, <2>1, <2>3, <2>4, <3>1, <3>2 DEF Loaded
  <2> QED BY Zenon, <2>0, <2>6
<1> QED BY Zenon, <1>2, <1>3

-----------------------------------------------------------------------------

-----------------------------------------------------------------------------
(* The invariant                                                           *)

Process ==
  [state : {"RUNNING", "FAULTING", "ZOMBIE", "UNUSED"}, kstack : Nat, mmt : Nat, sz : Nat,
   space : Space]

\* A free slot has nothing but its table of memory maps, and a process that runs
\* has exactly the pages below its size.
Sound(r) ==
  /\ r \in Process
  /\ r.state = "UNUSED" => r = Freed(r.mmt)
  /\ r.state = "RUNNING" => r.sz < KERNBASE /\ r.space.pte = Below(Up(r.sz))

\* The types, the slots one by one, and that nothing has panicked.
VmType ==
  /\ free \in Nat /\ lost \in Nat /\ vpanic = FALSE
  /\ proc = [p \in Slot |-> proc[p]]
  /\ \A p \in Slot : Sound(proc[p])

\* The inductive invariant.
VmInv == VmType /\ PagesConserved

\* The pages of a process.
Use(r) == r.kstack + r.mmt + Cost(r.space)

\* What holds of the fields.
LEMMA ProcessIs ==
  ASSUME NEW r, Sound(r)
  PROVE  /\ r.kstack \in Nat /\ r.mmt \in Nat /\ r.sz \in Nat /\ r.space \in Space
         /\ Cost(r.space) \in Nat /\ Use(r) \in Nat
<1>1. r.kstack \in Nat /\ r.mmt \in Nat /\ r.sz \in Nat /\ r.space \in Space
  BY Zenon DEF Sound, Process
<1>2. Cost(r.space) \in Nat
  BY Zenon, <1>1, SpaceIs
<1>3. Use(r) \in Nat
  BY <1>1, <1>2 DEF Use
<1> QED BY Zenon, <1>1, <1>2, <1>3

-----------------------------------------------------------------------------
(* The sum over the slots                                                  *)

\* f has the sums of h over the first slots.
Adds(f, h) ==
  /\ f = [k \in 0..NPROC |-> f[k]] /\ f[0] = 0
  /\ \A k \in 1..NPROC : f[k] = f[k - 1] + h[k]
  /\ \A k \in 0..NPROC : f[k] \in Nat

\* Such sums are there.
LEMMA AddsIs ==
  ASSUME NEW h, \A p \in Slot : h[p] \in Nat
  PROVE  \E f : Adds(f, h)
<1> DEFINE S == [k \in 0..NPROC |-> Nat]
           G == [k \in 1..NPROC |-> [t \in Nat |-> t + h[k]]]
<1>0. NPROC \in Nat
  BY Zenon, VmAssumption
<1>1. 0 \in S[0]
  BY <1>0
<1>2. \A k \in 1..NPROC : S[k - 1] = Nat /\ S[k] = Nat
  BY <1>0
<1>3. \A k \in 1..NPROC : \A t \in Nat : t + h[k] \in Nat
  BY DEF Slot
<1>4. \A k \in 1..NPROC : \A t \in S[k - 1] : G[k][t] \in S[k]
  BY Zenon, <1>2, <1>3 DEF G
<1>5. \E f : IsRun(f, NPROC, 0, S, G)
  <2> HIDE DEF S, G
  <2> QED BY Zenon, <1>0, <1>1, <1>4, Runs
<1>6. PICK f : IsRun(f, NPROC, 0, S, G)
  BY Zenon, <1>5
<1>7. \A k \in 1..NPROC : k - 1 \in 0..NPROC
  BY <1>0
<1>8. \A k \in 0..NPROC : f[k] \in Nat
  BY Zenon, <1>6 DEF IsRun, S
<1>9. \A k \in 1..NPROC : f[k] = f[k - 1] + h[k]
  BY Zenon, <1>6, <1>7, <1>8 DEF IsRun, G
<1>10. f = [k \in 0..NPROC |-> f[k]] /\ f[0] = 0
  <2> HIDE DEF S, G
  <2> QED BY Zenon, <1>6 DEF IsRun
<1> QED BY Zenon, <1>8, <1>9, <1>10 DEF Adds

\* The sums of f and g differ as the summands for q do.
Moved(f, g, h, i, q) == g[NPROC] + h[q] = f[NPROC] + i[q]

\* One summand more or less.
LEMMA AddsDiff ==
  ASSUME NEW f, NEW g, NEW h, NEW i, NEW q \in Slot,
         \A p \in Slot : h[p] \in Nat /\ i[p] \in Nat,
         \A p \in Slot \ {q} : i[p] = h[p], Adds(f, h), Adds(g, i)
  PROVE  Moved(f, g, h, i, q)
<1> DEFINE at(k) == (k < q /\ g[k] = f[k]) \/ (k >= q /\ g[k] + h[q] = f[k] + i[q])
           P == {k \in 0..NPROC : at(k)}
<1>0. NPROC \in Nat /\ Slot = 1..NPROC /\ q \in 1..NPROC
  BY Zenon, VmAssumption DEF Slot
<1>1. 0 \in P
  <2>1. 0 < q /\ 0 \in 0..NPROC
    BY <1>0
  <2>2. g[0] = f[0]
    BY Zenon DEF Adds
  <2> QED BY Zenon, <2>1, <2>2
<1>2. ASSUME NEW k \in 1..NPROC, k - 1 \in P PROVE k \in P
  <2>1. k - 1 \in 0..NPROC /\ k \in 0..NPROC /\ k \in Slot
    BY <1>0
  <2>2. /\ f[k] = f[k - 1] + h[k] /\ g[k] = g[k - 1] + i[k]
        /\ f[k - 1] \in Nat /\ g[k - 1] \in Nat
    BY Zenon, <2>1 DEF Adds
  <2>3. h[k] \in Nat /\ i[k] \in Nat /\ h[q] \in Nat /\ i[q] \in Nat /\ (k = q \/ i[k] = h[k])
    BY Zenon, <2>1
  <2>4. at(k - 1)
    BY Zenon, <1>2
  <2>5. CASE k - 1 < q /\ k < q
    BY <1>0, <2>1, <2>2, <2>3, <2>4, <2>5
  <2>6. CASE k - 1 < q /\ ~(k < q)
    <3>1. k = q
      BY <1>0, <2>6
    <3> QED BY <1>0, <2>1, <2>2, <2>3, <2>4, <2>6, <3>1
  <2>7. CASE ~(k - 1 < q)
    <3>1. k # q /\ k >= q
      BY <1>0, <2>7
    <3>2. g[k - 1] + h[q] = f[k - 1] + i[q]
      BY Zenon, <1>0, <2>4, <2>7
    <3>3. g[k] + h[q] = f[k] + i[q]
      BY <2>2, <2>3, <3>1, <3>2
    <3> QED BY Zenon, <2>1, <3>1, <3>3
  <2> QED BY Zenon, <2>5, <2>6, <2>7
<1>3. \A k \in 0..NPROC : k \in P
  <2> HIDE DEF P
  <2> QED BY Zenon, <1>0, <1>1, <1>2, Induct
<1>4. NPROC \in 0..NPROC /\ ~(NPROC < q)
  BY <1>0
<1>5. at(NPROC)
  BY Zenon, <1>3, <1>4
<1> QED BY Zenon, <1>4, <1>5 DEF Moved

InUseAdds ==
  \E f : Adds(f, [p \in Slot |-> Use(proc[p])]) /\ InUse = f[NPROC]

\* InUse is the sum of Use over the slots.
LEMMA InUseIs ==
  VmType => InUseAdds
<1> SUFFICES ASSUME VmType PROVE InUseAdds
  BY Zenon
<1> DEFINE h == [p \in Slot |-> Use(proc[p])]
           upto == CHOOSE u : u = [n \in 0..NPROC |-> IF n = 0 THEN 0 ELSE u[n - 1] + Pages(n)]
<1>0. NPROC \in Nat /\ Slot = 1..NPROC
  BY Zenon, VmAssumption DEF Slot
<1>1. \A p \in Slot : h[p] \in Nat /\ h[p] = Pages(p)
  <2> SUFFICES ASSUME NEW p \in Slot PROVE h[p] \in Nat /\ h[p] = Pages(p)
    BY Zenon
  <2>1. h[p] = Use(proc[p]) /\ Sound(proc[p])
    BY Zenon DEF VmType
  <2>2. h[p] \in Nat
    BY Zenon, <2>1, ProcessIs
  <2>3. proc[p].kstack \in Nat /\ proc[p].mmt \in Nat /\ proc[p].space \in Space
    BY Zenon, <2>1, ProcessIs
  <2>4. Cardinality(proc[p].space.tab) \in Nat /\ Cardinality(proc[p].space.pte) \in Nat
    BY Zenon, <2>3, SpaceIs
  <2>5. proc[p].space.pgdir \in Nat /\ proc[p].space.kpt \in Nat
    BY Zenon, <2>3 DEF Space
  <2>6. Use(proc[p]) = Pages(p)
    BY <2>3, <2>4, <2>5 DEF Use, Pages, Cost
  <2> QED BY Zenon, <2>1, <2>2, <2>6
<1> HIDE DEF h
<1>2. PICK f : Adds(f, h)
  BY Zenon, <1>1, AddsIs
<1>3. f = [n \in 0..NPROC |-> IF n = 0 THEN 0 ELSE f[n - 1] + Pages(n)]
  <2>1. \A n \in 0..NPROC : n = 0 \/ n \in 1..NPROC
    BY <1>0
  <2>2. \A n \in 0..NPROC : f[n] = IF n = 0 THEN 0 ELSE f[n - 1] + Pages(n)
    <3>1. ASSUME NEW n \in 1..NPROC PROVE n # 0 /\ f[n] = f[n - 1] + Pages(n)
      <4>1. n # 0
        BY <1>0
      <4> QED BY Zenon, <1>0, <1>1, <1>2, <4>1 DEF Adds
    <3> QED BY Zenon, <1>2, <2>1, <3>1 DEF Adds
  <2>3. f = [n \in 0..NPROC |-> f[n]]
    BY Zenon, <1>2 DEF Adds
  <2> QED BY Zenon, <2>2, <2>3
<1>4. upto = [n \in 0..NPROC |-> IF n = 0 THEN 0 ELSE upto[n - 1] + Pages(n)]
  BY Zenon, <1>3
<1>5. InUse = upto[NPROC]
  BY Zenon DEF InUse
<1> HIDE DEF upto
<1>6. \A k \in 0..NPROC : upto[k] = f[k]
  <2> DEFINE P == {k \in 0..NPROC : upto[k] = f[k]}
  <2>1. 0 \in 0..NPROC
    BY <1>0
  <2>2. 0 \in P
    BY Zenon, <1>2, <1>4, <2>1 DEF Adds
  <2>3. ASSUME NEW k \in 1..NPROC, k - 1 \in P PROVE k \in P
    <3>1. k \in 0..NPROC /\ k # 0
      BY <1>0
    <3>2. upto[k] = upto[k - 1] + Pages(k) /\ f[k] = f[k - 1] + Pages(k)
      BY Zenon, <1>3, <1>4, <3>1
    <3> QED BY Zenon, <2>3, <3>1, <3>2
  <2>4. \A k \in 0..NPROC : k \in P
    <3> HIDE DEF P
    <3> QED BY Zenon, <1>0, <2>2, <2>3, Induct
  <2> QED BY Zenon, <2>4
<1>7. NPROC \in 0..NPROC
  BY <1>0
<1>8. Adds(f, h) /\ InUse = f[NPROC]
  BY Zenon, <1>2, <1>5, <1>6, <1>7
<1> QED BY Zenon, <1>8 DEF h, InUseAdds

-----------------------------------------------------------------------------
(* The calls                                                               *)

\* A call changes slot q to new, moves pages between it and the free list, and
\* if it fails changes nothing that shows.
Step(q, new) ==
  /\ proc' = [proc EXCEPT ![q] = new] /\ Sound(new)
  /\ free' \in Nat /\ lost' \in Nat /\ vpanic' = FALSE
  /\ free' + lost' + Use(new) = free + lost + Use(proc[q])
  /\ ret' = "fail" => new.state = "FAULTING" \/ Restored(proc[q], new)

\* The slots after such a step.
LEMMA StepSlots ==
  ASSUME VmType, NEW q \in Slot, NEW new, Step(q, new)
  PROVE  /\ proc'[q] = new
         /\ \A p \in Slot \ {q} : proc'[p] = proc[p]
         /\ VmType'
<1>1. proc' = [proc EXCEPT ![q] = new] /\ proc = [p \in Slot |-> proc[p]]
  BY Zenon DEF Step, VmType
<1>2. /\ proc'[q] = new /\ proc' = [p \in Slot |-> proc'[p]]
      /\ \A p \in Slot \ {q} : proc'[p] = proc[p]
  BY Zenon, <1>1
<1>3. \A p \in Slot : Sound(proc'[p])
  BY Zenon, <1>2 DEF Step, VmType
<1> QED BY Zenon, <1>2, <1>3 DEF Step, VmType

\* Such a step keeps the invariant.
LEMMA StepKeeps ==
  ASSUME VmInv, NEW q \in Slot, NEW new, Step(q, new)
  PROVE  VmInv'
<1>1. VmType /\ PagesConserved
  BY Zenon DEF VmInv
<1>2. /\ proc'[q] = new /\ VmType'
      /\ \A p \in Slot \ {q} : proc'[p] = proc[p]
  BY Zenon, <1>1, StepSlots
<1> DEFINE h == [p \in Slot |-> Use(proc[p])]
           i == [p \in Slot |-> Use(proc'[p])]
<1>3. PICK f : Adds(f, h) /\ InUse = f[NPROC]
  BY Zenon, <1>1, InUseIs DEF InUseAdds
<1>4. PICK g : Adds(g, i) /\ InUse' = g[NPROC]
  <2>1. (VmType => InUseAdds)'
    BY InUseIs, PTL
  <2> QED BY Zenon, <1>2, <2>1 DEF InUseAdds
<1>5. \A p \in Slot : h[p] \in Nat /\ i[p] \in Nat
  <2>1. \A p \in Slot : Sound(proc[p]) /\ Sound(proc'[p])
    BY Zenon, <1>1, <1>2 DEF VmType
  <2> QED BY Zenon, <2>1, ProcessIs
<1>6. \A p \in Slot \ {q} : i[p] = h[p]
  BY Zenon, <1>2
<1>7. h[q] = Use(proc[q]) /\ i[q] = Use(new)
  BY Zenon, <1>2
<1> HIDE DEF h, i
<1>8. g[NPROC] + h[q] = f[NPROC] + i[q]
  <2>1. Moved(f, g, h, i, q)
    BY Zenon, <1>3, <1>4, <1>5, <1>6, AddsDiff
  <2> QED BY Zenon, <2>1 DEF Moved
<1>10. f[NPROC] \in Nat /\ g[NPROC] \in Nat
  <2>1. NPROC \in 0..NPROC
    BY VmAssumption
  <2> QED BY Zenon, <1>3, <1>4, <2>1 DEF Adds
<1>9. free' + lost' + InUse' = NPAGES
  <2>1. free \in Nat /\ lost \in Nat /\ h[q] \in Nat /\ i[q] \in Nat
    BY Zenon, <1>1, <1>5 DEF VmType
  <2>2. free + lost + InUse = NPAGES
    BY Zenon, <1>1 DEF PagesConserved
  <2>3. free' \in Nat /\ lost' \in Nat /\ free' + lost' + i[q] = free + lost + h[q]
    BY Zenon, <1>7 DEF Step
  <2> QED BY <1>3, <1>4, <1>8, <1>10, <2>1, <2>2, <2>3
<1> QED BY Zenon, <1>2, <1>9 DEF VmInv, PagesConserved

\* A step that fails restores every process.
LEMMA StepRestores ==
  ASSUME VmInv, NEW q \in Slot, NEW new, Step(q, new), ret' = "fail", NEW p \in Slot
  PROVE  proc'[p].state = "FAULTING" \/ Restored(proc[p], proc'[p])
<1>1. /\ proc'[q] = new
      /\ \A x \in Slot \ {q} : proc'[x] = proc[x]
  BY Zenon, StepSlots DEF VmInv
<1>2. CASE p = q
  BY Zenon, <1>1, <1>2 DEF Step
<1>3. CASE p # q
  <2>1. proc'[p] = proc[p]
    BY Zenon, <1>1, <1>3
  <2> QED BY Zenon, <2>1 DEF Restored
<1> QED BY Zenon, <1>2, <1>3

\* A call that changes no process.
LEMMA StepNothing ==
  ASSUME VmInv, UNCHANGED proc, NEW q \in Slot,
         free' \in Nat, lost' \in Nat, vpanic' = FALSE, free' + lost' = free + lost
  PROVE  Step(q, proc[q])
<1>1. proc = [p \in Slot |-> proc[p]] /\ Sound(proc[q]) /\ free \in Nat /\ lost \in Nat
  BY Zenon DEF VmInv, VmType
<1>2. proc' = [proc EXCEPT ![q] = proc[q]]
  BY Zenon, <1>1
<1>3. Use(proc[q]) \in Nat
  BY Zenon, <1>1, ProcessIs
<1>4. free' + lost' + Use(proc[q]) = free + lost + Use(proc[q])
  BY Zenon, <1>1, <1>3
<1>5. Restored(proc[q], proc[q])
  BY Zenon DEF Restored
<1> QED BY Zenon, <1>1, <1>2, <1>4, <1>5 DEF Step

\* What a call begins with.
LEMMA WithIs ==
  ASSUME VmInv, NEW sp \in Space
  PROVE  /\ With(sp) \in Mem /\ With(sp).free = free /\ With(sp).lost = lost
         /\ With(sp).sp = sp /\ With(sp).ok = TRUE /\ With(sp).panic = FALSE
         /\ Sum(With(sp)) = free + lost + Cost(sp)
<1>1. free \in Nat /\ lost \in Nat
  BY Zenon DEF VmInv, VmType
<1>2. /\ With(sp) \in Mem /\ With(sp).free = free /\ With(sp).lost = lost
      /\ With(sp).sp = sp /\ With(sp).ok = TRUE /\ With(sp).panic = FALSE
  BY <1>1 DEF With, State, Mem
<1> QED BY Zenon, <1>2 DEF Sum

\* What a call ends with.
LEMMA EndsIs ==
  ASSUME VmInv, NEW m \in Mem, NEW result, Ends(m, result), ~m.panic
  PROVE  free' \in Nat /\ lost' \in Nat /\ vpanic' = FALSE /\ free' = m.free /\ lost' = m.lost
         /\ ret' = result
<1>1. free' = m.free /\ lost' = m.lost /\ vpanic' = (vpanic \/ m.panic) /\ ret' = result
  BY Zenon DEF Ends
<1>2. m.free \in Nat /\ m.lost \in Nat /\ vpanic = FALSE
  BY Zenon, MemIs DEF VmInv, VmType
<1> QED BY Zenon, <1>1, <1>2

\* A slot that is free.
LEMMA FreedIs ==
  ASSUME NEW n \in Nat
  PROVE  /\ Sound(Freed(n)) /\ Use(Freed(n)) = n /\ Freed(n).state = "UNUSED"
         /\ Freed(n).kstack = 0 /\ Freed(n).sz = 0 /\ Freed(n).space = NoSpace
         /\ Freed(n).mmt = n
<1>1. NoSpace \in Space /\ Cost(NoSpace) = 0
  BY Zenon, EmptySpaces
<1>2. /\ Freed(n).state = "UNUSED" /\ Freed(n).kstack = 0 /\ Freed(n).sz = 0
      /\ Freed(n).space = NoSpace /\ Freed(n).mmt = n
  BY Zenon DEF Freed
<1>3. Freed(n) \in Process
  BY Zenon, <1>1 DEF Freed, Process
<1>4. Sound(Freed(n))
  BY Zenon, <1>2, <1>3 DEF Sound
<1>5. Use(Freed(n)) = n
  BY <1>1, <1>2 DEF Use
<1> QED BY Zenon, <1>2, <1>4, <1>5

\* A process of the same size and space, in another state.
LEMMA ExitSteps ==
  ASSUME VmInv, NEW p \in Slot, Exit(p)
  PROVE  \E q \in Slot : \E new : Step(q, new)
<1> DEFINE new == [proc[p] EXCEPT !.state = "ZOMBIE"]
<1>1. /\ free \in Nat /\ lost \in Nat /\ vpanic = FALSE /\ Sound(proc[p])
      /\ free' = free /\ lost' = lost /\ vpanic' = vpanic /\ ret' = "ok"
      /\ proc' = [proc EXCEPT ![p] = new]
  BY Zenon DEF VmInv, VmType, Exit
<1>2. proc[p] \in Process
  BY Zenon, <1>1 DEF Sound
<1>3. new \in Process /\ new.state = "ZOMBIE" /\ new.kstack = proc[p].kstack
      /\ new.mmt = proc[p].mmt /\ new.space = proc[p].space
  BY Zenon, <1>2 DEF Process
<1> HIDE DEF new
<1>4. Sound(new)
  BY Zenon, <1>3 DEF Sound
<1>5. Use(new) = Use(proc[p])
  BY Zenon, <1>3 DEF Use
<1>6. "ok" # "fail"
  BY Zenon
<1>7. Step(p, new)
  BY Zenon, <1>1, <1>4, <1>5, <1>6 DEF Step
<1> QED BY Zenon, <1>7

\* wait() frees all that the process had but its table of memory maps.
LEMMA WaitSteps ==
  ASSUME VmInv, NEW q \in Slot, Wait(q)
  PROVE  \E x \in Slot : \E new : Step(x, new)
<1> DEFINE sp == proc[q].space
           m == Freevm(With(sp))
           k == Kfree(m, proc[q].kstack)
           new == Freed(proc[q].mmt)
<1>1. /\ Sound(proc[q]) /\ free \in Nat /\ lost \in Nat
      /\ proc' = [proc EXCEPT ![q] = new] /\ Ends(k, "ok")
  BY Zenon DEF VmInv, VmType, Wait
<1>2. proc[q].kstack \in Nat /\ proc[q].mmt \in Nat /\ sp \in Space /\ Cost(sp) \in Nat
  BY Zenon, <1>1, ProcessIs
<1>3. With(sp) \in Mem /\ With(sp).sp = sp /\ With(sp).free = free /\ With(sp).lost = lost
      /\ With(sp).panic = FALSE
  BY Zenon, <1>2, WithIs
<1>4. m \in Mem /\ m.free = free + Cost(sp) /\ m.lost = lost /\ ~m.panic
  BY Zenon, <1>3, FreevmIs
<1> HIDE DEF m, sp
<1>5. m.free + proc[q].kstack >= 0 /\ proc[q].kstack \in Int
  BY <1>1, <1>2, <1>4
<1>6. k \in Mem /\ k.free = m.free + proc[q].kstack /\ k.lost = m.lost /\ k.panic = m.panic
  BY Zenon, <1>4, <1>5, KfreeIs
<1> HIDE DEF k
<1>7. /\ free' \in Nat /\ lost' \in Nat /\ vpanic' = FALSE /\ ret' = "ok"
      /\ free' = free + Cost(sp) + proc[q].kstack /\ lost' = lost
  BY Zenon, <1>1, <1>4, <1>6, EndsIs
<1>8. Sound(new) /\ Use(new) = proc[q].mmt
  BY Zenon, <1>2, FreedIs
<1>9. free' + lost' + Use(new) = free + lost + Use(proc[q])
  BY <1>1, <1>2, <1>7, <1>8 DEF Use, sp
<1>10. "ok" # "fail"
  OBVIOUS
<1>11. Step(q, new)
  BY Zenon, <1>1, <1>7, <1>8, <1>9, <1>10 DEF Step
<1> QED BY Zenon, <1>11

\* r is process p with another state, size and address space.
IsResized(r, p, state, sz, sp) ==
  /\ Sound(r) /\ Use(r) = proc[p].kstack + proc[p].mmt + Cost(sp)
  /\ r.state = state /\ r.kstack = proc[p].kstack /\ r.sz = sz /\ r.space = sp

\* The record that a call puts in its slot.
LEMMA ResizedIs ==
  ASSUME NEW p, NEW state \in {"RUNNING", "FAULTING"}, NEW sz \in Nat, NEW sp \in Space,
         Sound(proc[p]),
         state = "RUNNING" => sz < KERNBASE /\ sp.pte = Below(Up(sz))
  PROVE  IsResized(Resized(p, state, sz, sp), p, state, sz, sp)
<1> DEFINE r == Resized(p, state, sz, sp)
<1>1. proc[p].kstack \in Nat /\ proc[p].mmt \in Nat
  BY Zenon, ProcessIs
<1>2. /\ r \in Process /\ r.state = state /\ r.kstack = proc[p].kstack /\ r.sz = sz
      /\ r.space = sp /\ r.mmt = proc[p].mmt
  BY Zenon, <1>1 DEF Resized, Process
<1> HIDE DEF r
<1>3. r.state # "UNUSED"
  BY Zenon, <1>2
<1>4. Sound(r)
  BY Zenon, <1>2, <1>3 DEF Sound
<1>5. Use(r) = proc[p].kstack + proc[p].mmt + Cost(sp)
  BY Zenon, <1>2 DEF Use
<1> QED BY Zenon, <1>2, <1>4, <1>5 DEF r, IsResized

\* A call that ends with m, and puts m's address space in its slot.
LEMMA ResizedSteps ==
  ASSUME VmInv, NEW p \in Slot, NEW m \in Mem, NEW state \in {"RUNNING", "FAULTING"},
         NEW sz \in Nat, NEW result,
         state = "RUNNING" => sz < KERNBASE /\ m.sp.pte = Below(Up(sz)),
         Ends(m, result), ~m.panic, Sum(m) = free + lost + Cost(proc[p].space),
         proc' = [proc EXCEPT ![p] = Resized(p, state, sz, m.sp)],
         result = "fail" => state = "FAULTING" \/ Restored(proc[p], Resized(p, state, sz, m.sp))
  PROVE  \E q \in Slot : \E new : Step(q, new)
<1> DEFINE r == Resized(p, state, sz, m.sp)
<1>1. Sound(proc[p]) /\ free \in Nat /\ lost \in Nat
  BY Zenon DEF VmInv, VmType
<1>2. m.sp \in Space /\ Cost(m.sp) \in Nat
  BY Zenon, MemIs
<1>3. /\ Sound(r) /\ Use(r) = proc[p].kstack + proc[p].mmt + Cost(m.sp) /\ r.state = state
  <2>1. IsResized(r, p, state, sz, m.sp)
    BY Zenon, <1>1, <1>2, ResizedIs
  <2> HIDE DEF r
  <2> QED BY Zenon, <2>1 DEF IsResized
<1>4. /\ free' \in Nat /\ lost' \in Nat /\ vpanic' = FALSE
      /\ free' = m.free /\ lost' = m.lost /\ ret' = result
  BY Zenon, EndsIs
<1>5. proc[p].kstack \in Nat /\ proc[p].mmt \in Nat /\ Cost(proc[p].space) \in Nat
  BY Zenon, <1>1, ProcessIs
<1> HIDE DEF r
<1>6. m.free + m.lost + Cost(m.sp) = free + lost + Cost(proc[p].space)
  BY Zenon DEF Sum
<1>7. Use(proc[p]) = proc[p].kstack + proc[p].mmt + Cost(proc[p].space)
  BY Zenon DEF Use
<1>8. free' + lost' + Use(r) = free + lost + Use(proc[p])
  BY <1>1, <1>2, <1>3, <1>4, <1>5, <1>6, <1>7
<1>9. Step(p, r)
  BY Zenon, <1>3, <1>4, <1>8 DEF Step, r
<1> QED BY Zenon, <1>9

\* deallocuvm() of the pages of a process.
LEMMA ShrunkPages ==
  ASSUME NEW m \in Mem, NEW d, NEW oldsz \in Nat, NEW newsz \in Nat,
         m.sp.pte = Below(Up(oldsz)), Shrunk(m, d, oldsz, newsz)
  PROVE  d.r \in Nat /\ d.r <= oldsz /\ d.sp.pte = Below(Up(d.r))
<1>1. /\ d.r = (IF newsz >= oldsz THEN oldsz ELSE newsz)
      /\ d.sp.pte = Outside(Below(Up(oldsz)), Up(newsz), Up(oldsz))
  BY Zenon DEF Shrunk
<1>2. Up(oldsz) \in Nat /\ Up(newsz) \in Nat
  BY Zenon, UpIs
<1>3. CASE newsz >= oldsz
  <2>1. Up(oldsz) <= Up(newsz)
    BY Zenon, <1>3, UpMono
  <2>2. \A va \in Va : va < Up(oldsz) => va < Up(newsz)
    BY <1>2, <2>1, Sizes DEF Va
  <2>3. Outside(Below(Up(oldsz)), Up(newsz), Up(oldsz)) = Below(Up(oldsz))
    BY Zenon, <2>2 DEF Outside, Below
  <2>4. d.r = oldsz /\ oldsz <= oldsz
    BY <1>1, <1>3
  <2> QED BY Zenon, <1>1, <2>3, <2>4
<1>4. CASE ~(newsz >= oldsz)
  <2>1. newsz <= oldsz
    BY <1>4
  <2>2. Up(newsz) <= Up(oldsz) /\ Up(oldsz) <= Up(oldsz)
    BY <1>2, <2>1, UpMono
  <2>3. Outside(Below(Up(oldsz)), Up(newsz), Up(oldsz)) = Below(Up(newsz))
    BY Zenon, <1>2, <2>2, BelowBack
  <2>4. d.r = newsz
    BY Zenon, <1>1, <1>4
  <2> QED BY Zenon, <1>1, <2>1, <2>3, <2>4
<1> QED BY Zenon, <1>3, <1>4

\* sbrk(), whatever it is asked for.
LEMMA GrowSteps ==
  ASSUME VmInv, NEW p \in Slot, NEW n \in Int, Growproc(p, n)
  PROVE  \E q \in Slot : \E new : Step(q, new)
<1> DEFINE sz == proc[p].sz
           sp == proc[p].space
           m == With(sp)
           low == IF sz + n < 0 THEN KERNBASE ELSE sz + n
           g == IF n > 0 THEN Allocuvm(m, sz, sz + n) ELSE Deallocuvm(m, sz, low)
<1>1. /\ Running(p) /\ n # 0
      /\ IF g.ok /\ g.r # 0
          THEN /\ proc' = [proc EXCEPT ![p] = Resized(p, "RUNNING", g.r, g.sp)]
               /\ Ends(g, "ok")
          ELSE /\ proc' = [proc EXCEPT ![p] =
                              Resized(p, IF g.ok THEN "FAULTING" ELSE "RUNNING", sz, g.sp)]
               /\ Ends(g, "fail")
  BY Zenon DEF Growproc
<1>2. Sound(proc[p])
  BY Zenon DEF VmInv, VmType
<1>3. sz \in Nat /\ sp \in Space /\ sz < KERNBASE /\ sp.pte = Below(Up(sz))
  BY Zenon, <1>1, <1>2, ProcessIs DEF Sound, Running
<1>4. /\ m \in Mem /\ m.sp = sp /\ m.ok = TRUE /\ m.panic = FALSE
      /\ Sum(m) = free + lost + Cost(sp)
  BY Zenon, <1>3, WithIs
<1>5. low \in Nat /\ (n > 0 => sz + n \in Nat)
  BY <1>3, Sizes
<1> HIDE DEF m, low
<1>6. /\ g \in Mem /\ Like(m, g) /\ Sum(g) = Sum(m)
      /\ g.ok => g.r \in Nat /\ g.r < KERNBASE /\ g.sp.pte = Below(Up(g.r))
      /\ ~g.ok => g.sp.pte = sp.pte
  <2>1. CASE n > 0
    <3>1. g = Allocuvm(m, sz, sz + n)
      BY Zenon, <2>1
    <3>2. Alloced(m, g, sz, sz + n)
      BY Zenon, <1>3, <1>4, <1>5, <2>1, <3>1, AllocIs
    <3>3. sz + n \in Nat
      BY Zenon, <1>5, <2>1
    <3> HIDE DEF g
    <3> QED BY Zenon, <1>3, <1>4, <3>2, <3>3 DEF Alloced
  <2>2. CASE ~(n > 0)
    <3>1. g = Deallocuvm(m, sz, low)
      BY Zenon, <2>2
    <3>2. Shrunk(m, g, sz, low)
      BY Zenon, <1>3, <1>4, <1>5, <3>1, DeallocIs
    <3> HIDE DEF g
    <3>3. g.r \in Nat /\ g.r <= sz /\ g.sp.pte = Below(Up(g.r))
      BY Zenon, <1>3, <1>4, <1>5, <3>2, ShrunkPages
    <3>4. g.r < KERNBASE
      BY <1>3, <3>3, Sizes
    <3> QED BY Zenon, <1>4, <3>2, <3>3, <3>4 DEF Shrunk
  <2> QED BY Zenon, <2>1, <2>2
<1> HIDE DEF g
<1>7. ~g.panic /\ Sum(g) = free + lost + Cost(sp) /\ g.sp \in Space
  BY Zenon, <1>4, <1>6, MemIs DEF Like
<1>8. "ok" # "fail" /\ "RUNNING" \in {"RUNNING", "FAULTING"} /\ "FAULTING" \in {"RUNNING", "FAULTING"}
      /\ "FAULTING" # "RUNNING"
  BY Zenon
<1>9. CASE g.ok /\ g.r # 0
  BY Zenon, <1>1, <1>6, <1>7, <1>8, <1>9, ResizedSteps
<1>10. CASE g.ok /\ g.r = 0
  BY Zenon, <1>1, <1>3, <1>6, <1>7, <1>8, <1>10, ResizedSteps
<1>11. CASE ~g.ok
  <2>1. g.sp.pte = Below(Up(sz))
    BY Zenon, <1>3, <1>6, <1>11
  <2> DEFINE r == Resized(p, "RUNNING", sz, g.sp)
  <2>2. r.state = "RUNNING" /\ r.kstack = proc[p].kstack /\ r.sz = sz /\ r.space = g.sp
    <3>1. IsResized(r, p, "RUNNING", sz, g.sp)
      BY Zenon, <1>2, <1>3, <1>7, <1>8, <2>1, ResizedIs
    <3> HIDE DEF r
    <3> QED BY Zenon, <3>1 DEF IsResized
  <2> HIDE DEF r
  <2>3. Restored(proc[p], r)
    BY Zenon, <1>1, <1>4, <1>6, <1>11, <2>2 DEF Restored, Like, Running
  <2> QED BY Zenon, <1>1, <1>3, <1>6, <1>7, <1>8, <1>11, <2>1, <2>3, ResizedSteps DEF r
<1> QED BY Zenon, <1>9, <1>10, <1>11

\* fork(), with and without pages enough.
LEMMA ForkSteps ==
  ASSUME VmInv, NEW p \in Slot, Fork(p)
  PROVE  \E q \in Slot : \E new : Step(q, new)
<1> DEFINE l(q) == [With(NoSpace) EXCEPT !.lost = @ + proc[q].mmt]
           start(q) == Kalloc(l(q))
           table(q) == Kalloc(start(q))
           copy(q) == Copyuvm(table(q), proc[p].space, proc[p].sz)
           child(q) == [state |-> "RUNNING", kstack |-> start(q).r, mmt |-> table(q).r,
                        sz |-> proc[p].sz, space |-> copy(q).sp]
<1>1. PICK q \in Slot :
        /\ Running(p) /\ proc[q].state = "UNUSED"
        /\ IF start(q).r = 0 THEN Ends(With(NoSpace), "fail") /\ UNCHANGED proc
           ELSE IF ~copy(q).ok
             THEN /\ proc' = [proc EXCEPT ![q] = Freed(table(q).r)]
                  /\ Ends(Kfree(copy(q), 1), "fail")
             ELSE proc' = [proc EXCEPT ![q] = child(q)] /\ Ends(copy(q), "ok")
  BY Zenon DEF Fork
<1> DEFINE w == With(NoSpace)
           d == l(q)
           st == Kalloc(d)
           mt == Kalloc(st)
           c == Copyuvm(mt, proc[p].space, proc[p].sz)
           b == Kfree(c, 1)
           new == [state |-> "RUNNING", kstack |-> st.r, mmt |-> mt.r,
                   sz |-> proc[p].sz, space |-> c.sp]
           old == proc[q]
<1>2. /\ Running(p) /\ old.state = "UNUSED"
      /\ st.r = 0 => Ends(w, "fail") /\ UNCHANGED proc
      /\ st.r # 0 /\ ~c.ok => proc' = [proc EXCEPT ![q] = Freed(mt.r)] /\ Ends(b, "fail")
      /\ st.r # 0 /\ c.ok => proc' = [proc EXCEPT ![q] = new] /\ Ends(c, "ok")
  BY Zenon, <1>1
<1>3. /\ Sound(proc[p]) /\ Sound(old) /\ free \in Nat /\ lost \in Nat
  BY Zenon DEF VmInv, VmType
<1>4. /\ proc[p].sz \in Nat /\ proc[p].sz < KERNBASE
      /\ proc[p].space.pte = Below(Up(proc[p].sz))
  BY Zenon, <1>2, <1>3, ProcessIs DEF Sound, Running
<1>5. old.mmt \in Nat /\ old = Freed(old.mmt)
  BY Zenon, <1>2, <1>3, ProcessIs DEF Sound
<1>6. NoSpace \in Space /\ Cost(NoSpace) = 0
  BY Zenon, EmptySpaces
<1>7. /\ w \in Mem /\ w.free = free /\ w.lost = lost /\ w.sp = NoSpace /\ w.ok = TRUE
      /\ w.panic = FALSE
  BY Zenon, <1>6, WithIs
<1> HIDE DEF w
<1>8. /\ d \in Mem /\ d.free = free /\ d.lost = lost + old.mmt /\ d.sp = NoSpace /\ d.ok = TRUE
      /\ d.panic = FALSE
  <2>1. d = [w EXCEPT !.lost = @ + old.mmt]
    BY Zenon DEF w
  <2> HIDE DEF old, d
  <2> QED BY <1>3, <1>5, <1>7, <2>1 DEF Mem
<1> HIDE DEF d
<1>9. /\ st \in Mem /\ st.sp = NoSpace /\ st.lost = lost + old.mmt /\ st.ok = TRUE
      /\ st.panic = FALSE
      /\ \/ st.r = 0 /\ st.free = free
         \/ st.r = 1 /\ st.free = free - 1
  BY Zenon, <1>8, KallocIs
<1> HIDE DEF st
<1>10. /\ mt \in Mem /\ mt.sp = NoSpace /\ mt.lost = lost + old.mmt /\ mt.ok = TRUE
       /\ mt.panic = FALSE
       /\ \/ mt.r = 0 /\ mt.free = st.free
          \/ mt.r = 1 /\ mt.free = st.free - 1
  BY Zenon, <1>9, KallocIs
<1> HIDE DEF mt
<1>11. /\ c \in Mem /\ ~c.panic /\ Sum(c) = Sum(mt)
       /\ c.ok => c.sp.pte = Below(Up(proc[p].sz))
       /\ ~c.ok => c.sp = NoSpace
  BY Zenon, <1>4, <1>10, CopyIs
<1> HIDE DEF c
<1>12. mt.r \in Nat /\ st.r \in Nat
  BY <1>9, <1>10
<1>13. c.free \in Nat /\ c.lost \in Nat /\ c.sp \in Space /\ Cost(c.sp) \in Nat
  BY Zenon, <1>11, MemIs
<1>14. st.r # 0 => c.free + c.lost + Cost(c.sp) = (free - 1 - mt.r) + lost + old.mmt
  BY <1>3, <1>5, <1>6, <1>9, <1>10, <1>11, <1>13 DEF Sum
<1>15. Use(old) = old.mmt
  BY Zenon, <1>5, FreedIs
<1>16. CASE st.r = 0
  <2>1. free' \in Nat /\ lost' \in Nat /\ vpanic' = FALSE /\ free' = free /\ lost' = lost
    BY Zenon, <1>2, <1>7, <1>16, EndsIs
  <2>2. Step(q, proc[q])
    BY Zenon, <1>2, <1>16, <2>1, StepNothing
  <2> QED BY Zenon, <2>2
<1>17. CASE st.r # 0 /\ ~c.ok
  <2>1. c.free + 1 >= 0 /\ 1 \in Int
    BY <1>13
  <2>2. b \in Mem /\ b.free = c.free + 1 /\ b.lost = c.lost /\ b.panic = c.panic
    BY Zenon, <1>11, <2>1, KfreeIs
  <2> HIDE DEF b
  <2>3. /\ free' \in Nat /\ lost' \in Nat /\ vpanic' = FALSE
        /\ free' = c.free + 1 /\ lost' = c.lost
    BY Zenon, <1>2, <1>11, <1>17, <2>2, EndsIs
  <2> DEFINE x == Freed(mt.r)
  <2>4. Sound(x) /\ Use(x) = mt.r /\ x.state = "UNUSED" /\ x.kstack = 0 /\ x.sz = 0 /\ x.space = NoSpace
    BY Zenon, <1>12, FreedIs
  <2>5. old.state = "UNUSED" /\ old.kstack = 0 /\ old.sz = 0 /\ old.space = NoSpace
    <3> DEFINE n == old.mmt
    <3>1. n \in Nat /\ old = Freed(n)
      BY Zenon, <1>5
    <3> HIDE DEF n, old
    <3>2. /\ Freed(n).state = "UNUSED" /\ Freed(n).kstack = 0 /\ Freed(n).sz = 0
          /\ Freed(n).space = NoSpace
      BY Zenon, <3>1, FreedIs
    <3> QED BY Zenon, <3>1, <3>2
  <2> HIDE DEF x
  <2>6. free' + lost' + Use(x) = free + lost + Use(old)
    BY <1>3, <1>5, <1>6, <1>11, <1>12, <1>13, <1>14, <1>15, <1>17, <2>3, <2>4
  <2>7. Restored(old, x)
    BY Zenon, <2>4, <2>5 DEF Restored
  <2>8. proc' = [proc EXCEPT ![q] = x]
    BY Zenon, <1>2, <1>17 DEF x
  <2>9. Step(q, x)
    BY Zenon, <2>3, <2>4, <2>6, <2>7, <2>8 DEF Step
  <2> QED BY Zenon, <2>9
<1>18. CASE st.r # 0 /\ c.ok
  <2>1. /\ free' \in Nat /\ lost' \in Nat /\ vpanic' = FALSE /\ ret' = "ok"
        /\ free' = c.free /\ lost' = c.lost
    BY Zenon, <1>2, <1>11, <1>18, EndsIs
  <2>2. /\ new \in Process /\ new.state = "RUNNING" /\ new.sz = proc[p].sz /\ new.space = c.sp
        /\ new.kstack = st.r /\ new.mmt = mt.r
    BY Zenon, <1>4, <1>12, <1>13 DEF Process
  <2>3. proc' = [proc EXCEPT ![q] = new]
    BY Zenon, <1>2, <1>18
  <2> HIDE DEF new
  <2>4. Sound(new)
    <3>1. new.state # "UNUSED"
      BY Zenon, <2>2
    <3> QED BY Zenon, <1>4, <1>11, <1>18, <2>2, <3>1 DEF Sound
  <2>5. st.r = 1
    BY Zenon, <1>9, <1>18
  <2>6. free' + lost' + Use(new) = free + lost + Use(old)
    <3>1. Use(new) = st.r + mt.r + Cost(c.sp)
      BY Zenon, <2>2 DEF Use
    <3> HIDE DEF old
    <3> QED BY <1>3, <1>5, <1>12, <1>13, <1>14, <1>15, <2>1, <2>5, <3>1
  <2>7. "ok" # "fail"
    BY Zenon
  <2>8. Step(q, new)
    BY Zenon, <2>1, <2>3, <2>4, <2>6, <2>7 DEF Step
  <2> QED BY Zenon, <2>8
<1> QED BY Zenon, <1>16, <1>17, <1>18

\* A call that throws away the address space it has built.
LEMMA GivesUp ==
  ASSUME VmInv, NEW p \in Slot, NEW m \in Mem, Ends(Freevm(m), "fail"), UNCHANGED proc,
         ~m.panic, Sum(m) = free + lost
  PROVE  \E q \in Slot : \E new : Step(q, new)
<1> DEFINE f == Freevm(m)
<1>1. f \in Mem /\ f.free = m.free + Cost(m.sp) /\ f.lost = m.lost /\ f.panic = m.panic
  BY Zenon, FreevmIs
<1> HIDE DEF f
<1>2. free' \in Nat /\ lost' \in Nat /\ vpanic' = FALSE /\ free' = f.free /\ lost' = f.lost
  BY Zenon, <1>1, EndsIs DEF f
<1>3. m.free \in Nat /\ m.lost \in Nat /\ Cost(m.sp) \in Nat /\ free \in Nat /\ lost \in Nat
  BY Zenon, MemIs DEF VmInv, VmType
<1>4. free' + lost' = free + lost
  BY <1>1, <1>2, <1>3 DEF Sum
<1>5. Step(p, proc[p])
  BY Zenon, <1>2, <1>4, StepNothing
<1> QED BY Zenon, <1>5

\* exec(), through each of its errors and to its end.
LEMMA ExecSteps ==
  ASSUME VmInv, NEW p \in Slot, NEW prog \in Program, Exec(p, prog)
  PROVE  \E q \in Slot : \E x : Step(q, x)
<1> DEFINE w == With(NoSpace)
           new == ExecImage(w, prog)
           on == Onto(new, proc[p].space)
           old == Freevm(on)
           r == Resized(p, "RUNNING", new.r, new.sp)
<1>1. /\ new.ok => proc' = [proc EXCEPT ![p] = r] /\ Ends(old, "ok")
      /\ ~new.ok => Ends(IF new.sp.pgdir = 0 THEN new ELSE Freevm(new), "fail") /\ UNCHANGED proc
  BY Zenon DEF Exec
<1>2. Sound(proc[p]) /\ free \in Nat /\ lost \in Nat
  BY Zenon DEF VmInv, VmType
<1>3. prog.segs \in Seq(Segment)
  BY VmAssumption DEF Segment
<1>4. NoSpace \in Space /\ Cost(NoSpace) = 0
  BY Zenon, EmptySpaces
<1>5. /\ w \in Mem /\ w.sp = NoSpace /\ w.ok = TRUE /\ w.panic = FALSE
      /\ Sum(w) = free + lost + Cost(NoSpace)
  BY Zenon, <1>4, WithIs
<1> HIDE DEF w
<1>6. Loaded(w, new) /\ (~new.ok /\ new.sp.pgdir = 0 => new.sp = NoSpace)
  BY Zenon, <1>3, <1>5, ImageIs
<1> HIDE DEF new
<1>7. new \in Mem /\ ~new.panic
  BY Zenon, <1>5, <1>6 DEF Loaded
<1>8. /\ new.sp \in Space /\ new.free \in Nat /\ new.lost \in Nat
      /\ Cost(new.sp) \in Nat
  BY Zenon, <1>7, MemIs
<1>9. Sum(new) = free + lost
  <2>1. Sum(new) = free + lost + Cost(NoSpace)
    BY Zenon, <1>5, <1>6 DEF Loaded
  <2> QED BY <1>2, <1>4, <2>1
<1>10. CASE ~new.ok /\ new.sp.pgdir # 0
  <2>1. Ends(Freevm(new), "fail") /\ UNCHANGED proc
    BY Zenon, <1>1, <1>10
  <2> QED BY Zenon, <1>7, <1>9, <2>1, GivesUp
<1>11. CASE ~new.ok /\ new.sp.pgdir = 0
  <2>1. Ends(new, "fail") /\ UNCHANGED proc /\ new.sp = NoSpace
    BY Zenon, <1>1, <1>6, <1>11
  <2>2. /\ free' \in Nat /\ lost' \in Nat /\ vpanic' = FALSE
        /\ free' = new.free /\ lost' = new.lost
    BY Zenon, <1>7, <2>1, EndsIs
  <2>3. new.free + new.lost + Cost(new.sp) = free + lost
    BY Zenon, <1>9 DEF Sum
  <2>4. Cost(new.sp) = 0
    BY Zenon, <1>4, <2>1
  <2>5. free' + lost' = free + lost
    BY <1>2, <1>8, <2>2, <2>3, <2>4
  <2>6. Step(p, proc[p])
    BY Zenon, <2>1, <2>2, <2>5, StepNothing
  <2> QED BY Zenon, <2>6
<1>12. CASE new.ok
  <2>1. /\ proc[p].space \in Space /\ Cost(proc[p].space) \in Nat
        /\ proc[p].kstack \in Nat /\ proc[p].mmt \in Nat
    BY Zenon, <1>2, ProcessIs
  <2>2. /\ on \in Mem /\ on.free = new.free /\ on.lost = new.lost
        /\ on.sp = proc[p].space /\ on.panic = new.panic
    BY Zenon, <1>7, <2>1, OntoIs
  <2> HIDE DEF on
  <2>3. old \in Mem /\ old.free = on.free + Cost(on.sp) /\ old.lost = on.lost
        /\ old.panic = on.panic
    BY Zenon, <2>2, FreevmIs
  <2> HIDE DEF old
  <2>4. /\ free' \in Nat /\ lost' \in Nat /\ vpanic' = FALSE /\ ret' = "ok"
        /\ free' = new.free + Cost(proc[p].space) /\ lost' = new.lost
    BY Zenon, <1>1, <1>7, <1>12, <2>2, <2>3, EndsIs
  <2>5. Sound(r) /\ Use(r) = proc[p].kstack + proc[p].mmt + Cost(new.sp)
    <3>1. "RUNNING" \in {"RUNNING", "FAULTING"}
      OBVIOUS
    <3>2. new.r \in Nat /\ new.r < KERNBASE /\ new.sp.pte = Below(Up(new.r))
      BY Zenon, <1>6, <1>12 DEF Loaded
    <3>3. IsResized(r, p, "RUNNING", new.r, new.sp)
      BY Zenon, <1>2, <1>8, <3>1, <3>2, ResizedIs
    <3> HIDE DEF r
    <3> QED BY Zenon, <3>3 DEF IsResized
  <2>6. proc' = [proc EXCEPT ![p] = r]
    BY Zenon, <1>1, <1>12
  <2> HIDE DEF r
  <2>7. new.free + new.lost + Cost(new.sp) = free + lost
    BY Zenon, <1>9 DEF Sum
  <2>8. Use(proc[p]) = proc[p].kstack + proc[p].mmt + Cost(proc[p].space)
    BY Zenon DEF Use
  <2>9. free' + lost' + Use(r) = free + lost + Use(proc[p])
    BY <1>2, <1>8, <2>1, <2>4, <2>5, <2>7, <2>8
  <2>10. "ok" # "fail"
    OBVIOUS
  <2>11. Step(p, r)
    BY Zenon, <2>4, <2>5, <2>6, <2>9, <2>10 DEF Step
  <2> QED BY Zenon, <2>11
<1> QED BY Zenon, <1>10, <1>11, <1>12

\* Every step of the system is such a step.
LEMMA NextSteps ==
  ASSUME VmInv, [VNext]_vvars
  PROVE  \E q \in Slot : \E new : Step(q, new)
<1>1. CASE UNCHANGED vvars
  <2>1. 1 \in Slot
    BY VmAssumption DEF Slot
  <2>2. /\ UNCHANGED proc /\ free' = free /\ lost' = lost /\ vpanic' = vpanic
        /\ free \in Nat /\ lost \in Nat /\ vpanic = FALSE
    BY Zenon, <1>1 DEF vvars, VmInv, VmType
  <2>3. Step(1, proc[1])
    BY Zenon, <2>1, <2>2, StepNothing
  <2> QED BY Zenon, <2>1, <2>3
<1>2. CASE VNext
  <2>1. PICK p \in Slot :
          \/ Fork(p) \/ Exit(p) \/ Wait(p)
          \/ \E n \in Incr \cup {-proc[p].sz} : Growproc(p, n)
          \/ \E prog \in Program : Exec(p, prog)
    BY Zenon, <1>2 DEF VNext
  <2>2. CASE Fork(p)
    BY Zenon, <2>2, ForkSteps
  <2>3. CASE Exit(p)
    BY Zenon, <2>3, ExitSteps
  <2>4. CASE Wait(p)
    BY Zenon, <2>4, WaitSteps
  <2>5. CASE \E n \in Incr \cup {-proc[p].sz} : Growproc(p, n)
    <3>1. PICK n \in Incr \cup {-proc[p].sz} : Growproc(p, n)
      BY Zenon, <2>5
    <3>2. Sound(proc[p])
      BY Zenon DEF VmInv, VmType
    <3>3. proc[p].sz \in Nat
      BY Zenon, <3>2, ProcessIs
    <3>4. n \in Int
      BY <3>3, VmAssumption
    <3> QED BY Zenon, <3>1, <3>4, GrowSteps
  <2>6. CASE \E prog \in Program : Exec(p, prog)
    BY Zenon, <2>6, ExecSteps
  <2> QED BY Zenon, <2>1, <2>2, <2>3, <2>4, <2>5, <2>6
<1> QED BY Zenon, <1>1, <1>2

\* The first process has a page table, a page and its size, and there are pages
\* enough for them.
LEMMA VmStarts ==
  VInit => VmInv
<1> SUFFICES ASSUME VInit PROVE VmInv
  BY Zenon
<1> DEFINE z == State(NPAGES - 2, 0, NoSpace)
           k == Setupkvm(z)
           a == Allocuvm(k, 0, PGSIZE)
           one == [state |-> "RUNNING", kstack |-> 1, mmt |-> 1, sz |-> PGSIZE, space |-> a.sp]
<1>1. /\ free = a.free /\ lost = 0 /\ vpanic = FALSE
      /\ proc = [p \in Slot |-> IF p = 1 THEN one ELSE Freed(0)]
  BY Zenon DEF VInit
<1>2. /\ NoSpace \in Space /\ Cost(NoSpace) = 0 /\ NKPT \in Nat
      /\ Directory(NKPT) \in Space /\ Cost(Directory(NKPT)) = NKPT + 1
      /\ Directory(NKPT).pte = {}
  BY Zenon, EmptySpaces, VmAssumption
<1>3. NPAGES \in Nat /\ NPAGES >= NKPT + 5 /\ NPAGES - 2 \in Nat /\ NPAGES - 2 > NKPT
      /\ 1 \in Slot /\ 0 \in Nat /\ PGSIZE \in Nat /\ PGSIZE < KERNBASE
  BY <1>2, VmAssumption DEF Slot
<1>4. /\ z \in Mem /\ z.free = NPAGES - 2 /\ z.lost = 0 /\ z.sp = NoSpace /\ z.ok = TRUE
      /\ z.panic = FALSE
  BY <1>2, <1>3 DEF State, Mem
<1> HIDE DEF z
<1>5. Sum(z) = NPAGES - 2
  BY <1>2, <1>3, <1>4 DEF Sum
<1>6. /\ k \in Mem /\ k.lost = z.lost /\ k.panic = z.panic /\ Sum(k) = Sum(z)
      /\ k.sp = Directory(NKPT) /\ k.ok
  BY Zenon, <1>3, <1>4, SetupIs
<1> HIDE DEF k
<1>7. k.free >= 2 /\ k.sp.pte = {}
  <2>1. k.free \in Nat
    BY Zenon, <1>6, MemIs
  <2>2. k.free + k.lost + Cost(k.sp) = NPAGES - 2
    BY Zenon, <1>5, <1>6 DEF Sum
  <2>3. k.lost = 0 /\ Cost(k.sp) = NKPT + 1
    BY Zenon, <1>2, <1>4, <1>6
  <2>4. k.free >= 2
    BY <1>2, <1>3, <2>1, <2>2, <2>3
  <2> QED BY Zenon, <1>2, <1>6, <2>4
<1>8. a.ok
  BY Zenon, <1>6, <1>7, AllocFirst
<1>9. Alloced(k, a, 0, PGSIZE)
  <2>1. 0 * PGSIZE = 0
    BY <1>3
  <2>2. Up(0) = 0
    BY Zenon, <1>3, <2>1, UpExact
  <2>3. \A va \in Va : ~(va < 0)
    BY Sizes DEF Va
  <2>4. Below(Up(0)) = {}
    BY Zenon, <2>2, <2>3 DEF Below
  <2> QED BY Zenon, <1>3, <1>6, <1>7, <2>4, AllocIs
<1> HIDE DEF a
<1>10. /\ a \in Mem /\ a.lost = k.lost /\ Sum(a) = Sum(k)
       /\ a.r = (IF PGSIZE < 0 THEN 0 ELSE PGSIZE) /\ a.sp.pte = Below(Up(a.r))
  BY Zenon, <1>8, <1>9 DEF Alloced, Like
<1>11. a.sp.pte = Below(Up(PGSIZE))
  <2>1. ~(PGSIZE < 0)
    BY <1>3
  <2> QED BY Zenon, <1>10, <2>1
<1>12. a.free \in Nat /\ a.sp \in Space /\ Cost(a.sp) \in Nat /\ a.free + Cost(a.sp) = NPAGES - 2
  <2>1. a.free \in Nat /\ a.sp \in Space /\ Cost(a.sp) \in Nat
    BY Zenon, <1>10, MemIs
  <2>2. a.lost = 0 /\ a.free + a.lost + Cost(a.sp) = NPAGES - 2
    BY Zenon, <1>4, <1>5, <1>6, <1>10 DEF Sum
  <2> QED BY <2>1, <2>2
<1>13. /\ one \in Process /\ one.state = "RUNNING" /\ one.sz = PGSIZE /\ one.space = a.sp
       /\ one.kstack = 1 /\ one.mmt = 1
  BY Zenon, <1>3, <1>12 DEF Process
<1> HIDE DEF one
<1>14. Sound(one)
  <2>1. one.state # "UNUSED"
    BY Zenon, <1>13
  <2> QED BY Zenon, <1>3, <1>11, <1>13, <2>1 DEF Sound
<1>15. Use(one) \in Nat /\ a.free + Use(one) = NPAGES
  <2>1. Use(one) = 1 + 1 + Cost(a.sp)
    BY Zenon, <1>13 DEF Use
  <2> QED BY <1>3, <1>12, <2>1
<1>16. Sound(Freed(0)) /\ Use(Freed(0)) = 0
  BY Zenon, <1>3, FreedIs
<1>17. VmType
  <2>1. \A p \in Slot : Sound(proc[p])
    BY Zenon, <1>1, <1>14, <1>16
  <2>2. proc = [p \in Slot |-> proc[p]]
    BY Zenon, <1>1
  <2> QED BY Zenon, <1>1, <1>3, <1>12, <2>1, <2>2 DEF VmType
<1>18. InUse = Use(one)
  <2> DEFINE h == [p \in Slot |-> 0]
             i == [p \in Slot |-> Use(proc[p])]
             f == [n \in 0..NPROC |-> 0]
  <2>1. PICK g : Adds(g, i) /\ InUse = g[NPROC]
    BY Zenon, <1>17, InUseIs DEF InUseAdds
  <2>2. Adds(f, h)
    <3>1. \A n \in 1..NPROC : n \in 0..NPROC /\ n - 1 \in 0..NPROC /\ n \in Slot
      BY VmAssumption DEF Slot
    <3>2. 0 + 0 = 0 /\ 0 \in 0..NPROC
      BY VmAssumption
    <3> QED BY Zenon, <1>3, <3>1, <3>2 DEF Adds
  <2>3. /\ \A p \in Slot : h[p] \in Nat /\ i[p] \in Nat
        /\ \A p \in Slot \ {1} : i[p] = h[p]
        /\ h[1] = 0 /\ i[1] = Use(one)
    BY Zenon, <1>1, <1>3, <1>15, <1>16
  <2>4. NPROC \in 0..NPROC
    BY VmAssumption
  <2>5. f[NPROC] = 0 /\ g[NPROC] \in Nat
    BY Zenon, <2>1, <2>4 DEF Adds
  <2> HIDE DEF f, h, i
  <2>6. Moved(f, g, h, i, 1)
    BY Zenon, <1>3, <2>1, <2>2, <2>3, AddsDiff
  <2>7. g[NPROC] + h[1] = f[NPROC] + i[1]
    BY Zenon, <2>6 DEF Moved
  <2> QED BY <1>15, <2>1, <2>3, <2>5, <2>7
<1>19. free + lost + InUse = NPAGES
  BY <1>1, <1>12, <1>15, <1>18
<1> QED BY Zenon, <1>17, <1>19 DEF VmInv, PagesConserved

-----------------------------------------------------------------------------
(* The theorems                                                            *)

\* The invariant holds at all times.
LEMMA VmInvariant ==
  VSpec => []VmInv
<1>1. VmInv /\ [VNext]_vvars => VmInv'
  BY Zenon, NextSteps, StepKeeps
<1> QED BY VmStarts, <1>1, PTL DEF VSpec

\* Whatever fork(), exec(), sbrk(), exit() and wait() do and wherever they run out
\* of pages, a page is free, or in one use by one process, or one of those that
\* copyuvm() and allocproc() forget: none is freed twice.
THEOREM PagesAreConserved ==
  VSpec => []PagesConserved
<1>1. VmInv => PagesConserved
  BY Zenon DEF VmInv
<1> QED BY VmInvariant, <1>1, PTL

\* Whatever sizes sbrk() and exec() have set, a process has the pages below its
\* size and no others; copyuvm() and mappages() never panic; and the addresses
\* that argptr() and fetchstr() let through are mapped.
THEOREM SizesAreMapped ==
  VSpec => []SizeIsMapped
<1>1. VmInv => SizeIsMapped
  <2> SUFFICES ASSUME VmInv PROVE SizeIsMapped
    BY Zenon
  <2>1. ~vpanic
    BY Zenon DEF VmInv, VmType
  <2>2. ASSUME NEW p \in Slot, Running(p)
        PROVE  /\ proc[p].space.pte = {a \in Va : a * PGSIZE < proc[p].sz}
               /\ \A addr \in 0 .. (KERNBASE - 1), size \in 0..KERNBASE :
                    Argptr(p, addr, size) =>
                      \A a \in addr .. (addr + size - 1) : a \div PGSIZE \in proc[p].space.pte
               /\ \A addr, zero \in 0 .. (KERNBASE - 1) :
                    Fetchstr(p, addr, {zero}) => zero \div PGSIZE \in proc[p].space.pte
    <3> DEFINE sz == proc[p].sz
               pte == proc[p].space.pte
    <3>1. Sound(proc[p])
      BY Zenon DEF VmInv, VmType
    <3>2. sz \in Nat /\ sz < KERNBASE /\ pte = Below(Up(sz))
      BY Zenon, <2>2, <3>1, ProcessIs DEF Sound, Running
    <3>3. Up(sz) \in Nat /\ Up(sz) <= KERNBASE \div PGSIZE
      BY Zenon, <3>2, UpIs, UpFits
    <3>4. pte = {a \in Va : a * PGSIZE < sz}
      <4>1. \A a \in Va : a \in Int
        BY Sizes DEF Va
      <4>2. \A a \in Va : a * PGSIZE < sz <=> a < Up(sz)
        BY Zenon, <3>2, <4>1, UpWhen
      <4> QED BY Zenon, <3>2, <4>2 DEF Below
    <3> HIDE DEF sz, pte
    <3>5. ASSUME NEW a \in Nat, a < sz PROVE a \div PGSIZE \in pte
      <4>1. a \div PGSIZE \in Nat /\ a \div PGSIZE < Up(sz)
        BY Zenon, <3>2, <3>5, PageBelow
      <4>2. a \div PGSIZE \in Va
        <5> DEFINE q == a \div PGSIZE
        <5> HIDE DEF q
        <5>1. q \in Nat /\ q < Up(sz)
          BY Zenon, <4>1 DEF q
        <5>2. q \in Va
          BY <3>3, <5>1, Sizes DEF Va
        <5> QED BY Zenon, <5>2 DEF q
      <4> QED BY Zenon, <3>2, <4>1, <4>2 DEF Below
    <3>6. ASSUME NEW addr \in 0 .. (KERNBASE - 1), NEW size \in 0..KERNBASE,
                 Argptr(p, addr, size), NEW a \in addr .. (addr + size - 1)
          PROVE  a \div PGSIZE \in pte
      <4>1. addr + size <= sz
        BY Zenon, <3>6 DEF Argptr, sz
      <4>2. a \in Nat /\ a < sz
        BY <3>2, <4>1, Sizes
      <4> QED BY Zenon, <3>5, <4>2
    <3>7. ASSUME NEW addr \in 0 .. (KERNBASE - 1), NEW zero \in 0 .. (KERNBASE - 1),
                 Fetchstr(p, addr, {zero})
          PROVE  zero \div PGSIZE \in pte
      <4>1. zero < sz
        BY Zenon, <3>7 DEF Fetchstr, sz
      <4>2. zero \in Nat
        BY Sizes
      <4> QED BY Zenon, <3>5, <4>1, <4>2
    <3> QED BY Zenon, <3>4, <3>6, <3>7 DEF sz, pte
  <2> QED BY Zenon, <2>1, <2>2 DEF SizeIsMapped
<1> QED BY VmInvariant, <1>1, PTL

\* A fork(), exec() or sbrk() that fails leaves every process with the state,
\* the size and the pages it had.
THEOREM FailuresRestore ==
  VSpec => FailureRestores
<1>1. VmInv /\ [VNext]_vvars =>
        [ret' = "fail" =>
           \A p \in Slot : proc'[p].state = "FAULTING" \/ Restored(proc[p], proc'[p])]_vvars
  BY Zenon, NextSteps, StepRestores
<1> QED BY VmInvariant, <1>1, PTL DEF VSpec, FailureRestores
=============================================================================
