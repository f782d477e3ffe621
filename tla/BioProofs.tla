----------------------------- MODULE BioProofs ------------------------------
(***************************************************************************)
(* The other steps of bio.c keep the invariant of module BioInvariant, and *)
(* the theorems about module Bio: what is clean is on the disk, no panic   *)
(* is reached, and the cache implements BlockStore.                        *)
(***************************************************************************)
EXTENDS BioInvariant

-----------------------------------------------------------------------------
(* The holder of a buffer                                                  *)

\* The holder of a buffer changes it and marks it dirty, as bwrite() and
\* log_write() do: no request and no other process is about it.
LEMMA ChangeKeeps ==
  ASSUME IInv, NEW p \in Proc, NEW k \in Used[driver], NEW b \in Buf, NEW v \in Val,
         pc[p] = "run", <<k, b>> \in held[p],
         data' = [data EXCEPT ![b] = v],
         flags' = [flags EXCEPT ![b] = @ \cup {"dirty"}],
         UNCHANGED <<driver, bno, idequeue, cmd, disk, refcnt, lock, lru, held>>,
         pc' \in [Proc -> Pc], cur' \in [Proc -> 0..NBUF],
         want' \in [Proc -> Used[driver] \cup {NoBlock}],
         \A q \in Proc : q # p => pc'[q] = pc[q] /\ cur'[q] = cur[q] /\ want'[q] = want[q],
         \/ pc'[p] = "run"
         \/ pc'[p] = "iderw" /\ cur'[p] = b /\ want'[p] = k
  PROVE  IInv'
<1>1. lock[b] = p /\ bno[b] = k /\ "valid" \in flags[b] BY Zenon DEF IInv, HoldInv, Holds
<1>2. /\ flags' \in [Buf -> SUBSET {"valid", "dirty"}] /\ data' \in [Buf -> Val]
      /\ "valid" \in flags'[b] /\ "dirty" \in flags'[b]
      /\ \A c \in Buf : c # b => flags'[c] = flags[c] /\ data'[c] = data[c]
  BY Zenon, <1>1 DEF IInv, TypeOK
<1>3. TypeOK' BY Zenon, <1>2 DEF IInv, TypeOK
<1>4. CountInv'
  <2>1. \A c \in Buf, q \in Proc : Uses(q, c)' <=> Uses(q, c)
    BY Zenon DEF Uses
  <2>2. \A c \in Buf : Users(c)' = Users(c) BY Zenon, <2>1 DEF Users
  <2> QED BY Zenon, <2>2 DEF IInv, CountInv
<1>5. HoldInv'
  <2> SUFFICES ASSUME NEW q \in Proc PROVE Holds(q)' BY Zenon DEF HoldInv
  <2>1. CASE q # p BY Zenon, <2>1, <1>2, HoldsStill
  <2>2. CASE q = p BY <2>2, <1>1, <1>2 DEF IInv, HoldInv, Holds
  <2> QED BY Zenon, <2>1, <2>2
<1>6. \A i \in 1..Len(idequeue) : idequeue[i] # b /\ idequeue[i] \in Buf
  BY Zenon, <1>1, NotQueued
<1>7. QueueInv' /\ CmdInv'
  <2>1. \A i \in 1..Len(idequeue) :
          flags'[idequeue[i]] = flags[idequeue[i]] /\ data'[idequeue[i]] = data[idequeue[i]]
    BY Zenon, <1>2, <1>6
  <2>2. \A q \in Proc : pc[q] = "iowait" => pc'[q] = "iowait" /\ cur'[q] = cur[q] BY Zenon
  <2> QED BY Zenon, <2>1, <2>2, SameQueue
<1>8. DataInv'
  <2>1. \A c \in Buf : "dirty" \in flags'[c] => "valid" \in flags'[c]
    BY Zenon, <1>2 DEF IInv, DataInv
  <2>2. \A c \in Buf : "valid" \in flags'[c] => bno[c] # NoBlock
    BY Zenon, <1>1, <1>2 DEF IInv, DataInv
  <2>3. ASSUME NEW c \in Buf, flags'[c] = {"valid"} PROVE data'[c] = disk[bno[c]]
    <3>1. c # b BY Zenon, <2>3, <1>2
    <3> QED BY Zenon, <2>3, <3>1, <1>2 DEF IInv, DataInv, CleanOnDisk
  <2> QED BY Zenon, <2>1, <2>2, <2>3 DEF DataInv, CleanOnDisk
<1> QED BY Zenon, <1>3, <1>4, <1>5, <1>7, <1>8 DEF IInv

\* bwrite() and log_write().
LEMMA WriteKeeps ==
  ASSUME IInv, NEW p \in Proc, NEW k \in Used[driver], NEW b \in Buf, NEW v \in Val,
         Bwrite(p, k, b, v) \/ LogWrite(p, k, b, v)
  PROVE  IInv'
<1>1. CASE Bwrite(p, k, b, v)
  <2>1. /\ pc' \in [Proc -> Pc] /\ cur' \in [Proc -> 0..NBUF]
        /\ want' \in [Proc -> Used[driver] \cup {NoBlock}]
        /\ pc'[p] = "iderw" /\ cur'[p] = b /\ want'[p] = k
        /\ \A q \in Proc : q # p => pc'[q] = pc[q] /\ cur'[q] = cur[q] /\ want'[q] = want[q]
    BY Zenon, <1>1, BeginsCall DEF Bwrite, Pc
  <2> QED BY Zenon, <1>1, <2>1, ChangeKeeps DEF Bwrite
<1>2. CASE LogWrite(p, k, b, v)
  BY Zenon, <1>2, ChangeKeeps DEF LogWrite, IInv, TypeOK, procs
<1> QED BY Zenon, <1>1, <1>2

\* releasesleep() in brelse(): the lock is free, and the process still counts
\* among the users of the buffer.
LEMMA BrelseKeeps ==
  ASSUME IInv, NEW p \in Proc, NEW k \in Used[driver], NEW b \in Buf, Brelse(p, k, b)
  PROVE  IInv'
<1>1. /\ pc[p] = "run" /\ <<k, b>> \in held[p]
      /\ lock[b] = p /\ bno[b] = k /\ "valid" \in flags[b]
  BY DEF Brelse, IInv, HoldInv, Holds
<1>2. /\ UNCHANGED <<driver, bno, flags, data, idequeue, cmd, disk, refcnt, lru>>
      /\ lock' = [lock EXCEPT ![b] = Nobody]
      /\ held' = [held EXCEPT ![p] = @ \ {<<k, b>>}]
  BY Zenon DEF Brelse
<1>3. /\ pc' \in [Proc -> Pc] /\ cur' \in [Proc -> 0..NBUF]
      /\ want' \in [Proc -> Used[driver] \cup {NoBlock}]
      /\ pc'[p] = "brelse" /\ cur'[p] = b /\ want'[p] = k
      /\ \A q \in Proc : q # p => pc'[q] = pc[q] /\ cur'[q] = cur[q] /\ want'[q] = want[q]
  BY Zenon, BeginsCall DEF Brelse, Pc
<1>4. /\ held' \in [Proc -> SUBSET (Used[driver] \X Buf)]
      /\ held'[p] = held[p] \ {<<k, b>>}
      /\ \A q \in Proc : q # p => held'[q] = held[q]
  BY Zenon, <1>2 DEF IInv, TypeOK
<1>5. /\ lock' \in [Buf -> Proc \cup {Nobody}] /\ lock'[b] = Nobody
      /\ \A c \in Buf : c # b => lock'[c] = lock[c]
  BY Zenon, <1>2 DEF IInv, TypeOK
<1>6. TypeOK' BY Zenon, <1>2, <1>3, <1>4, <1>5 DEF IInv, TypeOK
<1>7. CountInv'
  <2>1. ASSUME NEW c \in Buf, NEW q \in Proc PROVE Uses(q, c)' <=> Uses(q, c)
    <3>1. CASE q # p BY Zenon, <3>1, <1>2, <1>3, <1>4 DEF Uses
    <3>2. CASE q = p /\ c = b BY Zenon, <3>2, <1>1, <1>3 DEF Uses
    <3>3. CASE q = p /\ c # b BY Zenon, <3>3, <1>1, <1>2, <1>3, <1>4 DEF Uses
    <3> QED BY Zenon, <3>1, <3>2, <3>3
  <2>2. \A c \in Buf : Users(c)' = Users(c) BY Zenon, <2>1 DEF Users
  <2> QED BY Zenon, <2>2, <1>2 DEF IInv, CountInv
<1>8. HoldInv'
  <2> SUFFICES ASSUME NEW q \in Proc PROVE Holds(q)' BY Zenon DEF HoldInv
  <2>1. CASE q # p BY Zenon, <2>1, <1>1, <1>2, <1>3, <1>4, <1>5, HoldsStill
  <2>2. CASE q = p
    <3>1. \A l \in Used[driver] : <<l, b>> \notin held'[p]
      BY <1>1, <1>4 DEF IInv, HoldInv, Holds
    <3> QED BY <2>2, <3>1, <1>1, <1>2, <1>3, <1>4, <1>5 DEF IInv, HoldInv, Holds
  <2> QED BY Zenon, <2>1, <2>2
<1>9. QueueInv' /\ CmdInv'
  <2>1. \A q \in Proc : pc[q] = "iowait" => pc'[q] = "iowait" /\ cur'[q] = cur[q]
    BY Zenon, <1>1, <1>3
  <2> QED BY Zenon, <2>1, <1>2, SameQueue DEF drive
<1>10. DataInv' BY Zenon, <1>2 DEF IInv, DataInv, CleanOnDisk
<1> QED BY Zenon, <1>6, <1>7, <1>8, <1>9, <1>10 DEF IInv

-----------------------------------------------------------------------------
(* References                                                              *)

\* The users of a buffer are finitely many, as the processes are.
LEMMA UsersFinite ==
  ASSUME NEW b PROVE IsFiniteSet(Users(b)) /\ Cardinality(Users(b)) \in Nat
<1>1. Users(b) \in SUBSET Proc BY Zenon DEF Users
<1>2. IsFiniteSet(Users(b)) BY Zenon, <1>1, FS_Subset, BioAssumption
<1> QED BY Zenon, <1>2, FS_CardinalityType

\* Moving a buffer to the head leaves a list of buffers.
LEMMA ToFrontType ==
  ASSUME NEW s \in [1..NBUF -> Buf], NEW b \in Buf
  PROVE  ToFront(s, b) \in [1..NBUF -> Buf]
<1>1. \A i \in 1..NBUF : i # 1 => i - 1 \in 1..NBUF BY BioAssumption
<1> QED BY Zenon, <1>1 DEF ToFront

\* The end of brelse(): the process gives its reference back.
LEMMA BrelseDropKeeps ==
  ASSUME IInv, NEW p \in Proc, BrelseDrop(p)
  PROVE  IInv'
<1>0. PICK b \in Buf : b = cur[p] BY Zenon DEF BrelseDrop, IInv, HoldInv, Holds
<1>1. /\ pc[p] = "brelse" /\ cur[p] = b
      /\ \A k \in Used[driver] : <<k, b>> \notin held[p]
  BY Zenon, <1>0 DEF BrelseDrop, IInv, HoldInv, Holds
<1>2. UNCHANGED <<driver, bno, flags, data, idequeue, cmd, disk, lock, held>>
  BY Zenon DEF BrelseDrop, dvars
<1>3. /\ pc' \in [Proc -> Pc] /\ cur' \in [Proc -> 0..NBUF]
      /\ want' \in [Proc -> Used[driver] \cup {NoBlock}]
      /\ pc'[p] = "run"
      /\ \A q \in Proc : q # p => pc'[q] = pc[q] /\ cur'[q] = cur[q] /\ want'[q] = want[q]
  BY BioAssumption DEF BrelseDrop, IInv, TypeOK, Pc
<1>4. /\ Users(b)' = Users(b) \ {p} /\ p \in Users(b)
      /\ \A c \in Buf : c # b => Users(c)' = Users(c)
  <2>1. ~Uses(p, b)' /\ Uses(p, b) BY Zenon, <1>1, <1>2, <1>3 DEF Uses
  <2>2. \A c \in Buf, q \in Proc : c # b \/ q # p => (Uses(q, c)' <=> Uses(q, c))
    BY Zenon, <1>1, <1>2, <1>3 DEF Uses
  <2> QED BY Zenon, <1>1, <2>1, <2>2 DEF Users
<1>5. /\ refcnt' \in [Buf -> Nat]
      /\ \A c \in Buf : refcnt'[c] = Cardinality(Users(c)')
  <2>1. refcnt \in [Buf -> Nat] /\ refcnt' = [refcnt EXCEPT ![b] = refcnt[b] - 1]
    BY Zenon, <1>1 DEF BrelseDrop, IInv, TypeOK
  <2>2. \A c \in Buf : refcnt[c] = Cardinality(Users(c)) BY Zenon DEF IInv, CountInv
  <2>3. Cardinality(Users(b)') = Cardinality(Users(b)) - 1 /\ Cardinality(Users(b)') \in Nat
    BY Zenon, <1>4, UsersFinite, FS_RemoveElement, FS_CardinalityType
  <2> QED BY Zenon, <1>1, <1>4, <2>1, <2>2, <2>3
<1>6. lru' \in [1..NBUF -> Buf]
  BY Zenon, <1>1, ToFrontType DEF BrelseDrop, IInv, TypeOK
<1>7. TypeOK' BY Zenon, <1>2, <1>3, <1>5, <1>6 DEF IInv, TypeOK
<1>8. CountInv' BY Zenon, <1>2, <1>5 DEF IInv, CountInv
<1>9. HoldInv'
  <2> SUFFICES ASSUME NEW q \in Proc PROVE Holds(q)' BY Zenon DEF HoldInv
  <2>1. CASE q # p BY Zenon, <2>1, <1>2, <1>3, HoldsStill
  <2>2. CASE q = p BY <2>2, <1>2, <1>3 DEF IInv, HoldInv, Holds
  <2> QED BY Zenon, <2>1, <2>2
<1>10. QueueInv' /\ CmdInv'
  <2>1. \A q \in Proc : pc[q] = "iowait" => pc'[q] = "iowait" /\ cur'[q] = cur[q]
    BY Zenon, <1>1, <1>3
  <2> QED BY Zenon, <2>1, <1>2, SameQueue
<1>11. DataInv' BY Zenon, <1>2 DEF IInv, DataInv, CleanOnDisk
<1> QED BY Zenon, <1>7, <1>8, <1>9, <1>10, <1>11 DEF IInv

\* The scan of bget() from the tail of the list ends at the last buffer that may
\* be recycled.
LEMMA LastVictim ==
  ASSUME Victims # {} PROVE Max(Victims) \in Victims
<1> DEFINE Below == {NBUF - i : i \in Victims}
<1>1. Victims \subseteq 1..NBUF BY Zenon DEF Victims
<1>2. Below \subseteq Nat /\ Below # {}
  <2>1. \A i \in 1..NBUF : NBUF - i \in Nat BY BioAssumption
  <2> QED BY Zenon, <1>1, <2>1
<1>3. PICK n \in Below : \A m \in Below : ~(<<m, n>> \in OpToRel(<, Nat))
  BY Zenon, <1>2, WFMin, NatLessThanWellFounded
<1>4. \A m \in Below : ~(m < n) BY Zenon, <1>2, <1>3 DEF OpToRel
<1>5. PICK i \in Victims : n = NBUF - i BY Zenon
<1>6. ASSUME NEW j \in Victims PROVE i >= j
  <2>1. NBUF - j \in Below BY Zenon
  <2>2. ~(NBUF - j < NBUF - i) BY Zenon, <1>4, <1>5, <2>1
  <2>3. i \in 1..NBUF /\ j \in 1..NBUF BY Zenon, <1>1
  <2> QED BY <2>2, <2>3, BioAssumption
<1> QED BY Zenon, <1>6 DEF Max

\* bget() finds the block in the cache, and takes a reference.
LEMMA BgetFinds ==
  ASSUME IInv, NEW p \in Proc, NEW k \in Used[driver], NEW b \in Buf,
         pc[p] = "run", MayGet(p, k), bno[b] = k,
         refcnt' = [refcnt EXCEPT ![b] = @ + 1],
         cur' = [cur EXCEPT ![p] = b], pc' = [pc EXCEPT ![p] = "lock"],
         want' = [want EXCEPT ![p] = k],
         UNCHANGED <<driver, bno, flags, data, idequeue, cmd, disk, lock, lru, held>>
  PROVE  IInv'
<1>1. \A l \in Used[driver] : <<l, b>> \notin held[p]
  <2> SUFFICES ASSUME NEW l \in Used[driver], <<l, b>> \in held[p] PROVE FALSE
    BY Zenon
  <2>1. l = k BY DEF IInv, HoldInv, Holds
  <2>2. <<l, b>>[1][2] < k[2] BY Zenon DEF MayGet
  <2>3. k[2] \in Int BY Zenon, Reached, BioAssumption DEF IInv, TypeOK, Block
  <2> QED BY <2>1, <2>2, <2>3
<1>2. /\ pc' \in [Proc -> Pc] /\ cur' \in [Proc -> 0..NBUF]
      /\ want' \in [Proc -> Used[driver] \cup {NoBlock}]
      /\ pc'[p] = "lock" /\ cur'[p] = b /\ want'[p] = k
      /\ \A q \in Proc : q # p => pc'[q] = pc[q] /\ cur'[q] = cur[q] /\ want'[q] = want[q]
  BY Zenon, BeginsCall DEF Pc
<1>3. /\ Users(b)' = Users(b) \cup {p} /\ p \notin Users(b)
      /\ \A c \in Buf : c # b => Users(c)' = Users(c)
  <2>1. Uses(p, b)' /\ ~Uses(p, b) BY Zenon, <1>1, <1>2 DEF Uses
  <2>2. \A c \in Buf, q \in Proc : c # b \/ q # p => (Uses(q, c)' <=> Uses(q, c))
    BY Zenon, <1>2 DEF Uses
  <2> QED BY Zenon, <2>1, <2>2 DEF Users
<1>4. /\ refcnt' \in [Buf -> Nat]
      /\ \A c \in Buf : refcnt'[c] = Cardinality(Users(c)')
  <2>1. refcnt \in [Buf -> Nat] BY Zenon DEF IInv, TypeOK
  <2>2. \A c \in Buf : refcnt[c] = Cardinality(Users(c)) BY Zenon DEF IInv, CountInv
  <2>3. Cardinality(Users(b)') = Cardinality(Users(b)) + 1
    BY Zenon, <1>3, UsersFinite, FS_AddElement
  <2> QED BY <1>3, <2>1, <2>2, <2>3
<1>5. TypeOK' BY Zenon, <1>2, <1>4 DEF IInv, TypeOK
<1>6. CountInv' BY Zenon, <1>4 DEF IInv, CountInv
<1>7. HoldInv'
  <2> SUFFICES ASSUME NEW q \in Proc PROVE Holds(q)' BY Zenon DEF HoldInv
  <2>1. CASE q # p BY Zenon, <2>1, <1>2, HoldsStill
  <2>2. CASE q = p BY <2>2, <1>1, <1>2 DEF IInv, HoldInv, Holds
  <2> QED BY Zenon, <2>1, <2>2
<1>8. QueueInv' /\ CmdInv'
  <2>1. \A q \in Proc : pc[q] = "iowait" => pc'[q] = "iowait" /\ cur'[q] = cur[q]
    BY Zenon, <1>2
  <2> QED BY Zenon, <2>1, SameQueue
<1>9. DataInv' BY Zenon DEF IInv, DataInv, CleanOnDisk
<1> QED BY Zenon, <1>5, <1>6, <1>7, <1>8, <1>9 DEF IInv

\* bget() recycles a buffer that nobody uses.
LEMMA BgetRecycles ==
  ASSUME IInv, NEW p \in Proc, NEW k \in Used[driver], NEW b \in Buf,
         pc[p] = "run", Cached(k) = {}, refcnt[b] = 0,
         bno' = [bno EXCEPT ![b] = k], flags' = [flags EXCEPT ![b] = {}],
         refcnt' = [refcnt EXCEPT ![b] = 1],
         cur' = [cur EXCEPT ![p] = b], pc' = [pc EXCEPT ![p] = "lock"],
         want' = [want EXCEPT ![p] = k],
         UNCHANGED <<driver, data, idequeue, cmd, disk, lock, lru, held>>
  PROVE  IInv'
<1>1. Users(b) = {}
  BY Zenon, UsersFinite, FS_EmptySet DEF IInv, CountInv
<1>2. \A q \in Proc : /\ pc[q] # "run" => cur[q] # b
                      /\ \A l \in Used[driver] : <<l, b>> \notin held[q]
  BY Zenon, <1>1 DEF Users, Uses
<1>3. \A c \in Buf : bno[c] # k BY Zenon DEF Cached
<1>4. /\ pc' \in [Proc -> Pc] /\ cur' \in [Proc -> 0..NBUF]
      /\ want' \in [Proc -> Used[driver] \cup {NoBlock}]
      /\ pc'[p] = "lock" /\ cur'[p] = b /\ want'[p] = k
      /\ \A q \in Proc : q # p => pc'[q] = pc[q] /\ cur'[q] = cur[q] /\ want'[q] = want[q]
  BY Zenon, BeginsCall DEF Pc
<1>5. /\ bno' \in [Buf -> Used[driver] \cup {NoBlock}]
      /\ flags' \in [Buf -> SUBSET {"valid", "dirty"}]
      /\ refcnt' \in [Buf -> Nat]
      /\ bno'[b] = k /\ flags'[b] = {} /\ refcnt'[b] = 1
      /\ \A c \in Buf : c # b => bno'[c] = bno[c] /\ flags'[c] = flags[c]
                                 /\ refcnt'[c] = refcnt[c]
  BY Zenon DEF IInv, TypeOK
<1>6. TypeOK' BY Zenon, <1>4, <1>5 DEF IInv, TypeOK
<1>7. CountInv'
  <2>1. /\ Uses(p, b)' /\ \A q \in Proc : q # p => ~Uses(q, b)'
        /\ \A c \in Buf, q \in Proc : c # b => (Uses(q, c)' <=> Uses(q, c))
    BY Zenon, <1>2, <1>4 DEF Uses
  <2>2. Users(b)' = {p} /\ \A c \in Buf : c # b => Users(c)' = Users(c)
    BY Zenon, <2>1 DEF Users
  <2>3. Cardinality(Users(b)') = 1 BY Zenon, <2>2, FS_Singleton
  <2>4. ASSUME NEW c \in Buf PROVE refcnt'[c] = Cardinality(Users(c)')
    <3>1. CASE c = b BY Zenon, <3>1, <2>3, <1>5
    <3>2. CASE c # b BY <3>2, <2>2, <1>5 DEF IInv, CountInv
    <3> QED BY Zenon, <3>1, <3>2
  <2>5. \A c, d \in Buf : bno'[c] = bno'[d] /\ bno'[c] # NoBlock => c = d
    BY <1>3, <1>5 DEF IInv, CountInv
  <2> QED BY Zenon, <2>4, <2>5 DEF CountInv
<1>8. HoldInv'
  <2> SUFFICES ASSUME NEW q \in Proc PROVE Holds(q)' BY Zenon DEF HoldInv
  <2>1. CASE q # p BY <2>1, <1>1, <1>4, <1>5, HoldsStill DEF Users
  <2>2. CASE q = p BY <2>2, <1>2, <1>4, <1>5 DEF IInv, HoldInv, Holds
  <2> QED BY Zenon, <2>1, <2>2
<1>9. QueueInv' /\ CmdInv'
  <2>1. \A i \in 1..Len(idequeue) : idequeue[i] # b /\ idequeue[i] \in Buf
    <3>1. \A i \in 1..Len(idequeue) : idequeue[i] \in Buf BY Zenon, Items DEF IInv, TypeOK
    <3>2. \A i \in 1..Len(idequeue) : idequeue[i] # b BY <1>2 DEF IInv, QueueInv
    <3> QED BY Zenon, <3>1, <3>2 DEF IInv, TypeOK
  <2>2. \A i \in 1..Len(idequeue) :
          /\ flags'[idequeue[i]] = flags[idequeue[i]] /\ data'[idequeue[i]] = data[idequeue[i]]
          /\ bno'[idequeue[i]] = bno[idequeue[i]]
    BY Zenon, <2>1, <1>5
  <2>3. \A q \in Proc : pc[q] = "iowait" => pc'[q] = "iowait" /\ cur'[q] = cur[q]
    BY Zenon, <1>4
  <2> QED BY Zenon, <2>2, <2>3, SameQueue
<1>10. DataInv' BY Zenon, <1>5 DEF IInv, DataInv, CleanOnDisk
<1> QED BY Zenon, <1>6, <1>7, <1>8, <1>9, <1>10 DEF IInv

\* bget(), all of it.
LEMMA BgetKeeps ==
  ASSUME IInv, NEW p \in Proc, NEW k \in Used[driver], Bget(p, k) PROVE IInv'
<1>1. CASE \E b \in Cached(k) :
             /\ refcnt' = [refcnt EXCEPT ![b] = @ + 1] /\ cur' = [cur EXCEPT ![p] = b]
             /\ pc' = [pc EXCEPT ![p] = "lock"] /\ UNCHANGED <<bno, flags>>
  <2>1. PICK b \in Cached(k) :
          /\ refcnt' = [refcnt EXCEPT ![b] = @ + 1] /\ cur' = [cur EXCEPT ![p] = b]
          /\ pc' = [pc EXCEPT ![p] = "lock"] /\ UNCHANGED <<bno, flags>>
    BY Zenon, <1>1
  <2>2. b \in Buf /\ bno[b] = k BY Zenon DEF Cached
  <2> QED BY Zenon, <2>1, <2>2, BgetFinds DEF Bget
<1>2. CASE Cached(k) = {} /\ Victims # {}
  <2>1. PICK b \in Buf : b = lru[Max(Victims)] /\ refcnt[b] = 0
    BY Zenon, <1>2, LastVictim DEF Victims, IInv, TypeOK
  <2> QED BY Zenon, <1>2, <2>1, BgetRecycles DEF Bget
<1>3. CASE UNCHANGED <<bno, flags, refcnt, cur, pc>>
  <2>1. /\ UNCHANGED <<driver, bno, flags, data, idequeue, cmd, disk, refcnt, lock, lru>>
        /\ UNCHANGED <<cur, pc, held>> /\ want' = [want EXCEPT ![p] = k] /\ pc[p] = "run"
    BY Zenon, <1>3 DEF Bget
  <2>2. /\ want' \in [Proc -> Used[driver] \cup {NoBlock}]
        /\ \A q \in Proc : pc[q] # "run" => want'[q] = want[q]
    BY Zenon, <2>1 DEF IInv, TypeOK
  <2>3. TypeOK' BY Zenon, <2>1, <2>2 DEF IInv, TypeOK
  <2>4. \A b : Users(b)' = Users(b) BY Zenon, <2>1 DEF Users, Uses
  <2>5. CountInv' BY Zenon, <2>1, <2>4 DEF IInv, CountInv
  <2>6. HoldInv' BY <2>1, <2>2 DEF IInv, HoldInv, Holds
  <2>7. QueueInv' /\ CmdInv' BY Zenon, <2>1, SameQueue
  <2>8. DataInv' BY Zenon, <2>1 DEF IInv, DataInv, CleanOnDisk
  <2> QED BY Zenon, <2>3, <2>5, <2>6, <2>7, <2>8 DEF IInv
<1> QED BY Zenon, <1>1, <1>2, <1>3 DEF Bget

-----------------------------------------------------------------------------
(* The theorems                                                            *)

\* binit() leaves a cache in which nothing is used.
LEMMA InitKeeps == ASSUME Init PROVE IInv
<1>1. driver \in Driver /\ idequeue = <<>> /\ cmd = Idle BY Zenon DEF Init, DInit
<1>2. TypeOK
  <2>1. Idle \in Cmd BY Zenon, BioAssumption DEF Idle, Cmd
  <2>2. \A i \in 1..NBUF : NBUF + 1 - i \in 1..NBUF BY BioAssumption
  <2>3. lru \in [1..NBUF -> Buf] BY Zenon, <2>2 DEF Init, Buf
  <2>4. 0 \in 0..NBUF BY BioAssumption
  <2> QED BY <1>1, <2>1, <2>3, <2>4, BioAssumption DEF Init, DInit, TypeOK, Pc
<1>3. CountInv
  <2>1. \A b \in Buf : Users(b) = {} BY Zenon DEF Init, Users, Uses
  <2> QED BY Zenon, <2>1, FS_EmptySet DEF Init, DInit, CountInv
<1>4. HoldInv BY Zenon DEF Init, HoldInv, Holds
<1>5. QueueInv /\ CmdInv BY <1>1 DEF QueueInv, CmdInv, Idle
<1>6. DataInv BY Zenon DEF Init, DInit, DataInv, CleanOnDisk
<1> QED BY Zenon, <1>2, <1>3, <1>4, <1>5, <1>6 DEF IInv

\* Every step keeps the invariant.
LEMMA NextKeeps == ASSUME IInv, [Next]_vars PROVE IInv'
<1>1. CASE UNCHANGED vars BY Zenon, <1>1, Stutters DEF vars, dvars, drive
<1>2. CASE Hardware BY Zenon, <1>2, HardwareKeeps
<1>3. ASSUME NEW p \in Proc, Continue(p) PROVE IInv'
  BY Zenon, <1>3, AcquiresleepKeeps, CallIderwKeeps, IderwLoopKeeps, BrelseDropKeeps DEF Continue
<1>4. ASSUME NEW p \in Proc, Call(p) PROVE IInv'
  BY Zenon, <1>4, BgetKeeps, WriteKeeps, BrelseKeeps DEF Call, Leave
<1> QED BY Zenon, <1>1, <1>2, <1>3, <1>4 DEF Next

\* The references of the buffers, their locks, the queue of the disk and the
\* command in the controller agree in every reachable state of the cache.
THEOREM Invariance == Spec => []IInv
<1>1. Init => IInv BY Zenon, InitKeeps
<1>2. IInv /\ [Next]_vars => IInv' BY Zenon, NextKeeps
<1> QED BY <1>1, <1>2, PTL DEF Spec

\* What bread() and bwrite() return with, and what bget() recycles, is on the
\* disk: for every number of buffers, blocks and processes.
THEOREM CleanBlocks == Spec => []CleanOnDisk
<1>1. IInv => CleanOnDisk BY Zenon DEF IInv, DataInv
<1> QED BY <1>1, Invariance, PTL

-----------------------------------------------------------------------------
(* The panics                                                              *)

\* iderw() is called with something to do, a lock is taken by a process that has
\* the buffer or gives it to the disk, and every buffer is in the list.
Owns(p, b) ==
  \/ pc[p] \in {"iderw", "iowait"} /\ cur[p] = b
  \/ \E k \in Used[driver] : <<k, b>> \in held[p]
WorkInv == \A p \in Proc : pc[p] = "iderw" => flags[cur[p]] # {"valid"}
LockInv == \A b \in Buf : lock[b] # Nobody => Owns(lock[b], b)
ListInv == \A b \in Buf : \E i \in 1..NBUF : lru[i] = b

PanicInv == ~panic /\ WorkInv /\ LockInv /\ ListInv

\* The buffers that processes hold are as many as the pairs in held, since a
\* buffer is that of one block.
LEMMA HeldCount ==
  ASSUME IInv
  PROVE  LET H == UNION {held[q] : q \in Proc}
             B == {b \in Buf : \E k \in Used[driver] : <<k, b>> \in H}
         IN IsFiniteSet(H) /\ IsFiniteSet(B) /\ Cardinality(B) <= Cardinality(H)
<1> DEFINE H == UNION {held[q] : q \in Proc}
           B == {b \in Buf : \E k \in Used[driver] : <<k, b>> \in H}
           f == [h \in H |-> h[2]]
<1>1. \A h \in H : \E q \in Proc, k \in Used[driver], b \in Buf : h = <<k, b>> /\ h \in held[q]
  <2> SUFFICES ASSUME NEW h \in H
               PROVE  \E q \in Proc, k \in Used[driver], b \in Buf : h = <<k, b>> /\ h \in held[q]
    BY Zenon
  <2>1. PICK q \in Proc : h \in held[q] BY Zenon
  <2>2. h \in Used[driver] \X Buf BY Zenon, <2>1 DEF IInv, TypeOK
  <2>3. PICK k \in Used[driver], b \in Buf : h = <<k, b>> BY <2>2
  <2> QED BY Zenon, <2>1, <2>3
<1>2. \A h \in H : h[2] \in B /\ h = <<bno[h[2]], h[2]>>
  <2> SUFFICES ASSUME NEW h \in H PROVE h[2] \in B /\ h = <<bno[h[2]], h[2]>>
    BY Zenon
  <2>1. PICK q \in Proc, k \in Used[driver], b \in Buf : h = <<k, b>> /\ h \in held[q]
    BY Zenon, <1>1
  <2>2. h[2] = b BY Zenon, <2>1
  <2>3. bno[b] = k BY <2>1 DEF IInv, HoldInv, Holds
  <2> QED BY Zenon, <2>1, <2>2, <2>3
<1>3. \A b \in B : \E h \in H : h[2] = b
  <2> SUFFICES ASSUME NEW b \in B PROVE \E h \in H : h[2] = b BY Zenon
  <2>1. PICK k \in Used[driver] : <<k, b>> \in H BY Zenon
  <2>2. <<k, b>>[2] = b BY Zenon
  <2> QED BY Zenon, <2>1, <2>2
<1>4. f \in Injection(H, B) /\ f \in Surjection(H, B)
  <2>1. f \in [H -> B] BY Zenon, <1>2
  <2>2. \A g, h \in H : f[g] = f[h] => g = h BY Zenon, <1>2
  <2>3. \A b \in B : \E h \in H : f[h] = b BY Zenon, <1>3
  <2> QED BY <2>1, <2>2, <2>3 DEF Injection, Surjection, IsInjective
<1>5. IsFiniteSet(B)
  <2>1. B \in SUBSET (1..NBUF) BY Zenon DEF Buf
  <2>2. IsFiniteSet(1..NBUF) BY FS_Interval, BioAssumption
  <2> QED BY Zenon, <2>1, <2>2, FS_Subset
<1>6. IsFiniteSet(H) BY Zenon, <1>4, <1>5, FS_Injection
<1>7. Cardinality(B) <= Cardinality(H) BY Zenon, <1>4, <1>6, FS_Surjection
<1> QED BY Zenon, <1>5, <1>6, <1>7

\* While fewer than NBUF buffers are held, awaited or waiting for a commit, the
\* scan of bget() finds one: each of the others is in the list, has no user and
\* is clean.
LEMMA VictimFound ==
  ASSUME IInv, PanicInv, NEW p \in Proc, NEW k, MayGet(p, k)
  PROVE  Victims # {}
<1> SUFFICES ASSUME Victims = {} PROVE FALSE BY Zenon
<1> DEFINE H == UNION {held[q] : q \in Proc}
           B == {b \in Buf : \E l \in Used[driver] : <<l, b>> \in H}
           Q == {q \in Proc : pc[q] # "run"}
           C == {cur[q] : q \in Q}
<1>1. Buf \subseteq Pinned \cup (C \cup B)
  <2> SUFFICES ASSUME NEW b \in Buf PROVE b \in Pinned \cup (C \cup B) BY Zenon
  <2>1. ASSUME NEW q \in Proc, Uses(q, b) PROVE b \in C \cup B
    BY Zenon, <2>1 DEF Uses
  <2>2. PICK i \in 1..NBUF : lru[i] = b BY Zenon DEF PanicInv, ListInv
  <2>3. refcnt[b] # 0 \/ "dirty" \in flags[b] BY Zenon, <2>2 DEF Victims
  <2>4. CASE refcnt[b] # 0
    <3>1. Users(b) # {} BY Zenon, <2>4, FS_EmptySet DEF IInv, CountInv
    <3> QED BY Zenon, <3>1, <2>1 DEF Users
  <2>5. CASE "dirty" \in flags[b] /\ lock[b] = Nobody BY Zenon, <2>5 DEF Pinned
  <2>6. CASE lock[b] # Nobody
    BY Zenon, <2>6, <2>1 DEF IInv, TypeOK, PanicInv, LockInv, Owns, Uses
  <2> QED BY Zenon, <2>3, <2>4, <2>5, <2>6
<1>2. IsFiniteSet(Buf) /\ Cardinality(Buf) = NBUF
  BY FS_Interval, BioAssumption DEF Buf
<1>3. IsFiniteSet(H) /\ IsFiniteSet(B) /\ Cardinality(B) <= Cardinality(H)
  BY Zenon, HeldCount
<1>4. IsFiniteSet(Pinned) BY Zenon, <1>2, FS_Subset DEF Pinned
<1>5. IsFiniteSet(Q) BY Zenon, FS_Subset, BioAssumption
<1>6. IsFiniteSet(C) /\ Cardinality(C) <= Cardinality(Q)
  <2> DEFINE f == [q \in Q |-> cur[q]]
  <2>1. f \in [Q -> C] /\ \A c \in C : \E q \in Q : f[q] = c BY Zenon
  <2>2. f \in Surjection(Q, C) BY <2>1 DEF Surjection
  <2> QED BY Zenon, <2>2, <1>5, FS_Surjection
<1>7. /\ IsFiniteSet(C \cup B)
      /\ Cardinality(C \cup B) <= Cardinality(C) + Cardinality(B)
  <2>1. /\ IsFiniteSet(C \cup B)
        /\ Cardinality(C \cup B) = Cardinality(C) + Cardinality(B) - Cardinality(C \cap B)
    BY Zenon, <1>3, <1>6, FS_Union
  <2>2. Cardinality(C) \in Nat /\ Cardinality(B) \in Nat /\ Cardinality(C \cap B) \in Nat
    BY Zenon, <1>3, <1>6, FS_CardinalityType, FS_Intersection
  <2> QED BY <2>1, <2>2
<1>8. /\ IsFiniteSet(Pinned \cup (C \cup B))
      /\ Cardinality(Pinned \cup (C \cup B)) <= Cardinality(Pinned) + Cardinality(C \cup B)
  <2>1. /\ IsFiniteSet(Pinned \cup (C \cup B))
        /\ Cardinality(Pinned \cup (C \cup B))
             = Cardinality(Pinned) + Cardinality(C \cup B) - Cardinality(Pinned \cap (C \cup B))
    BY Zenon, <1>4, <1>7, FS_Union
  <2>2. /\ Cardinality(Pinned) \in Nat /\ Cardinality(C \cup B) \in Nat
        /\ Cardinality(Pinned \cap (C \cup B)) \in Nat
    BY Zenon, <1>4, <1>7, FS_CardinalityType, FS_Intersection
  <2> QED BY <2>1, <2>2
<1>9. Cardinality(Buf) <= Cardinality(Pinned \cup (C \cup B))
  BY Zenon, <1>1, <1>8, FS_Subset
<1>10. Cardinality(Pinned) + Cardinality(Q) + Cardinality(H) < NBUF
  BY Zenon DEF MayGet
<1>11. /\ Cardinality(Pinned) \in Nat /\ Cardinality(Q) \in Nat /\ Cardinality(H) \in Nat
       /\ Cardinality(C) \in Nat /\ Cardinality(B) \in Nat /\ Cardinality(C \cup B) \in Nat
       /\ Cardinality(Pinned \cup (C \cup B)) \in Nat
  BY Zenon, <1>3, <1>4, <1>5, <1>6, <1>7, <1>8, FS_CardinalityType
<1> HIDE DEF H, B, Q, C
<1> QED BY <1>2, <1>3, <1>6, <1>7, <1>8, <1>9, <1>10, <1>11, BioAssumption

\* Locks stay with their owners in a step that changes neither.
LEMMA SameLocks ==
  ASSUME IInv, LockInv, lock' = lock,
         \A b \in Buf, q \in Proc : Owns(q, b) => Owns(q, b)'
  PROVE  LockInv'
<1> SUFFICES ASSUME NEW b \in Buf, lock[b] # Nobody PROVE Owns(lock[b], b)'
  BY Zenon DEF LockInv
<1> QED BY Zenon DEF IInv, TypeOK, LockInv

\* An owner that returns from iderw() has the buffer.
LEMMA GotOwns ==
  ASSUME IInv, NEW p \in Proc, pc[p] # "run", Got(p), driver' = driver
  PROVE  /\ \A b \in Buf, q \in Proc : Owns(q, b) => Owns(q, b)'
         /\ pc'[p] = "run" /\ <<want[p], cur[p]>> \in held'[p]
         /\ \A q \in Proc : q # p => pc'[q] = pc[q] /\ cur'[q] = cur[q]
<1>1. cur[p] \in Buf /\ want[p] \in Used[driver] BY Zenon DEF IInv, HoldInv, Holds
<1>2. /\ pc'[p] = "run" /\ held'[p] = held[p] \cup {<<want[p], cur[p]>>}
      /\ \A q \in Proc : q # p => pc'[q] = pc[q] /\ cur'[q] = cur[q] /\ held'[q] = held[q]
  BY Zenon, GotUsers
<1>3. ASSUME NEW b \in Buf, NEW q \in Proc, Owns(q, b) PROVE Owns(q, b)'
  <2>1. CASE q # p BY Zenon, <2>1, <1>2, <1>3 DEF Owns
  <2>2. CASE q = p BY Zenon, <2>2, <1>1, <1>2, <1>3 DEF Owns
  <2> QED BY Zenon, <2>1, <2>2
<1> QED BY Zenon, <1>2, <1>3

\* The interrupt handlers finish a buffer that is not about to be given to the disk.
LEMMA HardwareCalm ==
  ASSUME IInv, PanicInv, Hardware PROVE PanicInv'
<1>1. UNCHANGED <<driver, refcnt, lock, lru, procs, panic>>
  BY Zenon DEF Hardware, Controller, Ideintr, Ideintr2, Complete
<1>2. WorkInv'
  <2> SUFFICES ASSUME NEW p \in Proc, pc[p] = "iderw" PROVE flags'[cur[p]] # {"valid"}
    BY Zenon, <1>1 DEF WorkInv, procs
  <2>1. cur[p] \in Buf /\ lock[cur[p]] = p BY Zenon DEF IInv, HoldInv, Holds
  <2>2. flags[cur[p]] # {"valid"} BY Zenon DEF PanicInv, WorkInv
  <2>3. CASE flags' = flags BY Zenon, <2>2, <2>3
  <2>4. CASE idequeue # <<>> /\ flags' = [flags EXCEPT ![Head(idequeue)] = {"valid"}]
    <3>1. 1 \in 1..Len(idequeue) /\ Head(idequeue) = idequeue[1]
      BY <2>4 DEF IInv, TypeOK
    <3>2. idequeue[1] # cur[p] BY Zenon, <2>1, <3>1, NotQueued
    <3> QED BY Zenon, <2>1, <2>2, <2>4, <3>1, <3>2 DEF IInv, TypeOK
  <2> QED BY Zenon, <2>3, <2>4 DEF Hardware, Controller, Ideintr, Ideintr2, Complete
<1>3. LockInv' BY Zenon, <1>1, SameLocks DEF PanicInv, Owns, procs
<1> QED BY Zenon, <1>1, <1>2, <1>3 DEF PanicInv, ListInv

\* Who gets the lock is a user, and goes to iderw() if the buffer is not valid.
LEMMA AcquiresleepCalm ==
  ASSUME IInv, PanicInv, NEW p \in Proc, Acquiresleep(p) PROVE PanicInv'
<1>0. PICK b \in Buf : b = cur[p] BY Zenon DEF Acquiresleep, IInv, HoldInv, Holds
<1>1. pc[p] = "lock" /\ b = cur[p] /\ UNCHANGED <<driver, flags, lru, panic>>
  BY Zenon, <1>0 DEF Acquiresleep
<1>2. CASE UNCHANGED <<lock, procs>>
  <2>1. LockInv' BY Zenon, <1>1, <1>2, SameLocks DEF PanicInv, Owns, procs
  <2> QED BY Zenon, <2>1, <1>1, <1>2 DEF PanicInv, WorkInv, ListInv, procs
<1>3. CASE lock' = [lock EXCEPT ![b] = p] /\ Bread(p)
  <2>1. /\ \A c \in Buf, q \in Proc : Owns(q, c) => Owns(q, c)'
        /\ \A q \in Proc : q # p => pc'[q] = pc[q] /\ cur'[q] = cur[q]
        /\ Owns(p, b)'
        /\ \/ pc'[p] = "run"
           \/ pc'[p] = "iderw" /\ cur' = cur /\ "valid" \notin flags[b]
    <3>1. CASE "valid" \in flags[b]
      <4>1. want[p] \in Used[driver] BY Zenon, <1>1 DEF IInv, HoldInv, Holds
      <4>2. Got(p) BY Zenon, <3>1, <1>1, <1>3 DEF Bread
      <4>3. Owns(p, b)' BY Zenon, <1>1, <4>1, <4>2, GotOwns DEF Owns
      <4> QED BY Zenon, <1>1, <4>2, <4>3, GotOwns
    <3>2. CASE "valid" \notin flags[b]
      <4>1. pc' = [pc EXCEPT ![p] = "iderw"] /\ UNCHANGED <<want, cur, held>>
        BY Zenon, <3>2, <1>1, <1>3 DEF Bread
      <4>2. pc'[p] = "iderw" /\ \A q \in Proc : q # p => pc'[q] = pc[q]
        BY Zenon, <4>1 DEF IInv, TypeOK
      <4>3. Owns(p, b)' /\ \A c \in Buf, q \in Proc : Owns(q, c) => Owns(q, c)'
        BY <4>1, <4>2, <1>1 DEF Owns
      <4> QED BY Zenon, <3>2, <4>1, <4>2, <4>3
    <3> QED BY Zenon, <3>1, <3>2
  <2>2. WorkInv' BY Zenon, <1>1, <2>1 DEF PanicInv, WorkInv
  <2>3. LockInv'
    <3> SUFFICES ASSUME NEW c \in Buf, lock'[c] # Nobody PROVE Owns(lock[c], c)'
      BY Zenon DEF LockInv
    <3>1. CASE c = b BY Zenon, <3>1, <1>1, <1>3, <2>1 DEF IInv, TypeOK
    <3>2. CASE c # b BY Zenon, <3>2, <1>1, <1>3, <2>1 DEF IInv, TypeOK, PanicInv, LockInv
    <3> QED BY Zenon, <3>1, <3>2
  <2> QED BY Zenon, <1>1, <2>2, <2>3 DEF PanicInv, ListInv
<1> QED BY Zenon, <1>1, <1>2, <1>3 DEF Acquiresleep

\* iderw() has the lock and work to do, so that it does not panic.
LEMMA CallIderwCalm ==
  ASSUME IInv, PanicInv, NEW p \in Proc, CallIderw(p) PROVE PanicInv'
<1> DEFINE b == cur[p]
<1>1. /\ pc[p] = "iderw" /\ b \in Buf /\ lock[b] = p /\ flags[b] # {"valid"}
      /\ UNCHANGED <<lock, lru>>
  BY Zenon DEF CallIderw, IInv, HoldInv, Holds, PanicInv, WorkInv
<1>2. lock[b] # Nobody BY Zenon, <1>1, BioAssumption
<1>3. CASE /\ Iderw(p, b) /\ pc' = [pc EXCEPT ![p] = "iowait"]
           /\ UNCHANGED <<want, cur, held, panic>>
  <2>1. UNCHANGED <<driver, flags>> BY Zenon, <1>3 DEF Iderw
  <2>2. pc'[p] = "iowait" /\ \A q \in Proc : q # p => pc'[q] = pc[q]
    BY Zenon, <1>3 DEF IInv, TypeOK
  <2>4. \A c \in Buf, q \in Proc : Owns(q, c) => Owns(q, c)'
    BY <1>1, <1>3, <2>1, <2>2 DEF Owns
  <2>5. LockInv' BY Zenon, <1>1, <2>4, SameLocks DEF PanicInv
  <2>6. WorkInv' BY Zenon, <1>3, <2>1, <2>2 DEF PanicInv, WorkInv
  <2> QED BY Zenon, <1>1, <1>3, <2>5, <2>6 DEF PanicInv, ListInv
<1>4. CASE IderwMem(b) /\ Got(p) /\ UNCHANGED panic
  <2>1. driver' = driver /\ flags' = [flags EXCEPT ![b] = {"valid"}]
    BY Zenon, <1>4 DEF IderwMem
  <2>2. /\ \A c \in Buf, q \in Proc : Owns(q, c) => Owns(q, c)'
        /\ pc'[p] = "run" /\ \A q \in Proc : q # p => pc'[q] = pc[q] /\ cur'[q] = cur[q]
    BY Zenon, <1>1, <1>4, <2>1, GotOwns
  <2>3. LockInv' BY Zenon, <1>1, <2>2, SameLocks DEF PanicInv
  <2>4. WorkInv'
    <3> SUFFICES ASSUME NEW q \in Proc, pc'[q] = "iderw" PROVE flags'[cur'[q]] # {"valid"}
      BY Zenon DEF WorkInv
    <3>1. q # p /\ pc[q] = "iderw" /\ cur'[q] = cur[q] BY Zenon, <2>2
    <3>2. cur[q] \in Buf /\ cur[q] # b /\ flags[cur[q]] # {"valid"}
      BY Zenon, <1>1, <3>1 DEF IInv, HoldInv, Holds, PanicInv, WorkInv
    <3> QED BY Zenon, <2>1, <3>1, <3>2 DEF IInv, TypeOK
  <2> QED BY Zenon, <1>1, <1>4, <2>3, <2>4 DEF PanicInv, ListInv
<1> QED BY Zenon, <1>1, <1>2, <1>3, <1>4 DEF CallIderw

\* The loop of iderw() changes no buffer.
LEMMA IderwLoopCalm ==
  ASSUME IInv, PanicInv, NEW p \in Proc, IderwLoop(p) PROVE PanicInv'
<1>1. pc[p] = "iowait" /\ UNCHANGED <<driver, flags, lock, lru, panic>>
  BY Zenon DEF IderwLoop
<1>2. CASE Got(p)
  <2>1. /\ \A c \in Buf, q \in Proc : Owns(q, c) => Owns(q, c)'
        /\ pc'[p] = "run" /\ \A q \in Proc : q # p => pc'[q] = pc[q] /\ cur'[q] = cur[q]
    BY Zenon, <1>1, <1>2, GotOwns
  <2>2. LockInv' BY Zenon, <1>1, <2>1, SameLocks DEF PanicInv
  <2>3. WorkInv' BY Zenon, <1>1, <2>1 DEF PanicInv, WorkInv
  <2> QED BY Zenon, <1>1, <2>2, <2>3 DEF PanicInv, ListInv
<1>3. CASE UNCHANGED procs
  <2>1. LockInv' BY Zenon, <1>1, <1>3, SameLocks DEF PanicInv, Owns, procs
  <2> QED BY Zenon, <2>1, <1>1, <1>3 DEF PanicInv, WorkInv, ListInv, procs
<1> QED BY Zenon, <1>2, <1>3 DEF IderwLoop

\* A write marks its buffer dirty, and bwrite() goes to iderw() with it.
LEMMA WriteCalm ==
  ASSUME IInv, PanicInv, NEW p \in Proc, NEW k \in Used[driver], NEW b \in Buf, NEW v \in Val,
         Bwrite(p, k, b, v) \/ LogWrite(p, k, b, v)
  PROVE  PanicInv'
<1>1. /\ pc[p] = "run" /\ <<k, b>> \in held[p]
      /\ flags' = [flags EXCEPT ![b] = @ \cup {"dirty"}]
      /\ UNCHANGED <<driver, lock, lru, held, panic>>
  BY Zenon DEF Bwrite, LogWrite, procs
<1>2. /\ \A q \in Proc : q # p => pc'[q] = pc[q] /\ cur'[q] = cur[q]
      /\ pc'[p] = "run" \/ (pc'[p] = "iderw" /\ cur'[p] = b)
  BY Zenon, <1>1 DEF Bwrite, LogWrite, procs, IInv, TypeOK
<1>3. /\ flags'[b] # {"valid"}
      /\ \A c \in Buf : flags[c] # {"valid"} => flags'[c] # {"valid"}
  <2>1. "dirty" \in flags'[b] /\ \A c \in Buf : c # b => flags'[c] = flags[c]
    BY Zenon, <1>1 DEF IInv, TypeOK
  <2>2. flags'[b] # {"valid"} BY <2>1
  <2> QED BY Zenon, <2>1, <2>2
<1>4. WorkInv'
  BY Zenon, <1>2, <1>3 DEF PanicInv, WorkInv, IInv, HoldInv, Holds
<1>6. \A c \in Buf, q \in Proc : Owns(q, c) => Owns(q, c)'
  BY <1>1, <1>2 DEF Owns
<1>7. LockInv' BY Zenon, <1>1, <1>6, SameLocks DEF PanicInv
<1> QED BY Zenon, <1>1, <1>4, <1>7 DEF PanicInv, ListInv

\* brelse() gives the lock back with the buffer.
LEMMA BrelseCalm ==
  ASSUME IInv, PanicInv, NEW p \in Proc, NEW k \in Used[driver], NEW b \in Buf, Brelse(p, k, b)
  PROVE  PanicInv'
<1>1. /\ pc[p] = "run" /\ <<k, b>> \in held[p]
      /\ held' = [held EXCEPT ![p] = @ \ {<<k, b>>}]
      /\ lock' = [lock EXCEPT ![b] = Nobody]
      /\ UNCHANGED <<driver, flags, lru, panic>>
  BY Zenon DEF Brelse
<1>2. /\ pc'[p] = "brelse" /\ cur'[p] = b
      /\ \A q \in Proc : q # p => pc'[q] = pc[q] /\ cur'[q] = cur[q] /\ held'[q] = held[q]
  BY Zenon DEF Brelse, IInv, TypeOK
<1>3. WorkInv' BY Zenon, <1>1, <1>2 DEF PanicInv, WorkInv
<1>4. LockInv'
  <2> SUFFICES ASSUME NEW c \in Buf, lock'[c] # Nobody PROVE Owns(lock[c], c)'
    BY Zenon DEF LockInv
  <2>1. c # b /\ lock'[c] = lock[c] BY Zenon, <1>1 DEF IInv, TypeOK
  <2>2. lock[c] \in Proc /\ Owns(lock[c], c)
    BY Zenon, <2>1 DEF IInv, TypeOK, PanicInv, LockInv
  <2>3. \A l \in Used[driver] : <<l, c>> \in held[p] => <<l, c>> \in held'[p]
    <3>1. held'[p] = held[p] \ {<<k, b>>} BY Zenon, <1>1 DEF IInv, TypeOK
    <3>2. \A l : <<l, c>> # <<k, b>> BY <2>1
    <3> QED BY Zenon, <3>1, <3>2
  <2>4. CASE lock[c] = p BY Zenon, <2>4, <2>1, <2>2, <2>3, <1>1 DEF Owns
  <2>5. CASE lock[c] # p BY Zenon, <2>5, <2>1, <2>2, <1>1, <1>2 DEF Owns
  <2> QED BY Zenon, <2>4, <2>5
<1> QED BY Zenon, <1>1, <1>3, <1>4 DEF PanicInv, ListInv

\* Moving a buffer to the head loses none.
LEMMA ToFrontAll ==
  ASSUME NEW s \in [1..NBUF -> Buf], NEW b \in Buf,
         \A c \in Buf : \E i \in 1..NBUF : s[i] = c
  PROVE  \A c \in Buf : \E i \in 1..NBUF : ToFront(s, b)[i] = c
<1> DEFINE at == CHOOSE i \in 1..NBUF : s[i] = b
<1>1. at \in 1..NBUF /\ s[at] = b BY Zenon
<1>2. 1 \in 1..NBUF BY <1>1, BioAssumption
<1> SUFFICES ASSUME NEW c \in Buf PROVE \E i \in 1..NBUF : ToFront(s, b)[i] = c
  BY Zenon
<1>3. PICK j \in 1..NBUF : s[j] = c BY Zenon
<1> DEFINE F(i) == IF i = 1 THEN b ELSE IF i <= at THEN s[i - 1] ELSE s[i]
<1>4. \A i \in 1..NBUF : ToFront(s, b)[i] = F(i) BY Zenon DEF ToFront
<1>5. CASE j = at BY Zenon, <1>1, <1>2, <1>3, <1>4, <1>5
<1>6. CASE j < at
  <2>1. j + 1 \in 1..NBUF /\ j + 1 # 1 /\ j + 1 <= at /\ (j + 1) - 1 = j
    BY <1>1, <1>6, BioAssumption
  <2>2. F(j + 1) = c BY Zenon, <2>1, <1>3
  <2> QED BY Zenon, <2>1, <2>2, <1>4
<1>7. CASE j > at
  <2>1. j # 1 /\ ~(j <= at) BY <1>1, <1>7, BioAssumption
  <2>2. F(j) = c BY Zenon, <2>1, <1>3
  <2> QED BY Zenon, <2>2, <1>4
<1>8. j = at \/ j < at \/ j > at BY <1>1, BioAssumption
<1> QED BY Zenon, <1>5, <1>6, <1>7, <1>8

\* The end of brelse(): who gives back its reference does not have the lock.
LEMMA BrelseDropCalm ==
  ASSUME IInv, PanicInv, NEW p \in Proc, BrelseDrop(p) PROVE PanicInv'
<1>0. PICK b \in Buf : b = cur[p] BY Zenon DEF BrelseDrop, IInv, HoldInv, Holds
<1>1. pc[p] = "brelse" /\ UNCHANGED <<driver, flags, lock, held, panic>>
  BY Zenon DEF BrelseDrop, dvars
<1>2. /\ pc'[p] = "run"
      /\ \A q \in Proc : q # p => pc'[q] = pc[q] /\ cur'[q] = cur[q]
  BY Zenon DEF BrelseDrop, IInv, TypeOK
<1>3. WorkInv' BY Zenon, <1>1, <1>2 DEF PanicInv, WorkInv
<1>4. LockInv'
  <2> SUFFICES ASSUME NEW c \in Buf, lock[c] # Nobody PROVE Owns(lock[c], c)'
    BY Zenon, <1>1 DEF LockInv
  <2>1. lock[c] \in Proc /\ Owns(lock[c], c) BY Zenon DEF IInv, TypeOK, PanicInv, LockInv
  <2>2. CASE lock[c] # p BY Zenon, <2>2, <2>1, <1>1, <1>2 DEF Owns
  <2>3. CASE lock[c] = p
    BY Zenon, <2>3, <2>1, <1>0, <1>1, BioAssumption DEF Owns
  <2> QED BY Zenon, <2>2, <2>3
<1>5. lru \in [1..NBUF -> Buf] BY Zenon DEF IInv, TypeOK
<1>6. lru' = lru \/ lru' = ToFront(lru, b) BY Zenon, <1>0 DEF BrelseDrop
<1>7. ListInv'
  <2>1. \A c \in Buf : \E i \in 1..NBUF : lru[i] = c BY Zenon DEF PanicInv, ListInv
  <2>2. \A c \in Buf : \E i \in 1..NBUF : ToFront(lru, b)[i] = c
    BY Zenon, <1>5, <2>1, ToFrontAll
  <2>3. \A c \in Buf : \E i \in 1..NBUF : lru'[i] = c
    <3>1. CASE lru' = lru BY Zenon, <3>1, <2>1
    <3>2. CASE lru' = ToFront(lru, b) BY Zenon, <3>2, <2>2
    <3> QED BY Zenon, <1>6, <3>1, <3>2
  <2> QED BY Zenon, <2>3 DEF ListInv
<1> QED BY Zenon, <1>1, <1>3, <1>4, <1>7 DEF PanicInv

\* bget() finds a buffer, whose lock, if it is taken, stays with its owner.
LEMMA BgetCalm ==
  ASSUME IInv, PanicInv, NEW p \in Proc, NEW k \in Used[driver], Bget(p, k)
  PROVE  PanicInv'
<1>1. pc[p] = "run" /\ UNCHANGED <<driver, lock, lru, held>> BY Zenon DEF Bget
<1>2. Victims # {} BY Zenon, VictimFound DEF Bget
<1>3. PICK b \in Buf : /\ pc' = [pc EXCEPT ![p] = "lock"] /\ UNCHANGED panic
                       /\ cur' = [cur EXCEPT ![p] = b]
                       /\ flags' = flags \/ flags' = [flags EXCEPT ![b] = {}]
  <2>1. lru[Max(Victims)] \in Buf BY Zenon, <1>2, LastVictim DEF Victims, IInv, TypeOK
  <2> QED BY Zenon, <1>2, <2>1 DEF Bget, Cached
<1>4. /\ pc'[p] = "lock"
      /\ \A q \in Proc : q # p => pc'[q] = pc[q] /\ cur'[q] = cur[q]
      /\ \A c \in Buf : flags'[c] = {"valid"} => flags[c] = {"valid"}
  <2>1. \A c \in Buf : flags'[c] = flags[c] \/ flags'[c] = {} BY Zenon, <1>3 DEF IInv, TypeOK
  <2> QED BY Zenon, <1>3, <2>1 DEF IInv, TypeOK
<1>5. WorkInv'
  <2> SUFFICES ASSUME NEW q \in Proc, pc'[q] = "iderw" PROVE flags'[cur'[q]] # {"valid"}
    BY Zenon DEF WorkInv
  <2>1. q # p BY <1>4
  <2>2. pc[q] = "iderw" /\ cur'[q] = cur[q] BY Zenon, <1>4, <2>1
  <2>3. cur[q] \in Buf BY <2>2 DEF IInv, HoldInv, Holds
  <2>4. flags[cur[q]] # {"valid"} BY Zenon, <2>2 DEF PanicInv, WorkInv
  <2> QED BY Zenon, <1>4, <2>2, <2>3, <2>4
<1>6. \A c \in Buf, q \in Proc : Owns(q, c) => Owns(q, c)' BY <1>1, <1>4 DEF Owns
<1>7. LockInv' BY Zenon, <1>1, <1>6, SameLocks DEF PanicInv
<1> QED BY Zenon, <1>1, <1>3, <1>5, <1>7 DEF PanicInv, ListInv

\* Every step keeps the kernel from its panics.
LEMMA NextCalm == ASSUME IInv, PanicInv, [Next]_vars PROVE PanicInv'
<1>1. CASE UNCHANGED vars
  BY Zenon, <1>1 DEF vars, dvars, procs, PanicInv, WorkInv, LockInv, ListInv, Owns
<1>2. CASE Hardware BY Zenon, <1>2, HardwareCalm
<1>3. ASSUME NEW p \in Proc, Continue(p) PROVE PanicInv'
  BY Zenon, <1>3, AcquiresleepCalm, CallIderwCalm, IderwLoopCalm, BrelseDropCalm DEF Continue
<1>4. ASSUME NEW p \in Proc, Call(p) PROVE PanicInv'
  BY Zenon, <1>4, BgetCalm, WriteCalm, BrelseCalm DEF Call, Leave
<1> QED BY Zenon, <1>1, <1>2, <1>3, <1>4 DEF Next

\* binit() puts every buffer into the list.
LEMMA InitCalm == ASSUME Init PROVE PanicInv
<1>1. ListInv
  <2> SUFFICES ASSUME NEW b \in Buf PROVE \E i \in 1..NBUF : lru[i] = b BY Zenon DEF ListInv
  <2>1. NBUF + 1 - b \in 1..NBUF /\ NBUF + 1 - (NBUF + 1 - b) = b BY BioAssumption DEF Buf
  <2> QED BY Zenon, <2>1 DEF Init
<1> QED BY Zenon, <1>1 DEF Init, PanicInv, WorkInv, LockInv

\* bget() finds a buffer for every caller that takes its buffers as fs.c and
\* log.c do, and iderw() is called with a locked buffer that is not up to date:
\* the panics of bio.c and of the drivers are not reached, for every number of
\* buffers, blocks and processes.
THEOREM CacheNeverPanics == Spec => []NeverPanics
<1>1. Init => PanicInv BY Zenon, InitCalm
<1>2. IInv /\ PanicInv /\ [Next]_vars => PanicInv' BY Zenon, NextCalm
<1>3. PanicInv => NeverPanics BY Zenon DEF PanicInv, NeverPanics
<1> QED BY <1>1, <1>2, <1>3, Invariance, PTL DEF Spec

-----------------------------------------------------------------------------
(* The cache implements a store of blocks                                  *)

ValidOf(k, b) == bno[b] = k /\ "valid" \in flags[b]

\* v is what block k is worth: what its valid buffer has, else what the disk has.
Worth(k, v) ==
  /\ \A b \in Buf : ValidOf(k, b) => v = data[b]
  /\ (\A b \in Buf : ~ValidOf(k, b)) => v = disk[k]

StoreWorth == \A k \in Block : Worth(k, Current(k)) /\ Current(k) \in Val

HolderHas ==
  \A k \in Block : /\ Holding(k) = {} => Holder[k] = Nobody
                   /\ \A p \in Proc : p \in Holding(k) => Holder[k] = p

\* Current(k) is what the valid buffer of the block has, since whoever holds the
\* block holds that buffer.
LEMMA CurrentWorth == IInv => StoreWorth
<1> SUFFICES ASSUME IInv, NEW k \in Block PROVE Worth(k, Current(k)) /\ Current(k) \in Val
  BY Zenon DEF StoreWorth
<1> DEFINE seen == {b \in Buf : \E p \in Proc : <<k, b>> \in held[p]}
           kept == IF seen # {} THEN seen ELSE {b \in Cached(k) : "valid" \in flags[b]}
<1>1. k # NoBlock /\ disk[k] \in Val
  BY BioAssumption DEF Block, NoBlock, IInv, TypeOK
<1>2. ASSUME NEW b \in Buf, NEW p \in Proc, <<k, b>> \in held[p] PROVE ValidOf(k, b)
  <2>1. k \in Used[driver] BY <1>2 DEF IInv, TypeOK
  <2> QED BY <1>2, <2>1 DEF IInv, HoldInv, Holds, ValidOf
<1>3. \A b, c \in Buf : ValidOf(k, b) /\ ValidOf(k, c) => b = c
  BY Zenon, <1>1 DEF IInv, CountInv, ValidOf
<1>4. \A b \in kept : b \in Buf /\ ValidOf(k, b)
  BY Zenon, <1>2 DEF Cached, ValidOf
<1>5. kept = {} => \A b \in Buf : ~ValidOf(k, b)
  BY Zenon DEF Cached, ValidOf
<1>6. Current(k) = IF kept = {} THEN disk[k] ELSE data[CHOOSE b \in kept : TRUE]
  BY Zenon DEF Current
<1>7. CASE kept = {} BY Zenon, <1>1, <1>5, <1>6, <1>7 DEF Worth
<1>8. CASE kept # {}
  <2>1. (CHOOSE c \in kept : TRUE) \in kept BY Zenon, <1>8
  <2>2. PICK b \in kept : Current(k) = data[b] BY Zenon, <1>6, <1>8, <2>1
  <2>3. b \in Buf /\ ValidOf(k, b) BY Zenon, <1>4
  <2>4. data[b] \in Val BY Zenon, <2>3 DEF IInv, TypeOK
  <2>5. Worth(k, data[b]) BY Zenon, <1>3, <2>3 DEF Worth
  <2> QED BY Zenon, <2>2, <2>4, <2>5
<1> QED BY Zenon, <1>7, <1>8

\* The holder of a block is who has it.
LEMMA HolderIs == IInv => HolderHas
<1> SUFFICES ASSUME IInv, NEW k \in Block
             PROVE  /\ Holding(k) = {} => Holder[k] = Nobody
                    /\ \A p \in Proc : p \in Holding(k) => Holder[k] = p
  BY Zenon DEF HolderHas
<1>1. k # NoBlock BY BioAssumption DEF Block, NoBlock
<1>2. Holder[k] = IF Holding(k) = {} THEN Nobody ELSE CHOOSE p \in Holding(k) : TRUE
  BY Zenon DEF Holder
<1>3. \A p, q \in Holding(k) : p = q
  <2> SUFFICES ASSUME NEW p \in Holding(k), NEW q \in Holding(k) PROVE p = q
    BY Zenon
  <2>1. p \in Proc /\ q \in Proc BY Zenon DEF Holding
  <2>2. PICK b \in Buf : <<k, b>> \in held[p] BY Zenon DEF Holding
  <2>3. PICK c \in Buf : <<k, c>> \in held[q] BY Zenon DEF Holding
  <2>4. k \in Used[driver] BY <2>1, <2>2 DEF IInv, TypeOK
  <2>5. bno[b] = k /\ lock[b] = p /\ bno[c] = k /\ lock[c] = q
    BY <2>1, <2>2, <2>3, <2>4 DEF IInv, HoldInv, Holds
  <2> QED BY Zenon, <1>1, <2>5 DEF IInv, CountInv
<1> QED BY Zenon, <1>2, <1>3

\* A step that changes no block's worth changes nothing of the store.
LEMMA StoreKept ==
  ASSUME IInv, IInv', \A k \in Block : \A v : Worth(k, v) => Worth(k, v)'
  PROVE  Store' = Store
<1>1. (IInv => StoreWorth)' BY CurrentWorth, PTL
<1>2. ASSUME NEW k \in Block PROVE Current(k)' = Current(k)
  <2>1. PICK v : v = Current(k) /\ Worth(k, v) BY Zenon, CurrentWorth DEF StoreWorth
  <2>2. PICK w : w = Current(k)' /\ Worth(k, w)' BY Zenon, <1>1 DEF StoreWorth
  <2>3. Worth(k, v)' BY Zenon, <2>1
  <2>4. v = w BY <2>2, <2>3 DEF Worth
  <2> QED BY Zenon, <2>1, <2>2, <2>4
<1> QED BY Zenon, <1>2 DEF Store

\* A step after which everybody holds what they held changes no holder.
LEMMA HolderKept ==
  ASSUME \A q \in Proc : held'[q] = held[q] PROVE Holder' = Holder
<1>1. ASSUME NEW k \in Block PROVE Holder'[k] = Holder[k]
  <2>1. Holding(k)' = Holding(k) BY Zenon DEF Holding
  <2> QED BY <2>1 DEF Holder
<1>2. /\ Holder = [k \in Block |-> Holder[k]]
      /\ Holder' = [k \in Block |-> Holder'[k]]
  BY DEF Holder
<1> QED BY Zenon, <1>1, <1>2

\* The worth of a block depends on its buffer and the disk.
LEMMA SameWorth ==
  ASSUME UNCHANGED <<bno, flags, data, disk>>
  PROVE  \A k \in Block : \A v : Worth(k, v) => Worth(k, v)'
BY Zenon DEF Worth, ValidOf

\* The disk takes what a dirty buffer has, which is what the block is worth.
LEMMA ControllerWorth ==
  ASSUME IInv, Controller
  PROVE  \A k \in Block : \A v : Worth(k, v) => Worth(k, v)'
<1>1. UNCHANGED <<bno, flags, data>> BY Zenon DEF Controller
<1>2. CASE disk' = disk BY Zenon, <1>1, <1>2, SameWorth
<1>3. CASE cmd.write
  <2>1. PICK b \in Buf : /\ disk' = [disk EXCEPT ![bno[b]] = data[b]]
                         /\ bno[b] \in Block /\ "valid" \in flags[b]
    BY Zenon, <1>3, FirstRequest DEF Controller, IInv, DataInv
  <2>2. \A k \in Block : k # bno[b] => disk'[k] = disk[k]
    BY Zenon, <2>1 DEF IInv, TypeOK
  <2> QED BY Zenon, <1>1, <2>1, <2>2 DEF Worth, ValidOf
<1> QED BY Zenon, <1>2, <1>3 DEF Controller

\* A buffer that becomes valid has what the disk has, or what it had when it was
\* dirty.
LEMMA ValidWorth ==
  ASSUME IInv, NEW b \in Buf, bno[b] \in Block, flags[b] # {"valid"}, bno' = bno,
         flags' = [flags EXCEPT ![b] = {"valid"}],
         \/ /\ "dirty" \in flags[b] /\ data' = data
            /\ \A k \in Block : k # bno[b] => disk'[k] = disk[k]
         \/ /\ "dirty" \notin flags[b] /\ disk' = disk
            /\ data' = [data EXCEPT ![b] = disk[bno[b]]]
  PROVE  \A k \in Block : \A v : Worth(k, v) => Worth(k, v)'
<1> SUFFICES ASSUME NEW k \in Block, NEW v, Worth(k, v) PROVE Worth(k, v)'
  BY Zenon
<1>0. bno[b] # NoBlock BY BioAssumption DEF Block, NoBlock
<1>1. /\ flags'[b] = {"valid"} /\ ValidOf(bno[b], b)'
      /\ \A c \in Buf : c # b => flags'[c] = flags[c] /\ data'[c] = data[c]
  BY DEF IInv, TypeOK, ValidOf
<1>2. \A c \in Buf : ValidOf(bno[b], c)' => c = b
  BY Zenon, <1>0 DEF ValidOf, IInv, CountInv
<1>3. CASE k # bno[b]
  <2>1. \A c \in Buf : c # b => (ValidOf(k, c)' <=> ValidOf(k, c)) BY Zenon, <1>1 DEF ValidOf
  <2>2. ~ValidOf(k, b)' /\ ~ValidOf(k, b) BY Zenon, <1>3 DEF ValidOf
  <2>3. disk'[k] = disk[k] BY Zenon, <1>3
  <2> QED BY Zenon, <1>1, <2>1, <2>2, <2>3 DEF Worth
<1>4. CASE k = bno[b] /\ "dirty" \in flags[b]
  <2>1. ValidOf(k, b) BY Zenon, <1>4 DEF ValidOf, IInv, DataInv
  <2> QED BY Zenon, <1>1, <1>2, <1>4, <2>1 DEF Worth
<1>5. CASE k = bno[b] /\ "dirty" \notin flags[b]
  <2>1. "valid" \notin flags[b] BY <1>5 DEF IInv, TypeOK
  <2>2. \A c \in Buf : ~ValidOf(k, c) BY Zenon, <1>0, <1>5, <2>1 DEF ValidOf, IInv, CountInv
  <2>3. data'[b] = disk[k] BY Zenon, <1>5 DEF IInv, TypeOK
  <2> QED BY Zenon, <1>1, <1>2, <1>5, <2>2, <2>3 DEF Worth
<1> QED BY Zenon, <1>3, <1>4, <1>5

\* A buffer that bget() recycles has what the disk has, if anything.
LEMMA RecycledWorth ==
  ASSUME IInv, NEW b \in Buf, NEW l \in Block, Cached(l) = {}, "dirty" \notin flags[b],
         bno' = [bno EXCEPT ![b] = l], flags' = [flags EXCEPT ![b] = {}],
         UNCHANGED <<data, disk>>
  PROVE  \A k \in Block : \A v : Worth(k, v) => Worth(k, v)'
<1> SUFFICES ASSUME NEW k \in Block, NEW v, Worth(k, v) PROVE Worth(k, v)'
  BY Zenon
<1>0. k # NoBlock BY BioAssumption DEF Block, NoBlock
<1>1. /\ ~ValidOf(k, b)'
      /\ \A c \in Buf : c # b => (ValidOf(k, c)' <=> ValidOf(k, c))
  BY Zenon DEF ValidOf, IInv, TypeOK
<1>2. CASE ~ValidOf(k, b)
  BY Zenon, <1>1, <1>2 DEF Worth
<1>3. CASE ValidOf(k, b)
  <2>1. flags[b] = {"valid"} BY Zenon, <1>3 DEF ValidOf, IInv, TypeOK
  <2>2. v = disk[k] BY Zenon, <1>3, <2>1 DEF Worth, ValidOf, IInv, DataInv, CleanOnDisk
  <2>3. \A c \in Buf : c # b => ~ValidOf(k, c) BY Zenon, <1>0, <1>3 DEF ValidOf, IInv, CountInv
  <2> QED BY Zenon, <1>1, <2>2, <2>3 DEF Worth
<1> QED BY Zenon, <1>2, <1>3


\* bread() or bwrite() returns: the process has got the block, which nobody had,
\* or still has it.
LEMMA GotStep ==
  ASSUME IInv, IInv', NEW p \in Proc, pc[p] # "run", Got(p), Store' = Store,
         lock[cur[p]] \in {Nobody, p}
  PROVE  [Blocks!SNext]_(Blocks!svars)
<1>1. PICK k \in Used[driver], b \in Buf : k = want[p] /\ b = cur[p] /\ bno[b] = k
  BY DEF IInv, HoldInv, Holds
<1>2. k \in Block /\ k # NoBlock BY Zenon, Reached DEF IInv, TypeOK
<1>3. /\ held'[p] = held[p] \cup {<<k, b>>}
      /\ \A q \in Proc : q # p => held'[q] = held[q]
  BY Zenon, <1>1 DEF Got, IInv, TypeOK
<1>4. CASE <<k, b>> \in held[p]
  <2>1. \A q \in Proc : held'[q] = held[q] BY Zenon, <1>3, <1>4
  <2> QED BY Zenon, <2>1, HolderKept DEF Blocks!svars
<1>5. CASE <<k, b>> \notin held[p]
  <2>1. Holding(k) = {}
    <3> SUFFICES ASSUME NEW q \in Proc, NEW c \in Buf, <<k, c>> \in held[q] PROVE FALSE
      BY Zenon DEF Holding
    <3>1. bno[c] = k /\ lock[c] = q BY DEF IInv, HoldInv, Holds
    <3>2. c = b BY Zenon, <3>1, <1>1, <1>2 DEF IInv, CountInv
    <3> QED BY Zenon, <3>1, <3>2, <1>1, <1>5, BioAssumption
  <2>2. Holder[k] = Nobody BY Zenon, <2>1, <1>2, HolderIs DEF HolderHas
  <2>3. Holder'[k] = p
    <3>1. (IInv => HolderHas)' BY HolderIs, PTL
    <3>2. p \in Holding(k)' BY Zenon, <1>3 DEF Holding
    <3> QED BY Zenon, <3>1, <3>2, <1>2 DEF HolderHas
  <2>4. ASSUME NEW l \in Block, l # k PROVE Holder'[l] = Holder[l]
    <3>1. \A q \in Proc, c \in Buf : <<l, c>> \in held'[q] <=> <<l, c>> \in held[q]
      BY <1>3, <2>4
    <3>2. Holding(l)' = Holding(l) BY Zenon, <3>1 DEF Holding
    <3> QED BY <3>2 DEF Holder
  <2>5. Holder' = [Holder EXCEPT ![k] = p]
    <3>1. /\ Holder = [l \in Block |-> Holder[l]]
          /\ Holder' = [l \in Block |-> Holder'[l]]
      BY DEF Holder
    <3> QED BY Zenon, <3>1, <2>3, <2>4
  <2>6. Blocks!Get(p, k) BY Zenon, <2>2, <2>5 DEF Blocks!Get
  <2> QED BY Zenon, <1>2, <2>6 DEF Blocks!SNext
<1> QED BY Zenon, <1>4, <1>5

\* The holder of a block changes what it is worth, and of no other block.
LEMMA PutStep ==
  ASSUME IInv, IInv', NEW p \in Proc, NEW k \in Used[driver], NEW b \in Buf, NEW v \in Val,
         <<k, b>> \in held[p], data' = [data EXCEPT ![b] = v],
         flags' = [flags EXCEPT ![b] = @ \cup {"dirty"}],
         UNCHANGED <<bno, disk, held>>
  PROVE  [Blocks!SNext]_(Blocks!svars)
<1>1. k \in Block /\ k # NoBlock BY Zenon, Reached DEF IInv, TypeOK
<1>2. bno[b] = k /\ "valid" \in flags[b] BY DEF IInv, HoldInv, Holds
<1>3. Holder[k] = p
  <2>1. p \in Holding(k) BY Zenon DEF Holding
  <2> QED BY Zenon, <2>1, <1>1, HolderIs DEF HolderHas
<1>4. /\ data'[b] = v /\ "valid" \in flags'[b]
      /\ \A c \in Buf : c # b => data'[c] = data[c] /\ flags'[c] = flags[c]
  BY Zenon, <1>2 DEF IInv, TypeOK
<1>5. (IInv => StoreWorth)' BY CurrentWorth, PTL
<1>6. Current(k)' = v
  <2>1. PICK w : w = Current(k)' /\ Worth(k, w)' BY Zenon, <1>1, <1>5 DEF StoreWorth
  <2>2. ValidOf(k, b)' BY Zenon, <1>2, <1>4 DEF ValidOf
  <2> QED BY Zenon, <2>1, <2>2, <1>4 DEF Worth
<1>7. ASSUME NEW l \in Block, l # k PROVE Current(l)' = Current(l)
  <2>1. PICK u : u = Current(l) /\ Worth(l, u) BY Zenon, CurrentWorth DEF StoreWorth
  <2>2. PICK w : w = Current(l)' /\ Worth(l, w)' BY Zenon, <1>5 DEF StoreWorth
  <2>3. \A c \in Buf : /\ ValidOf(l, c)' <=> ValidOf(l, c)
                       /\ ValidOf(l, c) => data'[c] = data[c]
    BY Zenon, <1>2, <1>4, <1>7 DEF ValidOf
  <2>4. u = w BY <2>1, <2>2, <2>3 DEF Worth
  <2> QED BY Zenon, <2>1, <2>2, <2>4
<1>8. Store' = [Store EXCEPT ![k] = v] BY Zenon, <1>1, <1>6, <1>7 DEF Store
<1>9. Blocks!Put(p, k, v) BY Zenon, <1>3, <1>8, HolderKept DEF Blocks!Put
<1> QED BY Zenon, <1>1, <1>9 DEF Blocks!SNext

\* brelse(): nobody has the block.
LEMMA ReleaseStep ==
  ASSUME IInv, IInv', NEW p \in Proc, NEW k \in Used[driver], NEW b \in Buf, Brelse(p, k, b)
  PROVE  [Blocks!SNext]_(Blocks!svars)
<1>1. k \in Block /\ k # NoBlock BY Zenon, Reached DEF IInv, TypeOK
<1>2. <<k, b>> \in held[p] BY Zenon DEF Brelse
<1>3. Store' = Store BY Zenon, SameWorth, StoreKept DEF Brelse
<1>4. /\ held'[p] = held[p] \ {<<k, b>>}
      /\ \A q \in Proc : q # p => held'[q] = held[q]
  BY Zenon DEF Brelse, IInv, TypeOK
<1>5. Holder[k] = p
  <2>1. p \in Holding(k) BY Zenon, <1>2 DEF Holding
  <2> QED BY Zenon, <2>1, <1>1, HolderIs DEF HolderHas
<1>6. Holder'[k] = Nobody
  <2>1. Holding(k)' = {}
    <3> SUFFICES ASSUME NEW q \in Proc, NEW c \in Buf, <<k, c>> \in held'[q] PROVE FALSE
      BY Zenon DEF Holding
    <3>1. <<k, c>> \in held[q] BY Zenon, <1>4
    <3>2. bno[c] = k /\ bno[b] = k /\ lock[c] = q /\ lock[b] = p
      BY <1>2, <3>1 DEF IInv, HoldInv, Holds
    <3>3. c = b BY Zenon, <3>2, <1>1 DEF IInv, CountInv
    <3> QED BY Zenon, <3>2, <3>3, <1>4
  <2> QED BY Zenon, <2>1, <1>1 DEF Holder
<1>7. ASSUME NEW l \in Block, l # k PROVE Holder'[l] = Holder[l]
  <2>1. Holding(l)' = Holding(l) BY Zenon, <1>4, <1>7 DEF Holding
  <2> QED BY <2>1 DEF Holder
<1>8. Holder' = [Holder EXCEPT ![k] = Nobody] BY Zenon, <1>6, <1>7 DEF Holder
<1>9. Blocks!Release(p, k) BY Zenon, <1>3, <1>5, <1>8 DEF Blocks!Release
<1> QED BY Zenon, <1>1, <1>9 DEF Blocks!SNext


\* A step of which the store sees nothing.
LEMMA QuietStep ==
  ASSUME IInv, IInv', UNCHANGED held, \A k \in Block : \A v : Worth(k, v) => Worth(k, v)'
  PROVE  [Blocks!SNext]_(Blocks!svars)
BY Zenon, StoreKept, HolderKept DEF Blocks!svars

\* The interrupt handlers.
LEMMA CompleteQuiet ==
  ASSUME IInv, IInv', NEW c, NEW next, Complete(c, next), UNCHANGED held
  PROVE  [Blocks!SNext]_(Blocks!svars)
<1>1. PICK b \in Buf : b = idequeue[1] /\ bno[b] \in Block /\ flags[b] # {"valid"}
                       /\ cmd.at = bno[b]
  BY Zenon, FirstRequest DEF Complete
<1>2. Head(idequeue) = b BY <1>1 DEF Complete, IInv, TypeOK
<1>3. /\ flags' = [flags EXCEPT ![b] = {"valid"}] /\ UNCHANGED <<bno, disk>>
      /\ data' = IF "dirty" \notin flags[b] THEN [data EXCEPT ![b] = disk[cmd.at]] ELSE data
  BY Zenon, <1>2, BioAssumption DEF Complete
<1> QED BY Zenon, <1>1, <1>3, ValidWorth, QuietStep

\* A step of the cache is a step of the store of blocks, or none.
LEMMA NextRefines ==
  ASSUME IInv, IInv', [Next]_vars PROVE [Blocks!SNext]_(Blocks!svars)
<1>1. CASE UNCHANGED vars
  BY Zenon, <1>1, SameWorth, QuietStep DEF vars, dvars, procs
<1>2. CASE Hardware
  <2>1. CASE Controller /\ UNCHANGED procs
    BY Zenon, <2>1, ControllerWorth, QuietStep DEF procs
  <2>2. CASE Ideintr /\ UNCHANGED procs
    BY Zenon, <2>2, CompleteQuiet DEF procs, Ideintr
  <2>3. CASE Ideintr2 /\ UNCHANGED procs
    BY Zenon, <2>3, CompleteQuiet DEF procs, Ideintr2
  <2> QED BY Zenon, <1>2, <2>1, <2>2, <2>3 DEF Hardware
<1>3. ASSUME NEW p \in Proc, Acquiresleep(p) PROVE [Blocks!SNext]_(Blocks!svars)
  <2>1. UNCHANGED <<bno, flags, data, disk>> /\ pc[p] = "lock" BY Zenon, <1>3 DEF Acquiresleep
  <2>2. UNCHANGED held \/ (Got(p) /\ lock[cur[p]] = Nobody)
    BY Zenon, <1>3 DEF Acquiresleep, Bread, procs
  <2> QED BY Zenon, <2>1, <2>2, SameWorth, StoreKept, QuietStep, GotStep
<1>4. ASSUME NEW p \in Proc, IderwLoop(p) PROVE [Blocks!SNext]_(Blocks!svars)
  <2>1. UNCHANGED <<bno, flags, data, disk>> /\ pc[p] = "iowait" BY Zenon, <1>4 DEF IderwLoop
  <2>2. UNCHANGED held \/ Got(p) BY Zenon, <1>4 DEF IderwLoop, procs
  <2>3. lock[cur[p]] = p BY Zenon, <2>1 DEF IInv, HoldInv, Holds
  <2> QED BY Zenon, <2>1, <2>2, <2>3, SameWorth, StoreKept, QuietStep, GotStep
<1>5. ASSUME NEW p \in Proc, CallIderw(p) PROVE [Blocks!SNext]_(Blocks!svars)
  <2>1. CASE UNCHANGED <<bno, flags, data, disk, held>>
    BY Zenon, <2>1, SameWorth, QuietStep
  <2>2. CASE flags[cur[p]] # {"valid"} /\ IderwMem(cur[p]) /\ Got(p) /\ pc[p] = "iderw"
    <3>1. PICK b \in Buf : b = cur[p] /\ lock[b] = p /\ bno[b] \in Block
      <4>1. cur[p] \in Buf /\ lock[cur[p]] = p /\ bno[cur[p]] \in Used[driver]
        BY <2>2 DEF IInv, HoldInv, Holds
      <4>2. bno[cur[p]] \in Block BY <4>1, Reached DEF IInv, TypeOK
      <4> QED BY Zenon, <4>1, <4>2
    <3>2. \A k \in Block : \A v : Worth(k, v) => Worth(k, v)'
      <4>1. CASE "dirty" \in flags[b]
        <5>1. /\ flags' = [flags EXCEPT ![b] = {"valid"}] /\ UNCHANGED <<bno, data>>
              /\ disk' = [disk EXCEPT ![bno[b]] = data[b]]
          BY Zenon, <2>2, <3>1, <4>1 DEF IderwMem
        <5>2. \A k \in Block : k # bno[b] => disk'[k] = disk[k]
          BY Zenon, <5>1 DEF IInv, TypeOK
        <5> QED BY Zenon, <2>2, <3>1, <4>1, <5>1, <5>2, ValidWorth
      <4>2. CASE "dirty" \notin flags[b]
        BY Zenon, <2>2, <3>1, <4>2, ValidWorth DEF IderwMem
      <4> QED BY Zenon, <4>1, <4>2
    <3> QED BY Zenon, <2>2, <3>1, <3>2, StoreKept, GotStep
  <2> QED BY Zenon, <1>5, <2>1, <2>2 DEF CallIderw, Iderw, dvars, procs
<1>6. ASSUME NEW p \in Proc, BrelseDrop(p) PROVE [Blocks!SNext]_(Blocks!svars)
  BY Zenon, <1>6, SameWorth, QuietStep DEF BrelseDrop, dvars
<1>7. ASSUME NEW p \in Proc, NEW k \in Used[driver], Bget(p, k)
      PROVE  [Blocks!SNext]_(Blocks!svars)
  <2>1. UNCHANGED <<data, disk, held>> BY Zenon, <1>7 DEF Bget
  <2>2. CASE UNCHANGED <<bno, flags>>
    BY Zenon, <2>1, <2>2, SameWorth, QuietStep
  <2>3. CASE Cached(k) = {} /\ Victims # {}
    <3>1. PICK b \in Buf : b = lru[Max(Victims)] /\ "dirty" \notin flags[b]
      BY Zenon, <2>3, LastVictim DEF Victims, IInv, TypeOK
    <3>2. bno' = [bno EXCEPT ![b] = k] /\ flags' = [flags EXCEPT ![b] = {}]
      BY Zenon, <1>7, <2>3, <3>1 DEF Bget
    <3>3. k \in Block BY Zenon, Reached DEF IInv, TypeOK
    <3> QED BY Zenon, <2>1, <2>3, <3>1, <3>2, <3>3, RecycledWorth, QuietStep
  <2> QED BY Zenon, <1>7, <2>2, <2>3 DEF Bget
<1>8. ASSUME NEW p \in Proc, NEW k \in Used[driver], NEW b \in Buf, NEW v \in Val,
             Bwrite(p, k, b, v) \/ LogWrite(p, k, b, v)
      PROVE  [Blocks!SNext]_(Blocks!svars)
  BY Zenon, <1>8, PutStep DEF Bwrite, LogWrite, procs
<1>9. ASSUME NEW p \in Proc PROVE Continue(p) \/ Call(p) => [Blocks!SNext]_(Blocks!svars)
  BY Zenon, <1>3, <1>4, <1>5, <1>6, <1>7, <1>8, ReleaseStep DEF Continue, Call, Leave
<1> QED BY Zenon, <1>1, <1>2, <1>9 DEF Next

\* The cache starts as a store that nobody holds a block of.
LEMMA InitRefines == ASSUME Init PROVE Blocks!SInit
<1>1. IInv BY Zenon, InitKeeps
<1>2. Store \in [Block -> Val] BY Zenon, <1>1, CurrentWorth DEF Store, StoreWorth
<1>3. \A k \in Block : Holding(k) = {} BY Zenon DEF Holding, Init
<1>4. Holder = [k \in Block |-> Nobody] BY Zenon, <1>3 DEF Holder
<1> QED BY Zenon, <1>2, <1>4 DEF Blocks!SInit

\* bio.c:1-16, for every number of buffers, blocks and processes: the buffers,
\* their locks and counts and the disk are a store in which one process at a time
\* has a block, and gets what the last one left.
THEOREM Coherence == Spec => CoherentBlocks
<1>1. Init => Blocks!SInit BY InitRefines
<1>2. IInv /\ IInv' /\ [Next]_vars => [Blocks!SNext]_(Blocks!svars) BY Zenon, NextRefines
<1> QED BY <1>1, <1>2, Invariance, PTL DEF Spec, CoherentBlocks, Blocks!SSpec
=============================================================================
