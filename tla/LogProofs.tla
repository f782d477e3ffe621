----------------------------- MODULE LogProofs ------------------------------
(***************************************************************************)
(* The inductive invariant of Log, that every step keeps it, and the       *)
(* theorems that follow from it, for every number of processes, blocks and *)
(* values and every log size that satisfies LogAssumption.                 *)
(***************************************************************************)
EXTENDS Log, FiniteSetTheorems, TLAPS

Injective(s) == \A i, j \in DOMAIN s : s[i] = s[j] => i = j

\* The stages of commit() and of recovery, and who may be active in them.
StageInv ==
  /\ committing = 1 => stage \in {"write_log", "write_head", "install", "clear_head", "done"}
  /\ committing = 0 => stage \in {"read_head", "install", "clear_head", "idle"}
  /\ ~Booted => \A p \in Proc : pc[p] = "out"
  /\ committing = 1 => Active = {}

\* The buffers held inside log_write.
HeldInv ==
  /\ \A p \in Proc : pc[p] = "log_write" => \E b \in Block : held[p] = {b}
  /\ \A p \in Proc : pc[p] # "log_write" => held[p] = {}

\* The headers name each block once and fit the log.
HeadInv ==
  /\ Injective(lh) /\ Injective(dhead)
  /\ Len(dhead) <= LOGSIZE
  /\ stage \in {"idle", "write_log", "write_head", "done"} => dhead = <<>>
  /\ stage \in {"read_head", "done"} => lh = <<>>
  /\ stage \in {"install", "clear_head"} => dhead = lh

\* What the log and the home locations hold in each stage.
DataInv ==
  /\ stage = "write_log" =>
       /\ tail \in 1..Len(lh)
       /\ \A i \in 1..(tail - 1) : dlog[i] = cache[lh[i]]
  /\ stage = "write_head" =>
       /\ tail = 1
       /\ \A i \in 1..Len(lh) : dlog[i] = cache[lh[i]]
  /\ stage = "install" =>
       /\ tail \in 1..(Len(lh) + 1)
       /\ \A i \in 1..(tail - 1) : home[lh[i]] = dlog[i]
       /\ committing = 1 => \A i \in 1..Len(lh) : cache[lh[i]] = dlog[i]
  /\ stage = "clear_head" => \A i \in 1..Len(lh) : home[lh[i]] = dlog[i]
  /\ stage = "read_head" => cache = home

\* A dirty buffer belongs to the transaction and is not installed yet.
DirtyInv ==
  /\ dirty \subseteq Entries(lh)
  /\ stage = "install" => \A b \in dirty : \E i \in tail..Len(lh) : lh[i] = b
  /\ stage \in {"clear_head", "done", "read_head"} => dirty = {}
  /\ CleanBufferOnDisk

\* The log blocks that begin_op has reserved and the calls in progress have
\* not used yet.
Reserved ==
  {r \in Proc \X (1..MAXOPBLOCKS) :
     r[1] \in Active /\ r[2] > Cardinality(wrote[r[1]])}

SpaceInv ==
  /\ outstanding = Cardinality(Active)
  /\ \A p \in Proc : IsFiniteSet(wrote[p])
  /\ \A p \in Active : /\ wrote[p] \subseteq Entries(lh)
                       /\ Cardinality(wrote[p] \cup held[p]) <= OPBLOCKS
  /\ Len(lh) + Cardinality(Reserved) <= LOGSIZE

IInv == TypeOK /\ StageInv /\ HeldInv /\ HeadInv /\ DataInv /\ DirtyInv /\ SpaceInv

-----------------------------------------------------------------------------

\* After boot, with the log empty, the state has its type.
LEMMA TypeInit == Init => TypeOK
BY LogAssumption DEF Init, TypeOK

\* log_write() at the end of the header adds one block to the blocks logged.
LEMMA AppendEntries ==
  ASSUME NEW S, NEW s \in Seq(S), NEW e \in S
  PROVE  Entries(Append(s, e)) = Entries(s) \cup {e}
<1>1. DOMAIN Append(s, e) = (DOMAIN s) \cup {Len(s) + 1}
  OBVIOUS
<1>2. \A i \in DOMAIN s : Append(s, e)[i] = s[i]
  OBVIOUS
<1>3. Append(s, e)[Len(s) + 1] = e
  OBVIOUS
<1> QED BY <1>1, <1>2, <1>3, Zenon DEF Entries

\* Log absorption: appending a block that is not in the header keeps its
\* entries distinct.
LEMMA AppendInjective ==
  ASSUME NEW S, NEW s \in Seq(S), NEW e \in S, e \notin Entries(s), Injective(s)
  PROVE  Injective(Append(s, e))
BY DEF Entries, Injective

\* The sets whose sizes SpaceInv speaks of are finite, and the log's entries
\* fit its blocks on the disk.
LEMMA SpaceFacts ==
  ASSUME IInv
  PROVE  /\ IsFiniteSet(Active) /\ Cardinality(Active) \in Nat
         /\ IsFiniteSet(Reserved) /\ Cardinality(Reserved) \in Nat
         /\ Len(lh) \in Nat /\ Len(lh) <= LOGSIZE
         /\ \A p \in Proc : pc[p] = "op" => outstanding >= 1
<1> USE LogAssumption
<1>1. IsFiniteSet(Active) /\ Cardinality(Active) \in Nat
  BY Zenon, FS_Subset, FS_CardinalityType DEF Active
<1>2. IsFiniteSet(Proc \X (1..MAXOPBLOCKS))
  <2>1. IsFiniteSet(1..MAXOPBLOCKS)
    BY FS_Interval
  <2> QED BY Zenon, <2>1, FS_Product
<1>3. IsFiniteSet(Reserved) /\ Cardinality(Reserved) \in Nat
  BY Zenon, <1>2, FS_Subset, FS_CardinalityType DEF Reserved
<1>4. Len(lh) \in Nat /\ Len(lh) <= LOGSIZE
  BY <1>3 DEF IInv, TypeOK, SpaceInv
<1>5. ASSUME NEW p \in Proc, pc[p] = "op" PROVE outstanding >= 1
  <2>1. Active # {}
    BY Zenon, <1>5 DEF Active
  <2> QED BY <2>1, <1>1, FS_EmptySet DEF IInv, SpaceInv
<1> QED BY Zenon, <1>1, <1>3, <1>4, <1>5

\* begin_op(), whether it reserves space or sleeps, keeps the invariant.
LEMMA BeginOpInv ==
  ASSUME IInv, NEW p \in Proc, BeginOp(p)
  PROVE  IInv'
<1> USE LogAssumption DEF IInv, disk, bufs
<1>1. CASE committing = 1 \/ NoSpace
  <2>1. /\ pc' = [pc EXCEPT ![p] = "asleep"]
        /\ UNCHANGED <<home, dhead, dlog, cache, dirty, lh, outstanding,
                       committing, held, wrote, stage, tail, panicked>>
    BY Zenon, <1>1 DEF BeginOp
  <2>2. pc[p] \in {"out", "awake"} /\ Booted
    BY Zenon DEF BeginOp
  <2>3. TypeOK'
    BY Zenon, <2>1 DEF TypeOK
  <2>4. Active' = Active
    BY Zenon, <2>1, <2>2 DEF Active, TypeOK
  <2>5. StageInv'
    BY Zenon, <2>1, <2>2, <2>4 DEF StageInv, Booted, TypeOK
  <2>6. HeldInv'
    BY Zenon, <2>1, <2>2 DEF HeldInv, TypeOK
  <2>7. HeadInv' /\ DataInv' /\ DirtyInv'
    BY <2>1 DEF HeadInv, DataInv, DirtyInv, CleanBufferOnDisk, Entries, Injective
  <2>8. SpaceInv'
    BY Zenon, <2>1, <2>4 DEF SpaceInv, Reserved, Entries
  <2> QED BY Zenon, <2>3, <2>5, <2>6, <2>7, <2>8
<1>2. CASE ~(committing = 1 \/ NoSpace)
  <2>1. /\ pc' = [pc EXCEPT ![p] = "op"]
        /\ outstanding' = outstanding + 1
        /\ wrote' = [wrote EXCEPT ![p] = {}]
        /\ UNCHANGED <<home, dhead, dlog, cache, dirty, lh,
                       committing, held, stage, tail, panicked>>
    BY Zenon, <1>2 DEF BeginOp
  <2>2. pc[p] \in {"out", "awake"} /\ Booted
    BY DEF BeginOp
  <2>3. TypeOK'
    BY <2>1 DEF TypeOK
  <2>4. Active' = Active \cup {p} /\ p \notin Active
    BY Zenon, <2>1, <2>2 DEF Active, TypeOK
  <2>5. StageInv'
    BY Zenon, <1>2, <2>1, <2>2, <2>4 DEF StageInv, Booted, TypeOK
  <2>6. HeldInv'
    BY Zenon, <2>1, <2>2 DEF HeldInv, TypeOK
  <2>7. HeadInv' /\ DataInv' /\ DirtyInv'
    BY <2>1 DEF HeadInv, DataInv, DirtyInv, CleanBufferOnDisk, Entries, Injective
  <2>8. SpaceInv'
    <3>1. IsFiniteSet(Active') /\ Cardinality(Active') = outstanding'
      BY Zenon, <2>1, <2>4, SpaceFacts, FS_AddElement DEF SpaceInv, TypeOK
    <3>2. \A q \in Proc : IsFiniteSet(wrote'[q])
      BY Zenon, <2>1, FS_EmptySet DEF SpaceInv, TypeOK
    <3>3. \A q \in Active' : /\ wrote'[q] \subseteq Entries(lh')
                             /\ Cardinality(wrote'[q] \cup held'[q]) <= OPBLOCKS
      <4>1. wrote'[p] \cup held'[p] = {}
        BY Zenon, <2>1, <2>2 DEF HeldInv, TypeOK
      <4>2. \A q \in Active : wrote'[q] = wrote[q] /\ held'[q] = held[q]
        BY Zenon, <2>1, <2>4 DEF TypeOK, Active
      <4>3. Cardinality({}) <= OPBLOCKS
        BY FS_EmptySet
      <4>4. wrote'[p] \subseteq Entries(lh') /\ Cardinality(wrote'[p] \cup held'[p]) <= OPBLOCKS
        BY Zenon, <4>1, <4>3
      <4>5. \A q \in Active : /\ wrote'[q] \subseteq Entries(lh')
                              /\ Cardinality(wrote'[q] \cup held'[q]) <= OPBLOCKS
        BY Zenon, <2>1, <4>2 DEF SpaceInv
      <4> QED BY <2>4, <4>4, <4>5, Zenon
    <3>4. IsFiniteSet(1..MAXOPBLOCKS) /\ Cardinality(1..MAXOPBLOCKS) = MAXOPBLOCKS
      BY FS_Interval
    <3>5. /\ IsFiniteSet(Active' \X (1..MAXOPBLOCKS))
          /\ Cardinality(Active' \X (1..MAXOPBLOCKS)) = (outstanding + 1) * MAXOPBLOCKS
      <4> DEFINE A == Active'
      <4> HIDE DEF A
      <4>1. IsFiniteSet(A) /\ Cardinality(A) = outstanding + 1
        BY Zenon, <2>1, <3>1 DEF A
      <4>2. IsFiniteSet(A \X (1..MAXOPBLOCKS))
        BY Zenon, <4>1, <3>4, FS_Product
      <4>3. Cardinality(A \X (1..MAXOPBLOCKS)) = (outstanding + 1) * MAXOPBLOCKS
        BY ZenonT(30), <4>1, <3>4, FS_Product
      <4> QED BY Zenon, <4>2, <4>3 DEF A
    <3>6. Reserved' \subseteq Active' \X (1..MAXOPBLOCKS)
      BY Zenon DEF Reserved, Active
    <3>7. Cardinality(Reserved') <= (outstanding + 1) * MAXOPBLOCKS
      BY Zenon, <3>5, <3>6, FS_Subset
    <3>8. Cardinality(Reserved') \in Nat
      BY Zenon, <3>5, <3>6, FS_Subset, FS_CardinalityType
    <3>9. (outstanding + 1) * MAXOPBLOCKS \in Nat
      BY DEF TypeOK
    <3>10. Len(lh') + Cardinality(Reserved') <= LOGSIZE
      BY <1>2, <2>1, <3>7, <3>8, <3>9 DEF NoSpace, TypeOK
    <3> QED BY Zenon, <3>1, <3>2, <3>3, <3>10 DEF SpaceInv
  <2> QED BY <2>3, <2>5, <2>6, <2>7, <2>8
<1> QED BY Zenon, <1>1, <1>2

\* The checks at the top of log_write() keep the invariant.
LEMMA LogWriteCheckInv ==
  ASSUME IInv, NEW p \in Proc, NEW b \in Block, NEW v \in Val, LogWriteCheck(p, b, v)
  PROVE  IInv'
<1> USE LogAssumption DEF IInv, disk
<1>1. /\ pc[p] = "op" /\ pc' = [pc EXCEPT ![p] = "log_write"]
      /\ \A q \in Proc : b \notin held[q]
      /\ cache' = [cache EXCEPT ![b] = v]
      /\ held' = [held EXCEPT ![p] = {b}]
      /\ Cardinality(wrote[p] \cup {b}) <= OPBLOCKS
      /\ UNCHANGED <<home, dhead, dlog, dirty, lh, outstanding, committing,
                     wrote, stage, tail>>
  BY Zenon DEF LogWriteCheck
<1>2. committing = 0 /\ stage = "idle"
  BY Zenon, <1>1 DEF StageInv, Active, Booted, TypeOK
<1>3. TypeOK'
  <2>1. panicked' \in {0, 1}
    BY Zenon DEF LogWriteCheck
  <2> QED BY Zenon, <1>1, <2>1 DEF TypeOK
<1>4. Active' = Active
  BY Zenon, <1>1 DEF Active, TypeOK
<1>5. StageInv'
  BY Zenon, <1>1, <1>2, <1>4 DEF StageInv, Booted, TypeOK
<1>6. HeldInv'
  BY Zenon, <1>1 DEF HeldInv, TypeOK
<1>7. HeadInv' /\ DataInv'
  BY Zenon, <1>1, <1>2 DEF HeadInv, DataInv, Injective
<1>8. DirtyInv'
  <2>1. CleanBufferOnDisk'
    <3> SUFFICES ASSUME NEW c \in Block \ dirty', \A q \in Proc : c \notin held'[q]
                 PROVE  cache'[c] = home'[c]
      BY Zenon DEF CleanBufferOnDisk
    <3>1. c # b
      BY Zenon, <1>1 DEF TypeOK
    <3>2. \A q \in Proc : c \notin held[q]
      BY Zenon, <1>1 DEF HeldInv, TypeOK
    <3> QED BY Zenon, <1>1, <3>1, <3>2 DEF DirtyInv, CleanBufferOnDisk, TypeOK
  <2> QED BY Zenon, <1>1, <1>2, <2>1 DEF DirtyInv, Entries
<1>9. SpaceInv'
  <2>1. Reserved' = Reserved
    BY Zenon, <1>1, <1>4 DEF Reserved
  <2>2. \A q \in Active : Cardinality(wrote'[q] \cup held'[q]) <= OPBLOCKS
    <3> SUFFICES ASSUME NEW q \in Active
                 PROVE  Cardinality(wrote'[q] \cup held'[q]) <= OPBLOCKS
      BY Zenon
    <3>1. CASE q = p
      BY Zenon, <3>1, <1>1 DEF TypeOK
    <3>2. CASE q # p
      BY Zenon, <3>2, <1>1 DEF TypeOK, SpaceInv, Active
    <3> QED BY Zenon, <3>1, <3>2
  <2> QED BY Zenon, <1>1, <1>4, <2>1, <2>2 DEF SpaceInv, Entries
<1> QED BY Zenon, <1>3, <1>5, <1>6, <1>7, <1>8, <1>9

\* log_write() of a block, new in the header or absorbed, keeps the invariant.
LEMMA LogWriteInv ==
  ASSUME IInv, NEW p \in Proc, NEW b \in Block, LogWrite(p, b)
  PROVE  IInv'
<1> USE LogAssumption DEF IInv, disk
<1>1. /\ pc[p] = "log_write" /\ pc' = [pc EXCEPT ![p] = "op"]
      /\ b \in held[p]
      /\ lh' = IF b \in Entries(lh) THEN lh ELSE Append(lh, b)
      /\ dirty' = dirty \cup {b}
      /\ wrote' = [wrote EXCEPT ![p] = @ \cup {b}]
      /\ held' = [held EXCEPT ![p] = {}]
      /\ UNCHANGED <<home, dhead, dlog, cache, outstanding, committing,
                     stage, tail, panicked>>
  BY Zenon DEF LogWrite
<1>2. committing = 0 /\ stage = "idle"
  BY Zenon, <1>1 DEF StageInv, Active, Booted, TypeOK
<1>3. held[p] = {b}
  BY Zenon, <1>1 DEF HeldInv
<1>4. TypeOK'
  BY <1>1 DEF TypeOK
<1>5. Active' = Active /\ p \in Active
  BY Zenon, <1>1 DEF Active, TypeOK
<1>6. StageInv'
  BY Zenon, <1>1, <1>2, <1>5 DEF StageInv, Booted, TypeOK
<1>7. HeldInv'
  BY Zenon, <1>1 DEF HeldInv, TypeOK
<1>8. Entries(lh') = Entries(lh) \cup {b}
  BY <1>1, AppendEntries DEF TypeOK
<1>9. HeadInv'
  BY Zenon, <1>1, <1>2, AppendInjective DEF HeadInv, TypeOK
<1>10. DataInv'
  BY Zenon, <1>1, <1>2 DEF DataInv
<1>11. DirtyInv'
  <2>1. CleanBufferOnDisk'
    <3> SUFFICES ASSUME NEW c \in Block \ dirty', \A q \in Proc : c \notin held'[q]
                 PROVE  cache'[c] = home'[c]
      BY Zenon DEF CleanBufferOnDisk
    <3>1. c # b /\ c \notin dirty
      BY Zenon, <1>1
    <3>2. \A q \in Proc : c \notin held[q]
      BY Zenon, <1>1, <1>3, <3>1 DEF HeldInv, TypeOK
    <3> QED BY Zenon, <1>1, <3>1, <3>2 DEF DirtyInv, CleanBufferOnDisk, TypeOK
  <2> QED BY Zenon, <1>1, <1>2, <1>8, <2>1 DEF DirtyInv
<1>12. SpaceInv'
  <2> DEFINE w == wrote[p]
             n == Cardinality(w)
             n2 == Cardinality(w \cup {b})
  <2>1. IsFiniteSet(w) /\ n \in Nat /\ IsFiniteSet(w \cup {b})
        /\ n2 = IF b \in w THEN n ELSE n + 1
    BY Zenon, FS_AddElement, FS_CardinalityType DEF SpaceInv
  <2>2. wrote'[p] = w \cup {b} /\ \A q \in Proc \ {p} : wrote'[q] = wrote[q]
    BY Zenon, <1>1 DEF TypeOK
  <2>3. n2 <= OPBLOCKS
    BY Zenon, <1>3, <1>5 DEF SpaceInv
  <2>4. \A q \in Proc : IsFiniteSet(wrote'[q])
    BY Zenon, <2>1, <2>2 DEF SpaceInv
  <2>5. \A q \in Active : /\ wrote'[q] \subseteq Entries(lh')
                          /\ Cardinality(wrote'[q] \cup held'[q]) <= OPBLOCKS
    <3> SUFFICES ASSUME NEW q \in Active
                 PROVE  /\ wrote'[q] \subseteq Entries(lh')
                        /\ Cardinality(wrote'[q] \cup held'[q]) <= OPBLOCKS
      BY Zenon
    <3>1. CASE q = p
      <4>1. wrote'[q] \cup held'[q] = w \cup {b}
        BY Zenon, <3>1, <1>1, <2>2 DEF TypeOK
      <4> QED BY Zenon, <3>1, <4>1, <1>5, <1>8, <2>2, <2>3 DEF SpaceInv
    <3>2. CASE q # p
      BY Zenon, <3>2, <1>1, <1>8, <2>2 DEF TypeOK, SpaceInv, Active
    <3> QED BY Zenon, <3>1, <3>2
  <2> DEFINE Pairs == Proc \X (1..MAXOPBLOCKS)
  <2>6. /\ Reserved \subseteq Pairs /\ Reserved' \subseteq Pairs
        /\ \A r \in Pairs :
             /\ r \in Reserved <=> r[1] \in Active /\ r[2] > Cardinality(wrote[r[1]])
             /\ r \in Reserved' <=> r[1] \in Active /\ r[2] > Cardinality(wrote'[r[1]])
    BY Zenon, <1>5 DEF Reserved
  <2>7. Len(lh') + Cardinality(Reserved') <= LOGSIZE
    <3>1. CASE b \in Entries(lh)
      <4>1. Reserved' \subseteq Reserved
        <5> SUFFICES ASSUME NEW r \in Reserved' PROVE r \in Reserved
          BY Zenon
        <5>1. r \in Pairs /\ r[1] \in Proc /\ r[2] \in 1..MAXOPBLOCKS
          BY Zenon, <2>6
        <5>2. CASE r[1] = p
          <6>1. Cardinality(wrote'[r[1]]) = n2 /\ Cardinality(wrote[r[1]]) = n
            BY Zenon, <5>2, <2>2
          <6>2. r[2] > n2 => r[2] > n
            BY <5>1, <2>1
          <6> QED BY Zenon, <5>1, <6>1, <6>2, <2>6
        <5>3. CASE r[1] # p
          BY Zenon, <5>1, <5>3, <2>6, <2>2
        <5> QED BY Zenon, <5>2, <5>3
      <4>2. Cardinality(Reserved') <= Cardinality(Reserved) /\ Cardinality(Reserved') \in Nat
        BY Zenon, <4>1, SpaceFacts, FS_Subset, FS_CardinalityType
      <4> QED BY <3>1, <1>1, <4>2, SpaceFacts DEF SpaceInv
    <3>2. CASE b \notin Entries(lh)
      <4>1. b \notin w
        BY Zenon, <3>2, <1>5 DEF SpaceInv
      <4>2. n + 1 \in 1..MAXOPBLOCKS
        BY <2>1, <2>3, <4>1
      <4>3. <<p, n + 1>> \in Reserved
        BY <4>2, <1>5, <2>1 DEF Reserved
      <4>4. Reserved' = Reserved \ {<<p, n + 1>>}
        <5>1. \A r \in Pairs : r \in Reserved' <=> r \in Reserved /\ r # <<p, n + 1>>
          <6> SUFFICES ASSUME NEW r \in Pairs
                       PROVE  r \in Reserved' <=> r \in Reserved /\ r # <<p, n + 1>>
            BY Zenon
          <6>1. r = <<r[1], r[2]>> /\ r[1] \in Proc /\ r[2] \in 1..MAXOPBLOCKS
            OBVIOUS
          <6>2. CASE r[1] = p
            <7>1. Cardinality(wrote'[r[1]]) = n2 /\ Cardinality(wrote[r[1]]) = n
              BY Zenon, <6>2, <2>2
            <7>2. r[2] > n2 <=> r[2] > n /\ r[2] # n + 1
              BY <6>1, <2>1, <4>1
            <7> QED BY <6>1, <6>2, <7>1, <7>2, <2>6, <1>5
          <6>3. CASE r[1] # p
            BY <6>1, <6>3, <2>6, <2>2
          <6> QED BY Zenon, <6>2, <6>3
        <5> QED BY Zenon, <5>1, <2>6
      <4>5. Cardinality(Reserved') = Cardinality(Reserved) - 1
        BY Zenon, <4>3, <4>4, SpaceFacts, FS_RemoveElement
      <4>6. Len(lh') = Len(lh) + 1
        BY <3>2, <1>1 DEF TypeOK
      <4> QED BY <4>5, <4>6, SpaceFacts DEF SpaceInv
    <3> QED BY Zenon, <3>1, <3>2
  <2> QED BY Zenon, <1>1, <1>5, <2>4, <2>5, <2>7 DEF SpaceInv
<1> QED BY Zenon, <1>4, <1>6, <1>7, <1>9, <1>10, <1>11, <1>12

\* end_op(), by the last call or by another one, keeps the invariant.
LEMMA EndOpInv ==
  ASSUME IInv, NEW p \in Proc, EndOp(p)
  PROVE  IInv'
<1> USE LogAssumption DEF IInv, disk, bufs
<1>1. /\ pc[p] = "op"
      /\ outstanding' = outstanding - 1
      /\ panicked' = committing
      /\ UNCHANGED <<home, dhead, dlog, cache, dirty, lh, held, wrote>>
  BY Zenon DEF EndOp
<1>2. committing = 0 /\ stage = "idle"
  BY Zenon, <1>1 DEF StageInv, Active, Booted, TypeOK
<1>3. outstanding >= 1 /\ outstanding \in Nat
  BY Zenon, <1>1, SpaceFacts DEF TypeOK
<1>4. pc' \in [Proc -> {"out", "awake", "asleep", "op", "log_write", "commit"}]
  BY Zenon DEF EndOp, Wakeup, TypeOK
<1>5. \A q \in Proc \ {p} : pc[q] \in {"op", "log_write"} <=> pc'[q] \in {"op", "log_write"}
  BY Zenon DEF EndOp, Wakeup, TypeOK
<1>6. \A q \in Proc : pc'[q] = "log_write" <=> pc[q] = "log_write"
  BY Zenon, <1>1 DEF EndOp, Wakeup, TypeOK
<1>7. pc'[p] \in {"out", "commit"}
  BY Zenon DEF EndOp, Wakeup, TypeOK
<1>8. Active' = Active \ {p} /\ p \in Active
  BY Zenon, <1>1, <1>5, <1>7 DEF Active
<1>9. outstanding' = Cardinality(Active')
  BY Zenon, <1>1, <1>8, SpaceFacts, FS_RemoveElement DEF SpaceInv
<1>10. HeldInv'
  BY Zenon, <1>1, <1>6 DEF HeldInv
<1>11. SpaceInv'
  <2>1. Reserved' \subseteq Reserved
    BY Zenon, <1>1, <1>8 DEF Reserved
  <2>2. Cardinality(Reserved') <= Cardinality(Reserved) /\ Cardinality(Reserved') \in Nat
    BY Zenon, <2>1, SpaceFacts, FS_Subset, FS_CardinalityType
  <2>3. Len(lh') + Cardinality(Reserved') <= LOGSIZE
    BY <1>1, <2>2, SpaceFacts DEF SpaceInv
  <2> QED BY Zenon, <1>1, <1>8, <1>9, <2>3 DEF SpaceInv
<1>12. CASE outstanding = 1
  <2>1. /\ committing' = 1 /\ tail' = 1
        /\ stage' = IF lh = <<>> THEN "done" ELSE "write_log"
    BY Zenon, <1>12 DEF EndOp
  <2>2. TypeOK'
    BY <1>1, <1>3, <1>4, <2>1, <1>2 DEF TypeOK
  <2>3. Active' = {}
    BY <1>1, <1>8, <1>9, <1>12, SpaceFacts, FS_RemoveElement, FS_EmptySet
  <2>4. StageInv'
    BY <2>1, <2>3 DEF StageInv, Booted
  <2>5. HeadInv'
    BY Zenon, <1>1, <1>2, <2>1 DEF HeadInv, Injective
  <2>6. DataInv'
    BY <1>1, <1>2, <2>1 DEF DataInv, TypeOK
  <2>7. DirtyInv'
    BY <1>1, <1>2, <2>1 DEF DirtyInv, CleanBufferOnDisk, Entries
  <2> QED BY Zenon, <2>2, <2>4, <2>5, <2>6, <2>7, <1>10, <1>11
<1>13. CASE outstanding # 1
  <2>1. UNCHANGED <<committing, stage, tail>>
    BY Zenon, <1>13 DEF EndOp
  <2>2. TypeOK'
    BY <1>1, <1>3, <1>4, <2>1, <1>2 DEF TypeOK
  <2>3. StageInv'
    BY Zenon, <2>1, <1>2 DEF StageInv, Booted
  <2>4. HeadInv' /\ DataInv' /\ DirtyInv'
    BY <1>1, <1>2, <2>1 DEF HeadInv, Injective, DataInv, DirtyInv, CleanBufferOnDisk, Entries
  <2> QED BY Zenon, <2>2, <2>3, <2>4, <1>10, <1>11
<1> QED BY Zenon, <1>12, <1>13

-----------------------------------------------------------------------------

\* The end of end_op() after commit() keeps the invariant.
LEMMA EndCommitInv ==
  ASSUME IInv, NEW p \in Proc, EndCommit(p)
  PROVE  IInv'
<1> USE LogAssumption DEF IInv, disk, bufs
<1>1. /\ pc[p] = "commit" /\ stage = "done" /\ committing' = 0 /\ stage' = "idle"
      /\ UNCHANGED <<home, dhead, dlog, cache, dirty, lh, outstanding, held,
                     wrote, tail, panicked>>
  BY Zenon DEF EndCommit
<1>2. \A q \in Proc : (pc[q] \in {"op", "log_write"} <=> pc'[q] \in {"op", "log_write"})
                      /\ (pc'[q] = "log_write" <=> pc[q] = "log_write")
  BY Zenon, <1>1 DEF EndCommit, Wakeup, TypeOK
<1>3. TypeOK'
  BY Zenon, <1>1 DEF TypeOK, EndCommit, Wakeup
<1>4. Active' = Active
  BY Zenon, <1>2 DEF Active
<1>5. StageInv'
  BY Zenon, <1>1 DEF StageInv, Booted
<1>6. HeldInv'
  BY Zenon, <1>1, <1>2 DEF HeldInv
<1>7. HeadInv' /\ DataInv' /\ DirtyInv'
  BY Zenon, <1>1 DEF HeadInv, Injective, DataInv, DirtyInv, CleanBufferOnDisk, Entries
<1>8. SpaceInv'
  BY Zenon, <1>1, <1>4 DEF SpaceInv, Reserved, Entries
<1> QED BY <1>3, <1>5, <1>6, <1>7, <1>8

\* commit() and recovery leave the processes and the reservations alone.
LEMMA ProcsUnchanged ==
  ASSUME IInv, UNCHANGED <<pc, held, wrote, outstanding>>,
         Entries(lh') = Entries(lh) \/ Active = {}, Len(lh') \in Nat,
         Len(lh') <= Len(lh) \/ (Active = {} /\ Len(lh') <= LOGSIZE)
  PROVE  HeldInv' /\ SpaceInv' /\ Active' = Active
<1> USE LogAssumption
<1>1. Active' = Active
  BY Zenon DEF Active
<1>2. HeldInv'
  BY Zenon DEF HeldInv, IInv
<1>3. Reserved' = Reserved
  BY Zenon, <1>1 DEF Reserved
<1>4. Active = {} => Cardinality(Reserved) = 0
  BY Zenon, FS_EmptySet DEF Reserved
<1>5. Len(lh') + Cardinality(Reserved') <= LOGSIZE
  BY <1>3, <1>4, SpaceFacts DEF IInv, SpaceInv
<1> QED BY Zenon, <1>1, <1>2, <1>5 DEF IInv, SpaceInv

\* Each block write of write_log() keeps the invariant.
LEMMA WriteLogInv == IInv /\ WriteLog => IInv'
<1> SUFFICES ASSUME IInv, WriteLog PROVE IInv'
  BY Zenon
<1> USE LogAssumption DEF IInv, disk, bufs, procs
<1>1. /\ stage = "write_log" /\ dlog' = [dlog EXCEPT ![tail] = cache[lh[tail]]]
      /\ UNCHANGED <<home, dhead, cache, dirty, lh, outstanding, committing,
                     pc, held, wrote, panicked>>
  BY Zenon DEF WriteLog
<1>2. \/ tail = Len(lh) /\ stage' = "write_head" /\ tail' = 1
      \/ tail # Len(lh) /\ stage' = "write_log" /\ tail' = tail + 1
  BY Zenon, <1>1 DEF WriteLog
<1>3. tail \in 1..Len(lh) /\ tail \in 1..LOGSIZE /\ Len(lh) \in Nat /\ lh[tail] \in Block
  BY <1>1, SpaceFacts DEF DataInv, TypeOK
<1>4. HeldInv' /\ SpaceInv' /\ Active' = Active
  BY <1>1, <1>3, ProcsUnchanged
<1>5. TypeOK'
  BY <1>1, <1>2, <1>3 DEF TypeOK
<1>6. StageInv'
  BY Zenon, <1>1, <1>2, <1>4 DEF StageInv, Booted, TypeOK
<1>7. HeadInv'
  BY Zenon, <1>1, <1>2 DEF HeadInv, Injective
<1>8. \A i \in 1..tail : dlog'[i] = cache[lh[i]]
  BY <1>1, <1>3 DEF DataInv, TypeOK
<1>9. DataInv'
  BY <1>1, <1>2, <1>3, <1>8 DEF DataInv
<1>10. DirtyInv'
  BY <1>1, <1>2 DEF DirtyInv, CleanBufferOnDisk, Entries
<1> QED BY Zenon, <1>4, <1>5, <1>6, <1>7, <1>9, <1>10

\* write_head(), the point of commit, keeps the invariant.
LEMMA WriteHeadInv == IInv /\ WriteHead => IInv'
<1> SUFFICES ASSUME IInv, WriteHead PROVE IInv'
  OBVIOUS
<1> USE LogAssumption DEF IInv, disk, bufs, procs
<1>1. /\ stage = "write_head" /\ dhead' = lh /\ stage' = "install"
      /\ UNCHANGED <<home, dlog, cache, dirty, lh, outstanding, committing,
                     pc, held, wrote, tail, panicked>>
  BY Zenon DEF WriteHead
<1>2. Len(lh) \in Nat /\ Len(lh) <= LOGSIZE
  BY Zenon, SpaceFacts
<1>3. HeldInv' /\ SpaceInv' /\ Active' = Active
  BY <1>1, <1>2, ProcsUnchanged
<1>4. TypeOK'
  BY Zenon, <1>1 DEF TypeOK
<1>5. StageInv'
  BY Zenon, <1>1, <1>3 DEF StageInv, Booted, TypeOK
<1>6. HeadInv'
  BY Zenon, <1>1, <1>2 DEF HeadInv, Injective
<1>7. DataInv'
  BY <1>1, <1>2 DEF DataInv
<1>8. DirtyInv'
  <2>1. \A b \in dirty : \E i \in 1..Len(lh) : lh[i] = b
    BY DEF DirtyInv, Entries, TypeOK
  <2> QED BY <1>1, <2>1 DEF DirtyInv, CleanBufferOnDisk, Entries, DataInv
<1> QED BY <1>3, <1>4, <1>5, <1>6, <1>7, <1>8

\* Each block write of install_trans(), in commit() or in recovery, keeps the
\* invariant.
LEMMA InstallTransInv == IInv /\ InstallTrans => IInv'
<1> SUFFICES ASSUME IInv, InstallTrans PROVE IInv'
  OBVIOUS
<1> USE LogAssumption DEF IInv, disk, bufs, procs
<1>1. /\ stage = "install"
      /\ UNCHANGED <<dhead, dlog, lh, outstanding, committing, pc, held, wrote, panicked>>
  BY Zenon DEF InstallTrans
<1>2. Len(lh) \in Nat /\ Len(lh) <= LOGSIZE /\ tail \in 1..(Len(lh) + 1) /\ tail \in Nat
  BY Zenon, <1>1, SpaceFacts DEF DataInv, TypeOK
<1>3. HeldInv' /\ SpaceInv' /\ Active' = Active
  BY <1>1, <1>2, ProcsUnchanged
<1>4. CASE tail <= Len(lh)
  <2>1. /\ home' = [home EXCEPT ![lh[tail]] = dlog[tail]]
        /\ cache' = [cache EXCEPT ![lh[tail]] = dlog[tail]]
        /\ dirty' = dirty \ {lh[tail]}
        /\ tail' = tail + 1
        /\ stage' = "install"
    BY Zenon, <1>1, <1>4 DEF InstallTrans
  <2>2. tail \in 1..Len(lh) /\ lh[tail] \in Block /\ dlog[tail] \in Val
    BY <1>2, <1>4 DEF TypeOK
  <2>3. TypeOK'
    BY <1>1, <1>2, <2>1, <2>2 DEF TypeOK
  <2>4. StageInv'
    BY Zenon, <1>1, <1>3, <2>1 DEF StageInv, Booted, TypeOK
  <2>5. HeadInv'
    BY Zenon, <1>1, <2>1 DEF HeadInv, Injective
  <2>6. \A i \in 1..Len(lh) : lh[i] \in Block /\ (lh[i] = lh[tail] => i = tail)
    BY <2>2 DEF HeadInv, Injective, TypeOK
  <2>7. \A i \in 1..tail : home'[lh[i]] = dlog[i]
    BY <1>1, <1>2, <2>1, <2>2, <2>6 DEF DataInv, TypeOK
  <2>8. committing = 1 => \A i \in 1..Len(lh) : cache'[lh[i]] = dlog[i]
    BY Zenon, <1>1, <1>2, <2>1, <2>2, <2>6 DEF DataInv, TypeOK
  <2>9. DataInv'
    BY <1>1, <1>2, <2>1, <2>2, <2>7, <2>8 DEF DataInv
  <2>10. \A b \in dirty' : \E i \in (tail + 1)..Len(lh) : lh[i] = b
    <3> SUFFICES ASSUME NEW b \in dirty' PROVE \E i \in (tail + 1)..Len(lh) : lh[i] = b
      BY Zenon
    <3>1. PICK i \in tail..Len(lh) : lh[i] = b
      BY Zenon, <1>1, <2>1 DEF DirtyInv
    <3>2. i # tail
      BY Zenon, <3>1, <2>1
    <3> QED BY <3>1, <3>2, <2>2, <1>2
  <2>11. CleanBufferOnDisk'
    BY Zenon, <1>1, <2>1, <2>2 DEF CleanBufferOnDisk, DirtyInv, TypeOK
  <2>12. DirtyInv'
    BY <1>1, <2>1, <2>10, <2>11 DEF DirtyInv, Entries
  <2> QED BY <1>3, <2>3, <2>4, <2>5, <2>9, <2>12
<1>5. CASE ~(tail <= Len(lh))
  <2>1. stage' = "clear_head" /\ UNCHANGED <<home, cache, dirty, tail>>
    BY Zenon, <1>1, <1>5 DEF InstallTrans
  <2>2. TypeOK'
    BY Zenon, <1>1, <2>1 DEF TypeOK
  <2>3. StageInv'
    BY Zenon, <1>1, <1>3, <2>1 DEF StageInv, Booted, TypeOK
  <2>4. HeadInv'
    BY Zenon, <1>1, <2>1 DEF HeadInv, Injective
  <2>5. DataInv'
    BY <1>1, <1>2, <1>5, <2>1 DEF DataInv
  <2>6. dirty = {}
    BY <1>1, <1>2, <1>5 DEF DirtyInv
  <2>7. DirtyInv'
    BY Zenon, <1>1, <2>1, <2>6 DEF DirtyInv, CleanBufferOnDisk, Entries
  <2> QED BY <1>3, <2>2, <2>3, <2>4, <2>5, <2>7
<1> QED BY Zenon, <1>4, <1>5

\* The write_head() that erases the transaction keeps the invariant.
LEMMA ClearHeadInv == IInv /\ ClearHead => IInv'
<1> SUFFICES ASSUME IInv, ClearHead PROVE IInv'
  OBVIOUS
<1> USE LogAssumption DEF IInv, disk, bufs, procs
<1>1. /\ stage = "clear_head" /\ lh' = <<>> /\ dhead' = <<>>
      /\ stage' = IF committing = 1 THEN "done" ELSE "idle"
      /\ UNCHANGED <<home, dlog, cache, dirty, outstanding, committing, pc,
                     held, wrote, tail, panicked>>
  BY Zenon DEF ClearHead
<1>2. Active = {}
  BY Zenon, <1>1 DEF StageInv, Booted, Active, TypeOK
<1>3. HeldInv' /\ SpaceInv' /\ Active' = Active
  <2>1. Len(lh') = 0
    BY Zenon, <1>1
  <2> QED BY <1>1, <1>2, <2>1, ProcsUnchanged
<1>4. TypeOK'
  BY <1>1 DEF TypeOK
<1>5. StageInv'
  BY <1>1, <1>2, <1>3 DEF StageInv, Booted, TypeOK
<1>6. HeadInv'
  BY <1>1 DEF HeadInv, Injective
<1>7. DataInv'
  BY Zenon, <1>1 DEF DataInv
<1>8. DirtyInv'
  BY Zenon, <1>1 DEF DirtyInv, CleanBufferOnDisk
<1> QED BY <1>3, <1>4, <1>5, <1>6, <1>7, <1>8

\* read_head() in recovery keeps the invariant.
LEMMA ReadHeadInv == IInv /\ ReadHead => IInv'
<1> SUFFICES ASSUME IInv, ReadHead PROVE IInv'
  OBVIOUS
<1> USE LogAssumption DEF IInv, disk, bufs, procs
<1>1. /\ stage = "read_head" /\ lh' = dhead /\ tail' = 1 /\ stage' = "install"
      /\ UNCHANGED <<home, dhead, dlog, cache, dirty, outstanding, committing,
                     pc, held, wrote, panicked>>
  BY Zenon DEF ReadHead
<1>2. Active = {} /\ committing = 0
  BY Zenon, <1>1 DEF StageInv, Booted, Active, TypeOK
<1>3. Len(dhead) \in Nat /\ Len(dhead) <= LOGSIZE
  BY DEF HeadInv, TypeOK
<1>4. HeldInv' /\ SpaceInv' /\ Active' = Active
  BY Zenon, <1>1, <1>2, <1>3, ProcsUnchanged
<1>5. TypeOK'
  BY Zenon, <1>1 DEF TypeOK
<1>6. StageInv'
  BY Zenon, <1>1, <1>2, <1>4 DEF StageInv, Booted, TypeOK
<1>7. HeadInv'
  BY Zenon, <1>1 DEF HeadInv, Injective
<1>8. DataInv'
  BY <1>1, <1>2, <1>3 DEF DataInv
<1>9. DirtyInv'
  BY Zenon, <1>1 DEF DirtyInv, CleanBufferOnDisk, Entries
<1> QED BY <1>4, <1>5, <1>6, <1>7, <1>8, <1>9

\* What Init and a reboot have in common: nothing runs, nothing is cached.
Fresh ==
  /\ cache = home /\ dirty = {} /\ lh = <<>>
  /\ outstanding = 0 /\ committing = 0 /\ stage = "read_head"
  /\ pc = [p \in Proc |-> "out"]
  /\ held = [p \in Proc |-> {}]
  /\ wrote = [p \in Proc |-> {}]
  /\ Injective(dhead) /\ Len(dhead) <= LOGSIZE

\* A freshly booted kernel satisfies every conjunct but the types.
LEMMA FreshInv ==
  Fresh => StageInv /\ HeldInv /\ HeadInv /\ DataInv /\ DirtyInv /\ SpaceInv
<1> SUFFICES ASSUME Fresh
             PROVE  StageInv /\ HeldInv /\ HeadInv /\ DataInv /\ DirtyInv /\ SpaceInv
  BY Zenon
<1> USE LogAssumption DEF Fresh
<1>1. Active = {}
  BY Zenon DEF Active
<1>2. Reserved = {}
  BY Zenon, <1>1 DEF Reserved
<1>3. Cardinality(Active) = 0 /\ Cardinality(Reserved) = 0
  BY Zenon, <1>1, <1>2, FS_EmptySet
<1>4. \A p \in Proc : IsFiniteSet(wrote[p])
  BY Zenon, FS_EmptySet
<1>5. SpaceInv
  BY <1>1, <1>3, <1>4 DEF SpaceInv
<1>6. DirtyInv
  BY Zenon DEF DirtyInv, CleanBufferOnDisk
<1> QED BY <1>1, <1>5, <1>6 DEF StageInv, Booted, HeldInv, HeadInv, DataInv, Injective

\* The invariant holds after boot.
LEMMA InitInv == Init => IInv
<1> SUFFICES ASSUME Init PROVE IInv
  BY Zenon
<1>1. Injective(dhead) /\ Len(dhead) <= LOGSIZE
  BY LogAssumption DEF Init, Injective
<1> QED BY Zenon, <1>1, TypeInit, FreshInv DEF Init, IInv, Fresh

\* A crash at any point keeps the invariant: what it needs of the disk does
\* not depend on memory.
LEMMA CrashInv == IInv /\ Crash => IInv'
<1> SUFFICES ASSUME IInv, Crash PROVE IInv'
  OBVIOUS
<1>1. Injective(dhead') /\ Len(dhead') <= LOGSIZE
  BY Zenon DEF Crash, disk, IInv, HeadInv, Injective
<1>2. TypeOK'
  BY DEF Crash, disk, IInv, TypeOK
<1>3. Fresh'
  BY Zenon, <1>1 DEF Crash, disk, Fresh
<1>4. (StageInv /\ HeldInv /\ HeadInv /\ DataInv /\ DirtyInv /\ SpaceInv)'
  BY <1>3, FreshInv, PTL
<1> QED BY Zenon, <1>2, <1>4 DEF IInv

\* Every step of the log preserves the inductive invariant.
LEMMA NextInv == IInv /\ [Next]_vars => IInv'
<1> SUFFICES ASSUME IInv, [Next]_vars PROVE IInv'
  BY Zenon
<1>1. ASSUME NEW p \in Proc, Op(p) PROVE IInv'
  BY Zenon, <1>1, BeginOpInv, LogWriteCheckInv, LogWriteInv, EndOpInv, EndCommitInv DEF Op
<1>2. CASE Commit
  BY Zenon, <1>2, WriteLogInv, WriteHeadInv, InstallTransInv, ClearHeadInv, ReadHeadInv
     DEF Commit
<1>3. CASE Crash
  BY Zenon, <1>3, CrashInv
<1>4. CASE UNCHANGED vars
  <2>1. UNCHANGED <<home, dhead, dlog, cache, dirty, lh, outstanding, committing,
                    pc, held, wrote, stage, tail, panicked>>
    BY Zenon, <1>4 DEF vars, disk, bufs, procs
  <2>2. TypeOK' /\ StageInv' /\ HeldInv' /\ HeadInv'
    BY Zenon, <2>1 DEF IInv, TypeOK, StageInv, Booted, Active, HeldInv, HeadInv, Injective
  <2>3. DataInv' /\ DirtyInv'
    BY <2>1 DEF IInv, DataInv, DirtyInv, CleanBufferOnDisk, Entries
  <2>4. SpaceInv'
    BY Zenon, <2>1 DEF IInv, SpaceInv, Active, Reserved, Entries
  <2> QED BY Zenon, <2>2, <2>3, <2>4 DEF IInv
<1> QED BY Zenon, <1>1, <1>2, <1>3, <1>4 DEF Next

\* The inductive invariant holds in every reachable state.
THEOREM Invariance == Spec => []IInv
BY InitInv, NextInv, PTL DEF Spec

\* Type correctness of the log's state.
THEOREM TypeCorrect == Spec => []TypeOK
<1>1. IInv => TypeOK
  BY Zenon DEF IInv
<1> QED BY <1>1, Invariance, PTL

\* A buffer that may be recycled is on the disk (bget(), B_DIRTY).
THEOREM CleanBuffers == Spec => []CleanBufferOnDisk
<1>1. IInv => CleanBufferOnDisk
  BY Zenon DEF IInv, DirtyInv
<1> QED BY <1>1, Invariance, PTL

\* Commit and recovery copy to a home location only what the committed log
\* on the disk holds (install_trans()).
THEOREM WriteAheadRule == Spec => WriteAhead
<1> DEFINE A == \A b \in Block : home'[b] # home[b] =>
                  \E i \in DOMAIN dhead : dhead[i] = b /\ home'[b] = dlog[i]
<1>1. ASSUME IInv, [Next]_vars PROVE [A]_vars
  <2>1. CASE InstallTrans /\ tail <= Len(lh)
    <3>1. /\ stage = "install" /\ home' = [home EXCEPT ![lh[tail]] = dlog[tail]]
      BY Zenon, <2>1 DEF InstallTrans
    <3>2. dhead = lh /\ tail \in DOMAIN dhead
      BY <1>1, <2>1, <3>1 DEF IInv, HeadInv, DataInv, TypeOK
    <3> QED BY Zenon, <1>1, <3>1, <3>2 DEF IInv, TypeOK
  <2>2. CASE UNCHANGED home
    BY Zenon, <2>2
  <2> QED
    BY Zenon, <1>1, <2>1, <2>2 DEF Next, Op, Commit, BeginOp, LogWriteCheck, LogWrite,
       EndOp, EndCommit, WriteLog, WriteHead, InstallTrans, ClearHead, ReadHead,
       Crash, vars, disk
<1> HIDE DEF A
<1>2. Spec => [][A]_vars
  BY <1>1, Invariance, PTL DEF Spec
<1> QED BY Zenon, <1>2 DEF WriteAhead, A

-----------------------------------------------------------------------------
(* Panics, the size of the log, and lost wakeups                           *)

SafeInv ==
  /\ NoPanic /\ LogFits /\ SleeperHasWaker
  /\ Len(dhead) < NLOG
  /\ stage = "idle" /\ outstanding = 0 => lh = <<>>

\* A call in progress leaves at least two of its reserved blocks unused.
LEMMA RoomForTwo ==
  ASSUME IInv, NEW p \in Active PROVE Len(lh) + 2 <= LOGSIZE /\ outstanding >= 1
<1> USE LogAssumption
<1>1. Cardinality(wrote[p]) \in Nat /\ Cardinality(wrote[p]) <= OPBLOCKS
  <2>1. p \in Proc /\ IsFiniteSet(wrote[p])
    BY Zenon DEF Active, IInv, SpaceInv
  <2>2. IsFiniteSet(wrote[p] \cup held[p])
    <3>1. held[p] = {} \/ \E b \in Block : held[p] = {b}
      BY Zenon, <2>1 DEF IInv, HeldInv
    <3>2. IsFiniteSet(held[p])
      BY Zenon, <3>1, FS_EmptySet, FS_Singleton
    <3> QED BY Zenon, <2>1, <3>2, FS_Union
  <2>3. Cardinality(wrote[p]) <= Cardinality(wrote[p] \cup held[p])
    BY Zenon, <2>2, FS_Subset
  <2>4. Cardinality(wrote[p] \cup held[p]) \in Nat /\ Cardinality(wrote[p]) \in Nat
    BY Zenon, <2>1, <2>2, FS_CardinalityType
  <2> QED BY <2>3, <2>4 DEF IInv, SpaceInv
<1> DEFINE a == <<p, MAXOPBLOCKS - 1>>
           b == <<p, MAXOPBLOCKS>>
<1>2. a \in Reserved /\ b \in Reserved /\ a # b
  BY <1>1 DEF Reserved, Active
<1>3. Cardinality({a, b}) = 2
  <2>1. IsFiniteSet({b}) /\ Cardinality({b}) = 1
    BY Zenon, FS_Singleton
  <2>2. {a, b} = {b} \cup {a} /\ a \notin {b}
    BY Zenon, <1>2
  <2> HIDE DEF a, b
  <2> QED BY <2>1, <2>2, FS_AddElement
<1>4. Cardinality({a, b}) <= Cardinality(Reserved)
  <2> {a, b} \subseteq Reserved
    BY Zenon, <1>2
  <2> HIDE DEF a, b
  <2> QED BY Zenon, SpaceFacts, FS_Subset
<1>5. outstanding >= 1
  BY SpaceFacts, FS_EmptySet DEF IInv, SpaceInv
<1> QED BY <1>3, <1>4, <1>5, SpaceFacts DEF IInv, SpaceInv

\* The invariant that excludes log_write()'s panics holds after boot.
LEMMA SafeInit == Init => SafeInv
BY LogAssumption DEF Init, SafeInv, NoPanic, LogFits, SleeperHasWaker

\* Every step keeps the panics unreachable and leaves no process asleep
\* without a waker.
LEMMA SafeNext == IInv /\ SafeInv /\ [Next]_vars => SafeInv'
<1> SUFFICES ASSUME IInv, SafeInv, [Next]_vars PROVE SafeInv'
  BY Zenon
<1> USE LogAssumption DEF SafeInv, NoPanic, LogFits, SleeperHasWaker, disk, bufs, procs
<1> Len(lh) \in Nat /\ outstanding \in Nat /\ Len(dhead) \in Nat
  BY SpaceFacts DEF IInv, TypeOK
<1>1. ASSUME NEW p \in Proc, BeginOp(p) PROVE SafeInv'
  <2>1. CASE committing = 1 \/ NoSpace
    <3>1. committing = 1 \/ outstanding > 0
      BY <2>1, <1>1 DEF NoSpace, BeginOp, Booted
    <3> QED BY Zenon, <1>1, <2>1, <3>1 DEF BeginOp
  <2>2. CASE ~(committing = 1 \/ NoSpace)
    BY <1>1, <2>2 DEF BeginOp
  <2> QED BY Zenon, <2>1, <2>2
<1>2. ASSUME NEW p \in Proc, NEW b \in Block, NEW v \in Val, LogWriteCheck(p, b, v)
      PROVE  SafeInv'
  <2>1. p \in Active
    BY Zenon, <1>2 DEF LogWriteCheck, Active
  <2>2. ~TooBig /\ ~OutsideTrans
    BY <2>1, RoomForTwo DEF TooBig, OutsideTrans
  <2>3. \A q \in Proc : pc'[q] = "asleep" => pc[q] = "asleep"
    BY Zenon, <1>2 DEF LogWriteCheck, IInv, TypeOK
  <2> QED BY Zenon, <1>2, <2>2, <2>3 DEF LogWriteCheck
<1>3. ASSUME NEW p \in Proc, NEW b \in Block, LogWrite(p, b) PROVE SafeInv'
  <2>1. p \in Active
    BY Zenon, <1>3 DEF LogWrite, Active
  <2>2. Len(lh) + 2 <= LOGSIZE /\ outstanding >= 1
    BY Zenon, <2>1, RoomForTwo
  <2>3. Len(lh') <= Len(lh) + 1 /\ Len(lh') \in Nat
    BY <1>3 DEF LogWrite, IInv, TypeOK
  <2> QED BY <1>3, <2>2, <2>3 DEF LogWrite
<1>4. ASSUME NEW p \in Proc, EndOp(p) PROVE SafeInv'
  <2>1. committing = 0 /\ outstanding >= 1
    BY Zenon, <1>4, SpaceFacts DEF EndOp, IInv, StageInv, Active, Booted, TypeOK
  <2> QED BY <1>4, <2>1 DEF EndOp
<1>5. ASSUME NEW p \in Proc, EndCommit(p) PROVE SafeInv'
  <2>1. \A q \in Proc : pc'[q] # "asleep"
    BY Zenon, <1>5 DEF EndCommit, Wakeup, IInv, TypeOK
  <2>2. lh = <<>>
    BY Zenon, <1>5 DEF EndCommit, IInv, HeadInv
  <2> QED BY Zenon, <1>5, <2>1, <2>2 DEF EndCommit
<1>6. CASE Commit
  BY <1>6 DEF Commit, WriteLog, WriteHead, InstallTrans, ClearHead, ReadHead
<1>7. CASE Crash
  BY <1>7 DEF Crash
<1>8. CASE UNCHANGED vars
  BY Zenon, <1>8 DEF vars
<1> QED BY Zenon, <1>1, <1>2, <1>3, <1>4, <1>5, <1>6, <1>7, <1>8 DEF Next, Op

\* The invariant that excludes log_write()'s panics always holds.
LEMMA SafeInvariance == Spec => []SafeInv
BY Invariance, SafeInit, SafeNext, PTL DEF Spec

\* None of the panics of log_write and end_op is reachable.
THEOREM NeverPanics == Spec => []NoPanic
<1>1. SafeInv => NoPanic
  BY Zenon DEF SafeInv
<1> QED BY <1>1, SafeInvariance, PTL

\* write_log never runs past the log's blocks on the disk.
THEOREM FitsOnDisk == Spec => []LogFits
<1>1. SafeInv => LogFits
  BY Zenon DEF SafeInv
<1> QED BY <1>1, SafeInvariance, PTL

\* A process asleep in begin_op always has an end_op to wake it.
THEOREM NoLostWakeup == Spec => []SleeperHasWaker
<1>1. SafeInv => SleeperHasWaker
  BY Zenon DEF SafeInv
<1> QED BY <1>1, SafeInvariance, PTL

-----------------------------------------------------------------------------
(* Log implements AtomicFs                                                 *)

\* Recovered is determined by the disk.
LEMMA RecoveredSame ==
  ASSUME UNCHANGED <<home, dhead, dlog>> PROVE Recovered' = Recovered
BY DEF Recovered, Entries

LoggedRecovers == \A i \in DOMAIN dhead : Recovered[dhead[i]] = dlog[i]

\* Recovery takes a logged block from its one place in the log.
LEMMA RecoveredLogged == IInv => LoggedRecovers
<1> SUFFICES ASSUME IInv, NEW i \in DOMAIN dhead
             PROVE  Recovered[dhead[i]] = dlog[i]
  BY Zenon DEF LoggedRecovers
<1>1. dhead[i] \in Block /\ dhead[i] \in Entries(dhead)
  BY DEF IInv, TypeOK, Entries
<1> DEFINE j == CHOOSE k \in DOMAIN dhead : dhead[k] = dhead[i]
<1>2. j \in DOMAIN dhead /\ dhead[j] = dhead[i]
  BY Zenon
<1>3. j = i
  BY Zenon, <1>2 DEF IInv, HeadInv, Injective
<1> QED BY Zenon, <1>1, <1>3 DEF Recovered

\* ... and any other block from its home location.
LEMMA RecoveredHome ==
  ASSUME NEW b \in Block, b \notin Entries(dhead)
  PROVE  Recovered[b] = home[b]
BY Zenon DEF Recovered

\* A boot starts from a file system with nothing in the log.
LEMMA RefineInit == Init => Abstract!AInit
<1> SUFFICES ASSUME Init PROVE Abstract!AInit
  OBVIOUS
<1>1. Entries(dhead) = {}
  BY DEF Init, Entries
<1>2. Recovered = [b \in Block |-> Zero]
  BY Zenon, <1>1 DEF Recovered, Init
<1>3. Visible = Recovered
  BY DEF Init, Booted, Visible
<1>4. Active = {}
  BY Zenon DEF Init, Active
<1> QED BY Zenon, <1>2, <1>3, <1>4 DEF Abstract!AInit

\* A step of a process is the step of the same name, or invisible.
LEMMA RefineOp ==
  ASSUME IInv, NEW p \in Proc, Op(p)
  PROVE  Abstract!ANext \/ UNCHANGED <<Visible, Recovered, Active>>
<1> USE DEF disk, bufs
<1>0. UNCHANGED <<home, dhead, dlog>>
  BY Zenon DEF Op, BeginOp, LogWriteCheck, LogWrite, EndOp, EndCommit
<1>1. Recovered' = Recovered
  BY Zenon, <1>0, RecoveredSame
<1>2. CASE BeginOp(p)
  <2>1. Booted /\ Booted' /\ cache' = cache /\ pc[p] \in {"out", "awake"}
    BY Zenon, <1>2 DEF BeginOp, Booted
  <2>2. Visible' = Visible
    BY Zenon, <2>1 DEF Visible
  <2>3. Active' = Active \/ (p \notin Active /\ Active' = Active \cup {p})
    BY Zenon, <1>2 DEF BeginOp, Active, IInv, TypeOK
  <2> QED BY Zenon, <1>1, <2>2, <2>3 DEF Abstract!ANext, Abstract!ABegin
<1>3. ASSUME NEW b \in Block, NEW v \in Val, LogWriteCheck(p, b, v)
      PROVE  Abstract!ANext
  <2>1. p \in Active /\ Active' = Active
    BY Zenon, <1>3 DEF LogWriteCheck, Active, IInv, TypeOK
  <2>2. Booted /\ Booted'
    BY Zenon, <1>3 DEF LogWriteCheck, IInv, StageInv, Booted
  <2>3. Visible' = [Visible EXCEPT ![b] = v]
    BY Zenon, <1>3, <2>2 DEF LogWriteCheck, Visible
  <2> QED BY Zenon, <1>1, <2>1, <2>3 DEF Abstract!ANext, Abstract!AWrite
<1>4. ASSUME NEW b \in Block, LogWrite(p, b)
      PROVE  UNCHANGED <<Visible, Recovered, Active>>
  <2>1. Active' = Active
    BY Zenon, <1>4 DEF LogWrite, Active, IInv, TypeOK
  <2> QED BY Zenon, <1>1, <1>4, <2>1 DEF LogWrite, Visible, Booted
<1>5. CASE EndOp(p)
  <2>1. p \in Active /\ Active' = Active \ {p}
    BY Zenon, <1>5 DEF EndOp, Wakeup, Active, IInv, TypeOK
  <2>2. Booted /\ Booted'
    BY Zenon, <1>5 DEF EndOp, IInv, StageInv, Booted
  <2>3. Visible' = Visible
    BY Zenon, <1>5, <2>2 DEF EndOp, Visible
  <2> QED BY Zenon, <1>1, <2>1, <2>3 DEF Abstract!ANext, Abstract!AEnd
<1>6. CASE EndCommit(p)
  <2>1. Active' = Active
    BY Zenon, <1>6 DEF EndCommit, Wakeup, Active, IInv, TypeOK
  <2>2. Booted /\ Booted'
    BY Zenon, <1>6 DEF EndCommit, IInv, StageInv, Booted
  <2> QED BY Zenon, <1>1, <1>6, <2>1, <2>2 DEF EndCommit, Visible
<1> QED BY Zenon, <1>2, <1>3, <1>4, <1>5, <1>6 DEF Op

\* While commit() or recovery runs, no call is active, and a block outside
\* the transaction agrees with its home location.
LEMMA QuietFacts ==
  ASSUME IInv, stage # "idle"
  PROVE  /\ Active = {}
         /\ \A b \in Block : b \notin Entries(lh) => cache[b] = home[b]
<1>1. Active = {}
  BY Zenon DEF IInv, StageInv, Booted, Active, TypeOK
<1>2. \A p \in Proc : held[p] = {}
  BY Zenon, <1>1 DEF Active, IInv, HeldInv
<1> QED BY Zenon, <1>1, <1>2 DEF IInv, DirtyInv, CleanBufferOnDisk

\* Writing the header is the commit of the abstract file system; every other
\* step of commit() and of recovery is invisible.
LEMMA RefineCommit ==
  ASSUME IInv, Commit
  PROVE  Abstract!ANext \/ UNCHANGED <<Visible, Recovered, Active>>
<1> USE DEF disk, bufs, procs
<1>0. stage # "idle" /\ Active' = Active
  BY Zenon DEF Commit, WriteLog, WriteHead, InstallTrans, ClearHead, ReadHead, Active
<1>1. CASE WriteLog
  <2>1. Entries(dhead) = {} /\ Entries(dhead') = {}
    BY <1>1 DEF WriteLog, IInv, HeadInv, Entries
  <2>2. Recovered' = Recovered
    BY Zenon, <1>1, <2>1 DEF WriteLog, Recovered
  <2>3. Booted /\ Booted'
    BY Zenon, <1>1 DEF WriteLog, Booted, IInv, StageInv, TypeOK
  <2> QED BY Zenon, <1>0, <1>1, <2>2, <2>3 DEF WriteLog, Visible
<1>2. CASE WriteHead
  <2>1. Booted /\ Booted' /\ cache' = cache /\ Active = {}
    BY Zenon, <1>2, <1>0, QuietFacts DEF WriteHead, Booted, IInv, StageInv, TypeOK
  <2>2. IInv'
    BY Zenon, <1>2, WriteHeadInv
  <2>3. dhead' = lh /\ dlog' = dlog /\ home' = home
    BY Zenon, <1>2 DEF WriteHead
  <2>4. ASSUME NEW b \in Block PROVE Recovered'[b] = cache[b]
    <3>1. CASE b \in Entries(lh)
      <4>1. PICK i \in DOMAIN lh : lh[i] = b
        BY Zenon, <3>1 DEF Entries
      <4>2. dlog[i] = cache[b]
        BY <1>2, <4>1 DEF WriteHead, IInv, DataInv, TypeOK
      <4>3. LoggedRecovers'
        BY <2>2, RecoveredLogged, PTL
      <4> QED BY Zenon, <2>3, <4>1, <4>2, <4>3 DEF LoggedRecovers
    <3>2. CASE b \notin Entries(lh)
      <4>1. Recovered'[b] = home[b]
        BY Zenon, <2>3, <3>2 DEF Recovered
      <4> QED BY Zenon, <4>1, <3>2, <1>0, QuietFacts
    <3> QED BY Zenon, <3>1, <3>2
  <2>5. Recovered' = cache
    BY Zenon, <2>4 DEF Recovered, IInv, TypeOK
  <2> QED BY Zenon, <1>0, <2>1, <2>5 DEF Abstract!ANext, Abstract!ACommit, Visible
<1>3. CASE InstallTrans
  <2>1. UNCHANGED <<dhead, dlog, lh, committing>> /\ dhead = lh /\ stage = "install"
    BY Zenon, <1>3 DEF InstallTrans, IInv, HeadInv
  <2>2. Booted' <=> Booted
    BY Zenon, <1>3 DEF InstallTrans, Booted, IInv, StageInv, TypeOK
  <2>3. CASE tail <= Len(lh)
    <3>1. /\ home' = [home EXCEPT ![lh[tail]] = dlog[tail]]
          /\ cache' = [cache EXCEPT ![lh[tail]] = dlog[tail]]
      BY Zenon, <1>3, <2>3 DEF InstallTrans
    <3>2. tail \in DOMAIN lh /\ lh[tail] \in Entries(lh)
      BY <2>1, <2>3 DEF IInv, DataInv, TypeOK, Entries
    <3>3. \A b \in Block : b \notin Entries(dhead) => home'[b] = home[b]
      BY Zenon, <2>1, <3>1, <3>2 DEF IInv, TypeOK
    <3>4. Recovered' = Recovered
      BY <2>1, <3>3 DEF Recovered, Entries
    <3>5. Booted => cache' = cache
      BY <2>1, <3>1, <3>2 DEF Booted, IInv, DataInv, TypeOK
    <3> QED BY Zenon, <1>0, <2>2, <3>4, <3>5 DEF Visible
  <2>4. CASE ~(tail <= Len(lh))
    <3>1. UNCHANGED <<home, cache>>
      BY Zenon, <1>3, <2>4 DEF InstallTrans
    <3>2. Recovered' = Recovered
      BY Zenon, <2>1, <3>1, RecoveredSame
    <3> QED BY Zenon, <1>0, <2>2, <3>1, <3>2 DEF Visible
  <2> QED BY Zenon, <2>3, <2>4
<1>4. CASE ClearHead
  <2>1. dhead = lh /\ stage = "clear_head" /\ dirty = {}
    BY Zenon, <1>4 DEF ClearHead, IInv, HeadInv, DirtyInv
  <2>2. dhead' = <<>> /\ UNCHANGED <<home, cache, committing>>
    BY Zenon, <1>4 DEF ClearHead
  <2>3. ASSUME NEW b \in Block PROVE Recovered[b] = home[b]
    <3>1. CASE b \in Entries(dhead)
      <4>1. PICK i \in DOMAIN dhead : dhead[i] = b
        BY <3>1 DEF Entries
      <4>2. home[b] = dlog[i]
        BY <2>1, <4>1 DEF IInv, DataInv, TypeOK
      <4> QED BY Zenon, <4>1, <4>2, RecoveredLogged DEF LoggedRecovers
    <3> QED BY Zenon, <3>1, RecoveredHome
  <2>4. Entries(dhead') = {}
    BY <2>2 DEF Entries
  <2>5. Recovered' = home /\ Recovered = home
    BY Zenon, <2>2, <2>3, <2>4 DEF Recovered, IInv, TypeOK
  <2>6. cache = home
    <3>1. \A p \in Proc : held[p] = {}
      BY Zenon, <1>0, QuietFacts DEF Active, IInv, HeldInv
    <3>2. \A b \in Block : cache[b] = home[b]
      BY Zenon, <2>1, <3>1 DEF IInv, DirtyInv, CleanBufferOnDisk
    <3> QED BY <3>2 DEF IInv, TypeOK
  <2> QED BY Zenon, <1>0, <2>2, <2>5, <2>6 DEF Visible
<1>5. CASE ReadHead
  <2>1. ~Booted /\ ~Booted' /\ UNCHANGED <<home, dhead, dlog>>
    BY Zenon, <1>5 DEF ReadHead, Booted, IInv, StageInv, TypeOK
  <2> QED BY Zenon, <1>0, <2>1, RecoveredSame DEF Visible
<1> QED BY Zenon, <1>1, <1>2, <1>3, <1>4, <1>5 DEF Commit

\* log.c implements AtomicFs: calls are atomic with respect to crashes.
THEOREM Refinement == Spec => CrashAtomic
<1>1. IInv /\ [Next]_vars => [Abstract!ANext]_<<Visible, Recovered, Active>>
  <2> SUFFICES ASSUME IInv, [Next]_vars
               PROVE  Abstract!ANext \/ UNCHANGED <<Visible, Recovered, Active>>
    BY Zenon
  <2>1. CASE \E p \in Proc : Op(p)
    BY Zenon, <2>1, RefineOp
  <2>2. CASE Commit
    BY Zenon, <2>2, RefineCommit
  <2>3. CASE Crash
    <3>1. Recovered' = Recovered
      BY Zenon, <2>3, RecoveredSame DEF Crash, disk
    <3>2. Visible' = Recovered' /\ Active' = {}
      BY <2>3 DEF Crash, Visible, Booted, Active
    <3> QED BY Zenon, <3>1, <3>2 DEF Abstract!ANext, Abstract!ACrash
  <2>4. CASE UNCHANGED vars
    <3>1. UNCHANGED <<home, dhead, dlog, cache, committing, stage, pc>>
      BY Zenon, <2>4 DEF vars, disk, bufs, procs
    <3>2. Recovered' = Recovered
      BY Zenon, <3>1, RecoveredSame
    <3> QED BY Zenon, <3>1, <3>2 DEF Visible, Booted, Active
  <2> QED BY Zenon, <2>1, <2>2, <2>3, <2>4 DEF Next
<1> QED BY <1>1, RefineInit, Invariance, PTL
        DEF CrashAtomic, Spec, Abstract!ASpec, Abstract!avars

=============================================================================
