---------------------------- MODULE BioInvariant ----------------------------
(***************************************************************************)
(* The inductive invariant of module Bio, and that the steps of the disk   *)
(* driver, and those of a process in bread() and iderw(), keep it.         *)
(***************************************************************************)
EXTENDS Bio, FiniteSetTheorems, WellFoundedInduction, TLAPS

Pc == {"run", "lock", "iderw", "iowait", "brelse"}

Cmd == [busy : BOOLEAN, ctl : {0, 1}, at : Block \cup {NoBlock}, write : BOOLEAN,
        val : Val, done : BOOLEAN]

TypeOK ==
  /\ driver \in Driver
  /\ bno \in [Buf -> Used[driver] \cup {NoBlock}]
  /\ flags \in [Buf -> SUBSET {"valid", "dirty"}]
  /\ data \in [Buf -> Val]
  /\ idequeue \in Seq(Buf)
  /\ cmd \in Cmd
  /\ disk \in [Block -> Val]
  /\ refcnt \in [Buf -> Nat]
  /\ lock \in [Buf -> Proc \cup {Nobody}]
  /\ lru \in [1..NBUF -> Buf]
  /\ pc \in [Proc -> Pc]
  /\ want \in [Proc -> Used[driver] \cup {NoBlock}]
  /\ cur \in [Proc -> 0..NBUF]
  /\ held \in [Proc -> SUBSET (Used[driver] \X Buf)]

\* A process refers to a buffer that it has, waits for, or gives back.
Uses(p, b) == (pc[p] # "run" /\ cur[p] = b) \/ \E k \in Used[driver] : <<k, b>> \in held[p]
Users(b) == {p \in Proc : Uses(p, b)}

\* A block has one buffer, and references are counted.
CountInv ==
  /\ \A b, c \in Buf : bno[b] = bno[c] /\ bno[b] # NoBlock => b = c
  /\ \A b \in Buf : refcnt[b] = Cardinality(Users(b))

\* A process uses the buffer of its block, under its lock except while it waits
\* for it or has given it up, and what it holds is valid.
Holds(p) ==
  /\ pc[p] # "run" => cur[p] \in Buf /\ want[p] \in Used[driver] /\ bno[cur[p]] = want[p]
  /\ pc[p] \in {"iderw", "iowait"} => lock[cur[p]] = p
  /\ pc[p] \in {"lock", "brelse"} => \A k \in Used[driver] : <<k, cur[p]>> \notin held[p]
  /\ \A k \in Used[driver], b \in Buf : <<k, b>> \in held[p] =>
       lock[b] = p /\ bno[b] = k /\ "valid" \in flags[b]

HoldInv == \A p \in Proc : Holds(p)

\* The requests of the queue are those of processes that wait, each once.
QueueInv ==
  /\ \A i \in 1..Len(idequeue) :
       /\ \E p \in Proc : pc[p] = "iowait" /\ cur[p] = idequeue[i]
       /\ flags[idequeue[i]] # {"valid"}
  /\ \A i, j \in 1..Len(idequeue) : idequeue[i] = idequeue[j] => i = j

\* The controller works on the first request.
CmdInv ==
  /\ idequeue = <<>> <=> ~cmd.busy
  /\ idequeue # <<>> =>
       LET b == idequeue[1] IN
       /\ cmd.at = bno[b] /\ cmd.val = data[b]
       /\ cmd.write <=> "dirty" \in flags[b]
       /\ cmd.ctl = 1 => \A k \in Used[driver] : k[1] \in {2, 3}
       /\ cmd.write /\ cmd.done => disk[bno[b]] = data[b]

\* What is dirty is valid, only a buffer that has a block is valid, and a clean
\* buffer is on the disk.
DataInv ==
  /\ \A b \in Buf : "dirty" \in flags[b] => "valid" \in flags[b]
  /\ \A b \in Buf : "valid" \in flags[b] => bno[b] # NoBlock
  /\ CleanOnDisk

IInv == TypeOK /\ CountInv /\ HoldInv /\ QueueInv /\ CmdInv /\ DataInv

rest == <<refcnt, lock, lru, procs, panic>>

-----------------------------------------------------------------------------
(* Sequences                                                               *)

\* What a queue of buffers holds.
LEMMA Items ==
  ASSUME NEW S, NEW s \in Seq(S)
  PROVE  /\ Len(s) \in Nat
         /\ \A i \in 1..Len(s) : s[i] \in S
         /\ s = <<>> <=> Len(s) = 0
         /\ s # <<>> => 1 \in 1..Len(s)
OBVIOUS

-----------------------------------------------------------------------------
(* Blocks and their disks                                                  *)

\* A buffer that is started in the handlers of its controller is addressed by
\* its own block: idestart() and idestart2() never reach another disk.
LEMMA Reached ==
  ASSUME NEW k \in Used[driver], driver \in Driver
  PROVE  /\ k \in Block /\ k # NoBlock
         /\ (\A j \in Used[driver] : j[1] \in {2, 3}) => Addressed(k, 1) = k
         /\ ~(driver = "ide2" /\ k[1] \in {2, 3}) => Addressed(k, 0) = k
         /\ driver = "ide2" /\ k[1] \in {2, 3} => \A j \in Used[driver] : j[1] \in {2, 3}
<1>1. k \in Block BY Zenon, BioAssumption
<1>2. PICK d \in Disk, n \in Sector : k = <<d, n>> BY <1>1 DEF Block
<1>3. d \in 0..3 BY Zenon, <1>2, BioAssumption
<1>4. k # NoBlock BY <1>2, <1>3 DEF NoBlock
<1>5. k[1] = d /\ k[2] = n BY Zenon, <1>2
<1>6. (\A j \in Used[driver] : j[1] \in {2, 3}) => Addressed(k, 1) = k
  BY <1>2, <1>3, <1>5 DEF Addressed
<1>7. ~(driver = "ide2" /\ k[1] \in {2, 3}) => Addressed(k, 0) = k
  <2>1. ~(driver = "ide2" /\ k[1] \in {2, 3}) => k[1] \in {0, 1}
    BY Zenon, BioAssumption
  <2> QED BY <2>1, <1>2, <1>3, <1>5 DEF Addressed
<1>8. driver = "ide2" /\ k[1] \in {2, 3} => \A j \in Used[driver] : j[1] \in {2, 3}
  BY BioAssumption
<1> QED BY Zenon, <1>1, <1>4, <1>6, <1>7, <1>8

-----------------------------------------------------------------------------
(* The disk                                                                *)

\* No two processes have a buffer's lock, so that a buffer in the queue is not
\* one that a process holds or is about to give to the disk.
LEMMA NotQueued ==
  ASSUME IInv, NEW p \in Proc, NEW b \in Buf, lock[b] = p, pc[p] # "iowait"
  PROVE  \A i \in 1..Len(idequeue) : idequeue[i] # b /\ idequeue[i] \in Buf
<1>1. \A i \in 1..Len(idequeue) : idequeue[i] \in Buf BY Zenon, Items DEF IInv, TypeOK
<1>2. \A i \in 1..Len(idequeue) : idequeue[i] # b BY DEF IInv, QueueInv, HoldInv, Holds, TypeOK
<1> QED BY Zenon, <1>1, <1>2

\* Users(b) depends on the processes only.
LEMMA SameUsers ==
  ASSUME UNCHANGED <<driver, procs>>
  PROVE  \A b : Users(b)' = Users(b)
BY Zenon DEF Users, Uses, procs

\* The controller was told to serve the first buffer of the queue.
LEMMA FirstRequest ==
  ASSUME IInv, cmd.busy
  PROVE  /\ idequeue # <<>> /\ idequeue[1] \in Buf
         /\ bno[idequeue[1]] \in Used[driver] /\ bno[idequeue[1]] # NoBlock
         /\ bno[idequeue[1]] \in Block /\ flags[idequeue[1]] # {"valid"}
         /\ cmd.at = bno[idequeue[1]] /\ cmd.val = data[idequeue[1]]
         /\ cmd.write <=> "dirty" \in flags[idequeue[1]]
         /\ cmd.write /\ cmd.done => disk[bno[idequeue[1]]] = data[idequeue[1]]
<1>1. /\ idequeue # <<>> /\ 1 \in 1..Len(idequeue) /\ idequeue[1] \in Buf
  BY Zenon, Items DEF IInv, TypeOK, CmdInv
<1> DEFINE b == idequeue[1]
<1>2. PICK p \in Proc : pc[p] = "iowait" /\ cur[p] = b
  BY Zenon, <1>1 DEF IInv, QueueInv
<1>3. bno[b] \in Used[driver] BY Zenon, <1>2 DEF IInv, HoldInv, Holds
<1>4. bno[b] \in Block /\ bno[b] # NoBlock BY Zenon, <1>3, Reached DEF IInv, TypeOK
<1>5. flags[b] # {"valid"} BY Zenon, <1>1 DEF IInv, QueueInv
<1> QED BY Zenon, <1>1, <1>3, <1>4, <1>5 DEF IInv, CmdInv

\* The controller writes a block whose buffer is dirty, or none.
LEMMA ControllerKeeps ==
  ASSUME IInv, Controller, UNCHANGED rest
  PROVE  IInv'
<1> USE DEF rest
<1>1. idequeue \in Seq(Buf) /\ idequeue # <<>> /\ idequeue[1] \in Buf
  BY DEF IInv, TypeOK, CmdInv, Controller
<1> DEFINE b == idequeue[1]
<1>2. /\ cmd.at = bno[b] /\ cmd.val = data[b] /\ (cmd.write <=> "dirty" \in flags[b])
      /\ bno[b] \in Used[driver] /\ bno[b] # NoBlock /\ bno[b] \in Block
  BY Zenon, FirstRequest DEF Controller
<1>3. cmd' = [cmd EXCEPT !.done = TRUE] /\ cmd' \in Cmd
  BY Zenon, <1>1 DEF Controller, IInv, TypeOK, Cmd
<1>4. /\ disk' = IF cmd.write THEN [disk EXCEPT ![bno[b]] = data[b]] ELSE disk
      /\ disk' \in [Block -> Val]
  BY Zenon, <1>1, <1>2 DEF Controller, IInv, TypeOK
<1>5. TypeOK'
  BY Zenon, <1>3, <1>4 DEF Controller, IInv, TypeOK, procs
<1>6. CountInv'
  BY Zenon, SameUsers DEF Controller, IInv, CountInv, procs
<1>7. HoldInv'
  BY DEF Controller, IInv, HoldInv, Holds, procs
<1>8. QueueInv'
  BY Zenon DEF Controller, IInv, QueueInv, procs
<1>9. CmdInv'
  <2>1. /\ cmd'.busy = cmd.busy /\ cmd'.at = cmd.at /\ cmd'.val = cmd.val
        /\ cmd'.write = cmd.write /\ cmd'.ctl = cmd.ctl
    BY Zenon, <1>1, <1>3 DEF IInv, TypeOK, Cmd
  <2>2. cmd.write => disk'[bno[b]] = data[b]
    BY Zenon, <1>2, <1>4 DEF IInv, TypeOK
  <2> QED BY Zenon, <1>1, <1>2, <2>1, <2>2 DEF Controller, IInv, CmdInv
<1>10. DataInv'
  <2> SUFFICES ASSUME NEW c \in Buf, flags[c] = {"valid"} PROVE data[c] = disk'[bno[c]]
    BY Zenon DEF Controller, IInv, DataInv, CleanOnDisk
  <2>1. data[c] = disk[bno[c]] /\ bno[c] \in Block
    BY Zenon, Reached DEF IInv, TypeOK, DataInv, CleanOnDisk
  <2>2. CASE bno[c] = bno[b] /\ cmd.write
    BY <2>2, <1>1, <1>2 DEF IInv, CountInv
  <2>3. CASE ~(bno[c] = bno[b] /\ cmd.write)
    BY Zenon, <2>1, <2>3, <1>2, <1>4 DEF IInv, TypeOK
  <2> QED BY Zenon, <2>2, <2>3
<1> QED BY Zenon, <1>5, <1>6, <1>7, <1>8, <1>9, <1>10 DEF IInv

\* n is a command that serves buffer b.
Serves(n, b) ==
  /\ n \in Cmd /\ n.busy /\ ~n.done
  /\ n.at = bno[b] /\ n.val = data[b]
  /\ n.write <=> "dirty" \in flags[b]
  /\ n.ctl = 1 => \A k \in Used[driver] : k[1] \in {2, 3}

\* idestart() and idestart2() tell the controller what the buffer asks for.
LEMMA StartServes ==
  ASSUME TypeOK, NEW b \in Buf, bno[b] \in Used[driver]
  PROVE  /\ Serves(Idestart(b), b)
         /\ (\A k \in Used[driver] : k[1] \in {2, 3}) => Serves(Idestart2(b), b)
<1>1. data[b] \in Val /\ ("dirty" \in flags[b]) \in BOOLEAN BY DEF TypeOK
<1>2. bno[b] \in Block BY Zenon, Reached DEF TypeOK
<1>3. \A c \in {0, 1} : Addressed(bno[b], c) = bno[b] =>
        /\ Command(b, c) \in Cmd /\ Command(b, c).busy /\ ~Command(b, c).done
        /\ Command(b, c).at = bno[b] /\ Command(b, c).val = data[b]
        /\ Command(b, c).write <=> "dirty" \in flags[b]
        /\ Command(b, c).ctl = c
  BY Zenon, <1>1, <1>2 DEF Command, Cmd
<1>4. Serves(Idestart(b), b)
  <2>1. CASE driver = "ide2" /\ bno[b][1] \in {2, 3}
    <3>1. (\A k \in Used[driver] : k[1] \in {2, 3}) /\ Addressed(bno[b], 1) = bno[b]
      BY Zenon, <2>1, Reached DEF TypeOK
    <3>2. Idestart(b) = Command(b, 1) BY Zenon, <2>1 DEF Idestart
    <3> QED BY Zenon, <3>1, <3>2, <1>3 DEF Serves
  <2>2. CASE ~(driver = "ide2" /\ bno[b][1] \in {2, 3})
    <3>1. Addressed(bno[b], 0) = bno[b] BY Zenon, <2>2, Reached DEF TypeOK
    <3>2. Idestart(b) = Command(b, 0) BY Zenon, <2>2 DEF Idestart
    <3> QED BY <3>1, <3>2, <1>3 DEF Serves
  <2> QED BY Zenon, <2>1, <2>2
<1>5. (\A k \in Used[driver] : k[1] \in {2, 3}) => Serves(Idestart2(b), b)
  BY Zenon, <1>3, Reached DEF Serves, Idestart2, TypeOK
<1> QED BY Zenon, <1>4, <1>5

\* The first buffer of the queue becomes valid with what is on the disk, and the
\* next one is served.
LEMMA CompleteKeeps ==
  ASSUME IInv, NEW c, NEW next, Complete(c, next), UNCHANGED rest,
         idequeue \in Seq(Buf) /\ Len(idequeue) > 1 => Serves(next, idequeue[2])
  PROVE  IInv'
<1> USE DEF rest
<1>1. /\ idequeue \in Seq(Buf) /\ idequeue # <<>> /\ idequeue[1] \in Buf
      /\ Len(idequeue) \in Nat /\ Len(idequeue) >= 1
  BY DEF IInv, TypeOK, Complete
<1> DEFINE b == idequeue[1]
<1>2. /\ idequeue' = Tail(idequeue) /\ idequeue' \in Seq(Buf)
      /\ Len(idequeue') = Len(idequeue) - 1
      /\ \A i \in 1..Len(idequeue') : idequeue'[i] = idequeue[i + 1]
  BY <1>1 DEF Complete
<1>3. Head(idequeue) = b BY <1>1
<1>4. /\ flags' = [flags EXCEPT ![b] = {"valid"}]
      /\ data' = IF "dirty" \notin flags[b] THEN [data EXCEPT ![b] = disk[cmd.at]] ELSE data
      /\ UNCHANGED <<driver, bno, disk>>
  BY Zenon, <1>3, BioAssumption DEF Complete
<1>5. /\ cmd.at = bno[b] /\ cmd.val = data[b] /\ (cmd.write <=> "dirty" \in flags[b])
      /\ (cmd.write => disk[bno[b]] = data[b])
      /\ bno[b] \in Used[driver] /\ bno[b] # NoBlock /\ bno[b] \in Block
  BY Zenon, FirstRequest DEF Complete
<1>6. /\ flags' \in [Buf -> SUBSET {"valid", "dirty"}] /\ data' \in [Buf -> Val]
      /\ flags'[b] = {"valid"} /\ data'[b] = disk[bno[b]]
      /\ \A d \in Buf : d # b => flags'[d] = flags[d] /\ data'[d] = data[d]
  BY Zenon, <1>1, <1>4, <1>5 DEF IInv, TypeOK
<1>7. /\ Len(idequeue) = 1 => idequeue' = <<>> /\ cmd' = Idle
      /\ Len(idequeue) # 1 => /\ idequeue' # <<>> /\ cmd' = next
                              /\ Len(idequeue) > 1 /\ Serves(next, idequeue[2])
  <2>1. idequeue' = <<>> <=> Len(idequeue') = 0
    <3>1. \A q \in Seq(Buf) : q = <<>> <=> Len(q) = 0 OBVIOUS
    <3> QED BY Zenon, <3>1, <1>2
  <2>2. Len(idequeue) # 1 => Len(idequeue) > 1
    <3>1. \A n \in Nat : n >= 1 /\ n # 1 => n > 1 OBVIOUS
    <3>2. Len(idequeue) \in Nat /\ Len(idequeue) >= 1 BY Zenon, <1>1
    <3> QED BY Zenon, <3>1, <3>2
  <2>4. Len(idequeue') = 0 <=> Len(idequeue) = 1
    <3>1. \A n \in Nat : n - 1 = 0 <=> n = 1 OBVIOUS
    <3> QED BY Zenon, <3>1, <1>1, <1>2
  <2>3. cmd' = IF Tail(idequeue) = <<>> THEN Idle ELSE next BY Zenon DEF Complete
  <2> QED BY Zenon, <2>1, <2>2, <2>3, <2>4, <1>1, <1>2
<1>8. cmd' \in Cmd
  <2>1. Idle \in Cmd BY Zenon, BioAssumption DEF Idle, Cmd
  <2>2. Len(idequeue) # 1 => next \in Cmd BY Zenon, <1>7 DEF Serves
  <2> QED BY Zenon, <2>1, <2>2, <1>7
<1>9. TypeOK'
  BY Zenon, <1>2, <1>4, <1>6, <1>8 DEF IInv, TypeOK, procs
<1>10. CountInv'
  BY Zenon, <1>4, SameUsers DEF IInv, CountInv, procs
<1>11. HoldInv'
  BY <1>4, <1>6 DEF IInv, HoldInv, Holds, procs
<1>12. \A i \in 1..Len(idequeue') : idequeue'[i] # b /\ idequeue'[i] \in Buf
  BY <1>1, <1>2 DEF IInv, QueueInv
<1>13. QueueInv'
  <2>1. \A i \in 1..Len(idequeue') :
          /\ \E p \in Proc : pc'[p] = "iowait" /\ cur'[p] = idequeue'[i]
          /\ flags'[idequeue'[i]] # {"valid"}
    BY <1>1, <1>2, <1>6, <1>12 DEF IInv, QueueInv, procs
  <2>2. \A i, j \in 1..Len(idequeue') : idequeue'[i] = idequeue'[j] => i = j
    BY <1>1, <1>2 DEF IInv, QueueInv
  <2> QED BY Zenon, <2>1, <2>2 DEF QueueInv
<1>14. CmdInv'
  <2>1. CASE Len(idequeue) = 1
    BY <2>1, <1>7 DEF CmdInv, Idle
  <2>2. CASE Len(idequeue) # 1
    <3>1. 1 \in 1..Len(idequeue') BY <2>2, <1>1, <1>2, <1>7
    <3>2. idequeue'[1] = idequeue[2]
      <4>1. idequeue'[1] = idequeue[1 + 1] BY Zenon, <3>1, <1>2
      <4> QED BY <4>1
    <3>3. idequeue[2] # b /\ idequeue[2] \in Buf BY Zenon, <3>1, <3>2, <1>12
    <3> QED BY Zenon, <2>2, <3>2, <3>3, <1>4, <1>6, <1>7 DEF CmdInv, Serves
  <2> QED BY Zenon, <2>1, <2>2
<1>15. DataInv'
  BY Zenon, <1>1, <1>4, <1>5, <1>6 DEF IInv, DataInv, CleanOnDisk
<1> QED BY Zenon, <1>9, <1>10, <1>11, <1>13, <1>14, <1>15 DEF IInv

\* The interrupt handlers.
LEMMA HardwareKeeps ==
  ASSUME IInv, Hardware PROVE IInv'
<1>1. CASE Controller /\ UNCHANGED rest BY Zenon, <1>1, ControllerKeeps
<1>2. ASSUME idequeue \in Seq(Buf), Len(idequeue) > 1
      PROVE  /\ idequeue[2] \in Buf /\ Second = idequeue[2]
             /\ bno[idequeue[2]] \in Used[driver]
  <2>1. idequeue[2] \in Buf /\ Second = idequeue[2] /\ 2 \in 1..Len(idequeue)
    BY <1>2 DEF Second
  <2>2. PICK p \in Proc : pc[p] = "iowait" /\ cur[p] = idequeue[2]
    BY Zenon, <2>1 DEF IInv, QueueInv
  <2> QED BY Zenon, <2>1, <2>2 DEF IInv, HoldInv, Holds
<1>3. CASE Ideintr /\ UNCHANGED rest
  <2>1. idequeue \in Seq(Buf) /\ Len(idequeue) > 1 => Serves(Idestart(Second), idequeue[2])
    BY Zenon, <1>2, StartServes DEF IInv
  <2> QED BY Zenon, <2>1, <1>3, CompleteKeeps DEF Ideintr
<1>4. CASE Ideintr2 /\ UNCHANGED rest
  <2>1. \A k \in Used[driver] : k[1] \in {2, 3}
    BY Zenon, <1>4 DEF Ideintr2, Complete, IInv, CmdInv
  <2>2. idequeue \in Seq(Buf) /\ Len(idequeue) > 1 => Serves(Idestart2(Second), idequeue[2])
    BY Zenon, <2>1, <1>2, StartServes DEF IInv
  <2> QED BY Zenon, <2>2, <1>4, CompleteKeeps DEF Ideintr2
<1> QED BY Zenon, <1>1, <1>3, <1>4 DEF Hardware, rest

-----------------------------------------------------------------------------
(* Steps of the processes                                                  *)

drive == <<driver, bno, flags, data, idequeue, cmd, disk>>

\* A step that leaves the cache and the disk alone.
LEMMA Stutters ==
  ASSUME IInv, UNCHANGED <<drive, refcnt, lock, lru, procs>>
  PROVE  IInv'
<1>1. \A b : Users(b)' = Users(b) BY Zenon, SameUsers DEF drive
<1>2. TypeOK' BY Zenon DEF IInv, TypeOK, drive, procs
<1>3. CountInv' BY Zenon, <1>1 DEF IInv, CountInv, drive
<1>4. HoldInv' BY DEF IInv, HoldInv, Holds, drive, procs
<1>5. QueueInv' /\ CmdInv' BY Zenon DEF IInv, QueueInv, CmdInv, drive, procs
<1>6. DataInv' BY Zenon DEF IInv, DataInv, CleanOnDisk, drive
<1> QED BY Zenon, <1>2, <1>3, <1>4, <1>5, <1>6 DEF IInv

\* A process that does nothing keeps what it has, if the buffers it uses keep
\* their blocks and stay valid, and nobody takes its locks.
LEMMA HoldsStill ==
  ASSUME IInv, NEW q \in Proc, driver' = driver,
         pc'[q] = pc[q], cur'[q] = cur[q], want'[q] = want[q], held'[q] = held[q],
         \A b \in Buf : Uses(q, b) =>
           /\ bno'[b] = bno[b] /\ (lock[b] = q => lock'[b] = q)
           /\ "valid" \in flags[b] => "valid" \in flags'[b]
  PROVE  Holds(q)'
<1>1. Holds(q) BY Zenon DEF IInv, HoldInv
<1>2. pc[q] # "run" => Uses(q, cur[q]) BY Zenon DEF Uses
<1>3. \A k \in Used[driver], b \in Buf : <<k, b>> \in held[q] => Uses(q, b) BY Zenon DEF Uses
<1> QED BY Zenon, <1>1, <1>2, <1>3 DEF Holds

\* What the queue and the command depend on.
LEMMA SameQueue ==
  ASSUME IInv, UNCHANGED <<driver, idequeue, cmd, disk>>,
         \A i \in 1..Len(idequeue) :
           /\ flags'[idequeue[i]] = flags[idequeue[i]] /\ data'[idequeue[i]] = data[idequeue[i]]
           /\ bno'[idequeue[i]] = bno[idequeue[i]],
         \A p \in Proc : pc[p] = "iowait" /\ flags[cur[p]] # {"valid"} =>
                           pc'[p] = "iowait" /\ cur'[p] = cur[p]
  PROVE  QueueInv' /\ CmdInv'
<1>1. ASSUME NEW i \in 1..Len(idequeue)
      PROVE  /\ \E q \in Proc : pc'[q] = "iowait" /\ cur'[q] = idequeue[i]
             /\ flags'[idequeue[i]] # {"valid"}
  <2>1. PICK q \in Proc : pc[q] = "iowait" /\ cur[q] = idequeue[i]
    BY Zenon DEF IInv, QueueInv
  <2>2. flags[idequeue[i]] # {"valid"} BY Zenon DEF IInv, QueueInv
  <2>3. pc'[q] = "iowait" /\ cur'[q] = cur[q] BY Zenon, <2>1, <2>2
  <2> QED BY Zenon, <2>1, <2>2, <2>3
<1>2. QueueInv' BY <1>1 DEF IInv, QueueInv
<1>3. idequeue # <<>> => 1 \in 1..Len(idequeue) BY Zenon, Items DEF IInv, TypeOK
<1>4. CmdInv' BY Zenon, <1>3 DEF IInv, CmdInv
<1> QED BY Zenon, <1>2, <1>4

\* A process begins a call about buffer b of block k.
LEMMA BeginsCall ==
  ASSUME IInv, NEW p \in Proc, NEW k \in Used[driver], NEW b \in Buf, NEW s \in Pc,
         pc' = [pc EXCEPT ![p] = s], cur' = [cur EXCEPT ![p] = b],
         want' = [want EXCEPT ![p] = k]
  PROVE  /\ pc' \in [Proc -> Pc] /\ cur' \in [Proc -> 0..NBUF]
         /\ want' \in [Proc -> Used[driver] \cup {NoBlock}]
         /\ pc'[p] = s /\ cur'[p] = b /\ want'[p] = k
         /\ \A q \in Proc : q # p => pc'[q] = pc[q] /\ cur'[q] = cur[q] /\ want'[q] = want[q]
<1>1. b \in 0..NBUF BY BioAssumption DEF Buf
<1>2. /\ pc \in [Proc -> Pc] /\ cur \in [Proc -> 0..NBUF]
      /\ want \in [Proc -> Used[driver] \cup {NoBlock}]
  BY Zenon DEF IInv, TypeOK
<1> QED BY Zenon, <1>1, <1>2

-----------------------------------------------------------------------------
(* bread()                                                                 *)

\* bread() or bwrite() returns: who waited for the buffer holds it.
LEMMA GotUsers ==
  ASSUME IInv, NEW p \in Proc, pc[p] # "run", Got(p), driver' = driver
  PROVE  /\ \A b \in Buf : Users(b)' = Users(b)
         /\ pc' \in [Proc -> Pc] /\ cur' \in [Proc -> 0..NBUF]
         /\ want' \in [Proc -> Used[driver] \cup {NoBlock}]
         /\ held' \in [Proc -> SUBSET (Used[driver] \X Buf)]
         /\ pc'[p] = "run" /\ held'[p] = held[p] \cup {<<want[p], cur[p]>>}
         /\ \A q \in Proc : q # p => pc'[q] = pc[q] /\ cur'[q] = cur[q] /\ held'[q] = held[q]
                                     /\ want'[q] = want[q]
<1>1. cur[p] \in Buf /\ want[p] \in Used[driver] BY Zenon DEF IInv, HoldInv, Holds
<1>2. /\ pc' \in [Proc -> Pc] /\ cur' \in [Proc -> 0..NBUF]
      /\ want' \in [Proc -> Used[driver] \cup {NoBlock}]
      /\ held' \in [Proc -> SUBSET (Used[driver] \X Buf)]
  BY <1>1, BioAssumption DEF Got, IInv, TypeOK, Pc
<1>3. /\ pc'[p] = "run" /\ held'[p] = held[p] \cup {<<want[p], cur[p]>>}
      /\ \A q \in Proc : q # p => pc'[q] = pc[q] /\ cur'[q] = cur[q] /\ held'[q] = held[q]
                                  /\ want'[q] = want[q]
  BY Zenon DEF Got, IInv, TypeOK
<1>4. \A b \in Buf, q \in Proc : Uses(q, b)' <=> Uses(q, b)
  <2> SUFFICES ASSUME NEW b \in Buf, NEW q \in Proc PROVE Uses(q, b)' <=> Uses(q, b)
    BY Zenon
  <2>1. CASE q # p BY Zenon, <2>1, <1>3 DEF Uses
  <2>2. CASE q = p BY Zenon, <2>2, <1>1, <1>3 DEF Uses
  <2> QED BY Zenon, <2>1, <2>2
<1>5. \A b \in Buf : Users(b)' = Users(b) BY Zenon, <1>4 DEF Users
<1> QED BY Zenon, <1>2, <1>3, <1>5

\* The buffer that bread() or bwrite() returns with is locked, valid and that of
\* the block that was asked for.
LEMMA GotHolds ==
  ASSUME IInv, NEW p \in Proc, pc[p] # "run", Got(p), UNCHANGED <<driver, bno>>,
         lock'[cur[p]] = p, "valid" \in flags'[cur[p]],
         \A b \in Buf : /\ lock[b] \in Proc => lock'[b] = lock[b]
                        /\ "valid" \in flags[b] => "valid" \in flags'[b]
  PROVE  HoldInv'
<1>1. /\ pc'[p] = "run" /\ held'[p] = held[p] \cup {<<want[p], cur[p]>>}
      /\ \A q \in Proc : q # p => pc'[q] = pc[q] /\ cur'[q] = cur[q] /\ held'[q] = held[q]
                                  /\ want'[q] = want[q]
  BY Zenon, GotUsers
<1>2. Holds(p) BY Zenon DEF IInv, HoldInv
<1>3. Holds(p)' BY <1>1, <1>2 DEF Holds
<1>4. ASSUME NEW q \in Proc, q # p PROVE Holds(q)' BY Zenon, <1>1, <1>4, HoldsStill
<1> QED BY Zenon, <1>3, <1>4 DEF HoldInv

\* acquiresleep() in bget(), and the return of bread() if the buffer is valid.
LEMMA AcquiresleepKeeps ==
  ASSUME IInv, NEW p \in Proc, Acquiresleep(p) PROVE IInv'
<1> DEFINE b == cur[p]
<1>1. pc[p] = "lock" /\ b \in Buf /\ want[p] \in Used[driver] /\ bno[b] = want[p]
  BY Zenon DEF Acquiresleep, IInv, HoldInv, Holds
<1>2. UNCHANGED drive /\ UNCHANGED <<refcnt, lru>> BY Zenon DEF Acquiresleep, drive
<1>3. CASE lock[b] # Nobody
  BY Zenon, <1>2, <1>3, Stutters DEF Acquiresleep
<1>4. CASE lock[b] = Nobody
  <2>1. lock' = [lock EXCEPT ![b] = p] /\ Bread(p) BY Zenon, <1>4 DEF Acquiresleep
  <2>2. /\ lock' \in [Buf -> Proc \cup {Nobody}] /\ lock'[b] = p
        /\ \A c \in Buf : c # b => lock'[c] = lock[c]
    BY Zenon, <1>1, <2>1 DEF IInv, TypeOK
  <2>3. /\ \A c \in Buf : Users(c)' = Users(c)
        /\ pc' \in [Proc -> Pc] /\ cur' \in [Proc -> 0..NBUF]
        /\ want' \in [Proc -> Used[driver] \cup {NoBlock}]
        /\ held' \in [Proc -> SUBSET (Used[driver] \X Buf)]
        /\ \A q \in Proc : q # p => pc'[q] = pc[q] /\ cur'[q] = cur[q] /\ held'[q] = held[q]
                                    /\ want'[q] = want[q]
        /\ \/ pc'[p] = "run" /\ held'[p] = held[p] \cup {<<want[p], b>>} /\ "valid" \in flags[b]
           \/ pc'[p] = "iderw" /\ UNCHANGED <<want, cur, held>>
    <3>1. CASE "valid" \in flags[b]
      BY Zenon, <3>1, <1>1, <1>2, <2>1, GotUsers DEF Bread, drive
    <3>2. CASE "valid" \notin flags[b]
      <4>1. pc' = [pc EXCEPT ![p] = "iderw"] /\ UNCHANGED <<want, cur, held>>
        BY Zenon, <3>2, <2>1 DEF Bread
      <4>2. pc' \in [Proc -> Pc] /\ pc'[p] = "iderw" /\ \A q \in Proc : q # p => pc'[q] = pc[q]
        BY Zenon, <4>1 DEF IInv, TypeOK, Pc
      <4>3. \A c \in Buf, q \in Proc : Uses(q, c)' <=> Uses(q, c)
        BY Zenon, <4>1, <4>2, <1>1, <1>2 DEF Uses, drive
      <4>4. \A c \in Buf : Users(c)' = Users(c) BY Zenon, <4>3 DEF Users
      <4> QED BY Zenon, <4>1, <4>2, <4>4 DEF IInv, TypeOK
    <3> QED BY Zenon, <3>1, <3>2
  <2>4. TypeOK' BY Zenon, <1>2, <2>2, <2>3 DEF IInv, TypeOK, drive
  <2>5. CountInv' BY Zenon, <1>2, <2>3 DEF IInv, CountInv, drive
  <2>6. HoldInv'
    <3>1. CASE "valid" \in flags[b]
      <4>1. Got(p) BY Zenon, <3>1, <2>1 DEF Bread
      <4> QED BY Zenon, <3>1, <4>1, <1>1, <1>2, <1>4, <2>2, BioAssumption, GotHolds DEF drive
    <3>2. CASE "valid" \notin flags[b]
      <4>1. pc'[p] = "iderw" /\ UNCHANGED <<want, cur, held>>
        BY Zenon, <3>2, <2>1, <2>3 DEF Bread
      <4>2. Holds(p)' BY <4>1, <1>1, <1>2, <1>4, <2>2, BioAssumption DEF IInv, HoldInv, Holds, drive
      <4>3. ASSUME NEW q \in Proc, q # p PROVE Holds(q)'
        BY <4>3, <1>2, <1>4, <2>2, <2>3, BioAssumption, HoldsStill DEF drive
      <4> QED BY Zenon, <4>2, <4>3 DEF HoldInv
    <3> QED BY Zenon, <3>1, <3>2
  <2>7. QueueInv' /\ CmdInv'
    <3>1. \A q \in Proc : pc[q] = "iowait" => pc'[q] = "iowait" /\ cur'[q] = cur[q]
      BY Zenon, <1>1, <2>3
    <3> QED BY Zenon, <3>1, <1>2, SameQueue DEF drive
  <2>8. DataInv' BY Zenon, <1>2 DEF IInv, DataInv, CleanOnDisk, drive
  <2> QED BY Zenon, <2>4, <2>5, <2>6, <2>7, <2>8 DEF IInv
<1> QED BY Zenon, <1>3, <1>4

-----------------------------------------------------------------------------
(* iderw()                                                                 *)

\* iderw() of ide.c: the buffer goes to the end of the queue, and to the disk if
\* it is the only one.
LEMMA IderwKeeps ==
  ASSUME IInv, NEW p \in Proc, pc[p] = "iderw", flags[cur[p]] # {"valid"},
         Iderw(p, cur[p]), pc' = [pc EXCEPT ![p] = "iowait"],
         UNCHANGED <<want, cur, held, refcnt, lock, lru>>
  PROVE  IInv'
<1> DEFINE b == cur[p]
<1>1. b \in Buf /\ lock[b] = p /\ bno[b] \in Used[driver] BY Zenon DEF IInv, HoldInv, Holds
<1>2. /\ idequeue' = Append(idequeue, b) /\ UNCHANGED <<driver, bno, flags, data, disk>>
      /\ cmd' = IF idequeue = <<>> THEN Idestart(b) ELSE cmd
  BY Zenon DEF Iderw
<1>3. /\ idequeue \in Seq(Buf) /\ Len(idequeue) \in Nat
      /\ idequeue' \in Seq(Buf) /\ Len(idequeue') = Len(idequeue) + 1
      /\ idequeue'[Len(idequeue) + 1] = b
      /\ \A i \in 1..Len(idequeue) : idequeue'[i] = idequeue[i]
  BY <1>1, <1>2 DEF IInv, TypeOK
<1>4. /\ pc' \in [Proc -> Pc] /\ pc'[p] = "iowait"
      /\ \A q \in Proc : q # p => pc'[q] = pc[q]
  BY Zenon DEF IInv, TypeOK, Pc
<1>5. cmd' \in Cmd /\ Serves(Idestart(b), b)
  BY Zenon, <1>1, <1>2, StartServes DEF IInv, TypeOK, Serves
<1>6. TypeOK' BY Zenon, <1>2, <1>3, <1>4, <1>5 DEF IInv, TypeOK
<1>7. CountInv'
  <2>1. \A c \in Buf, q \in Proc : Uses(q, c)' <=> Uses(q, c)
    BY Zenon, <1>2, <1>4 DEF Uses
  <2>2. \A c \in Buf : Users(c)' = Users(c) BY Zenon, <2>1 DEF Users
  <2> QED BY Zenon, <1>2, <2>2 DEF IInv, CountInv
<1>8. HoldInv'
  BY <1>2, <1>4 DEF IInv, HoldInv, Holds
<1>9. \A i \in 1..Len(idequeue) : idequeue[i] # b
  BY Zenon, <1>1, NotQueued
<1>10. \A i \in 1..Len(idequeue') : i = Len(idequeue) + 1 \/ i \in 1..Len(idequeue)
  BY <1>3
<1>11. QueueInv'
  <2>1. \A i \in 1..Len(idequeue') :
          /\ \E q \in Proc : pc'[q] = "iowait" /\ cur'[q] = idequeue'[i]
          /\ flags'[idequeue'[i]] # {"valid"}
    <3> SUFFICES ASSUME NEW i \in 1..Len(idequeue')
                 PROVE  /\ \E q \in Proc : pc'[q] = "iowait" /\ cur'[q] = idequeue'[i]
                        /\ flags'[idequeue'[i]] # {"valid"}
      BY Zenon
    <3>1. CASE i = Len(idequeue) + 1 BY Zenon, <3>1, <1>2, <1>3, <1>4
    <3>2. CASE i \in 1..Len(idequeue)
      <4>1. PICK q \in Proc : pc[q] = "iowait" /\ cur[q] = idequeue[i]
        BY Zenon, <3>2 DEF IInv, QueueInv
      <4>2. q # p BY Zenon, <4>1
      <4> QED BY <3>2, <4>1, <4>2, <1>2, <1>3, <1>4 DEF IInv, QueueInv
    <3> QED BY Zenon, <3>1, <3>2, <1>10
  <2>2. \A i, j \in 1..Len(idequeue') : idequeue'[i] = idequeue'[j] => i = j
    BY <1>3, <1>9, <1>10 DEF IInv, QueueInv
  <2> QED BY Zenon, <2>1, <2>2 DEF QueueInv
<1>12. CmdInv'
  <2>1. idequeue' # <<>>
    <3>1. \A q \in Seq(Buf) : Len(q) > 0 => q # <<>> OBVIOUS
    <3> QED BY <3>1, <1>3
  <2>2. CASE idequeue = <<>>
    <3>1. idequeue'[1] = b BY <2>2, <1>3
    <3> QED BY Zenon, <2>1, <2>2, <3>1, <1>2, <1>5 DEF CmdInv, Serves
  <2>3. CASE idequeue # <<>>
    <3>1. 1 \in 1..Len(idequeue) BY <2>3, <1>3
    <3> QED BY Zenon, <2>1, <2>3, <3>1, <1>2, <1>3 DEF IInv, CmdInv
  <2> QED BY Zenon, <2>2, <2>3
<1>13. DataInv' BY Zenon, <1>2 DEF IInv, DataInv, CleanOnDisk
<1> QED BY Zenon, <1>6, <1>7, <1>8, <1>11, <1>12, <1>13 DEF IInv

\* iderw() of memide.c: the disk and the buffer are the same at once.
LEMMA IderwMemKeeps ==
  ASSUME IInv, NEW p \in Proc, pc[p] = "iderw", IderwMem(cur[p]), Got(p),
         UNCHANGED <<refcnt, lock, lru>>
  PROVE  IInv'
<1> DEFINE b == cur[p]
<1>1. /\ b \in Buf /\ lock[b] = p /\ bno[b] \in Used[driver] /\ bno[b] \in Block
      /\ bno[b] # NoBlock /\ want[p] = bno[b]
  <2>1. b \in Buf /\ lock[b] = p /\ bno[b] \in Used[driver] /\ want[p] = bno[b]
    BY Zenon DEF IInv, HoldInv, Holds
  <2> QED BY Zenon, <2>1, Reached DEF IInv, TypeOK
<1>2. /\ flags' = [flags EXCEPT ![b] = {"valid"}] /\ UNCHANGED <<driver, bno, idequeue, cmd>>
      /\ \/ disk' = [disk EXCEPT ![bno[b]] = data[b]] /\ data' = data
         \/ data' = [data EXCEPT ![b] = disk[bno[b]]] /\ disk' = disk
  BY Zenon DEF IderwMem
<1>3. /\ flags' \in [Buf -> SUBSET {"valid", "dirty"}]
      /\ data' \in [Buf -> Val] /\ disk' \in [Block -> Val]
      /\ flags'[b] = {"valid"} /\ data'[b] = disk'[bno[b]]
      /\ \A c \in Buf : c # b => flags'[c] = flags[c] /\ data'[c] = data[c]
      /\ \A k \in Block : k # bno[b] => disk'[k] = disk[k]
  <2>1. /\ flags \in [Buf -> SUBSET {"valid", "dirty"}] /\ data \in [Buf -> Val]
        /\ disk \in [Block -> Val]
    BY Zenon DEF IInv, TypeOK
  <2>2. CASE disk' = [disk EXCEPT ![bno[b]] = data[b]] /\ data' = data
    BY <1>1, <1>2, <2>1, <2>2
  <2>3. CASE data' = [data EXCEPT ![b] = disk[bno[b]]] /\ disk' = disk
    BY <1>1, <1>2, <2>1, <2>3
  <2> QED BY Zenon, <1>2, <2>2, <2>3
<1>4. /\ \A c \in Buf : Users(c)' = Users(c)
      /\ pc' \in [Proc -> Pc] /\ cur' \in [Proc -> 0..NBUF]
      /\ want' \in [Proc -> Used[driver] \cup {NoBlock}]
      /\ held' \in [Proc -> SUBSET (Used[driver] \X Buf)]
      /\ pc'[p] = "run" /\ held'[p] = held[p] \cup {<<want[p], cur[p]>>}
      /\ \A q \in Proc : q # p => pc'[q] = pc[q] /\ cur'[q] = cur[q] /\ held'[q] = held[q]
                                  /\ want'[q] = want[q]
  BY Zenon, <1>2, GotUsers
<1>5. TypeOK' BY Zenon, <1>2, <1>3, <1>4 DEF IInv, TypeOK
<1>6. CountInv' BY Zenon, <1>2, <1>4 DEF IInv, CountInv
<1>7. HoldInv' BY Zenon, <1>1, <1>2, <1>3, GotHolds
<1>8. \A i \in 1..Len(idequeue) : idequeue[i] # b /\ idequeue[i] \in Buf
  BY Zenon, <1>1, NotQueued
<1>9. QueueInv'
  <2>1. \A q \in Proc : pc[q] = "iowait" => pc'[q] = "iowait" /\ cur'[q] = cur[q] BY Zenon, <1>4
  <2>2. \A i \in 1..Len(idequeue) : flags'[idequeue[i]] = flags[idequeue[i]] BY Zenon, <1>3, <1>8
  <2> QED BY <2>1, <2>2, <1>2 DEF IInv, QueueInv
<1>10. CmdInv'
  <2>1. idequeue # <<>> => 1 \in 1..Len(idequeue) BY DEF IInv, TypeOK
  <2>2. idequeue # <<>> => bno[idequeue[1]] # bno[b] /\ bno[idequeue[1]] \in Block
    <3> SUFFICES ASSUME idequeue # <<>>
                 PROVE  bno[idequeue[1]] # bno[b] /\ bno[idequeue[1]] \in Block
      BY Zenon
    <3>1. PICK q \in Proc : pc[q] = "iowait" /\ cur[q] = idequeue[1]
      BY Zenon, <2>1 DEF IInv, QueueInv
    <3>2. bno[idequeue[1]] \in Used[driver] BY Zenon, <3>1 DEF IInv, HoldInv, Holds
    <3> QED BY Zenon, <2>1, <3>2, <1>1, <1>8, Reached DEF IInv, TypeOK, CountInv
  <2> QED BY Zenon, <2>1, <2>2, <1>2, <1>3, <1>8 DEF IInv, CmdInv
<1>11. DataInv'
  <2>1. \A c \in Buf : "dirty" \in flags'[c] => "valid" \in flags'[c]
    BY Zenon, <1>3 DEF IInv, DataInv
  <2>2. ASSUME NEW c \in Buf, flags'[c] = {"valid"} PROVE data'[c] = disk'[bno[c]]
    <3>1. CASE c = b BY Zenon, <3>1, <1>3
    <3>2. CASE c # b
      <4>1. bno[c] # bno[b] BY Zenon, <3>2, <1>1 DEF IInv, CountInv
      <4>2. data[c] = disk[bno[c]] /\ data'[c] = data[c]
        BY Zenon, <2>2, <3>2, <1>3 DEF IInv, DataInv, CleanOnDisk
      <4>3. bno[c] \in Block BY <2>2, <3>2, <1>3, Reached DEF IInv, TypeOK, DataInv
      <4> QED BY Zenon, <4>1, <4>2, <4>3, <1>3
    <3> QED BY Zenon, <3>1, <3>2
  <2>3. \A c \in Buf : "valid" \in flags'[c] => bno[c] # NoBlock
    BY Zenon, <1>1, <1>3 DEF IInv, DataInv
  <2> QED BY Zenon, <2>1, <2>2, <2>3, <1>2 DEF DataInv, CleanOnDisk
<1> QED BY Zenon, <1>5, <1>6, <1>7, <1>9, <1>10, <1>11 DEF IInv

\* All of iderw() up to its loop.
LEMMA CallIderwKeeps ==
  ASSUME IInv, NEW p \in Proc, CallIderw(p) PROVE IInv'
<1>1. CASE UNCHANGED <<dvars, procs>>
  BY Zenon, <1>1, Stutters DEF CallIderw, dvars, drive
<1>2. CASE /\ flags[cur[p]] # {"valid"} /\ Iderw(p, cur[p])
           /\ pc' = [pc EXCEPT ![p] = "iowait"] /\ UNCHANGED <<want, cur, held>>
  BY Zenon, <1>2, IderwKeeps DEF CallIderw
<1>3. CASE IderwMem(cur[p]) /\ Got(p)
  BY Zenon, <1>3, IderwMemKeeps DEF CallIderw
<1> QED BY Zenon, <1>1, <1>2, <1>3 DEF CallIderw

\* The loop of iderw(): the process returns when its buffer is valid and clean.
LEMMA IderwLoopKeeps ==
  ASSUME IInv, NEW p \in Proc, IderwLoop(p) PROVE IInv'
<1> DEFINE b == cur[p]
<1>1. /\ pc[p] = "iowait" /\ b \in Buf /\ lock[b] = p
      /\ want[p] \in Used[driver] /\ bno[b] = want[p]
  BY Zenon DEF IderwLoop, IInv, HoldInv, Holds
<1>2. UNCHANGED drive /\ UNCHANGED <<refcnt, lock, lru>> BY Zenon DEF IderwLoop, drive
<1>3. CASE flags[b] # {"valid"}
  BY Zenon, <1>2, <1>3, Stutters DEF IderwLoop
<1>4. CASE flags[b] = {"valid"}
  <2>1. Got(p) BY Zenon, <1>4 DEF IderwLoop
  <2>2. /\ \A c \in Buf : Users(c)' = Users(c)
        /\ pc' \in [Proc -> Pc] /\ cur' \in [Proc -> 0..NBUF]
        /\ want' \in [Proc -> Used[driver] \cup {NoBlock}]
        /\ held' \in [Proc -> SUBSET (Used[driver] \X Buf)]
        /\ pc'[p] = "run" /\ held'[p] = held[p] \cup {<<want[p], cur[p]>>}
        /\ \A q \in Proc : q # p => pc'[q] = pc[q] /\ cur'[q] = cur[q] /\ held'[q] = held[q]
                                    /\ want'[q] = want[q]
    BY Zenon, <1>1, <1>2, <2>1, GotUsers DEF drive
  <2>3. TypeOK' BY Zenon, <1>2, <2>2 DEF IInv, TypeOK, drive
  <2>4. CountInv' BY Zenon, <1>2, <2>2 DEF IInv, CountInv, drive
  <2>5. HoldInv' BY Zenon, <1>1, <1>2, <1>4, <2>1, GotHolds DEF drive
  <2>6. QueueInv' /\ CmdInv'
    <3>1. \A q \in Proc : pc[q] = "iowait" /\ flags[cur[q]] # {"valid"} =>
                            pc'[q] = "iowait" /\ cur'[q] = cur[q]
      BY Zenon, <1>4, <2>2
    <3> QED BY Zenon, <3>1, <1>2, SameQueue DEF drive
  <2>7. DataInv' BY Zenon, <1>2 DEF IInv, DataInv, CleanOnDisk, drive
  <2> QED BY <2>3, <2>4, <2>5, <2>6, <2>7 DEF IInv
<1> QED BY Zenon, <1>3, <1>4
=============================================================================
