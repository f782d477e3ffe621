-------------------------------- MODULE Ide ---------------------------------
(***************************************************************************)
(* The disk driver: kernel/ide.c, as the default build compiles it and     *)
(* with HW4_ide2, and kernel/memide.c, which replaces it in the build with *)
(* a disk in memory.                                                       *)
(*                                                                         *)
(* idelock is held over all of a handler, and sleep() gives it up in the   *)
(* same step as the process falls asleep, so a step here is what happens   *)
(* between two points where idelock is free.                               *)
(***************************************************************************)
EXTENDS Integers, Sequences

CONSTANTS
  Proc,
  NBUF,
  Disk,       \* the disks there are, a subset of 0..3
  Sector,     \* block numbers
  Val, Zero,  \* contents of a block, and those at boot
  Used,       \* the blocks in use, for each driver
  Driver,     \* the builds looked at: "ide", "ide2", "memide"
  Status,     \* what the status register may say after a read: "ok", "err"
  Nobody

Buf == 1..NBUF
Block == Disk \X Sector
NoBlock == <<-1, -1>>    \* a buffer that has not been used yet
Idle ==
  [busy |-> FALSE, ctl |-> 0, at |-> NoBlock, write |-> FALSE, val |-> Zero, done |-> FALSE]

VARIABLES
  driver,     \* the build; never changes
  bno,        \* b->dev and b->blockno
  flags,      \* the set of "valid" and "dirty"
  data,
  idequeue,   \* the buffers linked through qnext; the first is being served
  cmd,        \* what the controller was told to do
  disk,
  chan        \* what a process sleeps on: <<b>>, the lock of b, or <<>> when awake

dvars == <<driver, bno, flags, data, idequeue, cmd, disk, chan>>

\* wakeup(c), as a function of who sleeps where.
Wakeup(c) == [p \in Proc |-> IF chan[p] = c THEN <<>> ELSE chan[p]]

\* The two disks of a controller are told apart by the low bit of dev; the
\* controller is the one whose ports the code writes to.
Addressed(k, c) == <<2 * c + (k[1] % 2), k[2]>>

\* The commands written to the ports of controller c for buffer b.  A write
\* hands over its data at once.
Command(b, c) ==
  [busy |-> TRUE, ctl |-> c, at |-> Addressed(bno[b], c),
   write |-> "dirty" \in flags[b], val |-> data[b], done |-> FALSE]

\* idestart(b): with HW4_ide2, dev 2 and 3 go to the second controller.
Idestart(b) ==
  Command(b, IF driver = "ide2" /\ bno[b][1] \in {2, 3} THEN 1 ELSE 0)

\* idestart2(b)
Idestart2(b) == Command(b, 1)

DInit ==
  /\ driver \in Driver
  /\ bno = [b \in Buf |-> NoBlock]
  /\ flags = [b \in Buf |-> {}]
  /\ data = [b \in Buf |-> Zero]
  /\ idequeue = <<>>
  /\ cmd = Idle
  /\ disk = [k \in Block |-> Zero]
  /\ chan = [p \in Proc |-> <<>>]

\* The controller does what it was told and raises its interrupt.
Controller ==
  /\ cmd.busy /\ ~cmd.done
  /\ disk' = IF cmd.write THEN [disk EXCEPT ![cmd.at] = cmd.val] ELSE disk
  /\ cmd' = [cmd EXCEPT !.done = TRUE]
  /\ UNCHANGED <<driver, bno, flags, data, idequeue, chan>>

\* The interrupt handler of controller c: finish the first buffer of the queue
\* and start the one after it, if any, with next.  A read that the status
\* register calls failed leaves the data alone and is marked valid all the same.
\* With an empty queue the handler does nothing.
Complete(c, next) ==
  /\ cmd.busy /\ cmd.done /\ cmd.ctl = c /\ idequeue # <<>>
  /\ LET b == Head(idequeue) IN
     /\ idequeue' = Tail(idequeue)
     /\ \E s \in Status :
          data' = IF "dirty" \notin flags[b] /\ s = "ok"
                    THEN [data EXCEPT ![b] = disk[cmd.at]] ELSE data
     /\ flags' = [flags EXCEPT ![b] = {"valid"}]
     /\ chan' = Wakeup(<<b>>)
     /\ cmd' = IF Tail(idequeue) = <<>> THEN Idle ELSE next
     /\ UNCHANGED <<driver, bno, disk>>

\* Faulty variant: the next buffer of the queue is not started.
IdeintrNoStart == Complete(0, Idle)

Second == Head(Tail(idequeue))
Ideintr == Complete(0, Idestart(Second))
Ideintr2 == driver = "ide2" /\ Complete(1, Idestart2(Second))

\* Faulty variant: the disk is started although it is busy.
IderwStarts(p, b) ==
  /\ driver # "memide"
  /\ idequeue' = Append(idequeue, b)
  /\ cmd' = Idestart(b)
  /\ chan' = [chan EXCEPT ![p] = <<b>>]
  /\ UNCHANGED <<driver, bno, flags, data, disk>>

\* iderw(b) up to the loop, which always sleeps the first time: append b, and
\* start the disk if it had nothing to do.
Iderw(p, b) ==
  /\ driver # "memide"
  /\ idequeue' = Append(idequeue, b)
  /\ cmd' = IF idequeue = <<>> THEN Idestart(b) ELSE cmd
  /\ chan' = [chan EXCEPT ![p] = <<b>>]
  /\ UNCHANGED <<driver, bno, flags, data, disk>>

\* iderw(b) of memide.c: the disk is an array, and nobody waits.
IderwMem(b) ==
  /\ driver = "memide"
  /\ IF "dirty" \in flags[b]
       THEN disk' = [disk EXCEPT ![bno[b]] = data[b]] /\ UNCHANGED data
       ELSE data' = [data EXCEPT ![b] = disk[bno[b]]] /\ UNCHANGED disk
  /\ flags' = [flags EXCEPT ![b] = {"valid"}]
  /\ UNCHANGED <<driver, bno, idequeue, cmd, chan>>
=============================================================================
