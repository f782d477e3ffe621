-------------------------------- MODULE Bio ---------------------------------
(***************************************************************************)
(* The buffer cache: kernel/bio.c with the sleep locks of sleeplock.c,     *)
(* above the disk driver of module Ide.                                    *)
(*                                                                         *)
(* A step is what a process does between two points where bcache.lock, the *)
(* spin lock inside a sleep lock, or idelock is free.  The callers are     *)
(* those of fs.c and log.c: they hold a few buffers at a time, write them  *)
(* with bwrite() or hand them to the log, and take a second buffer only in *)
(* one order of the blocks (log block, home block; indirect block, bitmap).*)
(***************************************************************************)
EXTENDS Ide, FiniteSets, FiniteSetsExt

CONSTANTS
  MaxHeld,     \* bound: the buffers that one process holds
  MaxPinned    \* bound: the buffers that wait for a commit

\* The blocks in use are on the disks of one controller: a queue for both would
\* start a disk of the one from the interrupt of the other.  The disks have no
\* errors, after which a buffer is marked valid with what it had before.
ASSUME BioAssumption ==
  /\ NBUF \in Nat /\ IsFiniteSet(Proc) /\ Nobody \notin Proc
  /\ Disk \subseteq 0..3 /\ Sector \subseteq Int
  /\ Zero \in Val /\ Status = {"ok"}
  /\ \A d \in Driver :
       /\ Used[d] \subseteq Block
       /\ \/ \A k \in Used[d] : k[1] \in {0, 1}
          \/ d = "ide2" /\ \A k \in Used[d] : k[1] \in {2, 3}

VARIABLES
  refcnt, lock,   \* of each buffer; lock is the holder of its sleep lock
  lru,            \* the list of buffers, head.next first
  pc,             \* where a process is
  want, cur,      \* the block that a call is about, and its buffer
  held,           \* the blocks that a process has got, with their buffers
  panic

procs == <<pc, want, cur, held>>
vars == <<dvars, refcnt, lock, lru, procs, panic>>

\* binit(), with every process outside the cache.
Init ==
  /\ DInit
  /\ refcnt = [b \in Buf |-> 0]
  /\ lock = [b \in Buf |-> Nobody]
  /\ lru = [i \in 1..NBUF |-> NBUF + 1 - i]
  /\ pc = [p \in Proc |-> "run"]
  /\ want = [p \in Proc |-> NoBlock]
  /\ cur = [p \in Proc |-> 0]
  /\ held = [p \in Proc |-> {}]
  /\ panic = FALSE

Cached(k) == {b \in Buf : bno[b] = k}

\* Faulty variant: a buffer that somebody waits for may be recycled.
VictimsUnlocked == {i \in 1..NBUF : lock[lru[i]] = Nobody /\ "dirty" \notin flags[lru[i]]}

\* The places in the list of the buffers that may be recycled.
Victims == {i \in 1..NBUF : refcnt[lru[i]] = 0 /\ "dirty" \notin flags[lru[i]]}

Pinned == {b \in Buf : "dirty" \in flags[b] /\ lock[b] = Nobody}

\* The buffers in use are fewer than NBUF, and a second buffer is taken in order.
MayGet(p, k) ==
  /\ Cardinality(held[p]) < MaxHeld
  /\ \A h \in held[p] : h[1][2] < k[2]
  /\ Cardinality(Pinned) + Cardinality({q \in Proc : pc[q] # "run"})
       + Cardinality(UNION {held[q] : q \in Proc}) < NBUF

\* bget() under bcache.lock: find the block or recycle the least recently used
\* buffer.
Bget(p, k) ==
  /\ pc[p] = "run" /\ MayGet(p, k)
  /\ \/ \E b \in Cached(k) :
          /\ b = lru[Min({i \in 1..NBUF : bno[lru[i]] = k})]
          /\ refcnt' = [refcnt EXCEPT ![b] = @ + 1]
          /\ cur' = [cur EXCEPT ![p] = b]
          /\ pc' = [pc EXCEPT ![p] = "lock"]
          /\ UNCHANGED <<bno, flags, panic>>
     \/ /\ Cached(k) = {} /\ Victims # {}
        /\ LET b == lru[Max(Victims)] IN
           /\ bno' = [bno EXCEPT ![b] = k]
           /\ flags' = [flags EXCEPT ![b] = {}]
           /\ refcnt' = [refcnt EXCEPT ![b] = 1]
           /\ cur' = [cur EXCEPT ![p] = b]
        /\ pc' = [pc EXCEPT ![p] = "lock"]
        /\ UNCHANGED panic
     \/ /\ Cached(k) = {} /\ Victims = {}
        /\ panic' = TRUE
        /\ UNCHANGED <<bno, flags, refcnt, cur, pc>>
  /\ want' = [want EXCEPT ![p] = k]
  /\ UNCHANGED <<driver, data, idequeue, cmd, disk, chan, lock, lru, held>>

Got(p) ==
  /\ held' = [held EXCEPT ![p] = @ \cup {<<want[p], cur[p]>>}]
  /\ pc' = [pc EXCEPT ![p] = "run"]
  /\ cur' = [cur EXCEPT ![p] = 0]
  /\ want' = [want EXCEPT ![p] = NoBlock]

\* bread() once it has the lock: ask the disk if the buffer is not valid.
Bread(p) ==
  IF "valid" \in flags[cur[p]] THEN Got(p)
  ELSE pc' = [pc EXCEPT ![p] = "iderw"] /\ UNCHANGED <<want, cur, held>>

\* acquiresleep(&b->lock): one turn of its loop, and what bread() does next.
Acquiresleep(p) ==
  LET b == cur[p] IN
  /\ pc[p] = "lock" /\ chan[p] = <<>>
  /\ IF lock[b] # Nobody
       THEN chan' = [chan EXCEPT ![p] = <<"lock", b>>] /\ UNCHANGED <<lock, procs>>
       ELSE lock' = [lock EXCEPT ![b] = p] /\ Bread(p) /\ UNCHANGED chan
  /\ UNCHANGED <<driver, bno, flags, data, idequeue, cmd, disk, refcnt, lru, panic>>

\* The holder changes the block and calls bwrite(), which goes on to iderw().
Bwrite(p, k, b, v) ==
  /\ pc[p] = "run" /\ <<k, b>> \in held[p]
  /\ data' = [data EXCEPT ![b] = v]
  /\ flags' = [flags EXCEPT ![b] = @ \cup {"dirty"}]
  /\ want' = [want EXCEPT ![p] = k]
  /\ cur' = [cur EXCEPT ![p] = b]
  /\ pc' = [pc EXCEPT ![p] = "iderw"]
  /\ UNCHANGED <<driver, bno, idequeue, cmd, disk, chan, refcnt, lock, lru, held, panic>>

\* The holder changes the block and calls log_write(), which marks it dirty so
\* that it stays in the cache until the log has written it.
LogWrite(p, k, b, v) ==
  /\ pc[p] = "run" /\ <<k, b>> \in held[p]
  /\ Cardinality({c \in Buf : "dirty" \in flags[c]} \cup {b}) <= MaxPinned
  /\ data' = [data EXCEPT ![b] = v]
  /\ flags' = [flags EXCEPT ![b] = @ \cup {"dirty"}]
  /\ UNCHANGED <<driver, bno, idequeue, cmd, disk, chan, refcnt, lock, lru, procs, panic>>

\* iderw() of either driver, from bread() or bwrite(), with its panics.
CallIderw(p) ==
  LET b == cur[p] IN
  /\ pc[p] = "iderw"
  /\ \/ /\ lock[b] = Nobody \/ flags[b] = {"valid"}
        /\ panic' = TRUE
        /\ UNCHANGED <<dvars, procs>>
     \/ /\ lock[b] # Nobody /\ flags[b] # {"valid"}
        /\ Iderw(p, b)
        /\ pc' = [pc EXCEPT ![p] = "iowait"]
        /\ UNCHANGED <<want, cur, held, panic>>
     \/ /\ lock[b] # Nobody /\ flags[b] # {"valid"}
        /\ IderwMem(b)
        /\ Got(p)
        /\ UNCHANGED panic
  /\ UNCHANGED <<refcnt, lock, lru>>

\* The loop of iderw(), each time the process wakes up.
IderwLoop(p) ==
  LET b == cur[p] IN
  /\ pc[p] = "iowait" /\ chan[p] = <<>>
  /\ IF flags[b] = {"valid"} THEN Got(p) /\ UNCHANGED chan
     ELSE chan' = [chan EXCEPT ![p] = <<b>>] /\ UNCHANGED procs
  /\ UNCHANGED <<driver, bno, flags, data, idequeue, cmd, disk, refcnt, lock, lru, panic>>

\* brelse(), first releasesleep(): the lock is free, the reference is not.
Brelse(p, k, b) ==
  /\ pc[p] = "run" /\ <<k, b>> \in held[p]
  /\ held' = [held EXCEPT ![p] = @ \ {<<k, b>>}]
  /\ lock' = [lock EXCEPT ![b] = Nobody]
  /\ chan' = Wakeup(<<"lock", b>>)
  /\ want' = [want EXCEPT ![p] = k]
  /\ cur' = [cur EXCEPT ![p] = b]
  /\ pc' = [pc EXCEPT ![p] = "brelse"]
  /\ UNCHANGED <<driver, bno, flags, data, idequeue, cmd, disk, refcnt, lru, panic>>

\* The list with b taken out of its place and put at the head.
ToFront(s, b) ==
  LET at == CHOOSE i \in 1..NBUF : s[i] = b
  IN [i \in 1..NBUF |-> IF i = 1 THEN b ELSE IF i <= at THEN s[i - 1] ELSE s[i]]

\* Faulty variant: a reference is given back only by the last user.
BrelseDropLast(p) ==
  LET b == cur[p] IN
  /\ pc[p] = "brelse"
  /\ refcnt' = [refcnt EXCEPT ![b] = IF lock[b] = Nobody THEN @ - 1 ELSE @]
  /\ lru' = IF refcnt[b] = 1 THEN ToFront(lru, b) ELSE lru
  /\ pc' = [pc EXCEPT ![p] = "run"]
  /\ cur' = [cur EXCEPT ![p] = 0]
  /\ want' = [want EXCEPT ![p] = NoBlock]
  /\ UNCHANGED <<dvars, lock, held, panic>>

\* The rest of brelse(), under bcache.lock: the last reference puts the buffer
\* at the head of the list.
BrelseDrop(p) ==
  LET b == cur[p] IN
  /\ pc[p] = "brelse"
  /\ refcnt' = [refcnt EXCEPT ![b] = @ - 1]
  /\ lru' = IF refcnt[b] = 1 THEN ToFront(lru, b) ELSE lru
  /\ pc' = [pc EXCEPT ![p] = "run"]
  /\ cur' = [cur EXCEPT ![p] = 0]
  /\ want' = [want EXCEPT ![p] = NoBlock]
  /\ UNCHANGED <<dvars, lock, held, panic>>

-----------------------------------------------------------------------------

\* A process goes on inside a call.
Continue(p) ==
  \/ Acquiresleep(p) \/ CallIderw(p) \/ IderwLoop(p) \/ BrelseDrop(p)

Leave(p) == \E k \in Used[driver], b \in Buf : Brelse(p, k, b)

Call(p) ==
  \/ \E k \in Used[driver] : Bget(p, k)
  \/ \E k \in Used[driver], b \in Buf, v \in Val : Bwrite(p, k, b, v) \/ LogWrite(p, k, b, v)
  \/ Leave(p)

Hardware ==
  \/ Controller /\ UNCHANGED <<refcnt, lock, lru, procs, panic>>
  \/ Ideintr /\ UNCHANGED <<refcnt, lock, lru, procs, panic>>
  \/ Ideintr2 /\ UNCHANGED <<refcnt, lock, lru, procs, panic>>

Next == Hardware \/ \E p \in Proc : Continue(p) \/ Call(p)

Spec == Init /\ [][Next]_vars

\* The disk finishes what it is told and interrupts, a process inside a call
\* goes on, and a caller that holds a buffer does not write it for ever.
Fairness ==
  /\ WF_vars(Hardware)
  /\ \A p \in Proc : WF_vars(Continue(p)) /\ SF_vars(Leave(p))

FairSpec == Spec /\ Fairness

-----------------------------------------------------------------------------
(* Properties                                                              *)

Holding(k) == {p \in Proc : \E b \in Buf : <<k, b>> \in held[p]}

\* What a block is worth: what its holder sees, else a valid buffer, else the disk.
Current(k) ==
  LET seen == {b \in Buf : \E p \in Proc : <<k, b>> \in held[p]}
      kept == IF seen # {} THEN seen ELSE {b \in Cached(k) : "valid" \in flags[b]}
  IN IF kept = {} THEN disk[k] ELSE data[CHOOSE b \in kept : TRUE]

Store == [k \in Block |-> Current(k)]

Holder ==
  [k \in Block |-> IF Holding(k) = {} THEN Nobody ELSE CHOOSE p \in Holding(k) : TRUE]

Blocks == INSTANCE BlockStore WITH store <- Store, holder <- Holder

\* bio.c:1-16: the cache keeps one copy of a block, one process at a time uses
\* it, and a process gets what the last one left, although buffers are
\* recycled, wait for a commit, and are read and written by the disk.
CoherentBlocks == Blocks!SSpec

\* What log.c relies on: once bwrite() or bread() has returned, and whenever a
\* buffer may be recycled, the disk has what the buffer has.
CleanOnDisk ==
  \A b \in Buf : flags[b] = {"valid"} => data[b] = disk[bno[b]]

\* While fewer than NBUF buffers are held, awaited or waiting for a commit,
\* bget() finds one, so no reference is lost; and iderw() has always work to do.
NeverPanics == ~panic

\* Whoever sleeps in the cache is woken and every request of the disk is done:
\* none is lost in the queue, no wakeup on a buffer or its lock is missed, and
\* nobody waits in a circle.  (Who gets a lock after a wakeup is left open: a
\* process may find it taken again.)
RequestServed ==
  \A p \in Proc : /\ chan[p] # <<>> ~> chan[p] = <<>>
                  /\ pc[p] = "iowait" ~> pc[p] = "run"
=============================================================================
