-------------------------------- MODULE Pipe --------------------------------
(***************************************************************************)
(* Pipes: kernel/pipe.c, and the reference counts of kernel/file.c that    *)
(* decide when an end of the pipe is closed.                               *)
(*                                                                         *)
(* Each process holds any of the two ends, as sh.c has it between pipe(),  *)
(* fork() and close().  A step is a piece of an operation that nothing     *)
(* can come into: one byte, one test of the loop condition, one sleep().   *)
(* p->lock is held from step to step, but kill() does not take it.         *)
(***************************************************************************)
EXTENDS Integers, Sequences

CONSTANTS
  Proc,
  Byte,
  PIPESIZE,
  WRAP,       \* 2^32 in the code: nread and nwrite are uint and wrap round
  MaxCount,   \* bound: the longest read or write
  Nobody      \* the holder of a free lock

ASSUME PipeAssumption ==
  /\ PIPESIZE \in Nat \ {0}
  /\ WRAP \in Nat /\ WRAP > PIPESIZE /\ WRAP % PIPESIZE = 0
  /\ MaxCount \in Nat
  /\ Nobody \notin Proc

End == {"read", "write"}

VARIABLES
  page,                 \* 1 while struct pipe is allocated
  data, nread, nwrite,
  open,                 \* readopen and writeopen
  lock,                 \* who holds p->lock
  ends,                 \* the ends a process has in its ofile table
  pc,                   \* where a process is
  chan,                 \* the counter it is asleep on, or "none"
  todo,                 \* n - i of its loop; left as it is when pipewrite() returns -1
  killed

pipe == <<page, data, nread, nwrite, open>>
procs == <<ends, pc, chan, todo, killed>>
vars == <<pipe, lock, procs>>

Init ==
  /\ page = 0
  /\ data \in [0 .. (PIPESIZE - 1) -> Byte]
  /\ nread = 0 /\ nwrite = 0
  /\ open = [e \in End |-> 0]
  /\ lock = Nobody
  /\ ends = [p \in Proc |-> {}]
  /\ pc = [p \in Proc |-> "user"]
  /\ chan = [p \in Proc |-> "none"]
  /\ todo = [p \in Proc |-> 0]
  /\ killed = [p \in Proc |-> 0]

\* Faulty variant: the room is counted in the index, not in the counter.
FullNoWrap == nwrite = nread + PIPESIZE

Full == nwrite = (nread + PIPESIZE) % WRAP
Empty == nread = nwrite

Holders(e) == {p \in Proc : e \in ends[p]}

\* wakeup(ch), as a function of who sleeps where.
Wakeup(ch) == [p \in Proc |-> IF chan[p] = ch THEN "none" ELSE chan[p]]

Return(p) == lock' = Nobody /\ pc' = [pc EXCEPT ![p] = "user"]

-----------------------------------------------------------------------------
(* Making and sharing a pipe                                               *)

\* pipealloc(), when filealloc() and kalloc() succeed; if one fails, what
\* the others gave is given back.
Pipealloc(p) ==
  /\ pc[p] = "user" /\ killed[p] = 0
  /\ page = 0 /\ \A q \in Proc : ends[q] = {} /\ pc[q] = "user"
  /\ page' = 1
  /\ open' = [e \in End |-> 1]
  /\ nread' = 0 /\ nwrite' = 0
  /\ ends' = [ends EXCEPT ![p] = End]
  /\ UNCHANGED <<data, lock, pc, chan, todo, killed>>

\* fork(): filedup() of every open file, into a process that is new (the
\* process of a killed one is not used again).
Fork(p, q) ==
  /\ pc[p] = "user" /\ killed[p] = 0 /\ p # q
  /\ pc[q] = "user" /\ ends[q] = {} /\ killed[q] = 0
  /\ ends' = [ends EXCEPT ![q] = ends[p]]
  /\ UNCHANGED <<pipe, lock, pc, chan, todo, killed>>

\* kill(), without p->lock.
Kill(q) ==
  /\ killed[q] = 0
  /\ killed' = [killed EXCEPT ![q] = 1]
  /\ chan' = [chan EXCEPT ![q] = "none"]
  /\ UNCHANGED <<pipe, lock, ends, pc, todo>>

Closing(e) == IF e = "read" THEN "closeread" ELSE "closewrite"
Counter(e) == IF e = "read" THEN "nwrite" ELSE "nread"

\* fileclose(), from close() or exit(): the last reference goes to pipeclose().
Fileclose(p, e) ==
  /\ pc[p] = "user" /\ e \in ends[p]
  /\ ends' = [ends EXCEPT ![p] = @ \ {e}]
  /\ IF Holders(e) = {p} THEN pc' = [pc EXCEPT ![p] = Closing(e)] ELSE UNCHANGED pc
  /\ UNCHANGED <<pipe, lock, chan, todo, killed>>

\* Faulty variants of pipeclose(): nobody is woken; the page goes with the
\* first end.
PipecloseSilent(p, e) ==
  /\ pc[p] = Closing(e)
  /\ lock = Nobody
  /\ open' = [open EXCEPT ![e] = 0]
  /\ pc' = [pc EXCEPT ![p] = IF \A f \in End \ {e} : open[f] = 0 THEN "kfree" ELSE "user"]
  /\ UNCHANGED <<page, data, nread, nwrite, lock, ends, chan, todo, killed>>

PipecloseEither(p, e) ==
  /\ pc[p] = Closing(e)
  /\ lock = Nobody
  /\ open' = [open EXCEPT ![e] = 0]
  /\ chan' = Wakeup(Counter(e))
  /\ pc' = [pc EXCEPT ![p] = "kfree"]
  /\ UNCHANGED <<page, data, nread, nwrite, lock, ends, todo, killed>>

\* pipeclose() under p->lock: close the end and wake those who wait for it.
Pipeclose(p, e) ==
  /\ pc[p] = Closing(e)
  /\ lock = Nobody
  /\ open' = [open EXCEPT ![e] = 0]
  /\ chan' = Wakeup(Counter(e))
  /\ pc' = [pc EXCEPT ![p] = IF \A f \in End \ {e} : open[f] = 0 THEN "kfree" ELSE "user"]
  /\ UNCHANGED <<page, data, nread, nwrite, lock, ends, todo, killed>>

\* kfree() of the page, after p->lock has been released.
Kfree(p) ==
  /\ pc[p] = "kfree"
  /\ page' = 0
  /\ pc' = [pc EXCEPT ![p] = "user"]
  /\ UNCHANGED <<data, nread, nwrite, open, lock, ends, chan, todo, killed>>

-----------------------------------------------------------------------------
(* pipewrite                                                               *)

\* sys_write(), up to the loop.
SysWrite(p, n) ==
  /\ pc[p] = "user" /\ killed[p] = 0 /\ "write" \in ends[p]
  /\ lock = Nobody /\ lock' = p
  /\ pc' = [pc EXCEPT ![p] = "pipewrite"]
  /\ todo' = [todo EXCEPT ![p] = n]
  /\ UNCHANGED <<pipe, ends, chan, killed>>

\* p->data[p->nwrite++ % PIPESIZE] = addr[i]
WriteByte(p, b) ==
  /\ pc[p] = "pipewrite" /\ todo[p] > 0 /\ ~Full
  /\ data' = [data EXCEPT ![nwrite % PIPESIZE] = b]
  /\ nwrite' = (nwrite + 1) % WRAP
  /\ todo' = [todo EXCEPT ![p] = @ - 1]
  /\ UNCHANGED <<page, nread, open, lock, ends, pc, chan, killed>>

\* The pipe is full: give up, with part of the bytes written, or wake the
\* readers and call sleep().
WriteFull(p) ==
  /\ pc[p] = "pipewrite" /\ todo[p] > 0 /\ Full
  /\ IF open["read"] = 0 \/ killed[p] = 1
       THEN Return(p) /\ UNCHANGED chan
       ELSE /\ chan' = Wakeup("nread")
            /\ pc' = [pc EXCEPT ![p] = "wsleep"]
            /\ UNCHANGED lock
  /\ UNCHANGED <<pipe, ends, todo, killed>>

WriteDone(p) ==
  /\ pc[p] = "pipewrite" /\ todo[p] = 0
  /\ chan' = Wakeup("nread")
  /\ Return(p)
  /\ UNCHANGED <<pipe, ends, todo, killed>>

-----------------------------------------------------------------------------
(* piperead                                                                *)

\* sys_read(), up to the loop.
SysRead(p, n) ==
  /\ pc[p] = "user" /\ killed[p] = 0 /\ "read" \in ends[p]
  /\ lock = Nobody /\ lock' = p
  /\ pc' = [pc EXCEPT ![p] = "piperead"]
  /\ todo' = [todo EXCEPT ![p] = n]
  /\ UNCHANGED <<pipe, ends, chan, killed>>

\* The loop that waits for data.
ReadWait(p) ==
  /\ pc[p] = "piperead"
  /\ \/ /\ Empty /\ open["write"] = 1 /\ killed[p] = 1
        /\ todo' = [todo EXCEPT ![p] = 0]
        /\ Return(p)
     \/ /\ Empty /\ open["write"] = 1 /\ killed[p] = 0
        /\ pc' = [pc EXCEPT ![p] = "rsleep"] /\ UNCHANGED <<lock, todo>>
     \/ /\ ~Empty \/ open["write"] = 0
        /\ pc' = [pc EXCEPT ![p] = "copy"] /\ UNCHANGED <<lock, todo>>
  /\ UNCHANGED <<pipe, ends, chan, killed>>

\* addr[i] = p->data[p->nread++ % PIPESIZE]
ReadByte(p) ==
  /\ pc[p] = "copy" /\ todo[p] > 0 /\ ~Empty
  /\ nread' = (nread + 1) % WRAP
  /\ todo' = [todo EXCEPT ![p] = @ - 1]
  /\ UNCHANGED <<page, data, nwrite, open, lock, ends, pc, chan, killed>>

\* Faulty variant: the wrong channel is woken.
ReadDoneReaders(p) ==
  /\ pc[p] = "copy" /\ (todo[p] = 0 \/ Empty)
  /\ chan' = Wakeup("nread")
  /\ todo' = [todo EXCEPT ![p] = 0]
  /\ Return(p)
  /\ UNCHANGED <<pipe, ends, killed>>

ReadDone(p) ==
  /\ pc[p] = "copy" /\ (todo[p] = 0 \/ Empty)
  /\ chan' = Wakeup("nwrite")
  /\ todo' = [todo EXCEPT ![p] = 0]
  /\ Return(p)
  /\ UNCHANGED <<pipe, ends, killed>>

-----------------------------------------------------------------------------
(* sleep(chan, &p->lock)                                                   *)

\* Go to sleep and release p->lock in one step, under ptable.lock.
Sleep(p) ==
  /\ pc[p] \in {"wsleep", "rsleep"}
  /\ lock' = Nobody
  /\ chan' = [chan EXCEPT ![p] = IF pc[p] = "wsleep" THEN "nwrite" ELSE "nread"]
  /\ pc' = [pc EXCEPT ![p] = IF @ = "wsleep" THEN "wslept" ELSE "rslept"]
  /\ UNCHANGED <<pipe, ends, todo, killed>>

\* Awake again: reacquire p->lock and test the condition again.
Reacquire(p) ==
  /\ pc[p] \in {"wslept", "rslept"} /\ chan[p] = "none"
  /\ lock = Nobody /\ lock' = p
  /\ pc' = [pc EXCEPT ![p] = IF @ = "wslept" THEN "pipewrite" ELSE "piperead"]
  /\ UNCHANGED <<pipe, ends, chan, todo, killed>>

-----------------------------------------------------------------------------

\* A process goes on with a call.
Continue(p) ==
  \/ \E e \in End : Pipeclose(p, e)
  \/ Kfree(p)
  \/ \E b \in Byte : WriteByte(p, b)
  \/ WriteFull(p) \/ WriteDone(p)
  \/ ReadWait(p) \/ ReadByte(p) \/ ReadDone(p)
  \/ Sleep(p) \/ Reacquire(p)

Step(p) ==
  \/ Continue(p)
  \/ Pipealloc(p)
  \/ \E q \in Proc : Fork(p, q)
  \/ Kill(p)
  \/ \E e \in End : Fileclose(p, e)
  \/ \E n \in 0..MaxCount : SysWrite(p, n) \/ SysRead(p, n)

Next == \E p \in Proc : Step(p)

Spec == Init /\ [][Next]_vars

\* A call goes on once it has the lock, and gets the lock in the end although
\* others take it again and again.  Nothing makes a process start a call.
Fairness == \A p \in Proc : SF_vars(Continue(p))

FairSpec == Spec /\ Fairness

-----------------------------------------------------------------------------
(* Properties                                                              *)

Writing == {"pipewrite", "wsleep"}
Reading == {"piperead", "rsleep", "copy"}

\* Type invariant.
TypeOK ==
  /\ page \in {0, 1}
  /\ data \in [0 .. (PIPESIZE - 1) -> Byte]
  /\ nread \in 0 .. (WRAP - 1) /\ nwrite \in 0 .. (WRAP - 1)
  /\ open \in [End -> {0, 1}]
  /\ lock \in Proc \cup {Nobody}
  /\ ends \in [Proc -> SUBSET End]
  /\ pc \in [Proc -> Writing \cup Reading \cup
                      {"user", "wslept", "rslept", "closeread", "closewrite", "kfree"}]
  /\ chan \in [Proc -> {"none", "nread", "nwrite"}]
  /\ todo \in [Proc -> 0..MaxCount]
  /\ killed \in [Proc -> {0, 1}]

\* The bytes in the pipe, oldest first.
Contents ==
  IF page = 0 THEN <<>>
  ELSE [i \in 1 .. ((nwrite - nread) % WRAP) |-> data[(nread + i - 1) % PIPESIZE]]

Queue == INSTANCE Fifo WITH Size <- PIPESIZE, queue <- Contents, live <- page

\* The ring buffer is a bounded queue, also when the counters wrap round and
\* when several processes read or write: no byte is lost, doubled or
\* overtaken, and none goes away while the pipe exists.
FifoOrder == Queue!FSpec

\* A killed writer has left pipewrite() in the middle, without the wakeup of
\* the readers that the bytes it had written call for.
Abandoned ==
  \E q \in Proc : /\ pc[q] \in {"user", "closeread", "closewrite", "kfree"}
                  /\ killed[q] = 1 /\ todo[q] > 0

\* No lost wakeup for readers: while nobody is inside the pipe, a process
\* asleep in piperead() has a writer to hope for, and nothing to read unless
\* a writer was killed in the middle of a write.
ReaderHasReason ==
  lock = Nobody => \A p \in Proc : chan[p] = "nread" =>
    open["write"] = 1 /\ (Empty \/ Abandoned)

\* No lost wakeup for writers: while nobody is inside the pipe, a process
\* asleep in pipewrite() has no room and a reader to hope for.
WriterHasReason ==
  lock = Nobody => \A p \in Proc : chan[p] = "nwrite" => Full /\ open["read"] = 1

\* No lost wakeup in piperead() and pipewrite(), with several of each.
SleepersHaveReason == ReaderHasReason /\ WriterHasReason

\* The page of the pipe lives as long as a file refers to it or a call is
\* inside it, and no longer: pipeclose() frees it once, at the right time.
PageWhileUsed == page = 1 <=> \E p \in Proc : ends[p] # {} \/ pc[p] # "user"

\* A reader gets end of file, and a writer its error, once the other end is
\* closed: nobody stays in the pipe for ever.
CloseUnblocks ==
  \A p \in Proc :
    /\ pc[p] \in Reading \cup {"rslept"} /\ open["write"] = 0 ~> pc[p] = "user"
    /\ pc[p] \in Writing \cup {"wslept"} /\ open["read"] = 0 ~> pc[p] = "user"

\* A sleeping reader does not sleep on when there is something to read (unless
\* a writer was killed in the middle of a write), and a sleeping writer not
\* when there is room.
DataWakes ==
  \A p \in Proc :
    /\ chan[p] = "nread" /\ ~Empty ~> chan[p] = "none" \/ Abandoned
    /\ chan[p] = "nwrite" /\ ~Full ~> chan[p] = "none"

\* Nobody stays asleep in piperead() or pipewrite() once the other side has
\* closed, written or read.
SleepersLeave == CloseUnblocks /\ DataWakes
=============================================================================
