-------------------------------- MODULE Log ---------------------------------
(***************************************************************************)
(* The write-ahead log of kernel/log.c, with the disk it writes and the    *)
(* buffer cache as far as the log relies on it (B_DIRTY pins a buffer).    *)
(*                                                                         *)
(* A step is the code between two points where another process, or a       *)
(* crash, can interfere: a critical section of log.lock is one step, the   *)
(* unlocked checks at the top of log_write are a step before it, and every *)
(* block write of commit and of recovery is a step, because the machine    *)
(* may stop between any two of them.  A block write is atomic: BSIZE is    *)
(* one disk sector.                                                        *)
(***************************************************************************)
EXTENDS Naturals, Sequences, FiniteSets

CONSTANTS
  Proc,         \* processes that make file-system calls
  Block,        \* disk blocks outside the log (inodes, bitmap, data)
  Val,          \* block contents
  Zero,         \* contents of every block of a fresh disk
  MAXOPBLOCKS,  \* log space begin_op reserves for a call
  LOGSIZE,      \* capacity of struct logheader
  NLOG,         \* sb.nlog: log blocks on the disk, the header included
  OPBLOCKS      \* distinct blocks a call really writes, at most

\* NLOG = LOGSIZE is what mkfs writes to the superblock.  The header takes
\* one of the NLOG blocks, and log_write refuses the last data block too, so
\* calls must stay two blocks below what begin_op reserves for them.
ASSUME LogAssumption ==
  /\ Zero \in Val
  /\ IsFiniteSet(Proc)
  /\ MAXOPBLOCKS \in Nat /\ LOGSIZE \in Nat /\ NLOG \in Nat /\ OPBLOCKS \in Nat
  /\ MAXOPBLOCKS <= LOGSIZE
  /\ NLOG = LOGSIZE
  /\ OPBLOCKS + 2 <= MAXOPBLOCKS

VARIABLES
  home,         \* on disk: the blocks at their home locations
  dhead,        \* on disk: the log header, as the sequence block[0..n-1]
  dlog,         \* on disk: the log's data blocks
  cache,        \* content of a block as bread() returns it
  dirty,        \* the blocks whose buffer has B_DIRTY
  lh,           \* log.lh.block[0..n-1]
  outstanding,  \* log.outstanding
  committing,   \* log.committing
  pc,           \* where each process is
  held,         \* the block whose buffer a process holds in log_write
  wrote,        \* the distinct blocks a call has written so far
  stage,        \* how far commit() or recover_from_log() has got
  tail,         \* loop index of write_log() and install_trans()
  panicked      \* panic() was called

disk == <<home, dhead, dlog>>
bufs == <<cache, dirty>>
procs == <<pc, held, wrote>>
vars == <<disk, bufs, lh, outstanding, committing, procs, stage, tail, panicked>>

Entries(s) == {s[i] : i \in DOMAIN s}

\* No call starts before recover_from_log() has finished: initlog() runs in
\* the first process before it returns to user space (forkret).
Booted == committing = 1 \/ stage = "idle"

Init ==
  /\ home = [b \in Block |-> Zero] /\ cache = home
  /\ dhead = <<>>
  /\ dlog = [i \in 1..LOGSIZE |-> Zero]
  /\ dirty = {}
  /\ lh = <<>>
  /\ outstanding = 0
  /\ committing = 0
  /\ pc = [p \in Proc |-> "out"]
  /\ held = [p \in Proc |-> {}]
  /\ wrote = [p \in Proc |-> {}]
  /\ stage = "read_head"
  /\ tail = 1
  /\ panicked = 0

-----------------------------------------------------------------------------
(* begin_op, log_write, end_op                                             *)

\* wakeup(&log)
Wakeup(f) == [p \in Proc |-> IF f[p] = "asleep" THEN "awake" ELSE f[p]]

\* Faulty variant: begin_op forgets to count the call that is starting.
NoSpaceOffByOne == Len(lh) + outstanding * MAXOPBLOCKS > LOGSIZE

NoSpace == Len(lh) + (outstanding + 1) * MAXOPBLOCKS > LOGSIZE

\* One pass of begin_op's loop: sleep on &log, or join the transaction.
BeginOp(p) ==
  /\ pc[p] \in {"out", "awake"}
  /\ Booted
  /\ IF committing = 1 \/ NoSpace
       THEN /\ pc' = [pc EXCEPT ![p] = "asleep"]
            /\ UNCHANGED <<outstanding, wrote>>
       ELSE /\ pc' = [pc EXCEPT ![p] = "op"]
            /\ outstanding' = outstanding + 1
            /\ wrote' = [wrote EXCEPT ![p] = {}]
  /\ UNCHANGED <<disk, bufs, lh, committing, held, stage, tail, panicked>>

\* The two panics of log_write, tested without log.lock.
TooBig == Len(lh) >= LOGSIZE \/ Len(lh) + 1 >= NLOG
OutsideTrans == outstanding < 1

\* A call changes a buffer it holds locked and enters log_write with it.
LogWriteCheck(p, b, v) ==
  /\ pc[p] = "op"
  /\ \A q \in Proc : b \notin held[q]
  /\ Cardinality(wrote[p] \cup {b}) <= OPBLOCKS
  /\ cache' = [cache EXCEPT ![b] = v]
  /\ held' = [held EXCEPT ![p] = {b}]
  /\ panicked' = IF TooBig \/ OutsideTrans THEN 1 ELSE 0
  /\ pc' = [pc EXCEPT ![p] = "log_write"]
  /\ UNCHANGED <<disk, dirty, lh, outstanding, committing, wrote, stage, tail>>

\* Faulty variants: log_write does not set B_DIRTY; it does not absorb.
LogWriteUnpinned(p, b) ==
  /\ pc[p] = "log_write"
  /\ b \in held[p]
  /\ lh' = IF b \in Entries(lh) THEN lh ELSE Append(lh, b)
  /\ wrote' = [wrote EXCEPT ![p] = @ \cup {b}]
  /\ held' = [held EXCEPT ![p] = {}]
  /\ pc' = [pc EXCEPT ![p] = "op"]
  /\ UNCHANGED <<disk, bufs, outstanding, committing, stage, tail, panicked>>

LogWriteNoAbsorb(p, b) ==
  /\ pc[p] = "log_write"
  /\ b \in held[p]
  /\ lh' = Append(lh, b)
  /\ dirty' = dirty \cup {b}
  /\ wrote' = [wrote EXCEPT ![p] = @ \cup {b}]
  /\ held' = [held EXCEPT ![p] = {}]
  /\ pc' = [pc EXCEPT ![p] = "op"]
  /\ UNCHANGED <<disk, cache, outstanding, committing, stage, tail, panicked>>

\* log_write under log.lock: absorb the block or append it, and pin it.
LogWrite(p, b) ==
  /\ pc[p] = "log_write"
  /\ b \in held[p]
  /\ lh' = IF b \in Entries(lh) THEN lh ELSE Append(lh, b)
  /\ dirty' = dirty \cup {b}
  /\ wrote' = [wrote EXCEPT ![p] = @ \cup {b}]
  /\ held' = [held EXCEPT ![p] = {}]
  /\ pc' = [pc EXCEPT ![p] = "op"]
  /\ UNCHANGED <<disk, cache, outstanding, committing, stage, tail, panicked>>

\* end_op up to its first release: the last call out starts the commit.
EndOp(p) ==
  /\ pc[p] = "op"
  /\ outstanding' = outstanding - 1
  /\ panicked' = committing
  /\ IF outstanding = 1
       THEN /\ committing' = 1
            /\ pc' = [pc EXCEPT ![p] = "commit"]
            /\ stage' = IF lh = <<>> THEN "done" ELSE "write_log"
            /\ tail' = 1
       ELSE /\ pc' = Wakeup([pc EXCEPT ![p] = "out"])
            /\ UNCHANGED <<committing, stage, tail>>
  /\ UNCHANGED <<disk, bufs, lh, held, wrote>>

\* Faulty variant: end_op wakes nobody after the commit.
EndCommitSilent(p) ==
  /\ pc[p] = "commit" /\ stage = "done"
  /\ committing' = 0 /\ stage' = "idle"
  /\ pc' = [pc EXCEPT ![p] = "out"]
  /\ UNCHANGED <<disk, bufs, lh, outstanding, held, wrote, tail, panicked>>

\* end_op after commit() returns.
EndCommit(p) ==
  /\ pc[p] = "commit"
  /\ stage = "done"
  /\ committing' = 0
  /\ stage' = "idle"
  /\ pc' = Wakeup([pc EXCEPT ![p] = "out"])
  /\ UNCHANGED <<disk, bufs, lh, outstanding, held, wrote, tail, panicked>>

-----------------------------------------------------------------------------
(* commit and recover_from_log                                             *)

\* Faulty variant: commit() installs before it writes the header.
WriteLogThenInstall ==
  /\ stage = "write_log"
  /\ dlog' = [dlog EXCEPT ![tail] = cache[lh[tail]]]
  /\ IF tail = Len(lh)
       THEN stage' = "install" /\ tail' = 1
       ELSE tail' = tail + 1 /\ UNCHANGED stage
  /\ UNCHANGED <<home, dhead, bufs, lh, outstanding, committing, procs, panicked>>

\* write_log: one cached block to its place in the log, then write_head.
WriteLog ==
  /\ stage = "write_log"
  /\ dlog' = [dlog EXCEPT ![tail] = cache[lh[tail]]]
  /\ IF tail = Len(lh)
       THEN stage' = "write_head" /\ tail' = 1
       ELSE tail' = tail + 1 /\ UNCHANGED stage
  /\ UNCHANGED <<home, dhead, bufs, lh, outstanding, committing, procs, panicked>>

\* write_head with n > 0: the point of commit.
WriteHead ==
  /\ stage = "write_head"
  /\ dhead' = lh
  /\ stage' = "install"
  /\ UNCHANGED <<home, dlog, bufs, lh, outstanding, committing, procs, tail, panicked>>

\* install_trans: one logged block to its home; the write clears B_DIRTY.
InstallTrans ==
  /\ stage = "install"
  /\ IF tail <= Len(lh)
       THEN /\ home' = [home EXCEPT ![lh[tail]] = dlog[tail]]
            /\ cache' = [cache EXCEPT ![lh[tail]] = dlog[tail]]
            /\ dirty' = dirty \ {lh[tail]}
            /\ tail' = tail + 1
            /\ UNCHANGED stage
       ELSE stage' = "clear_head" /\ UNCHANGED <<home, bufs, tail>>
  /\ UNCHANGED <<dhead, dlog, lh, outstanding, committing, procs, panicked>>

\* Faulty variant: commit() does not erase the header on the disk.
ClearHeadInMemory ==
  /\ stage = "clear_head"
  /\ lh' = <<>>
  /\ stage' = IF committing = 1 THEN "done" ELSE "idle"
  /\ UNCHANGED <<disk, bufs, outstanding, committing, procs, tail, panicked>>

\* log.lh.n = 0 and write_head: erase the transaction from the log.
ClearHead ==
  /\ stage = "clear_head"
  /\ lh' = <<>>
  /\ dhead' = <<>>
  /\ stage' = IF committing = 1 THEN "done" ELSE "idle"
  /\ UNCHANGED <<home, dlog, bufs, outstanding, committing, procs, tail, panicked>>

\* read_head, the first step of recover_from_log.
ReadHead ==
  /\ stage = "read_head"
  /\ lh' = dhead
  /\ tail' = 1
  /\ stage' = "install"
  /\ UNCHANGED <<disk, bufs, outstanding, committing, procs, panicked>>

\* The machine stops and reboots: only the disk survives.
Crash ==
  /\ cache' = home
  /\ dirty' = {}
  /\ lh' = <<>>
  /\ outstanding' = 0
  /\ committing' = 0
  /\ pc' = [p \in Proc |-> "out"]
  /\ held' = [p \in Proc |-> {}]
  /\ wrote' = [p \in Proc |-> {}]
  /\ stage' = "read_head"
  /\ tail' = 1
  /\ panicked' = 0
  /\ UNCHANGED disk

Op(p) ==
  \/ BeginOp(p)
  \/ \E b \in Block, v \in Val : LogWriteCheck(p, b, v)
  \/ \E b \in Block : LogWrite(p, b)
  \/ EndOp(p)
  \/ EndCommit(p)

Commit == WriteLog \/ WriteHead \/ InstallTrans \/ ClearHead \/ ReadHead

Next ==
  \/ panicked = 0 /\ ((\E p \in Proc : Op(p)) \/ Commit)
  \/ Crash

Spec == Init /\ [][Next]_vars

\* A call that has begun ends (every loop of a system call is bounded), and
\* a process that can run does; nothing makes a process start a call, and
\* nothing makes the machine crash.
Fairness ==
  /\ \A p \in Proc : SF_vars(panicked = 0 /\ EndOp(p))
  /\ \A p \in Proc : WF_vars(panicked = 0 /\ pc[p] = "awake" /\ BeginOp(p))
  /\ \A p \in Proc : WF_vars(panicked = 0 /\ \E b \in Block : LogWrite(p, b))
  /\ \A p \in Proc : WF_vars(panicked = 0 /\ EndCommit(p))
  /\ WF_vars(panicked = 0 /\ Commit)

FairSpec == Spec /\ Fairness

-----------------------------------------------------------------------------
(* Properties                                                              *)

Active == {p \in Proc : pc[p] \in {"op", "log_write"}}

\* Type invariant of the log, the disk and the processes.
TypeOK ==
  /\ home \in [Block -> Val] /\ cache \in [Block -> Val]
  /\ dlog \in [1..LOGSIZE -> Val]
  /\ dhead \in Seq(Block) /\ lh \in Seq(Block)
  /\ dirty \subseteq Block
  /\ outstanding \in Nat
  /\ committing \in {0, 1} /\ panicked \in {0, 1}
  /\ pc \in [Proc -> {"out", "awake", "asleep", "op", "log_write", "commit"}]
  /\ held \in [Proc -> SUBSET Block]
  /\ wrote \in [Proc -> SUBSET Block]
  /\ stage \in {"read_head", "idle", "write_log", "write_head", "install",
                "clear_head", "done"}
  /\ tail \in Nat

\* The reservation of begin_op is enough: none of the panics of log_write
\* and end_op ("too big a transaction", "log_write outside of trans",
\* "log.committing") is ever reached, although log_write tests the space
\* before it takes log.lock and tests it even for a block it absorbs.
NoPanic == panicked = 0

\* The transaction always fits the log's data blocks on the disk, so that
\* write_log() never writes over the inode blocks that follow the log.
LogFits == Len(lh) < NLOG

\* A buffer without B_DIRTY that no call holds agrees with its home location
\* on the disk: bget() may recycle it without losing an update, whether the
\* update is uncommitted, committed or half installed.
CleanBufferOnDisk ==
  \A b \in Block \ dirty :
    (\A p \in Proc : b \notin held[p]) => cache[b] = home[b]

\* No lost wakeup on &log: while a process sleeps in begin_op, a call is in
\* progress or a commit is running, so an end_op is still to come and will
\* wake it.
SleeperHasWaker ==
  (\E p \in Proc : pc[p] = "asleep") => committing = 1 \/ outstanding > 0

\* Write-ahead rule: commit() and recovery overwrite a home location only
\* with the content the committed log on the disk holds for that block.
WriteAhead ==
  [][\A b \in Block : home'[b] # home[b] =>
        \E i \in DOMAIN dhead : dhead[i] = b /\ home'[b] = dlog[i]]_vars

\* The content of a block after a crash and recovery.
Recovered ==
  [b \in Block |-> IF b \in Entries(dhead)
                    THEN dlog[CHOOSE i \in DOMAIN dhead : dhead[i] = b]
                    ELSE home[b]]

\* The content file-system calls see, or will see once recovery is over.
Visible == IF Booted THEN cache ELSE Recovered

Abstract == INSTANCE AtomicFs WITH
  mem <- Visible,
  durable <- Recovered,
  active <- Active

\* log.c implements AtomicFs: a crash at any step of any call, of commit()
\* or of recovery itself leaves every file-system call entirely on the disk
\* or entirely absent from it.
CrashAtomic == Abstract!ASpec

\* A process that sleeps in begin_op is eventually woken.
SleeperWakes == \A p \in Proc : pc[p] = "asleep" ~> pc[p] # "asleep"
=============================================================================
