-------------------------------- MODULE Proc --------------------------------
(***************************************************************************)
(* The process table and the scheduler of kernel/proc.c, with the timer    *)
(* interrupt and the return paths of kernel/trap.c and sys_sleep of        *)
(* kernel/sysproc.c.                                                       *)
(*                                                                         *)
(* sched() has no scheduler thread: the process that gives up a CPU picks  *)
(* the next one and jumps into it, and ptable.lock stays held across the   *)
(* switch, to be released by whatever the next context was doing when it   *)
(* called sched() itself.  So a step here is a critical section up to its  *)
(* release or its swtch, and a context that has been switched to, with     *)
(* `cont' saying where it is inside sched(), goes on in a step of its own  *)
(* while other CPUs spin on the lock.  Everything the code does without    *)
(* the lock (the failure paths of fork, np->parent, the tests of           *)
(* p->killed) is a separate step.                                          *)
(***************************************************************************)
EXTENDS Integers, FiniteSets

CONSTANTS
  NPROC,      \* slots of the process table
  NCPU,       \* CPUs
  MaxPid,     \* bound: pids handed out before fork() is no longer called
  MaxSleep,   \* bound: longest sys_sleep(n)
  KillPids    \* the pids processes pass to kill()

ASSUME ProcAssumption ==
  /\ NPROC \in Nat \ {0}
  /\ NCPU \in Nat \ {0}
  /\ MaxPid \in Nat \ {0}
  /\ MaxSleep \in Nat
  /\ KillPids \subseteq Int

Slot == 0 .. (NPROC - 1)
Cpu == 0 .. (NCPU - 1)
None == -1         \* a null pointer, and the holder of a free lock
Ticks == NPROC     \* the channel &ticks; the channel of wait() is a slot
initproc == 0

VARIABLES
  state,      \* p->state
  pid,        \* p->pid
  parent,     \* p->parent
  killed,     \* p->killed
  chan,       \* p->chan
  kstack,     \* 1 while p->kstack is an allocated page
  nextpid, rrindex,
  lock,       \* the CPU that holds ptable.lock, or None
  tickslock,  \* the CPU that holds tickslock, or None
  cur,        \* c->proc: the process a CPU runs, None in the idle loop
  intr,       \* how far the timer interrupt of a CPU has got
  cli,        \* 1 while a CPU spins in acquire(), with interrupts disabled
  pc,         \* where a process is outside sched()
  cont,       \* whom sched() returns to when a process is switched to
  np,         \* the child that fork() is creating
  left,       \* ticks until the deadline of sys_sleep: n - (ticks - ticks0)
  panicked

table == <<state, pid, parent, killed, chan, kstack, nextpid, rrindex>>
locks == <<lock, tickslock>>
cpus == <<cur, intr, cli>>
threads == <<pc, cont, np, left>>
vars == <<table, locks, cpus, threads, panicked>>

\* userinit(): the first process is runnable and every CPU is in idle().
Init ==
  /\ state = [s \in Slot |-> IF s = initproc THEN "RUNNABLE" ELSE "UNUSED"]
  /\ pid = [s \in Slot |-> IF s = initproc THEN 1 ELSE 0]
  /\ parent = [s \in Slot |-> None]
  /\ killed = [s \in Slot |-> 0]
  /\ chan = [s \in Slot |-> None]
  /\ kstack = [s \in Slot |-> IF s = initproc THEN 1 ELSE 0]
  /\ nextpid = 2 /\ rrindex = 0
  /\ lock = None /\ tickslock = None
  /\ cur = [c \in Cpu |-> None]
  /\ intr = [c \in Cpu |-> "no"]
  /\ cli = [c \in Cpu |-> 0]
  /\ pc = [s \in Slot |-> "user"]
  /\ cont = [s \in Slot |-> IF s = initproc THEN "forkret" ELSE "none"]
  /\ np = [s \in Slot |-> None]
  /\ left = [s \in Slot |-> 0]
  /\ panicked = 0

\* What a loop over the table finds first.
First(S) == CHOOSE s \in S : \A t \in S : s <= t

\* Process p executes on CPU c, outside sched() and the interrupt handler.
On(c, p) == cur[c] = p /\ intr[c] = "no" /\ lock # c

\* p is at the entry of a system call; trap() sends a killed process to exit().
Call(c, p) == On(c, p) /\ pc[p] = "user" /\ killed[p] = 0

\* acquire() of the lock that p needs next: from pushcli() on, no interrupt
\* takes the CPU away from it.
Pushcli(c, p) ==
  /\ On(c, p) /\ cli[c] = 0
  /\ pc[p] \in {"fork", "exit", "wait", "relock"}
  /\ cli' = [cli EXCEPT ![c] = 1]
  /\ UNCHANGED <<table, locks, cur, intr, threads, panicked>>

\* ... and it has the lock.
Acquired(c, p) == On(c, p) /\ cli[c] = 1 /\ cli' = [cli EXCEPT ![c] = 0]

-----------------------------------------------------------------------------
(* The scheduler                                                           *)

\* Faulty variant: the scan always starts at slot 0.
RoundRobinFromZero(st) == First({s \in Slot : st[s] = "RUNNABLE"})

\* roundrobin(): the first runnable slot after rrindex, in table order and
\* round the end of the table.
RoundRobin(st) ==
  LET runnable == {s \in Slot : st[s] = "RUNNABLE"}
      after == {s \in runnable : s > rrindex}
  IN  First(IF after # {} THEN after ELSE runnable)

\* Faulty variant: sched() forgets p->state = RUNNING.
SchedStaysRunnable(c, st) ==
  /\ lock' = c
  /\ state' = st
  /\ IF \E s \in Slot : st[s] = "RUNNABLE"
       THEN rrindex' = RoundRobin(st) /\ cur' = [cur EXCEPT ![c] = RoundRobin(st)]
       ELSE UNCHANGED rrindex /\ cur' = [cur EXCEPT ![c] = None]

\* sched() on CPU c once the caller has changed the table to st: switch to
\* the next process, or to the idle loop.  ptable.lock stays with the CPU.
Sched(c, st) ==
  /\ lock' = c
  /\ IF \E s \in Slot : st[s] = "RUNNABLE"
       THEN LET n == RoundRobin(st)
            IN  /\ rrindex' = n
                /\ state' = [st EXCEPT ![n] = "RUNNING"]
                /\ cur' = [cur EXCEPT ![c] = n]
       ELSE /\ state' = st
            /\ cur' = [cur EXCEPT ![c] = None]
            /\ UNCHANGED rrindex

\* wakeup1(ch), as a function of the table.
Wakeup1(st, ch) ==
  [s \in Slot |-> IF st[s] = "SLEEPING" /\ chan[s] = ch THEN "RUNNABLE" ELSE st[s]]

\* The top of exit(), called from trap() or as a system call.  A process
\* then closes its files, without ptable.lock.
CallExit(p) ==
  IF p = initproc
    THEN panicked' = 1 /\ UNCHANGED pc
    ELSE pc' = [pc EXCEPT ![p] = "exit"] /\ UNCHANGED panicked

\* A timer interrupt on CPU c; only CPU 0 keeps the time.
Timer(c) ==
  /\ intr[c] = "no" /\ cli[c] = 0 /\ lock # c /\ tickslock # c
  /\ intr' = [intr EXCEPT ![c] = IF c = 0 THEN "timer" ELSE "check"]
  /\ UNCHANGED <<table, locks, cur, cli, threads, panicked>>

\* acquire(&tickslock) and ticks++ in the handler.
TimerTick(c) ==
  /\ intr[c] = "timer"
  /\ tickslock = None /\ tickslock' = c
  /\ left' = [s \in Slot |-> IF left[s] > 0 THEN left[s] - 1 ELSE 0]
  /\ intr' = [intr EXCEPT ![c] = "tick"]
  /\ UNCHANGED <<table, lock, cur, cli, pc, cont, np, panicked>>

\* Faulty variant: the handler does not call wakeup(&ticks).
TimerNoWakeup(c) ==
  /\ intr[c] = "tick"
  /\ tickslock' = None
  /\ intr' = [intr EXCEPT ![c] = "check"]
  /\ UNCHANGED <<table, lock, cur, cli, threads, panicked>>

\* wakeup(&ticks) and release(&tickslock) in the handler.
TimerWakeup(c) ==
  /\ intr[c] = "tick"
  /\ lock = None
  /\ state' = Wakeup1(state, Ticks)
  /\ tickslock' = None
  /\ intr' = [intr EXCEPT ![c] = "check"]
  /\ UNCHANGED <<pid, parent, killed, chan, kstack, nextpid, rrindex, lock, cur,
                 cli, threads, panicked>>

\* trap() sends a killed process that was in user mode to exit(), which it
\* tests before it calls reschedule().
TimerCheck(c) ==
  /\ intr[c] = "check"
  /\ IF cur[c] # None /\ pc[cur[c]] = "user" /\ killed[cur[c]] = 1
       THEN /\ intr' = [intr EXCEPT ![c] = "no"]
            /\ CallExit(cur[c])
       ELSE /\ intr' = [intr EXCEPT ![c] = "resched"]
            /\ UNCHANGED <<pc, panicked>>
  /\ UNCHANGED <<table, locks, cur, cli, cont, np, left>>

\* reschedule() up to its swtch (yield() is the same for a process).
Reschedule(c) ==
  /\ intr[c] = "resched"
  /\ lock = None
  /\ intr' = [intr EXCEPT ![c] = "no"]
  /\ IF cur[c] = None
       THEN Sched(c, state) /\ UNCHANGED <<cont, panicked>>
       ELSE /\ panicked' = IF state[cur[c]] # "RUNNING" THEN 1 ELSE panicked
            /\ cont' = [cont EXCEPT ![cur[c]] = "reschedule"]
            /\ Sched(c, [state EXCEPT ![cur[c]] = "RUNNABLE"])
  /\ UNCHANGED <<pid, parent, killed, chan, kstack, nextpid, tickslock, cli, pc, np, left>>

\* sched() returns to reschedule() or to forkret(), or in the idle loop:
\* each of them only releases ptable.lock.
Return(c) ==
  /\ lock = c
  /\ IF cur[c] = None
       THEN UNCHANGED cont
       ELSE /\ cont[cur[c]] \in {"reschedule", "forkret"}
            /\ cont' = [cont EXCEPT ![cur[c]] = "none"]
  /\ lock' = None
  /\ UNCHANGED <<table, tickslock, cpus, pc, np, left, panicked>>

-----------------------------------------------------------------------------
(* fork                                                                    *)

\* allocproc() under ptable.lock.
Fork(c, p) ==
  /\ Call(c, p)
  /\ lock = None
  /\ nextpid <= MaxPid
  /\ LET free == {s \in Slot : state[s] = "UNUSED"}
     IN  /\ free # {}
         /\ state' = [state EXCEPT ![First(free)] = "EMBRYO"]
         /\ pid' = [pid EXCEPT ![First(free)] = nextpid]
         /\ np' = [np EXCEPT ![p] = First(free)]
  /\ nextpid' = nextpid + 1
  /\ pc' = [pc EXCEPT ![p] = "allocproc"]
  /\ UNCHANGED <<parent, killed, chan, kstack, rrindex, locks, cpus, cont, left, panicked>>

\* The rest of allocproc(), without the lock: kalloc() of the kernel stack
\* and the context that starts at forkret(), or failure.
AllocStack(c, p) ==
  /\ On(c, p) /\ pc[p] = "allocproc"
  /\ \/ /\ kstack' = [kstack EXCEPT ![np[p]] = 1]
        /\ cont' = [cont EXCEPT ![np[p]] = "forkret"]
        /\ pc' = [pc EXCEPT ![p] = "copyuvm"]
        /\ UNCHANGED <<state, np>>
     \/ /\ state' = [state EXCEPT ![np[p]] = "UNUSED"]
        /\ np' = [np EXCEPT ![p] = None]
        /\ pc' = [pc EXCEPT ![p] = "user"]
        /\ UNCHANGED <<kstack, cont>>
  /\ UNCHANGED <<pid, parent, killed, chan, nextpid, rrindex, locks, cpus, left, panicked>>

\* fork() after allocproc(): copyuvm(), and np->parent or the failure path.
CopyUvm(c, p) ==
  /\ On(c, p) /\ pc[p] = "copyuvm"
  /\ \/ /\ parent' = [parent EXCEPT ![np[p]] = p]
        /\ pc' = [pc EXCEPT ![p] = "fork"]
        /\ UNCHANGED <<state, kstack, cont, np>>
     \/ /\ kstack' = [kstack EXCEPT ![np[p]] = 0]
        /\ state' = [state EXCEPT ![np[p]] = "UNUSED"]
        /\ cont' = [cont EXCEPT ![np[p]] = "none"]
        /\ np' = [np EXCEPT ![p] = None]
        /\ pc' = [pc EXCEPT ![p] = "user"]
        /\ UNCHANGED parent
  /\ UNCHANGED <<pid, killed, chan, nextpid, rrindex, locks, cpus, left, panicked>>

\* The end of fork(): the child becomes runnable.
ForkRun(c, p) ==
  /\ pc[p] = "fork"
  /\ Acquired(c, p)
  /\ lock = None
  /\ state' = [state EXCEPT ![np[p]] = "RUNNABLE"]
  /\ np' = [np EXCEPT ![p] = None]
  /\ pc' = [pc EXCEPT ![p] = "user", ![np[p]] = "user"]
  /\ UNCHANGED <<pid, parent, killed, chan, kstack, nextpid, rrindex, locks, cur, intr,
                 cont, left, panicked>>

-----------------------------------------------------------------------------
(* exit, wait and kill                                                     *)

\* sys_exit(), which user/init.c never calls, or a trap of a killed process.
EnterExit(c, p) ==
  /\ On(c, p) /\ pc[p] = "user"
  /\ p # initproc \/ killed[p] = 1
  /\ CallExit(p)
  /\ UNCHANGED <<table, locks, cpus, cont, np, left>>

\* Faulty variant: no wakeup1(initproc) when a zombie is passed to init.
AbandonSilent(st, p) == st

\* The table after exit()'s loop over the children of p.
Abandon(st, p) ==
  IF \E s \in Slot : parent[s] = p /\ st[s] = "ZOMBIE" THEN Wakeup1(st, initproc) ELSE st

\* Faulty variants of exit(): the children keep their parent; the parent is
\* not woken; ptable.lock is released before the switch.
ExitKeepsChildren(c, p) ==
  /\ pc[p] = "exit" /\ Acquired(c, p) /\ lock = None
  /\ cont' = [cont EXCEPT ![p] = "none"]
  /\ Sched(c, [Abandon(Wakeup1(state, parent[p]), p) EXCEPT ![p] = "ZOMBIE"])
  /\ UNCHANGED <<pid, parent, killed, chan, kstack, nextpid, tickslock, intr, pc, np,
                 left, panicked>>

ExitSilent(c, p) ==
  /\ pc[p] = "exit" /\ Acquired(c, p) /\ lock = None
  /\ parent' = [s \in Slot |-> IF parent[s] = p THEN initproc ELSE parent[s]]
  /\ cont' = [cont EXCEPT ![p] = "none"]
  /\ Sched(c, [Abandon(state, p) EXCEPT ![p] = "ZOMBIE"])
  /\ UNCHANGED <<pid, killed, chan, kstack, nextpid, tickslock, intr, pc, np, left, panicked>>

ExitUnlocksFirst(c, p) ==
  /\ pc[p] = "exit" /\ Acquired(c, p) /\ lock = None
  /\ parent' = [s \in Slot |-> IF parent[s] = p THEN initproc ELSE parent[s]]
  /\ state' = [Abandon(Wakeup1(state, parent[p]), p) EXCEPT ![p] = "ZOMBIE"]
  /\ UNCHANGED <<pid, killed, chan, kstack, nextpid, rrindex, locks, cur, intr, threads,
                 panicked>>

\* exit() under ptable.lock, up to the swtch it does not return from.
Exit(c, p) ==
  /\ pc[p] = "exit"
  /\ Acquired(c, p)
  /\ lock = None
  /\ parent' = [s \in Slot |-> IF parent[s] = p THEN initproc ELSE parent[s]]
  /\ cont' = [cont EXCEPT ![p] = "none"]
  /\ Sched(c, [Abandon(Wakeup1(state, parent[p]), p) EXCEPT ![p] = "ZOMBIE"])
  /\ UNCHANGED <<pid, killed, chan, kstack, nextpid, tickslock, intr, pc, np, left, panicked>>

Zombies(p) == {s \in Slot : parent[s] = p /\ state[s] = "ZOMBIE"}

\* sys_wait()
SysWait(c, p) ==
  /\ Call(c, p)
  /\ pc' = [pc EXCEPT ![p] = "wait"]
  /\ UNCHANGED <<table, locks, cpus, cont, np, left, panicked>>

\* wait() holding ptable.lock: reap a child, give up, or sleep on itself.
\* It gets here from its entry, or from sched() when it has been woken.
Wait(c, p) ==
  /\ pc[p] = "wait"
  /\ \/ Acquired(c, p) /\ lock = None
     \/ lock = c /\ cur[c] = p /\ cont[p] = "wait" /\ UNCHANGED cli
  /\ \/ \E s \in Zombies(p) :
          /\ s = First(Zombies(p))
          /\ kstack' = [kstack EXCEPT ![s] = 0]
          /\ pid' = [pid EXCEPT ![s] = 0]
          /\ parent' = [parent EXCEPT ![s] = None]
          /\ killed' = [killed EXCEPT ![s] = 0]
          /\ state' = [state EXCEPT ![s] = "UNUSED"]
          /\ chan' = [chan EXCEPT ![p] = None]
          /\ lock' = None
          /\ cont' = [cont EXCEPT ![p] = "none"]
          /\ pc' = [pc EXCEPT ![p] = "user"]
          /\ UNCHANGED <<rrindex, cur>>
     \/ /\ Zombies(p) = {}
        /\ (\A s \in Slot : parent[s] # p) \/ killed[p] = 1
        /\ chan' = [chan EXCEPT ![p] = None]
        /\ lock' = None
        /\ cont' = [cont EXCEPT ![p] = "none"]
        /\ pc' = [pc EXCEPT ![p] = "user"]
        /\ UNCHANGED <<state, pid, parent, killed, kstack, rrindex, cur>>
     \/ /\ Zombies(p) = {}
        /\ \E s \in Slot : parent[s] = p
        /\ killed[p] = 0
        /\ chan' = [chan EXCEPT ![p] = p]
        /\ cont' = [cont EXCEPT ![p] = "wait"]
        /\ Sched(c, [state EXCEPT ![p] = "SLEEPING"])
        /\ UNCHANGED <<pid, parent, killed, kstack, pc>>
  /\ UNCHANGED <<nextpid, tickslock, intr, np, left, panicked>>

\* Faulty variants of kill(): it wakes nobody; it wakes in any state.
KillSilent(c, p, n) ==
  /\ Call(c, p) /\ lock = None
  /\ \E s \in Slot : pid[s] = n /\ killed' = [killed EXCEPT ![s] = 1]
  /\ UNCHANGED <<state, pid, parent, chan, kstack, nextpid, rrindex, locks, cpus,
                 threads, panicked>>

KillAnyState(c, p, n) ==
  /\ Call(c, p) /\ lock = None
  /\ \E s \in Slot :
       /\ pid[s] = n
       /\ killed' = [killed EXCEPT ![s] = 1]
       /\ state' = [state EXCEPT ![s] = "RUNNABLE"]
  /\ UNCHANGED <<pid, parent, chan, kstack, nextpid, rrindex, locks, cpus, threads, panicked>>

\* kill(n): the first slot with that pid, whatever its state.
Kill(c, p, n) ==
  /\ Call(c, p)
  /\ lock = None
  /\ \E s \in Slot :
       /\ pid[s] = n /\ s = First({t \in Slot : pid[t] = n})
       /\ killed' = [killed EXCEPT ![s] = 1]
       /\ state' = [state EXCEPT ![s] = IF @ = "SLEEPING" THEN "RUNNABLE" ELSE @]
  /\ UNCHANGED <<pid, parent, chan, kstack, nextpid, rrindex, locks, cpus, threads, panicked>>

-----------------------------------------------------------------------------
(* sys_sleep, through sleep(&ticks, &tickslock)                            *)

\* sys_sleep(n): acquire(&tickslock) and read ticks.
SysSleep(c, p, n) ==
  /\ Call(c, p)
  /\ tickslock = None /\ tickslock' = c
  /\ left' = [left EXCEPT ![p] = n]
  /\ pc' = [pc EXCEPT ![p] = "sys_sleep"]
  /\ UNCHANGED <<table, lock, cpus, cont, np, panicked>>

\* Faulty variant: tickslock is released before sleep() has ptable.lock.
SleepTestUnlocks(c, p) ==
  /\ On(c, p) /\ pc[p] = "sys_sleep"
  /\ tickslock' = None
  /\ pc' = [pc EXCEPT ![p] = IF left[p] = 0 \/ killed[p] = 1 THEN "user" ELSE "sleep"]
  /\ UNCHANGED <<table, lock, cpus, cont, np, left, panicked>>

\* The loop of sys_sleep, with tickslock: return, or go on to sleep().
SleepTest(c, p) ==
  /\ On(c, p) /\ pc[p] = "sys_sleep"
  /\ IF left[p] = 0 \/ killed[p] = 1
       THEN /\ tickslock' = None
            /\ left' = [left EXCEPT ![p] = 0]
            /\ pc' = [pc EXCEPT ![p] = "user"]
       ELSE pc' = [pc EXCEPT ![p] = "sleep"] /\ UNCHANGED <<tickslock, left>>
  /\ UNCHANGED <<table, lock, cpus, cont, np, panicked>>

\* sleep(): take ptable.lock, release tickslock, and switch away.
Sleep(c, p) ==
  /\ On(c, p) /\ pc[p] = "sleep"
  /\ lock = None
  /\ tickslock' = None
  /\ chan' = [chan EXCEPT ![p] = Ticks]
  /\ cont' = [cont EXCEPT ![p] = "sleep"]
  /\ Sched(c, [state EXCEPT ![p] = "SLEEPING"])
  /\ UNCHANGED <<pid, parent, killed, kstack, nextpid, intr, cli, pc, np, left, panicked>>

\* sched() returns to sleep(): tidy up and release ptable.lock.
SleepReturn(c, p) ==
  /\ lock = c /\ cur[c] = p /\ cont[p] = "sleep"
  /\ lock' = None
  /\ chan' = [chan EXCEPT ![p] = None]
  /\ cont' = [cont EXCEPT ![p] = "none"]
  /\ pc' = [pc EXCEPT ![p] = "relock"]
  /\ UNCHANGED <<state, pid, parent, killed, kstack, nextpid, rrindex, tickslock,
                 cpus, np, left, panicked>>

\* sleep() reacquires tickslock.
Relock(c, p) ==
  /\ pc[p] = "relock"
  /\ Acquired(c, p)
  /\ tickslock = None /\ tickslock' = c
  /\ pc' = [pc EXCEPT ![p] = "sys_sleep"]
  /\ UNCHANGED <<table, lock, cur, intr, cont, np, left, panicked>>

-----------------------------------------------------------------------------

Interrupt(c) ==
  \/ Timer(c) \/ TimerTick(c) \/ TimerWakeup(c) \/ TimerCheck(c)
  \/ Reschedule(c) \/ Return(c)

\* A process goes on with what it has started.
Continue(c, p) ==
  \/ Pushcli(c, p)
  \/ AllocStack(c, p) \/ CopyUvm(c, p) \/ ForkRun(c, p)
  \/ Exit(c, p) \/ Wait(c, p)
  \/ SleepTest(c, p) \/ Sleep(c, p) \/ SleepReturn(c, p) \/ Relock(c, p)

Step(c, p) ==
  \/ Continue(c, p)
  \/ Fork(c, p)
  \/ EnterExit(c, p)
  \/ SysWait(c, p)
  \/ \E n \in KillPids : Kill(c, p, n)
  \/ \E n \in 0..MaxSleep : SysSleep(c, p, n)

Next ==
  /\ panicked = 0
  /\ \/ \E c \in Cpu : Interrupt(c)
     \/ \E c \in Cpu, p \in Slot : Step(c, p)

Spec == Init /\ [][Next]_vars

\* Every CPU takes timer interrupts and gets through its handler, a process
\* that keeps being scheduled goes on with what it has started, and init
\* keeps calling wait().  Strong fairness, because another CPU may hold a
\* lock, or the timer may preempt the process, again and again: xchg lets
\* every CPU in eventually, and a time slice is longer than a step.
\* Nothing makes a process start a system call.
Fairness ==
  /\ \A c \in Cpu : SF_vars(panicked = 0 /\ Interrupt(c))
  /\ \A p \in Slot : SF_vars(panicked = 0 /\ \E c \in Cpu : Continue(c, p))
  /\ SF_vars(panicked = 0 /\ \E c \in Cpu : SysWait(c, initproc))

FairSpec == Spec /\ Fairness

-----------------------------------------------------------------------------
(* Properties                                                              *)

States == {"UNUSED", "EMBRYO", "SLEEPING", "RUNNABLE", "RUNNING", "ZOMBIE"}
Alive == {"SLEEPING", "RUNNABLE", "RUNNING"}

\* Type invariant of the process table, the CPUs and the threads.
TypeOK ==
  /\ state \in [Slot -> States]
  /\ pid \in [Slot -> Nat]
  /\ parent \in [Slot -> Slot \cup {None}]
  /\ killed \in [Slot -> {0, 1}] /\ kstack \in [Slot -> {0, 1}]
  /\ chan \in [Slot -> Slot \cup {None, Ticks}]
  /\ nextpid \in Nat /\ rrindex \in Slot
  /\ lock \in Cpu \cup {None} /\ tickslock \in Cpu \cup {None}
  /\ cur \in [Cpu -> Slot \cup {None}]
  /\ intr \in [Cpu -> {"no", "timer", "tick", "check", "resched"}]
  /\ cli \in [Cpu -> {0, 1}]
  /\ pc \in [Slot -> {"user", "allocproc", "copyuvm", "fork", "exit", "wait",
                       "sys_sleep", "sleep", "relock"}]
  /\ cont \in [Slot -> {"none", "forkret", "reschedule", "wait", "sleep"}]
  /\ np \in [Slot -> Slot \cup {None}]
  /\ left \in [Slot -> Nat]
  /\ panicked \in {0, 1}

\* sched() hands each process to one CPU: a process is RUNNING exactly when
\* it is some CPU's c->proc, and never two CPUs'.
OneCpu ==
  /\ \A s \in Slot : state[s] = "RUNNING" <=> \E c \in Cpu : cur[c] = s
  /\ \A c, d \in Cpu : cur[c] = cur[d] /\ cur[c] # None => c = d

\* A process has a kernel stack for as long as it may be switched to or is
\* still standing on it in sched(), and a free slot owns none: exit() must
\* leave the stack to wait(), and a failed fork() must give it back.
StackWhileNeeded ==
  /\ \A s \in Slot : state[s] \in Alive \cup {"ZOMBIE"} => kstack[s] = 1
  /\ \A s \in Slot : state[s] = "UNUSED" => kstack[s] = 0
  /\ \A c \in Cpu : cur[c] # None => kstack[cur[c]] = 1

\* Every process has a parent that can still wait() for it, also after
\* exit() has passed children to init: no zombie stays for ever because
\* its parent is gone.
LivingParent ==
  \A s \in Slot \ {initproc} :
    state[s] \in Alive \cup {"ZOMBIE"} =>
      parent[s] # None /\ state[parent[s]] \in Alive

\* No lost wakeup in wait(): a process asleep in wait() has a child, none of
\* its children has exited, and it has not been killed.
WaiterHasReason ==
  \A p \in Slot : state[p] = "SLEEPING" /\ chan[p] = p =>
    /\ \E s \in Slot : parent[s] = p
    /\ \A s \in Slot : parent[s] = p => state[s] # "ZOMBIE"
    /\ killed[p] = 0

\* No lost wakeup in sys_sleep: a process asleep on &ticks still has ticks
\* to wait for, or the timer handler that saw its deadline pass is about to
\* call wakeup().
SleeperHasDeadline ==
  \A p \in Slot : state[p] = "SLEEPING" /\ chan[p] = Ticks =>
    left[p] > 0 \/ \E c \in Cpu : intr[c] = "tick"

\* wait() and sys_sleep miss no wakeup.
NoLostWakeup == WaiterHasReason /\ SleeperHasDeadline

\* The only panic a system call can cause is "init exiting", when init has
\* been killed: reschedule() never finds its process in another state.
OnlyInitPanics == panicked = 1 => killed[initproc] = 1

\* kill() marks "the process with the given pid": a process that allocproc()
\* has just created is not marked yet.
BornUnkilled ==
  [][\A s \in Slot : state[s] = "UNUSED" /\ state'[s] = "EMBRYO" => killed'[s] = 0]_vars

\* Round robin starves nobody: a runnable process is scheduled.
Scheduled == \A s \in Slot : state[s] = "RUNNABLE" ~> state[s] # "RUNNABLE"

\* A killed process exits, wherever kill() finds it.
KilledExits ==
  \A s \in Slot : killed[s] = 1 /\ state[s] \in Alive ~> state[s] \in {"ZOMBIE", "UNUSED"}

\* A child passed to init is reaped after it exits.
OrphanReaped ==
  \A s \in Slot :
    state[s] = "ZOMBIE" /\ parent[s] = initproc ~> state[s] = "UNUSED"

\* sys_sleep returns.
SleepReturns == \A s \in Slot : pc[s] \in {"sys_sleep", "sleep"} ~> pc[s] = "user"
=============================================================================
