--------------------------- MODULE ProcInvariant ----------------------------
(***************************************************************************)
(* The inductive invariant of Proc, and that interrupts, kill(), the       *)
(* entries of system calls and sys_sleep() keep it, for every table and    *)
(* number of CPUs.                                                         *)
(***************************************************************************)
EXTENDS Proc, WellFoundedInduction, TLAPS

\* A process that runs inside sched() still holds ptable.lock, and no CPU
\* takes an interrupt while it holds it.
LockInv ==
  /\ \A c \in Cpu : lock = c => intr[c] = "no"
  /\ \A c \in Cpu : cur[c] # None /\ cont[cur[c]] # "none" => lock = c

\* The slots that fork() is filling.
ForkInv ==
  /\ \A p \in Slot : np[p] # None <=> pc[p] \in {"allocproc", "copyuvm", "fork"}
  /\ \A p \in Slot : np[p] # None => state[np[p]] = "EMBRYO" /\ state[p] \in {"RUNNABLE", "RUNNING"}
  /\ \A p, q \in Slot : np[p] = np[q] /\ np[p] # None => p = q
  /\ \A p \in Slot : pc[p] = "allocproc" => kstack[np[p]] = 0 /\ parent[np[p]] = None
  /\ \A p \in Slot : pc[p] = "copyuvm" => kstack[np[p]] = 1 /\ parent[np[p]] = None
  /\ \A p \in Slot : pc[p] = "fork" => kstack[np[p]] = 1 /\ parent[np[p]] = p

StackInv ==
  /\ \A s \in Slot : state[s] \in Alive \cup {"ZOMBIE"} => kstack[s] = 1
  /\ \A s \in Slot : state[s] = "UNUSED" => kstack[s] = 0

\* Who is whose parent, and init, which never exits.
ParentInv ==
  /\ LivingParent
  /\ state[initproc] \in Alive /\ pc[initproc] # "exit" /\ parent[initproc] = None
  /\ \A s \in Slot : parent[s] # s
  /\ \A s \in Slot : state[s] = "UNUSED" => parent[s] = None

\* tickslock is held by the handler that ticks, or by a process that is
\* between sys_sleep's test and its switch in sleep(): no tick can come in
\* between.
TickInv ==
  /\ \A c \in Cpu : intr[c] \in {"timer", "tick"} => c = 0
  /\ \A c \in Cpu : intr[c] = "tick" => tickslock = c
  /\ \A c \in Cpu : tickslock = c => intr[c] \in {"no", "tick"}
  /\ \A p \in Slot : cont[p] = "sleep" => pc[p] = "sleep" /\ state[p] \in Alive
  /\ \A p \in Slot : pc[p] \in {"sys_sleep", "sleep"} /\ cont[p] # "sleep" =>
       \E c \in Cpu : cur[c] = p /\ tickslock = c /\ intr[c] = "no" /\ cont[p] = "none"
  /\ \A p \in Slot : pc[p] = "sleep" /\ cont[p] # "sleep" => left[p] > 0

IInv ==
  /\ TypeOK /\ OneCpu /\ LockInv /\ ForkInv /\ StackInv /\ ParentInv
  /\ TickInv /\ WaiterHasReason /\ SleeperHasDeadline

\* The same, under a name that the proof of one step leaves unexpanded in the
\* statements about the others.
Inductive == IInv

-----------------------------------------------------------------------------

\* A loop over a part of the table that is not empty finds its first slot.
LEMMA FirstIn ==
  ASSUME NEW S, S \subseteq Slot, S # {}
  PROVE  First(S) \in S
<1>1. S \subseteq Nat
  BY ProcAssumption DEF Slot
<1> DEFINE R == {ss \in Nat \X Nat : ss[1] < ss[2]}
<1>2. IsWellFoundedOn(R, Nat)
  BY NatLessThanWellFounded, Zenon DEF OpToRel
<1>3. PICK x \in S : \A y \in S : ~(<<y, x>> \in R)
  <2> HIDE DEF R
  <2> QED BY Zenon, <1>1, <1>2, WFMin
<1>4. ASSUME NEW y \in S PROVE x <= y
  <2>1. <<y, x>> \in Nat \X Nat /\ <<y, x>> \notin R
    BY Zenon, <1>1, <1>3
  <2>2. ~(y < x)
    BY Zenon, <2>1
  <2> QED BY <1>1, <2>2
<1> QED BY Zenon, <1>4 DEF First

\* roundrobin() returns a runnable process if there is one.
LEMMA RoundRobinIn ==
  ASSUME NEW st, \E s \in Slot : st[s] = "RUNNABLE"
  PROVE  RoundRobin(st) \in Slot /\ st[RoundRobin(st)] = "RUNNABLE"
<1> DEFINE R == {s \in Slot : st[s] = "RUNNABLE"}
           A == {s \in R : s > rrindex}
           X == IF A # {} THEN A ELSE R
<1>1. X \subseteq R /\ X # {} /\ X \subseteq Slot
  BY Zenon
<1>2. First(X) \in X
  <2> HIDE DEF X
  <2> QED BY Zenon, <1>1, FirstIn
<1> QED BY Zenon, <1>1, <1>2 DEF RoundRobin

\* sched() moves one runnable process to the CPU and takes the caller off it.
LEMMA SchedFacts ==
  ASSUME TypeOK, OneCpu, NEW c \in Cpu, NEW st \in [Slot -> States], Sched(c, st),
         \A s \in Slot : st[s] = "RUNNING" <=> state[s] = "RUNNING" /\ cur[c] # s
  PROVE  /\ lock' = c /\ rrindex' \in Slot
         /\ state' \in [Slot -> States] /\ cur' \in [Cpu -> Slot \cup {None}]
         /\ \A d \in Cpu \ {c} : cur'[d] = cur[d]
         /\ \A s \in Slot : \/ state'[s] = st[s]
                            \/ st[s] = "RUNNABLE" /\ state'[s] = "RUNNING"
         /\ cur'[c] # None => st[cur'[c]] = "RUNNABLE"
         /\ OneCpu'
<1>0. None \notin Slot
  BY ProcAssumption DEF Slot, None
<1>1. CASE \E s \in Slot : st[s] = "RUNNABLE"
  <2> DEFINE n == RoundRobin(st)
  <2>1. n \in Slot /\ st[n] = "RUNNABLE"
    BY Zenon, <1>1, RoundRobinIn
  <2> HIDE DEF n
  <2>2. /\ lock' = c /\ rrindex' = n
        /\ state' = [st EXCEPT ![n] = "RUNNING"]
        /\ cur' = [cur EXCEPT ![c] = n]
    BY Zenon, <1>1 DEF Sched, n
  <2>3. OneCpu'
    BY <1>0, <2>1, <2>2 DEF OneCpu, TypeOK
  <2> QED BY <1>0, <2>1, <2>2, <2>3 DEF TypeOK, States
<1>2. CASE ~\E s \in Slot : st[s] = "RUNNABLE"
  <2>1. lock' = c /\ rrindex' = rrindex /\ state' = st /\ cur' = [cur EXCEPT ![c] = None]
    BY Zenon, <1>2 DEF Sched
  <2>2. OneCpu'
    BY <1>0, <2>1 DEF OneCpu, TypeOK
  <2> QED BY <1>0, <2>1, <2>2 DEF TypeOK
<1> QED BY Zenon, <1>1, <1>2

\* The invariant holds after userinit().
LEMMA InitInv == Init => IInv
<1> SUFFICES ASSUME Init PROVE IInv
  BY Zenon
<1> USE ProcAssumption DEF Init, Slot, None, initproc, Ticks, Alive, States
<1>1. TypeOK
  BY DEF TypeOK, Cpu
<1>2. OneCpu
  BY DEF OneCpu
<1>3. LockInv /\ ForkInv /\ StackInv
  BY Zenon DEF LockInv, ForkInv, StackInv, Cpu
<1>4. ParentInv
  BY DEF ParentInv, LivingParent
<1>5. TickInv /\ WaiterHasReason /\ SleeperHasDeadline
  BY Zenon DEF TickInv, WaiterHasReason, SleeperHasDeadline, Cpu
<1> QED BY Zenon, <1>1, <1>2, <1>3, <1>4, <1>5 DEF IInv

\* A process that runs is RUNNING, and outside sched() unless its CPU has
\* ptable.lock.
LEMMA OnFacts ==
  ASSUME IInv, NEW c \in Cpu, NEW p \in Slot, cur[c] = p
  PROVE  /\ state[p] = "RUNNING" /\ p # None
         /\ On(c, p) => cont[p] = "none"
         /\ \A d \in Cpu : cur[d] = p => d = c
BY ProcAssumption DEF IInv, OneCpu, LockInv, On, Slot, None

\* What depends on the table alone.
LEMMA TableUnchanged ==
  ASSUME IInv, UNCHANGED <<table, cur, np>>,
         \A p \in Slot : pc'[p] # pc[p] => pc[p] \notin {"allocproc", "copyuvm", "fork"}
                                        /\ pc'[p] \notin {"allocproc", "copyuvm", "fork"},
         pc'[initproc] # "exit"
  PROVE  /\ OneCpu' /\ ForkInv' /\ StackInv' /\ ParentInv' /\ WaiterHasReason'
<1> USE DEF IInv, table
<1>1. OneCpu' /\ StackInv' /\ WaiterHasReason'
  BY DEF OneCpu, StackInv, WaiterHasReason
<1>2. ForkInv'
  BY DEF ForkInv
<1>3. ParentInv'
  BY Zenon DEF ParentInv, LivingParent
<1> QED BY Zenon, <1>1, <1>2, <1>3

\* A step of nobody keeps the invariant.
LEMMA StutterInv ==
  ASSUME Inductive, UNCHANGED vars PROVE Inductive'
<1> USE DEF vars, table, locks, cpus, threads, Inductive, IInv
<1>1. OneCpu' /\ ForkInv' /\ StackInv' /\ ParentInv' /\ WaiterHasReason'
  BY Zenon, TableUnchanged DEF ParentInv
<1>2. TypeOK' BY Zenon DEF TypeOK
<1>3. LockInv' BY Zenon DEF LockInv
<1>4. TickInv' /\ SleeperHasDeadline' BY DEF TickInv, SleeperHasDeadline
<1> QED BY Zenon, <1>1, <1>2, <1>3, <1>4

\* kill() only ever wakes a sleeper.
LEMMA KillInv ==
  ASSUME Inductive, NEW c \in Cpu, NEW p \in Slot, NEW n \in KillPids, Kill(c, p, n)
  PROVE  Inductive'
<1> SUFFICES ASSUME IInv PROVE IInv'
  BY Zenon DEF Inductive
<1> USE DEF IInv, table, locks, cpus, threads
<1>0. None \notin Slot /\ initproc \in Slot
  BY ProcAssumption DEF None, initproc, Slot
<1>1. PICK s \in Slot :
        /\ killed' = [killed EXCEPT ![s] = 1]
        /\ state' = [state EXCEPT ![s] = IF @ = "SLEEPING" THEN "RUNNABLE" ELSE @]
  BY Zenon DEF Kill
<1>2. UNCHANGED <<pid, parent, chan, kstack, nextpid, rrindex, locks, cpus, threads, panicked>>
  BY Zenon DEF Kill
<1>3. \A t \in Slot : /\ state'[t] = state[t] \/ (state[t] = "SLEEPING" /\ state'[t] = "RUNNABLE")
                      /\ killed'[t] = killed[t] \/ state'[t] # "SLEEPING"
  BY Zenon, <1>1 DEF TypeOK
<1>4. TypeOK'
  BY Zenon, <1>1, <1>2 DEF TypeOK, States
<1>5. OneCpu' /\ LockInv'
  BY <1>2, <1>3 DEF OneCpu, LockInv
<1>6. ForkInv' /\ StackInv'
  BY <1>2, <1>3 DEF ForkInv, StackInv, Alive, TypeOK
<1>7. ParentInv'
  BY <1>0, <1>2, <1>3 DEF ParentInv, LivingParent, Alive, TypeOK
<1>a. /\ \A t \in Slot : state'[t] = "SLEEPING" => state[t] = "SLEEPING" /\ killed'[t] = killed[t]
      /\ \A t \in Slot : state'[t] = "ZOMBIE" => state[t] = "ZOMBIE"
      /\ parent' = parent /\ chan' = chan /\ left' = left /\ intr' = intr
  BY Zenon, <1>2, <1>3
<1>8. WaiterHasReason' /\ SleeperHasDeadline'
  BY <1>a DEF WaiterHasReason, SleeperHasDeadline
<1>9. TickInv'
  BY <1>2, <1>3 DEF TickInv, Alive
<1> QED BY Zenon, <1>4, <1>5, <1>6, <1>7, <1>8, <1>9

\* pushcli() keeps the invariant.
LEMMA PushcliInv ==
  ASSUME Inductive, NEW c \in Cpu, NEW p \in Slot, Pushcli(c, p) PROVE Inductive'
<1> SUFFICES ASSUME IInv PROVE IInv'
  BY Zenon DEF Inductive
<1> USE DEF IInv, table, locks, cpus, threads
<1>1. UNCHANGED <<table, locks, cur, intr, threads, panicked>> /\ cli' = [cli EXCEPT ![c] = 1]
  BY Zenon DEF Pushcli
<1>2. OneCpu' /\ ForkInv' /\ StackInv' /\ ParentInv' /\ WaiterHasReason'
  BY Zenon, <1>1, TableUnchanged DEF ParentInv
<1>3. TypeOK'
  BY Zenon, <1>1 DEF TypeOK
<1>4. LockInv' /\ TickInv' /\ SleeperHasDeadline'
  BY <1>1 DEF LockInv, TickInv, SleeperHasDeadline
<1> QED BY Zenon, <1>2, <1>3, <1>4

\* The entry of a timer interrupt keeps the invariant.
LEMMA TimerInv ==
  ASSUME Inductive, NEW c \in Cpu, Timer(c) PROVE Inductive'
<1> SUFFICES ASSUME IInv PROVE IInv'
  BY Zenon DEF Inductive
<1> USE DEF IInv, table, locks, cpus, threads
<1>1. /\ UNCHANGED <<table, locks, cur, cli, threads, panicked>>
      /\ intr[c] = "no" /\ lock # c /\ tickslock # c
      /\ intr' = [intr EXCEPT ![c] = IF c = 0 THEN "timer" ELSE "check"]
  BY Zenon DEF Timer
<1>2. OneCpu' /\ ForkInv' /\ StackInv' /\ ParentInv' /\ WaiterHasReason'
  BY Zenon, <1>1, TableUnchanged DEF ParentInv
<1>3. TypeOK'
  BY Zenon, <1>1 DEF TypeOK
<1>4. LockInv'
  BY Zenon, <1>1 DEF LockInv, TypeOK
<1>5. TickInv'
  BY <1>1 DEF TickInv, TypeOK
<1>6. SleeperHasDeadline'
  BY Zenon, <1>1 DEF SleeperHasDeadline, TypeOK
<1> QED BY Zenon, <1>2, <1>3, <1>4, <1>5, <1>6

\* ticks++ keeps the invariant: nobody is between sys_sleep's test and its
\* switch, since the handler has tickslock.
LEMMA TimerTickInv ==
  ASSUME Inductive, NEW c \in Cpu, TimerTick(c) PROVE Inductive'
<1> SUFFICES ASSUME IInv PROVE IInv'
  BY DEF Inductive
<1> USE DEF IInv, table, locks, cpus, threads
<1>1. /\ UNCHANGED <<table, lock, cur, cli, pc, cont, np, panicked>>
      /\ intr[c] = "timer" /\ tickslock = None /\ tickslock' = c
      /\ left' = [s \in Slot |-> IF left[s] > 0 THEN left[s] - 1 ELSE 0]
      /\ intr' = [intr EXCEPT ![c] = "tick"]
  BY Zenon DEF TimerTick
<1>2. OneCpu' /\ ForkInv' /\ StackInv' /\ ParentInv' /\ WaiterHasReason'
  BY Zenon, <1>1, TableUnchanged DEF ParentInv
<1>3. TypeOK'
  BY <1>1 DEF TypeOK
<1>4. LockInv'
  BY Zenon, <1>1 DEF LockInv, TypeOK
<1>5. None \notin Cpu
  BY ProcAssumption DEF None, Cpu
<1>6. \A p \in Slot : pc[p] \in {"sys_sleep", "sleep"} => cont[p] = "sleep"
  BY <1>1, <1>5 DEF TickInv
<1>7. TickInv'
  BY <1>1, <1>5, <1>6 DEF TickInv, TypeOK
<1>8. SleeperHasDeadline'
  BY Zenon, <1>1 DEF SleeperHasDeadline, TypeOK
<1> QED BY <1>2, <1>3, <1>4, <1>7, <1>8

\* The killed test of trap() keeps the invariant.
LEMMA TimerCheckInv ==
  ASSUME Inductive, NEW c \in Cpu, TimerCheck(c) PROVE Inductive'
<1> SUFFICES ASSUME IInv PROVE IInv'
  BY DEF Inductive
<1> USE DEF IInv, table, locks, cpus, threads
<1>1. /\ UNCHANGED <<table, locks, cur, cli, cont, np, left>>
      /\ intr[c] = "check"
      /\ intr' \in {[intr EXCEPT ![c] = "no"], [intr EXCEPT ![c] = "resched"]}
      /\ panicked' \in {0, 1}
  BY Zenon DEF TimerCheck, CallExit, TypeOK
<1>2. \/ pc' = pc
      \/ \E p \in Slot \ {initproc} : pc[p] = "user" /\ pc' = [pc EXCEPT ![p] = "exit"]
  BY DEF TimerCheck, CallExit, TypeOK
<1>3. OneCpu' /\ ForkInv' /\ StackInv' /\ ParentInv' /\ WaiterHasReason'
  <2>1. initproc \in Slot
    BY ProcAssumption DEF initproc, Slot
  <2>2. \A p \in Slot : pc'[p] # pc[p] => pc[p] = "user" /\ pc'[p] = "exit"
    BY Zenon, <1>2 DEF TypeOK
  <2>3. pc'[initproc] # "exit"
    BY Zenon, <1>2, <2>1 DEF ParentInv, TypeOK
  <2> QED BY Zenon, <1>1, <2>2, <2>3, TableUnchanged
<1>4. TypeOK'
  BY Zenon, <1>1, <1>2 DEF TypeOK
<1>5. LockInv'
  BY Zenon, <1>1 DEF LockInv, TypeOK
<1>6. TickInv'
  BY <1>1, <1>2 DEF TickInv, TypeOK
<1>7. SleeperHasDeadline'
  BY Zenon, <1>1 DEF SleeperHasDeadline, TypeOK
<1> QED BY <1>3, <1>4, <1>5, <1>6, <1>7

\* wakeup(&ticks) keeps the invariant.
LEMMA TimerWakeupInv ==
  ASSUME Inductive, NEW c \in Cpu, TimerWakeup(c) PROVE Inductive'
<1> SUFFICES ASSUME IInv PROVE IInv'
  BY DEF Inductive
<1> USE DEF IInv, table, locks, cpus, threads
<1>1. /\ UNCHANGED <<pid, parent, killed, chan, kstack, nextpid, rrindex, lock, cur,
                     cli, pc, cont, np, left, panicked>>
      /\ intr[c] = "tick" /\ tickslock' = None
      /\ intr' = [intr EXCEPT ![c] = "check"]
      /\ state' = Wakeup1(state, Ticks)
  BY Zenon DEF TimerWakeup
<1>2. state' \in [Slot -> States]
  BY Zenon, <1>1 DEF Wakeup1, TypeOK, States
<1>3. /\ \A s \in Slot : state'[s] = state[s] \/ (state[s] = "SLEEPING" /\ state'[s] = "RUNNABLE")
      /\ \A s \in Slot : state'[s] = "SLEEPING" => chan[s] # Ticks
  BY Zenon, <1>1 DEF Wakeup1
<1>4. OneCpu'
  BY <1>1, <1>3 DEF OneCpu
<1>5. ForkInv' /\ StackInv'
  BY <1>1, <1>3 DEF ForkInv, StackInv, Alive, TypeOK
<1>6. ParentInv'
  BY <1>1, <1>3, ProcAssumption DEF ParentInv, LivingParent, Alive, TypeOK, Slot, None, initproc
<1>7. TypeOK'
  BY Zenon, <1>1, <1>2 DEF TypeOK
<1>8. LockInv'
  BY Zenon, <1>1 DEF LockInv, TypeOK
<1>9. TickInv'
  <2>1. None \notin Cpu /\ tickslock = c
    BY <1>1, ProcAssumption DEF None, Cpu, TickInv
  <2>2. \A p \in Slot : pc[p] \in {"sys_sleep", "sleep"} => cont[p] = "sleep"
    BY Zenon, <1>1, <2>1 DEF TickInv
  <2> QED BY <1>1, <1>3, <2>1, <2>2 DEF Alive, TickInv, TypeOK
<1>10. WaiterHasReason'
  BY <1>1, <1>3 DEF WaiterHasReason
<1>11. SleeperHasDeadline'
  BY Zenon, <1>1, <1>3 DEF SleeperHasDeadline
<1> QED BY Zenon, <1>4, <1>5, <1>6, <1>7, <1>8, <1>9, <1>10, <1>11

\* The release of ptable.lock after a switch keeps the invariant.
LEMMA ReturnInv ==
  ASSUME Inductive, NEW c \in Cpu, Return(c) PROVE Inductive'
<1> SUFFICES ASSUME IInv PROVE IInv'
  BY DEF Inductive
<1> USE DEF IInv, table, locks, cpus, threads
<1>0. None \notin Cpu
  BY ProcAssumption DEF None, Cpu
<1>1. /\ UNCHANGED <<table, tickslock, cpus, pc, np, left, panicked>>
      /\ lock = c /\ lock' = None
  BY Zenon DEF Return
<1>2. \/ cur[c] = None /\ cont' = cont
      \/ /\ cur[c] \in Slot /\ cont[cur[c]] \in {"reschedule", "forkret"}
         /\ cont' = [cont EXCEPT ![cur[c]] = "none"]
  BY DEF Return, TypeOK
<1>3. OneCpu' /\ ForkInv' /\ StackInv' /\ ParentInv' /\ WaiterHasReason'
  BY Zenon, <1>1, TableUnchanged DEF ParentInv
<1>4. TypeOK'
  BY Zenon, <1>1, <1>2 DEF TypeOK
<1>5. LockInv'
  BY <1>0, <1>1, <1>2 DEF LockInv, TypeOK
<1>6. TickInv'
  BY <1>1, <1>2 DEF TickInv, TypeOK
<1>7. SleeperHasDeadline'
  BY Zenon, <1>1 DEF SleeperHasDeadline
<1> QED BY <1>3, <1>4, <1>5, <1>6, <1>7

\* The entries of exit() and wait() only move the process.
LEMMA EnterInv ==
  ASSUME Inductive, NEW c \in Cpu, NEW p \in Slot, EnterExit(c, p) \/ SysWait(c, p) PROVE Inductive'
<1> SUFFICES ASSUME IInv PROVE IInv'
  BY Zenon DEF Inductive
<1> USE DEF IInv, table, locks, cpus, threads
<1>1. /\ UNCHANGED <<table, locks, cpus, cont, np, left>>
      /\ pc[p] = "user" /\ panicked' \in {0, 1}
      /\ \/ pc' = pc
         \/ pc' = [pc EXCEPT ![p] = "exit"] /\ p # initproc
         \/ pc' = [pc EXCEPT ![p] = "wait"]
  BY Zenon DEF EnterExit, SysWait, Call, CallExit, TypeOK
<1>2. /\ \A q \in Slot : pc'[q] # pc[q] => pc[q] = "user" /\ pc'[q] \in {"exit", "wait"}
      /\ pc'[initproc] # "exit"
  <2>1. initproc \in Slot
    BY ProcAssumption DEF initproc, Slot
  <2> QED BY <1>1, <2>1 DEF TypeOK, ParentInv
<1>3. OneCpu' /\ ForkInv' /\ StackInv' /\ ParentInv' /\ WaiterHasReason'
  BY Zenon, <1>1, <1>2, TableUnchanged
<1>4. TypeOK'
  BY Zenon, <1>1 DEF TypeOK
<1>5. LockInv' /\ SleeperHasDeadline'
  BY Zenon, <1>1 DEF LockInv, SleeperHasDeadline
<1>6. TickInv'
  BY <1>1, <1>2 DEF TickInv, TypeOK
<1> QED BY Zenon, <1>3, <1>4, <1>5, <1>6

\* After a switch only the CPU that switched runs a process inside sched().
LEMMA SwitchLock ==
  ASSUME IInv, NEW c \in Cpu, lock \in {None, c}, lock' = c, intr'[c] = "no",
         \A d \in Cpu \ {c} : cur'[d] = cur[d],
         \A s \in Slot : cont'[s] # cont[s] => cur[c] = s
  PROVE  LockInv'
<1>1. \A d \in Cpu \ {c} : cur[d] # None => cont[cur[d]] = "none" /\ cur[d] \in Slot
  BY ProcAssumption DEF IInv, LockInv, TypeOK, Cpu, None
<1>2. \A d \in Cpu \ {c} : cur[d] # None => cur[c] # cur[d]
  BY Zenon DEF IInv, OneCpu
<1> QED BY Zenon, <1>1, <1>2 DEF LockInv

\* reschedule() keeps the invariant.
LEMMA RescheduleInv ==
  ASSUME Inductive, NEW c \in Cpu, Reschedule(c) PROVE Inductive'
<1> SUFFICES ASSUME IInv PROVE IInv'
  BY DEF Inductive
<1> USE DEF IInv, table, locks, cpus, threads
<1>0. None \notin Slot /\ None \notin Cpu /\ initproc \in Slot
  BY ProcAssumption DEF None, initproc, Slot, Cpu
<1> DEFINE st == IF cur[c] = None THEN state ELSE [state EXCEPT ![cur[c]] = "RUNNABLE"]
<1>1. /\ intr[c] = "resched" /\ lock = None /\ intr' = [intr EXCEPT ![c] = "no"]
      /\ panicked' \in {0, 1}
      /\ UNCHANGED <<pid, parent, killed, chan, kstack, nextpid, tickslock, cli, pc, np, left>>
      /\ Sched(c, st)
  BY Zenon DEF Reschedule, TypeOK
<1>2. cont' = IF cur[c] = None THEN cont ELSE [cont EXCEPT ![cur[c]] = "reschedule"]
  BY Zenon DEF Reschedule
<1>3. cur[c] # None => cur[c] \in Slot /\ state[cur[c]] = "RUNNING"
  BY DEF TypeOK, OneCpu
<1>4. st \in [Slot -> States]
  BY Zenon, <1>3 DEF TypeOK, States
<1>5. \A s \in Slot : st[s] = IF cur[c] = s THEN "RUNNABLE" ELSE state[s]
  BY <1>0, <1>3 DEF TypeOK
<1> HIDE DEF st
<1>6. \A s \in Slot : st[s] = "RUNNING" <=> state[s] = "RUNNING" /\ cur[c] # s
  BY Zenon, <1>5
<1>7. /\ lock' = c /\ rrindex' \in Slot
      /\ state' \in [Slot -> States] /\ cur' \in [Cpu -> Slot \cup {None}]
      /\ \A d \in Cpu \ {c} : cur'[d] = cur[d]
      /\ \A s \in Slot : \/ state'[s] = st[s]
                         \/ st[s] = "RUNNABLE" /\ state'[s] = "RUNNING"
      /\ OneCpu'
  BY Zenon, <1>1, <1>4, <1>6, SchedFacts
<1>8. \A s \in Slot : \/ state'[s] = state[s]
                      \/ /\ state[s] \in {"RUNNABLE", "RUNNING"}
                         /\ state'[s] \in {"RUNNABLE", "RUNNING"}
  BY <1>0, <1>3, <1>5, <1>7
<1>9. TypeOK'
  BY Zenon, <1>1, <1>2, <1>3, <1>7 DEF TypeOK
<1>10. LockInv'
  <2>1. \A s \in Slot : cont'[s] # cont[s] => cur[c] = s
    BY Zenon, <1>2, <1>3 DEF TypeOK
  <2> QED BY <1>1, <1>7, <2>1, SwitchLock DEF TypeOK
<1>11. ForkInv' /\ StackInv'
  BY <1>1, <1>8 DEF ForkInv, StackInv, Alive, TypeOK
<1>12. ParentInv'
  BY <1>0, <1>1, <1>8 DEF ParentInv, LivingParent, Alive, TypeOK
<1>13. WaiterHasReason' /\ SleeperHasDeadline'
  BY <1>1, <1>8 DEF WaiterHasReason, SleeperHasDeadline, TypeOK
<1>14. cur[c] # None => pc[cur[c]] \notin {"sys_sleep", "sleep"} /\ cont[cur[c]] = "none"
  BY <1>0, <1>1, <1>3 DEF TickInv, OneCpu, LockInv
<1>15. TickInv'
  BY <1>1, <1>2, <1>3, <1>7, <1>8, <1>14 DEF TickInv, TypeOK, Alive
<1> QED BY Zenon, <1>7, <1>9, <1>10, <1>11, <1>12, <1>13, <1>15

-----------------------------------------------------------------------------
(* sys_sleep()                                                             *)

\* The entry of sys_sleep keeps the invariant.
LEMMA SysSleepInv ==
  ASSUME Inductive, NEW c \in Cpu, NEW p \in Slot, NEW n \in 0..MaxSleep, SysSleep(c, p, n)
  PROVE  Inductive'
<1> SUFFICES ASSUME IInv PROVE IInv'
  BY Zenon DEF Inductive
<1> USE DEF IInv, table, locks, cpus, threads
<1>0. None \notin Cpu /\ initproc \in Slot
  BY ProcAssumption DEF None, Cpu, initproc, Slot
<1>1. /\ UNCHANGED <<table, lock, cpus, cont, np, panicked>>
      /\ tickslock = None /\ tickslock' = c
      /\ left' = [left EXCEPT ![p] = n]
      /\ pc[p] = "user" /\ pc' = [pc EXCEPT ![p] = "sys_sleep"]
      /\ cur[c] = p /\ intr[c] = "no" /\ lock # c
  BY Zenon DEF SysSleep, Call, On
<1>2. /\ \A q \in Slot : pc'[q] # pc[q] => pc[q] = "user" /\ pc'[q] = "sys_sleep"
      /\ pc'[initproc] # "exit"
  BY Zenon, <1>0, <1>1 DEF TypeOK, ParentInv
<1>3. OneCpu' /\ ForkInv' /\ StackInv' /\ ParentInv' /\ WaiterHasReason'
  BY Zenon, <1>1, <1>2, TableUnchanged
<1>4. TypeOK'
  BY <1>1, ProcAssumption DEF TypeOK
<1>5. LockInv'
  BY Zenon, <1>1 DEF LockInv
<1>6. state[p] = "RUNNING" /\ cont[p] = "none"
  BY Zenon, <1>1, OnFacts DEF On
<1>7. TickInv'
  <2>1. \A q \in Slot : pc[q] \in {"sys_sleep", "sleep"} => cont[q] = "sleep"
    BY <1>0, <1>1 DEF TickInv
  <2> QED BY SMTT(20), <1>0, <1>1, <1>6, <2>1 DEF TickInv, TypeOK
<1>8. SleeperHasDeadline'
  BY Zenon, <1>1, <1>6 DEF SleeperHasDeadline, TypeOK
<1> QED BY Zenon, <1>3, <1>4, <1>5, <1>7, <1>8

\* The loop test of sys_sleep keeps the invariant.
LEMMA SleepTestInv ==
  ASSUME Inductive, NEW c \in Cpu, NEW p \in Slot, SleepTest(c, p) PROVE Inductive'
<1> SUFFICES ASSUME IInv PROVE IInv'
  BY DEF Inductive
<1> USE DEF IInv, table, locks, cpus, threads
<1>0. None \notin Cpu /\ initproc \in Slot
  BY ProcAssumption DEF None, Cpu, initproc, Slot
<1>1. /\ UNCHANGED <<table, lock, cpus, cont, np, panicked>>
      /\ pc[p] = "sys_sleep" /\ cur[c] = p /\ intr[c] = "no" /\ lock # c
      /\ \/ /\ tickslock' = None /\ left' = [left EXCEPT ![p] = 0]
            /\ pc' = [pc EXCEPT ![p] = "user"]
         \/ /\ left[p] # 0 /\ UNCHANGED <<tickslock, left>>
            /\ pc' = [pc EXCEPT ![p] = "sleep"]
  BY Zenon DEF SleepTest, On
<1>2. /\ \A q \in Slot : pc'[q] # pc[q] => pc[q] = "sys_sleep" /\ pc'[q] \in {"user", "sleep"}
      /\ pc'[initproc] # "exit"
  BY <1>0, <1>1 DEF TypeOK, ParentInv
<1>3. OneCpu' /\ ForkInv' /\ StackInv' /\ ParentInv' /\ WaiterHasReason'
  BY Zenon, <1>1, <1>2, TableUnchanged
<1>4. TypeOK'
  BY <1>1 DEF TypeOK
<1>5. LockInv'
  BY Zenon, <1>1 DEF LockInv
<1>6. state[p] = "RUNNING" /\ cont[p] = "none" /\ \A d \in Cpu : cur[d] = p => d = c
  BY <1>1, OnFacts DEF On
<1>7. tickslock = c
  BY <1>1, <1>6 DEF TickInv
<1>8. TickInv'
  BY <1>0, <1>1, <1>6, <1>7 DEF TickInv, TypeOK
<1>9. SleeperHasDeadline'
  BY <1>1, <1>6 DEF SleeperHasDeadline, TypeOK
<1> QED BY Zenon, <1>3, <1>4, <1>5, <1>8, <1>9

\* sleep() taking tickslock back keeps the invariant.
LEMMA RelockInv ==
  ASSUME Inductive, NEW c \in Cpu, NEW p \in Slot, Relock(c, p) PROVE Inductive'
<1> SUFFICES ASSUME IInv PROVE IInv'
  BY DEF Inductive
<1> USE DEF IInv, table, locks, cpus, threads
<1>0. None \notin Cpu /\ initproc \in Slot
  BY ProcAssumption DEF None, Cpu, initproc, Slot
<1>1. /\ UNCHANGED <<table, lock, cur, intr, cont, np, left, panicked>>
      /\ cli' = [cli EXCEPT ![c] = 0]
      /\ tickslock = None /\ tickslock' = c
      /\ pc[p] = "relock" /\ pc' = [pc EXCEPT ![p] = "sys_sleep"]
      /\ cur[c] = p /\ intr[c] = "no" /\ lock # c
  BY Zenon DEF Relock, Acquired, On
<1>2. /\ \A q \in Slot : pc'[q] # pc[q] => pc[q] = "relock" /\ pc'[q] = "sys_sleep"
      /\ pc'[initproc] # "exit"
  BY Zenon, <1>0, <1>1 DEF TypeOK, ParentInv
<1>3. OneCpu' /\ ForkInv' /\ StackInv' /\ ParentInv' /\ WaiterHasReason'
  BY Zenon, <1>1, <1>2, TableUnchanged
<1>4. TypeOK'
  BY Zenon, <1>1 DEF TypeOK
<1>5. LockInv' /\ SleeperHasDeadline'
  BY Zenon, <1>1 DEF LockInv, SleeperHasDeadline
<1>6. cont[p] = "none"
  BY Zenon, <1>1, OnFacts DEF On
<1>7. TickInv'
  <2>1. \A q \in Slot : pc[q] \in {"sys_sleep", "sleep"} => cont[q] = "sleep"
    BY <1>0, <1>1 DEF TickInv
  <2> QED BY SMTT(20), <1>0, <1>1, <1>6, <2>1 DEF TickInv, TypeOK
<1> QED BY Zenon, <1>3, <1>4, <1>5, <1>7

\* sleep() after its switch keeps the invariant.
LEMMA SleepReturnInv ==
  ASSUME Inductive, NEW c \in Cpu, NEW p \in Slot, SleepReturn(c, p) PROVE Inductive'
<1> SUFFICES ASSUME IInv PROVE IInv'
  BY DEF Inductive
<1> USE DEF IInv, table, locks, cpus, threads
<1>0. None \notin Cpu /\ initproc \in Slot
  BY ProcAssumption DEF None, Cpu, initproc, Slot
<1>1. /\ UNCHANGED <<state, pid, parent, killed, kstack, nextpid, rrindex, tickslock,
                     cpus, np, left, panicked>>
      /\ lock = c /\ cur[c] = p /\ cont[p] = "sleep" /\ lock' = None
      /\ chan' = [chan EXCEPT ![p] = None]
      /\ cont' = [cont EXCEPT ![p] = "none"]
      /\ pc' = [pc EXCEPT ![p] = "relock"]
  BY Zenon DEF SleepReturn
<1>2. pc[p] = "sleep" /\ state[p] = "RUNNING"
  BY Zenon, <1>1, OnFacts DEF TickInv
<1>3. TypeOK'
  BY Zenon, <1>1 DEF TypeOK
<1>4. OneCpu' /\ StackInv'
  BY Zenon, <1>1 DEF OneCpu, StackInv
<1>5. LockInv'
  BY <1>0, <1>1, OnFacts DEF LockInv, TypeOK
<1>6. ForkInv'
  BY <1>1, <1>2 DEF ForkInv, TypeOK
<1>7. ParentInv'
  BY Zenon, <1>0, <1>1 DEF ParentInv, LivingParent, TypeOK
<1>8. TickInv'
  BY <1>1, <1>2 DEF TickInv, TypeOK
<1>9. WaiterHasReason' /\ SleeperHasDeadline'
  BY <1>1, <1>2 DEF WaiterHasReason, SleeperHasDeadline, TypeOK
<1> QED BY Zenon, <1>3, <1>4, <1>5, <1>6, <1>7, <1>8, <1>9
=============================================================================
