----------------------------- MODULE ProcProofs -----------------------------
(***************************************************************************)
(* Proofs about Proc: fork(), sleep(), exit() and wait() keep the          *)
(* invariant, and the theorems that follow from it.                        *)
(***************************************************************************)
EXTENDS ProcInvariant

-----------------------------------------------------------------------------
(* fork()                                                                  *)

\* allocproc() takes a slot that nobody uses, so no other fork() has it.
LEMMA ForkStepInv ==
  ASSUME Inductive, NEW c \in Cpu, NEW p \in Slot, Fork(c, p) PROVE Inductive'
<1> SUFFICES ASSUME IInv PROVE IInv'
  BY DEF Inductive
<1> USE DEF IInv, table, locks, cpus, threads
<1>0. None \notin Slot /\ initproc \in Slot
  BY ProcAssumption DEF None, initproc, Slot
<1> DEFINE free == {s \in Slot : state[s] = "UNUSED"}
           s == First(free)
<1>1. s \in Slot /\ state[s] = "UNUSED"
  <2>1. free # {} /\ free \subseteq Slot
    BY Zenon DEF Fork
  <2>2. s \in free
    <3> HIDE DEF free
    <3> QED BY Zenon, <2>1, FirstIn
  <2> QED BY Zenon, <2>2
<1>2. /\ state' = [state EXCEPT ![s] = "EMBRYO"]
      /\ pid' = [pid EXCEPT ![s] = nextpid] /\ nextpid' = nextpid + 1
      /\ np' = [np EXCEPT ![p] = s]
      /\ pc[p] = "user" /\ pc' = [pc EXCEPT ![p] = "allocproc"]
      /\ cur[c] = p /\ On(c, p)
      /\ UNCHANGED <<parent, killed, chan, kstack, rrindex, locks, cpus, cont, left, panicked>>
  BY Zenon DEF Fork, Call, On
<1> HIDE DEF s
<1>3. state[p] = "RUNNING" /\ cont[p] = "none" /\ p # s
  BY Zenon, <1>1, <1>2, OnFacts
<1>4. kstack[s] = 0 /\ parent[s] = None /\ s # initproc
  BY Zenon, <1>1 DEF StackInv, ParentInv, Alive
<1>5. TypeOK'
  BY <1>1, <1>2 DEF TypeOK, States
<1>6. OneCpu' /\ LockInv'
  BY <1>1, <1>2 DEF OneCpu, LockInv, TypeOK
<1>7. ForkInv'
  BY <1>0, <1>1, <1>2, <1>3, <1>4 DEF ForkInv, TypeOK
<1>8. StackInv' /\ ParentInv'
  BY <1>0, <1>1, <1>2, <1>4 DEF StackInv, ParentInv, LivingParent, Alive, TypeOK
<1>9. TickInv' /\ WaiterHasReason' /\ SleeperHasDeadline'
  BY <1>1, <1>2, <1>3 DEF Alive, TickInv, WaiterHasReason, SleeperHasDeadline, TypeOK
<1> QED BY Zenon, <1>5, <1>6, <1>7, <1>8, <1>9

\* A slot under construction has no CPU, no channel to wait on and no child.
LEMMA AllocStackInv ==
  ASSUME Inductive, NEW c \in Cpu, NEW p \in Slot, AllocStack(c, p) PROVE Inductive'
<1> SUFFICES ASSUME IInv PROVE IInv'
  BY DEF Inductive
<1> USE DEF IInv, table, locks, cpus, threads
<1>0. None \notin Slot /\ initproc \in Slot
  BY ProcAssumption DEF None, initproc, Slot
<1> DEFINE s == np[p]
<1>1. s \in Slot /\ state[s] = "EMBRYO" /\ kstack[s] = 0 /\ parent[s] = None
  BY DEF AllocStack, ForkInv, TypeOK
<1>2. /\ \/ /\ kstack' = [kstack EXCEPT ![s] = 1] /\ cont' = [cont EXCEPT ![s] = "forkret"]
            /\ pc' = [pc EXCEPT ![p] = "copyuvm"] /\ UNCHANGED <<state, np>>
         \/ /\ state' = [state EXCEPT ![s] = "UNUSED"] /\ np' = [np EXCEPT ![p] = None]
            /\ pc' = [pc EXCEPT ![p] = "user"] /\ UNCHANGED <<kstack, cont>>
      /\ pc[p] = "allocproc" /\ On(c, p) /\ cur[c] = p
      /\ UNCHANGED <<pid, parent, killed, chan, nextpid, rrindex, locks, cpus, left, panicked>>
  BY Zenon DEF AllocStack, On
<1>a. \A q \in Slot : q # p => np[q] # s
  BY <1>0, <1>1 DEF ForkInv
<1>b. np[p] = s
  BY Zenon
<1> HIDE DEF s
<1>3. state[p] = "RUNNING" /\ cont[p] = "none" /\ p # s /\ s # initproc
  BY Zenon, <1>1, <1>2, OnFacts DEF ParentInv, Alive
<1>4. \A d \in Cpu : cur[d] # s
  BY Zenon, <1>1 DEF OneCpu
<1>5. pc[s] \notin {"sys_sleep", "sleep"} /\ cont[s] # "sleep"
  BY <1>1, <1>4 DEF TickInv, Alive
<1>6. TypeOK'
  BY <1>1, <1>2 DEF TypeOK, States
<1>7. OneCpu'
  BY <1>1, <1>2 DEF OneCpu, TypeOK
<1>8. LockInv'
  BY <1>1, <1>2, <1>4 DEF LockInv, TypeOK
<1>p. pc[p] = "allocproc"
  BY Zenon, <1>2
<1>9. ForkInv'
  <2>1. CASE /\ kstack' = [kstack EXCEPT ![s] = 1] /\ pc' = [pc EXCEPT ![p] = "copyuvm"]
             /\ UNCHANGED <<state, np, parent>>
    BY <1>0, <1>1, <1>3, <1>a, <1>b, <1>p, <2>1 DEF ForkInv, TypeOK
  <2>2. CASE /\ state' = [state EXCEPT ![s] = "UNUSED"] /\ np' = [np EXCEPT ![p] = None]
             /\ pc' = [pc EXCEPT ![p] = "user"] /\ UNCHANGED <<kstack, parent>>
    BY <1>0, <1>1, <1>3, <1>a, <1>b, <1>p, <2>2 DEF ForkInv, TypeOK
  <2> QED BY Zenon, <1>2, <2>1, <2>2
<1>10. StackInv' /\ ParentInv'
  BY <1>0, <1>1, <1>2, <1>3 DEF StackInv, ParentInv, LivingParent, Alive, TypeOK
<1>11. WaiterHasReason' /\ SleeperHasDeadline'
  BY <1>1, <1>2 DEF WaiterHasReason, SleeperHasDeadline, TypeOK
<1>12. TickInv'
  BY <1>1, <1>2, <1>3, <1>4, <1>5 DEF TickInv, TypeOK
<1> QED BY Zenon, <1>6, <1>7, <1>8, <1>9, <1>10, <1>11, <1>12

\* fork() up to np->parent, or its failure in copyuvm(), keeps the invariant.
LEMMA CopyUvmInv ==
  ASSUME Inductive, NEW c \in Cpu, NEW p \in Slot, CopyUvm(c, p) PROVE Inductive'
<1> SUFFICES ASSUME IInv PROVE IInv'
  BY DEF Inductive
<1> USE DEF IInv, table, locks, cpus, threads
<1>0. None \notin Slot /\ initproc \in Slot
  BY ProcAssumption DEF None, initproc, Slot
<1> DEFINE s == np[p]
<1>1. s \in Slot /\ state[s] = "EMBRYO" /\ kstack[s] = 1 /\ parent[s] = None
  BY DEF CopyUvm, ForkInv, TypeOK
<1>2. /\ \/ /\ parent' = [parent EXCEPT ![s] = p] /\ pc' = [pc EXCEPT ![p] = "fork"]
            /\ UNCHANGED <<state, kstack, cont, np>>
         \/ /\ kstack' = [kstack EXCEPT ![s] = 0] /\ cont' = [cont EXCEPT ![s] = "none"]
            /\ state' = [state EXCEPT ![s] = "UNUSED"] /\ np' = [np EXCEPT ![p] = None]
            /\ pc' = [pc EXCEPT ![p] = "user"] /\ UNCHANGED parent
      /\ pc[p] = "copyuvm" /\ On(c, p) /\ cur[c] = p
      /\ UNCHANGED <<pid, killed, chan, nextpid, rrindex, locks, cpus, left, panicked>>
  BY Zenon DEF CopyUvm, On
<1>3. /\ \A q \in Slot : q # p => np[q] # s
      /\ np[p] = s
  BY <1>0, <1>1 DEF ForkInv
<1> HIDE DEF s
<1>4. state[p] = "RUNNING" /\ cont[p] = "none" /\ p # s /\ s # initproc
  BY Zenon, <1>1, <1>2, OnFacts DEF ParentInv, Alive
<1>5. \A d \in Cpu : cur[d] # s
  BY Zenon, <1>1 DEF OneCpu
<1>6. pc[s] \notin {"sys_sleep", "sleep"} /\ cont[s] # "sleep"
  BY <1>1, <1>5 DEF TickInv, Alive
<1>7. TypeOK'
  BY <1>1, <1>2 DEF TypeOK, States
<1>8. OneCpu' /\ LockInv'
  BY <1>1, <1>2, <1>5 DEF OneCpu, LockInv, TypeOK
<1>p. pc[p] = "copyuvm"
  BY Zenon, <1>2
<1>9. ForkInv'
  <2>1. CASE /\ parent' = [parent EXCEPT ![s] = p] /\ pc' = [pc EXCEPT ![p] = "fork"]
             /\ UNCHANGED <<state, kstack, np>>
    BY <1>0, <1>1, <1>3, <1>4, <1>p, <2>1 DEF ForkInv, TypeOK
  <2>2. CASE /\ kstack' = [kstack EXCEPT ![s] = 0] /\ state' = [state EXCEPT ![s] = "UNUSED"]
             /\ np' = [np EXCEPT ![p] = None] /\ pc' = [pc EXCEPT ![p] = "user"]
             /\ UNCHANGED parent
    BY <1>0, <1>1, <1>3, <1>4, <1>p, <2>2 DEF ForkInv, TypeOK
  <2> QED BY Zenon, <1>2, <2>1, <2>2
<1>10. StackInv' /\ ParentInv'
  BY <1>0, <1>1, <1>2, <1>4 DEF StackInv, ParentInv, LivingParent, Alive, TypeOK
<1>11. WaiterHasReason' /\ SleeperHasDeadline'
  BY <1>0, <1>1, <1>2, <1>4 DEF WaiterHasReason, SleeperHasDeadline, TypeOK
<1>12. TickInv'
  BY <1>1, <1>2, <1>4, <1>5, <1>6 DEF TickInv, TypeOK, Alive
<1> QED BY Zenon, <1>7, <1>8, <1>9, <1>10, <1>11, <1>12

\* The child becoming RUNNABLE keeps the invariant.
LEMMA ForkRunInv ==
  ASSUME Inductive, NEW c \in Cpu, NEW p \in Slot, ForkRun(c, p) PROVE Inductive'
<1> SUFFICES ASSUME IInv PROVE IInv'
  BY DEF Inductive
<1> USE DEF IInv, table, locks, cpus, threads
<1>0. None \notin Slot /\ initproc \in Slot
  BY ProcAssumption DEF None, initproc, Slot
<1> DEFINE s == np[p]
<1>1. s \in Slot /\ state[s] = "EMBRYO" /\ kstack[s] = 1 /\ parent[s] = p
  BY DEF ForkRun, ForkInv, TypeOK
<1>2. /\ state' = [state EXCEPT ![s] = "RUNNABLE"] /\ np' = [np EXCEPT ![p] = None]
      /\ pc' = [pc EXCEPT ![p] = "user", ![s] = "user"]
      /\ cli' = [cli EXCEPT ![c] = 0]
      /\ pc[p] = "fork" /\ On(c, p) /\ cur[c] = p
      /\ UNCHANGED <<pid, parent, killed, chan, kstack, nextpid, rrindex, locks, cur, intr,
                     cont, left, panicked>>
  BY Zenon DEF ForkRun, Acquired, On
<1>3. /\ \A q \in Slot : q # p => np[q] # s
      /\ np[p] = s
  BY <1>0, <1>1 DEF ForkInv
<1>a. np[s] = None
  BY Zenon, <1>0, <1>1 DEF ForkInv, TypeOK
<1> HIDE DEF s
<1>4. state[p] = "RUNNING" /\ cont[p] = "none" /\ p # s /\ s # initproc
  BY Zenon, <1>1, <1>2, OnFacts DEF ParentInv, Alive
<1>5. \A d \in Cpu : cur[d] # s
  BY Zenon, <1>1 DEF OneCpu
<1>6. pc[s] \notin {"sys_sleep", "sleep"} /\ cont[s] # "sleep"
  BY <1>1, <1>5 DEF TickInv, Alive
<1>7. TypeOK'
  BY Zenon, <1>1, <1>2 DEF TypeOK, States
<1>8. OneCpu' /\ LockInv'
  BY <1>1, <1>2, <1>5 DEF OneCpu, LockInv, TypeOK
<1>9. ForkInv'
  BY <1>0, <1>1, <1>2, <1>3, <1>4, <1>a DEF ForkInv, TypeOK
<1>10. StackInv' /\ ParentInv'
  BY <1>0, <1>1, <1>2, <1>4 DEF StackInv, ParentInv, LivingParent, Alive, TypeOK
<1>11. WaiterHasReason' /\ SleeperHasDeadline'
  BY <1>0, <1>1, <1>2, <1>4 DEF WaiterHasReason, SleeperHasDeadline, TypeOK
<1>12. TickInv'
  BY <1>1, <1>2, <1>4, <1>5, <1>6 DEF TickInv, TypeOK, Alive
<1> QED BY <1>7, <1>8, <1>9, <1>10, <1>11, <1>12

-----------------------------------------------------------------------------
(* The system calls that end in sched()                                    *)

\* sleep() keeps the invariant: the deadline tested under tickslock has not
\* passed when the process is SLEEPING.
LEMMA SleepInv ==
  ASSUME Inductive, NEW c \in Cpu, NEW p \in Slot, Sleep(c, p) PROVE Inductive'
<1> SUFFICES ASSUME IInv PROVE IInv'
  BY DEF Inductive
<1> USE DEF IInv, table, locks, cpus, threads
<1>0. /\ None \notin Slot /\ None \notin Cpu /\ initproc \in Slot
      /\ Ticks # None /\ Ticks \notin Slot
  BY ProcAssumption DEF None, initproc, Slot, Cpu, Ticks
<1> DEFINE st == [state EXCEPT ![p] = "SLEEPING"]
<1>1. /\ cur[c] = p /\ On(c, p) /\ intr[c] = "no" /\ pc[p] = "sleep" /\ lock = None
      /\ tickslock' = None
      /\ chan' = [chan EXCEPT ![p] = Ticks] /\ cont' = [cont EXCEPT ![p] = "sleep"]
      /\ UNCHANGED <<pid, parent, killed, kstack, nextpid, intr, cli, pc, np, left, panicked>>
      /\ Sched(c, st)
  BY Zenon DEF Sleep, On
<1>2. state[p] = "RUNNING" /\ cont[p] = "none" /\ \A d \in Cpu : cur[d] = p => d = c
  BY Zenon, <1>1, OnFacts
<1>3. tickslock = c /\ left[p] > 0
  BY <1>1, <1>2 DEF TickInv
<1>4. st \in [Slot -> States]
  BY Zenon DEF TypeOK, States
<1>5. \A s \in Slot : st[s] = IF p = s THEN "SLEEPING" ELSE state[s]
  BY Zenon DEF TypeOK
<1> HIDE DEF st
<1>6. \A s \in Slot : st[s] = "RUNNING" <=> state[s] = "RUNNING" /\ cur[c] # s
  BY Zenon, <1>1, <1>5
<1>7. /\ lock' = c /\ rrindex' \in Slot
      /\ state' \in [Slot -> States] /\ cur' \in [Cpu -> Slot \cup {None}]
      /\ \A d \in Cpu \ {c} : cur'[d] = cur[d]
      /\ \A s \in Slot : \/ state'[s] = st[s]
                         \/ st[s] = "RUNNABLE" /\ state'[s] = "RUNNING"
      /\ OneCpu'
  BY Zenon, <1>1, <1>4, <1>6, SchedFacts
<1>8. \A s \in Slot \ {p} : \/ state'[s] = state[s]
                            \/ state[s] = "RUNNABLE" /\ state'[s] = "RUNNING"
  BY Zenon, <1>5, <1>7
<1>a. state'[p] = "SLEEPING"
  BY Zenon, <1>5, <1>7
<1>9. TypeOK'
  BY Zenon, <1>0, <1>1, <1>7 DEF TypeOK
<1>10. LockInv'
  <2>1. \A s \in Slot : cont'[s] # cont[s] => cur[c] = s
    BY Zenon, <1>1 DEF TypeOK
  <2> QED BY Zenon, <1>1, <1>7, <2>1, SwitchLock
<1>11. ForkInv' /\ StackInv'
  BY <1>0, <1>1, <1>2, <1>8, <1>a DEF ForkInv, StackInv, Alive, TypeOK
<1>12. ParentInv'
  BY <1>0, <1>1, <1>2, <1>8, <1>a DEF ParentInv, LivingParent, Alive, TypeOK
<1>13. WaiterHasReason'
  BY <1>0, <1>1, <1>2, <1>8, <1>a DEF WaiterHasReason, TypeOK
<1>14. SleeperHasDeadline'
  BY <1>0, <1>1, <1>3, <1>8, <1>a DEF SleeperHasDeadline, TypeOK
<1>15. \A q \in Slot : q # p /\ pc[q] \in {"sys_sleep", "sleep"} => cont[q] = "sleep"
  BY <1>2, <1>3, <1>1 DEF TickInv
<1>16. TickInv'
  BY <1>0, <1>1, <1>3, <1>8, <1>a, <1>15 DEF TickInv, TypeOK, Alive
<1> QED BY Zenon, <1>7, <1>9, <1>10, <1>11, <1>12, <1>13, <1>14, <1>16

\* exit() passes children to init before anyone else sees the table, and
\* wakes whoever would otherwise sleep on with a zombie child.
LEMMA ExitInv ==
  ASSUME Inductive, NEW c \in Cpu, NEW p \in Slot, Exit(c, p) PROVE Inductive'
<1> SUFFICES ASSUME IInv PROVE IInv'
  BY DEF Inductive
<1> USE DEF IInv, table, locks, cpus, threads
<1>0. None \notin Slot /\ None \notin Cpu /\ initproc \in Slot /\ Ticks \notin Slot
  BY ProcAssumption DEF None, initproc, Slot, Cpu, Ticks
<1> DEFINE wk == Wakeup1(state, parent[p])
           ab == Abandon(wk, p)
           st == [ab EXCEPT ![p] = "ZOMBIE"]
<1>1. /\ cur[c] = p /\ On(c, p) /\ intr[c] = "no" /\ pc[p] = "exit" /\ lock = None
      /\ cli' = [cli EXCEPT ![c] = 0]
      /\ parent' = [s \in Slot |-> IF parent[s] = p THEN initproc ELSE parent[s]]
      /\ cont' = [cont EXCEPT ![p] = "none"]
      /\ UNCHANGED <<pid, killed, chan, kstack, nextpid, tickslock, intr, pc, np, left, panicked>>
      /\ Sched(c, st)
  BY Zenon DEF Exit, Acquired, On
<1>2. state[p] = "RUNNING" /\ cont[p] = "none" /\ p # initproc
  BY Zenon, <1>1, OnFacts DEF ParentInv
<1>3. /\ wk \in [Slot -> States]
      /\ \A s \in Slot : /\ wk[s] = state[s] \/ (state[s] = "SLEEPING" /\ wk[s] = "RUNNABLE")
                         /\ wk[s] = "SLEEPING" => chan[s] # parent[p]
  BY Zenon DEF Wakeup1, TypeOK, States
<1> HIDE DEF wk
<1>4. /\ ab \in [Slot -> States]
      /\ \A s \in Slot : ab[s] = wk[s] \/ (wk[s] = "SLEEPING" /\ ab[s] = "RUNNABLE")
      /\ \A s \in Slot : parent[s] = p /\ wk[s] = "ZOMBIE" =>
           \A q \in Slot : ab[q] = "SLEEPING" => chan[q] # initproc
  BY Zenon, <1>3 DEF Abandon, Wakeup1, States
<1> HIDE DEF ab
<1>5. st \in [Slot -> States] /\ st[p] = "ZOMBIE" /\ \A s \in Slot \ {p} : st[s] = ab[s]
  BY Zenon, <1>4 DEF States
<1> HIDE DEF st
<1>6. \A s \in Slot : st[s] = "RUNNING" <=> state[s] = "RUNNING" /\ cur[c] # s
  BY <1>1, <1>3, <1>4, <1>5
<1>7. /\ lock' = c /\ rrindex' \in Slot
      /\ state' \in [Slot -> States] /\ cur' \in [Cpu -> Slot \cup {None}]
      /\ \A d \in Cpu \ {c} : cur'[d] = cur[d]
      /\ \A s \in Slot : \/ state'[s] = st[s]
                         \/ st[s] = "RUNNABLE" /\ state'[s] = "RUNNING"
      /\ OneCpu'
  BY <1>1, <1>4, <1>5, <1>6, SchedFacts
<1>8. /\ state'[p] = "ZOMBIE"
      /\ \A s \in Slot \ {p} :
           \/ state'[s] = state[s]
           \/ state[s] \in {"SLEEPING", "RUNNABLE"} /\ state'[s] \in {"RUNNABLE", "RUNNING"}
  BY <1>3, <1>4, <1>5, <1>7
<1>9. \A s \in Slot : state'[s] = "SLEEPING" =>
        /\ state[s] = "SLEEPING" /\ chan[s] # parent[p]
        /\ chan[s] = initproc => \A t \in Slot : parent[t] = p => state[t] # "ZOMBIE"
  <2> SUFFICES ASSUME NEW s \in Slot, state'[s] = "SLEEPING"
               PROVE  /\ state[s] = "SLEEPING" /\ chan[s] # parent[p]
                      /\ chan[s] = initproc => \A t \in Slot : parent[t] = p => state[t] # "ZOMBIE"
    BY Zenon
  <2>1. s # p /\ ab[s] = "SLEEPING" /\ wk[s] = "SLEEPING"
    BY <1>4, <1>5, <1>7, <1>8
  <2>2. \A t \in Slot : state[t] = "ZOMBIE" => wk[t] = "ZOMBIE"
    BY Zenon, <1>3
  <2> QED BY Zenon, <1>3, <1>4, <2>1, <2>2
<1>10. TypeOK'
  BY Zenon, <1>0, <1>1, <1>7 DEF TypeOK
<1>11. LockInv'
  <2>1. \A s \in Slot : cont'[s] # cont[s] => cur[c] = s
    BY Zenon, <1>1 DEF TypeOK
  <2> QED BY Zenon, <1>1, <1>7, <2>1, SwitchLock
<1>12. ForkInv' /\ StackInv'
  <2>1. ForkInv' BY <1>0, <1>1, <1>2, <1>8 DEF ForkInv, Alive, TypeOK
  <2>2. StackInv' BY <1>0, <1>1, <1>2, <1>8 DEF StackInv, Alive, TypeOK
  <2> QED BY Zenon, <2>1, <2>2
<1>13. ParentInv'
  <2>1. \A s \in Slot : parent'[s] # s /\ (state'[s] = "UNUSED" => parent'[s] = None)
    BY <1>0, <1>1, <1>8 DEF ParentInv, TypeOK
  <2>2. state'[initproc] \in Alive /\ pc'[initproc] # "exit" /\ parent'[initproc] = None
    BY Zenon, <1>0, <1>1, <1>2, <1>8 DEF ParentInv, Alive, TypeOK
  <2>3. LivingParent'
    BY <1>0, <1>1, <1>2, <1>8, <2>2 DEF ParentInv, LivingParent, Alive, TypeOK
  <2> QED BY Zenon, <2>1, <2>2, <2>3 DEF ParentInv
<1>14. WaiterHasReason'
  <2> SUFFICES ASSUME NEW q \in Slot, state'[q] = "SLEEPING", chan[q] = q
               PROVE  /\ \E s \in Slot : parent'[s] = q
                      /\ \A s \in Slot : parent'[s] = q => state'[s] # "ZOMBIE"
                      /\ killed'[q] = 0
    BY Zenon, <1>1 DEF WaiterHasReason
  <2>1. state[q] = "SLEEPING" /\ q # p /\ q # parent[p]
    BY Zenon, <1>8, <1>9
  <2>2. PICK s \in Slot : parent[s] = q
    BY Zenon, <2>1 DEF WaiterHasReason
  <2>3. parent'[s] = q
    BY Zenon, <1>1, <2>1, <2>2
  <2>4. \A t \in Slot : parent'[t] = q => t # p /\ state[t] # "ZOMBIE"
    BY <1>1, <1>9, <2>1 DEF WaiterHasReason, ParentInv
  <2> QED BY <1>1, <1>8, <2>1, <2>3, <2>4 DEF WaiterHasReason
<1>15. SleeperHasDeadline'
  BY Zenon, <1>1, <1>9 DEF SleeperHasDeadline
<1>16. TickInv'
  BY <1>1, <1>2, <1>7, <1>8 DEF TickInv, TypeOK, Alive
<1> QED BY <1>7, <1>10, <1>11, <1>12, <1>13, <1>14, <1>15, <1>16

\* What holds when wait() has ptable.lock, at its entry or back from sched().
LEMMA WaitFacts ==
  ASSUME IInv, NEW c \in Cpu, NEW p \in Slot, Wait(c, p)
  PROVE  /\ cur[c] = p /\ intr[c] = "no" /\ lock \in {None, c} /\ pc[p] = "wait"
         /\ state[p] = "RUNNING" /\ cli' \in [Cpu -> {0, 1}]
         /\ UNCHANGED <<nextpid, tickslock, intr, np, left, panicked>>
<1>1. cur[c] = p /\ pc[p] = "wait" /\ intr[c] = "no" /\ lock \in {None, c}
  BY Zenon DEF Wait, Acquired, On, IInv, LockInv
<1>2. cli' \in [Cpu -> {0, 1}]
  BY DEF Wait, Acquired, IInv, TypeOK
<1> QED BY Zenon, <1>1, <1>2, OnFacts DEF Wait

\* wait() frees the first zombie child.
LEMMA WaitReap ==
  ASSUME Inductive, NEW c \in Cpu, NEW p \in Slot, Wait(c, p), NEW s \in Zombies(p),
         kstack' = [kstack EXCEPT ![s] = 0], pid' = [pid EXCEPT ![s] = 0],
         parent' = [parent EXCEPT ![s] = None], killed' = [killed EXCEPT ![s] = 0],
         state' = [state EXCEPT ![s] = "UNUSED"], chan' = [chan EXCEPT ![p] = None],
         lock' = None, cont' = [cont EXCEPT ![p] = "none"],
         pc' = [pc EXCEPT ![p] = "user"], UNCHANGED <<rrindex, cur>>
  PROVE  Inductive'
<1> SUFFICES ASSUME IInv PROVE IInv'
  BY Zenon DEF Inductive
<1> USE DEF IInv
<1>0. None \notin Slot /\ None \notin Cpu /\ initproc \in Slot
  BY ProcAssumption DEF None, initproc, Slot, Cpu
<1>1. /\ cur[c] = p /\ lock \in {None, c} /\ pc[p] = "wait"
      /\ state[p] = "RUNNING" /\ cli' \in [Cpu -> {0, 1}]
      /\ UNCHANGED <<nextpid, tickslock, intr, np, left, panicked>>
  BY Zenon, WaitFacts
<1>2. s \in Slot /\ state[s] = "ZOMBIE" /\ parent[s] = p /\ s # p /\ s # initproc
  BY Zenon, <1>1 DEF Zombies, ParentInv, Alive
<1>3. TypeOK'
  BY Zenon, <1>1, <1>2 DEF TypeOK, States
<1>4. OneCpu'
  BY <1>1, <1>2 DEF OneCpu, TypeOK
<1>5. LockInv'
  BY <1>0, <1>1 DEF LockInv, OneCpu, TypeOK
<1>6. ForkInv'
  BY <1>0, <1>1, <1>2 DEF ForkInv, TypeOK
<1>7. StackInv' /\ ParentInv'
  BY <1>0, <1>1, <1>2 DEF StackInv, ParentInv, LivingParent, Alive, TypeOK
<1>8. WaiterHasReason' /\ SleeperHasDeadline'
  BY <1>0, <1>1, <1>2 DEF WaiterHasReason, SleeperHasDeadline, TypeOK
<1>9. TickInv'
  BY <1>1, <1>2 DEF TickInv, TypeOK, Alive
<1> QED BY Zenon, <1>3, <1>4, <1>5, <1>6, <1>7, <1>8, <1>9

\* wait() returns -1 to a process that has no children or has been killed.
LEMMA WaitGiveUp ==
  ASSUME Inductive, NEW c \in Cpu, NEW p \in Slot, Wait(c, p),
         chan' = [chan EXCEPT ![p] = None],
         lock' = None, cont' = [cont EXCEPT ![p] = "none"], pc' = [pc EXCEPT ![p] = "user"],
         UNCHANGED <<state, pid, parent, killed, kstack, rrindex, cur>>
  PROVE  Inductive'
<1> SUFFICES ASSUME IInv PROVE IInv'
  BY Zenon DEF Inductive
<1> USE DEF IInv
<1>0. None \notin Slot /\ None \notin Cpu /\ initproc \in Slot
  BY ProcAssumption DEF None, initproc, Slot, Cpu
<1>1. /\ cur[c] = p /\ lock \in {None, c} /\ pc[p] = "wait"
      /\ state[p] = "RUNNING" /\ cli' \in [Cpu -> {0, 1}]
      /\ UNCHANGED <<nextpid, tickslock, intr, np, left, panicked>>
  BY Zenon, WaitFacts
<1>2. TypeOK'
  BY Zenon, <1>1 DEF TypeOK
<1>3. OneCpu' /\ StackInv'
  BY Zenon DEF OneCpu, StackInv
<1>4. LockInv'
  BY <1>0, <1>1 DEF LockInv, OneCpu, TypeOK
<1>5. ForkInv' /\ ParentInv'
  BY <1>0, <1>1 DEF ForkInv, ParentInv, LivingParent, TypeOK
<1>6. WaiterHasReason' /\ SleeperHasDeadline'
  BY <1>0, <1>1 DEF WaiterHasReason, SleeperHasDeadline, TypeOK
<1>7. TickInv'
  BY <1>1 DEF TickInv, TypeOK
<1> QED BY Zenon, <1>2, <1>3, <1>4, <1>5, <1>6, <1>7

\* wait() goes to sleep only when it has looked at every child.
LEMMA WaitSleep ==
  ASSUME Inductive, NEW c \in Cpu, NEW p \in Slot, Wait(c, p),
         Zombies(p) = {}, \E s \in Slot : parent[s] = p, killed[p] = 0,
         chan' = [chan EXCEPT ![p] = p], cont' = [cont EXCEPT ![p] = "wait"],
         Sched(c, [state EXCEPT ![p] = "SLEEPING"]),
         UNCHANGED <<pid, parent, killed, kstack, pc>>
  PROVE  Inductive'
<1> SUFFICES ASSUME IInv PROVE IInv'
  BY Zenon DEF Inductive
<1> USE DEF IInv
<1>0. /\ None \notin Slot /\ None \notin Cpu /\ initproc \in Slot
      /\ Ticks # None /\ Ticks \notin Slot
  BY ProcAssumption DEF None, initproc, Slot, Cpu, Ticks
<1> DEFINE st == [state EXCEPT ![p] = "SLEEPING"]
<1>1. /\ cur[c] = p /\ intr[c] = "no" /\ lock \in {None, c} /\ pc[p] = "wait"
      /\ state[p] = "RUNNING" /\ cli' \in [Cpu -> {0, 1}]
      /\ UNCHANGED <<nextpid, tickslock, intr, np, left, panicked>>
  BY Zenon, WaitFacts
<1>2. Sched(c, st)
  BY Zenon
<1>4. st \in [Slot -> States]
  BY Zenon DEF TypeOK, States
<1>5. \A s \in Slot : st[s] = IF p = s THEN "SLEEPING" ELSE state[s]
  BY Zenon DEF TypeOK
<1> HIDE DEF st
<1>6. \A s \in Slot : st[s] = "RUNNING" <=> state[s] = "RUNNING" /\ cur[c] # s
  BY Zenon, <1>1, <1>5
<1>7. /\ lock' = c /\ rrindex' \in Slot
      /\ state' \in [Slot -> States] /\ cur' \in [Cpu -> Slot \cup {None}]
      /\ \A d \in Cpu \ {c} : cur'[d] = cur[d]
      /\ \A s \in Slot : \/ state'[s] = st[s]
                         \/ st[s] = "RUNNABLE" /\ state'[s] = "RUNNING"
      /\ OneCpu'
  BY Zenon, <1>2, <1>4, <1>6, SchedFacts
<1>8. /\ state'[p] = "SLEEPING"
      /\ \A s \in Slot \ {p} : \/ state'[s] = state[s]
                               \/ state[s] = "RUNNABLE" /\ state'[s] = "RUNNING"
  BY Zenon, <1>5, <1>7
<1>9. TypeOK'
  BY Zenon, <1>0, <1>1, <1>7 DEF TypeOK
<1>10. LockInv'
  <2>1. \A s \in Slot : cont'[s] # cont[s] => cur[c] = s
    BY Zenon, <1>1 DEF TypeOK
  <2> QED BY Zenon, <1>1, <1>7, <2>1, SwitchLock
<1>11. ForkInv' /\ StackInv'
  BY <1>0, <1>1, <1>8 DEF ForkInv, StackInv, Alive, TypeOK
<1>12. ParentInv'
  BY <1>0, <1>1, <1>8 DEF ParentInv, LivingParent, Alive, TypeOK
<1>13. WaiterHasReason'
  BY <1>0, <1>1, <1>8 DEF WaiterHasReason, TypeOK, Zombies, ParentInv
<1>14. SleeperHasDeadline'
  BY <1>0, <1>1, <1>8 DEF SleeperHasDeadline, TypeOK
<1>15. TickInv'
  BY <1>0, <1>1, <1>7, <1>8 DEF TickInv, TypeOK, Alive
<1> QED BY Zenon, <1>7, <1>9, <1>10, <1>11, <1>12, <1>13, <1>14, <1>15

\* wait() keeps the invariant.
LEMMA WaitInv ==
  ASSUME Inductive, NEW c \in Cpu, NEW p \in Slot, Wait(c, p) PROVE Inductive'
BY Zenon, WaitReap, WaitGiveUp, WaitSleep DEF Wait

-----------------------------------------------------------------------------

\* Every step of every CPU keeps the inductive invariant.
LEMMA NextInv == Inductive /\ [Next]_vars => Inductive'
<1> SUFFICES ASSUME Inductive, [Next]_vars PROVE Inductive'
  BY Zenon
<1>1. ASSUME NEW c \in Cpu, Interrupt(c) PROVE Inductive'
  BY Zenon, <1>1, TimerInv, TimerTickInv, TimerWakeupInv, TimerCheckInv, RescheduleInv, ReturnInv
  DEF Interrupt
<1>2. ASSUME NEW c \in Cpu, NEW p \in Slot, Continue(c, p) PROVE Inductive'
  BY Zenon, <1>2, PushcliInv, AllocStackInv, CopyUvmInv, ForkRunInv, ExitInv, WaitInv,
     SleepTestInv, SleepInv, SleepReturnInv, RelockInv
  DEF Continue
<1>3. ASSUME NEW c \in Cpu, NEW p \in Slot, Step(c, p) PROVE Inductive'
  BY Zenon, <1>2, <1>3, ForkStepInv, EnterInv, KillInv, SysSleepInv DEF Step
<1>4. CASE UNCHANGED vars BY Zenon, <1>4, StutterInv
<1> QED BY Zenon, <1>1, <1>3, <1>4 DEF Next

\* The inductive invariant holds for any number of slots and CPUs.
THEOREM Invariance == Spec => []IInv
<1>1. Init => Inductive
  BY Zenon, InitInv DEF Inductive
<1>2. Inductive => IInv
  BY Zenon DEF Inductive
<1> QED BY <1>1, <1>2, NextInv, PTL DEF Spec

\* The table, the CPUs and the threads keep their types.
THEOREM TypeCorrect == Spec => []TypeOK
<1>1. IInv => TypeOK
  BY Zenon DEF IInv
<1> QED BY <1>1, Invariance, PTL

\* sched(), reschedule() and wakeup1() never give a process to two CPUs, and
\* never leave a RUNNING process without one.
THEOREM EachOnOneCpu == Spec => []OneCpu
<1>1. IInv => OneCpu
  BY Zenon DEF IInv
<1> QED BY <1>1, Invariance, PTL

\* Nobody runs on, or is switched to, a kernel stack that wait() or a failed
\* fork() has freed.
THEOREM StackSafe == Spec => []StackWhileNeeded
<1>1. IInv => StackWhileNeeded
  BY DEF IInv, StackWhileNeeded, StackInv, OneCpu, Alive, TypeOK
<1> QED BY <1>1, Invariance, PTL

\* exit() leaves no process whose parent is gone.
THEOREM ParentLives == Spec => []LivingParent
<1>1. IInv => LivingParent
  BY Zenon DEF IInv, ParentInv
<1> QED BY <1>1, Invariance, PTL

\* wait() misses no exit() and no kill().
THEOREM NoLostExit == Spec => []WaiterHasReason
<1>1. IInv => WaiterHasReason
  BY Zenon DEF IInv
<1> QED BY <1>1, Invariance, PTL

\* sys_sleep misses no tick.
THEOREM NoLostTick == Spec => []SleeperHasDeadline
<1>1. IInv => SleeperHasDeadline
  BY Zenon DEF IInv
<1> QED BY <1>1, Invariance, PTL

\* Neither wait() nor sys_sleep misses what it waits for.
THEOREM WakeupsArrive == Spec => []NoLostWakeup
BY NoLostExit, NoLostTick, PTL DEF NoLostWakeup

\* Only a kill() of init makes these system calls panic.
THEOREM PanicsOnlyForInit == Spec => []OnlyInitPanics
<1>1. Init => OnlyInitPanics
  BY DEF Init, OnlyInitPanics
<1>2. IInv /\ OnlyInitPanics /\ [Next]_vars => OnlyInitPanics'
  <2> SUFFICES ASSUME IInv, OnlyInitPanics, [Next]_vars PROVE OnlyInitPanics'
    BY Zenon
  <2>1. ASSUME panicked = 0, NEW c \in Cpu, Reschedule(c) PROVE panicked' = 0
    BY <2>1 DEF Reschedule, IInv, OneCpu, TypeOK
  <2>2. ASSUME panicked = 0, NEW c \in Cpu, Interrupt(c) PROVE OnlyInitPanics'
    BY <2>1, <2>2 DEF Interrupt, Timer, TimerTick, TimerWakeup, TimerCheck, Return,
                      CallExit, OnlyInitPanics, table
  <2>3. ASSUME panicked = 0, NEW c \in Cpu, NEW p \in Slot, Step(c, p) PROVE OnlyInitPanics'
    <3>1. CASE EnterExit(c, p)
      BY Zenon, <2>3, <3>1 DEF EnterExit, CallExit, OnlyInitPanics, table
    <3>2. CASE ~EnterExit(c, p)
      <4>1. panicked' = panicked
        BY Zenon, <2>3, <3>2 DEF Step, Continue, Pushcli, AllocStack, CopyUvm, ForkRun, Exit, Wait,
             SleepTest, Sleep, SleepReturn, Relock, Fork, SysWait, Kill, SysSleep
      <4> QED BY <2>3, <4>1 DEF OnlyInitPanics
    <3> QED BY Zenon, <3>1, <3>2
  <2>4. CASE UNCHANGED vars
    BY Zenon, <2>4 DEF vars, table, OnlyInitPanics
  <2> QED BY Zenon, <2>2, <2>3, <2>4 DEF Next
<1> QED BY <1>1, <1>2, Invariance, PTL DEF Spec

=============================================================================
