----------------------------- MODULE PipeProofs -----------------------------
(***************************************************************************)
(* Proofs about Pipe for any set of processes and any size of the buffer.  *)
(***************************************************************************)
EXTENDS Pipe, TLAPS

\* A process has p->lock exactly while it is inside the pipe and awake, and
\* it has a file that refers to the end it uses.
HoldInv ==
  /\ \A p \in Proc : lock = p <=> pc[p] \in Writing \cup Reading
  /\ \A p \in Proc : chan[p] = "nread" => pc[p] = "rslept"
  /\ \A p \in Proc : chan[p] = "nwrite" => pc[p] = "wslept"
  /\ \A p \in Proc : pc[p] \in Writing \cup {"wslept"} => "write" \in ends[p]
  /\ \A p \in Proc : pc[p] \in Reading \cup {"rslept"} => "read" \in ends[p]

\* An end is open until the process that dropped the last reference to it
\* has been through pipeclose(), and the page is there until the process
\* that found both ends closed has freed it.
OpenInv ==
  /\ \A e \in End : open[e] = 1 <=> Holders(e) # {} \/ \E p \in Proc : pc[p] = Closing(e)
  /\ \A e \in End, p \in Proc : pc[p] = Closing(e) => Holders(e) = {}
  /\ \A e \in End, p, q \in Proc : pc[p] = Closing(e) /\ pc[q] = Closing(e) => p = q
  /\ \A p, q \in Proc : pc[p] = "kfree" /\ pc[q] = "kfree" => p = q
  /\ \A p \in Proc, e \in End : pc[p] = "kfree" => open[e] = 0
  /\ page = 1 <=> (\E e \in End : open[e] = 1) \/ \E p \in Proc : pc[p] = "kfree"

\* Why a process sleeps, also while another one is inside the pipe.
SleepInv ==
  /\ \A p \in Proc : pc[p] = "rsleep" => Empty /\ open["write"] = 1
  /\ \A p \in Proc : pc[p] = "wsleep" => Full /\ open["read"] = 1
  /\ \A p \in Proc : chan[p] = "nread" =>
       /\ open["write"] = 1
       /\ Empty \/ Abandoned \/ \E q \in Proc : pc[q] = "pipewrite"
  /\ \A p \in Proc : chan[p] = "nwrite" =>
       /\ open["read"] = 1
       /\ Full \/ \E q \in Proc : pc[q] = "copy"

IInv == TypeOK /\ HoldInv /\ OpenInv /\ SleepInv

-----------------------------------------------------------------------------

\* The counters stay in their width.
LEMMA WrapIn == ASSUME NEW n \in Nat PROVE n % WRAP \in 0 .. (WRAP - 1)
BY PipeAssumption

\* The invariant holds before there is a pipe.
LEMMA InitInv == Init => IInv
<1> SUFFICES ASSUME Init PROVE IInv
  BY Zenon
<1> USE PipeAssumption DEF Init
<1>1. TypeOK
  BY DEF TypeOK
<1>2. HoldInv
  BY Zenon DEF HoldInv, Writing, Reading
<1>3. OpenInv
  BY DEF OpenInv, Holders, Closing, End
<1>4. SleepInv
  BY Zenon DEF SleepInv
<1> QED BY Zenon, <1>1, <1>2, <1>3, <1>4 DEF IInv

\* What a step inside the pipe leaves alone keeps the reference counts right.
LEMMA OpenSame ==
  ASSUME IInv, UNCHANGED <<page, open, ends>>,
         \A p \in Proc : pc'[p] # pc[p] => /\ pc[p] \notin {"closeread", "closewrite", "kfree"}
                                           /\ pc'[p] \notin {"closeread", "closewrite", "kfree"}
  PROVE  OpenInv'
<1>1. \A e \in End : Holders(e)' = Holders(e)
  BY Zenon DEF Holders
<1>2. \A p \in Proc, e \in End : pc'[p] = Closing(e) <=> pc[p] = Closing(e)
  BY Zenon DEF Closing
<1>3. \A p \in Proc : pc'[p] = "kfree" <=> pc[p] = "kfree"
  BY Zenon
<1> QED BY <1>1, <1>2, <1>3 DEF IInv, OpenInv

\* pipealloc() makes a pipe that nobody else refers to.
LEMMA PipeallocInv ==
  ASSUME IInv, NEW p \in Proc, Pipealloc(p) PROVE IInv'
<1> USE DEF IInv
<1>1. /\ page = 0 /\ \A q \in Proc : ends[q] = {} /\ pc[q] = "user"
      /\ page' = 1 /\ open' = [e \in End |-> 1] /\ nread' = 0 /\ nwrite' = 0
      /\ ends' = [ends EXCEPT ![p] = End]
      /\ UNCHANGED <<data, lock, pc, chan, todo, killed>>
  BY Zenon DEF Pipealloc
<1>2. TypeOK'
  BY <1>1, PipeAssumption DEF TypeOK
<1>3. HoldInv'
  BY Zenon, <1>1 DEF HoldInv, Writing, Reading
<1>4. OpenInv'
  <2>1. \A e \in End : p \in Holders(e)'
    BY Zenon, <1>1 DEF Holders, TypeOK
  <2>2. \A e \in End, q \in Proc : pc'[q] # Closing(e) /\ pc'[q] # "kfree"
    BY Zenon, <1>1 DEF Closing
  <2>3. \A e \in End : open'[e] = 1
    BY Zenon, <1>1
  <2> QED BY Zenon, <1>1, <2>1, <2>2, <2>3 DEF OpenInv, End
<1>5. SleepInv'
  <2>1. \A q \in Proc : chan[q] = "none"
    BY Zenon, <1>1 DEF HoldInv, TypeOK
  <2> QED BY Zenon, <1>1, <2>1 DEF SleepInv
<1> QED BY Zenon, <1>2, <1>3, <1>4, <1>5

\* fork() only adds references to ends that are open already.
LEMMA ForkInv ==
  ASSUME IInv, NEW p \in Proc, NEW q \in Proc, Fork(p, q) PROVE IInv'
<1> USE DEF IInv
<1>1. /\ pc[q] = "user" /\ ends[q] = {} /\ p # q
      /\ ends' = [ends EXCEPT ![q] = ends[p]]
      /\ UNCHANGED <<pipe, lock, pc, chan, todo, killed>>
  BY Zenon DEF Fork
<1>2. TypeOK'
  BY Zenon, <1>1 DEF TypeOK, pipe
<1>3. HoldInv'
  BY Zenon, <1>1 DEF HoldInv, TypeOK, Writing, Reading
<1>4. OpenInv'
  <2>1. \A e \in End : Holders(e)' # {} <=> Holders(e) # {}
    BY Zenon, <1>1 DEF Holders, TypeOK
  <2> QED BY <1>1, <2>1 DEF OpenInv, pipe
<1>5. SleepInv'
  BY Zenon, <1>1 DEF SleepInv, Empty, Full, Abandoned, pipe
<1> QED BY Zenon, <1>2, <1>3, <1>4, <1>5

\* kill() changes what a process will do next, not the pipe.
LEMMA KillInv ==
  ASSUME IInv, NEW q \in Proc, Kill(q) PROVE IInv'
<1> USE DEF IInv
<1>1. /\ killed' = [killed EXCEPT ![q] = 1] /\ chan' = [chan EXCEPT ![q] = "none"]
      /\ UNCHANGED <<pipe, lock, ends, pc, todo>>
  BY Zenon DEF Kill
<1>2. TypeOK'
  BY Zenon, <1>1 DEF TypeOK, pipe
<1>3. HoldInv'
  BY Zenon, <1>1 DEF HoldInv, TypeOK
<1>4. OpenInv'
  BY Zenon, <1>1, OpenSame DEF pipe
<1>5. Abandoned => Abandoned'
  BY Zenon, <1>1 DEF Abandoned, TypeOK
<1>6. SleepInv'
  BY Zenon, <1>1, <1>5 DEF SleepInv, Empty, Full, pipe, TypeOK
<1> QED BY <1>2, <1>3, <1>4, <1>6

\* fileclose(): the end stays open until its last reference is through
\* pipeclose().
LEMMA FilecloseInv ==
  ASSUME IInv, NEW p \in Proc, NEW e \in End, Fileclose(p, e) PROVE IInv'
<1> USE DEF IInv
<1>1. /\ pc[p] = "user" /\ e \in ends[p]
      /\ ends' = [ends EXCEPT ![p] = @ \ {e}]
      /\ IF Holders(e) = {p} THEN pc' = [pc EXCEPT ![p] = Closing(e)] ELSE pc' = pc
      /\ UNCHANGED <<pipe, lock, chan, todo, killed>>
  BY Zenon DEF Fileclose
<1>2. Closing(e) \in {"closeread", "closewrite"}
  BY Zenon DEF Closing
<1>3. TypeOK'
  BY Zenon, <1>1, <1>2 DEF TypeOK, pipe
<1>4. HoldInv'
  BY <1>1, <1>2 DEF HoldInv, TypeOK, Writing, Reading
<1>5. OpenInv'
  <2>1. Holders(e)' = Holders(e) \ {p} /\ p \in Holders(e)
    BY Zenon, <1>1 DEF Holders, TypeOK
  <2>2. \A f \in End \ {e} : Holders(f)' = Holders(f)
    BY Zenon, <1>1 DEF Holders, TypeOK
  <2>3. \A q \in Proc : pc[q] # Closing(e)
    BY Zenon, <2>1 DEF OpenInv
  <2>4. \A f \in End \ {e}, q \in Proc : pc'[q] = Closing(f) <=> pc[q] = Closing(f)
    BY Zenon, <1>1 DEF Closing, End, TypeOK
  <2>5. \A q \in Proc : pc'[q] = "kfree" <=> pc[q] = "kfree"
    BY Zenon, <1>1, <1>2 DEF TypeOK
  <2>6. open[e] = 1
    BY Zenon, <2>1 DEF OpenInv
  <2>7. CASE Holders(e) = {p}
    <3>1. Holders(e)' = {} /\ \A q \in Proc : pc'[q] = Closing(e) <=> q = p
      BY Zenon, <1>1, <2>1, <2>3, <2>7 DEF TypeOK
    <3> QED BY <1>1, <2>1, <2>2, <2>3, <2>4, <2>5, <2>6, <3>1 DEF OpenInv, pipe
  <2>8. CASE Holders(e) # {p}
    <3>1. Holders(e)' # {} /\ pc' = pc
      BY Zenon, <1>1, <2>1, <2>8
    <3> QED BY <1>1, <2>1, <2>2, <2>3, <3>1 DEF OpenInv, pipe
  <2> QED BY Zenon, <2>7, <2>8
<1>6. Abandoned => Abandoned'
  BY Zenon, <1>1, <1>2 DEF Abandoned, TypeOK
<1>7. \A q \in Proc : /\ pc'[q] = "rsleep" => pc[q] = "rsleep"
                      /\ pc'[q] = "wsleep" => pc[q] = "wsleep"
                      /\ pc[q] \in {"pipewrite", "copy"} => pc'[q] = pc[q]
  BY Zenon, <1>1, <1>2 DEF TypeOK
<1>8. SleepInv'
  BY Zenon, <1>1, <1>6, <1>7 DEF SleepInv, Empty, Full, pipe
<1> QED BY Zenon, <1>3, <1>4, <1>5, <1>8

\* pipeclose() wakes those who wait for the end that it closes.
LEMMA PipecloseInv ==
  ASSUME IInv, NEW p \in Proc, NEW e \in End, Pipeclose(p, e) PROVE IInv'
<1> USE DEF IInv
<1>1. /\ pc[p] = Closing(e) /\ lock = Nobody
      /\ open' = [open EXCEPT ![e] = 0] /\ chan' = Wakeup(Counter(e))
      /\ pc' = [pc EXCEPT ![p] = IF \A f \in End \ {e} : open[f] = 0 THEN "kfree" ELSE "user"]
      /\ UNCHANGED <<page, data, nread, nwrite, lock, ends, todo, killed>>
  BY Zenon DEF Pipeclose
<1>2. Closing(e) \in {"closeread", "closewrite"}
  BY DEF Closing
<1>3. \A q \in Proc : /\ chan'[q] = chan[q] \/ chan'[q] = "none"
                      /\ chan'[q] # Counter(e) \/ Counter(e) = "none"
  BY Zenon, <1>1 DEF Wakeup
<1>4. TypeOK'
  <2>1. chan' \in [Proc -> {"none", "nread", "nwrite"}]
    BY Zenon, <1>1 DEF Wakeup, TypeOK
  <2> QED BY Zenon, <1>1, <2>1 DEF TypeOK
<1>5. HoldInv'
  BY <1>1, <1>2, <1>3 DEF HoldInv, TypeOK, Writing, Reading
<1>6. OpenInv'
  <2>1. \A f \in End : Holders(f)' = Holders(f)
    BY Zenon, <1>1 DEF Holders
  <2>2. Holders(e) = {} /\ open[e] = 1 /\ page = 1
    BY Zenon, <1>1 DEF OpenInv
  <2>3. \A q \in Proc : pc[q] # "kfree"
    BY <2>2 DEF OpenInv
  <2>4. \A q \in Proc : pc'[q] # Closing(e)
    BY Zenon, <1>1, <1>2 DEF OpenInv, TypeOK
  <2>5. \A f \in End \ {e}, q \in Proc : pc'[q] = Closing(f) <=> pc[q] = Closing(f)
    BY Zenon, <1>1 DEF Closing, End, TypeOK
  <2>6. open'[e] = 0 /\ \A f \in End \ {e} : open'[f] = open[f]
    BY Zenon, <1>1 DEF TypeOK
  <2>7. (\E q \in Proc : pc'[q] = "kfree") <=> \A f \in End \ {e} : open[f] = 0
    BY Zenon, <1>1, <2>3 DEF TypeOK
  <2>8. \A q \in Proc : pc'[q] = "kfree" => q = p
    BY Zenon, <1>1, <2>3 DEF TypeOK
  <2>9. (\E f \in End : open'[f] = 1) \/ \E q \in Proc : pc'[q] = "kfree"
    BY ZenonT(30), <2>6, <2>7 DEF TypeOK
  <2>10. page' = 1
    BY Zenon, <1>1, <2>2
  <2> QED BY <2>1, <2>2, <2>4, <2>5, <2>6, <2>7, <2>8, <2>9, <2>10 DEF OpenInv
<1>7. Abandoned => Abandoned'
  BY Zenon, <1>1, <1>2 DEF Abandoned, TypeOK
<1>8. \A q \in Proc : pc[q] \notin Writing \cup Reading
  BY Zenon, <1>1, PipeAssumption DEF HoldInv
<1>9. SleepInv'
  <2>1. \A q \in Proc : pc'[q] \notin Writing \cup Reading
    BY Zenon, <1>1, <1>8 DEF TypeOK, Writing, Reading
  <2>2. \A q \in Proc : chan'[q] = "nread" => chan[q] = "nread" /\ e = "read"
    BY Zenon, <1>3 DEF Counter, End
  <2>3. \A q \in Proc : chan'[q] = "nwrite" => chan[q] = "nwrite" /\ e = "write"
    BY Zenon, <1>3 DEF Counter, End
  <2>4. \A q \in Proc : chan'[q] = "nread" => open'["write"] = 1 /\ (Empty' \/ Abandoned')
    BY Zenon, <1>1, <1>7, <1>8, <2>2 DEF SleepInv, Empty, TypeOK, Writing, End
  <2>5. \A q \in Proc : chan'[q] = "nwrite" => open'["read"] = 1 /\ Full'
    BY Zenon, <1>1, <1>8, <2>3 DEF SleepInv, Full, TypeOK, Reading, End
  <2> QED BY Zenon, <2>1, <2>4, <2>5 DEF SleepInv, Writing, Reading
<1> QED BY <1>4, <1>5, <1>6, <1>9

\* kfree(): nobody refers to the page any more.
LEMMA KfreeInv ==
  ASSUME IInv, NEW p \in Proc, Kfree(p) PROVE IInv'
<1> USE DEF IInv
<1>1. /\ pc[p] = "kfree" /\ page' = 0 /\ pc' = [pc EXCEPT ![p] = "user"]
      /\ UNCHANGED <<data, nread, nwrite, open, lock, ends, chan, todo, killed>>
  BY Zenon DEF Kfree
<1>2. TypeOK'
  BY Zenon, <1>1 DEF TypeOK
<1>3. HoldInv'
  BY Zenon, <1>1 DEF HoldInv, TypeOK, Writing, Reading
<1>4. OpenInv'
  <2>1. \A e \in End : Holders(e)' = Holders(e)
    BY Zenon, <1>1 DEF Holders
  <2>2. \A e \in End, q \in Proc : pc'[q] = Closing(e) <=> pc[q] = Closing(e)
    BY Zenon, <1>1 DEF Closing, TypeOK
  <2>3. \A q \in Proc : pc'[q] # "kfree"
    BY Zenon, <1>1 DEF OpenInv, TypeOK
  <2> QED BY <1>1, <2>1, <2>2, <2>3 DEF OpenInv
<1>5. Abandoned => Abandoned'
  BY Zenon, <1>1 DEF Abandoned, TypeOK
<1>6. \A q \in Proc : /\ pc'[q] = "rsleep" => pc[q] = "rsleep"
                      /\ pc'[q] = "wsleep" => pc[q] = "wsleep"
                      /\ pc[q] \in {"pipewrite", "copy"} => pc'[q] = pc[q]
  BY Zenon, <1>1 DEF TypeOK
<1>7. SleepInv'
  BY <1>1, <1>5, <1>6 DEF SleepInv, Empty, Full
<1> QED BY <1>2, <1>3, <1>4, <1>7

\* p->lock lets one process at a time into the pipe.
LEMMA Alone ==
  ASSUME IInv, NEW p \in Proc, pc[p] \in Writing \cup Reading
  PROVE  lock = p /\ \A q \in Proc \ {p} : pc[q] \notin Writing \cup Reading
BY Zenon DEF IInv, HoldInv

\* A step of the process that has p->lock, which keeps it or leaves.
LEMMA HoldStep ==
  ASSUME IInv, NEW p \in Proc, pc[p] \in Writing \cup Reading, NEW k,
         pc' = [pc EXCEPT ![p] = k], ends' = ends,
         \/ k \in Writing \cup Reading /\ lock' = lock
         \/ k \notin Writing \cup Reading /\ lock' = Nobody,
         k \in Writing \cup {"wslept"} => pc[p] \in Writing,
         k \in Reading \cup {"rslept"} => pc[p] \in Reading,
         \A q \in Proc : chan'[q] = "nread" => pc'[q] = "rslept",
         \A q \in Proc : chan'[q] = "nwrite" => pc'[q] = "wslept"
  PROVE  HoldInv'
<1>1. lock = p /\ \A q \in Proc \ {p} : pc[q] \notin Writing \cup Reading
  BY Zenon, Alone
<1>2. pc'[p] = k /\ \A q \in Proc \ {p} : pc'[q] = pc[q]
  BY Zenon DEF IInv, TypeOK
<1>3. \A q \in Proc : lock' = q <=> pc'[q] \in Writing \cup Reading
  BY <1>1, <1>2, PipeAssumption
<1>4. \A q \in Proc : /\ pc'[q] \in Writing \cup {"wslept"} => "write" \in ends[q]
                      /\ pc'[q] \in Reading \cup {"rslept"} => "read" \in ends[q]
  BY <1>2 DEF IInv, HoldInv
<1> QED BY Zenon, <1>3, <1>4 DEF HoldInv

\* Entering the pipe, from user space or from sleep(), finds nobody in it.
LEMMA EnterInv ==
  ASSUME IInv, NEW p \in Proc,
         Reacquire(p) \/ \E n \in 0..MaxCount : SysWrite(p, n) \/ SysRead(p, n)
  PROVE  IInv'
<1> USE DEF IInv
<1>1. /\ lock = Nobody /\ lock' = p
      /\ \/ /\ pc' = [pc EXCEPT ![p] = "pipewrite"]
            /\ "write" \in ends[p] /\ chan[p] = "none"
         \/ /\ pc' = [pc EXCEPT ![p] = "piperead"]
            /\ "read" \in ends[p] /\ chan[p] = "none"
      /\ \/ todo' = todo /\ pc[p] \in {"wslept", "rslept"}
         \/ \E n \in 0..MaxCount : todo' = [todo EXCEPT ![p] = n] /\ killed[p] = 0 /\ pc[p] = "user"
      /\ UNCHANGED <<pipe, ends, chan, killed>>
  <2>1. CASE Reacquire(p)
    BY Zenon, <2>1 DEF Reacquire, HoldInv, TypeOK
  <2>2. CASE \E n \in 0..MaxCount : SysWrite(p, n) \/ SysRead(p, n)
    BY Zenon, <2>2 DEF SysWrite, SysRead, HoldInv, TypeOK
  <2> QED BY Zenon, <2>1, <2>2
<1>2. \A q \in Proc : pc[q] \notin Writing \cup Reading
  BY Zenon, <1>1, PipeAssumption DEF HoldInv
<1>3. TypeOK'
  BY ZenonT(30), <1>1 DEF TypeOK, pipe, Writing, Reading
<1>4. HoldInv'
  BY <1>1, <1>2 DEF HoldInv, TypeOK, Writing, Reading
<1>5. OpenInv'
  <2>1. \A q \in Proc : pc'[q] # pc[q] => /\ pc[q] \in {"wslept", "rslept", "user"}
                                          /\ pc'[q] \in {"pipewrite", "piperead"}
    BY Zenon, <1>1 DEF TypeOK
  <2> QED BY Zenon, <1>1, <2>1, OpenSame DEF pipe
<1>6. Abandoned => Abandoned'
  BY <1>1 DEF Abandoned, TypeOK
<1>7. \A q \in Proc : pc'[q] \notin {"rsleep", "wsleep"}
  BY Zenon, <1>1, <1>2 DEF TypeOK, Writing, Reading
<1>8. SleepInv'
  BY Zenon, <1>1, <1>2, <1>6, <1>7 DEF SleepInv, Empty, Full, pipe, Writing, Reading
<1> QED BY Zenon, <1>3, <1>4, <1>5, <1>8

\* A byte goes in only while there is room, so no writer sleeps for nothing.
LEMMA WriteByteInv ==
  ASSUME IInv, NEW p \in Proc, NEW b \in Byte, WriteByte(p, b) PROVE IInv'
<1> USE DEF IInv
<1>1. /\ pc[p] = "pipewrite" /\ todo[p] > 0 /\ ~Full
      /\ data' = [data EXCEPT ![nwrite % PIPESIZE] = b]
      /\ nwrite' = (nwrite + 1) % WRAP /\ todo' = [todo EXCEPT ![p] = @ - 1]
      /\ UNCHANGED <<page, nread, open, lock, ends, pc, chan, killed>>
  BY Zenon DEF WriteByte
<1>2. lock = p /\ \A q \in Proc \ {p} : pc[q] \notin Writing \cup Reading
  BY Zenon, <1>1, Alone DEF Writing
<1>3. TypeOK'
  <2>1. nwrite \in Nat /\ nwrite + 1 \in Nat
    BY PipeAssumption DEF TypeOK
  <2>2. nwrite' \in 0 .. (WRAP - 1)
    BY Zenon, <1>1, <2>1, WrapIn
  <2>3. todo' \in [Proc -> 0..MaxCount]
    BY <1>1, PipeAssumption DEF TypeOK
  <2>4. data' \in [0 .. (PIPESIZE - 1) -> Byte]
    BY Zenon, <1>1 DEF TypeOK
  <2> QED BY Zenon, <1>1, <2>2, <2>3, <2>4 DEF TypeOK
<1>4. HoldInv'
  BY Zenon, <1>1 DEF HoldInv
<1>5. OpenInv'
  BY Zenon, <1>1, OpenSame
<1>6. \A q \in Proc : chan[q] # "nwrite"
  BY Zenon, <1>1, <1>2 DEF SleepInv, Reading
<1>7. \A q \in Proc : pc[q] \notin {"rsleep", "wsleep"}
  BY Zenon, <1>1, <1>2 DEF Writing, Reading
<1>8. SleepInv'
  BY Zenon, <1>1, <1>6, <1>7 DEF SleepInv
<1> QED BY Zenon, <1>3, <1>4, <1>5, <1>8

\* pipewrite() in a full pipe: it tells the readers before it sleeps; when it
\* gives up, the readers are gone or it has been killed.
LEMMA WriteFullInv ==
  ASSUME IInv, NEW p \in Proc, WriteFull(p) PROVE IInv'
<1> USE DEF IInv
<1>1. /\ pc[p] = "pipewrite" /\ todo[p] > 0 /\ Full
      /\ UNCHANGED <<pipe, ends, todo, killed>>
      /\ \/ /\ open["read"] = 0 \/ killed[p] = 1
            /\ lock' = Nobody /\ pc' = [pc EXCEPT ![p] = "user"] /\ chan' = chan
         \/ /\ open["read"] # 0 /\ chan' = Wakeup("nread")
            /\ pc' = [pc EXCEPT ![p] = "wsleep"] /\ lock' = lock
  BY Zenon DEF WriteFull, Return
<1>2. lock = p /\ \A q \in Proc \ {p} : pc[q] \notin Writing \cup Reading
  BY Zenon, <1>1, Alone DEF Writing
<1>3. /\ chan' \in [Proc -> {"none", "nread", "nwrite"}]
      /\ \A q \in Proc : chan'[q] = chan[q] \/ chan'[q] = "none"
      /\ pc'[p] = "wsleep" => \A q \in Proc : chan'[q] # "nread"
  BY <1>1 DEF Wakeup, TypeOK
<1>4. TypeOK'
  BY Zenon, <1>1, <1>3 DEF TypeOK, pipe, Writing
<1>5. HoldInv'
  <2>1. \A q \in Proc : chan'[q] # "none" => pc'[q] = pc[q] /\ chan'[q] = chan[q]
    BY <1>1, <1>3 DEF HoldInv, TypeOK
  <2>2. \A q \in Proc : /\ chan'[q] = "nread" => pc'[q] = "rslept"
                        /\ chan'[q] = "nwrite" => pc'[q] = "wslept"
    BY Zenon, <2>1 DEF HoldInv
  <2>3. CASE pc' = [pc EXCEPT ![p] = "user"] /\ lock' = Nobody
    BY Zenon, <1>1, <2>2, <2>3, HoldStep DEF Writing, Reading
  <2>4. CASE pc' = [pc EXCEPT ![p] = "wsleep"] /\ lock' = lock
    BY Zenon, <1>1, <2>2, <2>4, HoldStep DEF Writing, Reading
  <2> QED BY Zenon, <1>1, <2>3, <2>4
<1>6. OpenInv'
  <2>1. \A q \in Proc : pc'[q] # pc[q] => pc[q] = "pipewrite" /\ pc'[q] \in {"user", "wsleep"}
    BY Zenon, <1>1 DEF TypeOK
  <2> QED BY Zenon, <1>1, <2>1, OpenSame DEF pipe
<1>7. \A q \in Proc : chan[q] = "nread" => open["read"] = 1
  BY Zenon DEF HoldInv, OpenInv, Holders, End
<1>8. \A q \in Proc : chan'[q] = "nread" => open'["write"] = 1 /\ Abandoned'
  <2> SUFFICES ASSUME NEW q \in Proc, chan'[q] = "nread" PROVE open'["write"] = 1 /\ Abandoned'
    BY Zenon
  <2>1. chan[q] = "nread" /\ pc'[p] = "user" /\ killed[p] = 1
    BY Zenon, <1>1, <1>3, <1>7 DEF TypeOK
  <2>2. Abandoned'
    BY Zenon, <1>1, <2>1 DEF Abandoned
  <2> QED BY Zenon, <1>1, <2>1, <2>2 DEF SleepInv, pipe
<1>9. \A q \in Proc : chan'[q] = "nwrite" => open'["read"] = 1 /\ Full'
  BY Zenon, <1>1, <1>3 DEF SleepInv, Full, pipe
<1>10. \A q \in Proc : pc'[q] # "rsleep" /\ (pc'[q] = "wsleep" => Full' /\ open'["read"] = 1)
  <2>1. open["read"] \in {0, 1} /\ UNCHANGED <<nread, nwrite, open>>
    BY Zenon, <1>1 DEF TypeOK, End, pipe
  <2>2. Full'
    BY Zenon, <1>1, <2>1 DEF Full
  <2>3. \A q \in Proc : pc'[q] # "rsleep" /\ (pc'[q] = "wsleep" => open["read"] # 0)
    BY Zenon, <1>1, <1>2 DEF TypeOK, Writing, Reading
  <2> QED BY Zenon, <2>1, <2>2, <2>3
<1>11. SleepInv'
  BY Zenon, <1>8, <1>9, <1>10 DEF SleepInv
<1> QED BY <1>4, <1>5, <1>6, <1>11

\* pipewrite() wakes every reader before it returns.
LEMMA WriteDoneInv ==
  ASSUME IInv, NEW p \in Proc, WriteDone(p) PROVE IInv'
<1> USE DEF IInv
<1>1. /\ pc[p] = "pipewrite" /\ chan' = Wakeup("nread")
      /\ lock' = Nobody /\ pc' = [pc EXCEPT ![p] = "user"]
      /\ UNCHANGED <<pipe, ends, todo, killed>>
  BY Zenon DEF WriteDone, Return
<1>2. lock = p /\ \A q \in Proc \ {p} : pc[q] \notin Writing \cup Reading
  BY Zenon, <1>1, Alone DEF Writing
<1>3. /\ chan' \in [Proc -> {"none", "nread", "nwrite"}]
      /\ \A q \in Proc : chan'[q] = chan[q] \/ chan'[q] = "none"
      /\ \A q \in Proc : chan'[q] # "nread"
  BY Zenon, <1>1 DEF Wakeup, TypeOK
<1>4. TypeOK'
  BY Zenon, <1>1, <1>3, PipeAssumption DEF TypeOK, pipe
<1>5. HoldInv'
  BY <1>1, <1>2, <1>3, PipeAssumption DEF HoldInv, TypeOK, Writing, Reading
<1>6. OpenInv'
  <2>1. \A q \in Proc : pc'[q] # pc[q] => pc[q] = "pipewrite" /\ pc'[q] = "user"
    BY Zenon, <1>1 DEF TypeOK
  <2> QED BY Zenon, <1>1, <2>1, OpenSame DEF pipe
<1>7. \A q \in Proc : pc'[q] \notin {"rsleep", "wsleep", "copy"}
  BY Zenon, <1>1, <1>2 DEF TypeOK, Writing, Reading
<1>8. \A q \in Proc : chan'[q] = "nwrite" => open'["read"] = 1 /\ Full'
  BY Zenon, <1>1, <1>2, <1>3 DEF SleepInv, Full, pipe, Reading
<1>9. SleepInv'
  BY Zenon, <1>3, <1>7, <1>8 DEF SleepInv
<1> QED BY <1>4, <1>5, <1>6, <1>9

\* piperead() decides to sleep only in an empty pipe that can be written.
LEMMA ReadWaitInv ==
  ASSUME IInv, NEW p \in Proc, ReadWait(p) PROVE IInv'
<1> USE DEF IInv
<1>1. /\ pc[p] = "piperead" /\ UNCHANGED <<pipe, ends, chan, killed>>
      /\ \/ /\ todo' = [todo EXCEPT ![p] = 0] /\ lock' = Nobody
            /\ pc' = [pc EXCEPT ![p] = "user"]
         \/ /\ Empty /\ open["write"] = 1 /\ pc' = [pc EXCEPT ![p] = "rsleep"]
            /\ UNCHANGED <<lock, todo>>
         \/ pc' = [pc EXCEPT ![p] = "copy"] /\ UNCHANGED <<lock, todo>>
  BY Zenon DEF ReadWait, Return
<1>2. lock = p /\ \A q \in Proc \ {p} : pc[q] \notin Writing \cup Reading
  BY Zenon, <1>1, Alone DEF Reading
<1>3. TypeOK'
  <2>1. todo' \in [Proc -> 0..MaxCount]
    <3>1. todo \in [Proc -> 0..MaxCount] /\ 0 \in 0..MaxCount
      BY PipeAssumption DEF TypeOK
    <3>2. todo' = todo \/ todo' = [todo EXCEPT ![p] = 0]
      BY Zenon, <1>1
    <3> QED BY Zenon, <3>1, <3>2
  <2>2. lock' \in Proc \cup {Nobody}
    BY Zenon, <1>1 DEF TypeOK
  <2> QED BY Zenon, <1>1, <2>1, <2>2 DEF TypeOK, pipe, Reading
<1>4. HoldInv'
  <2>1. \A q \in Proc : chan[q] # "none" => pc'[q] = pc[q]
    BY Zenon, <1>1 DEF HoldInv, TypeOK
  <2>2. \A q \in Proc : /\ chan'[q] = "nread" => pc'[q] = "rslept"
                        /\ chan'[q] = "nwrite" => pc'[q] = "wslept"
    BY Zenon, <1>1, <2>1 DEF HoldInv
  <2>3. CASE pc' = [pc EXCEPT ![p] = "user"] /\ lock' = Nobody
    BY Zenon, <1>1, <2>2, <2>3, HoldStep DEF Writing, Reading
  <2>4. CASE pc' = [pc EXCEPT ![p] = "rsleep"] /\ lock' = lock
    BY Zenon, <1>1, <2>2, <2>4, HoldStep DEF Writing, Reading
  <2>5. CASE pc' = [pc EXCEPT ![p] = "copy"] /\ lock' = lock
    BY Zenon, <1>1, <2>2, <2>5, HoldStep DEF Writing, Reading
  <2> QED BY Zenon, <1>1, <2>3, <2>4, <2>5
<1>5. OpenInv'
  <2>1. \A q \in Proc : pc'[q] # pc[q] => pc[q] = "piperead" /\ pc'[q] \in {"user", "rsleep", "copy"}
    BY Zenon, <1>1 DEF TypeOK
  <2> QED BY Zenon, <1>1, <2>1, OpenSame DEF pipe
<1>6. Abandoned => Abandoned'
  BY Zenon, <1>1 DEF Abandoned, TypeOK
<1>7. UNCHANGED <<nread, nwrite, open>> /\ Empty' = Empty /\ Full' = Full
  BY Zenon, <1>1 DEF pipe, Empty, Full
<1>8. \A q \in Proc : /\ pc'[q] # "wsleep" /\ (pc'[q] = "rsleep" => Empty /\ open["write"] = 1)
                      /\ pc[q] \notin {"copy", "pipewrite"}
  BY <1>1, <1>2 DEF TypeOK, Writing, Reading
<1>9. SleepInv'
  BY Zenon, <1>1, <1>6, <1>7, <1>8 DEF SleepInv
<1> QED BY <1>3, <1>4, <1>5, <1>9

\* A byte comes out only if there is one.
LEMMA ReadByteInv ==
  ASSUME IInv, NEW p \in Proc, ReadByte(p) PROVE IInv'
<1> USE DEF IInv
<1>1. /\ pc[p] = "copy" /\ todo[p] > 0 /\ ~Empty
      /\ nread' = (nread + 1) % WRAP /\ todo' = [todo EXCEPT ![p] = @ - 1]
      /\ UNCHANGED <<page, data, nwrite, open, lock, ends, pc, chan, killed>>
  BY Zenon DEF ReadByte
<1>2. lock = p /\ \A q \in Proc \ {p} : pc[q] \notin Writing \cup Reading
  BY Zenon, <1>1, Alone DEF Reading
<1>3. TypeOK'
  <2>1. nread \in Nat /\ nread + 1 \in Nat
    BY PipeAssumption DEF TypeOK
  <2>2. nread' \in 0 .. (WRAP - 1)
    BY Zenon, <1>1, <2>1, WrapIn
  <2>3. todo' \in [Proc -> 0..MaxCount]
    BY <1>1, PipeAssumption DEF TypeOK
  <2> QED BY Zenon, <1>1, <2>2, <2>3 DEF TypeOK
<1>4. HoldInv'
  BY Zenon, <1>1 DEF HoldInv
<1>5. OpenInv'
  BY Zenon, <1>1, OpenSame
<1>6. Abandoned => Abandoned'
  BY Zenon, <1>1 DEF Abandoned, TypeOK
<1>7. \A q \in Proc : pc[q] \notin {"rsleep", "wsleep", "pipewrite"}
  BY Zenon, <1>1, <1>2 DEF Writing, Reading
<1>8. SleepInv'
  BY Zenon, <1>1, <1>6, <1>7 DEF SleepInv
<1> QED BY <1>3, <1>4, <1>5, <1>8

\* piperead() wakes every writer before it returns.
LEMMA ReadDoneInv ==
  ASSUME IInv, NEW p \in Proc, ReadDone(p) PROVE IInv'
<1> USE DEF IInv
<1>1. /\ pc[p] = "copy" /\ chan' = Wakeup("nwrite") /\ todo' = [todo EXCEPT ![p] = 0]
      /\ lock' = Nobody /\ pc' = [pc EXCEPT ![p] = "user"]
      /\ UNCHANGED <<pipe, ends, killed>>
  BY Zenon DEF ReadDone, Return
<1>2. lock = p /\ \A q \in Proc \ {p} : pc[q] \notin Writing \cup Reading
  BY Zenon, <1>1, Alone DEF Reading
<1>3. /\ chan' \in [Proc -> {"none", "nread", "nwrite"}]
      /\ \A q \in Proc : chan'[q] = chan[q] \/ chan'[q] = "none"
      /\ \A q \in Proc : chan'[q] # "nwrite"
  BY Zenon, <1>1 DEF Wakeup, TypeOK
<1>4. TypeOK'
  BY <1>1, <1>3, PipeAssumption DEF TypeOK, pipe
<1>5. HoldInv'
  BY <1>1, <1>2, <1>3, PipeAssumption DEF HoldInv, TypeOK, Writing, Reading
<1>6. OpenInv'
  <2>1. \A q \in Proc : pc'[q] # pc[q] => pc[q] = "copy" /\ pc'[q] = "user"
    BY Zenon, <1>1 DEF TypeOK
  <2> QED BY Zenon, <1>1, <2>1, OpenSame DEF pipe
<1>7. Abandoned => Abandoned'
  BY Zenon, <1>1 DEF Abandoned, TypeOK
<1>8. \A q \in Proc : pc'[q] \notin {"rsleep", "wsleep"} /\ pc[q] # "pipewrite"
  BY Zenon, <1>1, <1>2 DEF TypeOK, Writing, Reading
<1>9. UNCHANGED <<nread, nwrite, open>> /\ Empty' = Empty
  BY Zenon, <1>1 DEF pipe, Empty
<1>10. SleepInv'
  BY Zenon, <1>3, <1>7, <1>8, <1>9 DEF SleepInv
<1> QED BY <1>4, <1>5, <1>6, <1>10

\* sleep() releases p->lock and sleeps in one step: the condition that was
\* tested still holds.
LEMMA SleepStepInv ==
  ASSUME IInv, NEW p \in Proc, Sleep(p) PROVE IInv'
<1> USE DEF IInv
<1>1. /\ UNCHANGED <<pipe, ends, todo, killed>> /\ lock' = Nobody
      /\ \/ /\ pc[p] = "wsleep" /\ pc' = [pc EXCEPT ![p] = "wslept"]
            /\ chan' = [chan EXCEPT ![p] = "nwrite"]
         \/ /\ pc[p] = "rsleep" /\ pc' = [pc EXCEPT ![p] = "rslept"]
            /\ chan' = [chan EXCEPT ![p] = "nread"]
  BY Zenon DEF Sleep, TypeOK
<1>2. lock = p /\ \A q \in Proc \ {p} : pc[q] \notin Writing \cup Reading
  BY Zenon, <1>1, Alone DEF Writing, Reading
<1>3. TypeOK'
  BY Zenon, <1>1 DEF TypeOK, pipe
<1>4. HoldInv'
  <2>1. \A q \in Proc : /\ chan'[q] = "nread" => pc'[q] = "rslept"
                        /\ chan'[q] = "nwrite" => pc'[q] = "wslept"
    BY Zenon, <1>1 DEF HoldInv, TypeOK
  <2>2. CASE pc[p] = "wsleep"
    <3>1. pc' = [pc EXCEPT ![p] = "wslept"]
      BY Zenon, <1>1, <2>2
    <3> QED BY Zenon, <1>1, <2>1, <2>2, <3>1, HoldStep DEF Writing, Reading
  <2>3. CASE pc[p] = "rsleep"
    <3>1. pc' = [pc EXCEPT ![p] = "rslept"]
      BY Zenon, <1>1, <2>3
    <3> QED BY Zenon, <1>1, <2>1, <2>3, <3>1, HoldStep DEF Writing, Reading
  <2> QED BY Zenon, <1>1, <2>2, <2>3
<1>5. OpenInv'
  <2>1. \A q \in Proc : pc'[q] # pc[q] => /\ pc[q] \in {"wsleep", "rsleep"}
                                          /\ pc'[q] \in {"wslept", "rslept"}
    BY Zenon, <1>1 DEF TypeOK
  <2> QED BY Zenon, <1>1, <2>1, OpenSame DEF pipe
<1>6. Abandoned => Abandoned'
  BY Zenon, <1>1 DEF Abandoned, TypeOK
<1>7. UNCHANGED <<nread, nwrite, open>> /\ Empty' = Empty /\ Full' = Full
  BY Zenon, <1>1 DEF pipe, Empty, Full
<1>8. \A q \in Proc : /\ pc'[q] \notin {"rsleep", "wsleep"}
                      /\ pc[q] \notin {"pipewrite", "copy"}
  BY SMTT(30), <1>1, <1>2 DEF TypeOK, Writing, Reading
<1>9. \A q \in Proc : /\ chan'[q] = "nread" => chan[q] = "nread" \/ pc[p] = "rsleep"
                      /\ chan'[q] = "nwrite" => chan[q] = "nwrite" \/ pc[p] = "wsleep"
  BY Zenon, <1>1 DEF TypeOK
<1>10. SleepInv'
  BY Zenon, <1>6, <1>7, <1>8, <1>9 DEF SleepInv
<1> QED BY <1>3, <1>4, <1>5, <1>10

-----------------------------------------------------------------------------

\* Every step keeps the inductive invariant.
LEMMA NextInv == IInv /\ [Next]_vars => IInv'
<1> SUFFICES ASSUME IInv, [Next]_vars PROVE IInv'
  BY Zenon
<1>1. ASSUME NEW p \in Proc, Step(p) PROVE IInv'
  BY Zenon, <1>1, PipeallocInv, ForkInv, KillInv, FilecloseInv, PipecloseInv, KfreeInv, EnterInv,
     WriteByteInv, WriteFullInv, WriteDoneInv, ReadWaitInv, ReadByteInv, ReadDoneInv,
     SleepStepInv
  DEF Step, Continue
<1>2. CASE UNCHANGED vars
  <2> USE <1>2 DEF vars, pipe, procs, IInv
  <2>1. OpenInv'
    BY Zenon, OpenSame
  <2>2. TypeOK' /\ HoldInv' /\ SleepInv'
    BY Zenon DEF TypeOK, HoldInv, SleepInv, Empty, Full, Abandoned
  <2> QED BY Zenon, <2>1, <2>2
<1> QED BY Zenon, <1>1, <1>2 DEF Next

\* The inductive invariant holds for any number of processes.
THEOREM Invariance == Spec => []IInv
BY InitInv, NextInv, PTL DEF Spec

\* The buffer, its counters and the processes keep their types.
THEOREM TypeCorrect == Spec => []TypeOK
<1>1. IInv => TypeOK
  BY Zenon DEF IInv
<1> QED BY <1>1, Invariance, PTL

\* No reader in piperead() sleeps through the wakeup of pipewrite() or of
\* pipeclose().
THEOREM ReadersWoken == Spec => []ReaderHasReason
<1>1. IInv => ReaderHasReason
  BY Zenon, PipeAssumption DEF IInv, ReaderHasReason, SleepInv, HoldInv, Writing, Reading
<1> QED BY <1>1, Invariance, PTL

\* No writer in pipewrite() sleeps through the wakeup of piperead() or of
\* pipeclose().
THEOREM WritersWoken == Spec => []WriterHasReason
<1>1. IInv => WriterHasReason
  BY Zenon, PipeAssumption DEF IInv, WriterHasReason, SleepInv, HoldInv, Writing, Reading
<1> QED BY <1>1, Invariance, PTL

\* No wakeup of the pipe is lost, for any number of readers and writers.
THEOREM SleepersWoken == Spec => []SleepersHaveReason
BY ReadersWoken, WritersWoken, PTL DEF SleepersHaveReason

\* pipeclose() frees the page once, and nobody is left who could use it.
THEOREM FreedOnce == Spec => []PageWhileUsed
<1>1. IInv => PageWhileUsed
  <2> SUFFICES ASSUME IInv PROVE PageWhileUsed
    BY Zenon
  <2> USE DEF IInv
  <2>1. ASSUME page = 1 PROVE \E p \in Proc : ends[p] # {} \/ pc[p] # "user"
    BY Zenon, <2>1 DEF OpenInv, Holders, Closing
  <2>2. ASSUME NEW p \in Proc, ends[p] # {} PROVE page = 1
    <3>1. PICK e \in End : e \in ends[p]
      BY Zenon, <2>2 DEF TypeOK
    <3> QED BY Zenon, <3>1 DEF OpenInv, Holders
  <2>3. ASSUME NEW p \in Proc, pc[p] # "user" PROVE page = 1
    <3>1. CASE pc[p] \in Writing \cup Reading \cup {"wslept", "rslept"}
      <4>1. ends[p] # {}
        BY Zenon, <3>1 DEF HoldInv
      <4> QED BY Zenon, <4>1, <2>2
    <3>2. CASE pc[p] = "kfree"
      BY Zenon, <3>2 DEF OpenInv
    <3>3. CASE pc[p] \in {"closeread", "closewrite"}
      <4>1. \E e \in End : pc[p] = Closing(e)
        BY Zenon, <3>3 DEF Closing, End
      <4> QED BY Zenon, <4>1 DEF OpenInv
    <3> QED BY Zenon, <2>3, <3>1, <3>2, <3>3 DEF TypeOK
  <2> QED BY Zenon, <2>1, <2>2, <2>3 DEF PageWhileUsed
<1> QED BY <1>1, Invariance, PTL

-----------------------------------------------------------------------------
(* The ring buffer is a queue                                              *)

\* Division with a remainder, for a divisor that is not known.
LEMMA DivMod ==
  ASSUME NEW a \in Int, NEW n \in Nat \ {0}
  PROVE  /\ a % n \in 0 .. (n - 1) /\ a \div n \in Int
         /\ a = n * (a \div n) + (a % n)
OBVIOUS

\* Quotient and remainder are unique.
LEMMA DivUnique ==
  ASSUME NEW n \in Nat \ {0}, NEW q \in Int, NEW r \in 0 .. (n - 1),
         NEW s \in Int, NEW t \in 0 .. (n - 1), n * q + r = n * s + t
  PROVE  q = s /\ r = t
<1>1. n * (q - s) = t - r OBVIOUS
<1>2. CASE q - s >= 1
  <2>1. n * (q - s) >= n BY <1>2
  <2> QED BY <1>1, <2>1
<1>3. CASE q - s <= -1
  <2>1. n * (q - s) <= -n BY <1>3
  <2> QED BY <1>1, <2>1
<1> QED BY <1>2, <1>3

\* The remainder of a number that is written with one.
LEMMA ModIs ==
  ASSUME NEW n \in Nat \ {0}, NEW q \in Int, NEW r \in 0 .. (n - 1),
         NEW a \in Int, a = n * q + r
  PROVE  a % n = r
<1>1. a = n * (a \div n) + (a % n) /\ a % n \in 0 .. (n - 1) /\ a \div n \in Int
  BY Zenon, DivMod
<1> QED BY Zenon, <1>1, DivUnique

\* A multiple of the divisor does not change the remainder.
LEMMA ModShift ==
  ASSUME NEW n \in Nat \ {0}, NEW a \in Int, NEW k \in Int
  PROVE  (a + n * k) % n = a % n
<1> DEFINE q == a \div n
           r == a % n
<1>1. a = n * q + r /\ r \in 0 .. (n - 1) /\ q \in Int BY Zenon, DivMod
<1> HIDE DEF q, r
<1>2. a + n * k = n * (q + k) + r BY <1>1
<1>3. (a + n * k) % n = r BY <1>1, <1>2, ModIs
<1> QED BY Zenon, <1>3 DEF r

\* Numbers that are less than the divisor apart have different remainders.
LEMMA ModDiffers ==
  ASSUME NEW n \in Nat \ {0}, NEW a \in Int, NEW b \in Int, a < b, b < a + n
  PROVE  a % n # b % n
<1> SUFFICES ASSUME a % n = b % n PROVE FALSE BY Zenon
<1>1. a = n * (a \div n) + (a % n) /\ a \div n \in Int /\ a % n \in 0 .. (n - 1) BY Zenon, DivMod
<1>2. b = n * (b \div n) + (b % n) /\ b \div n \in Int BY Zenon, DivMod
<1> DEFINE q == (b \div n) - (a \div n)
<1>3. q \in Int /\ b - a = n * q BY <1>1, <1>2
<1> HIDE DEF q
<1>4. CASE q >= 1
  <2>1. n * q >= n BY <1>3, <1>4
  <2> QED BY <1>3, <2>1
<1>5. CASE q <= 0
  <2>1. n * q <= 0 BY <1>3, <1>5
  <2> QED BY <1>3, <2>1
<1> QED BY <1>3, <1>4, <1>5

\* How many bytes are in the pipe.
Count == (nwrite - nread) % WRAP

\* The counters differ by the number of bytes, round the end of their width.
LEMMA CountIs ==
  ASSUME NEW x \in 0 .. (WRAP - 1), NEW y \in 0 .. (WRAP - 1)
  PROVE  /\ (y - x) % WRAP \in 0 .. (WRAP - 1)
         /\ x + ((y - x) % WRAP) \in {y, y + WRAP}
         /\ \A m \in 0 .. (WRAP - 1) : x + m \in {y, y + WRAP} => (y - x) % WRAP = m
<1> DEFINE n == (y - x) % WRAP
<1>1. WRAP \in Nat \ {0} BY PipeAssumption
<1>2. y - x \in Int /\ y - x > -WRAP /\ y - x < WRAP BY <1>1
<1>3. n \in 0 .. (WRAP - 1) BY Zenon, <1>1, <1>2, DivMod
<1>4. ASSUME NEW m \in 0 .. (WRAP - 1), x + m \in {y, y + WRAP} PROVE n = m
  <2>1. CASE x + m = y
    <3>1. y - x = WRAP * 0 + m BY <2>1, <1>1
    <3> QED BY <1>1, <1>2, <3>1, ModIs
  <2>2. CASE x + m = y + WRAP
    <3>1. y - x = WRAP * (-1) + m BY <2>2, <1>1
    <3> QED BY <1>1, <1>2, <3>1, ModIs
  <2> QED BY Zenon, <1>4, <2>1, <2>2
<1>5. x + n \in {y, y + WRAP}
  <2>1. CASE y >= x
    <3>1. y - x \in 0 .. (WRAP - 1) /\ x + (y - x) = y BY <2>1, <1>1
    <3>2. n = y - x BY Zenon, <3>1, <1>4
    <3> QED BY Zenon, <3>1, <3>2
  <2>2. CASE y < x
    <3>1. y - x + WRAP \in 0 .. (WRAP - 1) /\ x + (y - x + WRAP) = y + WRAP BY <2>2, <1>1
    <3>2. n = y - x + WRAP BY Zenon, <3>1, <1>4
    <3> QED BY Zenon, <3>1, <3>2
  <2> QED BY <2>1, <2>2
<1> QED BY Zenon, <1>3, <1>4, <1>5

\* The next value of a counter.
LEMMA NextCount ==
  ASSUME NEW x \in 0 .. (WRAP - 1)
  PROVE  /\ (x + 1) % WRAP \in 0 .. (WRAP - 1)
         /\ (x + 1) % WRAP = x + 1 \/ (x + 1 = WRAP /\ (x + 1) % WRAP = 0)
<1>1. WRAP \in Nat \ {0} BY PipeAssumption
<1>2. CASE x + 1 < WRAP
  <2>1. x + 1 = WRAP * 0 + (x + 1) /\ x + 1 \in 0 .. (WRAP - 1) BY <1>1, <1>2
  <2>2. (x + 1) % WRAP = x + 1 BY <1>1, <2>1, ModIs
  <2> QED BY Zenon, <2>1, <2>2
<1>3. CASE x + 1 = WRAP
  <2>1. x + 1 = WRAP * 1 + 0 /\ 0 \in 0 .. (WRAP - 1) BY <1>1, <1>3
  <2>2. (x + 1) % WRAP = 0 BY <1>1, <1>3, <2>1, ModIs
  <2> QED BY Zenon, <1>3, <2>1, <2>2
<1> QED BY <1>1, <1>2, <1>3

\* A counter and its value WRAP further on have the same place in the ring.
LEMMA SamePlace ==
  ASSUME NEW x \in Int PROVE (x + WRAP) % PIPESIZE = x % PIPESIZE
<1>1. PIPESIZE \in Nat \ {0} /\ WRAP \in Int BY PipeAssumption
<1>2. WRAP = PIPESIZE * (WRAP \div PIPESIZE) + (WRAP % PIPESIZE) /\ WRAP \div PIPESIZE \in Int
  BY Zenon, <1>1, DivMod
<1>3. WRAP = PIPESIZE * (WRAP \div PIPESIZE) BY <1>1, <1>2, PipeAssumption
<1> QED BY Zenon, <1>1, <1>2, <1>3, ModShift

\* The buffer never holds more than PIPESIZE bytes.
RingInv == Count <= PIPESIZE

\* What Full and Empty test.
LEMMA FullEmpty ==
  ASSUME TypeOK, RingInv
  PROVE  /\ Count \in 0..PIPESIZE
         /\ Full <=> Count = PIPESIZE
         /\ Empty <=> Count = 0
<1>1. /\ nread \in 0 .. (WRAP - 1) /\ nwrite \in 0 .. (WRAP - 1)
      /\ PIPESIZE \in Nat \ {0} /\ WRAP \in Nat \ {0} /\ PIPESIZE < WRAP
  BY PipeAssumption DEF TypeOK
<1>2. /\ Count \in 0 .. (WRAP - 1) /\ nread + Count \in {nwrite, nwrite + WRAP}
      /\ \A m \in 0 .. (WRAP - 1) : nread + m \in {nwrite, nwrite + WRAP} => Count = m
  BY Zenon, <1>1, CountIs DEF Count
<1>3. Count \in 0..PIPESIZE BY <1>1, <1>2 DEF RingInv
<1>4. Empty <=> Count = 0 BY <1>1, <1>2 DEF Empty
<1>5. CASE nread + PIPESIZE < WRAP
  <2>1. nread + PIPESIZE = WRAP * 0 + (nread + PIPESIZE) BY <1>1
  <2>2. (nread + PIPESIZE) % WRAP = nread + PIPESIZE
    BY <1>1, <1>5, <2>1, ModIs
  <2> QED BY <1>1, <1>2, <1>3, <1>4, <1>5, <2>2 DEF Full
<1>6. CASE nread + PIPESIZE >= WRAP
  <2>1. /\ nread + PIPESIZE = WRAP * 1 + (nread + PIPESIZE - WRAP)
        /\ nread + PIPESIZE - WRAP \in 0 .. (WRAP - 1)
    BY <1>1, <1>6
  <2>2. (nread + PIPESIZE) % WRAP = nread + PIPESIZE - WRAP
    BY <1>1, <2>1, ModIs
  <2> QED BY <1>1, <1>2, <1>3, <1>4, <1>6, <2>2 DEF Full
<1> QED BY <1>1, <1>5, <1>6

\* The bytes in the pipe, while there is one.
LEMMA ContentsIs ==
  ASSUME TypeOK, RingInv, page = 1
  PROVE  /\ Contents \in Seq(Byte) /\ Len(Contents) = Count
         /\ \A i \in 1..Count : Contents[i] = data[(nread + i - 1) % PIPESIZE]
<1>1. /\ Count \in Nat /\ nread \in Int /\ PIPESIZE \in Nat \ {0}
      /\ data \in [0 .. (PIPESIZE - 1) -> Byte]
  BY FullEmpty, PipeAssumption DEF TypeOK
<1>2. \A i \in 1..Count : (nread + i - 1) % PIPESIZE \in 0 .. (PIPESIZE - 1)
  <2> SUFFICES ASSUME NEW i \in 1..Count
               PROVE  (nread + i - 1) % PIPESIZE \in 0 .. (PIPESIZE - 1)
    BY Zenon
  <2>1. nread + i - 1 \in Int BY <1>1
  <2> QED BY Zenon, <1>1, <2>1, DivMod
<1>3. Contents = [i \in 1..Count |-> data[(nread + i - 1) % PIPESIZE]]
  BY DEF Contents, Count
<1>4. Contents \in [1..Count -> Byte] BY Zenon, <1>1, <1>2, <1>3
<1>5. Contents \in Seq(Byte) /\ Len(Contents) = Count BY <1>1, <1>4
<1> QED BY Zenon, <1>3, <1>5

\* Two sequences with the same bytes are the same.
LEMMA SameBytes ==
  ASSUME NEW S, NEW s \in Seq(S), NEW t \in Seq(S), Len(s) = Len(t),
         \A i \in 1..Len(s) : s[i] = t[i]
  PROVE  s = t
OBVIOUS

\* Who is inside a call has a pipe.
LEMMA Inside ==
  ASSUME IInv, NEW p \in Proc, pc[p] \in Writing \cup Reading PROVE page = 1
<1>1. \E e \in End : e \in ends[p] BY Zenon DEF IInv, HoldInv, End
<1>2. \E e \in End : Holders(e) # {} BY Zenon, <1>1 DEF Holders
<1>3. \E e \in End : open[e] = 1 BY Zenon, <1>2 DEF IInv, OpenInv
<1> QED BY Zenon, <1>3 DEF IInv, OpenInv

\* The place of the next byte to be written is the one after the last byte in
\* the pipe, and a place of its own.
LEMMA WritePlace ==
  ASSUME TypeOK, RingInv
  PROVE  /\ nwrite % PIPESIZE \in 0 .. (PIPESIZE - 1)
         /\ (nread + Count) % PIPESIZE = nwrite % PIPESIZE
         /\ Count < PIPESIZE =>
              \A i \in 1..Count : (nread + i - 1) % PIPESIZE # nwrite % PIPESIZE
<1>1. /\ PIPESIZE \in Nat \ {0} /\ WRAP \in Int /\ Count \in 0..PIPESIZE
      /\ nread \in 0 .. (WRAP - 1) /\ nwrite \in 0 .. (WRAP - 1)
  BY FullEmpty, PipeAssumption DEF TypeOK
<1>2. nread + Count \in {nwrite, nwrite + WRAP} BY Zenon, <1>1, CountIs DEF Count
<1>3. nwrite \in Int /\ nread \in Int BY <1>1
<1>4. nwrite % PIPESIZE \in 0 .. (PIPESIZE - 1) BY Zenon, <1>1, <1>3, DivMod
<1>5. (nread + Count) % PIPESIZE = nwrite % PIPESIZE BY Zenon, <1>2, <1>3, SamePlace
<1>6. ASSUME Count < PIPESIZE, NEW i \in 1..Count
      PROVE  (nread + i - 1) % PIPESIZE # (nread + Count) % PIPESIZE
  <2>1. /\ nread + i - 1 \in Int /\ nread + Count \in Int
        /\ nread + i - 1 < nread + Count /\ nread + Count < (nread + i - 1) + PIPESIZE
    BY <1>1, <1>3, <1>6
  <2> QED BY Zenon, <1>1, <2>1, ModDiffers
<1> QED BY Zenon, <1>4, <1>5, <1>6

\* A byte that is written goes to the end of the queue.
LEMMA WriteByteQueue ==
  ASSUME IInv, RingInv, NEW p \in Proc, NEW b \in Byte, WriteByte(p, b), TypeOK'
  PROVE  RingInv' /\ Queue!FPut(b)
<1>1. /\ pc[p] = "pipewrite" /\ ~Full
      /\ data' = [data EXCEPT ![nwrite % PIPESIZE] = b]
      /\ nwrite' = (nwrite + 1) % WRAP
      /\ UNCHANGED <<page, nread>>
  BY Zenon DEF WriteByte
<1>2. TypeOK /\ page = 1 BY Zenon, <1>1, Inside DEF IInv, Writing
<1>3. /\ PIPESIZE \in Nat \ {0} /\ WRAP \in Nat \ {0} /\ PIPESIZE < WRAP
      /\ nread \in 0 .. (WRAP - 1) /\ nwrite \in 0 .. (WRAP - 1)
      /\ data \in [0 .. (PIPESIZE - 1) -> Byte]
  BY <1>2, PipeAssumption DEF TypeOK
<1>4. Count \in Nat /\ Count < PIPESIZE BY <1>1, <1>2, <1>3, FullEmpty
<1>5. Count' = Count + 1
  <2>1. nread + Count \in {nwrite, nwrite + WRAP} BY Zenon, <1>3, CountIs DEF Count
  <2>2. /\ nwrite' \in 0 .. (WRAP - 1)
        /\ nwrite' = nwrite + 1 \/ (nwrite + 1 = WRAP /\ nwrite' = 0)
    BY Zenon, <1>1, <1>3, NextCount
  <2>3. nread + Count < WRAP + (WRAP - 1) BY <1>3, <1>4
  <2>4. Count + 1 \in 0 .. (WRAP - 1) BY <1>3, <1>4
  <2>5. nread + (Count + 1) \in {nwrite', nwrite' + WRAP}
    <3>1. CASE nwrite' = nwrite + 1 BY <3>1, <1>3, <1>4, <2>1
    <3>2. CASE nwrite + 1 = WRAP /\ nwrite' = 0 BY <3>2, <1>3, <1>4, <2>1, <2>3
    <3> QED BY Zenon, <2>2, <3>1, <3>2
  <2>6. (nwrite' - nread) % WRAP = Count + 1 BY Zenon, <1>3, <2>2, <2>4, <2>5, CountIs
  <2> QED BY Zenon, <1>1, <2>6 DEF Count
<1>6. RingInv' BY <1>3, <1>4, <1>5 DEF RingInv
<1>7. /\ Contents \in Seq(Byte) /\ Len(Contents) = Count
      /\ \A i \in 1..Count : Contents[i] = data[(nread + i - 1) % PIPESIZE]
  BY Zenon, <1>2, ContentsIs
<1>8. /\ Contents' \in Seq(Byte) /\ Len(Contents') = Count'
      /\ \A i \in 1..Count' : Contents'[i] = data'[(nread' + i - 1) % PIPESIZE]
  <2>1. TypeOK' /\ RingInv' /\ page' = 1 BY Zenon, <1>1, <1>2, <1>6
  <2>2. (TypeOK /\ RingInv /\ page = 1 => /\ Contents \in Seq(Byte) /\ Len(Contents) = Count
          /\ \A i \in 1..Count : Contents[i] = data[(nread + i - 1) % PIPESIZE])'
    BY ContentsIs, PTL
  <2> QED BY Zenon, <2>1, <2>2
<1>9. ASSUME NEW i \in 1..Count + 1 PROVE Contents'[i] = Append(Contents, b)[i]
  <2>1. Contents'[i] = data'[(nread + i - 1) % PIPESIZE] BY Zenon, <1>1, <1>5, <1>8
  <2>2. /\ nwrite % PIPESIZE \in 0 .. (PIPESIZE - 1)
        /\ (nread + Count) % PIPESIZE = nwrite % PIPESIZE
        /\ \A j \in 1..Count : (nread + j - 1) % PIPESIZE # nwrite % PIPESIZE
    BY Zenon, <1>2, <1>4, WritePlace
  <2>3. CASE i = Count + 1
    <3>1. nread + i - 1 = nread + Count BY <2>3, <1>3, <1>4
    <3>2. data'[nwrite % PIPESIZE] = b BY Zenon, <1>1, <1>3, <2>2
    <3>3. Append(Contents, b)[i] = b BY <2>3, <1>4, <1>7
    <3> QED BY Zenon, <2>1, <2>2, <3>1, <3>2, <3>3
  <2>4. CASE i \in 1..Count
    <3>1. (nread + i - 1) % PIPESIZE \in 0 .. (PIPESIZE - 1)
      <4>1. nread + i - 1 \in Int BY <1>3, <2>4
      <4> QED BY Zenon, <1>3, <4>1, DivMod
    <3>2. data'[(nread + i - 1) % PIPESIZE] = data[(nread + i - 1) % PIPESIZE]
      BY Zenon, <1>1, <1>3, <2>2, <2>4, <3>1
    <3>3. Append(Contents, b)[i] = Contents[i] BY <2>4, <1>4, <1>7
    <3>4. Contents[i] = data[(nread + i - 1) % PIPESIZE] BY Zenon, <2>4, <1>7
    <3> QED BY Zenon, <2>1, <3>2, <3>3, <3>4
  <2>5. i = Count + 1 \/ i \in 1..Count BY <1>4
  <2> QED BY Zenon, <2>3, <2>4, <2>5
<1>10. Contents' = Append(Contents, b)
  <2>1. Append(Contents, b) \in Seq(Byte) /\ Len(Append(Contents, b)) = Count + 1
    BY <1>7
  <2> QED BY Zenon, <1>5, <1>8, <1>9, <2>1, SameBytes
<1> QED BY Zenon, <1>1, <1>2, <1>4, <1>6, <1>7, <1>10 DEF Queue!FPut

\* A byte that is read comes from the head of the queue.
LEMMA ReadByteQueue ==
  ASSUME IInv, RingInv, NEW p \in Proc, ReadByte(p), TypeOK'
  PROVE  RingInv' /\ Queue!FGet
<1>1. /\ pc[p] = "copy" /\ ~Empty
      /\ nread' = (nread + 1) % WRAP
      /\ UNCHANGED <<page, data, nwrite>>
  BY Zenon DEF ReadByte
<1>2. TypeOK /\ page = 1 BY Zenon, <1>1, Inside DEF IInv, Reading
<1>3. /\ PIPESIZE \in Nat \ {0} /\ WRAP \in Nat \ {0} /\ PIPESIZE < WRAP
      /\ nread \in 0 .. (WRAP - 1) /\ nwrite \in 0 .. (WRAP - 1)
  BY <1>2, PipeAssumption DEF TypeOK
<1>4. Count \in 1..PIPESIZE BY <1>1, <1>2, <1>3, FullEmpty
<1>5. /\ nread' \in 0 .. (WRAP - 1)
      /\ nread' = nread + 1 \/ (nread + 1 = WRAP /\ nread' = 0)
  BY Zenon, <1>1, <1>3, NextCount
<1>6. Count' = Count - 1
  <2>1. nread + Count \in {nwrite, nwrite + WRAP} BY Zenon, <1>3, CountIs DEF Count
  <2>2. Count - 1 \in 0 .. (WRAP - 1) BY <1>3, <1>4
  <2>3. nread' + (Count - 1) \in {nwrite, nwrite + WRAP}
    <3>1. CASE nread' = nread + 1 BY <3>1, <1>3, <1>4, <2>1
    <3>2. CASE nread + 1 = WRAP /\ nread' = 0 BY <3>2, <1>3, <1>4, <2>1
    <3> QED BY Zenon, <1>5, <3>1, <3>2
  <2>4. (nwrite - nread') % WRAP = Count - 1 BY Zenon, <1>3, <1>5, <2>2, <2>3, CountIs
  <2> QED BY Zenon, <1>1, <2>4 DEF Count
<1>7. RingInv' BY <1>3, <1>4, <1>6 DEF RingInv
<1>8. /\ Contents \in Seq(Byte) /\ Len(Contents) = Count
      /\ \A i \in 1..Count : Contents[i] = data[(nread + i - 1) % PIPESIZE]
  BY Zenon, <1>2, ContentsIs
<1>9. /\ Contents' \in Seq(Byte) /\ Len(Contents') = Count'
      /\ \A i \in 1..Count' : Contents'[i] = data'[(nread' + i - 1) % PIPESIZE]
  <2>1. TypeOK' /\ RingInv' /\ page' = 1 BY Zenon, <1>1, <1>2, <1>7
  <2>2. (TypeOK /\ RingInv /\ page = 1 => /\ Contents \in Seq(Byte) /\ Len(Contents) = Count
          /\ \A i \in 1..Count : Contents[i] = data[(nread + i - 1) % PIPESIZE])'
    BY ContentsIs, PTL
  <2> QED BY Zenon, <2>1, <2>2
<1>10. ASSUME NEW i \in 1 .. (Count - 1) PROVE Contents'[i] = Tail(Contents)[i]
  <2>1. Contents'[i] = data[(nread' + i - 1) % PIPESIZE] BY Zenon, <1>1, <1>6, <1>9
  <2>2. (nread' + i - 1) % PIPESIZE = (nread + i) % PIPESIZE
    <3>1. CASE nread' = nread + 1
      <4>1. nread' + i - 1 = nread + i BY <3>1, <1>3
      <4> QED BY Zenon, <4>1
    <3>2. CASE nread + 1 = WRAP /\ nread' = 0
      <4>1. (nread' + i - 1) + WRAP = nread + i /\ nread' + i - 1 \in Int BY <3>2, <1>3
      <4> QED BY Zenon, <4>1, SamePlace
    <3> QED BY Zenon, <1>5, <3>1, <3>2
  <2>3. i + 1 \in 1..Count /\ nread + (i + 1) - 1 = nread + i BY <1>3, <1>4
  <2>4. Contents[i + 1] = data[(nread + (i + 1) - 1) % PIPESIZE] BY Zenon, <1>8, <2>3
  <2>5. Tail(Contents)[i] = Contents[i + 1] BY <1>4, <1>8
  <2> QED BY Zenon, <2>1, <2>2, <2>3, <2>4, <2>5
<1>11. Contents # <<>> /\ Contents' = Tail(Contents)
  <2>1. /\ Contents # <<>> /\ Tail(Contents) \in Seq(Byte)
        /\ Len(Tail(Contents)) = Count - 1
    BY <1>4, <1>8
  <2> QED BY Zenon, <1>6, <1>9, <1>10, <2>1, SameBytes
<1> QED BY Zenon, <1>1, <1>2, <1>7, <1>11 DEF Queue!FGet

\* pipealloc() makes an empty queue.
LEMMA PipeallocQueue ==
  ASSUME IInv, NEW p \in Proc, Pipealloc(p)
  PROVE  RingInv' /\ Queue!FAlloc
<1>1. page = 0 /\ page' = 1 /\ nread' = 0 /\ nwrite' = 0 BY Zenon DEF Pipealloc
<1>2. WRAP \in Nat \ {0} /\ PIPESIZE \in Nat BY PipeAssumption
<1>3. Count' = 0
  <2>1. nwrite' - nread' = WRAP * 0 + 0 /\ 0 \in 0 .. (WRAP - 1) BY <1>1, <1>2
  <2>2. (nwrite' - nread') % WRAP = 0 BY <1>1, <1>2, <2>1, ModIs
  <2> QED BY Zenon, <2>2 DEF Count
<1>4. RingInv' BY <1>2, <1>3 DEF RingInv
<1>5. Contents' = <<>>
  <2>1. Contents' = [i \in 1..Count' |-> data'[(nread' + i - 1) % PIPESIZE]]
    BY <1>1 DEF Contents, Count
  <2> QED BY <1>3, <2>1
<1> QED BY Zenon, <1>1, <1>4, <1>5 DEF Queue!FAlloc

\* The other steps leave the bytes alone, up to the kfree() of the page.
LEMMA NextQueue ==
  ASSUME IInv, RingInv, [Next]_vars, TypeOK'
  PROVE  RingInv' /\ [Queue!FNext]_<<Contents, page>>
<1>1. CASE UNCHANGED <<page, data, nread, nwrite>>
  BY Zenon, <1>1 DEF RingInv, Count, Contents
<1>2. ASSUME NEW p \in Proc, Step(p) PROVE RingInv' /\ [Queue!FNext]_<<Contents, page>>
  <2>1. ASSUME NEW b \in Byte, WriteByte(p, b) PROVE RingInv' /\ Queue!FNext
    BY Zenon, <2>1, WriteByteQueue DEF Queue!FNext
  <2>2. CASE ReadByte(p) BY Zenon, <2>2, ReadByteQueue DEF Queue!FNext
  <2>3. CASE Pipealloc(p) BY Zenon, <2>3, PipeallocQueue DEF Queue!FNext
  <2>4. CASE Kfree(p)
    <3>1. /\ pc[p] = "kfree" /\ page' = 0 /\ UNCHANGED <<nread, nwrite>> BY Zenon, <2>4 DEF Kfree
    <3>2. page = 1 BY Zenon, <3>1 DEF IInv, OpenInv
    <3>3. RingInv' BY Zenon, <3>1 DEF RingInv, Count
    <3> QED BY Zenon, <3>1, <3>2, <3>3 DEF Queue!FNext, Queue!FFree, Contents
  <2>5. CASE \/ \E e \in End : Pipeclose(p, e) \/ Fileclose(p, e)
             \/ WriteFull(p) \/ WriteDone(p) \/ ReadWait(p) \/ ReadDone(p)
             \/ Sleep(p) \/ Reacquire(p) \/ (\E q \in Proc : Fork(p, q)) \/ Kill(p)
             \/ \E n \in 0..MaxCount : SysWrite(p, n) \/ SysRead(p, n)
    <3>1. UNCHANGED <<page, data, nread, nwrite>>
      BY Zenon, <2>5 DEF Pipeclose, Fileclose, WriteFull, WriteDone, ReadWait, ReadDone, Sleep,
                  Reacquire, Fork, Kill, SysWrite, SysRead, pipe
    <3> QED BY Zenon, <1>1, <3>1
  <2> QED BY Zenon, <1>2, <2>1, <2>2, <2>3, <2>4, <2>5 DEF Step, Continue
<1>3. CASE UNCHANGED vars BY Zenon, <1>1, <1>3 DEF vars, pipe
<1> QED BY Zenon, <1>2, <1>3 DEF Next

\* Before there is a pipe the queue is empty.
LEMMA InitQueue == Init => RingInv /\ Queue!FInit
<1> SUFFICES ASSUME Init PROVE RingInv /\ Queue!FInit BY Zenon
<1>1. WRAP \in Nat \ {0} /\ PIPESIZE \in Nat BY PipeAssumption
<1>2. nwrite - nread = WRAP * 0 + 0 /\ 0 \in 0 .. (WRAP - 1) /\ nwrite - nread \in Int
  BY <1>1 DEF Init
<1>3. (nwrite - nread) % WRAP = 0 BY <1>1, <1>2, ModIs
<1> QED BY <1>1, <1>3 DEF Init, RingInv, Count, Contents, Queue!FInit

\* The ring buffer of pipe.c, with counters that wrap round, is a bounded queue
\* of bytes: piperead() takes out what pipewrite() has put in, once and in
\* order, for every size of the buffer and any number of readers and writers.
THEOREM PipeIsFifo == Spec => FifoOrder
<1>1. Init => RingInv /\ Queue!FInit BY Zenon, InitQueue
<1>2. IInv /\ IInv' /\ RingInv /\ [Next]_vars => RingInv' /\ [Queue!FNext]_<<Contents, page>>
  BY Zenon, NextQueue DEF IInv
<1> QED BY <1>1, <1>2, Invariance, PTL DEF Spec, FifoOrder, Queue!FSpec, Queue!fvars
=============================================================================
