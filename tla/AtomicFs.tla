------------------------------ MODULE AtomicFs ------------------------------
(***************************************************************************)
(* What the write-ahead log of kernel/log.c promises the file system.      *)
(*                                                                         *)
(* mem is the content of the disk blocks as file-system calls see it,      *)
(* durable the content a crash falls back to.  A call changes mem block by *)
(* block between its begin and its end, but durable only ever takes over   *)
(* the whole of mem, and only at a moment when no call is in progress: a   *)
(* crash keeps each call entirely or loses it entirely.                    *)
(***************************************************************************)

CONSTANTS Proc, Block, Val, Zero

VARIABLES
  mem,      \* block contents seen by system calls
  durable,  \* block contents that survive a crash
  active    \* processes between begin_op and end_op

avars == <<mem, durable, active>>

AInit ==
  /\ mem = [b \in Block |-> Zero]
  /\ durable = [b \in Block |-> Zero]
  /\ active = {}

ABegin(p) ==
  /\ p \notin active
  /\ active' = active \cup {p}
  /\ UNCHANGED <<mem, durable>>

AWrite(p, b, v) ==
  /\ p \in active
  /\ mem' = [mem EXCEPT ![b] = v]
  /\ UNCHANGED <<durable, active>>

AEnd(p) ==
  /\ p \in active
  /\ active' = active \ {p}
  /\ UNCHANGED <<mem, durable>>

ACommit ==
  /\ active = {}
  /\ durable' = mem
  /\ UNCHANGED <<mem, active>>

ACrash ==
  /\ mem' = durable
  /\ active' = {}
  /\ UNCHANGED durable

ANext ==
  \/ \E p \in Proc : ABegin(p) \/ AEnd(p)
  \/ \E p \in Proc, b \in Block, v \in Val : AWrite(p, b, v)
  \/ ACommit
  \/ ACrash

ASpec == AInit /\ [][ANext]_avars
=============================================================================
