-------------------------------- MODULE Fifo --------------------------------
(***************************************************************************)
(* What a pipe promises: a bounded queue of bytes.  Every byte comes out   *)
(* once, in the order in which the bytes went in.                          *)
(***************************************************************************)
EXTENDS Naturals, Sequences

CONSTANTS Byte, Size

VARIABLES queue, live

fvars == <<queue, live>>

FInit == queue = <<>> /\ live = 0

\* One byte of a write.
FPut(b) == live = 1 /\ Len(queue) < Size /\ queue' = Append(queue, b) /\ UNCHANGED live

\* One byte of a read.
FGet == live = 1 /\ queue # <<>> /\ queue' = Tail(queue) /\ UNCHANGED live

\* The pipe is made, and goes away with the bytes nobody has read.
FAlloc == live = 0 /\ live' = 1 /\ queue' = <<>>
FFree == live = 1 /\ live' = 0 /\ queue' = <<>>

FNext == (\E b \in Byte : FPut(b)) \/ FGet \/ FAlloc \/ FFree

FSpec == FInit /\ [][FNext]_fvars
=============================================================================
