----------------------------- MODULE ByteFiles ------------------------------
(***************************************************************************)
(* What the storage of file contents promises: a file is a sequence of     *)
(* bytes that a write overwrites or extends from within, that is emptied   *)
(* when it is removed, and that a crash takes back to what it was at some  *)
(* earlier commit, for all files at once.                                  *)
(***************************************************************************)
EXTENDS Integers, Sequences

CONSTANTS Ino, Byte, MAXSIZE

VARIABLES bytes, durable

bvars == <<bytes, durable>>

BInit == bytes = [i \in Ino |-> <<>>] /\ durable = bytes

Overwritten(s, off, src) ==
  [k \in 1 .. (IF off + Len(src) > Len(s) THEN off + Len(src) ELSE Len(s)) |->
     IF k > off /\ k <= off + Len(src) THEN src[k - off] ELSE s[k]]

Write(i) ==
  \E off \in 0..Len(bytes[i]), n \in 1..MAXSIZE, c \in Byte :
    /\ off + n <= MAXSIZE
    /\ bytes' = [bytes EXCEPT ![i] = Overwritten(@, off, [k \in 1..n |-> c])]
    /\ UNCHANGED durable

Remove(i) == bytes' = [bytes EXCEPT ![i] = <<>>] /\ UNCHANGED durable

Commit == durable' = bytes /\ UNCHANGED bytes

Crash == bytes' = durable /\ UNCHANGED durable

BNext == Commit \/ Crash \/ \E i \in Ino : Write(i) \/ Remove(i)

BSpec == BInit /\ [][BNext]_bvars
=============================================================================
