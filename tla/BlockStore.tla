----------------------------- MODULE BlockStore -----------------------------
(***************************************************************************)
(* What the buffer cache promises: every disk block has one current value, *)
(* and only the process that holds the block may change it.                *)
(***************************************************************************)
CONSTANTS Proc, Block, Val, Nobody

VARIABLES
  store,    \* the current value of each block
  holder    \* who holds the block, or Nobody

svars == <<store, holder>>

SInit ==
  /\ store \in [Block -> Val]
  /\ holder = [k \in Block |-> Nobody]

\* bread() returns: the block was free and is what it was.
Get(p, k) ==
  /\ holder[k] = Nobody
  /\ holder' = [holder EXCEPT ![k] = p]
  /\ UNCHANGED store

\* The holder changes the block.
Put(p, k, v) ==
  /\ holder[k] = p
  /\ store' = [store EXCEPT ![k] = v]
  /\ UNCHANGED holder

\* brelse()
Release(p, k) ==
  /\ holder[k] = p
  /\ holder' = [holder EXCEPT ![k] = Nobody]
  /\ UNCHANGED store

SNext ==
  \E p \in Proc, k \in Block :
    Get(p, k) \/ Release(p, k) \/ \E v \in Val : Put(p, k, v)

SSpec == SInit /\ [][SNext]_svars
=============================================================================
