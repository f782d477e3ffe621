------------------------------- MODULE Inode --------------------------------
(***************************************************************************)
(* Inodes and directories: the inode cache, the inodes on the disk and     *)
(* the walk along a path, of kernel/fs.c.                                  *)
(*                                                                         *)
(* A process inside a call has a list of things it still has to do,        *)
(* code[p]; the first one is its next step, and a routine that it calls,   *)
(* such as namex() or iput(), is put in front.  A step goes from one point *)
(* where another process can come in to the next: it takes at most one     *)
(* sleep lock, and reads or writes ip->ref or an inode on the disk once.   *)
(* iget() looks for an inode and makes its entry under one spin lock, so   *)
(* an entry of the cache goes by the number of its inode.                  *)
(***************************************************************************)
EXTENDS Integers, Sequences, FiniteSets, SequencesExt

CONSTANTS
  Proc,
  ninodes,    \* sb.ninodes: inodes are numbered from 1 below it
  NINODE,     \* entries of the cache
  Name,       \* names in directories, "." and ".." apart
  Nobody

Inum == 1 .. (ninodes - 1)
ROOTINO == 1
Entry == Name \cup {".", ".."}

VARIABLES
  dinode,   \* on disk: type and nlink of each inode
  dirent,   \* on disk: the entries of each directory; inum 0 is a free entry
  inode,    \* the cache: ref, valid, lock, and the copies of type and nlink
  code,     \* what a process has still to do in its call
  cwd,
  panic

disk == <<dinode, dirent>>

Empty == [n \in Entry |-> 0]
Free == [type |-> "free", nlink |-> 0]
NoEntry == [ref |-> 0, valid |-> FALSE, lock |-> Nobody, type |-> "free", nlink |-> 0]

\* A disk as mkfs makes it, with the root directory only.  Every process has
\* the root as its current directory.
IInit ==
  /\ dinode = [i \in Inum |-> IF i = ROOTINO THEN [type |-> "dir", nlink |-> 1] ELSE Free]
  /\ dirent = [i \in Inum |-> IF i = ROOTINO
                                THEN [Empty EXCEPT !["."] = i, ![".."] = i] ELSE Empty]
  /\ inode = [i \in Inum |-> IF i = ROOTINO THEN [NoEntry EXCEPT !.ref = Cardinality(Proc)]
                              ELSE NoEntry]
  /\ code = [p \in Proc |-> <<>>]
  /\ cwd = [p \in Proc |-> ROOTINO]
  /\ panic = FALSE

-----------------------------------------------------------------------------
(* Steps of the cache, as functions from the cache to the cache            *)

\* iget(i); an entry that was free is not valid.
Iget(c, i) ==
  [c EXCEPT ![i] = IF @.ref = 0 THEN [NoEntry EXCEPT !.ref = 1] ELSE [@ EXCEPT !.ref = @ + 1]]

Full(c, i) == c[i].ref = 0 /\ Cardinality({j \in Inum : c[j].ref > 0}) = NINODE

\* ilock(i) when the lock is free: read the inode from the disk if necessary.
Ilock(c, i, p) ==
  [c EXCEPT ![i] = IF @.valid THEN [@ EXCEPT !.lock = p]
                   ELSE [@ EXCEPT !.lock = p, !.valid = TRUE,
                                  !.type = dinode[i].type, !.nlink = dinode[i].nlink]]

Iunlock(c, i) == [c EXCEPT ![i].lock = Nobody]

\* The cached copy and the disk after ip->nlink = n and iupdate(ip).
SetNlink(c, i, n) == [c EXCEPT ![i].nlink = n]
Iupdate(d, c, i) == [d EXCEPT ![i] = [type |-> c[i].type, nlink |-> c[i].nlink]]

Unlocked(i) == inode[i].lock = Nobody

\* ilock() finds an inode that is free on the disk.
NoType(i) == ~inode[i].valid /\ dinode[i].type = "free"

Panic == panic' = TRUE /\ UNCHANGED <<disk, inode, code, cwd>>

Op(p) == IF code[p] = <<>> THEN "none" ELSE Head(code[p])[1]
Arg(p) == Tail(Head(code[p]))
Then(p, steps) == code' = [code EXCEPT ![p] = steps \o Tail(@)]

\* A routine returns i: the step that called it is next, with i at its end.
Return(p, steps, i) ==
  code' = [code EXCEPT ![p] = steps \o <<Append(@[2], i)>> \o SubSeq(@, 3, Len(@))]
Ret(p) == Last(Arg(p))

-----------------------------------------------------------------------------
(* iput                                                                    *)

\* Faulty variant: the references are not looked at.
IputUncounted(p) ==
  /\ Op(p) = "iput"
  /\ LET i == Arg(p)[1] IN
     /\ Unlocked(i)
     /\ IF inode[i].valid /\ inode[i].nlink = 0
          THEN inode' = [inode EXCEPT ![i].lock = p] /\ Then(p, <<<<"ifree", i>>>>)
          ELSE Then(p, <<<<"idrop", i>>>>) /\ UNCHANGED inode
  /\ UNCHANGED <<disk, cwd, panic>>

\* iput(ip) up to the test of r == 1, under the inode's lock.
Iput(p) ==
  /\ Op(p) = "iput"
  /\ LET i == Arg(p)[1] IN
     /\ Unlocked(i)
     /\ IF inode[i].valid /\ inode[i].nlink = 0 /\ inode[i].ref = 1
          THEN inode' = [inode EXCEPT ![i].lock = p] /\ Then(p, <<<<"ifree", i>>>>)
          ELSE Then(p, <<<<"idrop", i>>>>) /\ UNCHANGED inode
  /\ UNCHANGED <<disk, cwd, panic>>

\* Faulty variant: the entry stays valid.
IfreeValid(p) ==
  /\ Op(p) = "ifree"
  /\ LET i == Arg(p)[1] IN
     /\ dinode' = [dinode EXCEPT ![i].type = "free"]
     /\ dirent' = [dirent EXCEPT ![i] = Empty]
     /\ inode' = Iunlock([inode EXCEPT ![i].type = "free"], i)
     /\ Then(p, <<<<"idrop", i>>>>)
  /\ UNCHANGED <<cwd, panic>>

\* The last reference to an inode without links: itrunc(), type = 0,
\* iupdate(), valid = 0, and the lock is released.
Ifree(p) ==
  /\ Op(p) = "ifree"
  /\ LET i == Arg(p)[1] IN
     /\ dinode' = [dinode EXCEPT ![i].type = "free"]
     /\ dirent' = [dirent EXCEPT ![i] = Empty]
     /\ inode' = Iunlock([inode EXCEPT ![i].type = "free", ![i].valid = FALSE], i)
     /\ Then(p, <<<<"idrop", i>>>>)
  /\ UNCHANGED <<cwd, panic>>

\* The end of iput(): ip->ref-- under icache.lock.  What an entry without
\* references holds is of no use: iget() resets it.
Idrop(p) ==
  /\ Op(p) = "idrop"
  /\ inode' = [inode EXCEPT ![Arg(p)[1]] = IF @.ref = 1 THEN NoEntry ELSE [@ EXCEPT !.ref = @ - 1]]
  /\ Then(p, <<>>)
  /\ UNCHANGED <<disk, cwd, panic>>

-----------------------------------------------------------------------------
(* namex                                                                   *)

\* The first step of namex(): from the root or from the current directory.
\* What follows in code is entered with the result.
Start(p, path) == IF path.abs THEN ROOTINO ELSE cwd[p]
Lookup(p, path, parent) == <<"namex", Start(p, path), path.elems, parent>>

\* One turn of the loop of namex(): lock the directory, look the name up, and
\* give the directory back.
Namex(p) ==
  /\ Op(p) = "namex"
  /\ LET i == Arg(p)[1]
         path == Arg(p)[2]
         parent == Arg(p)[3]
         c == Iunlock(Ilock(inode, i, p), i)
         next == dirent[i][Head(path)]
     IN \/ /\ path = <<>>
           /\ IF parent THEN Return(p, <<<<"iput", i>>>>, 0)
              ELSE Return(p, <<>>, i)
           /\ UNCHANGED <<disk, inode, cwd, panic>>
        \/ path # <<>> /\ Unlocked(i) /\ NoType(i) /\ Panic
        \/ /\ path # <<>> /\ Unlocked(i) /\ ~NoType(i)
           /\ \/ /\ c[i].type # "dir"
                 /\ Return(p, <<<<"iput", i>>>>, 0)
                 /\ inode' = c /\ UNCHANGED panic
              \/ /\ c[i].type = "dir" /\ parent /\ Len(path) = 1
                 /\ Return(p, <<>>, i)
                 /\ inode' = c /\ UNCHANGED panic
              \/ /\ c[i].type = "dir" /\ ~(parent /\ Len(path) = 1)
                 /\ IF next = 0
                      THEN /\ Return(p, <<<<"iput", i>>>>, 0)
                           /\ inode' = c /\ UNCHANGED panic
                      ELSE /\ Then(p, <<<<"iput", i>>, <<"namex", next, Tail(path), parent>>>>)
                           /\ inode' = Iget(c, next)
                           /\ panic' = (panic \/ Full(c, next))
           /\ UNCHANGED <<disk, cwd>>
=============================================================================
