------------------------------ MODULE Filedata ------------------------------
(***************************************************************************)
(* The contents of files: the block allocator, the block map of an inode,  *)
(* readi() and writei() of kernel/fs.c, and the loops of fileread() and    *)
(* filewrite() in kernel/file.c.                                           *)
(*                                                                         *)
(* A cell stands for a byte of data and for a block number of an indirect  *)
(* block alike; 0 is what bzero() leaves.  Routines are functions on a     *)
(* state s of the disk as the buffers and the log have it; s.r is what the *)
(* last of them returned.  An inode's lock and the buffer of the bitmap    *)
(* make writei() on one inode one step as seen from any other, so a step   *)
(* is one transaction of filewrite().  Module Log shows that transactions  *)
(* are atomic on the disk: commit copies s, and a crash returns to it.     *)
(***************************************************************************)
EXTENDS Integers, Sequences, FiniteSets, SequencesExt, FiniteSetsExt

CONSTANTS
  Proc, Ino, File,
  BSIZE,          \* cells of a block: bytes of data, or NINDIRECT addresses
  NDIRECT,
  FSSIZE,         \* sb.size: blocks are numbered from 0 below it
  Meta,           \* the blocks before the data, in use from the start
  BPB,            \* blocks that a block of the bitmap has the bits of
  MAXOPBLOCKS,
  Byte,
  Count           \* bound: what write() and read() are asked for

NINDIRECT == BSIZE
MAXFILE == NDIRECT + NINDIRECT
Block == 0 .. (FSSIZE - 1)
Zeros == [k \in 0 .. (BSIZE - 1) |-> 0]
NoFile == [addrs |-> [k \in 0..NDIRECT |-> 0], size |-> 0]

\* For counting what a transaction writes: the block of the bitmap with the bit
\* of b, and the block of an inode, apart from the numbers of Block.
Bitmap(b) == -2 - b \div BPB
INODE == -1

\* Faulty variant: half of the slop.
WriteMaxTight == ((MAXOPBLOCKS - 1 - 1) \div 2) * BSIZE

\* filewrite(): the bytes of one transaction.
WriteMax == ((MAXOPBLOCKS - 1 - 1 - 2) \div 2) * BSIZE

VARIABLES
  s,        \* the disk through the buffers, and the inodes in memory
  disk,     \* what is committed: used, data and dinode of s
  file,     \* ip and off of each open file; ip is 0 if it is not open
  call,     \* the filewrite() of a process: file, bytes left, value
  panic

fvars == <<s, disk, file, call, panic>>

NoCall == [f |-> 0, left |-> 0, byte |-> 0]
OnDisk(t) == [used |-> t.used, data |-> t.data, dinode |-> t.dinode]

\* A file system as mkfs leaves it, with empty files.
FInit ==
  /\ s = [used |-> Meta, data |-> [b \in Block |-> Zeros], dinode |-> [i \in Ino |-> NoFile],
          inode |-> [i \in Ino |-> NoFile], logged |-> {}, r |-> 0, out |-> FALSE]
  /\ disk = OnDisk(s)
  /\ file = [f \in File |-> [ip |-> 0, off |-> 0]]
  /\ call = [p \in Proc |-> NoCall]
  /\ panic = FALSE

-----------------------------------------------------------------------------
(* Blocks                                                                  *)

\* balloc() and bzero(): the first free block; without one it panics.
Balloc(t) ==
  LET free == Block \ t.used IN
  IF free = {} THEN [t EXCEPT !.out = TRUE]
  ELSE [t EXCEPT !.used = @ \cup {Min(free)}, !.r = Min(free), !.data[Min(free)] = Zeros,
                 !.logged = @ \cup {Bitmap(Min(free)), Min(free)}]

\* bfree(); freeing a free block panics.
Bfree(t, b) ==
  [t EXCEPT !.used = @ \ {b}, !.out = @ \/ b \notin t.used, !.logged = @ \cup {Bitmap(b)}]

\* bmap(ip, bn): the block with the bn-th part of the file, allocated if need
\* be, and the indirect block before it.
Bmap(t, i, bn) ==
  LET slot == IF bn < NDIRECT THEN bn ELSE NDIRECT
      top == IF t.inode[i].addrs[slot] # 0 THEN [t EXCEPT !.r = t.inode[i].addrs[slot]]
             ELSE LET u == Balloc(t) IN
                  IF u.out THEN u ELSE [u EXCEPT !.inode[i].addrs[slot] = u.r]
      a == top.data[top.r][bn - NDIRECT]
  IN IF bn < NDIRECT \/ top.out THEN top
     ELSE IF a # 0 THEN [top EXCEPT !.r = a]
     ELSE LET u == Balloc(top) IN
          IF u.out THEN u
          ELSE [u EXCEPT !.data[top.r][bn - NDIRECT] = u.r, !.logged = @ \cup {top.r}]

\* iupdate(ip)
Iupdate(t, i) == [t EXCEPT !.dinode[i] = t.inode[i], !.logged = @ \cup {INODE}]

-----------------------------------------------------------------------------
(* readi, writei, itrunc                                                   *)

\* The numbers, in the file, of the blocks that n bytes from off touch.
Touched(off, n) ==
  IF n = 0 THEN <<>>
  ELSE LET first == off \div BSIZE IN
       [k \in 1 .. ((off + n - 1) \div BSIZE - first + 1) |-> first + k - 1]

\* readi(): how many bytes it reads, and the state after the bmap() of each
\* block.  -1 is an error.
ReadLen(t, i, off, n) ==
  IF off > t.inode[i].size THEN -1
  ELSE IF off + n > t.inode[i].size THEN t.inode[i].size - off ELSE n

Readi(t, i, off, n) ==
  FoldLeft(LAMBDA u, bn : Bmap(u, i, bn), t, Touched(off, ReadLen(t, i, off, n)))

\* One turn of the loop of writei(): the part of the bytes that lies in bn.
WriteBlock(t, i, bn, off, src) ==
  LET u == Bmap(t, i, bn)
      pos(k) == bn * BSIZE + k - off + 1
  IN IF u.out THEN u
     ELSE [u EXCEPT !.logged = @ \cup {u.r},
                    !.data[u.r] = [k \in DOMAIN @ |-> IF pos(k) \in DOMAIN src THEN src[pos(k)]
                                                      ELSE @[k]]]

\* Faulty variant: the inode is written only if a block was added.
WriteiStale(t, i, off, src) ==
  LET n == Len(src)
      u == FoldLeft(LAMBDA v, bn : WriteBlock(v, i, bn, off, src), t, Touched(off, n))
      grown == [u EXCEPT !.inode[i].size = off + n]
  IN IF u.out \/ n = 0 \/ off + n <= t.inode[i].size THEN u
     ELSE IF u.used # t.used THEN Iupdate(grown, i) ELSE grown

\* writei(), after its tests: the blocks, then the size.
Writei(t, i, off, src) ==
  LET n == Len(src)
      u == FoldLeft(LAMBDA v, bn : WriteBlock(v, i, bn, off, src), t, Touched(off, n))
  IN IF u.out \/ n = 0 \/ off + n <= t.inode[i].size THEN u
     ELSE Iupdate([u EXCEPT !.inode[i].size = off + n], i)

WriteiFails(t, i, off, n) == off > t.inode[i].size \/ off + n > MAXFILE * BSIZE

\* Faulty variant: the indirect block itself is not freed.
ItruncIndirect(t, i) ==
  LET direct == {t.inode[i].addrs[k] : k \in 0 .. (NDIRECT - 1)} \ {0}
      ind == t.inode[i].addrs[NDIRECT]
      far == IF ind = 0 THEN {} ELSE {t.data[ind][k] : k \in DOMAIN t.data[ind]} \ {0}
      u == FoldLeft(Bfree, t, SetToSeq(direct) \o SetToSeq(far))
  IN Iupdate([u EXCEPT !.inode[i] = NoFile], i)

\* itrunc(): the direct blocks, those of the indirect block, and that block.
Itrunc(t, i) ==
  LET direct == {t.inode[i].addrs[k] : k \in 0 .. (NDIRECT - 1)} \ {0}
      ind == t.inode[i].addrs[NDIRECT]
      far == IF ind = 0 THEN {} ELSE {t.data[ind][k] : k \in DOMAIN t.data[ind]} \ {0}
      u == FoldLeft(Bfree, t, SetToSeq(direct) \o SetToSeq(far) \o SetToSeq({ind} \ {0}))
  IN Iupdate([u EXCEPT !.inode[i] = NoFile], i)

-----------------------------------------------------------------------------
(* The calls                                                               *)

\* A step ends: panic() if a routine did, and else the new state.
Done(t) ==
  IF t.out THEN panic' = TRUE /\ UNCHANGED s
  ELSE s' = [t EXCEPT !.r = 0] /\ UNCHANGED panic

\* begin_op().  Bound: one transaction is committed before the next begins;
\* module Log has several in one commit.
Begin_op == ~panic /\ disk = OnDisk(s)
Begun == [s EXCEPT !.logged = {}]

SysOpen(f, i) ==
  /\ file[f].ip = 0 /\ ~panic
  /\ file' = [file EXCEPT ![f] = [ip |-> i, off |-> 0]]
  /\ UNCHANGED <<s, disk, call, panic>>

\* The last fileclose() of f.
Fileclose(f) ==
  /\ file[f].ip # 0 /\ ~panic
  /\ \A p \in Proc : call[p].f # f
  /\ file' = [file EXCEPT ![f] = [ip |-> 0, off |-> 0]]
  /\ UNCHANGED <<s, disk, call, panic>>

\* iput() of an inode without links and without references.
Iput(i) ==
  /\ Begin_op /\ \A f \in File : file[f].ip # i
  /\ Done(Itrunc(Begun, i))
  /\ UNCHANGED <<disk, file, call>>

Fileread(f, n) ==
  LET i == file[f].ip
      r == ReadLen(s, i, file[f].off, n)
  IN /\ i # 0 /\ ~panic
     /\ Done(Readi(s, i, file[f].off, n))
     /\ file' = [file EXCEPT ![f].off = IF r > 0 THEN @ + r ELSE @]
     /\ UNCHANGED <<disk, call>>

SysWrite(p, f, n, c) ==
  /\ file[f].ip # 0 /\ call[p] = NoCall /\ ~panic
  /\ call' = [call EXCEPT ![p] = [f |-> f, left |-> n, byte |-> c]]
  /\ UNCHANGED <<s, disk, file, panic>>

\* One turn of the loop of filewrite().  An error ends the call and leaves the
\* turns before it as they are.
Filewrite(p) ==
  LET f == call[p].f
      i == file[f].ip
      off == file[f].off
      n1 == Min({call[p].left, WriteMax})
      t == Writei(Begun, i, off, [k \in 1..n1 |-> call[p].byte])
  IN /\ call[p] # NoCall /\ Begin_op
     /\ IF WriteiFails(s, i, off, n1)
          THEN call' = [call EXCEPT ![p] = NoCall] /\ UNCHANGED <<s, file, panic>>
          ELSE /\ Done(t)
               /\ file' = [file EXCEPT ![f].off = IF t.out THEN @ ELSE @ + n1]
               /\ call' = [call EXCEPT ![p] = IF @.left = n1 THEN NoCall
                                              ELSE [@ EXCEPT !.left = @ - n1]]
     /\ UNCHANGED disk

\* commit() of the log, which crashes may come before.
Commit ==
  /\ ~panic /\ disk # OnDisk(s)
  /\ disk' = OnDisk(s) /\ s' = [s EXCEPT !.logged = {}]
  /\ UNCHANGED <<file, call, panic>>

\* The machine stops, in panic() or by itself, and comes up again.
Crash ==
  /\ s' = [used |-> disk.used, data |-> disk.data, dinode |-> disk.dinode,
           inode |-> disk.dinode, logged |-> {}, r |-> 0, out |-> FALSE]
  /\ file' = [f \in File |-> [ip |-> 0, off |-> 0]]
  /\ call' = [p \in Proc |-> NoCall]
  /\ panic' = FALSE
  /\ UNCHANGED disk

FNext ==
  \/ Commit \/ Crash
  \/ \E i \in Ino : Iput(i) \/ \E f \in File : SysOpen(f, i)
  \/ \E f \in File : Fileclose(f) \/ \E n \in Count : Fileread(f, n)
  \/ \E p \in Proc : Filewrite(p) \/ \E f \in File, n \in Count, c \in Byte : SysWrite(p, f, n, c)

FSpec == FInit /\ [][FNext]_fvars

-----------------------------------------------------------------------------
(* Properties                                                              *)

\* The bytes of a file by the block map of an inode and the data of a disk.
Contents(ip, data) ==
  [k \in 1..ip.size |->
     LET bn == (k - 1) \div BSIZE
         b == IF bn < NDIRECT THEN ip.addrs[bn] ELSE data[ip.addrs[NDIRECT]][bn - NDIRECT]
     IN data[b][(k - 1) % BSIZE]]

Bytes == INSTANCE ByteFiles WITH
  MAXSIZE <- MAXFILE * BSIZE,
  bytes <- [i \in Ino |-> Contents(s.inode[i], s.data)],
  durable <- [i \in Ino |-> Contents(disk.dinode[i], disk.data)]

\* writei(), bmap() and itrunc() store files as sequences of bytes: a chunk of
\* filewrite() changes its own bytes of its own file, and what a commit has
\* made durable is what every crash returns to.
FileHasBytes == Bytes!BSpec

\* The blocks of the file of ip: those of its data and the indirect block.
Owned(ip, data) ==
  LET ind == ip.addrs[NDIRECT] IN
  ({ip.addrs[k] : k \in 0..NDIRECT}
     \cup (IF ind = 0 THEN {} ELSE {data[ind][k] : k \in 0 .. (NINDIRECT - 1)})) \ {0}

OwnedOnce(t) ==
  /\ \A i, j \in Ino : i # j => Owned(t.dinode[i], t.data) \cap Owned(t.dinode[j], t.data) = {}
  /\ t.used = Meta \cup UNION {Owned(t.dinode[i], t.data) : i \in Ino}

\* A block belongs to at most one file, and the bitmap has exactly the blocks
\* of files: none is lost and none is given out twice, on the disk that a
\* crash leaves and on the one in use, where the inodes in memory agree.
BlocksOwnedOnce ==
  OwnedOnce(disk) /\ OwnedOnce(s) /\ s.inode = s.dinode

\* filewrite() divides a write so that each transaction stays within the
\* MAXOPBLOCKS that begin_op() reserves, on which the space in the log rests.
ChunkFitsLog == Cardinality(s.logged) <= MAXOPBLOCKS
=============================================================================
