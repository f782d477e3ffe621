-------------------------------- MODULE Mkfs --------------------------------
(***************************************************************************)
(* The program that makes a file system (user/mkfs.c, and user/umkfs.c     *)
(* which runs on xv6 itself and adds no files): the root directory, the    *)
(* files, and the bitmap of what they take.                                *)
(*                                                                         *)
(* A byte of a file is the number of its place in the file, one of the     *)
(* root directory a part of the entry of an inode.                         *)
(***************************************************************************)
EXTENDS Integers, Sequences, FiniteSets, SequencesExt

CONSTANTS
  BSIZE, NDIRECT, NINDIRECT,
  NMETA,         \* blocks before the data
  FSSIZE,
  BPB,           \* bits of the bitmap's block
  NINODES,       \* bound: there are no more files than inodes
  DIRENT,        \* the size of a directory entry
  FileSize       \* the sizes of the files

VARIABLES
  image,         \* the image: inodes, blocks, freeblock
  files,         \* the sizes of the files written so far
  stage          \* "files", "done" or "failed" by an assertion

mvars == <<image, files, stage>>

ROOTINO == 1
MAXFILE == NDIRECT + NINDIRECT
Zeros == [k \in 0 .. (BSIZE - 1) |-> 0]
NoBlocks == [k \in 0 .. (NINDIRECT - 1) |-> 0]

\* A block has bytes, or block numbers if it is an indirect one.
Block == [bytes |-> Zeros, addrs |-> NoBlocks]

-----------------------------------------------------------------------------
(* ialloc, iappend                                                         *)

Ialloc(im, type) ==
  [im EXCEPT !.inode = Append(@, [type |-> type, size |-> 0,
                                  addrs |-> [k \in 0..NDIRECT |-> 0]])]

\* The next block, as number k of inode i.
TakeDirect(im, i, k) ==
  IF im.inode[i].addrs[k] # 0 THEN im
  ELSE [im EXCEPT !.inode[i].addrs[k] = im.freeblock, !.freeblock = @ + 1]

TakeIndirect(im, i, k) ==
  LET d == TakeDirect(im, i, NDIRECT)
      b == d.inode[i].addrs[NDIRECT]
  IN IF d.block[b].addrs[k] # 0 THEN d
     ELSE [d EXCEPT !.block[b].addrs[k] = d.freeblock, !.freeblock = @ + 1]

\* Where block fbn of inode i is; 0 when there is none.
Addr(im, i, fbn) ==
  IF fbn < NDIRECT THEN im.inode[i].addrs[fbn]
  ELSE IF im.inode[i].addrs[NDIRECT] = 0 THEN 0
  ELSE im.block[im.inode[i].addrs[NDIRECT]].addrs[fbn - NDIRECT]

\* iappend() of the bytes, which its loop takes a block at a time.  ok is the
\* assertion about the size of a file.
Iappend(im, i, bytes) ==
  LET put(m, x) ==
        LET off == m.inode[i].size
            fbn == off \div BSIZE
            t == IF fbn < NDIRECT THEN TakeDirect(m, i, fbn)
                 ELSE TakeIndirect(m, i, fbn - NDIRECT)
        IN IF ~m.ok \/ fbn >= MAXFILE THEN [m EXCEPT !.ok = FALSE]
           ELSE [t EXCEPT !.block[Addr(t, i, fbn)].bytes[off % BSIZE] = x,
                          !.inode[i].size = off + 1]
  IN FoldLeft(put, im, bytes)

Dirent(inum) == [k \in 1..DIRENT |-> inum]

-----------------------------------------------------------------------------
(* main                                                                    *)

\* Everything is zero, then the root directory with "." and "..".
MInit ==
  LET empty == [inode |-> <<>>, block |-> [b \in NMETA .. (FSSIZE - 1) |-> Block],
                freeblock |-> NMETA, bitmap |-> {}, ok |-> TRUE]
  IN /\ image = Iappend(Iappend(Ialloc(empty, "dir"), ROOTINO, Dirent(ROOTINO)),
                        ROOTINO, Dirent(ROOTINO))
     /\ files = <<>> /\ stage = "files"

\* The blocks that a file and its entry may need are on the disk.
Fits(size) == image.freeblock + size \div BSIZE + 4 <= FSSIZE

\* A file: its inode, its entry in the root directory, its bytes.
AddFile(size) ==
  LET inum == Len(image.inode) + 1
      im == Iappend(Iappend(Ialloc(image, "file"), ROOTINO, Dirent(inum)),
                    inum, [k \in 1..size |-> k])
  IN /\ stage = "files" /\ inum <= NINODES /\ Fits(size)
     /\ image' = im
     /\ files' = Append(files, size)
     /\ stage' = IF im.ok THEN "files" ELSE "failed"

\* balloc(): the blocks that are in use.
Balloc(im) == [im EXCEPT !.bitmap = 0 .. (im.freeblock - 1)]

\* The root directory is made to end with a block, and the bitmap is written.
Finish ==
  /\ stage = "files"
  /\ image' = Balloc([image EXCEPT !.inode[ROOTINO].size = (@ \div BSIZE + 1) * BSIZE])
  /\ stage' = IF image.freeblock < BPB THEN "done" ELSE "failed"
  /\ UNCHANGED files

MNext == Finish \/ \E size \in FileSize : AddFile(size)

MSpec == MInit /\ [][MNext]_mvars

-----------------------------------------------------------------------------
(* Properties                                                              *)

Inum == DOMAIN image.inode
Fbn(i) == {n \in 0 .. (MAXFILE - 1) : n * BSIZE < image.inode[i].size}

\* The blocks of an inode, those of its indirect block with them.
Owned(i) ==
  ({Addr(image, i, n) : n \in Fbn(i)} \cup {image.inode[i].addrs[NDIRECT]}) \ {0}

ByteAt(i, k) == image.block[Addr(image, i, k \div BSIZE)].bytes[k % BSIZE]

\* The image that is made is a file system for the kernel: each file has its
\* bytes in order, each directory entry is there, a block is in use exactly if
\* it is before the data or in one file at one place.  The last block of the
\* root directory may be missing: a size of whole blocks gets one more block.
ImageReadable ==
  stage = "done" =>
    /\ \A i \in Inum \ {ROOTINO} :
         /\ image.inode[i].size = files[i - 1]
         /\ \A k \in 0 .. (files[i - 1] - 1) : ByteAt(i, k) = k + 1
    /\ \A n \in 0 .. Len(files) : \A k \in 0 .. (DIRENT - 1) :
         ByteAt(ROOTINO, (n + 1) * DIRENT + k) = n + 1
    /\ \A i \in Inum : \A m, n \in Fbn(i) :
         m < n => Addr(image, i, m) # Addr(image, i, n)
    /\ \A i, j \in Inum : i # j => Owned(i) \cap Owned(j) = {}
    /\ image.bitmap = (0 .. (NMETA - 1)) \cup UNION {Owned(i) : i \in Inum}
=============================================================================
