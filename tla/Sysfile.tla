------------------------------ MODULE Sysfile -------------------------------
(***************************************************************************)
(* The system calls on names and open files: kernel/sysfile.c and the file *)
(* table of kernel/file.c, above the inodes of module Inode.               *)
(*                                                                         *)
(* begin_op() and end_op() make a call atomic on the disk (module Log);    *)
(* they do not keep calls apart, which is what the inode locks are for.    *)
(* What files contain is left to module Filedata.                          *)
(***************************************************************************)
EXTENDS Inode

CONSTANTS
  NFILE,        \* entries of ftable
  NOFILE,       \* open files of a process
  Calls         \* bound: the calls with a path that processes make, as tuples;
                \* a path says whether it is absolute, and its elements

Fd == 0 .. (NOFILE - 1)
File == 1..NFILE

VARIABLES
  ofile,        \* the entry of ftable for each descriptor; 0 for none
  ftable        \* ref and ip of each file

vars == <<disk, inode, code, cwd, panic, ofile, ftable>>

Init ==
  /\ IInit
  /\ ofile = [p \in Proc |-> [fd \in Fd |-> 0]]
  /\ ftable = [f \in File |-> [ref |-> 0, ip |-> 0]]

Freefd(p) == {fd \in Fd : ofile[p][fd] = 0}
Freefile == {f \in File : ftable[f].ref = 0}
Least(S) == CHOOSE x \in S : \A y \in S : x <= y

\* The first step of a call that looks up a path.
Enter(p, path, parent, rest) ==
  /\ code' = [code EXCEPT ![p] = <<Lookup(p, path, parent)>> \o rest]
  /\ inode' = Iget(inode, Start(p, path))
  /\ panic' = (panic \/ Full(inode, Start(p, path)))
  /\ UNCHANGED <<disk, cwd, ofile, ftable>>

files == <<ofile, ftable>>

Lastname(path) == path.elems[Len(path.elems)]

\* dirlink(dp, name, ip): a name that is not in dp yet gets the inode.
Dirlink(d, dp, name, ip) == [d EXCEPT ![dp][name] = ip]

-----------------------------------------------------------------------------
(* create                                                                  *)

\* create(path, type), for sys_open, sys_mkdir and sys_mknod.
Create(path, type) == <<"create", IF path.elems = <<>> THEN "" ELSE Lastname(path), type>>

\* The inode that ialloc() takes, the first free one on the disk.
FreeInum == {i \in Inum : dinode[i].type = "free"}

\* create() with the parent at hand: lock it and look for the name.  If it is
\* there, the parent is given back first; if not, ialloc() takes an inode and
\* the parent stays locked.
CreateLookup(p) ==
  /\ Op(p) = "create"
  /\ LET dp == Ret(p)
         name == Arg(p)[1]
         type == Arg(p)[2]
         c == Ilock(inode, dp, p)
         ip == dirent[dp][name]
         new == Least(FreeInum)
     IN \/ /\ dp = 0
           /\ Return(p, <<>>, 0)
           /\ UNCHANGED <<disk, inode, panic>>
        \/ /\ dp # 0 /\ Unlocked(dp) /\ NoType(dp)
           /\ panic' = TRUE
           /\ UNCHANGED <<disk, inode, code>>
        \/ /\ dp # 0 /\ Unlocked(dp) /\ ~NoType(dp) /\ ip # 0
           /\ Then(p, <<<<"iput", dp>>, <<"create_found", ip, type>>>>)
           /\ inode' = Iget(Iunlock(c, dp), ip)
           /\ panic' = (panic \/ Full(c, ip))
           /\ UNCHANGED <<disk>>
        \/ /\ dp # 0 /\ Unlocked(dp) /\ ~NoType(dp) /\ ip = 0
           /\ IF FreeInum = {}
                THEN panic' = TRUE /\ UNCHANGED <<disk, inode, code>>
                ELSE /\ dinode' = [dinode EXCEPT ![new] = [type |-> type, nlink |-> 0]]
                     /\ dirent' = [dirent EXCEPT ![new] = Empty]
                     /\ Then(p, <<<<"create_new", dp, new, name, type>>>>)
                     /\ inode' = Iget(c, new)
                     /\ panic' = (panic \/ Full(c, new))
  /\ UNCHANGED <<cwd, files>>

\* The name is there: lock it, and return it locked if both are files.
CreateFound(p) ==
  /\ Op(p) = "create_found"
  /\ LET ip == Arg(p)[1]
         c == Ilock(inode, ip, p)
     IN /\ Unlocked(ip)
        /\ IF Arg(p)[2] = "file" /\ c[ip].type = "file"
             THEN Return(p, <<>>, ip) /\ inode' = c
             ELSE /\ Return(p, <<<<"iput", ip>>>>, 0)
                  /\ inode' = Iunlock(c, ip)
        /\ panic' = (panic \/ NoType(ip))
  /\ UNCHANGED <<disk, cwd, files>>

\* The name is new: lock the inode, give it one link, enter "." and ".." and
\* the name, and give the parent back.  The inode is returned locked.
CreateNew(p) ==
  /\ Op(p) = "create_new"
  /\ LET dp == Arg(p)[1]
         ip == Arg(p)[2]
         name == Arg(p)[3]
         dir == Arg(p)[4] = "dir"
         c1 == SetNlink(Ilock(inode, ip, p), ip, 1)
         c == IF dir THEN SetNlink(c1, dp, c1[dp].nlink + 1) ELSE c1
     IN /\ Unlocked(ip)
        /\ inode' = Iunlock(c, dp)
        /\ dinode' = Iupdate(Iupdate(dinode, c, ip), c, dp)
        /\ dirent' = Dirlink(IF dir THEN Dirlink(Dirlink(dirent, ip, ".", ip), ip, "..", dp)
                             ELSE dirent, dp, name, ip)
        /\ Return(p, <<<<"iput", dp>>>>, ip)
        /\ panic' = (panic \/ NoType(ip))
  /\ UNCHANGED <<cwd, files>>

-----------------------------------------------------------------------------
(* sys_open, sys_mkdir, sys_mknod                                          *)

SysOpen(p, path, mode) ==
  /\ code[p] = <<>>
  /\ IF mode = "create"
       THEN Enter(p, path, TRUE, <<Create(path, "file"), <<"opened">>>>)
       ELSE Enter(p, path, FALSE, <<<<"open", mode>>>>)

\* filealloc() and fdalloc(), with ip locked: unlock it and, if there is no
\* file or no descriptor, put it.
Opened(p, ip, c) ==
  /\ inode' = Iunlock(c, ip)
  /\ IF Freefile = {} \/ Freefd(p) = {}
       THEN Then(p, <<<<"iput", ip>>>>) /\ UNCHANGED files
       ELSE /\ Then(p, <<>>)
            /\ ftable' = [ftable EXCEPT ![Least(Freefile)] = [ref |-> 1, ip |-> ip]]
            /\ ofile' = [ofile EXCEPT ![p][Least(Freefd(p))] = Least(Freefile)]

\* sys_open() after namei(): a directory may only be read.
OpenNamei(p) ==
  /\ Op(p) = "open"
  /\ LET ip == Ret(p)
         c == Ilock(inode, ip, p)
     IN \/ ip = 0 /\ Then(p, <<>>) /\ UNCHANGED <<inode, files, panic>>
        \/ /\ ip # 0 /\ Unlocked(ip)
           /\ IF c[ip].type = "dir" /\ Arg(p)[1] # "read"
                THEN inode' = Iunlock(c, ip) /\ Then(p, <<<<"iput", ip>>>>) /\ UNCHANGED files
                ELSE Opened(p, ip, c)
           /\ panic' = (panic \/ NoType(ip))
  /\ UNCHANGED <<disk, cwd>>

\* sys_open() after create(), which returned the inode locked.
OpenCreated(p) ==
  /\ Op(p) = "opened"
  /\ IF Ret(p) = 0 THEN Then(p, <<>>) /\ UNCHANGED <<inode, files>>
     ELSE Opened(p, Ret(p), inode)
  /\ UNCHANGED <<disk, cwd, panic>>

SysMkdir(p, path) ==
  /\ code[p] = <<>>
  /\ Enter(p, path, TRUE, <<Create(path, "dir"), <<"made">>>>)

SysMknod(p, path) ==
  /\ code[p] = <<>>
  /\ Enter(p, path, TRUE, <<Create(path, "dev"), <<"made">>>>)

\* The end of sys_mkdir() and sys_mknod(): iunlockput().
Made(p) ==
  /\ Op(p) = "made"
  /\ IF Ret(p) = 0 THEN Then(p, <<>>) /\ UNCHANGED inode
     ELSE inode' = Iunlock(inode, Ret(p)) /\ Then(p, <<<<"iput", Ret(p)>>>>)
  /\ UNCHANGED <<disk, cwd, panic, files>>

-----------------------------------------------------------------------------
(* sys_link                                                                *)

SysLink(p, old, new) ==
  code[p] = <<>> /\ Enter(p, old, FALSE, <<<<"link", new>>>>)

\* Faulty variant: the link is not counted before the name is entered.
LinkOldUncounted(p) ==
  /\ Op(p) = "link"
  /\ LET ip == Ret(p)
         new == Arg(p)[1]
         c == Iunlock(Ilock(inode, ip, p), ip)
     IN \/ ip = 0 /\ Then(p, <<>>) /\ UNCHANGED <<disk, inode, panic>>
        \/ /\ ip # 0 /\ Unlocked(ip)
           /\ IF c[ip].type = "dir"
                THEN inode' = c /\ Then(p, <<<<"iput", ip>>>>) /\ UNCHANGED disk
                ELSE /\ inode' = Iget(c, Start(p, new))
                     /\ UNCHANGED disk
                     /\ Then(p, <<Lookup(p, new, TRUE), <<"link_new", ip, Lastname(new)>>>>)
           /\ panic' = (panic \/ NoType(ip))
  /\ UNCHANGED <<cwd, files>>

\* sys_link() with the old inode at hand: count the link, and look up the
\* parent of the new name.
LinkOld(p) ==
  /\ Op(p) = "link"
  /\ LET ip == Ret(p)
         new == Arg(p)[1]
         c == Ilock(inode, ip, p)
         c2 == SetNlink(c, ip, c[ip].nlink + 1)
     IN \/ ip = 0 /\ Then(p, <<>>) /\ UNCHANGED <<disk, inode, panic>>
        \/ /\ ip # 0 /\ Unlocked(ip)
           /\ IF c[ip].type = "dir"
                THEN inode' = Iunlock(c, ip) /\ Then(p, <<<<"iput", ip>>>>) /\ UNCHANGED disk
                ELSE /\ inode' = Iget(Iunlock(c2, ip), Start(p, new))
                     /\ dinode' = Iupdate(dinode, c2, ip)
                     /\ Then(p, <<Lookup(p, new, TRUE), <<"link_new", ip, Lastname(new)>>>>)
                     /\ UNCHANGED dirent
           /\ panic' = (panic \/ NoType(ip))
  /\ UNCHANGED <<cwd, files>>

\* sys_link() with the parent at hand: dirlink(), which puts an inode that has
\* the name already while the parent is locked.
LinkNew(p) ==
  /\ Op(p) = "link_new"
  /\ LET dp == Ret(p)
         ip == Arg(p)[1]
         name == Arg(p)[2]
         c == Ilock(inode, dp, p)
         there == dirent[dp][name]
     IN \/ /\ dp = 0
           /\ Then(p, <<<<"link_bad", ip>>>>)
           /\ UNCHANGED <<disk, inode, panic>>
        \/ /\ dp # 0 /\ Unlocked(dp)
           /\ IF there # 0
                THEN /\ inode' = Iget(c, there)
                     /\ Then(p, <<<<"iput", there>>, <<"iunlock", dp>>, <<"iput", dp>>,
                                  <<"link_bad", ip>>>>)
                     /\ UNCHANGED disk
                ELSE /\ dirent' = Dirlink(dirent, dp, name, ip)
                     /\ inode' = Iunlock(c, dp)
                     /\ Then(p, <<<<"iput", dp>>, <<"iput", ip>>>>)
                     /\ UNCHANGED dinode
           /\ panic' = (panic \/ NoType(dp))
  /\ UNCHANGED <<cwd, files>>

\* Faulty variant: the old inode is not put.
LinkBadKeeps(p) ==
  /\ Op(p) = "link_bad"
  /\ LET ip == Arg(p)[1]
         c == Ilock(inode, ip, p)
         c2 == SetNlink(c, ip, c[ip].nlink - 1)
     IN /\ Unlocked(ip)
        /\ inode' = Iunlock(c2, ip)
        /\ dinode' = Iupdate(dinode, c2, ip)
        /\ Then(p, <<>>)
  /\ UNCHANGED <<dirent, cwd, panic, files>>

\* bad: take the link back.
LinkBad(p) ==
  /\ Op(p) = "link_bad"
  /\ LET ip == Arg(p)[1]
         c == Ilock(inode, ip, p)
         c2 == SetNlink(c, ip, c[ip].nlink - 1)
     IN /\ Unlocked(ip)
        /\ inode' = Iunlock(c2, ip)
        /\ dinode' = Iupdate(dinode, c2, ip)
        /\ Then(p, <<<<"iput", ip>>>>)
        /\ panic' = (panic \/ NoType(ip))
  /\ UNCHANGED <<dirent, cwd, files>>

\* iunlock() where another routine came between it and its ilock().
Unlock(p) ==
  /\ Op(p) = "iunlock"
  /\ inode' = Iunlock(inode, Arg(p)[1])
  /\ Then(p, <<>>)
  /\ UNCHANGED <<disk, cwd, panic, files>>

-----------------------------------------------------------------------------
(* sys_unlink                                                              *)

SysUnlink(p, path) ==
  /\ code[p] = <<>> /\ path.elems # <<>>
  /\ Enter(p, path, TRUE, <<<<"unlink", Lastname(path)>>>>)

\* sys_unlink() with the parent at hand: lock it and find the name; the parent
\* stays locked.
UnlinkLookup(p) ==
  /\ Op(p) = "unlink"
  /\ LET dp == Ret(p)
         name == Arg(p)[1]
         c == Ilock(inode, dp, p)
         ip == dirent[dp][name]
     IN \/ dp = 0 /\ Then(p, <<>>) /\ UNCHANGED <<inode, panic>>
        \/ /\ dp # 0 /\ Unlocked(dp)
           /\ IF name \in {".", ".."} \/ ip = 0
                THEN /\ inode' = Iunlock(c, dp)
                     /\ Then(p, <<<<"iput", dp>>>>)
                     /\ panic' = (panic \/ NoType(dp))
                ELSE /\ inode' = Iget(c, ip)
                     /\ Then(p, <<<<"unlink_ip", dp, ip, name>>>>)
                     /\ panic' = (panic \/ NoType(dp) \/ Full(c, ip))
  /\ UNCHANGED <<disk, cwd, files>>

Isdirempty(dp) == \A n \in Name : dirent[dp][n] = 0

\* Lock the inode as well.  A directory must be empty.  The entry is cleared
\* and the parent given back, while the inode stays locked.
UnlinkEntry(p) ==
  /\ Op(p) = "unlink_ip"
  /\ LET dp == Arg(p)[1]
         ip == Arg(p)[2]
         name == Arg(p)[3]
         c == Ilock(inode, ip, p)
         c2 == IF c[ip].type = "dir" THEN SetNlink(c, dp, c[dp].nlink - 1) ELSE c
     IN /\ Unlocked(ip)
        /\ IF c[ip].type = "dir" /\ ~Isdirempty(ip)
             THEN /\ inode' = Iunlock(c, ip)
                  /\ Then(p, <<<<"iput", ip>>, <<"iunlock", dp>>, <<"iput", dp>>>>)
                  /\ UNCHANGED disk
             ELSE /\ dirent' = [dirent EXCEPT ![dp][name] = 0]
                  /\ inode' = Iunlock(c2, dp)
                  /\ dinode' = Iupdate(dinode, c2, dp)
                  /\ Then(p, <<<<"iput", dp>>, <<"unlink_done", ip>>>>)
        /\ panic' = (panic \/ NoType(ip) \/ c[ip].nlink < 1)
  /\ UNCHANGED <<cwd, files>>

\* ip->nlink--, with ip locked all along, and iunlockput(ip).
UnlinkDone(p) ==
  /\ Op(p) = "unlink_done"
  /\ LET ip == Arg(p)[1]
         c == SetNlink(inode, ip, inode[ip].nlink - 1)
     IN /\ inode' = Iunlock(c, ip)
        /\ dinode' = Iupdate(dinode, c, ip)
        /\ Then(p, <<<<"iput", ip>>>>)
  /\ UNCHANGED <<dirent, cwd, panic, files>>

-----------------------------------------------------------------------------
(* sys_chdir, sys_close, sys_dup                                           *)

SysChdir(p, path) ==
  code[p] = <<>> /\ Enter(p, path, FALSE, <<<<"chdir">>>>)

\* sys_chdir() after namei(): the old directory is put, then replaced.
Chdir(p) ==
  /\ Op(p) = "chdir"
  /\ LET ip == Ret(p)
         c == Ilock(inode, ip, p)
     IN \/ ip = 0 /\ Then(p, <<>>) /\ UNCHANGED <<inode, panic>>
        \/ /\ ip # 0 /\ Unlocked(ip)
           /\ inode' = Iunlock(c, ip)
           /\ Then(p, IF c[ip].type # "dir" THEN <<<<"iput", ip>>>>
                      ELSE <<<<"iput", cwd[p]>>, <<"setcwd", ip>>>>)
           /\ panic' = (panic \/ NoType(ip))
  /\ UNCHANGED <<disk, cwd, files>>

SetCwd(p) ==
  /\ Op(p) = "setcwd"
  /\ cwd' = [cwd EXCEPT ![p] = Arg(p)[1]]
  /\ Then(p, <<>>)
  /\ UNCHANGED <<disk, inode, panic, files>>

\* sys_close() and fileclose(): the last reference puts the inode.
SysClose(p, fd) ==
  LET f == ofile[p][fd] IN
  /\ code[p] = <<>> /\ f # 0
  /\ ofile' = [ofile EXCEPT ![p][fd] = 0]
  /\ ftable' = [ftable EXCEPT ![f].ref = @ - 1, ![f].ip = IF ftable[f].ref = 1 THEN 0 ELSE @]
  /\ code' = [code EXCEPT ![p] = IF ftable[f].ref = 1 THEN <<<<"iput", ftable[f].ip>>>> ELSE @]
  /\ UNCHANGED <<disk, inode, cwd, panic>>

\* sys_dup(): fdalloc() and filedup().
SysDup(p, fd) ==
  LET f == ofile[p][fd] IN
  /\ code[p] = <<>> /\ f # 0 /\ Freefd(p) # {}
  /\ ofile' = [ofile EXCEPT ![p][Least(Freefd(p))] = f]
  /\ ftable' = [ftable EXCEPT ![f].ref = @ + 1]
  /\ UNCHANGED <<disk, inode, code, cwd, panic>>

-----------------------------------------------------------------------------
(* The specification                                                       *)

\* Bound: ialloc() panics when every inode is in use, so a call that may need
\* one starts only when there is one for it.
Room == Cardinality({p \in Proc : \E s \in Range(code[p]) : s[1] = "create"})
          < Cardinality(FreeInum)

Call(p) ==
  \/ \E c \in Calls :
       \/ c[1] = "open" /\ (c[3] = "create" => Room) /\ SysOpen(p, c[2], c[3])
       \/ c[1] = "mkdir" /\ Room /\ SysMkdir(p, c[2])
       \/ c[1] = "mknod" /\ Room /\ SysMknod(p, c[2])
       \/ c[1] = "unlink" /\ SysUnlink(p, c[2])
       \/ c[1] = "chdir" /\ SysChdir(p, c[2])
       \/ c[1] = "link" /\ SysLink(p, c[2], c[3])
  \/ \E fd \in Fd : SysClose(p, fd) \/ SysDup(p, fd)

Step(p) ==
  \/ (Namex(p) \/ Iput(p) \/ Ifree(p) \/ Idrop(p)) /\ UNCHANGED files
  \/ CreateLookup(p) \/ CreateFound(p) \/ CreateNew(p)
  \/ OpenNamei(p) \/ OpenCreated(p) \/ Made(p)
  \/ LinkOld(p) \/ LinkNew(p) \/ LinkBad(p) \/ Unlock(p)
  \/ UnlinkLookup(p) \/ UnlinkEntry(p) \/ UnlinkDone(p)
  \/ Chdir(p) \/ SetCwd(p)

Next == \E p \in Proc : Call(p) \/ Step(p)

Spec == Init /\ [][Next]_vars

-----------------------------------------------------------------------------
(* Properties                                                              *)

Idle == \A p \in Proc : code[p] = <<>>

\* An open file and a current directory keep their inode: whatever is
\* unlinked meanwhile, iput() frees an inode only with its last reference.  A
\* process that has put its directory in sys_chdir() is about to replace it.
OpenStaysAllocated ==
  /\ \A f \in File : ftable[f].ref > 0 => dinode[ftable[f].ip].type # "free"
  /\ \A p \in Proc : \/ dinode[cwd[p]].type = "dir"
                     \/ \E s \in Range(code[p]) : s[1] = "setcwd"

\* Names and counts agree in every interleaving of create, link and unlink: no
\* name of a directory leads to a free inode, where ilock() would panic, and
\* an inode has at least as many links as it has names, counting the ".." of
\* the directories inside it.
NameHasInode ==
  /\ ~panic
  /\ \A i \in Inum :
       LET names == {e \in Inum \X Name : dinode[e[1]].type = "dir" /\ dirent[e[1]][e[2]] = i}
           inside == {n \in Name : /\ dinode[i].type = "dir" /\ dirent[i][n] # 0
                                   /\ dinode[dirent[i][n]].type = "dir"}
       IN /\ names # {} => dinode[i].type # "free"
          /\ Cardinality(names) + Cardinality(inside) <= dinode[i].nlink

\* Every path through a call, the error paths included, gives back the locks
\* and the references that it took: a process outside of the kernel holds no
\* inode's lock, and when all are outside, an inode's references are the
\* current directories and the open files.
CallsBalance ==
  /\ \A i \in Inum, p \in Proc : inode[i].lock = p => code[p] # <<>>
  /\ Idle => \A i \in Inum :
       inode[i].ref = Cardinality({p \in Proc : cwd[p] = i})
                        + Cardinality({f \in File : ftable[f].ref > 0 /\ ftable[f].ip = i})

\* A copy of an inode that nobody has locked is the inode on the disk: every
\* change is written by iupdate() before the lock is released, and an inode
\* that was freed is read again.
CacheCoherent ==
  \A i \in Inum : inode[i].ref > 0 /\ inode[i].valid /\ inode[i].lock = Nobody =>
                    /\ inode[i].type = dinode[i].type
                    /\ inode[i].nlink = dinode[i].nlink

\* "If that was the last reference and the inode has no links to it, free the
\* inode": when no call is under way, an inode without links is in use.
FreedWhenUnused ==
  Idle => \A i \in Inum : dinode[i].type # "free" /\ dinode[i].nlink = 0 => inode[i].ref > 0

\* The lock that a process waits for.
Waits(p) ==
  LET i == CASE Op(p) \in {"iput", "create_found", "link_bad"} -> Arg(p)[1]
             [] Op(p) = "namex" /\ Arg(p)[2] # <<>> -> Arg(p)[1]
             [] Op(p) \in {"create_new", "unlink_ip"} -> Arg(p)[2]
             [] Op(p) \in {"create", "open", "link", "link_new", "unlink", "chdir"} -> Ret(p)
             [] OTHER -> 0
  IN IF i = 0 THEN Nobody ELSE inode[i].lock

\* Concurrent calls on the same file all return: no two processes wait for
\* inodes that the other has locked.
NoCircularWait ==
  \A p, q \in Proc : p # q => ~(Waits(p) = q /\ Waits(q) = p)
=============================================================================
