-------------------------------- MODULE Shell -------------------------------
(***************************************************************************)
(* The shell at work (user/sh.c main, runcmd, fork1; user/init.c): the     *)
(* processes that run a line, with their file descriptors.                 *)
(*                                                                         *)
(* A process is named by the line and the place in the tree of the command *)
(* it was forked for; a pipe by the place of its command.  The programs    *)
(* are external: each reads its input to the end and exits.                *)
(***************************************************************************)
EXTENDS Parse, TLC

CONSTANTS
  NOFILE,       \* descriptors of a process
  Script        \* the sequences of commands that lines are parsed to

VARIABLES
  script,       \* the commands of the lines that the shell is given
  line,         \* the number of those that it has read
  proc          \* the processes: name -> record

svars == <<script, line, proc>>

init == <<-1>>
sh == <<0>>
none == <<"none">>
console == <<"console">>
Fd == 0 .. (NOFILE - 1)

Standard == [k \in Fd |-> IF k <= 2 THEN console ELSE none]

\* at is the place in the tree of the command that the process is running.
Process(parent, pc, cmd, at, fd) ==
  [parent |-> parent, pc |-> pc, cmd |-> cmd, at |-> at, fd |-> fd]

\* init has started the shell, which has made sure of descriptors 0 to 2.
SInit ==
  /\ script \in Script /\ line = 0
  /\ proc = (sh :> Process(init, "prompt", PANIC, <<>>, Standard))

-----------------------------------------------------------------------------
(* The system calls                                                        *)

Close(fd, k) == [fd EXCEPT ![k] = none]

Lowest(fd) == Min({k \in Fd : fd[k] = none})
Open(fd, f) == [fd EXCEPT ![Lowest(fd)] = f]

\* The process runs on at the given command.
Goes(p, pc, cmd, at, fd) == [proc EXCEPT ![p] = [@ EXCEPT !.pc = pc, !.cmd = cmd, !.at = at, !.fd = fd]]

Becomes(p, pc) == [proc EXCEPT ![p].pc = pc]

\* exit(): the descriptors are closed, init gets the children, and the parent,
\* unless it is init, will wait.
Exited(ps, p) ==
  LET heirs == [q \in DOMAIN ps |->
                  CASE q = p -> [ps[q] EXCEPT !.pc = "zombie", !.fd = [k \in Fd |-> none]]
                    [] ps[q].parent = p -> [ps[q] EXCEPT !.parent = init]
                    [] OTHER -> ps[q]]
      reaped == {q \in DOMAIN ps : heirs[q].pc = "zombie" /\ heirs[q].parent = init}
  IN [q \in DOMAIN ps \ reaped |-> heirs[q]]

\* fork1(): a child for a command, or a panic.
Fork1(p, child, pc, cmd, at, next) ==
  \/ proc' = (child :> Process(p, pc, cmd, at, proc[p].fd)) @@ Becomes(p, next)
  \/ proc' = Exited(proc, p)

-----------------------------------------------------------------------------
(* main                                                                    *)

\* A line is read and a child made for it; the child parses it.
Prompt ==
  /\ sh \in DOMAIN proc /\ proc[sh].pc = "prompt"
  /\ line < Len(script)
  /\ line' = line + 1
  /\ Fork1(sh, <<line'>>, "run", script[line'], <<line'>>, "wait")
  /\ UNCHANGED script

\* The end of the input.
Eof ==
  /\ sh \in DOMAIN proc /\ proc[sh].pc = "prompt"
  /\ line = Len(script)
  /\ proc' = Exited(proc, sh)
  /\ UNCHANGED <<script, line>>

\* init waits for the shell and starts another.
InitStarts ==
  /\ sh \notin DOMAIN proc /\ line < Len(script)
  /\ proc' = (sh :> Process(init, "prompt", PANIC, <<>>, Standard)) @@ proc
  /\ UNCHANGED <<script, line>>

-----------------------------------------------------------------------------
(* runcmd                                                                  *)

Runs(p, type) == proc[p].pc = "run" /\ proc[p].cmd.type = type

\* panic() in the parser, or exec() that fails or has nothing to run.
Fails(p) ==
  /\ proc[p].pc = "run" /\ proc[p].cmd.type \in {"PANIC", "EXEC"}
  /\ proc' = Exited(proc, p)

Exec(p) ==
  /\ Runs(p, "EXEC") /\ proc[p].cmd.argv # <<>>
  /\ proc' = Becomes(p, "program")

\* Faulty variant: the file is opened before the descriptor is closed.
RedirOpensFirst(p) ==
  LET c == proc[p].cmd IN
  /\ Runs(p, "REDIR")
  /\ \/ proc' = Goes(p, "run", c.cmd, proc[p].at \o <<1>>,
                     Close(Open(proc[p].fd, <<"file", c.file>>), c.fd))
     \/ proc' = Exited(proc, p)

Redir(p) ==
  LET c == proc[p].cmd IN
  /\ Runs(p, "REDIR")
  /\ \/ proc' = Goes(p, "run", c.cmd, proc[p].at \o <<1>>,
                     Open(Close(proc[p].fd, c.fd), <<"file", c.file>>))
     \/ proc' = Exited(proc, p)

List(p) ==
  LET at == proc[p].at \o <<1>> IN
  /\ Runs(p, "LIST")
  /\ Fork1(p, at, "run", proc[p].cmd.left, at, "wait")

Back(p) ==
  LET at == proc[p].at \o <<1>> IN
  /\ Runs(p, "BACK")
  /\ Fork1(p, at, "run", proc[p].cmd.cmd, at, "leave")

\* The descriptors of the process that are ends of its pipe.
Ends(p) == {k \in Fd : proc[p].fd[k][1] \in {"r", "w"} /\ proc[p].fd[k][2] = proc[p].at}

Pipe(p) ==
  /\ Runs(p, "PIPE")
  /\ \/ proc' = [proc EXCEPT ![p].pc = "left",
                   ![p].fd = Open(Open(@, <<"r", proc[p].at>>), <<"w", proc[p].at>>)]
     \/ proc' = Exited(proc, p)

\* A child of the pipe puts end in the place of descriptor k and closes both.
Plumbed(fd, at, k, end) ==
  LET dup == Open(Close(fd, k), <<end, at>>) IN
  [j \in Fd |-> IF j # k /\ dup[j] \in {<<"r", at>>, <<"w", at>>} THEN none ELSE dup[j]]

PipeLeft(p) ==
  LET at == proc[p].at \o <<1>> IN
  /\ proc[p].pc = "left"
  /\ \/ proc' = (at :> Process(p, "run", proc[p].cmd.left, at,
                               Plumbed(proc[p].fd, proc[p].at, 1, "w"))) @@ Becomes(p, "right")
     \/ proc' = Exited(proc, p)

\* Faulty variant: the parent keeps the end that is written to.
PipeRightKeeps(p) ==
  LET at == proc[p].at \o <<2>> IN
  /\ proc[p].pc = "right"
  /\ \/ proc' = (at :> Process(p, "run", proc[p].cmd.right, at,
                               Plumbed(proc[p].fd, proc[p].at, 0, "r"))) @@ Becomes(p, "wait2")
     \/ proc' = Exited(proc, p)

\* The child for the right side; the parent then closes its ends.
PipeRight(p) ==
  LET at == proc[p].at \o <<2>>
      closed == [k \in Fd |-> IF k \in Ends(p) THEN none ELSE proc[p].fd[k]]
  IN /\ proc[p].pc = "right"
     /\ \/ proc' = (at :> Process(p, "run", proc[p].cmd.right, at,
                                  Plumbed(proc[p].fd, proc[p].at, 0, "r")))
                     @@ Goes(p, "wait2", proc[p].cmd, proc[p].at, closed)
        \/ proc' = Exited(proc, p)

\* wait() for a child that has ended.  The shell never waits without a child.
Zombies(p) == {q \in DOMAIN proc : proc[q].parent = p /\ proc[q].pc = "zombie"}
Waited(p, ps) ==
  CASE proc[p].pc = "wait2" -> [ps EXCEPT ![p].pc = "wait"]
    [] p = sh -> [ps EXCEPT ![p].pc = "prompt"]
    [] proc[p].cmd.type = "LIST" ->
         [ps EXCEPT ![p] = [@ EXCEPT !.pc = "run", !.cmd = proc[p].cmd.right, !.at = @ \o <<2>>]]
    [] OTHER -> Exited(ps, p)

Wait(p) ==
  /\ proc[p].pc \in {"wait", "wait2"}
  /\ \E q \in Zombies(p) : proc' = Waited(p, [x \in DOMAIN proc \ {q} |-> proc[x]])

Leave(p) ==
  /\ proc[p].pc = "leave"
  /\ proc' = Exited(proc, p)

\* A program ends when its input does: at once, or when nobody can write to
\* the pipe it reads from.
Program(p) ==
  LET in == proc[p].fd[0] IN
  /\ proc[p].pc = "program"
  /\ in[1] = "r" => \A q \in DOMAIN proc, k \in Fd : proc[q].fd[k] # <<"w", in[2]>>
  /\ proc' = Exited(proc, p)

Runcmd(p) ==
  /\ \/ Fails(p) \/ Exec(p) \/ Redir(p) \/ List(p) \/ Back(p)
     \/ Pipe(p) \/ PipeLeft(p) \/ PipeRight(p) \/ Wait(p) \/ Leave(p) \/ Program(p)
  /\ UNCHANGED <<script, line>>

SNext == Prompt \/ Eof \/ InitStarts \/ \E p \in DOMAIN proc : Runcmd(p)

SSpec == SInit /\ [][SNext]_svars

-----------------------------------------------------------------------------
(* Properties                                                              *)

\* Who should run, with which input and output, by the tree alone.
RECURSIVE Wiring(_, _, _, _)
Wiring(cmd, at, in, out) ==
  CASE cmd.type = "EXEC" -> {[at |-> at, in |-> in, out |-> out]}
    [] cmd.type = "REDIR" -> Wiring(cmd.cmd, at \o <<1>>,
                               IF cmd.fd = 0 THEN <<"file", cmd.file>> ELSE in,
                               IF cmd.fd = 1 THEN <<"file", cmd.file>> ELSE out)
    [] cmd.type = "BACK" -> Wiring(cmd.cmd, at \o <<1>>, in, out)
    [] cmd.type = "PIPE" -> Wiring(cmd.left, at \o <<1>>, in, <<"w", at>>)
                              \cup Wiring(cmd.right, at \o <<2>>, <<"r", at>>, out)
    [] OTHER -> Wiring(cmd.left, at \o <<1>>, in, out) \cup Wiring(cmd.right, at \o <<2>>, in, out)

\* Each program runs with the input and the output that its place in the line
\* gives it and with no end of a pipe besides, whatever runcmd() did with
\* descriptors on the way and whichever calls failed elsewhere.
RunsAsWritten ==
  \A p \in DOMAIN proc : proc[p].pc = "program" =>
    LET fd == proc[p].fd IN
    /\ [at |-> proc[p].at, in |-> fd[0], out |-> fd[1]]
         \in Wiring(script[p[1]], <<p[1]>>, console, console)
    /\ \A k \in Fd : k >= 2 => fd[k] = Standard[k]

\* Programs that read to the end of their input all end, and so does each wait()
\* of the shell: no process keeps an end of a pipe open that another one waits
\* for to be closed.
NothingHangs == DOMAIN proc # {} => ENABLED SNext
=============================================================================
