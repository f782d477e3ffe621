----------------------------- MODULE MCPrograms -----------------------------
(***************************************************************************)
(* Small instances, for TLC, of the console, the clock, the shell and the  *)
(* programs.  They share nothing: a behaviour is one of them, by the value *)
(* of which, while the others are off or stay as they begin.  What         *)
(* computes a result from its input is checked on the value of input.      *)
(***************************************************************************)
EXTENDS Console, Clock, FiniteSets, TLC

CONSTANTS
  MAXARGS, NOFILE,
  BSIZE, NDIRECT, NINDIRECT, NMETA, FSSIZE, BPB, NINODES, DIRENT, FileSize,
  DIRSIZ, W

VARIABLES
  which,
  script, line, proc,
  image, files, stage,
  input

svars == <<script, line, proc>>
mvars == <<image, files, stage>>
vars == <<which, cvars, kvars, svars, mvars, input>>

-----------------------------------------------------------------------------
P == INSTANCE Parse
G == INSTANCE Grep
X == INSTANCE Text

\* Commands without words or with one, those made of them, and those made of
\* these.
Simple == {P!execcmd(<<>>), P!execcmd(<<"a">>)}
Compound(S) ==
  {P!redircmd(c, "a", fd) : c \in S, fd \in {0, 1}} \cup {P!backcmd(c) : c \in S}
    \cup {P!pipecmd(c, d) : c, d \in S} \cup {P!listcmd(c, d) : c, d \in S}
Small == Simple \cup Compound(Simple)
Tree == Small \cup Compound(Small)

\* One line of any command, and two lines of small ones.
Words == {P!execcmd(<<"a">>)}
Short == Words \cup Compound(Words) \cup {P!PANIC}
Script == {<<c>> : c \in Tree} \cup {<<c, d>> : c, d \in Short}

UpTo(n, C) == UNION {[1..k -> C] : k \in 0..n}

\* What the parser, the matcher, the checks of setdate() and the functions on
\* bytes and text are given.
Input ==
  {<<"tree", c>> : c \in Tree}
    \cup {<<"line", ln>> : ln \in UpTo(4, {"a", " "} \cup P!Symbols)}
    \cup {<<"match", re, text>> : re \in UpTo(4, {"a", ".", "*", "^", "$"}),
                                  text \in UpTo(3, {"a", "b"})}
    \cup {<<"date", y, m, d>> : y \in {2000, 2003, 2004, 2089, 2096}, m \in 0..13, d \in 0..32}
    \cup {<<"move", dst, src, n>> : dst, src \in 0..4, n \in 0..4}
    \cup {<<"path", path>> : path \in UpTo(6, {1, 2, X!Slash})}
    \cup {<<"name", t, n>> : t \in [1..4 -> {0, 1}], n \in 0..3}
    \cup {<<"int", xx>> : xx \in -(2^(W - 1)) .. (2^(W - 1) - 1)}
    \cup {<<"format", fmt>> : fmt \in UpTo(5, {"%", "d", "s", "a"})}
    \cup {<<"text", text>> : text \in UpTo(5, {"a", " ", "newline"})}

\* A memory for memmove().
Mem == [a \in 0..8 |-> a]

Fields == <<3, 2, 12>>

S == INSTANCE Shell
M == INSTANCE Mkfs

-----------------------------------------------------------------------------
ClockOff ==
  /\ reg = 0 /\ ticks = 0 /\ call = "off" /\ date = 0 /\ left = 0
  /\ t1 = 0 /\ t2 = 0 /\ shown = {}
ShellOff == script = 0 /\ line = 0 /\ proc = <<>>
NoInput == input = <<"none">>

Init ==
  /\ CInit /\ M!MInit
  /\ \/ which \in {"console", "mkfs"} /\ ClockOff /\ ShellOff /\ NoInput
     \/ which = "clock" /\ KInit /\ ShellOff /\ NoInput
     \/ which = "shell" /\ ClockOff /\ S!SInit /\ NoInput
     \/ which = "input" /\ ClockOff /\ ShellOff /\ input \in Input

ConsoleStep == which = "console" /\ CNext /\ UNCHANGED <<which, kvars, svars, mvars, input>>
ClockStep == which = "clock" /\ KNext /\ UNCHANGED <<which, cvars, svars, mvars, input>>
ShellStep == which = "shell" /\ S!SNext /\ UNCHANGED <<which, cvars, kvars, mvars, input>>
MkfsStep == which = "mkfs" /\ M!MNext /\ UNCHANGED <<which, cvars, kvars, svars, input>>

Next == ConsoleStep \/ ClockStep \/ ShellStep \/ MkfsStep

Spec == Init /\ [][Next]_vars

Symmetry == Permutations(Reader)

-----------------------------------------------------------------------------
\* See the modules of the components for what these say of the code.

\* Shell: runcmd() gives each program its input and its output, and nothing else.
RunsAsWritten == which = "shell" => S!RunsAsWritten

\* Shell: no process waits for a pipe that another one forgot to close.
NothingHangs == which = "shell" => S!NothingHangs

\* What the programs compute is what it should be: parsecmd() reads back the tree
\* that a line was written from and loses no word or operator of any line it
\* accepts, match() is what its patterns mean, setdate() takes the dates of the
\* calendar, the image of mkfs holds the files and marks their blocks, memmove()
\* copies ranges that overlap, skipelem() and safestrcpy() keep names, printint(),
\* atoi() and the formats of printf() say the value, and wc counts the words.
ComputesRight ==
  /\ which = "mkfs" => M!ImageReadable
  /\ CASE input[1] = "tree" -> P!Reads(input[2])
       [] input[1] = "line" -> P!Exact(input[2])
       [] input[1] = "match" -> G!MatchExact(input[2], input[3])
       [] input[1] = "date" -> DateExact(input[2], input[3], input[4])
       [] input[1] = "move" -> X!MoveExact(Mem, input[2], input[3], input[4])
       [] input[1] = "path" -> X!PathExact(input[2])
       [] input[1] = "name" -> X!NameExact(input[2], input[3])
       [] input[1] = "int" -> X!PrintExact(input[2])
       [] input[1] = "format" -> X!FormatExact(input[2])
       [] input[1] = "text" -> X!CountExact(input[2])
       [] OTHER -> TRUE
=============================================================================
